---------------------------- MODULE MCMatchRace ----------------------------
(* Instances of MatchRace for TLC: the matches and the request slots are   *)
(* interchangeable.                                                        *)
EXTENDS MatchRace, TLC

Interchangeable == Permutations(Requests)
=============================================================================
