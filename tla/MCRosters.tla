----------------------------- MODULE MCRosters -----------------------------
(* Instances of Rosters for TLC: players and teams are interchangeable.    *)
EXTENDS Rosters, TLC

Interchangeable == Permutations(Players) \cup Permutations(Teams)
=============================================================================
