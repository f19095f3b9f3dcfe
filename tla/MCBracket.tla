----------------------------- MODULE MCBracket -----------------------------
(* Instances of Bracket for TLC. *)
EXTENDS Bracket, TLC

CONSTANTS req1, req2

SymRequests == Permutations({req1, req2})
=============================================================================
