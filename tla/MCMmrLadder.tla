---------------------------- MODULE MCMmrLadder ----------------------------
(* Instances of MmrLadder for TLC. *)
EXTENDS MmrLadder

CONSTANTS ana, bea, cyd

\* ana meets bea, then bea meets cyd.
TwoMatches == <<<<ana, bea>>, <<bea, cyd>>>>
\* ... and cyd meets ana last.
ThreeMatches == <<<<ana, bea>>, <<bea, cyd>>, <<cyd, ana>>>>
=============================================================================
