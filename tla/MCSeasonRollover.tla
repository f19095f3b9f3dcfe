-------------------------- MODULE MCSeasonRollover --------------------------
(* Instances of SeasonRollover for TLC. *)
EXTENDS SeasonRollover

CONSTANTS server1, server2, request, request2, nobody

OneServer == {server1}
TwoServers == {server1, server2}
OneRequest == {request}
TwoRequests == {request, request2}
=============================================================================
