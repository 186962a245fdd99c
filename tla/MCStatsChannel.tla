--------------------------- MODULE MCStatsChannel ---------------------------
(***************************************************************************)
(* Instances of StatsChannel: two or three clients, one or two Starts.     *)
(***************************************************************************)
EXTENDS StatsChannel, TLC

CONSTANTS c1, c2, c3

\* The clients are alike, if all of them may leave.
Symmetric == Permutations(Clients)
=============================================================================
