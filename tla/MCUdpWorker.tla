---------------------------- MODULE MCUdpWorker -----------------------------
(***************************************************************************)
(* Instances of UdpWorker: two sources and three connections.              *)
(***************************************************************************)
EXTENDS UdpWorker, TLC

CONSTANTS i1, i2

\* The sources are alike.
Symmetric == Permutations(Ids)
=============================================================================
