------------------------------- MODULE MCKcp --------------------------------
(***************************************************************************)
(* Small instances of Kcp.  Only A's user writes.  The receive window is   *)
(* smaller than what A may send in the run on transfer, and RemoteNext is  *)
(* as small, so that the advertised window closes.                         *)
(***************************************************************************)
EXTENDS Kcp

MCOneWay2 == [e \in Endpoints |-> IF e = A THEN 2 ELSE 0]
MCOneWay1 == [e \in Endpoints |-> IF e = A THEN 1 ELSE 0]
=============================================================================
