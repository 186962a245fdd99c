-------------------------- MODULE MCActivityTimer ---------------------------
(***************************************************************************)
(* An instance of ActivityTimer: three SetTimeout calls in parallel.       *)
(***************************************************************************)
EXTENDS ActivityTimer

CONSTANTS main, up, down, extra
=============================================================================
