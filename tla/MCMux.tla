------------------------------- MODULE MCMux --------------------------------
(***************************************************************************)
(* Instances of Mux: one or two requests on one worker.                    *)
(***************************************************************************)
EXTENDS Mux

CONSTANTS r1, r2
=============================================================================
