------------------------------- MODULE MCPipe -------------------------------
(***************************************************************************)
(* Small instances of Pipe.  Payloads of one and of two bytes make the     *)
(* buffer stop below, at and above Limit; distinct bytes tell the order.   *)
(***************************************************************************)
EXTENDS Pipe, TLC

CONSTANTS w1, w2, r1, r2

MCPayloads == {<<1>>, <<2, 3>>}
MCSymmetry == Permutations({w1, w2}) \cup Permutations({r1, r2})
=============================================================================
