----------------------------- MODULE ByteStream -----------------------------
(***************************************************************************)
(* What a one-way in-memory link promises its two ends, with no buffer, no *)
(* locks and no wake-ups: a byte sequence that only grows, of which the    *)
(* reader has been given a prefix.  A graceful close lets the reader reach *)
(* the end of what was sent; an interruption cuts it off where it is.      *)
(* transport/pipe implements this (module Pipe), and the modules of the    *)
(* components that sit on pipes assume no more than this of them.          *)
(***************************************************************************)
EXTENDS Naturals, Sequences

CONSTANT Payloads   \* the non-empty chunks that may be written

VARIABLES sent,     \* every byte accepted from a writer, in order
          rcvd,     \* every byte handed to a reader, in order
          status    \* "open", "closed" (gracefully) or "errord" (interrupted)

vars == <<sent, rcvd, status>>

Init == sent = <<>> /\ rcvd = <<>> /\ status = "open"

Put(mb) ==
    /\ status = "open"
    /\ sent' = sent \o mb
    /\ UNCHANGED <<rcvd, status>>

Take ==
    /\ status # "errord"
    /\ rcvd' = sent
    /\ UNCHANGED <<sent, status>>

End(how) ==
    /\ status = "open"
    /\ status' = how
    /\ UNCHANGED <<sent, rcvd>>

Next == (\E mb \in Payloads : Put(mb)) \/ Take \/ End("closed") \/ End("errord")

Spec == Init /\ [][Next]_vars
=============================================================================
