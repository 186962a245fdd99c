----------------------------- MODULE PipeProofs -----------------------------
(***************************************************************************)
(* The safety properties of module Pipe, for any number of goroutines, any *)
(* limit and any payloads.  The invariants checked by TLC are not          *)
(* inductive on their own; PipeInv adds what ties them together: done is   *)
(* closed exactly when the pipe is not open, an interrupted pipe is empty, *)
(* a call in progress carries a real payload, and a reader has seen EOF    *)
(* only on a closed, drained pipe.                                         *)
(***************************************************************************)
EXTENDS Pipe, SequenceTheorems, TLAPS

PipeInv ==
    /\ TypeOK
    /\ done = (state # "open")
    /\ state = "errord" => data = <<>>
    /\ InOrderNoLoss
    /\ BoundedBuffer
    /\ \A w \in Writers : wpc[w] # "idle" => wbuf[w] \in Payloads
    /\ \A r \in Readers : result[r] = "EOF" => state = "closed" /\ data = <<>>
    /\ NoStrandedReader
    /\ NoStrandedWriter

USE DEF pipeVars

(***************************************************************************)
(* Concatenation of byte sequences is associative.                         *)
(***************************************************************************)
LEMMA Assoc == \A s, t, u \in Seq(Nat) : (s \o t) \o u = s \o (t \o u)
  BY SMTT(30)

(***************************************************************************)
(* What appending a payload does to a buffer: the type, the length, that   *)
(* the result is not empty.                                                *)
(***************************************************************************)
LEMMA AppendPayload ==
    \A t \in Seq(Nat), mb \in Payloads :
        /\ mb \in Seq(Nat) /\ Len(mb) \in Nat /\ Len(mb) <= MaxPayload
        /\ t \o mb \in Seq(Nat)
        /\ t \o mb # <<>>
        /\ Len(t \o mb) = Len(t) + Len(mb)
<1> TAKE t \in Seq(Nat), mb \in Payloads
<1>1. mb \in Seq(Nat) /\ mb # <<>> /\ Len(mb) <= MaxPayload
  BY PipeAssumption
<1>2. t \o mb \in Seq(Nat) /\ Len(t \o mb) = Len(t) + Len(mb)
  BY <1>1, ConcatProperties
<1>3. t \o mb # <<>>
  BY <1>1, ConcatEqualIffEmpty
<1> QED
  BY <1>1, <1>2, <1>3, LenProperties

(***************************************************************************)
(* A new pipe satisfies the invariant.                                     *)
(***************************************************************************)
LEMMA InitInv == Init => PipeInv
<1> SUFFICES ASSUME Init PROVE PipeInv
  OBVIOUS
<1>1. TypeOK
  <2>1. 0 \in 0..MaxWrites /\ <<>> \in Seq(Nat)
    BY PipeAssumption
  <2> QED
    BY <2>1 DEF Init, New, TypeOK
<1>2. <<>> \o <<>> = <<>> /\ Len(<<>>) = 0
  BY EmptySeq, ConcatEmptySeq
<1>3. InOrderNoLoss /\ BoundedBuffer
  BY <1>2, PipeAssumption DEF Init, New, InOrderNoLoss, BoundedBuffer
<1>4. NoStrandedReader /\ NoStrandedWriter
  BY DEF Init, New, NoStrandedReader, NoStrandedWriter
<1> QED
  BY <1>1, <1>3, <1>4 DEF Init, New, PipeInv

(***************************************************************************)
(* Every step of every goroutine preserves it.                             *)
(***************************************************************************)
LEMMA NextInv == PipeInv /\ [Next]_vars => PipeInv'
<1> SUFFICES ASSUME PipeInv, [Next]_vars PROVE PipeInv'
  OBVIOUS
<1> USE DEF PipeInv
<1>1. ASSUME NEW w \in Writers, NEW mb \in Payloads, WriteMultiBuffer(w, mb)
      PROVE PipeInv'
  <2>1. writes' \in 0..MaxWrites
    BY <1>1, PipeAssumption DEF WriteMultiBuffer, TypeOK
  <2>2. TypeOK'
    BY <1>1, <2>1 DEF WriteMultiBuffer, TypeOK
  <2>3. NoStrandedReader' /\ NoStrandedWriter'
    BY <1>1 DEF WriteMultiBuffer, NoStrandedReader, NoStrandedWriter, TypeOK
  <2> QED
    BY <1>1, <2>2, <2>3 DEF WriteMultiBuffer, TypeOK, InOrderNoLoss, BoundedBuffer
<1>2. ASSUME NEW w \in Writers, WriteAccepted(w) PROVE PipeInv'
  <2> USE <1>2 DEF WriteAccepted
  <2>0. wbuf[w] \in Payloads /\ state = "open" /\ ~isFull
    BY DEF getStateForWrite, TypeOK
  <2>1. /\ data' \in Seq(Nat) /\ data' # <<>>
        /\ Len(data') = Len(data) + Len(wbuf[w])
        /\ accepted' \in Seq(Nat)
        /\ (delivered \o data) \o wbuf[w] = delivered \o data'
        /\ Len(wbuf[w]) <= MaxPayload /\ Len(wbuf[w]) \in Nat
    <3>1. delivered \in Seq(Nat) /\ data \in Seq(Nat) /\ accepted \in Seq(Nat)
      BY DEF TypeOK
    <3>2. wbuf[w] \in Seq(Nat)
      BY <2>0, <3>1, AppendPayload
    <3>3. (delivered \o data) \o wbuf[w] = delivered \o (data \o wbuf[w])
      BY <3>1, <3>2, Assoc, ZenonT(30)
    <3> QED
      BY <2>0, <3>1, <3>3, AppendPayload
  <2>2. TypeOK'
    BY <2>1 DEF TypeOK
  <2>3. InOrderNoLoss'
    BY <2>0, <2>1 DEF InOrderNoLoss
  <2>4. BoundedBuffer'
    BY <2>0, <2>1, PipeAssumption, LenProperties DEF BoundedBuffer, isFull, TypeOK
  <2>5. NoStrandedReader' /\ NoStrandedWriter'
    BY <2>1 DEF NoStrandedReader, NoStrandedWriter, TypeOK
  <2> QED
    BY <2>0, <2>2, <2>3, <2>4, <2>5 DEF TypeOK
<1>3. ASSUME NEW w \in Writers, WriteFull(w) PROVE PipeInv'
  <2> USE <1>3 DEF WriteFull
  <2>0. data # <<>>
    BY PipeAssumption DEF getStateForWrite, isFull, TypeOK
  <2> QED
    BY <2>0 DEF TypeOK, InOrderNoLoss, BoundedBuffer, NoStrandedReader, NoStrandedWriter
<1>4. ASSUME NEW w \in Writers, WriteRefused(w) PROVE PipeInv'
  <2>1. done
    BY <1>4 DEF WriteRefused, getStateForWrite
  <2> QED
    BY <1>4, <2>1 DEF WriteRefused, TypeOK, InOrderNoLoss, BoundedBuffer,
       NoStrandedReader, NoStrandedWriter
<1>5. ASSUME NEW w \in Writers, WriteReturn(w) PROVE PipeInv'
  BY <1>5 DEF WriteReturn, TypeOK, InOrderNoLoss, BoundedBuffer,
     NoStrandedReader, NoStrandedWriter
<1>6. ASSUME NEW w \in Writers, WriteWoken(w) PROVE PipeInv'
  BY <1>6 DEF WriteWoken, TypeOK, InOrderNoLoss, BoundedBuffer,
     NoStrandedReader, NoStrandedWriter
<1>7. ASSUME NEW r \in Readers, NEW t \in BOOLEAN, ReadMultiBuffer(r, t) PROVE PipeInv'
  BY <1>7 DEF ReadMultiBuffer, TypeOK, InOrderNoLoss, BoundedBuffer,
     NoStrandedReader, NoStrandedWriter
<1>8. ASSUME NEW r \in Readers, ReadTakes(r) PROVE PipeInv'
  <2> USE <1>8 DEF ReadTakes
  <2>0. /\ delivered \o data \in Seq(Nat)
        /\ (delivered \o data) \o <<>> = delivered \o data
        /\ Len(<<>>) = 0
    BY ConcatProperties, ConcatEmptySeq, EmptySeq DEF TypeOK
  <2>1. TypeOK'
    BY <2>0 DEF TypeOK
  <2>2. InOrderNoLoss' /\ BoundedBuffer'
    BY <2>0, PipeAssumption DEF InOrderNoLoss, BoundedBuffer
  <2>3. NoStrandedReader' /\ NoStrandedWriter'
    BY DEF NoStrandedReader, NoStrandedWriter, TypeOK
  <2> QED
    BY <2>1, <2>2, <2>3 DEF TypeOK
<1>9. ASSUME NEW r \in Readers, ReadFails(r) PROVE PipeInv'
  <2> USE <1>9 DEF ReadFails
  <2>0. /\ done
        /\ getStateForRead \in {"EOF", "ErrClosedPipe"}
        /\ getStateForRead = "EOF" => state = "closed" /\ data = <<>>
    BY DEF getStateForRead, TypeOK
  <2> QED
    BY <2>0 DEF TypeOK, InOrderNoLoss, BoundedBuffer, NoStrandedReader, NoStrandedWriter
<1>10. ASSUME NEW r \in Readers, ReadEmpty(r) PROVE PipeInv'
  BY <1>10 DEF ReadEmpty, TypeOK, InOrderNoLoss, BoundedBuffer,
     NoStrandedReader, NoStrandedWriter
<1>11. ASSUME NEW r \in Readers, ReadReturn(r) PROVE PipeInv'
  BY <1>11 DEF ReadReturn, TypeOK, InOrderNoLoss, BoundedBuffer,
     NoStrandedReader, NoStrandedWriter
<1>12. ASSUME NEW r \in Readers, ReadWoken(r) PROVE PipeInv'
  BY <1>12 DEF ReadWoken, TypeOK, InOrderNoLoss, BoundedBuffer,
     NoStrandedReader, NoStrandedWriter
<1>13. ASSUME NEW r \in Readers, ReadTimeout(r) PROVE PipeInv'
  BY <1>13 DEF ReadTimeout, TypeOK, InOrderNoLoss, BoundedBuffer,
     NoStrandedReader, NoStrandedWriter
<1>14. CASE Close
  BY <1>14 DEF Close, TypeOK, InOrderNoLoss, BoundedBuffer,
     NoStrandedReader, NoStrandedWriter
<1>15. CASE Interrupt
  <2>1. <<>> \in Seq(Nat) /\ Len(<<>>) = 0
    OBVIOUS
  <2>2. TypeOK'
    BY <1>15, <2>1 DEF Interrupt, TypeOK
  <2>3. InOrderNoLoss' /\ BoundedBuffer' /\ NoStrandedReader' /\ NoStrandedWriter'
    BY <1>15, <2>1, PipeAssumption DEF Interrupt, InOrderNoLoss, BoundedBuffer,
       NoStrandedReader, NoStrandedWriter
  <2> QED
    BY <1>15, <2>2, <2>3 DEF Interrupt
<1>16. CASE UNCHANGED vars
  BY <1>16 DEF vars, TypeOK, InOrderNoLoss, BoundedBuffer,
     NoStrandedReader, NoStrandedWriter
<1> QED
  BY <1>1, <1>2, <1>3, <1>4, <1>5, <1>6, <1>7, <1>8, <1>9, <1>10, <1>11,
     <1>12, <1>13, <1>14, <1>15, <1>16 DEF Next, WriterStep, ReaderStep

(***************************************************************************)
(* The inductive invariant holds in every reachable state of the pipe.     *)
(***************************************************************************)
THEOREM Invariance == Spec => []PipeInv
  BY InitInv, NextInv, PTL DEF Spec

-----------------------------------------------------------------------------
(***************************************************************************)
(* TypeOK for every instance.                                              *)
(***************************************************************************)
THEOREM TypeCorrect == Spec => []TypeOK
<1>1. PipeInv => TypeOK
  BY DEF PipeInv
<1> QED
  BY <1>1, Invariance, PTL

(***************************************************************************)
(* The pipe keeps the order of the bytes and loses none unless it is       *)
(* interrupted, whatever the writers and readers do.                       *)
(***************************************************************************)
THEOREM OrderPreserved == Spec => []InOrderNoLoss
<1>1. PipeInv => InOrderNoLoss
  BY DEF PipeInv
<1> QED
  BY <1>1, Invariance, PTL

(***************************************************************************)
(* A limited pipe never holds more than its limit and one payload.         *)
(***************************************************************************)
THEOREM BufferBounded == Spec => []BoundedBuffer
<1>1. PipeInv => BoundedBuffer
  BY DEF PipeInv
<1> QED
  BY <1>1, Invariance, PTL

(***************************************************************************)
(* A reader that was given io.EOF has missed nothing.                      *)
(***************************************************************************)
THEOREM EOFIsTheEnd == Spec => []EOFMeansDrained
<1>1. PipeInv => EOFMeansDrained
  <2> SUFFICES ASSUME PipeInv, NEW r \in Readers, result[r] = "EOF"
               PROVE  delivered = accepted
    BY DEF EOFMeansDrained
  <2>1. accepted = delivered \o <<>> /\ delivered \in Seq(Nat)
    BY DEF PipeInv, InOrderNoLoss, TypeOK
  <2> QED
    BY <2>1, ConcatEmptySeq
<1> QED
  BY <1>1, Invariance, PTL

(***************************************************************************)
(* With any number of goroutines on either side, the capacity-one          *)
(* notifiers lose no wake-up.                                              *)
(***************************************************************************)
THEOREM NoLostWakeup == Spec => [](NoStrandedReader /\ NoStrandedWriter)
<1>1. PipeInv => NoStrandedReader /\ NoStrandedWriter
  BY DEF PipeInv
<1> QED
  BY <1>1, Invariance, PTL

(***************************************************************************)
(* The locks, buffers and notifiers of the pipe implement the byte stream: *)
(* a write is accepted whole, a read catches up with everything sent, and  *)
(* every other step leaves the stream as it was.                           *)
(***************************************************************************)
THEOREM Refinement == Spec => ImplementsByteStream
<1>1. Init => Stream!Init
  BY DEF Init, New, Stream!Init
<1>2. PipeInv /\ [Next]_vars => [Stream!Next]_(Stream!vars)
  <2> SUFFICES ASSUME PipeInv, [Next]_vars PROVE [Stream!Next]_(Stream!vars)
    OBVIOUS
  <2> USE DEF Stream!vars
  <2>1. ASSUME NEW w \in Writers, WriteAccepted(w) PROVE Stream!Next
    <3>1. wbuf[w] \in Payloads /\ state = "open"
      BY <2>1 DEF WriteAccepted, getStateForWrite, PipeInv, TypeOK
    <3>2. Stream!Put(wbuf[w])
      BY <2>1, <3>1 DEF WriteAccepted, Stream!Put
    <3> QED
      BY <3>1, <3>2 DEF Stream!Next
  <2>2. ASSUME NEW r \in Readers, ReadTakes(r) PROVE Stream!Next
    <3>1. state # "errord" /\ accepted = delivered \o data
      BY <2>2 DEF ReadTakes, PipeInv, InOrderNoLoss
    <3>2. Stream!Take
      BY <2>2, <3>1 DEF ReadTakes, Stream!Take
    <3> QED
      BY <3>2 DEF Stream!Next
  <2>3. Close => Stream!Next
    BY DEF Close, Stream!End, Stream!Next
  <2>4. Interrupt => Stream!Next
    BY DEF Interrupt, Stream!End, Stream!Next
  <2>5. ASSUME NEW w \in Writers,
               \/ \E mb \in Payloads : WriteMultiBuffer(w, mb)
               \/ WriteFull(w) \/ WriteRefused(w) \/ WriteReturn(w) \/ WriteWoken(w)
        PROVE  UNCHANGED Stream!vars
    BY <2>5 DEF WriteMultiBuffer, WriteFull, WriteRefused, WriteReturn, WriteWoken
  <2>6. ASSUME NEW r \in Readers,
               \/ \E t \in BOOLEAN : ReadMultiBuffer(r, t)
               \/ ReadFails(r) \/ ReadEmpty(r) \/ ReadReturn(r) \/ ReadWoken(r)
               \/ ReadTimeout(r)
        PROVE  UNCHANGED Stream!vars
    BY <2>6 DEF ReadMultiBuffer, ReadFails, ReadEmpty, ReadReturn, ReadWoken, ReadTimeout
  <2>7. UNCHANGED vars => UNCHANGED Stream!vars
    BY DEF vars
  <2> QED
    BY <2>1, <2>2, <2>3, <2>4, <2>5, <2>6, <2>7 DEF Next, WriterStep, ReaderStep
<1> QED
  BY <1>1, <1>2, Invariance, PTL DEF Spec, ImplementsByteStream, Stream!Spec
=============================================================================
