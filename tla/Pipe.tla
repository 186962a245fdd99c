-------------------------------- MODULE Pipe --------------------------------
(***************************************************************************)
(* transport/pipe: the bounded in-memory pipe that joins an inbound to an  *)
(* outbound, a mux session to its worker, a dispatcher to a proxy.  Each   *)
(* critical section of pipe.Mutex is one step; between two of them a       *)
(* goroutine's position is its program counter:                            *)
(*   "idle"   not in a call                                                *)
(*   "try"    about to enter the critical section                          *)
(*   "signal" out of it, about to Signal() the other side and return       *)
(*   "wait"   blocked in the select                                        *)
(* A Notifier is a channel of capacity one: its token is a Boolean, and    *)
(* Signal() on a pending token is absorbed.                                *)
(***************************************************************************)
EXTENDS Integers, Sequences

CONSTANTS Writers, Readers,  \* goroutines that call the two ends
          Limit,             \* pipeOption.limit; negative is no limit
          DiscardOverflow,   \* pipeOption.discardOverflow
          Payloads,          \* the non-empty MultiBuffers that may be written
          MaxPayload,        \* the largest of them, in bytes
          MaxWrites          \* bound on the number of WriteMultiBuffer calls

ASSUME PipeAssumption ==
    /\ Limit \in Int
    /\ DiscardOverflow \in BOOLEAN
    /\ MaxPayload \in Nat
    /\ MaxWrites \in Nat
    /\ Payloads \subseteq Seq(Nat)
    /\ \A mb \in Payloads : mb # <<>> /\ Len(mb) <= MaxPayload

VARIABLES state,        \* pipe.state
          data,         \* pipe.data, as the bytes it holds
          readSignal,   \* a token is pending in pipe.readSignal
          writeSignal,  \* a token is pending in pipe.writeSignal
          done,         \* pipe.done is closed
          wpc, wbuf,    \* each writer's position and its mb
          rpc, timed,   \* each reader's position; the call has a timeout
          result,       \* what each reader's last call returned
          writes,       \* number of WriteMultiBuffer calls so far
          accepted,     \* history: the bytes that entered pipe.data
          delivered     \* history: the bytes readers took out

pipeVars == <<state, data, readSignal, writeSignal, done>>
vars == <<state, data, readSignal, writeSignal, done, wpc, wbuf, rpc, timed,
          result, writes, accepted, delivered>>

New ==
    /\ state = "open" /\ data = <<>> /\ done = FALSE
    /\ readSignal = FALSE /\ writeSignal = FALSE

Init ==
    /\ New
    /\ wpc = [w \in Writers |-> "idle"] /\ wbuf = [w \in Writers |-> <<>>]
    /\ rpc = [r \in Readers |-> "idle"] /\ timed = [r \in Readers |-> FALSE]
    /\ result = [r \in Readers |-> "none"]
    /\ writes = 0 /\ accepted = <<>> /\ delivered = <<>>

\* Mutant: the sign test of the limit is inverted.
isFullMutant == Limit < 0 /\ Len(data) > Limit

isFull == Limit >= 0 /\ Len(data) > Limit

(***************************************************************************)
(* getState's answer to a writer and to a reader.                          *)
(***************************************************************************)
getStateForWrite ==
    CASE state = "open" /\ isFull  -> "errBufferFull"
      [] state = "open" /\ ~isFull -> "nil"
      [] state # "open"            -> "ErrClosedPipe"

\* Mutant: a closed pipe reports EOF at once.
getStateForReadMutant ==
    CASE state = "open"   -> "nil"
      [] state = "closed" -> "EOF"
      [] state = "errord" -> "ErrClosedPipe"

\* Mutant: fullness is reported to readers too (forRead ignored).
getStateForReadFullMutant ==
    CASE state = "open" /\ isFull       -> "errBufferFull"
      [] state = "open" /\ ~isFull      -> "nil"
      [] state = "closed" /\ data # <<>> -> "nil"
      [] state = "closed" /\ data = <<>> -> "EOF"
      [] state = "errord"               -> "ErrClosedPipe"

getStateForRead ==
    CASE state = "open"                   -> "nil"
      [] state = "closed" /\ data # <<>>  -> "nil"
      [] state = "closed" /\ data = <<>>  -> "EOF"
      [] state = "errord"                 -> "ErrClosedPipe"

-----------------------------------------------------------------------------
(***************************************************************************)
(* WriteMultiBuffer.                                                       *)
(***************************************************************************)
WriteMultiBuffer(w, mb) ==
    /\ wpc[w] = "idle"
    /\ writes < MaxWrites
    /\ writes' = writes + 1
    /\ wpc' = [wpc EXCEPT ![w] = "try"]
    /\ wbuf' = [wbuf EXCEPT ![w] = mb]
    /\ UNCHANGED <<pipeVars, rpc, timed, result, accepted, delivered>>

\* Mutant: MergeMulti with its arguments swapped.
WriteAcceptedMutant(w) ==
    /\ wpc[w] = "try"
    /\ getStateForWrite = "nil"
    /\ data' = wbuf[w] \o data
    /\ accepted' = accepted \o wbuf[w]
    /\ wpc' = [wpc EXCEPT ![w] = "signal"]
    /\ UNCHANGED <<state, readSignal, writeSignal, done, wbuf, rpc, timed,
                   result, writes, delivered>>

\* The payload goes in whole; errSlowDown only adds a Gosched().
WriteAccepted(w) ==
    /\ wpc[w] = "try"
    /\ getStateForWrite = "nil"
    /\ data' = data \o wbuf[w]
    /\ accepted' = accepted \o wbuf[w]
    /\ wpc' = [wpc EXCEPT ![w] = "signal"]
    /\ UNCHANGED <<state, readSignal, writeSignal, done, wbuf, rpc, timed,
                   result, writes, delivered>>

\* A full pipe blocks the writer, or with discardOverflow drops the payload.
WriteFull(w) ==
    /\ wpc[w] = "try"
    /\ getStateForWrite = "errBufferFull"
    /\ wpc' = [wpc EXCEPT ![w] = IF DiscardOverflow THEN "idle" ELSE "wait"]
    /\ UNCHANGED <<pipeVars, wbuf, rpc, timed, result, writes, accepted, delivered>>

\* A pipe that is no longer open fails the write, which still signals readers.
WriteRefused(w) ==
    /\ wpc[w] = "try"
    /\ getStateForWrite = "ErrClosedPipe"
    /\ wpc' = [wpc EXCEPT ![w] = "signal"]
    /\ UNCHANGED <<pipeVars, wbuf, rpc, timed, result, writes, accepted, delivered>>

\* Mutant: the reader is not told of the new data.
WriteReturnMutant(w) ==
    /\ wpc[w] = "signal"
    /\ wpc' = [wpc EXCEPT ![w] = "idle"]
    /\ UNCHANGED <<pipeVars, wbuf, rpc, timed, result, writes, accepted, delivered>>

WriteReturn(w) ==
    /\ wpc[w] = "signal"
    /\ readSignal' = TRUE
    /\ wpc' = [wpc EXCEPT ![w] = "idle"]
    /\ UNCHANGED <<state, data, writeSignal, done, wbuf, rpc, timed, result,
                   writes, accepted, delivered>>

\* The select of a blocked writer: either ready case may be chosen.
WriteWoken(w) ==
    /\ wpc[w] = "wait"
    /\ \/ /\ writeSignal
          /\ writeSignal' = FALSE
          /\ wpc' = [wpc EXCEPT ![w] = "try"]
       \/ /\ done
          /\ wpc' = [wpc EXCEPT ![w] = "idle"]
          /\ UNCHANGED writeSignal
    /\ UNCHANGED <<state, data, readSignal, done, wbuf, rpc, timed, result,
                   writes, accepted, delivered>>

-----------------------------------------------------------------------------
(***************************************************************************)
(* ReadMultiBuffer (t = FALSE) and ReadMultiBufferTimeout (t = TRUE).      *)
(***************************************************************************)
ReadMultiBuffer(r, t) ==
    /\ rpc[r] = "idle"
    /\ rpc' = [rpc EXCEPT ![r] = "try"]
    /\ timed' = [timed EXCEPT ![r] = t]
    /\ UNCHANGED <<pipeVars, wpc, wbuf, result, writes, accepted, delivered>>

\* A read takes everything that is buffered.
ReadTakes(r) ==
    /\ rpc[r] = "try"
    /\ getStateForRead = "nil" /\ data # <<>>
    /\ delivered' = delivered \o data
    /\ data' = <<>>
    /\ result' = [result EXCEPT ![r] = "data"]
    /\ rpc' = [rpc EXCEPT ![r] = "signal"]
    /\ UNCHANGED <<state, readSignal, writeSignal, done, wpc, wbuf, timed,
                   writes, accepted>>

ReadFails(r) ==
    /\ rpc[r] = "try"
    /\ getStateForRead # "nil"
    /\ result' = [result EXCEPT ![r] = getStateForRead]
    /\ rpc' = [rpc EXCEPT ![r] = "signal"]
    /\ UNCHANGED <<pipeVars, wpc, wbuf, timed, writes, accepted, delivered>>

ReadEmpty(r) ==
    /\ rpc[r] = "try"
    /\ getStateForRead = "nil" /\ data = <<>>
    /\ rpc' = [rpc EXCEPT ![r] = "wait"]
    /\ UNCHANGED <<pipeVars, wpc, wbuf, timed, result, writes, accepted, delivered>>

\* Mutant: only a failed read wakes the writers.
ReadReturnMutant(r) ==
    /\ rpc[r] = "signal"
    /\ writeSignal' = (writeSignal \/ result[r] # "data")
    /\ rpc' = [rpc EXCEPT ![r] = "idle"]
    /\ UNCHANGED <<state, data, readSignal, done, wpc, wbuf, timed, result,
                   writes, accepted, delivered>>

ReadReturn(r) ==
    /\ rpc[r] = "signal"
    /\ writeSignal' = TRUE
    /\ rpc' = [rpc EXCEPT ![r] = "idle"]
    /\ UNCHANGED <<state, data, readSignal, done, wpc, wbuf, timed, result,
                   writes, accepted, delivered>>

ReadWoken(r) ==
    /\ rpc[r] = "wait"
    /\ \/ readSignal /\ readSignal' = FALSE
       \/ done /\ UNCHANGED readSignal
    /\ rpc' = [rpc EXCEPT ![r] = "try"]
    /\ UNCHANGED <<state, data, writeSignal, done, wpc, wbuf, timed, result,
                   writes, accepted, delivered>>

ReadTimeout(r) ==
    /\ rpc[r] = "wait" /\ timed[r]
    /\ rpc' = [rpc EXCEPT ![r] = "idle"]
    /\ result' = [result EXCEPT ![r] = "ErrReadTimeout"]
    /\ UNCHANGED <<pipeVars, wpc, wbuf, timed, writes, accepted, delivered>>

-----------------------------------------------------------------------------
(***************************************************************************)
(* Close and Interrupt, which any goroutine holding an end may call; on a  *)
(* pipe that is not open neither does anything.                            *)
(***************************************************************************)
Close ==
    /\ state = "open"
    /\ state' = "closed" /\ done' = TRUE
    /\ UNCHANGED <<data, readSignal, writeSignal, wpc, wbuf, rpc, timed, result,
                   writes, accepted, delivered>>

\* Mutant: Interrupt also acts on a pipe that was closed.
InterruptMutant ==
    /\ state # "errord"
    /\ state' = "errord" /\ done' = TRUE
    /\ data' = <<>>
    /\ UNCHANGED <<readSignal, writeSignal, wpc, wbuf, rpc, timed, result,
                   writes, accepted, delivered>>

Interrupt ==
    /\ state = "open"
    /\ state' = "errord" /\ done' = TRUE
    /\ data' = <<>>
    /\ UNCHANGED <<readSignal, writeSignal, wpc, wbuf, rpc, timed, result,
                   writes, accepted, delivered>>

-----------------------------------------------------------------------------
WriterStep(w) == \/ WriteAccepted(w) \/ WriteFull(w) \/ WriteRefused(w)
                 \/ WriteReturn(w) \/ WriteWoken(w)

ReaderStep(r) == \/ ReadTakes(r) \/ ReadFails(r) \/ ReadEmpty(r)
                 \/ ReadReturn(r) \/ ReadWoken(r)

Next ==
    \/ \E w \in Writers : WriterStep(w) \/ \E mb \in Payloads : WriteMultiBuffer(w, mb)
    \/ \E r \in Readers : \/ ReaderStep(r) \/ ReadTimeout(r)
                          \/ \E t \in BOOLEAN : ReadMultiBuffer(r, t)
    \/ Close
    \/ Interrupt

Spec == Init /\ [][Next]_vars

(***************************************************************************)
(* Fairness: a runnable goroutine is eventually scheduled, and some reader *)
(* reads in a loop, as buf.Copy does.  Nobody owes a write or a close.     *)
(***************************************************************************)
Fairness ==
    /\ \A w \in Writers : WF_vars(WriterStep(w))
    /\ \A r \in Readers : WF_vars(ReaderStep(r) \/ ReadMultiBuffer(r, FALSE))

FairSpec == Spec /\ Fairness

-----------------------------------------------------------------------------
TypeOK ==
    /\ state \in {"open", "closed", "errord"}
    /\ data \in Seq(Nat)
    /\ readSignal \in BOOLEAN /\ writeSignal \in BOOLEAN /\ done \in BOOLEAN
    /\ wpc \in [Writers -> {"idle", "try", "signal", "wait"}]
    /\ wbuf \in [Writers -> Payloads \cup {<<>>}]
    /\ rpc \in [Readers -> {"idle", "try", "signal", "wait"}]
    /\ timed \in [Readers -> BOOLEAN]
    /\ result \in [Readers -> {"none", "data", "EOF", "ErrClosedPipe", "ErrReadTimeout"}]
    /\ writes \in 0..MaxWrites
    /\ accepted \in Seq(Nat) /\ delivered \in Seq(Nat)

(***************************************************************************)
(* Unless the pipe was interrupted, what readers took followed by what is  *)
(* buffered is exactly what writers put in: writeMultiBufferInternal and   *)
(* readMultiBufferInternal neither lose, repeat nor reorder a byte, however *)
(* many goroutines are in them.                                            *)
(***************************************************************************)
InOrderNoLoss == state # "errord" => accepted = delivered \o data

(***************************************************************************)
(* isFull is tested before the payload is merged, so the buffer can pass   *)
(* the limit, but never by more than one payload, even with many writers   *)
(* released by one token of writeSignal.                                   *)
(***************************************************************************)
BoundedBuffer == Limit >= 0 => Len(data) <= Limit + MaxPayload

(***************************************************************************)
(* io.EOF is the end of the stream: a reader that got it can be sure that  *)
(* every byte any WriteMultiBuffer accepted has been handed to a reader,   *)
(* also when Close and Interrupt raced with writers still in their calls.  *)
(***************************************************************************)
EOFMeansDrained == \A r \in Readers : result[r] = "EOF" => delivered = accepted

(***************************************************************************)
(* No lost wake-up of a reader: when one is blocked in its select and data *)
(* is buffered, the pipe is done, a token is pending in readSignal, a      *)
(* writer is about to put one there, or another reader is about to look.   *)
(***************************************************************************)
NoStrandedReader ==
    (\E r \in Readers : rpc[r] = "wait") /\ data # <<>> =>
        \/ readSignal \/ done
        \/ \E w \in Writers : wpc[w] = "signal"
        \/ \E r \in Readers : rpc[r] = "try"

(***************************************************************************)
(* No lost wake-up of a writer: one token of writeSignal releases one of   *)
(* several blocked writers, and that is enough, because whenever one is    *)
(* blocked and the buffer is empty, the pipe is done, a token is pending,  *)
(* a reader is about to put one there, or another writer is about to fill  *)
(* the buffer (after which the reader's next read signals again).          *)
(***************************************************************************)
NoStrandedWriter ==
    (\E w \in Writers : wpc[w] = "wait") /\ data = <<>> =>
        \/ writeSignal \/ done
        \/ \E r \in Readers : rpc[r] = "signal"
        \/ \E w \in Writers : wpc[w] = "try"

(***************************************************************************)
(* The pipe implements the byte stream its users rely on.                  *)
(***************************************************************************)
Stream == INSTANCE ByteStream WITH sent <- accepted, rcvd <- delivered, status <- state

ImplementsByteStream == Stream!Spec

(***************************************************************************)
(* A write that is blocked or under way returns, as long as somebody keeps *)
(* reading: the capacity-one notifiers never leave it asleep.              *)
(***************************************************************************)
WritesReturn == \A w \in Writers : (wpc[w] # "idle") ~> (wpc[w] = "idle")

(***************************************************************************)
(* Every accepted byte reaches a reader unless the pipe is interrupted.    *)
(***************************************************************************)
AllDelivered ==
    \A n \in 1..(MaxWrites * MaxPayload) :
        (Len(accepted) >= n) ~> (Len(delivered) >= n \/ state = "errord")
=============================================================================
