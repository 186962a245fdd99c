-------------------------------- MODULE Mux ---------------------------------
(***************************************************************************)
(* common/mux: many sessions over one connection.  A ClientWorker turns    *)
(* dispatched requests into sessions and frames, a ServerWorker turns the  *)
(* frames back into sessions, and both keep a SessionManager: a table from *)
(* session id to session.  Each session has a goroutine on either side     *)
(* that copies its input into frames (fetchInput, handle); one goroutine   *)
(* per side reads frames and writes them to the sessions' outputs          *)
(* (fetchOutput, run); the client's monitor closes an idle worker and      *)
(* cleans up after a broken one.                                           *)
(*                                                                         *)
(* A request is also the identity of the two Session objects made for it.  *)
(* The two directions of the connection are FIFO sequences of frames; the  *)
(* limits of the pipes below them are not modelled.  An item <<r, k>> is   *)
(* the k-th piece of payload of request r in its direction.                *)
(***************************************************************************)
EXTENDS Integers, Sequences, FiniteSets

CONSTANTS Requests,        \* what is dispatched to this worker
          BadTargets,      \* requests the server's dispatcher refuses
          IdSpace,         \* 2^16: SessionManager.count and Session.ID are uint16
          MaxConcurrency, MaxConnection, \* ClientStrategy; 0 is "no limit"
          MaxItems,        \* bound: pieces of payload per request and direction
          Breaks,          \* what may break: "link", and the readers of the
                           \* "client"'s and of the "server"'s session outputs
          none             \* no session

ASSUME MuxAssumption ==
    /\ IsFiniteSet(Requests) /\ none \notin Requests
    /\ BadTargets \subseteq Requests
    /\ IdSpace \in Nat \ {0}
    /\ {MaxConcurrency, MaxConnection, MaxItems} \subseteq Nat
    /\ Breaks \subseteq {"link", "client", "server"}

Sides == {"client", "server"}
Other(x) == IF x = "client" THEN "server" ELSE "client"
Ids == 0..(IdSpace - 1)
Items == Requests \X (1..MaxItems)

VARIABLES
    sessions,  \* SessionManager.sessions of each side: id -> request
    closed,    \* SessionManager.closed of each side
    count,     \* the client's SessionManager.count
    id,        \* Session.ID of a request
    pc,        \* the goroutine that serves a request on each side
    sent,      \* how many items each side's copier has put into frames
    in,        \* Session.input: "open", or "interrupted" by the frame reader
    out,       \* Session.output: "open", "closed", "interrupted", "broken" by its user
    got,       \* history: what was written to Session.output
    link,      \* link[x]: frames on their way to side x
    monitor,   \* the client's monitor: "run", "idle", "closing", "stopped"
    done,      \* ClientWorker.done
    raced      \* history: Close met the session before Dispatch had set its output

vars == <<sessions, closed, count, id, pc, sent, in, out, got, link, monitor, done, raced>>

Frame(status, i, item, err, target) ==
    [status |-> status, id |-> i, item |-> item, err |-> err, target |-> target]

KeepFrame(i, item) == Frame("keep", i, item, FALSE, none)
EndFrame(i, err) == Frame("end", i, none, err, none)

Init ==
    /\ sessions = [x \in Sides |-> [i \in Ids |-> none]]
    /\ closed = [x \in Sides |-> FALSE]
    /\ count = 0
    /\ id = [r \in Requests |-> 0]
    /\ pc = [x \in Sides |-> [r \in Requests |-> "new"]]
    /\ sent = [x \in Sides |-> [r \in Requests |-> 0]]
    /\ in = [x \in Sides |-> [r \in Requests |-> "open"]]
    /\ out = [x \in Sides |-> [r \in Requests |-> "open"]]
    /\ got = [x \in Sides |-> [r \in Requests |-> <<>>]]
    /\ link = [x \in Sides |-> <<>>]
    /\ monitor = "run"
    /\ done = FALSE
    /\ raced = [r \in Requests |-> FALSE]

-----------------------------------------------------------------------------
\* The pipe under the link refuses writes once the worker's monitor closed it.
LinkClosed == monitor = "stopped"

\* Mutant: End frames overtake the frames that wait.
WrittenMutant(x, f) == IF f.status = "end" THEN <<f>> \o link[x] ELSE Append(link[x], f)

\* The link to x after side Other(x) wrote f to it.
Written(x, f) == IF LinkClosed \/ (x = "server" /\ closed["server"])
                 THEN link[x] ELSE Append(link[x], f)

Size == Cardinality({i \in Ids : sessions["client"][i] # none})

IsFull ==
    \/ MaxConnection > 0 /\ count >= MaxConnection
    \/ done
    \/ MaxConcurrency > 0 /\ Size >= MaxConcurrency

\* The table of side x after Remove(i).
Removed(x, i) == IF closed[x] THEN sessions[x] ELSE [sessions[x] EXCEPT ![i] = none]

\* An output after Close, and after Interrupt.
Closed(o) == IF o = "open" THEN "closed" ELSE o
Interrupted(o) == IF o \in {"open", "closed"} THEN "interrupted" ELSE o

\* Session.Close on side x: the output is closed, the id given up.
CloseSession(x, r, o) ==
    /\ out' = [out EXCEPT ![x][r] = Closed(o)]
    /\ sessions' = [sessions EXCEPT ![x] = Removed(x, id[r])]

-----------------------------------------------------------------------------
(***************************************************************************)
(* ClientWorker.Dispatch: it looks whether the worker is full, allocates,  *)
(* and only then gives the session its input and output.                   *)
(***************************************************************************)
DispatchCheck(r) ==
    /\ pc["client"][r] = "new" /\ ~IsFull
    /\ pc' = [pc EXCEPT !["client"][r] = "checked"]
    /\ UNCHANGED <<sessions, closed, count, id, sent, in, out, got, link, monitor, done, raced>>

\* Mutant: count does not wrap at 16 bits.
AllocateWideMutant(r) ==
    /\ pc["client"][r] = "checked"
    /\ count' = count + 1
    /\ id' = [id EXCEPT ![r] = count']
    /\ sessions' = [sessions EXCEPT !["client"][count'] = r]
    /\ pc' = [pc EXCEPT !["client"][r] = "allocated"]
    /\ ~closed["client"]
    /\ UNCHANGED <<closed, sent, in, out, got, link, monitor, done, raced>>

\* Mutant: ids are reused as soon as sessions end.
AllocateReuseMutant(r) ==
    /\ pc["client"][r] = "checked"
    /\ count' = (Size + 1) % IdSpace
    /\ id' = [id EXCEPT ![r] = count']
    /\ sessions' = [sessions EXCEPT !["client"][count'] = r]
    /\ pc' = [pc EXCEPT !["client"][r] = "allocated"]
    /\ ~closed["client"]
    /\ UNCHANGED <<closed, sent, in, out, got, link, monitor, done, raced>>

\* Mutant: a closed manager still allocates.
AllocateClosedMutant(r) ==
    /\ pc["client"][r] = "checked"
    /\ count' = (count + 1) % IdSpace
    /\ id' = [id EXCEPT ![r] = count']
    /\ sessions' = [sessions EXCEPT !["client"][count'] = r]
    /\ pc' = [pc EXCEPT !["client"][r] = "allocated"]
    /\ UNCHANGED <<closed, sent, in, out, got, link, monitor, done, raced>>

Allocate(r) ==
    /\ pc["client"][r] = "checked"
    /\ IF closed["client"]
       THEN /\ pc' = [pc EXCEPT !["client"][r] = "refused"]
            /\ UNCHANGED <<sessions, count, id>>
       ELSE /\ count' = (count + 1) % IdSpace
            /\ id' = [id EXCEPT ![r] = count']
            /\ sessions' = [sessions EXCEPT !["client"][count'] = r]
            /\ pc' = [pc EXCEPT !["client"][r] = "allocated"]
    /\ UNCHANGED <<closed, sent, in, out, got, link, monitor, done, raced>>

DispatchReturn(r) ==
    /\ pc["client"][r] = "allocated"
    /\ pc' = [pc EXCEPT !["client"][r] = "first"]
    /\ UNCHANGED <<sessions, closed, count, id, sent, in, out, got, link, monitor, done, raced>>

-----------------------------------------------------------------------------
(***************************************************************************)
(* The copiers.  fetchInput writes the first payload, or after 100 ms none *)
(* of it, as a New frame; then each side copies its input into Keep        *)
(* frames until the input ends, writes an End frame and closes the session.*)
(***************************************************************************)
FirstPayload(r) ==
    /\ pc["client"][r] = "first" /\ ~LinkClosed /\ in["client"][r] = "open"
    /\ \E n \in {0, 1} :
        /\ n <= MaxItems
        /\ sent' = [sent EXCEPT !["client"][r] = n]
        /\ link' = [link EXCEPT !["server"] =
              Written("server", Frame("new", id[r], IF n = 1 THEN <<r, 1>> ELSE none, FALSE, r))]
    /\ pc' = [pc EXCEPT !["client"][r] = "copy"]
    /\ UNCHANGED <<sessions, closed, count, id, in, out, got, monitor, done, raced>>

Copy(x, r) ==
    /\ pc[x][r] = "copy" /\ in[x][r] = "open" /\ sent[x][r] < MaxItems
    /\ x = "client" => ~LinkClosed
    /\ sent' = [sent EXCEPT ![x][r] = @ + 1]
    /\ link' = [link EXCEPT ![Other(x)] = Written(Other(x), KeepFrame(id[r], <<r, sent'[x][r]>>))]
    /\ UNCHANGED <<sessions, closed, count, id, pc, in, out, got, monitor, done, raced>>

\* The input ended, or it was interrupted, or the link does not take frames
\* any more.  An end before the first payload counts as an error as well.
EndCopy(x, r) ==
    \E failed \in BOOLEAN :
        /\ pc[x][r] = "copy" \/ (pc[x][r] = "first" /\ failed)
        /\ in[x][r] = "interrupted" => failed
        /\ failed => in[x][r] = "interrupted" \/ LinkClosed \/ pc[x][r] = "first"
        /\ link' = [link EXCEPT ![Other(x)] = Written(Other(x), EndFrame(id[r], failed))]
        /\ pc' = [pc EXCEPT ![x][r] = "closing"]
        /\ in' = IF x = "client" /\ failed THEN [in EXCEPT ![x][r] = "interrupted"] ELSE in
        /\ UNCHANGED <<sessions, closed, count, id, sent, out, got, monitor, done, raced>>

CloseCopier(x, r) ==
    /\ pc[x][r] = "closing"
    /\ pc' = [pc EXCEPT ![x][r] = "ended"]
    /\ CloseSession(x, r, out[x][r])
    /\ UNCHANGED <<closed, count, id, sent, in, got, link, monitor, done, raced>>

-----------------------------------------------------------------------------
(***************************************************************************)
(* The frame readers: fetchOutput on the client, run on the server.        *)
(***************************************************************************)
Get(x, i) == IF closed[x] THEN none ELSE sessions[x][i]

\* Side x reads f: the client until its link is interrupted, the server until
\* it stops.
Reads(x, f) ==
    /\ IF x = "client" THEN ~LinkClosed ELSE ~closed["server"]
    /\ link[x] # <<>> /\ f = Head(link[x])

\* handleStatusNew.
New(f) ==
    /\ Reads("server", f) /\ f.status = "new" /\ f.target \notin BadTargets
    /\ sessions' = [sessions EXCEPT !["server"][f.id] = f.target]
    /\ pc' = [pc EXCEPT !["server"][f.target] = "copy"]
    /\ got' = IF f.item = none THEN got
              ELSE [got EXCEPT !["server"][f.target] = Append(@, f.item)]
    /\ link' = [link EXCEPT !["server"] = Tail(@)]
    /\ UNCHANGED <<closed, count, id, sent, in, out, monitor, done, raced>>

\* ... when the first payload cannot be written any more.
NewBroken(f) ==
    /\ Reads("server", f) /\ f.status = "new" /\ f.target \notin BadTargets
    /\ "server" \in Breaks /\ f.item # none
    /\ sessions' = [sessions EXCEPT !["server"][f.id] = none]
    /\ pc' = [pc EXCEPT !["server"][f.target] = "copy"]
    /\ in' = [in EXCEPT !["server"][f.target] = "interrupted"]
    /\ out' = [out EXCEPT !["server"][f.target] = "broken"]
    /\ link' = [link EXCEPT !["server"] = Tail(@)]
    /\ UNCHANGED <<closed, count, id, sent, got, monitor, done, raced>>

\* handleStatusKeep for an id that is not in the table: the peer is told.
KeepUnknown(x, f) ==
    /\ Reads(x, f) /\ f.status = "keep" /\ Get(x, f.id) = none
    /\ link' = [link EXCEPT ![x] = Tail(@), ![Other(x)] = Written(Other(x), EndFrame(f.id, FALSE))]
    /\ UNCHANGED <<sessions, closed, count, id, pc, sent, in, out, got, monitor, done, raced>>

Keep(x, f) ==
    LET r == Get(x, f.id)
    IN  /\ Reads(x, f) /\ f.status = "keep" /\ r # none
        /\ IF out[x][r] = "open"
           THEN /\ got' = [got EXCEPT ![x][r] = Append(@, f.item)]
                /\ link' = [link EXCEPT ![x] = Tail(@)]
                /\ UNCHANGED <<sessions, in, out>>
           ELSE /\ link' = [link EXCEPT ![x] = Tail(@),
                                        ![Other(x)] = Written(Other(x), EndFrame(f.id, FALSE))]
                /\ in' = [in EXCEPT ![x][r] = "interrupted"]
                /\ CloseSession(x, r, out[x][r])
                /\ UNCHANGED got
        /\ UNCHANGED <<closed, count, id, pc, sent, monitor, done, raced>>

\* Mutant: the session is closed but stays in the table.
EndMutant(x, f) ==
    LET r == Get(x, f.id)
    IN  /\ Reads(x, f) /\ f.status = "end"
        /\ link' = [link EXCEPT ![x] = Tail(@)]
        /\ out' = IF r = none THEN out ELSE [out EXCEPT ![x][r] = Closed(@)]
        /\ UNCHANGED <<sessions, closed, count, id, pc, sent, in, got, monitor, done, raced>>

\* handleStatusEnd.
End(x, f) ==
    LET r == Get(x, f.id)
    IN  /\ Reads(x, f) /\ f.status = "end"
        /\ link' = [link EXCEPT ![x] = Tail(@)]
        /\ IF r = none THEN UNCHANGED <<sessions, in, out>>
           ELSE /\ in' = IF f.err THEN [in EXCEPT ![x][r] = "interrupted"] ELSE in
                /\ CloseSession(x, r, IF f.err THEN Interrupted(out[x][r]) ELSE out[x][r])
        /\ UNCHANGED <<closed, count, id, pc, sent, got, monitor, done, raced>>

\* SessionManager.Close: every output in the table is closed, except those that
\* Dispatch has not set yet.
CloseManager(x) ==
    LET open == {r \in Requests : \E i \in Ids : sessions[x][i] = r}
        unset == {r \in open : pc["client"][r] = "allocated"}
    IN  /\ closed' = [closed EXCEPT ![x] = TRUE]
        /\ IF closed[x] THEN UNCHANGED <<sessions, out, raced>>
           ELSE /\ sessions' = [sessions EXCEPT ![x] = [i \in Ids |-> none]]
                /\ out' = [out EXCEPT ![x] = [r \in Requests |->
                              IF r \in open \ (IF x = "client" THEN unset ELSE {})
                              THEN Closed(out[x][r]) ELSE out[x][r]]]
                /\ raced' = [r \in Requests |-> raced[r] \/ (x = "client" /\ r \in unset)]

\* run ends: the client closed the link, or a request could not be dispatched.
ServerStop ==
    /\ ~closed["server"]
    /\ \/ link["server"] = <<>> /\ LinkClosed
       \/ link["server"] # <<>> /\ Head(link["server"]).target \in BadTargets
    /\ CloseManager("server")
    /\ link' = [link EXCEPT !["server"] = <<>>]
    /\ UNCHANGED <<count, id, pc, sent, in, got, monitor, done>>

-----------------------------------------------------------------------------
(***************************************************************************)
(* The client's monitor: every 16 s it closes a worker without sessions;   *)
(* once the worker is done it closes the sessions and then the link.       *)
(***************************************************************************)
\* Mutant: the manager closes on the word of the earlier look at Size.
CloseIfNoSessionMutant ==
    /\ monitor = "run" /\ ~done /\ ~closed["client"]
    /\ closed' = [closed EXCEPT !["client"] = TRUE]
    /\ monitor' = "idle"
    /\ UNCHANGED <<sessions, count, id, pc, sent, in, out, got, link, done, raced>>

CloseIfNoSession ==
    /\ monitor = "run" /\ ~done /\ ~closed["client"] /\ Size = 0
    /\ closed' = [closed EXCEPT !["client"] = TRUE]
    /\ monitor' = "idle"
    /\ UNCHANGED <<sessions, count, id, pc, sent, in, out, got, link, done, raced>>

MonitorDone ==
    /\ monitor = "idle" /\ done' = TRUE /\ monitor' = "run"
    /\ UNCHANGED <<sessions, closed, count, id, pc, sent, in, out, got, link, raced>>

MonitorClose ==
    /\ monitor = "run" /\ done
    /\ CloseManager("client")
    /\ monitor' = "closing"
    /\ UNCHANGED <<count, id, pc, sent, in, got, link, done>>

MonitorCloseLink ==
    /\ monitor = "closing"
    /\ monitor' = "stopped"
    /\ link' = [link EXCEPT !["client"] = <<>>]
    /\ UNCHANGED <<sessions, closed, count, id, pc, sent, in, out, got, done, raced>>

\* The proxy that carries the link returned, or fetchOutput met the end of it.
Break ==
    /\ "link" \in Breaks /\ ~done
    /\ done' = TRUE
    /\ UNCHANGED <<sessions, closed, count, id, pc, sent, in, out, got, link, monitor, raced>>

\* Whoever reads a session's output stops reading: writes to it fail.
BreakOutput(x, r) ==
    /\ x \in Breaks /\ out[x][r] = "open" /\ pc[x][r] \in {"first", "copy"}
    /\ out' = [out EXCEPT ![x][r] = "broken"]
    /\ UNCHANGED <<sessions, closed, count, id, pc, sent, in, got, link, monitor, done, raced>>

-----------------------------------------------------------------------------
Dispatch(r) == DispatchCheck(r) \/ Allocate(r) \/ DispatchReturn(r)

ReadFrame(x) ==
    \E f \in {Head(link[x])} :
        (x = "server" /\ (New(f) \/ NewBroken(f))) \/ KeepUnknown(x, f) \/ Keep(x, f) \/ End(x, f)

Next ==
    \/ \E r \in Requests : Dispatch(r) \/ FirstPayload(r)
    \/ \E x \in Sides, r \in Requests :
          Copy(x, r) \/ EndCopy(x, r) \/ CloseCopier(x, r) \/ BreakOutput(x, r)
    \/ \E x \in Sides : link[x] # <<>> /\ ReadFrame(x)
    \/ ServerStop
    \/ CloseIfNoSession \/ MonitorDone \/ MonitorClose \/ MonitorCloseLink \/ Break

Spec == Init /\ [][Next]_vars

(***************************************************************************)
(* Fairness: the goroutines that have something to do go on.  Nobody has   *)
(* to dispatch, to send, to end an input or to break anything.             *)
(***************************************************************************)
FairSpec ==
    /\ Spec
    /\ \A r \in Requests : WF_vars(Allocate(r)) /\ WF_vars(DispatchReturn(r)) /\ WF_vars(FirstPayload(r))
    /\ \A x \in Sides :
        /\ WF_vars(link[x] # <<>> /\ ReadFrame(x))
        /\ \A r \in Requests : WF_vars(CloseCopier(x, r)) /\ WF_vars(EndCopy(x, r) /\ in[x][r] = "interrupted")
    /\ WF_vars(ServerStop) /\ WF_vars(MonitorDone) /\ WF_vars(MonitorClose) /\ WF_vars(MonitorCloseLink)

-----------------------------------------------------------------------------
Frames ==
    [status: {"new", "keep", "end"}, id: Ids, item: Items \cup {none}, err: BOOLEAN,
     target: Requests \cup {none}]

TypeOK ==
    /\ sessions \in [Sides -> [Ids -> Requests \cup {none}]]
    /\ closed \in [Sides -> BOOLEAN]
    /\ count \in Ids
    /\ id \in [Requests -> Ids]
    /\ pc \in [Sides -> [Requests -> {"new", "checked", "refused", "allocated", "first",
                                      "copy", "closing", "ended"}]]
    /\ sent \in [Sides -> [Requests -> 0..MaxItems]]
    /\ in \in [Sides -> [Requests -> {"open", "interrupted"}]]
    /\ out \in [Sides -> [Requests -> {"open", "closed", "interrupted", "broken"}]]
    /\ \A x \in Sides, r \in Requests : got[x][r] \in Seq(Items)
    /\ \A x \in Sides : link[x] \in Seq(Frames)
    /\ monitor \in {"run", "idle", "closing", "stopped"}
    /\ done \in BOOLEAN
    /\ raced \in [Requests -> BOOLEAN]

(***************************************************************************)
(* Sessions do not mix: what is written to a session's output is what the  *)
(* other end of the same session sent, from its first item on, in order    *)
(* and without a gap, although both ends only know the session by a number *)
(* that the other may have given up already.                               *)
(***************************************************************************)
NoCrossTalk ==
    \A x \in Sides, r \in Requests :
        /\ got[x][r] = [k \in 1..Len(got[x][r]) |-> <<r, k>>]
        /\ Len(got[x][r]) <= sent[Other(x)][r]

(***************************************************************************)
(* EOF means the end: while one side still copies its input, its session's *)
(* output is closed (not interrupted) only after everything the other      *)
(* side's copier sent was written to it, unless a whole worker was closed, *)
(* or the other side could not write to its own output: it then announces  *)
(* the end of the session without the error flag.                          *)
(***************************************************************************)
EOFIsComplete ==
    \A x \in Sides, r \in Requests :
        out[x][r] = "closed" /\ pc[x][r] = "copy" /\ ~closed["client"] /\ ~closed["server"] =>
            \/ pc[Other(x)][r] \in {"closing", "ended"} /\ Len(got[x][r]) = sent[Other(x)][r]
            \/ out[Other(x)][r] = "broken"

(***************************************************************************)
(* Closing an idle worker hurts nobody: Dispatch may run between the       *)
(* monitor's two looks at the table, and still no session whose output is  *)
(* open is ever part of a worker that was closed for want of sessions.     *)
(***************************************************************************)
IdleCloseIsSafe ==
    monitor = "idle" => \A r \in Requests :
        pc["client"][r] \in {"allocated", "first", "copy"} => out["client"][r] # "open"

(***************************************************************************)
(* No session outlives its worker in silence: once the monitor has closed  *)
(* the link, a session that goes on copying has a closed output, or Close  *)
(* ran into the gap in which Dispatch had not yet set that output.         *)
(***************************************************************************)
NoStrandedSession ==
    monitor = "stopped" => \A r \in Requests :
        pc["client"][r] = "copy" /\ out["client"][r] = "open" => raced[r]

(***************************************************************************)
(* The two tables converge: once either end of a session has ended, the    *)
(* other end's table lets go of it, whatever frames crossed on the way.    *)
(***************************************************************************)
TablesConverge ==
    \A x \in Sides, r \in Requests :
        (pc[x][r] = "ended") ~> (\A y \in Sides, i \in Ids : sessions[y][i] # r)
=============================================================================
