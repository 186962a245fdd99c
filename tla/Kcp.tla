-------------------------------- MODULE Kcp ---------------------------------
(***************************************************************************)
(* transport/internet/kcp: a reliable, ordered, closable connection over   *)
(* UDP.  Two endpoints run the same code; each has a SendingWorker (a      *)
(* window of unacknowledged segments), a ReceivingWorker (a window of      *)
(* segments received out of order and a list of acknowledgements to send), *)
(* and the connection state that Close, the peer's segments and flush()    *)
(* drive.  One step is one call of Input with one segment, one flush(), or *)
(* one look of the reader or the writer at the connection.                 *)
(*                                                                         *)
(* Time is not modelled: whenever the code compares a clock, either answer *)
(* is possible.  Sequence numbers do not wrap (MaxSegments < 2^31), so the *)
(* uint32 comparisons are the plain ones.  A segment's payload is its      *)
(* number.  The dataInput and dataOutput notifiers only shorten a wait     *)
(* that a 16-second poll ends anyway; here the waits are plain retries.    *)
(***************************************************************************)
EXTENDS Integers, FiniteSets

CONSTANTS A, B,           \* the two endpoints
          MaxSegments,      \* MaxSegments[e]: how many segments e's user may write
          SendingBuffer,    \* SendingWorker.windowSize
          InFlight,         \* Config.GetSendingInFlightSize()
          ReceivingInFlight,\* ReceivingWorker.windowSize
          RemoteNext,       \* initial SendingWorker.remoteNextNumber (32)
          Magic,            \* the factor of the congestion window (20)
          Closers,          \* endpoints whose user may call Close
          IdleClose,        \* may the peer stay silent for 30 s?
          MaxNet            \* segments that may be under way at once

Endpoints == {A, B}

ASSUME KcpAssumption ==
    /\ A # B
    /\ MaxSegments \in [Endpoints -> Nat]
    /\ {SendingBuffer, InFlight, ReceivingInFlight, RemoteNext, Magic, MaxNet} \subseteq Nat
    /\ Closers \subseteq Endpoints
    /\ IdleClose \in BOOLEAN

States == {"Active", "ReadyToClose", "PeerClosed", "Terminating",
           "PeerTerminating", "Terminated"}

Segments ==
         [type: {"data"}, to: Endpoints, close: BOOLEAN, num: Nat, sn: Nat]
    \cup [type: {"ack"}, to: Endpoints, close: BOOLEAN, rn: Nat, win: Nat, nums: SUBSET Nat]
    \cup [type: {"cmd"}, to: Endpoints, close: BOOLEAN, cmd: {"ping", "terminate"}, sn: Nat, rn: Nat]

VARIABLES
    state,       \* Connection.state
    window,      \* SendingWindow.cache: the numbers in it
    firstUnacknowledged, nextNumber, remoteNextNumber,
    unaUpdated,  \* SendingWorker.firstUnacknowledgedUpdated
    released,    \* Terminate has run: the worker, the output and the input are gone
    cache,       \* ReceivingWindow.cache: the numbers in it
    rnext,       \* ReceivingWorker.nextNumber: the user has read all below
    acklist,     \* AckList.numbers
    dirty,       \* AckList.dirty
    wpc,         \* the writer: "idle", or "push" between the state check and Push
    rpc,         \* the reader: "top", "empty" (between its two looks), "eof"
    eof,         \* history: how the reader met the end: "none", "local", "peer", "raced"
    abandoned,   \* history: numbers CloseWrite threw out of the window
    promised,    \* history: how many segments had been written when Close was called
    expired,     \* history: the 15-second limit of ReadyToClose cut the sender short
    net          \* segments under way

sendVars == <<window, firstUnacknowledged, nextNumber, remoteNextNumber, unaUpdated>>
recvVars == <<cache, rnext, acklist, dirty>>
userVars == <<wpc, rpc, eof, promised>>
vars == <<state, sendVars, released, recvVars, userVars, abandoned, expired, net>>

Peer(e) == IF e = A THEN B ELSE A

Init ==
    /\ state = [e \in Endpoints |-> "Active"]
    /\ window = [e \in Endpoints |-> {}]
    /\ firstUnacknowledged = [e \in Endpoints |-> 0]
    /\ nextNumber = [e \in Endpoints |-> 0]
    /\ remoteNextNumber = [e \in Endpoints |-> RemoteNext]
    /\ unaUpdated = [e \in Endpoints |-> FALSE]
    /\ released = [e \in Endpoints |-> FALSE]
    /\ cache = [e \in Endpoints |-> {}] /\ rnext = [e \in Endpoints |-> 0]
    /\ acklist = [e \in Endpoints |-> {}] /\ dirty = [e \in Endpoints |-> FALSE]
    /\ wpc = [e \in Endpoints |-> "idle"] /\ rpc = [e \in Endpoints |-> "top"]
    /\ eof = [e \in Endpoints |-> "none"]
    /\ abandoned = [e \in Endpoints |-> {}]
    /\ promised = [e \in Endpoints |-> 0]
    /\ expired = [e \in Endpoints |-> FALSE]
    /\ net = {}

-----------------------------------------------------------------------------
(***************************************************************************)
(* The state changes of the connection, as functions of the state, and     *)
(* what SetState does to the sending window: every state after which       *)
(* nothing more is to be sent empties it (CloseWrite).                     *)
(***************************************************************************)
OnPeerClosed(s) ==
    CASE s = "ReadyToClose" -> "Terminating"
      [] s = "Active"       -> "PeerClosed"
      [] OTHER              -> s

HandleOption(s, close) == IF close THEN OnPeerClosed(s) ELSE s

OnTerminate(s) ==
    CASE s \in {"Active", "PeerClosed"} -> "PeerTerminating"
      [] s = "ReadyToClose"             -> "Terminating"
      [] s = "Terminating"              -> "Terminated"
      [] OTHER                          -> s

AfterClose(s) ==
    CASE s = "Active"          -> "ReadyToClose"
      [] s = "PeerClosed"      -> "Terminating"
      [] s = "PeerTerminating" -> "Terminated"
      [] OTHER                 -> s

\* Mutant: a local close throws away what is still to be sent.
ClosesWriteMutant(s, t) == s # t /\ t # "Active"

ClosesWrite(s, t) ==
    s # t /\ t \in {"PeerClosed", "Terminating", "PeerTerminating", "Terminated"}

\* The sending window of e once its state went from s to t.
WindowAfter(e, s, t) == IF ClosesWrite(s, t) THEN {} ELSE window[e]

SetState(e, t) ==
    /\ state' = [state EXCEPT ![e] = t]
    /\ abandoned' = [abandoned EXCEPT ![e] =
                        IF ClosesWrite(state[e], t) THEN @ \cup window[e] ELSE @]

-----------------------------------------------------------------------------
(***************************************************************************)
(* The user of the connection: writeMultiBufferInternal checks the state   *)
(* and then pushes, ReadMultiBuffer checks the state, takes what is in     *)
(* order and, when that is nothing, checks the state again.                *)
(***************************************************************************)
WriteCheck(e) ==
    /\ wpc[e] = "idle"
    /\ state[e] = "Active"
    /\ nextNumber[e] < MaxSegments[e]
    /\ wpc' = [wpc EXCEPT ![e] = "push"]
    /\ UNCHANGED <<state, sendVars, released, recvVars, rpc, eof, promised, abandoned, expired, net>>

Push(e) ==
    /\ wpc[e] = "push"
    /\ wpc' = [wpc EXCEPT ![e] = "idle"]
    /\ IF released[e] \/ Cardinality(window[e]) > SendingBuffer
       THEN UNCHANGED <<window, nextNumber>>
       ELSE /\ window' = [window EXCEPT ![e] = @ \cup {nextNumber[e]}]
            /\ nextNumber' = [nextNumber EXCEPT ![e] = @ + 1]
    /\ UNCHANGED <<state, firstUnacknowledged, remoteNextNumber, unaUpdated,
                   released, recvVars, rpc, eof, promised, abandoned, expired, net>>

\* The numbers in order that a read takes: up to the first gap in the cache.
InOrderEnd(e, k) == k >= rnext[e] /\ rnext[e]..(k - 1) \subseteq cache[e] /\ k \notin cache[e]

ReadMultiBuffer(e) ==
    /\ rpc[e] = "top"
    /\ IF state[e] \in {"ReadyToClose", "Terminating", "Terminated"}
       THEN /\ rpc' = [rpc EXCEPT ![e] = "eof"]
            /\ eof' = [eof EXCEPT ![e] = "local"]
            /\ UNCHANGED <<cache, rnext>>
       ELSE \E k \in 0..MaxSegments[Peer(e)] :
            /\ InOrderEnd(e, k)
            /\ rnext' = [rnext EXCEPT ![e] = k]
            /\ cache' = [cache EXCEPT ![e] = @ \ (rnext[e]..(k - 1))]
            /\ rpc' = [rpc EXCEPT ![e] = IF k = rnext[e] THEN "empty" ELSE "top"]
            /\ UNCHANGED eof
    /\ UNCHANGED <<state, sendVars, released, acklist, dirty, wpc, promised, abandoned, expired, net>>

\* Only ReadMultiBuffer looks at the state again; Read goes back to wait.
ReadEmpty(e) ==
    /\ rpc[e] = "empty"
    /\ \/ /\ state[e] = "PeerTerminating"
          /\ rpc' = [rpc EXCEPT ![e] = "eof"]
          /\ eof' = [eof EXCEPT ![e] = IF rnext[e] \in cache[e] THEN "raced" ELSE "peer"]
       \/ /\ rpc' = [rpc EXCEPT ![e] = "top"]
          /\ UNCHANGED eof
    /\ UNCHANGED <<state, sendVars, released, recvVars, wpc, promised, abandoned, expired, net>>

Close(e) ==
    /\ e \in Closers
    /\ AfterClose(state[e]) # state[e]
    /\ SetState(e, AfterClose(state[e]))
    /\ window' = [window EXCEPT ![e] = WindowAfter(e, state[e], AfterClose(state[e]))]
    /\ promised' = [promised EXCEPT ![e] = nextNumber[e]]
    /\ UNCHANGED <<firstUnacknowledged, nextNumber, remoteNextNumber, unaUpdated,
                   released, recvVars, wpc, rpc, eof, expired, net>>

-----------------------------------------------------------------------------
(***************************************************************************)
(* Input: a segment arrives.  FindFirstUnacknowledged leaves the first     *)
(* number of the window, or nextNumber when it is empty: in either case    *)
(* the least number of the window and nextNumber.                          *)
(***************************************************************************)
\* Mutant: an empty window stands at the last number used, not the next.
FindFirstUnacknowledgedMutant(e, w) ==
    \E f \in w \cup {nextNumber[e] - 1} :
        /\ \A n \in w \cup {nextNumber[e] - 1} : f <= n
        /\ firstUnacknowledged' = [firstUnacknowledged EXCEPT ![e] = f]
        /\ unaUpdated' = [unaUpdated EXCEPT ![e] = @ \/ f # firstUnacknowledged[e]]

FindFirstUnacknowledged(e, w) ==
    \E f \in w \cup {nextNumber[e]} :
        /\ \A n \in w \cup {nextNumber[e]} : f <= n
        /\ firstUnacknowledged' = [firstUnacknowledged EXCEPT ![e] = f]
        /\ unaUpdated' = [unaUpdated EXCEPT ![e] = @ \/ f # firstUnacknowledged[e]]

\* What is left of a sending window after Clear(una) and Remove of each number.
\* Mutant: Clear stops one segment late.
UnackedMutant(w, una, nums) == {n \in w : n > una /\ n \notin nums}

Unacked(w, una, nums) == {n \in w : n >= una /\ n \notin nums}

\* AckList.Clear.  Mutant: one acknowledgement too many is forgotten.
AckListClearMutant(l, una) == {n \in l : n > una}

AckListClear(l, una) == {n \in l : n >= una}

\* The segment is consumed, or stays to be received again.
Consume(m) == net' \in {net, net \ {m}}

InputData(m) ==
    LET e == m.to
        t == HandleOption(state[e], m.close)
        inWindow == m.num >= rnext[e] /\ m.num < rnext[e] + ReceivingInFlight
    IN  /\ m.type = "data" /\ ~released[e]
        /\ SetState(e, t)
        /\ window' = [window EXCEPT ![e] = WindowAfter(e, state[e], t)]
        /\ IF inWindow
           THEN /\ acklist' = [acklist EXCEPT ![e] = AckListClear(@, m.sn) \cup {m.num}]
                /\ dirty' = [dirty EXCEPT ![e] = TRUE]
                /\ cache' = [cache EXCEPT ![e] = @ \cup {m.num}]
           ELSE UNCHANGED <<acklist, dirty, cache>>
        /\ Consume(m)
        /\ UNCHANGED <<firstUnacknowledged, nextNumber, remoteNextNumber,
                       unaUpdated, released, rnext, userVars, expired>>

InputAck(m) ==
    LET e == m.to
        t == HandleOption(state[e], m.close)
        w == Unacked(WindowAfter(e, state[e], t), m.rn, m.nums)
    IN  /\ m.type = "ack" /\ ~released[e]
        /\ SetState(e, t)
        /\ window' = [window EXCEPT ![e] = w]
        /\ remoteNextNumber' = [remoteNextNumber EXCEPT ![e] = IF @ < m.win THEN m.win ELSE @]
        /\ FindFirstUnacknowledged(e, w)
        /\ Consume(m)
        /\ UNCHANGED <<nextNumber, released, recvVars, userVars, expired>>

InputCmd(m) ==
    LET e == m.to
        s == HandleOption(state[e], m.close)
        t == IF m.cmd = "terminate" THEN OnTerminate(s) ELSE s
        w == Unacked(WindowAfter(e, state[e], t), m.rn, {})
    IN  /\ m.type = "cmd" /\ ~released[e]
        /\ SetState(e, t)
        /\ window' = [window EXCEPT ![e] = w]
        /\ FindFirstUnacknowledged(e, w)
        /\ acklist' = [acklist EXCEPT ![e] = AckListClear(@, m.sn)]
        /\ dirty' = [dirty EXCEPT ![e] = @ \/ AckListClear(acklist[e], m.sn) # acklist[e]]
        /\ Consume(m)
        /\ UNCHANGED <<nextNumber, remoteNextNumber, released, cache, rnext,
                       userVars, expired>>

\* The network loses it, or nobody is left to receive it.
Lose(m) ==
    /\ net' = net \ {m}
    /\ UNCHANGED <<state, sendVars, released, recvVars, userVars, abandoned, expired>>

-----------------------------------------------------------------------------
(***************************************************************************)
(* flush().  Which timers have run out is not known here, and a segment    *)
(* that is not yet due looks to the peer like one that was lost: each      *)
(* flush puts some of the segments it could send under way.                *)
(***************************************************************************)
Data(e, t, n) ==
    [type |-> "data", to |-> Peer(e), close |-> t = "ReadyToClose", num |-> n,
     sn |-> firstUnacknowledged[e]]

Ack(e, t) ==
    [type |-> "ack", to |-> Peer(e), close |-> t = "ReadyToClose", rn |-> rnext[e],
     win |-> rnext[e] + ReceivingInFlight, nums |-> acklist[e]]

Ping(e, t, cmd) ==
    [type |-> "cmd", to |-> Peer(e), close |-> t = "ReadyToClose", cmd |-> cmd,
     sn |-> firstUnacknowledged[e], rn |-> rnext[e]]

\* Mutant: a closed window lets nothing out.
BurstMutant(e) ==
    LET room == remoteNextNumber[e] - firstUnacknowledged[e]
    IN  IF 0 <= room /\ room < InFlight THEN Magic * room ELSE Magic * InFlight

\* remoteNextNumber - firstUnacknowledged wraps to a huge number when negative,
\* and a window of zero still lets one segment out.
Burst(e) ==
    LET room == remoteNextNumber[e] - firstUnacknowledged[e]
        cwnd == IF 0 <= room /\ room < InFlight THEN room ELSE InFlight
    IN  IF cwnd = 0 THEN 1 ELSE Magic * cwnd

\* Everything a flush of e in state t with window w might send.
Flushable(e, t, w) ==
    {Data(e, t, n) : n \in w}
    \cup (IF dirty[e] \/ acklist[e] # {} THEN {Ack(e, t)} ELSE {})
    \cup {Ping(e, t, "ping")}

\* The peer was silent for 30 seconds: flush calls Close.
Silent(e) == IdleClose /\ state[e] = "Active"

\* The limits of 4 s on PeerTerminating and of 15 s on ReadyToClose.
\* Mutant: ReadyToClose has no limit.
AfterLimitMutant(s) == {s} \cup (IF s = "PeerTerminating" THEN {"Terminating"} ELSE {})

AfterLimit(s) ==
    {s} \cup (IF s \in {"PeerTerminating", "ReadyToClose"} THEN {"Terminating"} ELSE {})

\* Nothing is left to send on a connection that its user, or flush, closed.
\* Mutant: whether anything is left is not asked.
SentAllMutant(e) == state[e] = "ReadyToClose" \/ Silent(e)

SentAll(e) == window[e] = {} /\ (state[e] = "ReadyToClose" \/ Silent(e))

\* s is the state after the look at the silence, t the one after the limits.
FlushOpen(e, s, t, kept) ==
    /\ s = state[e] \/ (Silent(e) /\ s = "ReadyToClose")
    /\ t \in AfterLimit(s)
    /\ s \in {"Active", "ReadyToClose", "PeerClosed", "PeerTerminating"}
    /\ s = "ReadyToClose" => window[e] # {}
    /\ SetState(e, t)
    /\ window' = [window EXCEPT ![e] = WindowAfter(e, state[e], t)]
    /\ promised' = [promised EXCEPT ![e] = IF s # state[e] THEN nextNumber[e] ELSE @]
    /\ expired' = [expired EXCEPT ![e] = @ \/ (s = "ReadyToClose" /\ t = "Terminating")]
    /\ kept \subseteq Flushable(e, t, WindowAfter(e, state[e], t))
    /\ Cardinality({m \in kept : m.type = "data"}) <= Burst(e)
    /\ net' = net \cup kept /\ Cardinality(net') <= MaxNet
    /\ unaUpdated' = [unaUpdated EXCEPT ![e] = FALSE]
    /\ dirty' = [dirty EXCEPT ![e] = FALSE]
    /\ UNCHANGED <<firstUnacknowledged, nextNumber, remoteNextNumber, released, cache, rnext,
                   acklist, wpc, rpc, eof>>

\* A connection that is Terminating, or becomes it because nothing is left to
\* send, only repeats the terminate command until its 8 seconds are over.
FlushTerminating(e, t, kept) ==
    /\ state[e] = "Terminating" \/ SentAll(e)
    /\ SetState(e, t)
    /\ window' = [window EXCEPT ![e] = WindowAfter(e, state[e], t)]
    /\ promised' = [promised EXCEPT ![e] = IF state[e] = "Active" THEN nextNumber[e] ELSE @]
    /\ kept \subseteq {Ping(e, t, "terminate")}
    /\ net' = net \cup kept /\ Cardinality(net') <= MaxNet
    /\ UNCHANGED <<firstUnacknowledged, nextNumber, remoteNextNumber, unaUpdated, released,
                   recvVars, wpc, rpc, eof, expired>>

Terminate(e) ==
    /\ state[e] = "Terminated" /\ ~released[e]
    /\ released' = [released EXCEPT ![e] = TRUE]
    /\ window' = [window EXCEPT ![e] = {}]
    /\ abandoned' = [abandoned EXCEPT ![e] = @ \cup window[e]]
    /\ UNCHANGED <<state, firstUnacknowledged, nextNumber, remoteNextNumber, unaUpdated,
                   recvVars, userVars, expired, net>>

-----------------------------------------------------------------------------
Flush(e) ==
    \/ \E s \in {state[e], "ReadyToClose"} : \E t \in {s, "Terminating"} :
        \E kept \in SUBSET Flushable(e, t, WindowAfter(e, state[e], t)) : FlushOpen(e, s, t, kept)
    \/ \E t \in {"Terminating", "Terminated"} :
        \E kept \in SUBSET {Ping(e, t, "terminate")} : FlushTerminating(e, t, kept)

Next ==
    \/ \E e \in Endpoints :
        \/ WriteCheck(e) \/ Push(e) \/ ReadMultiBuffer(e) \/ ReadEmpty(e)
        \/ Close(e) \/ Flush(e) \/ Terminate(e)
    \/ \E m \in net : InputData(m) \/ InputAck(m) \/ InputCmd(m) \/ Lose(m)

Spec == Init /\ [][Next]_vars

(***************************************************************************)
(* Fairness: the updaters keep flushing, timers run out, users that read   *)
(* read on, and the network is lossy but not dead: what is sent again and  *)
(* again gets under way again and again, and what is under way again and   *)
(* again arrives.                                                          *)
(***************************************************************************)
KeepsFlushing(e) ==
    /\ \A n \in 0..(MaxSegments[e] - 1) :
          SF_vars(n \in window[e] /\ FlushOpen(e, state[e], state[e], {Data(e, state[e], n)}))
    /\ SF_vars(FlushOpen(e, state[e], state[e], {Ack(e, state[e])}))
    /\ WF_vars(FlushOpen(e, state[e], "Terminating", {}))
    /\ WF_vars(FlushTerminating(e, "Terminated", {}))

Arrives(e) ==
    /\ \A n \in 0..(MaxSegments[Peer(e)] - 1) :
          SF_vars(\E m \in net : m.to = e /\ InputData(m) /\ m.num = n)
    /\ SF_vars(\E m \in net : m.to = e /\ InputAck(m) /\ m \notin net')
    /\ WF_vars(\E m \in net : Lose(m))

FairSpec ==
    /\ Spec
    /\ \A e \in Endpoints :
        /\ KeepsFlushing(e) /\ Arrives(e)
        /\ WF_vars(Push(e)) /\ WF_vars(ReadMultiBuffer(e)) /\ WF_vars(ReadEmpty(e))

-----------------------------------------------------------------------------
TypeOK ==
    /\ state \in [Endpoints -> States]
    /\ window \in [Endpoints -> SUBSET Nat]
    /\ firstUnacknowledged \in [Endpoints -> Nat]
    /\ nextNumber \in [Endpoints -> Nat]
    /\ remoteNextNumber \in [Endpoints -> Nat]
    /\ unaUpdated \in [Endpoints -> BOOLEAN]
    /\ released \in [Endpoints -> BOOLEAN]
    /\ cache \in [Endpoints -> SUBSET Nat]
    /\ rnext \in [Endpoints -> Nat]
    /\ acklist \in [Endpoints -> SUBSET Nat]
    /\ dirty \in [Endpoints -> BOOLEAN]
    /\ wpc \in [Endpoints -> {"idle", "push"}]
    /\ rpc \in [Endpoints -> {"top", "empty", "eof"}]
    /\ eof \in [Endpoints -> {"none", "local", "peer", "raced"}]
    /\ abandoned \in [Endpoints -> SUBSET Nat]
    /\ promised \in [Endpoints -> Nat]
    /\ expired \in [Endpoints -> BOOLEAN]
    /\ net \subseteq Segments

\* e has segment n of its peer: its user has read it, or it waits in the cache.
Has(e, n) == n < rnext[e] \/ n \in cache[e]

(***************************************************************************)
(* A segment leaves the sending window only because the peer has it (an    *)
(* acknowledgement of its number, or ReceivingNext beyond it) or because   *)
(* the connection gave up sending: whatever the network lost, repeated,    *)
(* delayed or reordered, no acknowledgement covers a segment that has not  *)
(* arrived.                                                                *)
(***************************************************************************)
AckedIsReceived ==
    \A e \in Endpoints : \A n \in 0..(nextNumber[e] - 1) :
        n \in window[e] \/ n \in abandoned[e] \/ Has(Peer(e), n)

(***************************************************************************)
(* An acknowledgement is repeated until it has done its work: as long as a *)
(* segment the peer has is still in the sending window, the peer keeps its *)
(* number in the AckList, also after its user has read the data.  AckList  *)
(* is cleared by SendingNext alone, which never passes a segment that is   *)
(* still in the window, however late it arrives.                           *)
(***************************************************************************)
AcksRepeated ==
    \A e \in Endpoints : \A n \in window[e] :
        Has(Peer(e), n) => n \in acklist[Peer(e)]

(***************************************************************************)
(* A graceful close loses nothing: when the reader is told EOF because the *)
(* peer is terminating, it has read every segment written before the peer  *)
(* closed, unless the peer's close ran into its 15-second limit, or the    *)
(* last segments and the terminate command arrived between the two looks   *)
(* of ReadMultiBuffer (eof = "raced").                                     *)
(***************************************************************************)
NoLossOnGracefulClose ==
    \A e \in Endpoints :
        eof[e] = "peer" /\ ~expired[Peer(e)] => rnext[e] >= promised[Peer(e)]

(***************************************************************************)
(* Data written before a local Close is only given up when the 15-second   *)
(* limit expires or the other side has closed too (so nobody reads it).    *)
(***************************************************************************)
GivenUpOnlyForCause ==
    \A e \in Endpoints :
        (\E n \in abandoned[e] : n < promised[e]) /\ ~expired[e] =>
            state[Peer(e)] \in {"ReadyToClose", "Terminating", "Terminated"}

(***************************************************************************)
(* On an open connection every segment that was written is read in the     *)
(* end, over a network that loses, repeats and reorders.                   *)
(***************************************************************************)
AllDelivered ==
    \A e \in Endpoints : \A n \in 1..MaxSegments[e] :
        (nextNumber[e] >= n) ~> (rnext[Peer(e)] >= n)

(***************************************************************************)
(* ... and leaves the sending window: its acknowledgement arrives too.     *)
(***************************************************************************)
AllAcknowledged ==
    \A e \in Endpoints : \A n \in 0..(MaxSegments[e] - 1) :
        (n \in window[e]) ~> (n \notin window[e])

(***************************************************************************)
(* A connection that was closed on either side does not linger: with the   *)
(* timers of flush() it is terminated even if the peer is never heard of   *)
(* again.  PeerClosed is left out: there the user has to close as well.    *)
(***************************************************************************)
CloseTerminates ==
    \A e \in Endpoints :
        (state[e] \in {"ReadyToClose", "Terminating", "PeerTerminating"}) ~> (state[e] = "Terminated")
=============================================================================
