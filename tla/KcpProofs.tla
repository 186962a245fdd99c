------------------------------ MODULE KcpProofs -----------------------------
(***************************************************************************)
(* That no segment is taken for acknowledged before it has arrived, and    *)
(* that acknowledgements are kept until they have worked, for any number   *)
(* of segments, any window sizes and any network that loses, repeats and   *)
(* reorders.                                                               *)
(***************************************************************************)
EXTENDS Kcp, TLAPS

(***************************************************************************)
(* Why the two invariants are inductive: what travels in a segment was     *)
(* true when it was written and stays true.  ReceivingNext and the numbers *)
(* of an acknowledgement only ever name segments that have arrived;        *)
(* SendingNext never passes the sender's firstUnacknowledged, which never  *)
(* passes a segment of the window.                                         *)
(***************************************************************************)
SegmentOK(m) ==
    LET p == Peer(m.to)
    IN  /\ m.type = "data" => m.num < nextNumber[p] /\ m.sn <= firstUnacknowledged[p]
        /\ m.type = "ack"  => m.rn <= rnext[p] /\ \A n \in m.nums : Has(p, n)
        /\ m.type = "cmd"  => m.rn <= rnext[p] /\ m.sn <= firstUnacknowledged[p]

WindowOK(e) ==
    /\ firstUnacknowledged[e] <= nextNumber[e]
    /\ \A n \in window[e] : firstUnacknowledged[e] <= n /\ n < nextNumber[e]

ReceivedOK(e) ==
    /\ rnext[e] <= nextNumber[Peer(e)]
    /\ \A n \in cache[e] : n < nextNumber[Peer(e)]
    /\ \A n \in acklist[e] : Has(e, n)

EndpointsOK == \A e \in Endpoints : WindowOK(e) /\ ReceivedOK(e)

SegmentsOK == \A m \in net : SegmentOK(m)

KcpInv ==
    /\ TypeOK
    /\ SegmentsOK
    /\ EndpointsOK
    /\ AckedIsReceived
    /\ AcksRepeated

\* The two endpoints are each other's peers.
LEMMA PeerFacts ==
    \A e \in Endpoints : Peer(e) \in Endpoints /\ Peer(e) # e /\ Peer(Peer(e)) = e
  BY KcpAssumption DEF Peer, Endpoints

\* The fields of a segment.
LEMMA SegmentFields ==
    \A m \in Segments :
        /\ m.to \in Endpoints
        /\ m.type = "data" => m.num \in Nat /\ m.sn \in Nat
        /\ m.type = "ack"  => m.rn \in Nat /\ m.win \in Nat /\ m.nums \subseteq Nat
        /\ m.type = "cmd"  => m.rn \in Nat /\ m.sn \in Nat
  BY DEF Segments

(***************************************************************************)
(* The four quantities that segments speak of only grow.                   *)
(***************************************************************************)
Grows ==
    \A e \in Endpoints :
        /\ nextNumber[e] <= nextNumber'[e]
        /\ firstUnacknowledged[e] <= firstUnacknowledged'[e]
        /\ rnext[e] <= rnext'[e]
        /\ \A n \in Nat : Has(e, n) => Has(e, n)'

\* What is under way stays true.
LEMMA OldSegments ==
    ASSUME TypeOK, TypeOK', Grows, SegmentsOK
    PROVE  \A m \in net : SegmentOK(m)'
  <1> SUFFICES ASSUME NEW m \in net
               PROVE  SegmentOK(m)'
    OBVIOUS
  <1> DEFINE p == Peer(m.to)
  <1>1. m \in Segments /\ p \in Endpoints
    BY SegmentFields, PeerFacts DEF TypeOK
  <1>2. SegmentOK(m)
    BY DEF SegmentsOK
  <1>3. /\ nextNumber[p] \in Nat /\ nextNumber'[p] \in Nat /\ rnext[p] \in Nat /\ rnext'[p] \in Nat
        /\ firstUnacknowledged[p] \in Nat /\ firstUnacknowledged'[p] \in Nat
    BY <1>1 DEF TypeOK
  <1>4. /\ nextNumber[p] <= nextNumber'[p] /\ firstUnacknowledged[p] <= firstUnacknowledged'[p]
        /\ rnext[p] <= rnext'[p] /\ \A n \in Nat : Has(p, n) => Has(p, n)'
    BY <1>1 DEF Grows
  <1>5. CASE m.type = "data"
    BY <1>1, <1>2, <1>3, <1>4, <1>5, SegmentFields DEF SegmentOK
  <1>6. CASE m.type = "ack"
    BY <1>1, <1>2, <1>3, <1>4, <1>6, SegmentFields DEF SegmentOK
  <1>7. CASE m.type = "cmd"
    BY <1>1, <1>2, <1>3, <1>4, <1>7, SegmentFields DEF SegmentOK
  <1> QED
    BY <1>1, <1>5, <1>6, <1>7 DEF Segments

\* Segments leave a window only for a reason: then AckedIsReceived survives.
LEMMA LeavesForAReason ==
    ASSUME TypeOK, AckedIsReceived, Grows, UNCHANGED nextNumber,
           \A e \in Endpoints : \A n \in window[e] \cup abandoned[e] :
               n \in window'[e] \/ n \in abandoned'[e] \/ Has(Peer(e), n)'
    PROVE  AckedIsReceived'
  <1> SUFFICES ASSUME NEW e \in Endpoints, NEW n \in 0..(nextNumber[e] - 1)
               PROVE  n \in window'[e] \/ n \in abandoned'[e] \/ Has(Peer(e), n)'
    BY DEF AckedIsReceived
  <1>1. n \in Nat /\ Peer(e) \in Endpoints
    BY PeerFacts DEF TypeOK
  <1>2. n \in window[e] \/ n \in abandoned[e] \/ Has(Peer(e), n)
    BY DEF AckedIsReceived
  <1> QED
    BY <1>1, <1>2 DEF Grows

(***************************************************************************)
(* Steps that leave the numbers and the receiving side alone and empty a   *)
(* window into abandoned, or leave it alone: Close, Terminate and flush.   *)
(***************************************************************************)
LEMMA GivesUp ==
    ASSUME KcpInv, TypeOK',
           UNCHANGED <<firstUnacknowledged, nextNumber, cache, rnext, acklist>>,
           \A d \in Endpoints : window'[d] = window[d] \/ window'[d] = {},
           \A d \in Endpoints : \A n \in window[d] \cup abandoned[d] :
               n \in window'[d] \/ n \in abandoned'[d],
           \A m \in net' : m \in net \/ SegmentOK(m)'
    PROVE  KcpInv'
  <1>1. Grows
    BY DEF Grows, Has, TypeOK, KcpInv
  <1>2. SegmentsOK'
    BY <1>1, OldSegments DEF SegmentsOK, KcpInv
  <1>3. EndpointsOK'
    BY DEF EndpointsOK, WindowOK, ReceivedOK, Has, KcpInv
  <1>4. AckedIsReceived'
    BY <1>1, LeavesForAReason DEF KcpInv
  <1>5. AcksRepeated'
    BY DEF AcksRepeated, Has, KcpInv
  <1> QED
    BY <1>2, <1>3, <1>4, <1>5 DEF KcpInv

\* The connection starts with nothing sent.
LEMMA InitInv == Init => KcpInv
  <1> SUFFICES ASSUME Init PROVE KcpInv
    OBVIOUS
  <1>1. TypeOK
    BY KcpAssumption DEF Init, TypeOK, States, Segments
  <1>2. SegmentsOK /\ EndpointsOK
    BY PeerFacts DEF Init, SegmentsOK, EndpointsOK, WindowOK, ReceivedOK
  <1>3. AckedIsReceived /\ AcksRepeated
    BY DEF Init, AckedIsReceived, AcksRepeated
  <1> QED
    BY <1>1, <1>2, <1>3 DEF KcpInv

\* The writer pushes a number that the peer cannot have yet.
LEMMA PushInv ==
    ASSUME KcpInv, NEW e \in Endpoints, Push(e)
    PROVE  KcpInv'
  <1>0. TypeOK /\ \A d \in Endpoints : nextNumber[d] \in Nat /\ rnext[d] \in Nat
    BY DEF KcpInv, TypeOK
  <1>1. TypeOK'
    BY <1>0 DEF TypeOK, Push, recvVars
  <1>2. UNCHANGED <<firstUnacknowledged, cache, rnext, acklist, abandoned, net>>
    BY DEF Push, recvVars
  <1>3. \A d \in Endpoints :
           \/ window'[d] = window[d] /\ nextNumber'[d] = nextNumber[d]
           \/ window'[d] = window[d] \cup {nextNumber[d]} /\ nextNumber'[d] = nextNumber[d] + 1
    BY <1>0 DEF Push, TypeOK
  <1>4. Grows
    BY <1>0, <1>2, <1>3 DEF Grows, Has, TypeOK
  <1>5. SegmentsOK'
    BY <1>0, <1>1, <1>2, <1>4, OldSegments DEF SegmentsOK, KcpInv
  <1>6. EndpointsOK'
    <2> SUFFICES ASSUME NEW d \in Endpoints
                 PROVE  WindowOK(d)' /\ ReceivedOK(d)'
      BY DEF EndpointsOK
    <2>1. WindowOK(d) /\ ReceivedOK(d) /\ Peer(d) \in Endpoints
      BY PeerFacts DEF KcpInv, EndpointsOK
    <2>2. /\ firstUnacknowledged[d] \in Nat /\ window[d] \subseteq Nat /\ cache[d] \subseteq Nat
          /\ nextNumber[Peer(d)] <= nextNumber'[Peer(d)] /\ nextNumber'[Peer(d)] \in Nat
      BY <1>0, <1>1, <1>4, <2>1 DEF TypeOK, Grows
    <2>3. WindowOK(d)'
      BY <1>0, <1>2, <1>3, <2>1, <2>2 DEF WindowOK
    <2>4. ReceivedOK(d)'
      BY <1>0, <1>2, <2>1, <2>2 DEF ReceivedOK, Has
    <2> QED
      BY <2>3, <2>4
  <1>7. AckedIsReceived'
    <2> SUFFICES ASSUME NEW d \in Endpoints, NEW n \in 0..(nextNumber'[d] - 1)
                 PROVE  n \in window'[d] \/ n \in abandoned'[d] \/ Has(Peer(d), n)'
      BY DEF AckedIsReceived
    <2>1. n \in 0..(nextNumber[d] - 1) \/ n \in window'[d]
      BY <1>0, <1>3
    <2>2. CASE n \in 0..(nextNumber[d] - 1)
      <3>1. n \in window[d] \/ n \in abandoned[d] \/ Has(Peer(d), n)
        BY <2>2 DEF KcpInv, AckedIsReceived
      <3> QED
        BY <1>2, <1>3, <3>1 DEF Has
    <2> QED
      BY <2>1, <2>2
  <1>8. AcksRepeated'
    <2> SUFFICES ASSUME NEW d \in Endpoints, NEW n \in window'[d], Has(Peer(d), n)
                 PROVE  n \in acklist[Peer(d)]
      BY <1>2 DEF AcksRepeated, Has
    <2>1. n < nextNumber[d] /\ n \in Nat
      <3>1. ReceivedOK(Peer(d)) /\ Peer(Peer(d)) = d /\ Peer(d) \in Endpoints
        BY PeerFacts DEF KcpInv, EndpointsOK
      <3>2. n \in Nat
        BY <1>1 DEF TypeOK
      <3> QED
        BY <1>0, <3>1, <3>2 DEF ReceivedOK, Has
    <2>2. n \in window[d]
      BY <1>0, <1>3, <2>1
    <2> QED
      BY <2>2 DEF KcpInv, AcksRepeated
  <1> QED
    BY <1>1, <1>5, <1>6, <1>7, <1>8 DEF KcpInv

\* A read moves numbers from the cache below rnext: nothing is unreceived.
LEMMA ReadInv ==
    ASSUME KcpInv, NEW e \in Endpoints, ReadMultiBuffer(e)
    PROVE  KcpInv'
  <1>0. TypeOK /\ \A d \in Endpoints : nextNumber[d] \in Nat /\ rnext[d] \in Nat
    BY DEF KcpInv, TypeOK
  <1>1. TypeOK'
    <2>1. \A k \in 0..MaxSegments[Peer(e)] : k \in Nat
      BY PeerFacts, KcpAssumption
    <2>2. /\ rnext' \in [Endpoints -> Nat] /\ cache' \in [Endpoints -> SUBSET Nat]
      BY <1>0, <2>1 DEF TypeOK, ReadMultiBuffer
    <2>3. /\ rpc' \in [Endpoints -> {"top", "empty", "eof"}]
          /\ eof' \in [Endpoints -> {"none", "local", "peer", "raced"}]
      BY <1>0, SMTT(30) DEF TypeOK, ReadMultiBuffer
    <2> QED
      BY <1>0, <2>2, <2>3 DEF TypeOK, ReadMultiBuffer, sendVars
  <1>2. UNCHANGED <<window, firstUnacknowledged, nextNumber, acklist, abandoned, net>>
    BY DEF ReadMultiBuffer, sendVars
  <1>3. \A d \in Endpoints :
           /\ rnext[d] <= rnext'[d]
           /\ \A n \in Nat : Has(d, n) <=> Has(d, n)'
    <2> SUFFICES ASSUME NEW d \in Endpoints
                 PROVE  rnext[d] <= rnext'[d] /\ \A n \in Nat : Has(d, n) <=> Has(d, n)'
      OBVIOUS
    <2>1. CASE rnext'[d] = rnext[d] /\ cache'[d] = cache[d]
      BY <1>0, <2>1 DEF Has
    <2>2. CASE \E k \in Nat : /\ InOrderEnd(d, k) /\ rnext'[d] = k
                              /\ cache'[d] = cache[d] \ (rnext[d]..(k - 1))
      BY <1>0, <2>2 DEF Has, InOrderEnd
    <2>3. \A k \in 0..MaxSegments[Peer(e)] : k \in Nat
      BY PeerFacts, KcpAssumption
    <2> QED
      BY <1>0, <2>1, <2>2, <2>3 DEF ReadMultiBuffer, TypeOK
  <1>4. Grows
    BY <1>0, <1>2, <1>3 DEF Grows, TypeOK
  <1>5. SegmentsOK'
    BY <1>0, <1>1, <1>2, <1>4, OldSegments DEF SegmentsOK, KcpInv
  <1>6. EndpointsOK'
    <2> SUFFICES ASSUME NEW d \in Endpoints
                 PROVE  WindowOK(d)' /\ ReceivedOK(d)'
      BY DEF EndpointsOK
    <2>1. WindowOK(d) /\ ReceivedOK(d) /\ Peer(d) \in Endpoints
      BY PeerFacts DEF KcpInv, EndpointsOK
    <2>2. \A n \in Nat : Has(d, n)' => n < nextNumber[Peer(d)]
      BY <1>0, <1>3, <2>1 DEF ReceivedOK, Has
    <2>3. acklist[d] \subseteq Nat /\ cache'[d] \subseteq Nat /\ rnext'[d] \in Nat
      BY <1>0, <1>1 DEF TypeOK
    <2>4. rnext'[d] <= nextNumber[Peer(d)]
      <3>1. \A n \in Nat : n < rnext'[d] => n < nextNumber[Peer(d)]
        BY <2>2 DEF Has
      <3> QED
        BY <1>0, <2>1, <2>3, <3>1
    <2>5. ReceivedOK(d)'
      BY <1>2, <1>3, <2>1, <2>2, <2>3, <2>4 DEF ReceivedOK, Has
    <2> QED
      BY <1>2, <2>1, <2>5 DEF WindowOK
  <1>7. AckedIsReceived'
    BY <1>0, <1>2, <1>4, LeavesForAReason DEF KcpInv
  <1>8. AcksRepeated'
    <2> SUFFICES ASSUME NEW d \in Endpoints, NEW n \in window[d], Has(Peer(d), n)'
                 PROVE  n \in acklist[Peer(d)]
      BY <1>2 DEF AcksRepeated
    <2>1. Has(Peer(d), n)
      BY <1>0, <1>3, PeerFacts DEF TypeOK
    <2> QED
      BY <2>1 DEF KcpInv, AcksRepeated
  <1> QED
    BY <1>1, <1>5, <1>6, <1>7, <1>8 DEF KcpInv

(***************************************************************************)
(* What the changes of state do to the types and to the window.            *)
(***************************************************************************)
\* The states that Close, the peer's segments and flush lead to.
LEMMA StateFacts ==
    \A s \in States : \A close \in BOOLEAN :
        /\ HandleOption(s, close) \in States
        /\ OnTerminate(s) \in States
        /\ AfterClose(s) \in States
        /\ AfterLimit(s) \subseteq States
  BY DEF States, HandleOption, OnPeerClosed, OnTerminate, AfterClose, AfterLimit

\* SetState together with the window it leaves: emptied into abandoned, or kept.
LEMMA SetStateFacts ==
    ASSUME TypeOK, NEW e \in Endpoints, NEW t \in States, SetState(e, t)
    PROVE  /\ state' \in [Endpoints -> States]
           /\ abandoned' \in [Endpoints -> SUBSET Nat]
           /\ WindowAfter(e, state[e], t) \in SUBSET Nat
           /\ WindowAfter(e, state[e], t) = window[e] \/ WindowAfter(e, state[e], t) = {}
           /\ \A n \in window[e] \cup abandoned[e] :
                 n \in WindowAfter(e, state[e], t) \/ n \in abandoned'[e]
           /\ \A d \in Endpoints \ {e} : abandoned'[d] = abandoned[d]
  BY DEF TypeOK, SetState, WindowAfter

\* The same for steps that do nothing else to the window.
LEMMA WindowFacts ==
    ASSUME TypeOK, NEW e \in Endpoints, NEW t \in States, SetState(e, t),
           window' = [window EXCEPT ![e] = WindowAfter(e, state[e], t)]
    PROVE  /\ state' \in [Endpoints -> States]
           /\ abandoned' \in [Endpoints -> SUBSET Nat]
           /\ window' \in [Endpoints -> SUBSET Nat]
           /\ \A d \in Endpoints : window'[d] = window[d] \/ window'[d] = {}
           /\ \A d \in Endpoints : \A n \in window[d] \cup abandoned[d] :
                  n \in window'[d] \/ n \in abandoned'[d]
  <1> DEFINE w == WindowAfter(e, state[e], t)
  <1> HIDE DEF w
  <1>1. /\ state' \in [Endpoints -> States] /\ abandoned' \in [Endpoints -> SUBSET Nat]
        /\ w \in SUBSET Nat /\ (w = window[e] \/ w = {})
        /\ \A n \in window[e] \cup abandoned[e] : n \in w \/ n \in abandoned'[e]
        /\ \A d \in Endpoints \ {e} : abandoned'[d] = abandoned[d]
    BY SetStateFacts DEF w
  <1>2. window' = [window EXCEPT ![e] = w]
    BY DEF w
  <1>3. window' \in [Endpoints -> SUBSET Nat]
    <2>1. window \in [Endpoints -> SUBSET Nat] /\ w \in SUBSET Nat
      BY <1>1 DEF TypeOK
    <2> QED
      BY ONLY <1>2, <2>1
  <1>4. window'[e] = w /\ \A d \in Endpoints \ {e} : window'[d] = window[d]
    BY <1>2 DEF TypeOK
  <1>5. \A d \in Endpoints : window'[d] = window[d] \/ window'[d] = {}
    BY <1>1, <1>4
  <1>6. \A d \in Endpoints : \A n \in window[d] \cup abandoned[d] :
            n \in window'[d] \/ n \in abandoned'[d]
    BY <1>1, <1>4
  <1> QED
    BY <1>1, <1>3, <1>5, <1>6

\* The user closes.
LEMMA CloseInv ==
    ASSUME KcpInv, NEW e \in Endpoints, Close(e)
    PROVE  KcpInv'
  <1>1. TypeOK /\ AfterClose(state[e]) \in States
    BY StateFacts DEF KcpInv, TypeOK
  <1>2. /\ state' \in [Endpoints -> States] /\ abandoned' \in [Endpoints -> SUBSET Nat]
        /\ window' \in [Endpoints -> SUBSET Nat]
        /\ \A d \in Endpoints : window'[d] = window[d] \/ window'[d] = {}
        /\ \A d \in Endpoints : \A n \in window[d] \cup abandoned[d] :
               n \in window'[d] \/ n \in abandoned'[d]
    BY <1>1, WindowFacts DEF Close
  <1>3. TypeOK'
    BY <1>1, <1>2 DEF TypeOK, Close, recvVars
  <1>4. UNCHANGED <<firstUnacknowledged, nextNumber, cache, rnext, acklist, net>>
    BY DEF Close, recvVars
  <1> QED
    BY <1>2, <1>3, <1>4, GivesUp

\* Terminate releases the sending worker.
LEMMA TerminateInv ==
    ASSUME KcpInv, NEW e \in Endpoints, Terminate(e)
    PROVE  KcpInv'
  <1>1. TypeOK
    BY DEF KcpInv
  <1>2. TypeOK'
    BY <1>1 DEF TypeOK, Terminate, recvVars, userVars
  <1>3. UNCHANGED <<firstUnacknowledged, nextNumber, cache, rnext, acklist, net>>
    BY DEF Terminate, recvVars
  <1>4. /\ \A d \in Endpoints : window'[d] = window[d] \/ window'[d] = {}
        /\ \A d \in Endpoints : \A n \in window[d] \cup abandoned[d] :
               n \in window'[d] \/ n \in abandoned'[d]
    BY <1>1 DEF Terminate, TypeOK
  <1> QED
    BY <1>2, <1>3, <1>4, GivesUp

(***************************************************************************)
(* What flush puts under way is true of the state it is written in.        *)
(***************************************************************************)
LEMMA NewSegments ==
    ASSUME KcpInv, NEW e \in Endpoints, NEW t, NEW w, w \subseteq window[e],
           UNCHANGED <<firstUnacknowledged, nextNumber, cache, rnext>>,
           NEW m \in Flushable(e, t, w) \cup {Ping(e, t, "terminate")}
    PROVE  m \in Segments /\ SegmentOK(m)'
  <1>1. /\ Peer(e) \in Endpoints /\ Peer(Peer(e)) = e
        /\ rnext[e] \in Nat /\ firstUnacknowledged[e] \in Nat /\ nextNumber[e] \in Nat
        /\ window[e] \subseteq Nat /\ acklist[e] \subseteq Nat
        /\ rnext[e] + ReceivingInFlight \in Nat /\ (t = "ReadyToClose") \in BOOLEAN
    <2>1. /\ rnext[e] \in Nat /\ firstUnacknowledged[e] \in Nat /\ nextNumber[e] \in Nat
          /\ window[e] \subseteq Nat /\ acklist[e] \subseteq Nat
      BY DEF KcpInv, TypeOK
    <2>2. ReceivingInFlight \in Nat
      BY KcpAssumption
    <2> QED
      BY ONLY PeerFacts, e \in Endpoints, <2>1, <2>2, SMTT(30)
  <1>2. WindowOK(e) /\ ReceivedOK(e)
    BY DEF KcpInv, EndpointsOK
  <1>3. CASE \E n \in w : m = Data(e, t, n)
    <2> PICK n \in w : m = Data(e, t, n)
      BY <1>3
    <2>1. m \in Segments
      BY <1>1 DEF Data, Segments
    <2>2. m.type = "data" /\ m.to = Peer(e) /\ m.num = n /\ m.sn = firstUnacknowledged[e]
      BY DEF Data
    <2>3. n < nextNumber[e]
      BY <1>2 DEF WindowOK
    <2> QED
      BY <1>1, <2>1, <2>2, <2>3 DEF SegmentOK
  <1>4. CASE m = Ack(e, t)
    <2>1. m \in Segments
      BY <1>1, <1>4 DEF Ack, Segments
    <2>2. m.type = "ack" /\ m.to = Peer(e) /\ m.rn = rnext[e] /\ m.nums = acklist[e]
      BY <1>4 DEF Ack
    <2> QED
      BY <1>1, <1>2, <2>1, <2>2 DEF SegmentOK, ReceivedOK, Has
  <1>5. CASE \E c \in {"ping", "terminate"} : m = Ping(e, t, c)
    <2> PICK c \in {"ping", "terminate"} : m = Ping(e, t, c)
      BY ONLY <1>5
    <2>1. m \in Segments
      BY <1>1 DEF Ping, Segments
    <2>2. m.type = "cmd" /\ m.to = Peer(e) /\ m.rn = rnext[e] /\ m.sn = firstUnacknowledged[e]
      BY DEF Ping
    <2> QED
      BY <1>1, <2>1, <2>2, SMTT(30) DEF SegmentOK
  <1> QED
    BY <1>3, <1>4, <1>5 DEF Flushable

\* flush on a connection that goes on.
LEMMA FlushOpenInv ==
    ASSUME KcpInv, NEW e \in Endpoints, NEW s, NEW t, NEW kept, FlushOpen(e, s, t, kept)
    PROVE  KcpInv'
  <1> DEFINE w == WindowAfter(e, state[e], t)
  <1>1. TypeOK /\ t \in States
    <2>1. s \in States
      BY DEF FlushOpen, States
    <2> QED
      BY <2>1, StateFacts DEF FlushOpen, KcpInv
  <1>2. /\ state' \in [Endpoints -> States] /\ abandoned' \in [Endpoints -> SUBSET Nat]
        /\ window' \in [Endpoints -> SUBSET Nat]
        /\ \A d \in Endpoints : window'[d] = window[d] \/ window'[d] = {}
        /\ \A d \in Endpoints : \A n \in window[d] \cup abandoned[d] :
               n \in window'[d] \/ n \in abandoned'[d]
    BY <1>1, WindowFacts DEF FlushOpen
  <1>3. UNCHANGED <<firstUnacknowledged, nextNumber, cache, rnext, acklist>>
    BY DEF FlushOpen
  <1>4. w \subseteq window[e]
    BY DEF WindowAfter
  <1>5. /\ net' = net \cup kept
        /\ \A m \in kept : m \in Flushable(e, t, w)
    BY DEF FlushOpen
  <1> HIDE DEF w
  <1>6. \A m \in kept : m \in Segments /\ SegmentOK(m)'
    BY <1>3, <1>4, <1>5, NewSegments
  <1>7. net' \subseteq Segments
    BY <1>1, <1>5, <1>6 DEF TypeOK
  <1>8. TypeOK'
    BY <1>1, <1>2, <1>7 DEF TypeOK, FlushOpen
  <1>9. \A m \in net' : m \in net \/ SegmentOK(m)'
    BY <1>5, <1>6
  <1> QED
    BY <1>2, <1>3, <1>8, <1>9, GivesUp

\* flush on a connection that is terminating.
LEMMA FlushTerminatingInv ==
    ASSUME KcpInv, NEW e \in Endpoints, NEW t \in {"Terminating", "Terminated"}, NEW kept,
           FlushTerminating(e, t, kept)
    PROVE  KcpInv'
  <1>1. TypeOK /\ t \in States
    BY DEF KcpInv, States
  <1>2. /\ state' \in [Endpoints -> States] /\ abandoned' \in [Endpoints -> SUBSET Nat]
        /\ window' \in [Endpoints -> SUBSET Nat]
        /\ \A d \in Endpoints : window'[d] = window[d] \/ window'[d] = {}
        /\ \A d \in Endpoints : \A n \in window[d] \cup abandoned[d] :
               n \in window'[d] \/ n \in abandoned'[d]
    BY <1>1, WindowFacts DEF FlushTerminating
  <1>3. UNCHANGED <<firstUnacknowledged, nextNumber, cache, rnext, acklist>>
    BY DEF FlushTerminating, recvVars
  <1>4. \A m \in kept : m \in Segments /\ SegmentOK(m)'
    BY <1>3, NewSegments DEF FlushTerminating
  <1>5. net' = net \cup kept
    BY DEF FlushTerminating
  <1>6. net' \subseteq Segments
    BY <1>1, <1>4, <1>5 DEF TypeOK
  <1>7. TypeOK'
    BY <1>1, <1>2, <1>6 DEF TypeOK, FlushTerminating, recvVars
  <1>8. \A m \in net' : m \in net \/ SegmentOK(m)'
    BY <1>4, <1>5
  <1> QED
    BY <1>2, <1>3, <1>7, <1>8, GivesUp

\* firstUnacknowledged grows, and passes neither the window nor nextNumber.
LEMMA FirstFacts ==
    ASSUME KcpInv, NEW e \in Endpoints, NEW w, w \subseteq window[e],
           FindFirstUnacknowledged(e, w)
    PROVE  /\ firstUnacknowledged' \in [Endpoints -> Nat]
           /\ unaUpdated' \in [Endpoints -> BOOLEAN]
           /\ \A d \in Endpoints : firstUnacknowledged[d] <= firstUnacknowledged'[d]
           /\ \A d \in Endpoints \ {e} : firstUnacknowledged'[d] = firstUnacknowledged[d]
           /\ firstUnacknowledged'[e] <= nextNumber[e]
           /\ \A n \in w : firstUnacknowledged'[e] <= n
  <1>1. /\ firstUnacknowledged \in [Endpoints -> Nat] /\ nextNumber[e] \in Nat
        /\ window[e] \subseteq Nat /\ unaUpdated \in [Endpoints -> BOOLEAN]
    BY DEF KcpInv, TypeOK
  <1>2. WindowOK(e)
    BY DEF KcpInv, EndpointsOK
  <1>3. PICK f \in w \cup {nextNumber[e]} :
            /\ \A n \in w \cup {nextNumber[e]} : f <= n
            /\ firstUnacknowledged' = [firstUnacknowledged EXCEPT ![e] = f]
            /\ unaUpdated' = [unaUpdated EXCEPT ![e] = @ \/ f # firstUnacknowledged[e]]
    BY DEF FindFirstUnacknowledged
  <1>4. f \in Nat /\ firstUnacknowledged[e] <= f
    BY <1>1, <1>2 DEF WindowOK
  <1>5. unaUpdated' \in [Endpoints -> BOOLEAN]
    BY <1>1, <1>3
  <1> QED
    BY <1>1, <1>3, <1>4, <1>5

(***************************************************************************)
(* A data segment arrives.  Its SendingNext clears acknowledgements of     *)
(* segments that have left the sender's window; its own number is new to   *)
(* the AckList together with being new to the cache.                       *)
(***************************************************************************)
LEMMA InputDataInv ==
    ASSUME KcpInv, NEW m \in net, InputData(m)
    PROVE  KcpInv'
  <1> DEFINE e == m.to
             p == Peer(e)
             t == HandleOption(state[e], m.close)
  <1>1. /\ TypeOK /\ m \in Segments /\ m.type = "data" /\ SegmentOK(m)
        /\ e \in Endpoints /\ p \in Endpoints /\ p # e /\ Peer(p) = e
    BY PeerFacts, SegmentFields DEF KcpInv, TypeOK, SegmentsOK, InputData
  <1>2. /\ m.num \in Nat /\ m.sn \in Nat /\ m.num < nextNumber[p]
        /\ m.sn <= firstUnacknowledged[p]
    BY <1>1, SegmentFields DEF SegmentOK
  <1>3. t \in States
    <2>1. m.close \in BOOLEAN
      BY <1>1 DEF Segments
    <2> QED
      BY <1>1, <2>1, StateFacts DEF TypeOK
  <1>4. /\ state' \in [Endpoints -> States] /\ abandoned' \in [Endpoints -> SUBSET Nat]
        /\ window' \in [Endpoints -> SUBSET Nat]
        /\ \A d \in Endpoints : window'[d] = window[d] \/ window'[d] = {}
        /\ \A d \in Endpoints : \A n \in window[d] \cup abandoned[d] :
               n \in window'[d] \/ n \in abandoned'[d]
    BY <1>1, <1>3, WindowFacts DEF InputData
  <1>5. UNCHANGED <<firstUnacknowledged, nextNumber, rnext>> /\ net' \subseteq net
    BY DEF InputData, Consume
  <1>6. \/ UNCHANGED <<acklist, dirty, cache>>
        \/ /\ acklist' = [acklist EXCEPT ![e] = AckListClear(acklist[e], m.sn) \cup {m.num}]
           /\ dirty' = [dirty EXCEPT ![e] = TRUE]
           /\ cache' = [cache EXCEPT ![e] = cache[e] \cup {m.num}]
    BY DEF InputData
  <1> HIDE DEF e, p, t
  <1>7. /\ acklist' \in [Endpoints -> SUBSET Nat] /\ dirty' \in [Endpoints -> BOOLEAN]
        /\ cache' \in [Endpoints -> SUBSET Nat]
    <2>1. /\ acklist \in [Endpoints -> SUBSET Nat] /\ dirty \in [Endpoints -> BOOLEAN]
          /\ cache \in [Endpoints -> SUBSET Nat]
      BY <1>1 DEF TypeOK
    <2>2. AckListClear(acklist[e], m.sn) \cup {m.num} \in SUBSET Nat
      BY <1>1, <1>2, <2>1 DEF AckListClear
    <2>3. cache[e] \cup {m.num} \in SUBSET Nat
      BY <1>1, <1>2, <2>1
    <2>4. CASE UNCHANGED <<acklist, dirty, cache>>
      BY ONLY <2>1, <2>4
    <2>5. CASE /\ acklist' = [acklist EXCEPT ![e] = AckListClear(acklist[e], m.sn) \cup {m.num}]
               /\ dirty' = [dirty EXCEPT ![e] = TRUE]
               /\ cache' = [cache EXCEPT ![e] = cache[e] \cup {m.num}]
      <3> DEFINE l == AckListClear(acklist[e], m.sn) \cup {m.num}
                 c == cache[e] \cup {m.num}
      <3>1. l \in SUBSET Nat /\ c \in SUBSET Nat
        BY <2>2, <2>3
      <3>2. /\ acklist' = [acklist EXCEPT ![e] = l] /\ dirty' = [dirty EXCEPT ![e] = TRUE]
            /\ cache' = [cache EXCEPT ![e] = c]
        BY <2>5
      <3> HIDE DEF l, c
      <3> QED
        BY ONLY <2>1, <3>1, <3>2
    <2> QED
      BY <1>6, <2>4, <2>5
  <1>8. TypeOK'
    BY <1>1, <1>4, <1>5, <1>7 DEF TypeOK, InputData, userVars
  <1>9. \A d \in Endpoints :
            /\ cache[d] \subseteq cache'[d]
            /\ \A n \in cache'[d] : n \in cache[d] \/ (d = e /\ n = m.num)
            /\ \A n \in acklist'[d] : n \in acklist[d] \/ n \in cache'[d]
            /\ d = e => \A n \in acklist[d] : n >= m.sn => n \in acklist'[d]
            /\ d # e => acklist'[d] = acklist[d]
            /\ \A n \in cache'[d] : n \in cache[d] \/ n \in acklist'[d]
    BY <1>1, <1>6 DEF TypeOK, AckListClear
  <1>10. Grows
    <2>1. \A d \in Endpoints : /\ nextNumber[d] <= nextNumber'[d] /\ rnext[d] <= rnext'[d]
                               /\ firstUnacknowledged[d] <= firstUnacknowledged'[d]
      BY <1>1, <1>5 DEF TypeOK
    <2>2. \A d \in Endpoints : \A n \in Nat : Has(d, n) => Has(d, n)'
      BY <1>5, <1>9 DEF Has
    <2> QED
      BY ONLY <2>1, <2>2 DEF Grows
  <1>11. SegmentsOK'
    BY <1>1, <1>5, <1>8, <1>10, OldSegments DEF SegmentsOK, KcpInv
  <1>12. EndpointsOK'
    <2> SUFFICES ASSUME NEW d \in Endpoints
                 PROVE  WindowOK(d)' /\ ReceivedOK(d)'
      BY DEF EndpointsOK
    <2>1. WindowOK(d) /\ ReceivedOK(d)
      BY DEF KcpInv, EndpointsOK
    <2>2. WindowOK(d)'
      BY <1>4, <1>5, <2>1 DEF WindowOK
    <2>3. ReceivedOK(d)'
      BY <1>2, <1>5, <1>9, <2>1 DEF ReceivedOK, Has, p
    <2> QED
      BY <2>2, <2>3
  <1>13. AckedIsReceived'
    BY <1>1, <1>4, <1>5, <1>10, LeavesForAReason DEF KcpInv
  <1>14. AcksRepeated'
    <2> SUFFICES ASSUME NEW d \in Endpoints, NEW n \in window'[d], Has(Peer(d), n)'
                 PROVE  n \in acklist'[Peer(d)]
      BY DEF AcksRepeated
    <2>1. n \in window[d] /\ n \in Nat /\ Peer(d) \in Endpoints
      BY <1>4, PeerFacts
    <2>2. CASE ~Has(Peer(d), n)
      BY <1>5, <1>9, <2>1, <2>2 DEF Has
    <2>3. CASE Has(Peer(d), n)
      <3>1. n \in acklist[Peer(d)]
        BY <2>1, <2>3 DEF KcpInv, AcksRepeated
      <3>2. CASE Peer(d) # e
        BY <1>9, <2>1, <3>1, <3>2
      <3>3. CASE Peer(d) = e
        <4>1. d = p
          BY <3>3, PeerFacts DEF p
        <4>2. firstUnacknowledged[p] <= n /\ firstUnacknowledged[p] \in Nat
          BY <1>1, <2>1, <4>1 DEF KcpInv, EndpointsOK, WindowOK, TypeOK
        <4>3. n >= m.sn
          BY <1>2, <2>1, <4>2
        <4> QED
          BY <1>9, <2>1, <3>1, <3>3, <4>3
      <3> QED
        BY <3>2, <3>3
    <2> QED
      BY <2>2, <2>3
  <1> QED
    BY <1>8, <1>11, <1>12, <1>13, <1>14 DEF KcpInv

(***************************************************************************)
(* The sending side of an acknowledgement: the window loses what was given *)
(* up and what the peer has, and nothing else.                             *)
(***************************************************************************)
LEMMA Acknowledged ==
    ASSUME KcpInv, NEW e \in Endpoints, NEW t \in States, NEW una \in Nat, NEW nums,
           una <= rnext[Peer(e)], \A n \in nums : Has(Peer(e), n),
           SetState(e, t),
           window' = [window EXCEPT ![e] = Unacked(WindowAfter(e, state[e], t), una, nums)],
           FindFirstUnacknowledged(e, Unacked(WindowAfter(e, state[e], t), una, nums)),
           UNCHANGED <<nextNumber, cache, rnext>>
    PROVE  /\ state' \in [Endpoints -> States]
           /\ abandoned' \in [Endpoints -> SUBSET Nat]
           /\ window' \in [Endpoints -> SUBSET Nat]
           /\ firstUnacknowledged' \in [Endpoints -> Nat]
           /\ unaUpdated' \in [Endpoints -> BOOLEAN]
           /\ \A d \in Endpoints : window'[d] \subseteq window[d] /\ WindowOK(d)'
           /\ Grows
           /\ AckedIsReceived'
  <1> DEFINE W == WindowAfter(e, state[e], t)
             w == Unacked(W, una, nums)
  <1>1. TypeOK /\ Peer(e) \in Endpoints /\ rnext[Peer(e)] \in Nat
    BY PeerFacts DEF KcpInv, TypeOK
  <1>2. /\ state' \in [Endpoints -> States] /\ abandoned' \in [Endpoints -> SUBSET Nat]
        /\ W \in SUBSET Nat /\ (W = window[e] \/ W = {})
        /\ \A n \in window[e] \cup abandoned[e] : n \in W \/ n \in abandoned'[e]
        /\ \A d \in Endpoints \ {e} : abandoned'[d] = abandoned[d]
    BY <1>1, SetStateFacts
  <1>3. window' = [window EXCEPT ![e] = w] /\ FindFirstUnacknowledged(e, w)
    OBVIOUS
  <1> HIDE DEF W
  <1>4. w \subseteq W /\ w \in SUBSET Nat /\ \A n \in W : n \in w \/ Has(Peer(e), n)
    <2>1. w \subseteq W /\ w \in SUBSET Nat
      BY ONLY <1>2 DEF Unacked
    <2>2. ASSUME NEW n \in W, n \notin w
          PROVE  Has(Peer(e), n)
      <3>1. n \in Nat /\ (n < una \/ n \in nums)
        BY ONLY <1>2, <2>2, una \in Nat DEF w, Unacked
      <3>2. CASE n < una
        BY ONLY <1>1, <3>1, <3>2, una \in Nat, una <= rnext[Peer(e)] DEF Has
      <3> QED
        BY <3>1, <3>2
    <2> QED
      BY <2>1, <2>2
  <1> HIDE DEF w
  <1>5. w \subseteq window[e]
    BY <1>2, <1>4
  <1>6. /\ firstUnacknowledged' \in [Endpoints -> Nat]
        /\ unaUpdated' \in [Endpoints -> BOOLEAN]
        /\ \A d \in Endpoints : firstUnacknowledged[d] <= firstUnacknowledged'[d]
        /\ \A d \in Endpoints \ {e} : firstUnacknowledged'[d] = firstUnacknowledged[d]
        /\ firstUnacknowledged'[e] <= nextNumber[e]
        /\ \A n \in w : firstUnacknowledged'[e] <= n
    BY ONLY KcpInv, e \in Endpoints, <1>3, <1>5, FirstFacts
  <1>7. window'[e] = w /\ \A d \in Endpoints \ {e} : window'[d] = window[d]
    BY <1>1, <1>3 DEF TypeOK
  <1>8. window' \in [Endpoints -> SUBSET Nat]
    <2>1. window \in [Endpoints -> SUBSET Nat]
      BY <1>1 DEF TypeOK
    <2> QED
      BY ONLY <1>3, <1>4, <2>1
  <1>9. \A d \in Endpoints : window'[d] \subseteq window[d] /\ WindowOK(d)'
    <2> SUFFICES ASSUME NEW d \in Endpoints
                 PROVE  window'[d] \subseteq window[d] /\ WindowOK(d)'
      OBVIOUS
    <2>1. WindowOK(d) /\ UNCHANGED nextNumber
      BY DEF KcpInv, EndpointsOK
    <2>2. CASE d = e
      BY <1>5, <1>6, <1>7, <2>1, <2>2 DEF WindowOK
    <2>3. CASE d # e
      BY <1>6, <1>7, <2>1, <2>3 DEF WindowOK
    <2> QED
      BY <2>2, <2>3
  <1>10. Grows
    <2>0. nextNumber \in [Endpoints -> Nat] /\ rnext \in [Endpoints -> Nat]
      BY <1>1 DEF TypeOK
    <2>1. \A d \in Endpoints : nextNumber[d] <= nextNumber'[d] /\ rnext[d] <= rnext'[d]
      BY ONLY <2>0, UNCHANGED <<nextNumber, cache, rnext>>
    <2>2. \A d \in Endpoints : \A n \in Nat : Has(d, n) => Has(d, n)'
      BY DEF Has
    <2> QED
      BY ONLY <1>6, <2>1, <2>2 DEF Grows
  <1>11. \A d \in Endpoints : \A n \in window[d] \cup abandoned[d] :
            n \in window'[d] \/ n \in abandoned'[d] \/ Has(Peer(d), n)'
    <2>1. \A d \in Endpoints : \A n : Has(Peer(d), n) => Has(Peer(d), n)'
      BY DEF Has
    <2> QED
      BY <1>2, <1>4, <1>7, <2>1
  <1>12. AckedIsReceived'
    BY <1>1, <1>10, <1>11, LeavesForAReason DEF KcpInv
  <1> QED
    BY <1>2, <1>6, <1>8, <1>9, <1>10, <1>12

\* An acknowledgement arrives.
LEMMA InputAckInv ==
    ASSUME KcpInv, NEW m \in net, InputAck(m)
    PROVE  KcpInv'
  <1> DEFINE e == m.to
             p == Peer(e)
             t == HandleOption(state[e], m.close)
             w == Unacked(WindowAfter(e, state[e], t), m.rn, m.nums)
  <1>1. /\ TypeOK /\ m \in Segments /\ m.type = "ack" /\ SegmentOK(m)
        /\ e \in Endpoints /\ p \in Endpoints
    BY PeerFacts, SegmentFields DEF KcpInv, TypeOK, SegmentsOK, InputAck
  <1>2. /\ m.rn \in Nat /\ m.win \in Nat /\ m.rn <= rnext[p]
        /\ \A n \in m.nums : Has(p, n)
    BY <1>1, SegmentFields DEF SegmentOK
  <1>3. t \in States
    <2>1. m.close \in BOOLEAN
      BY <1>1 DEF Segments
    <2> QED
      BY <1>1, <2>1, StateFacts DEF TypeOK
  <1>4. /\ SetState(e, t) /\ window' = [window EXCEPT ![e] = w]
        /\ FindFirstUnacknowledged(e, w)
        /\ remoteNextNumber' = [remoteNextNumber EXCEPT ![e] = IF @ < m.win THEN m.win ELSE @]
        /\ UNCHANGED <<nextNumber, released, cache, rnext, acklist, dirty, userVars, expired>>
        /\ net' \subseteq net
    BY DEF InputAck, recvVars, Consume
  <1> HIDE DEF e, p, t
  <1>5. /\ state' \in [Endpoints -> States] /\ abandoned' \in [Endpoints -> SUBSET Nat]
        /\ window' \in [Endpoints -> SUBSET Nat]
        /\ firstUnacknowledged' \in [Endpoints -> Nat]
        /\ unaUpdated' \in [Endpoints -> BOOLEAN]
        /\ \A d \in Endpoints : window'[d] \subseteq window[d] /\ WindowOK(d)'
        /\ Grows
        /\ AckedIsReceived'
    BY <1>1, <1>2, <1>3, <1>4, Acknowledged DEF p
  <1>6. remoteNextNumber' \in [Endpoints -> Nat]
    BY <1>1, <1>2, <1>4 DEF TypeOK
  <1>7. TypeOK'
    BY <1>1, <1>4, <1>5, <1>6 DEF TypeOK, userVars
  <1>8. SegmentsOK'
    BY <1>1, <1>4, <1>5, <1>7, OldSegments DEF SegmentsOK, KcpInv
  <1>9. EndpointsOK'
    BY <1>4, <1>5 DEF KcpInv, EndpointsOK, ReceivedOK, Has
  <1>10. AcksRepeated'
    BY <1>4, <1>5 DEF KcpInv, AcksRepeated, Has
  <1> QED
    BY <1>5, <1>7, <1>8, <1>9, <1>10 DEF KcpInv

\* A command arrives: the same, and SendingNext clears the AckList.
LEMMA InputCmdInv ==
    ASSUME KcpInv, NEW m \in net, InputCmd(m)
    PROVE  KcpInv'
  <1> DEFINE e == m.to
             p == Peer(e)
             s == HandleOption(state[e], m.close)
             t == IF m.cmd = "terminate" THEN OnTerminate(s) ELSE s
             none == {}
             w == Unacked(WindowAfter(e, state[e], t), m.rn, none)
  <1>1. /\ TypeOK /\ m \in Segments /\ m.type = "cmd" /\ SegmentOK(m)
        /\ e \in Endpoints /\ p \in Endpoints
    BY PeerFacts, SegmentFields DEF KcpInv, TypeOK, SegmentsOK, InputCmd
  <1>2. /\ m.rn \in Nat /\ m.sn \in Nat /\ m.rn <= rnext[p]
        /\ m.sn <= firstUnacknowledged[p]
    BY <1>1, SegmentFields DEF SegmentOK
  <1>3. t \in States
    <2>1. m.close \in BOOLEAN
      BY <1>1 DEF Segments
    <2>2. s \in States
      BY <1>1, <2>1, StateFacts DEF TypeOK
    <2> HIDE DEF s
    <2> QED
      BY <2>1, <2>2, StateFacts
  <1>4. /\ SetState(e, t) /\ window' = [window EXCEPT ![e] = w]
        /\ FindFirstUnacknowledged(e, w)
        /\ acklist' = [acklist EXCEPT ![e] = AckListClear(acklist[e], m.sn)]
        /\ dirty' = [dirty EXCEPT ![e] = @ \/ AckListClear(acklist[e], m.sn) # acklist[e]]
        /\ UNCHANGED <<nextNumber, remoteNextNumber, released, cache, rnext, userVars, expired>>
        /\ net' \subseteq net
    BY DEF InputCmd, Consume
  <1> HIDE DEF e, p, t, none
  <1>5. /\ state' \in [Endpoints -> States] /\ abandoned' \in [Endpoints -> SUBSET Nat]
        /\ window' \in [Endpoints -> SUBSET Nat]
        /\ firstUnacknowledged' \in [Endpoints -> Nat]
        /\ unaUpdated' \in [Endpoints -> BOOLEAN]
        /\ \A d \in Endpoints : window'[d] \subseteq window[d] /\ WindowOK(d)'
        /\ Grows
        /\ AckedIsReceived'
    <2>1. \A n \in none : Has(Peer(e), n)
      BY DEF none
    <2>2. m.rn <= rnext[Peer(e)] /\ UNCHANGED <<nextNumber, cache, rnext>>
      BY <1>2, <1>4 DEF p
    <2> QED
      BY <1>1, <1>2, <1>3, <1>4, <2>1, <2>2, Acknowledged
  <1>6. /\ \A d \in Endpoints : acklist'[d] \subseteq acklist[d]
        /\ \A d \in Endpoints \ {e} : acklist'[d] = acklist[d]
        /\ \A n \in acklist[e] : n >= m.sn => n \in acklist'[e]
    BY <1>1, <1>4 DEF TypeOK, AckListClear
  <1>7. acklist' \in [Endpoints -> SUBSET Nat] /\ dirty' \in [Endpoints -> BOOLEAN]
    BY <1>1, <1>4 DEF TypeOK, AckListClear
  <1>8. TypeOK'
    BY <1>1, <1>4, <1>5, <1>7 DEF TypeOK, userVars
  <1>9. SegmentsOK'
    BY <1>1, <1>4, <1>5, <1>8, OldSegments DEF SegmentsOK, KcpInv
  <1>10. EndpointsOK'
    BY <1>4, <1>5, <1>6 DEF KcpInv, EndpointsOK, ReceivedOK, Has
  <1>11. AcksRepeated'
    <2> SUFFICES ASSUME NEW d \in Endpoints, NEW n \in window[d], Has(Peer(d), n)
                 PROVE  n \in acklist'[Peer(d)]
      BY <1>4, <1>5 DEF AcksRepeated, Has
    <2>1. n \in acklist[Peer(d)] /\ Peer(d) \in Endpoints
      BY PeerFacts DEF KcpInv, AcksRepeated
    <2>2. CASE Peer(d) # e
      BY <1>6, <2>1, <2>2
    <2>3. CASE Peer(d) = e
      <3>1. d = p
        BY <2>3, PeerFacts DEF p
      <3>2. n \in Nat /\ firstUnacknowledged[p] <= n /\ firstUnacknowledged[p] \in Nat
        BY <1>1, <3>1 DEF KcpInv, EndpointsOK, WindowOK, TypeOK
      <3>3. n >= m.sn
        BY ONLY <1>2, <3>2
      <3> QED
        BY <1>6, <2>1, <2>3, <3>3
    <2> QED
      BY <2>2, <2>3
  <1> QED
    BY <1>5, <1>8, <1>9, <1>10, <1>11 DEF KcpInv

\* Every step keeps the invariant.
LEMMA NextInv == KcpInv /\ [Next]_vars => KcpInv'
  <1> SUFFICES ASSUME KcpInv, [Next]_vars
               PROVE  KcpInv'
    OBVIOUS
  <1>1. ASSUME NEW e \in Endpoints, WriteCheck(e) \/ ReadEmpty(e)
        PROVE  KcpInv'
    <2>1. TypeOK'
      BY <1>1 DEF KcpInv, TypeOK, WriteCheck, ReadEmpty, sendVars, recvVars
    <2>2. UNCHANGED <<window, firstUnacknowledged, nextNumber, cache, rnext, acklist, abandoned, net>>
      BY <1>1 DEF WriteCheck, ReadEmpty, sendVars, recvVars
    <2> QED
      BY <2>1, <2>2, GivesUp
  <1>2. ASSUME NEW m \in net, Lose(m)
        PROVE  KcpInv'
    <2>1. UNCHANGED <<state, sendVars, released, recvVars, userVars, abandoned, expired>>
          /\ net' \subseteq net
      BY <1>2 DEF Lose
    <2>2. TypeOK'
      BY <2>1 DEF KcpInv, TypeOK, sendVars, recvVars, userVars
    <2> QED
      BY <2>1, <2>2, GivesUp DEF sendVars, recvVars
  <1>3. ASSUME NEW e \in Endpoints, Flush(e)
        PROVE  KcpInv'
    BY <1>3, FlushOpenInv, FlushTerminatingInv DEF Flush
  <1>4. ASSUME UNCHANGED vars
        PROVE  KcpInv'
    <2>1. TypeOK'
      BY <1>4 DEF KcpInv, TypeOK, vars, sendVars, recvVars, userVars
    <2>2. UNCHANGED <<window, firstUnacknowledged, nextNumber, cache, rnext, acklist, abandoned, net>>
      BY <1>4 DEF vars, sendVars, recvVars
    <2> QED
      BY <2>1, <2>2, GivesUp
  <1> QED
    BY <1>1, <1>2, <1>3, <1>4, PushInv, ReadInv, CloseInv, TerminateInv,
       InputDataInv, InputAckInv, InputCmdInv DEF Next

(***************************************************************************)
(* The invariant holds in every reachable state, for any number of         *)
(* segments, any windows, any behaviour of the network and of the users.   *)
(***************************************************************************)
THEOREM Invariance == Spec => []KcpInv
  BY InitInv, NextInv, PTL DEF Spec

\* Type correctness of the connection and of everything under way.
THEOREM TypeCorrect == Spec => []TypeOK
  <1>1. KcpInv => TypeOK
    BY DEF KcpInv
  <1> QED
    BY <1>1, Invariance, PTL

(***************************************************************************)
(* ReliableSending: a segment that SendingWindow.Clear or Remove took out  *)
(* has arrived at the peer.                                                *)
(***************************************************************************)
THEOREM ReliableSending == Spec => []AckedIsReceived
  <1>1. KcpInv => AckedIsReceived
    BY DEF KcpInv
  <1> QED
    BY <1>1, Invariance, PTL

(***************************************************************************)
(* AcksKept: AckList.Clear never drops the acknowledgement of a segment    *)
(* that is still in the peer's window.                                     *)
(***************************************************************************)
THEOREM AcksKept == Spec => []AcksRepeated
  <1>1. KcpInv => AcksRepeated
    BY DEF KcpInv
  <1> QED
    BY <1>1, Invariance, PTL
=============================================================================
