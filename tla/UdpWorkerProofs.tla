-------------------------- MODULE UdpWorkerProofs ---------------------------
(***************************************************************************)
(* Proofs about UdpWorker, for any ids and any number of connections.      *)
(*                                                                         *)
(* The properties lean on each other: that Start succeeds rests on         *)
(* OpenIsListed for the connection the handler has just made, which needs  *)
(* to know that nobody closes it before its goroutine runs (NewestOK); and *)
(* that a removal is not left to nobody rests on RemovalOK.                *)
(***************************************************************************)
EXTENDS UdpWorker, TLAPS

\* The table lists connections under the id they were made for.
TableOK ==
    /\ \A i \in Ids : activeConn[i] # none => activeConn[i] \in 1..made /\ idOf[activeConn[i]] = i
    /\ \A c \in 1..made : idOf[c] \in Ids

\* A connection that is marked inactive and still listed is about to be removed, and
\* whoever is about to remove it has closed it.
RemovalOK ==
    \A c \in 1..made :
        /\ c \in inactive /\ activeConn[idOf[c]] = c => process[c] = "remove"
        /\ process[c] \in {"look", "set", "remove", "end"} => c \in done

\* The connection the handler is working on has no goroutine and is open.
NewestOK ==
    /\ handler # "receive" => made >= 1 /\ process[made] = "none" /\ made \notin done
    /\ \A c \in idle : process[c] # "none"
    /\ \A c \in Conns : c > made => process[c] = "none"

\* The checker's flag and its goroutine agree; what a failed first check means.
ChainOK ==
    /\ running <=> chain # "off"
    /\ chain = "failed" /\ handler = "starting" => made \in robbed
    /\ panic => handler = "starting" /\ chain = "off"

WorkerInv ==
    /\ TypeOK /\ TableOK /\ RemovalOK /\ NewestOK /\ ChainOK
    /\ OpenIsListed /\ EndedIsRemoved /\ CheckerWatches /\ StartSucceeds

(***************************************************************************)
(* The worker has been started and has seen no packet.                     *)
(***************************************************************************)
LEMMA InitInv == Init => WorkerInv
<1> SUFFICES ASSUME Init PROVE WorkerInv
  OBVIOUS
<1>1. running \in BOOLEAN /\ panic \in BOOLEAN /\ lost \in BOOLEAN
  BY Zenon DEF Init
<1>2. TypeOK
  BY <1>1, WorkerAssumption DEF Init, TypeOK, Conns, none
<1>3. TableOK /\ RemovalOK /\ OpenIsListed /\ EndedIsRemoved /\ CheckerWatches
  BY DEF Init, TableOK, RemovalOK, OpenIsListed, EndedIsRemoved, CheckerWatches, Empty, none
<1>4. NewestOK
  BY DEF Init, NewestOK
<1>5. ChainOK /\ StartSucceeds
  BY Zenon DEF Init, ChainOK, StartSucceeds
<1> QED
  BY <1>2, <1>3, <1>4, <1>5 DEF WorkerInv

(***************************************************************************)
(* A packet that makes a connection.                                       *)
(***************************************************************************)
LEMMA PacketInv ==
  ASSUME WorkerInv, NEW i \in Ids, PacketNew(i)
  PROVE  WorkerInv'
<1> USE WorkerAssumption DEF PacketNew, Known, checkVars, WorkerInv, TypeOK, Conns, none
<1>1. TypeOK'
  OBVIOUS
<1>2. TableOK'
  BY DEF TableOK
<1>3. RemovalOK'
  BY DEF TableOK, RemovalOK, NewestOK
<1>4. NewestOK'
  BY DEF TableOK, NewestOK
<1>5. ChainOK'
  BY DEF TableOK, ChainOK, OpenIsListed, NewestOK, Empty
<1>6. OpenIsListed'
  BY DEF TableOK, OpenIsListed
<1>7. EndedIsRemoved'
  BY DEF TableOK, RemovalOK, NewestOK, EndedIsRemoved
<1>8. CheckerWatches'
  BY DEF TableOK, ChainOK, CheckerWatches, Empty
<1>9. StartSucceeds'
  BY DEF ChainOK, StartSucceeds
<1> QED
  BY <1>1, <1>2, <1>3, <1>4, <1>5, <1>6, <1>7, <1>8, <1>9

(***************************************************************************)
(* The handler starts the checker.                                         *)
(***************************************************************************)
LEMMA HandlerStartInv ==
  ASSUME WorkerInv, HandlerStart
  PROVE  WorkerInv'
<1> USE WorkerAssumption DEF HandlerStart, connVars, WorkerInv, TypeOK, Conns, none
<1>1. TypeOK'
  OBVIOUS
<1>2. TableOK'
  BY DEF TableOK
<1>3. RemovalOK'
  BY DEF TableOK, RemovalOK
<1>4. NewestOK'
  BY DEF TableOK, NewestOK
<1>5. ChainOK'
  BY DEF TableOK, ChainOK, OpenIsListed, NewestOK, Empty
<1>6. OpenIsListed'
  BY DEF TableOK, OpenIsListed
<1>7. EndedIsRemoved'
  BY DEF TableOK, RemovalOK, NewestOK, EndedIsRemoved
<1>8. CheckerWatches'
  BY DEF TableOK, ChainOK, CheckerWatches, Empty
<1>9. StartSucceeds'
  BY DEF ChainOK, StartSucceeds
<1> QED
  BY <1>1, <1>2, <1>3, <1>4, <1>5, <1>6, <1>7, <1>8, <1>9

(***************************************************************************)
(* The handler leaves the connection to a goroutine of its own.            *)
(***************************************************************************)
LEMMA HandlerGoInv ==
  ASSUME WorkerInv, HandlerGo
  PROVE  WorkerInv'
<1> USE WorkerAssumption DEF HandlerGo, connVars, checkVars, WorkerInv, TypeOK, Conns, none
<1>1. TypeOK'
  OBVIOUS
<1>2. TableOK'
  BY DEF TableOK
<1>3. RemovalOK'
  BY DEF TableOK, RemovalOK, NewestOK
<1>4. NewestOK'
  BY DEF TableOK, NewestOK
<1>5. ChainOK'
  BY DEF TableOK, ChainOK, OpenIsListed, NewestOK, Empty
<1>6. OpenIsListed'
  BY DEF TableOK, OpenIsListed
<1>7. EndedIsRemoved'
  BY DEF TableOK, RemovalOK, NewestOK, EndedIsRemoved
<1>8. CheckerWatches'
  BY DEF TableOK, ChainOK, CheckerWatches, Empty
<1>9. StartSucceeds'
  BY DEF ChainOK, StartSucceeds
<1> QED
  BY <1>1, <1>2, <1>3, <1>4, <1>5, <1>6, <1>7, <1>8, <1>9

(***************************************************************************)
(* Activity, and the lack of it.                                           *)
(***************************************************************************)
LEMMA ActivityInv ==
  ASSUME WorkerInv, NEW c \in Conns, Activity(c) \/ Age(c) \/ ProcessReturn(c)
  PROVE  WorkerInv'
<1> USE WorkerAssumption DEF Activity, Age, ProcessReturn, connVars, checkVars, WorkerInv, TypeOK, Conns, none
<1>0. c \in 1..made
  BY DEF NewestOK
<1>1. TypeOK'
  BY <1>0
<1>2. TableOK'
  BY <1>0 DEF TableOK
<1>3. RemovalOK'
  BY <1>0 DEF TableOK, RemovalOK
<1>4. NewestOK'
  <2>1. CASE Activity(c)
    BY <2>1, <1>0 DEF NewestOK
  <2>2. CASE Age(c)
    BY <2>2, <1>0 DEF NewestOK
  <2>3. CASE ProcessReturn(c)
    BY <2>3, <1>0 DEF NewestOK
  <2> QED
    BY <2>1, <2>2, <2>3
<1>5. ChainOK'
  BY <1>0 DEF TableOK, ChainOK, OpenIsListed, NewestOK, Empty
<1>6. OpenIsListed'
  BY <1>0 DEF TableOK, OpenIsListed
<1>7. EndedIsRemoved'
  BY <1>0 DEF TableOK, RemovalOK, NewestOK, EndedIsRemoved
<1>8. CheckerWatches'
  BY <1>0 DEF TableOK, ChainOK, CheckerWatches, Empty
<1>9. StartSucceeds'
  <2>1. UNCHANGED <<panic, made, robbed>>
    OBVIOUS
  <2> QED
    BY ONLY <2>1, StartSucceeds, Zenon DEF StartSucceeds
<1> QED
  BY <1>1, <1>2, <1>3, <1>4, <1>5, <1>6, <1>7, <1>8, <1>9

(***************************************************************************)
(* A connection's goroutine ends.                                          *)
(***************************************************************************)
LEMMA ProcessInv ==
  ASSUME WorkerInv, NEW c \in Conns, ProcessClose(c) \/ ProcessLook(c) \/ ProcessSet(c)
  PROVE  WorkerInv'
<1> USE WorkerAssumption DEF ProcessClose, ProcessLook, ProcessSet, connVars, checkVars, WorkerInv, TypeOK, Conns, none
<1>0. c \in 1..made
  BY DEF NewestOK
<1>1. TypeOK'
  BY <1>0
<1>2. TableOK'
  BY <1>0 DEF TableOK
<1>3. RemovalOK'
  BY <1>0 DEF TableOK, RemovalOK
<1>4. NewestOK'
  <2>1. CASE ProcessClose(c)
    BY <2>1, <1>0 DEF NewestOK
  <2>2. CASE ProcessLook(c)
    BY <2>2, <1>0 DEF NewestOK
  <2>3. CASE ProcessSet(c)
    BY <2>3, <1>0 DEF NewestOK
  <2> QED
    BY <2>1, <2>2, <2>3
<1>5. ChainOK'
  BY <1>0 DEF TableOK, ChainOK, OpenIsListed, NewestOK, Empty
<1>6. OpenIsListed'
  BY <1>0 DEF TableOK, OpenIsListed
<1>7. EndedIsRemoved'
  BY <1>0 DEF TableOK, RemovalOK, NewestOK, EndedIsRemoved
<1>8. CheckerWatches'
  BY <1>0 DEF TableOK, ChainOK, CheckerWatches, Empty
<1>9. StartSucceeds'
  <2>1. UNCHANGED <<panic, made, robbed>>
    OBVIOUS
  <2> QED
    BY ONLY <2>1, StartSucceeds, Zenon DEF StartSucceeds
<1> QED
  BY <1>1, <1>2, <1>3, <1>4, <1>5, <1>6, <1>7, <1>8, <1>9

(***************************************************************************)
(* removeConn, which may take out a newer connection.                      *)
(***************************************************************************)
LEMMA RemoveInv ==
  ASSUME WorkerInv, NEW c \in Conns, ProcessRemove(c)
  PROVE  WorkerInv'
<1> USE WorkerAssumption DEF ProcessRemove, connVars, checkVars, WorkerInv, TypeOK, Conns, none
<1>0. c \in 1..made
  BY DEF NewestOK
<1>1. TypeOK'
  <2>1. idOf[c] \in Ids /\ activeConn[idOf[c]] \in (1..made) \cup {none}
    BY <1>0 DEF TableOK
  <2>2. robbed' \subseteq 1..made
    BY <2>1
  <2>3. activeConn' \in [Ids -> Conns \cup {none}]
    BY <2>1
  <2> QED
    BY <2>2, <2>3
<1>2. TableOK'
  BY <1>0 DEF TableOK
<1>3. RemovalOK'
  BY <1>0 DEF TableOK, RemovalOK
<1>4. NewestOK'
  BY <1>0 DEF TableOK, NewestOK
<1>5. ChainOK'
  BY <1>0 DEF TableOK, ChainOK, OpenIsListed, NewestOK, Empty
<1>6. OpenIsListed'
  <2> SUFFICES ASSUME NEW d \in 1..made, d \notin done, d \notin robbed'
               PROVE  activeConn'[idOf[d]] = d
    BY DEF OpenIsListed
  <2>1. activeConn[idOf[d]] = d /\ idOf[d] \in Ids /\ idOf[c] \in Ids
    BY <1>0 DEF OpenIsListed, TableOK
  <2>2. d # c
    BY <1>0 DEF RemovalOK
  <2>3. idOf[d] # idOf[c]
    BY <2>1, <2>2
  <2> QED
    BY <2>1, <2>3
<1>7. EndedIsRemoved'
  BY <1>0 DEF TableOK, RemovalOK, NewestOK, EndedIsRemoved
<1>8. CheckerWatches'
  BY <1>0 DEF TableOK, ChainOK, CheckerWatches, Empty
<1>9. StartSucceeds'
  BY <1>0 DEF ChainOK, StartSucceeds
<1> QED
  BY <1>1, <1>2, <1>3, <1>4, <1>5, <1>6, <1>7, <1>8, <1>9

(***************************************************************************)
(* The checker's clean.                                                    *)
(***************************************************************************)
LEMMA CleanInv ==
  ASSUME WorkerInv, Clean
  PROVE  WorkerInv'
<1> USE WorkerAssumption DEF Clean, Listed, WorkerInv, TypeOK, Conns, none
<1>1. TypeOK'
  OBVIOUS
<1>2. TableOK'
  BY DEF TableOK
<1>3. RemovalOK'
  BY DEF TableOK, RemovalOK
<1>4. NewestOK'
  BY DEF TableOK, NewestOK
<1>5. ChainOK'
  BY DEF TableOK, ChainOK, OpenIsListed, NewestOK, Empty
<1>6. OpenIsListed'
  BY DEF TableOK, OpenIsListed
<1>7. EndedIsRemoved'
  BY DEF TableOK, RemovalOK, NewestOK, EndedIsRemoved
<1>8. CheckerWatches'
  BY DEF TableOK, ChainOK, CheckerWatches, Empty
<1>9. StartSucceeds'
  BY DEF ChainOK, StartSucceeds
<1> QED
  BY <1>1, <1>2, <1>3, <1>4, <1>5, <1>6, <1>7, <1>8, <1>9

(***************************************************************************)
(* The other steps of the checker.                                         *)
(***************************************************************************)
LEMMA CheckerInv ==
  ASSUME WorkerInv, Fire \/ HasClosed \/ Failed \/ Rearm
  PROVE  WorkerInv'
<1> USE WorkerAssumption DEF Fire, HasClosed, Failed, Rearm, connVars, WorkerInv, TypeOK, Conns, none
<1>1. TypeOK'
  OBVIOUS
<1>2. TableOK'
  BY DEF TableOK
<1>3. RemovalOK'
  BY DEF TableOK, RemovalOK
<1>4. NewestOK'
  BY DEF TableOK, NewestOK
<1>5. ChainOK'
  <2>1. CASE Fire
    BY <2>1, SMTT(20) DEF ChainOK
  <2>2. CASE HasClosed
    BY <2>2, SMTT(20) DEF ChainOK
  <2>3. CASE Failed
    BY <2>3, SMTT(20) DEF ChainOK
  <2>4. CASE Rearm
    BY <2>4, SMTT(20) DEF ChainOK
  <2> QED
    BY <2>1, <2>2, <2>3, <2>4
<1>6. OpenIsListed'
  BY DEF TableOK, OpenIsListed
<1>7. EndedIsRemoved'
  BY DEF TableOK, RemovalOK, NewestOK, EndedIsRemoved
<1>8. CheckerWatches'
  BY DEF TableOK, ChainOK, CheckerWatches, Empty
<1>9. StartSucceeds'
  <2>1. CASE Fire
    BY <2>1, SMTT(20) DEF ChainOK, StartSucceeds
  <2>2. CASE HasClosed
    BY <2>2, SMTT(20) DEF ChainOK, StartSucceeds
  <2>3. CASE Failed
    BY <2>3, SMTT(20) DEF ChainOK, StartSucceeds
  <2>4. CASE Rearm
    BY <2>4, SMTT(20) DEF ChainOK, StartSucceeds
  <2> QED
    BY <2>1, <2>2, <2>3, <2>4
<1> QED
  BY <1>1, <1>2, <1>3, <1>4, <1>5, <1>6, <1>7, <1>8, <1>9

(***************************************************************************)
(* The inductive invariant of the worker.                                  *)
(***************************************************************************)
THEOREM WorkerInvariance == Spec => []WorkerInv
<1>1. WorkerInv /\ [Next]_vars => WorkerInv'
  <2> SUFFICES ASSUME WorkerInv, [Next]_vars PROVE WorkerInv'
    OBVIOUS
  <2>1. CASE UNCHANGED vars
    BY <2>1 DEF vars, WorkerInv, TypeOK, TableOK, RemovalOK, NewestOK, ChainOK, OpenIsListed,
                EndedIsRemoved, CheckerWatches, StartSucceeds, Empty
  <2>2. CASE \E i \in Ids : PacketKnown(i) \/ PacketNew(i)
    BY <2>1, <2>2, PacketInv DEF PacketKnown
  <2>3. CASE HandlerStep
    BY <2>3, HandlerStartInv, HandlerGoInv DEF HandlerStep
  <2>4. CASE \E c \in Conns : Activity(c) \/ Age(c) \/ ProcessReturn(c) \/ ProcessStep(c)
    BY <2>4, ActivityInv, ProcessInv, RemoveInv DEF ProcessStep
  <2>5. CASE CheckerStep
    BY <2>5, CleanInv, CheckerInv DEF CheckerStep
  <2> QED
    BY <2>1, <2>2, <2>3, <2>4, <2>5 DEF Next
<1> QED
  BY <1>1, InitInv, PTL DEF Spec

(***************************************************************************)
(* Every open connection is in the table, unless removeConn of an earlier  *)
(* connection of the same id took it out.                                  *)
(***************************************************************************)
THEOREM OpenConnections == Spec => []OpenIsListed
<1>1. WorkerInv => OpenIsListed
  BY DEF WorkerInv
<1> QED
  BY <1>1, WorkerInvariance, PTL

(***************************************************************************)
(* The checker and the connection's goroutine never both leave a closed    *)
(* connection in the table.                                                *)
(***************************************************************************)
THEOREM RemovalDone == Spec => []EndedIsRemoved
<1>1. WorkerInv => EndedIsRemoved
  BY DEF WorkerInv
<1> QED
  BY <1>1, WorkerInvariance, PTL

(***************************************************************************)
(* The checker runs while there are connections, unless Start met it       *)
(* stopping.                                                               *)
(***************************************************************************)
THEOREM CheckerRuns == Spec => []CheckerWatches
<1>1. WorkerInv => CheckerWatches
  BY DEF WorkerInv
<1> QED
  BY <1>1, WorkerInvariance, PTL

(***************************************************************************)
(* Starting the checker fails only if the new connection was taken out in  *)
(* place of an earlier one: there is no other way into that panic.         *)
(***************************************************************************)
THEOREM OnlyPanic == Spec => []StartSucceeds
<1>1. WorkerInv => StartSucceeds
  BY DEF WorkerInv
<1> QED
  BY <1>1, WorkerInvariance, PTL
=============================================================================
