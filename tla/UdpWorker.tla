----------------------------- MODULE UdpWorker ------------------------------
(***************************************************************************)
(* app/proxyman/inbound: the worker of a UDP inbound.  It has a table of   *)
(* connections by source and destination (connID).  One goroutine takes    *)
(* packets from the hub and makes a connection for an id it does not know; *)
(* each connection has a goroutine that runs the proxy on it and removes   *)
(* it in the end; the checker, a task.Periodic that runs while there are   *)
(* connections, closes those without activity.                             *)
(*                                                                         *)
(* Connection objects are numbered as they are made.  Payloads go into the *)
(* pipe of the connection (module Pipe) and are not modelled here.         *)
(***************************************************************************)
EXTENDS Naturals

CONSTANTS Ids,       \* connID
          MaxConns   \* bound: connections made

ASSUME WorkerAssumption == MaxConns \in Nat

Conns == 1..MaxConns
none == 0

VARIABLES
    activeConn,  \* udpWorker.activeConn
    made,        \* connections made so far
    idOf,        \* the connID a connection was made for
    done,        \* udpConn.done
    inactive,    \* udpConn.inactive
    idle,        \* more than eight seconds since udpConn.lastActivityTime
    process,     \* the goroutine of each connection
    handler,     \* handlePackets: "receive", "start", "starting", "go"
    running,     \* Periodic.running of the checker
    chain,       \* the checker's timer or goroutine
    panic,       \* common.Must has failed
    robbed,      \* history: connections removed in place of an earlier one
    lost         \* history: the last Start found a checker about to stop

vars == <<activeConn, made, idOf, done, inactive, idle, process, handler, running, chain,
          panic, robbed, lost>>
connVars == <<made, idOf, done, inactive, idle>>
checkVars == <<running, chain, panic, lost>>

Init ==
    /\ activeConn = [i \in Ids |-> none]
    /\ made = 0
    /\ idOf = [c \in Conns |-> none]
    /\ done = {} /\ inactive = {} /\ idle = {}
    /\ process = [c \in Conns |-> "none"]
    /\ handler = "receive"
    /\ running = FALSE /\ chain = "off" /\ panic = FALSE
    /\ robbed = {} /\ lost = FALSE

Empty == \A i \in Ids : activeConn[i] = none

-----------------------------------------------------------------------------
(***************************************************************************)
(* handlePackets and callback.                                             *)
(***************************************************************************)
\* Mutant: getConnection does not look into the table.
KnownMutant(i) == FALSE

\* getConnection finds a connection that is not done.
Known(i) == activeConn[i] # none /\ activeConn[i] \notin done

\* A packet of a known connection goes into its pipe.
PacketKnown(i) ==
    /\ handler = "receive" /\ Known(i)
    /\ UNCHANGED vars

\* Mutant: the new connection is not put into the table.
PacketNewMutant(i) ==
    /\ handler = "receive" /\ ~Known(i)
    /\ made < MaxConns /\ made' = made + 1
    /\ idOf' = [idOf EXCEPT ![made'] = i]
    /\ handler' = "start"
    /\ UNCHANGED <<activeConn, done, inactive, idle, process, checkVars, robbed>>

PacketNew(i) ==
    /\ handler = "receive" /\ ~Known(i)
    /\ made < MaxConns /\ made' = made + 1
    /\ idOf' = [idOf EXCEPT ![made'] = i]
    /\ activeConn' = [activeConn EXCEPT ![i] = made']
    /\ handler' = "start"
    /\ UNCHANGED <<done, inactive, idle, process, checkVars, robbed>>

\* checker.Start: the first check runs on the goroutine of the caller.
HandlerStart ==
    /\ handler = "start"
    /\ \/ /\ running /\ handler' = "go"
          /\ lost' = (chain = "failed")
          /\ UNCHANGED <<running, chain>>
       \/ /\ ~running /\ handler' = "starting"
          /\ running' = TRUE /\ chain' = "called" /\ lost' = FALSE
    /\ UNCHANGED <<activeConn, connVars, process, panic, robbed>>

HandlerGo ==
    /\ handler = "go"
    /\ process' = [process EXCEPT ![made] = "run"]
    /\ handler' = "receive"
    /\ UNCHANGED <<activeConn, connVars, checkVars, robbed>>

-----------------------------------------------------------------------------
(***************************************************************************)
(* The goroutine of connection c.  The proxy reads and writes, which is    *)
(* activity, and returns at any time.                                      *)
(***************************************************************************)
Activity(c) ==
    /\ process[c] = "run" /\ c \notin done
    /\ idle' = idle \ {c}
    /\ UNCHANGED <<activeConn, made, idOf, done, inactive, process, handler, checkVars, robbed>>

\* Eight seconds without activity; callback, which never waits, takes less.
Age(c) ==
    /\ process[c] # "none" /\ idle' = idle \cup {c}
    /\ UNCHANGED <<activeConn, made, idOf, done, inactive, process, handler, checkVars, robbed>>

ProcessReturn(c) ==
    /\ process[c] = "run"
    /\ process' = [process EXCEPT ![c] = "close"]
    /\ UNCHANGED <<activeConn, connVars, handler, checkVars, robbed>>

ProcessClose(c) ==
    /\ process[c] = "close"
    /\ done' = done \cup {c}
    /\ process' = [process EXCEPT ![c] = "look"]
    /\ UNCHANGED <<activeConn, made, idOf, inactive, idle, handler, checkVars, robbed>>

\* inactive is read and set without the lock, under which the checker does the same.
ProcessLook(c) ==
    /\ process[c] = "look"
    /\ process' = [process EXCEPT ![c] = IF c \in inactive THEN "end" ELSE "set"]
    /\ UNCHANGED <<activeConn, connVars, handler, checkVars, robbed>>

ProcessSet(c) ==
    /\ process[c] = "set"
    /\ inactive' = inactive \cup {c}
    /\ process' = [process EXCEPT ![c] = "remove"]
    /\ UNCHANGED <<activeConn, made, idOf, done, idle, handler, checkVars, robbed>>

\* Mutant: removeConn forgets the table.
ProcessRemoveMutant(c) ==
    /\ process[c] = "remove"
    /\ process' = [process EXCEPT ![c] = "end"]
    /\ UNCHANGED <<activeConn, connVars, handler, checkVars, robbed>>

\* The id is deleted, whatever connection it has by now.
ProcessRemove(c) ==
    /\ process[c] = "remove"
    /\ process' = [process EXCEPT ![c] = "end"]
    /\ activeConn' = [activeConn EXCEPT ![idOf[c]] = none]
    /\ robbed' = robbed \cup ({activeConn[idOf[c]]} \ {c, none})
    /\ UNCHANGED <<connVars, handler, checkVars>>

-----------------------------------------------------------------------------
(***************************************************************************)
(* The checker: task.Periodic running clean.                               *)
(***************************************************************************)
Fire ==
    /\ chain = "armed" /\ chain' = "called"
    /\ UNCHANGED <<activeConn, connVars, process, handler, running, panic, lost, robbed>>

HasClosed ==
    /\ chain = "called"
    /\ chain' = IF running THEN "clean" ELSE "off"
    /\ handler' = IF running \/ handler # "starting" THEN handler ELSE "go"
    /\ UNCHANGED <<activeConn, connVars, process, running, panic, lost, robbed>>

Listed == {activeConn[i] : i \in Ids} \ {none}

\* Mutant: what the checker takes out of the table it does not close.
CleanMutant ==
    /\ chain = "clean"
    /\ \/ Empty /\ chain' = "failed" /\ UNCHANGED <<activeConn, done, inactive>>
       \/ /\ ~Empty /\ chain' = "cleaned"
          /\ activeConn' = [i \in Ids |-> IF activeConn[i] \in idle THEN none ELSE activeConn[i]]
          /\ inactive' = inactive \cup (Listed \cap idle)
          /\ UNCHANGED done
    /\ UNCHANGED <<made, idOf, idle, process, handler, running, panic, lost, robbed>>

\* Mutant: Close is called on what the table has after the deletion.
CleanNilMutant ==
    /\ chain = "clean" /\ chain' = "cleaned"
    /\ activeConn' = [i \in Ids |-> IF activeConn[i] \in idle THEN none ELSE activeConn[i]]
    /\ inactive' = inactive \cup (Listed \cap idle)
    /\ done' = done \cup {activeConn'[i] : i \in {j \in Ids : activeConn[j] \in idle}}
    /\ UNCHANGED <<made, idOf, idle, process, handler, running, panic, lost, robbed>>

Clean ==
    /\ chain = "clean"
    /\ \/ Empty /\ chain' = "failed" /\ UNCHANGED <<activeConn, done, inactive>>
       \/ /\ ~Empty /\ chain' = "cleaned"
          /\ activeConn' = [i \in Ids |->
                IF activeConn[i] \in idle \ inactive THEN none ELSE activeConn[i]]
          /\ inactive' = inactive \cup (Listed \cap idle)
          /\ done' = done \cup (Listed \cap idle)
    /\ UNCHANGED <<made, idOf, idle, process, handler, running, panic, lost, robbed>>

\* clean has returned an error: the task stops, and Start would return it.
Failed ==
    /\ chain = "failed" /\ chain' = "off"
    /\ running' = FALSE
    /\ panic' = (handler = "starting")
    /\ UNCHANGED <<activeConn, connVars, process, handler, lost, robbed>>

\* Mutant: nothing arms the timer again.
RearmMutant ==
    /\ chain = "cleaned" /\ chain' = "off"
    /\ handler' = IF handler = "starting" THEN "go" ELSE handler
    /\ UNCHANGED <<activeConn, connVars, process, running, panic, lost, robbed>>

Rearm ==
    /\ chain = "cleaned"
    /\ chain' = IF running THEN "armed" ELSE "off"
    /\ handler' = IF handler = "starting" THEN "go" ELSE handler
    /\ UNCHANGED <<activeConn, connVars, process, running, panic, lost, robbed>>

-----------------------------------------------------------------------------
HandlerStep == HandlerStart \/ HandlerGo
ProcessStep(c) == ProcessClose(c) \/ ProcessLook(c) \/ ProcessSet(c) \/ ProcessRemove(c)
CheckerStep == Fire \/ HasClosed \/ Clean \/ Failed \/ Rearm

Next ==
    \/ \E i \in Ids : PacketKnown(i) \/ PacketNew(i)
    \/ HandlerStep
    \/ \E c \in Conns : Activity(c) \/ Age(c) \/ ProcessReturn(c) \/ ProcessStep(c)
    \/ CheckerStep

Spec == Init /\ [][Next]_vars

(***************************************************************************)
(* Fairness: goroutines that can run go on and timers fire.  A proxy may   *)
(* keep its connection as long as it likes.                                *)
(***************************************************************************)
FairSpec ==
    /\ Spec
    /\ WF_vars(HandlerStep) /\ WF_vars(CheckerStep)
    /\ \A c \in Conns : WF_vars(ProcessStep(c))

-----------------------------------------------------------------------------
TypeOK ==
    /\ activeConn \in [Ids -> Conns \cup {none}]
    /\ made \in 0..MaxConns
    /\ idOf \in [Conns -> Ids \cup {none}]
    /\ done \subseteq 1..made /\ inactive \subseteq 1..made /\ idle \subseteq 1..made
    /\ process \in [Conns -> {"none", "run", "close", "look", "set", "remove", "end"}]
    /\ handler \in {"receive", "start", "starting", "go"}
    /\ running \in BOOLEAN /\ panic \in BOOLEAN /\ lost \in BOOLEAN
    /\ chain \in {"off", "armed", "called", "clean", "failed", "cleaned"}
    /\ robbed \subseteq 1..made

(***************************************************************************)
(* A connection that is open is in the table, where the packets of its     *)
(* source and the checker find it, and so no source has two; unless        *)
(* removeConn of an earlier connection of that id took it out.             *)
(***************************************************************************)
OpenIsListed == \A c \in 1..made : c \in done \/ activeConn[idOf[c]] = c \/ c \in robbed

(***************************************************************************)
(* Nothing dead stays behind: the checker and the connection's own         *)
(* goroutine leave the removal to each other, but one of them does it.     *)
(***************************************************************************)
EndedIsRemoved == \A c \in 1..made : process[c] = "end" => activeConn[idOf[c]] # c

(***************************************************************************)
(* While there are connections the checker runs, unless the packet that    *)
(* made the last new one met a checker that had just found the table empty *)
(* and had not yet said that it stops.                                     *)
(***************************************************************************)
CheckerWatches ==
    handler \in {"receive", "go"} /\ ~Empty => lost \/ (running /\ chain \notin {"off", "failed"})

(***************************************************************************)
(* common.Must(w.checker.Start()) does not panic: the first check of a new *)
(* checker finds the connection it was started for, unless that was taken  *)
(* out in place of an earlier one.                                         *)
(***************************************************************************)
StartSucceeds == panic => made \in robbed

(***************************************************************************)
(* common.Must(w.checker.Start()), as the code has it: Start never fails.  *)
(***************************************************************************)
MustStart == ~panic

(***************************************************************************)
(* A connection that stays without activity is closed, outside those two   *)
(* races.                                                                  *)
(***************************************************************************)
IdleEnds ==
    \A c \in Conns : c \in idle ~> c \in done \/ c \notin idle \/ c \in robbed \/ lost
=============================================================================
