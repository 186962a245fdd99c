---------------------------- MODULE StatsChannel ----------------------------
(***************************************************************************)
(* app/stats: a channel that broadcasts published messages to subscribers. *)
(* Start makes a close signal and a goroutine (loop) that takes messages   *)
(* and sends each to every subscriber; on the close signal the loop        *)
(* unsubscribes and closes them all.  Clients come and go through          *)
(* SubscribeRunnableChannel, which starts a channel without subscribers,   *)
(* and UnsubscribeClosableChannel, which closes it behind the last one.    *)
(*                                                                         *)
(* Close signals and loops are numbered by the Start that made them.  A    *)
(* send that meets a closed Go channel, and a second close of one, panic:  *)
(* the program stops.                                                      *)
(***************************************************************************)
EXTENDS Naturals, Sequences, SequencesExt, FiniteSets

CONSTANTS Clients,     \* each subscribes once, and names its channel
          Leavers,     \* clients that may unsubscribe by themselves
          Blocking, BufferSize, SubsLimit,  \* ChannelConfig
          MaxMessages, \* bound: messages published, in the order 1, 2, ...
          Mortal,      \* messages whose context may be done before they are delivered
          MaxStarts,   \* bound: times the channel is started
          MayClose     \* whether the owner (stats.Manager) may close the channel

ASSUME StatsAssumption ==
    /\ Leavers \subseteq Clients /\ Mortal \subseteq 1..MaxMessages
    /\ Blocking \in BOOLEAN /\ MayClose \in BOOLEAN
    /\ {BufferSize, SubsLimit, MaxMessages, MaxStarts} \subseteq Nat

Messages == 1..MaxMessages
Starts == 1..MaxStarts

VARIABLES
    channel,     \* Channel.channel: messages published and not taken
    publishing,  \* messages whose publish waits for room
    next,        \* the next message
    cancelled,   \* messages whose context is done
    closed,      \* Channel.closed: the number of its Start, 0 for nil
    signals,     \* close signals that were given
    loop,        \* the goroutine of each Start
    subscribers, \* Channel.subscribers
    inbox, sealed, \* the buffers of the subscribers' channels; those closed
    broadcasts,  \* goroutines of broadcastNonBlocking: <<message, client>>
    client,      \* where each client is
    got,         \* history: what each client received
    owed,        \* history: who, of those that stay, was subscribed when a message was published
    overlapped,  \* history: a Start while an earlier loop had not ended
    late,        \* history: clients that subscribed to a channel that was not running
    panic

vars == <<channel, publishing, next, cancelled, closed, signals, loop, subscribers, inbox,
          sealed, broadcasts, client, got, owed, overlapped, late, panic>>
pubVars == <<channel, publishing, next, cancelled, owed>>
runVars == <<closed, signals, overlapped>>
subVars == <<subscribers, client, late>>
boxVars == <<inbox, sealed, broadcasts, got, panic>>

Idle == [pc |-> "none", watch |-> 0, msg |-> 0, rest |-> <<>>]

Init ==
    /\ channel = <<>> /\ publishing = {} /\ next = 1 /\ cancelled = {}
    /\ closed = 0 /\ signals = {} /\ loop = [l \in Starts |-> Idle]
    /\ subscribers = <<>> /\ sealed = {} /\ broadcasts = {}
    /\ inbox = [c \in Clients |-> <<>>] /\ got = [c \in Clients |-> <<>>]
    /\ client = [c \in Clients |-> "idle"]
    /\ owed = [m \in Messages |-> {}]
    /\ overlapped = FALSE /\ late = {} /\ panic = FALSE

Running == closed # 0 /\ closed \notin signals
Alive(l) == loop[l].pc \notin {"none", "done"}

-----------------------------------------------------------------------------
(***************************************************************************)
(* Publish.  A send finds room in the channel or a loop that waits.        *)
(***************************************************************************)
Waiting(l) == loop[l].pc = "select" /\ channel = <<>>

\* Mutant: one message too many.
SendMutant(m) == Len(channel) <= BufferSize /\ channel' = Append(channel, m) /\ UNCHANGED loop

Send(m) ==
    \/ /\ Len(channel) < BufferSize
       /\ channel' = Append(channel, m)
       /\ UNCHANGED loop
    \/ \E l \in Starts :
          /\ Waiting(l)
          /\ loop' = [loop EXCEPT ![l].pc = "taken", ![l].watch = 0, ![l].msg = m]
          /\ UNCHANGED channel

CanSend == Len(channel) < BufferSize \/ \E l \in Starts : Waiting(l)

Publish ==
    /\ next \in Messages
    /\ Blocking => publishing = {}
    /\ next' = next + 1
    /\ \/ closed \in signals /\ UNCHANGED <<channel, publishing, loop, owed>>
       \/ /\ closed \notin signals
          /\ owed' = [owed EXCEPT ![next] = ToSet(subscribers) \ Leavers]
          /\ \/ Send(next) /\ UNCHANGED publishing
             \/ /\ ~CanSend
                /\ publishing' = publishing \cup {next}
                /\ UNCHANGED <<channel, loop>>
    /\ UNCHANGED <<cancelled, runVars, subVars, boxVars>>

PublishSend(m) ==
    /\ m \in publishing
    /\ Send(m) /\ publishing' = publishing \ {m}
    /\ UNCHANGED <<next, cancelled, owed, runVars, subVars, boxVars>>

\* The context of a message is done: whoever waits to send it gives up.
Cancel(m) ==
    /\ m \in Mortal /\ m < next /\ m \notin cancelled
    /\ cancelled' = cancelled \cup {m}
    /\ UNCHANGED <<channel, publishing, next, owed, runVars, subVars, boxVars, loop>>

PublishGivesUp(m) ==
    /\ m \in publishing \cap cancelled
    /\ publishing' = publishing \ {m}
    /\ UNCHANGED <<channel, next, cancelled, owed, runVars, subVars, boxVars, loop>>

-----------------------------------------------------------------------------
(***************************************************************************)
(* The loop.  Every turn reads Channel.closed anew, perhaps that of a      *)
(* later Start, and waits on what it read.                                 *)
(***************************************************************************)
LoopSelect(l) ==
    /\ loop[l].pc = "loop"
    /\ loop' = [loop EXCEPT ![l].pc = "select", ![l].watch = closed]
    /\ UNCHANGED <<pubVars, runVars, subVars, boxVars>>

LoopTake(l) ==
    /\ loop[l].pc = "select" /\ channel # <<>>
    /\ loop' = [loop EXCEPT ![l].pc = "taken", ![l].watch = 0, ![l].msg = Head(channel)]
    /\ channel' = Tail(channel)
    /\ UNCHANGED <<publishing, next, cancelled, owed, runVars, subVars, boxVars>>

LoopSubscribers(l) ==
    /\ loop[l].pc = "taken"
    /\ loop' = [loop EXCEPT ![l].pc = "send", ![l].rest = subscribers]
    /\ UNCHANGED <<pubVars, runVars, subVars, boxVars>>

\* Client c's channel takes m: into its buffer, or by a client that waits.
Deliver(m, c) ==
    /\ c \notin sealed
    /\ \/ /\ Len(inbox[c]) < BufferSize
          /\ inbox' = [inbox EXCEPT ![c] = Append(@, m)]
          /\ UNCHANGED got
       \/ /\ inbox[c] = <<>> /\ client[c] = "in"
          /\ got' = [got EXCEPT ![c] = Append(@, m)]
          /\ UNCHANGED inbox
    /\ UNCHANGED panic

SendOnClosed(c) == c \in sealed /\ panic' = TRUE /\ UNCHANGED <<inbox, got>>

\* Mutant: what finds no room is dropped.
BroadcastMutant(m, c) ==
    \/ Deliver(m, c) /\ UNCHANGED broadcasts
    \/ SendOnClosed(c) /\ UNCHANGED broadcasts
    \/ Len(inbox[c]) >= BufferSize /\ UNCHANGED <<inbox, got, panic, broadcasts>>

\* broadcast or broadcastNonBlocking: the latter leaves a goroutine behind.
Broadcast(m, c) ==
    \/ Deliver(m, c) /\ UNCHANGED broadcasts
    \/ SendOnClosed(c) /\ UNCHANGED broadcasts
    \/ Blocking /\ m \in cancelled /\ UNCHANGED <<inbox, got, panic, broadcasts>>
    \/ /\ ~Blocking /\ c \notin sealed /\ Len(inbox[c]) >= BufferSize
       /\ broadcasts' = broadcasts \cup {<<m, c>>}
       /\ UNCHANGED <<inbox, got, panic>>

LoopBroadcast(l) ==
    /\ loop[l].pc = "send" /\ loop[l].rest # <<>>
    /\ Broadcast(loop[l].msg, Head(loop[l].rest))
    /\ loop' = [loop EXCEPT ![l].rest = Tail(@)]
    /\ UNCHANGED <<pubVars, runVars, subVars, sealed>>

LoopSent(l) ==
    /\ loop[l].pc = "send" /\ loop[l].rest = <<>>
    /\ loop' = [loop EXCEPT ![l].pc = "loop", ![l].msg = 0]
    /\ UNCHANGED <<pubVars, runVars, subVars, boxVars>>

BroadcastLater(m, c) ==
    /\ <<m, c>> \in broadcasts
    /\ \/ Deliver(m, c) \/ SendOnClosed(c)
       \/ m \in cancelled /\ UNCHANGED <<inbox, got, panic>>
    /\ broadcasts' = broadcasts \ {<<m, c>>}
    /\ UNCHANGED <<pubVars, runVars, subVars, sealed, loop>>

\* Mutant: the loop ends and leaves its subscribers alone.
LoopClosedMutant(l) ==
    /\ loop[l].pc = "select" /\ loop[l].watch \in signals
    /\ loop' = [loop EXCEPT ![l] = [Idle EXCEPT !.pc = "done"]]
    /\ UNCHANGED <<pubVars, runVars, subVars, boxVars>>

LoopClosed(l) ==
    /\ loop[l].pc = "select" /\ loop[l].watch \in signals
    /\ loop' = [loop EXCEPT ![l].pc = "closing", ![l].watch = 0, ![l].rest = subscribers]
    /\ UNCHANGED <<pubVars, runVars, subVars, boxVars>>

LoopUnsubscribe(l) ==
    /\ loop[l].pc = "closing" /\ loop[l].rest # <<>>
    /\ LET c == Head(loop[l].rest) IN
       /\ subscribers' = Remove(subscribers, c)
       /\ sealed' = sealed \cup {c}
       /\ panic' = (c \in sealed)
    /\ loop' = [loop EXCEPT ![l].rest = Tail(@)]
    /\ UNCHANGED <<pubVars, runVars, client, late, inbox, broadcasts, got>>

LoopEnd(l) ==
    /\ loop[l].pc = "closing" /\ loop[l].rest = <<>>
    /\ loop' = [loop EXCEPT ![l] = [Idle EXCEPT !.pc = "done"]]
    /\ UNCHANGED <<pubVars, runVars, subVars, boxVars>>

-----------------------------------------------------------------------------
(***************************************************************************)
(* Start and Close.                                                        *)
(***************************************************************************)
\* Mutant: Start does not ask whether the channel runs.
StartMutant ==
    /\ closed < MaxStarts
    /\ closed' = closed + 1
    /\ loop' = [loop EXCEPT ![closed + 1].pc = "loop"]
    /\ UNCHANGED <<signals, overlapped>>

Start ==
    IF Running THEN UNCHANGED <<closed, signals, loop, overlapped>>
    ELSE /\ closed < MaxStarts
         /\ closed' = closed + 1
         /\ loop' = [loop EXCEPT ![closed + 1].pc = "loop"]
         /\ overlapped' = (overlapped \/ \E l \in Starts : Alive(l))
         /\ UNCHANGED signals

Close ==
    /\ signals' = IF Running THEN signals \cup {closed} ELSE signals
    /\ UNCHANGED <<closed, overlapped>>

ManagerClose ==
    /\ MayClose /\ Running /\ Close
    /\ UNCHANGED <<pubVars, subVars, boxVars, loop>>

-----------------------------------------------------------------------------
(***************************************************************************)
(* A client: subscribe, receive, unsubscribe.                              *)
(***************************************************************************)
Goes(c, from, to) == client[c] = from /\ client' = [client EXCEPT ![c] = to]

SubscribeCheck(c) ==
    /\ Goes(c, "idle", IF subscribers = <<>> THEN "start" ELSE "subscribe")
    /\ UNCHANGED <<pubVars, runVars, subscribers, late, boxVars, loop>>

SubscribeStart(c) ==
    /\ Goes(c, "start", "subscribe")
    /\ Start
    /\ UNCHANGED <<pubVars, subscribers, late, boxVars>>

Subscribe(c) ==
    /\ \/ /\ SubsLimit > 0 /\ Len(subscribers) >= SubsLimit
          /\ Goes(c, "subscribe", "out")
          /\ UNCHANGED <<subscribers, late>>
       \/ /\ SubsLimit = 0 \/ Len(subscribers) < SubsLimit
          /\ Goes(c, "subscribe", "in")
          /\ subscribers' = Append(subscribers, c)
          /\ late' = IF Running THEN late ELSE late \cup {c}
    /\ UNCHANGED <<pubVars, runVars, boxVars, loop>>

Receive(c) ==
    /\ client[c] = "in" /\ inbox[c] # <<>>
    /\ got' = [got EXCEPT ![c] = Append(@, Head(inbox[c]))]
    /\ inbox' = [inbox EXCEPT ![c] = Tail(@)]
    /\ UNCHANGED <<pubVars, runVars, subVars, sealed, broadcasts, panic, loop>>

Unsubscribe(c) ==
    /\ c \in Leavers \/ (c \in sealed /\ inbox[c] = <<>>)
    /\ Goes(c, "in", "left")
    /\ subscribers' = Remove(subscribers, c)
    /\ UNCHANGED <<pubVars, runVars, late, boxVars, loop>>

UnsubscribeCheck(c) ==
    /\ Goes(c, "left", IF subscribers = <<>> THEN "close" ELSE "out")
    /\ UNCHANGED <<pubVars, runVars, subscribers, late, boxVars, loop>>

UnsubscribeClose(c) ==
    /\ Goes(c, "close", "out")
    /\ Close
    /\ UNCHANGED <<pubVars, subscribers, late, boxVars, loop>>

-----------------------------------------------------------------------------
LoopStep(l) ==
    LoopSelect(l) \/ LoopTake(l) \/ LoopSubscribers(l) \/ LoopBroadcast(l) \/ LoopSent(l)
      \/ LoopClosed(l) \/ LoopUnsubscribe(l) \/ LoopEnd(l)

ClientStep(c) ==
    SubscribeCheck(c) \/ SubscribeStart(c) \/ Subscribe(c) \/ Receive(c) \/ Unsubscribe(c)
      \/ UnsubscribeCheck(c) \/ UnsubscribeClose(c)

PublishStep(m) == PublishSend(m) \/ PublishGivesUp(m)

Next ==
    /\ ~panic
    /\ \/ Publish \/ ManagerClose
       \/ \E m \in Messages : PublishStep(m) \/ Cancel(m) \/ \E c \in Clients : BroadcastLater(m, c)
       \/ \E l \in Starts : LoopStep(l)
       \/ \E c \in Clients : ClientStep(c)

Spec == Init /\ [][Next]_vars

(***************************************************************************)
(* Fairness: goroutines that can run go on, and a client that is           *)
(* subscribed keeps receiving.                                             *)
(***************************************************************************)
FairSpec ==
    /\ Spec
    /\ \A m \in Messages : WF_vars(~panic /\ PublishStep(m))
    /\ \A m \in Messages, c \in Clients : WF_vars(~panic /\ BroadcastLater(m, c))
    /\ \A l \in Starts : WF_vars(~panic /\ LoopStep(l))
    /\ \A c \in Clients : WF_vars(~panic /\ Receive(c))

-----------------------------------------------------------------------------
TypeOK ==
    /\ channel \in Seq(Messages) /\ Len(channel) <= BufferSize
    /\ publishing \subseteq Messages /\ cancelled \subseteq Messages
    /\ Blocking => Cardinality(publishing) <= 1
    /\ next \in 1..(MaxMessages + 1)
    /\ closed \in 0..MaxStarts /\ signals \subseteq Starts
    /\ \A l \in Starts :
          /\ loop[l].pc \in {"none", "loop", "select", "taken", "send", "closing", "done"}
          /\ loop[l].watch \in 0..MaxStarts /\ loop[l].msg \in 0..MaxMessages
          /\ ToSet(loop[l].rest) \subseteq Clients
    /\ ToSet(subscribers) \subseteq Clients /\ sealed \subseteq Clients /\ late \subseteq Clients
    /\ SubsLimit > 0 => Len(subscribers) <= SubsLimit
    /\ \A c \in Clients : Len(inbox[c]) <= BufferSize
    /\ broadcasts \subseteq Messages \X Clients

(***************************************************************************)
(* A blocking channel keeps the order: every subscriber receives messages  *)
(* in the order of publication and none twice, unless the channel was      *)
(* started again before the loop of an earlier Start had ended.            *)
(***************************************************************************)
InOrder ==
    Blocking /\ ~overlapped =>
        \A c \in Clients : \A i, j \in 1..Len(got[c]) : i < j => got[c][i] < got[c][j]

(***************************************************************************)
(* The program does not die here: no loop and no waiting broadcast sends   *)
(* on, or closes, a subscriber's channel that is closed, unless loops      *)
(* overlapped or broadcastNonBlocking had left a goroutine waiting.        *)
(***************************************************************************)
NoPanic == panic => overlapped \/ ~Blocking

(***************************************************************************)
(* No subscriber waits for ever on a channel that nobody serves: while it  *)
(* is subscribed the channel runs or a loop is about to close it, unless   *)
(* the channel had stopped between its Start and its Subscribe.            *)
(***************************************************************************)
SubscribersServed ==
    \A c \in ToSet(subscribers) : Running \/ (\E l \in Starts : Alive(l)) \/ c \in late

(***************************************************************************)
(* "the published message with guaranteed delivery. message is discarded   *)
(* only when the context is early cancelled": a client that is subscribed  *)
(* when a message is published receives it, unless it leaves or the        *)
(* message's context is done.                                              *)
(***************************************************************************)
GuaranteedDelivery ==
    \A m \in Messages, c \in Clients :
        c \in owed[m] ~> m \in cancelled \/ m \in ToSet(got[c])
=============================================================================
