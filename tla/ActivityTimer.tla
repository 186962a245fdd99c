--------------------------- MODULE ActivityTimer ----------------------------
(***************************************************************************)
(* common/signal: the timer that ends a proxied connection once neither    *)
(* direction has been active for a whole interval.  Its check runs as a    *)
(* task.Periodic; the two copy directions call Update on every buffer, and *)
(* each calls SetTimeout, which replaces the task by one with another      *)
(* interval, when it is finished: perhaps at the same moment.              *)
(*                                                                         *)
(* Each caller of SetTimeout creates one task, so that a task is named by  *)
(* its caller; Creator made the first one.  Intervals are not modelled: an *)
(* armed timer may fire at any time.                                       *)
(***************************************************************************)
EXTENDS Naturals

CONSTANTS Creator,   \* the goroutine of CancelAfterInactivity
          Callers,   \* the goroutines that will call SetTimeout
          none       \* no task

ASSUME TimerAssumption == Creator \notin Callers /\ none \notin Callers \cup {Creator}

Tasks == Callers \cup {Creator}

VARIABLES
    updated,    \* what the channel ActivityTimer.updated, of capacity one, holds
    checkTask,  \* ActivityTimer.checkTask
    onTimeout,  \* ActivityTimer.onTimeout is still set
    caller,     \* where each caller of SetTimeout is
    running,    \* Periodic.running of each task
    chain,      \* the goroutine or the armed timer of each task
    quiet,      \* there will be no more activity
    fresh,      \* history: activity since checkTask's last check or since it was set
    stolen,     \* history: the last update was taken by the check of another task
    orphans     \* history: tasks that were started after they had been replaced

vars == <<updated, checkTask, onTimeout, caller, running, chain, quiet, fresh, stolen,
          orphans>>

\* CancelAfterInactivity has returned: the first check has used up its own update.
Init ==
    /\ updated = 0
    /\ checkTask = Creator
    /\ onTimeout = TRUE
    /\ caller = [c \in Callers |-> "idle"]
    /\ running = [t \in Tasks |-> t = Creator]
    /\ chain = [t \in Tasks |-> IF t = Creator THEN "armed" ELSE "off"]
    /\ quiet = FALSE /\ fresh = FALSE
    /\ stolen = FALSE
    /\ orphans = {}

-----------------------------------------------------------------------------
\* Mutant: the channel has no room, so that an update without a check is lost.
PutMutant == UNCHANGED updated

\* Mutant: the send does not mind that the channel is full.
PutWideMutant == updated' = updated + 1

\* The non-blocking send: dropped if the channel is full.
Put == updated' = 1

\* Activity on the connection.
Update ==
    /\ ~quiet
    /\ Put /\ fresh' = TRUE /\ stolen' = FALSE
    /\ UNCHANGED <<checkTask, onTimeout, caller, running, chain, quiet, orphans>>

BecomeQuiet ==
    /\ ~quiet /\ quiet' = TRUE
    /\ UNCHANGED <<updated, checkTask, onTimeout, caller, running, chain, fresh, stolen,
                   orphans>>

\* Periodic.Close of task t: an armed timer is stopped, a running check is not.
\* Mutant: Close only stops the timer.
CloseTaskMutant(t) ==
    /\ chain' = [u \in Tasks |-> IF u = t /\ chain[u] = "armed" THEN "off" ELSE chain[u]]
    /\ UNCHANGED running

CloseTask(t) ==
    /\ running' = [u \in Tasks |-> running[u] /\ u # t]
    /\ chain' = [u \in Tasks |-> IF u = t /\ chain[u] = "armed" THEN "off" ELSE chain[u]]

\* finish: the callback is called once, and the task of the day is closed.
Finish ==
    /\ onTimeout' = FALSE
    /\ checkTask' = none
    /\ CloseTask(checkTask)

-----------------------------------------------------------------------------
(***************************************************************************)
(* SetTimeout: the task is replaced under the lock; Update and Start come  *)
(* after the lock is released.                                             *)
(***************************************************************************)
SetTimeoutZero(c) ==
    /\ caller[c] = "idle"
    /\ caller' = [caller EXCEPT ![c] = "done"]
    /\ Finish
    /\ UNCHANGED <<updated, quiet, fresh, stolen, orphans>>

SetTimeout(c) ==
    /\ caller[c] = "idle"
    /\ caller' = [caller EXCEPT ![c] = "update"]
    /\ CloseTask(checkTask)
    /\ checkTask' = c
    /\ UNCHANGED <<updated, onTimeout, quiet, fresh, stolen, orphans>>

SetTimeoutUpdate(c) ==
    /\ caller[c] = "update"
    /\ caller' = [caller EXCEPT ![c] = "start"]
    /\ Put /\ fresh' = TRUE /\ stolen' = FALSE
    /\ UNCHANGED <<checkTask, onTimeout, running, chain, quiet, orphans>>

\* Mutant: the new task is never started.
SetTimeoutStartMutant(c) ==
    /\ caller[c] = "start"
    /\ caller' = [caller EXCEPT ![c] = "done"]
    /\ UNCHANGED <<updated, checkTask, onTimeout, running, chain, quiet, fresh, stolen, orphans>>

SetTimeoutStart(c) ==
    /\ caller[c] = "start"
    /\ caller' = [caller EXCEPT ![c] = "done"]
    /\ running' = [running EXCEPT ![c] = TRUE]
    /\ chain' = [chain EXCEPT ![c] = "called"]
    /\ orphans' = IF c = checkTask THEN orphans ELSE orphans \cup {c}
    /\ UNCHANGED <<updated, checkTask, onTimeout, quiet, fresh, stolen>>

-----------------------------------------------------------------------------
(***************************************************************************)
(* Periodic.checkedExecute with check as what it executes.                 *)
(***************************************************************************)
Fire(t) ==
    /\ chain[t] = "armed"
    /\ chain' = [chain EXCEPT ![t] = "called"]
    /\ UNCHANGED <<updated, checkTask, onTimeout, caller, running, quiet, fresh, stolen,
                   orphans>>

HasClosed(t) ==
    /\ chain[t] = "called"
    /\ chain' = [chain EXCEPT ![t] = IF running[t] THEN "check" ELSE "off"]
    /\ UNCHANGED <<updated, checkTask, onTimeout, caller, running, quiet, fresh, stolen,
                   orphans>>

Check(t) ==
    /\ chain[t] = "check"
    /\ updated' = 0
    /\ chain' = [chain EXCEPT ![t] = IF updated = 1 THEN "checked" ELSE "finish"]
    /\ fresh' = (fresh /\ t # checkTask)
    /\ stolen' = (t # checkTask /\ (stolen \/ updated = 1))
    /\ UNCHANGED <<checkTask, onTimeout, caller, running, quiet, orphans>>

CheckFinish(t) ==
    /\ chain[t] = "finish"
    /\ onTimeout' = FALSE
    /\ checkTask' = none
    /\ running' = [u \in Tasks |-> running[u] /\ u # checkTask]
    /\ chain' = [u \in Tasks |->
                    CASE u = t -> "checked"
                      [] u # t /\ u = checkTask /\ chain[u] = "armed" -> "off"
                      [] OTHER -> chain[u]]
    /\ UNCHANGED <<updated, caller, quiet, fresh, stolen, orphans>>

\* Mutant: the timer is armed without another look at running.
RearmMutant(t) ==
    /\ chain[t] = "checked"
    /\ chain' = [chain EXCEPT ![t] = "armed"]
    /\ UNCHANGED <<updated, checkTask, onTimeout, caller, running, quiet, fresh, stolen,
                   orphans>>

Rearm(t) ==
    /\ chain[t] = "checked"
    /\ chain' = [chain EXCEPT ![t] = IF running[t] THEN "armed" ELSE "off"]
    /\ UNCHANGED <<updated, checkTask, onTimeout, caller, running, quiet, fresh, stolen,
                   orphans>>

-----------------------------------------------------------------------------
RunTask(t) == Fire(t) \/ HasClosed(t) \/ Check(t) \/ CheckFinish(t) \/ Rearm(t)

CallSetTimeout(c) == SetTimeoutUpdate(c) \/ SetTimeoutStart(c)

Next ==
    \/ Update \/ BecomeQuiet
    \/ \E c \in Callers : SetTimeoutZero(c) \/ SetTimeout(c) \/ CallSetTimeout(c)
    \/ \E t \in Tasks : RunTask(t)

Spec == Init /\ [][Next]_vars

(***************************************************************************)
(* Fairness: armed timers fire and goroutines that can run go on.          *)
(***************************************************************************)
FairSpec ==
    /\ Spec
    /\ \A c \in Callers : WF_vars(CallSetTimeout(c))
    /\ \A t \in Tasks : WF_vars(RunTask(t))

-----------------------------------------------------------------------------
TypeOK ==
    /\ updated \in 0 .. 1
    /\ checkTask \in Tasks \cup {none}
    /\ onTimeout \in BOOLEAN
    /\ caller \in [Callers -> {"idle", "update", "start", "done"}]
    /\ running \in [Tasks -> BOOLEAN]
    /\ chain \in [Tasks -> {"off", "armed", "called", "check", "finish", "checked"}]
    /\ quiet \in BOOLEAN /\ fresh \in BOOLEAN /\ stolen \in BOOLEAN
    /\ orphans \subseteq Callers

(***************************************************************************)
(* No connection is cut while it is active: when the check of the current  *)
(* task looks, and there was activity since its last look (or since        *)
(* SetTimeout made it current), it finds an update, unless the check of a  *)
(* task that was being replaced has taken it away.                         *)
(***************************************************************************)
CutOnlyWhenIdle ==
    \A t \in Tasks : chain[t] = "check" /\ t = checkTask /\ fresh => updated = 1 \/ stolen

(***************************************************************************)
(* One clock at a time: of all tasks that SetTimeout ever made, only the   *)
(* current one has an armed timer, unless one was started after another    *)
(* SetTimeout, or a timeout, had already replaced and closed it.           *)
(***************************************************************************)
OneClock == \A t \in Tasks : chain[t] = "armed" => t = checkTask \/ t \in orphans

(***************************************************************************)
(* A quiet connection is ended: however SetTimeout calls and checks        *)
(* interleave, some task keeps running until the callback is called.       *)
(***************************************************************************)
QuietEnds == quiet ~> ~onTimeout

(***************************************************************************)
(* ... and after that the timer leaves nothing behind: every task stops,   *)
(* but for the orphans, which run for ever.                                *)
(***************************************************************************)
TimerStops == quiet ~> \A t \in Tasks : chain[t] = "off" \/ t \in orphans
=============================================================================
