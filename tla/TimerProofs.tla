---------------------------- MODULE TimerProofs -----------------------------
(***************************************************************************)
(* Proofs about ActivityTimer, for any set of callers of SetTimeout.       *)
(*                                                                         *)
(* OneClock is not inductive: Rearm arms the timer of a task because the   *)
(* task is running, so that it needs RunningOK.  CutOnlyWhenIdle needs     *)
(* UpdateKept, its form at every moment and not only at the check.         *)
(***************************************************************************)
EXTENDS ActivityTimer, TLAPS

\* A running task is the current one or an orphan.
RunningOK == \A t \in Tasks : running[t] => t = checkTask \/ t \in orphans

\* An update stays in the channel until the current task's check or another takes it.
UpdateKept == fresh => updated = 1 \/ stolen

\* The inductive invariant.
TimerInv == TypeOK /\ RunningOK /\ OneClock /\ UpdateKept

(***************************************************************************)
(* The state in which CancelAfterInactivity returns satisfies it.          *)
(***************************************************************************)
LEMMA InitInv == Init => TimerInv
<1> SUFFICES ASSUME Init PROVE TimerInv
  OBVIOUS
<1>1. quiet \in BOOLEAN /\ fresh \in BOOLEAN /\ stolen \in BOOLEAN
  BY Zenon DEF Init
<1>2. TypeOK
  BY <1>1, TimerAssumption DEF Init, TypeOK, Tasks
<1>3. RunningOK /\ OneClock
  BY DEF Init, RunningOK, OneClock
<1>4. UpdateKept
  BY Zenon DEF Init, UpdateKept
<1> QED
  BY <1>2, <1>3, <1>4 DEF TimerInv

(***************************************************************************)
(* Activity, and the end of it.                                            *)
(***************************************************************************)
LEMMA UpdateInv ==
  ASSUME TimerInv, Update \/ BecomeQuiet
  PROVE  TimerInv'
<1>1. (quiet \in BOOLEAN /\ fresh \in BOOLEAN /\ stolen \in BOOLEAN)'
  BY Zenon DEF Update, BecomeQuiet, TimerInv, TypeOK
<1>2. TypeOK'
  BY <1>1 DEF Update, BecomeQuiet, Put, TimerInv, TypeOK
<1>3. RunningOK' /\ OneClock'
  BY DEF Update, BecomeQuiet, TimerInv, RunningOK, OneClock
<1>4. UpdateKept'
  BY DEF Update, BecomeQuiet, Put, TimerInv, UpdateKept
<1> QED
  BY <1>2, <1>3, <1>4 DEF TimerInv

(***************************************************************************)
(* Periodic.Close leaves the types alone, and of the tasks it does not     *)
(* touch the running ones and the armed ones stay what they are.           *)
(***************************************************************************)
LEMMA CloseFacts ==
  ASSUME TypeOK, NEW t, CloseTask(t)
  PROVE  /\ running' \in [Tasks -> BOOLEAN]
         /\ chain' \in [Tasks -> {"off", "armed", "called", "check", "finish", "checked"}]
         /\ \A u \in Tasks : running'[u] => running[u] /\ u # t
         /\ \A u \in Tasks : chain'[u] = "armed" => chain[u] = "armed" /\ u # t
  BY DEF TypeOK, CloseTask

(***************************************************************************)
(* Every step of SetTimeout.                                               *)
(***************************************************************************)
LEMMA SetTimeoutInv ==
  ASSUME TimerInv, NEW c \in Callers,
         SetTimeoutZero(c) \/ SetTimeout(c) \/ CallSetTimeout(c)
  PROVE  TimerInv'
<1>1. CASE SetTimeoutZero(c)
  BY <1>1, CloseFacts DEF SetTimeoutZero, Finish, TimerInv, TypeOK, RunningOK, OneClock, UpdateKept, Tasks
<1>2. CASE SetTimeout(c)
  BY <1>2, CloseFacts DEF SetTimeout, TimerInv, TypeOK, RunningOK, OneClock, UpdateKept, Tasks
<1>3. CASE SetTimeoutUpdate(c)
  <2>1. (quiet \in BOOLEAN /\ fresh \in BOOLEAN /\ stolen \in BOOLEAN)'
    BY <1>3, Zenon DEF SetTimeoutUpdate, TimerInv, TypeOK
  <2>2. TypeOK'
    BY <1>3, <2>1 DEF SetTimeoutUpdate, Put, TimerInv, TypeOK
  <2>3. RunningOK' /\ OneClock'
    BY <1>3 DEF SetTimeoutUpdate, TimerInv, RunningOK, OneClock
  <2>4. UpdateKept'
    BY <1>3 DEF SetTimeoutUpdate, Put, UpdateKept
  <2> QED
    BY <2>2, <2>3, <2>4 DEF TimerInv
<1>4. CASE SetTimeoutStart(c)
  BY <1>4 DEF SetTimeoutStart, TimerInv, TypeOK, RunningOK, OneClock, UpdateKept, Tasks
<1> QED
  BY <1>1, <1>2, <1>3, <1>4 DEF CallSetTimeout

(***************************************************************************)
(* Every step of a task.                                                   *)
(***************************************************************************)
LEMMA RunTaskInv ==
  ASSUME TimerInv, NEW t \in Tasks, RunTask(t)
  PROVE  TimerInv'
<1>1. CASE Fire(t)
  BY <1>1 DEF Fire, TimerInv, TypeOK, RunningOK, OneClock, UpdateKept
<1>2. CASE HasClosed(t)
  BY <1>2 DEF HasClosed, TimerInv, TypeOK, RunningOK, OneClock, UpdateKept
<1>3. CASE Check(t)
  BY <1>3 DEF Check, TimerInv, TypeOK, RunningOK, OneClock, UpdateKept
<1>4. CASE CheckFinish(t)
  BY <1>4 DEF CheckFinish, TimerInv, TypeOK, RunningOK, OneClock, UpdateKept
<1>5. CASE Rearm(t)
  BY <1>5 DEF Rearm, TimerInv, TypeOK, RunningOK, OneClock, UpdateKept
<1> QED
  BY <1>1, <1>2, <1>3, <1>4, <1>5 DEF RunTask

(***************************************************************************)
(* The inductive invariant of the timer.                                   *)
(***************************************************************************)
THEOREM TimerInvariance == Spec => []TimerInv
<1>1. TimerInv /\ [Next]_vars => TimerInv'
  <2> SUFFICES ASSUME TimerInv, [Next]_vars PROVE TimerInv'
    OBVIOUS
  <2>1. CASE Update \/ BecomeQuiet
    BY <2>1, UpdateInv
  <2>2. CASE \E c \in Callers : SetTimeoutZero(c) \/ SetTimeout(c) \/ CallSetTimeout(c)
    BY <2>2, SetTimeoutInv
  <2>3. CASE \E t \in Tasks : RunTask(t)
    BY <2>3, RunTaskInv
  <2>4. CASE UNCHANGED vars
    BY <2>4 DEF vars, TimerInv, TypeOK, RunningOK, OneClock, UpdateKept
  <2> QED
    BY <2>1, <2>2, <2>3, <2>4 DEF Next
<1> QED
  BY <1>1, InitInv, PTL DEF Spec

(***************************************************************************)
(* Type correctness: the channel of updates never holds more than one.     *)
(***************************************************************************)
THEOREM TimerTypes == Spec => []TypeOK
<1>1. TimerInv => TypeOK
  BY DEF TimerInv
<1> QED
  BY <1>1, TimerInvariance, PTL

(***************************************************************************)
(* An active connection is cut only if the check of a task that was being  *)
(* replaced has taken its update.                                          *)
(***************************************************************************)
THEOREM NoEarlyCut == Spec => []CutOnlyWhenIdle
<1>1. TimerInv => CutOnlyWhenIdle
  BY DEF TimerInv, UpdateKept, CutOnlyWhenIdle
<1> QED
  BY <1>1, TimerInvariance, PTL

(***************************************************************************)
(* Only the current task, or one that was started after it had been        *)
(* closed, has an armed timer.                                             *)
(***************************************************************************)
THEOREM SingleClock == Spec => []OneClock
<1>1. TimerInv => OneClock
  BY DEF TimerInv
<1> QED
  BY <1>1, TimerInvariance, PTL
=============================================================================
