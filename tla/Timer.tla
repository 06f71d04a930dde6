-------------------------------- MODULE Timer --------------------------------
(***************************************************************************)
(* Timer and TimerRunner (include/timer.hpp): a thread that sleeps on a    *)
(* condition variable until a task is due and runs its callback without    *)
(* the mutex, while other threads, and the callbacks themselves, add       *)
(* tasks, and somebody stops the timer.                                    *)
(*                                                                         *)
(* add_task and stop keep the mutex from their first to their last line:   *)
(* each is one step.  run() keeps it from one wait or callback to the      *)
(* next, but reads the clock several times on the way.                     *)
(***************************************************************************)
EXTENDS Integers, FiniteSets

CONSTANTS
  Tasks,     \* each is added at most once
  Never,     \* the deadline of a wait without one
  MaxTime    \* bound: the clock stops there, and no task is later

ASSUME TimerAssumption == MaxTime \in Nat \ {0} /\ Never \notin Int

Time == 0..MaxTime

VARIABLES
  now,
  m_tasks, m_stop,
  execute_time,  \* per task
  rpc,           \* run(): "lock", "check", "due", "callback", "relock", "decide", "asleep", "done"
  wake_time,     \* when the wait of run() times out, reset when it is over
  current,       \* the tasks whose callback runs: one or none
  fate,          \* ghost, per task: "new", "pending", "run", "cancelled", "twice"
  raced          \* ghost: stop() came while a callback ran

vars == <<now, m_tasks, m_stop, execute_time, rpc, wake_time, current, fate, raced>>

Init ==
  /\ now = 0
  /\ m_tasks = {} /\ m_stop = FALSE
  /\ execute_time = [t \in Tasks |-> 0]
  /\ rpc = "lock" /\ wake_time = Never /\ current = {}
  /\ fate = [t \in Tasks |-> "new"]
  /\ raced = FALSE

MutexFree == rpc \notin {"check", "due", "decide"}

\* Mutant: nobody is notified.
NotifyNobody == rpc

\* m_cv.notify_one() and notify_all(): run() is the only one that waits.
Notify == IF rpc = "asleep" THEN "lock" ELSE rpc

-----------------------------------------------------------------------------
(* Clients *)

AddTask(t, time) ==
  /\ fate[t] = "new"
  /\ MutexFree
  /\ execute_time' = [execute_time EXCEPT ![t] = time]
  /\ m_tasks' = m_tasks \cup {t}
  /\ rpc' = Notify
  /\ fate' = [fate EXCEPT ![t] = "pending"]
  /\ UNCHANGED <<now, m_stop, wake_time, current, raced>>

\* Every task in the queue is cancelled, in the order of the queue.
Stop ==
  /\ ~m_stop
  /\ MutexFree
  /\ m_stop' = TRUE
  /\ m_tasks' = {}
  /\ fate' = [t \in Tasks |->
       IF t \notin m_tasks THEN fate[t] ELSE IF fate[t] = "pending" THEN "cancelled" ELSE "twice"]
  /\ rpc' = Notify
  /\ raced' = (rpc \in {"callback", "relock"})
  /\ UNCHANGED <<now, execute_time, wake_time, current>>

Tick ==
  /\ now < MaxTime
  /\ now' = now + 1
  /\ UNCHANGED <<m_tasks, m_stop, execute_time, rpc, wake_time, current, fate, raced>>

-----------------------------------------------------------------------------
(* run() *)

\* m_tasks.top(); the heap orders tasks of the same time in no specified way.
Top == {t \in m_tasks : \A u \in m_tasks : execute_time[t] <= execute_time[u]}

\* Mutant: the callback runs as early as the wait may end.
IsDueWithinMargin(t) == execute_time[t] - 1 <= now
IsDue(t) == execute_time[t] <= now

\* The wait of run() begins, or returns.
Lock ==
  /\ rpc = "lock"
  /\ rpc' = "check"
  /\ wake_time' = Never
  /\ UNCHANGED <<now, m_tasks, m_stop, execute_time, current, fate, raced>>

\* while (!m_stop)
CheckStop ==
  /\ rpc = "check"
  /\ rpc' = IF m_stop THEN "done" ELSE "due"
  /\ UNCHANGED <<now, m_tasks, m_stop, execute_time, wake_time, current, fate, raced>>

\* Mutant: the task is left in the queue.
PeekOnly(t) == m_tasks
Popped(t) == m_tasks \ {t}

\* A due task is popped, and the mutex unlocked for its callback.
StartCallback(t) ==
  /\ rpc = "due"
  /\ t \in Top /\ IsDue(t)
  /\ m_tasks' = Popped(t)
  /\ current' = {t}
  /\ rpc' = "callback"
  /\ fate' = [fate EXCEPT ![t] = IF @ = "pending" THEN "run" ELSE "twice"]
  /\ UNCHANGED <<now, m_stop, execute_time, wake_time, raced>>

\* The callback returns, or throws and is caught.
EndCallback ==
  /\ rpc = "callback"
  /\ rpc' = "relock"
  /\ current' = {}
  /\ UNCHANGED <<now, m_tasks, m_stop, execute_time, wake_time, fate, raced>>

Relock ==
  /\ rpc = "relock"
  /\ rpc' = "due"
  /\ UNCHANGED <<now, m_tasks, m_stop, execute_time, wake_time, current, fate, raced>>

NothingDue ==
  /\ rpc = "due"
  /\ \A t \in Top : ~IsDue(t)
  /\ rpc' = "decide"
  /\ UNCHANGED <<now, m_tasks, m_stop, execute_time, wake_time, current, fate, raced>>

\* The clock's unit is the millisecond that wait_until allows for.
WakeTime(t) == execute_time[t] - 1

\* m_cv.wait, m_cv.wait_until, or neither: m_stop is not looked at again.
Sleep ==
  /\ rpc = "decide"
  /\ \/ /\ m_tasks = {}
        /\ wake_time' = Never /\ rpc' = "asleep"
     \/ \E t \in Top :
          IF execute_time[t] > now
            THEN wake_time' = WakeTime(t) /\ rpc' = "asleep"
            ELSE rpc' = "check" /\ UNCHANGED wake_time
  /\ UNCHANGED <<now, m_tasks, m_stop, execute_time, current, fate, raced>>

TimeOut ==
  /\ rpc = "asleep"
  /\ wake_time # Never /\ wake_time <= now
  /\ rpc' = "lock"
  /\ UNCHANGED <<now, m_tasks, m_stop, execute_time, wake_time, current, fate, raced>>

\* A condition variable may wake without a notification.
SpuriousWakeup ==
  /\ rpc = "asleep"
  /\ rpc' = "lock"
  /\ UNCHANGED <<now, m_tasks, m_stop, execute_time, wake_time, current, fate, raced>>

Terminating == rpc = "done" /\ UNCHANGED vars

Run ==
  \/ Lock \/ CheckStop \/ EndCallback \/ Relock \/ NothingDue \/ Sleep \/ TimeOut
  \/ \E t \in Tasks : StartCallback(t)

Next ==
  \/ \E t \in Tasks, time \in Time : AddTask(t, time)
  \/ Stop \/ Tick \/ Run \/ SpuriousWakeup \/ Terminating

Spec == Init /\ [][Next]_vars

\* The thread runs, callbacks return, and time passes; nobody has to add a
\* task or to stop the timer, and no spurious wakeup helps.
FairSpec == Spec /\ WF_vars(Run) /\ WF_vars(Tick)

-----------------------------------------------------------------------------
(* Properties *)

\* A task is run or cancelled once and not both, although stop() and run()
\* take tasks from the same queue; the queue holds those whose turn is to come.
RunOrCancelledOnce ==
  \A t \in Tasks : fate[t] # "twice" /\ (fate[t] = "pending" <=> t \in m_tasks)

\* While run() sleeps, its wait ends before any task in the queue is due, also
\* when an earlier task was added after the deadline was computed.
NeverOversleeps ==
  rpc = "asleep" /\ m_tasks # {} => \A t \in m_tasks : wake_time # Never /\ wake_time < execute_time[t]

\* After a stop() that comes while no callback runs, run() returns, so that
\* the join of ~TimerRunner does.
StopWhileIdleEndsRun == m_stop /\ ~raced ~> rpc = "done"
==============================================================================
