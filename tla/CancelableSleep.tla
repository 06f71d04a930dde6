--------------------------- MODULE CancelableSleep ---------------------------
(***************************************************************************)
(* CancelableSleepAwaitable, that is sleep_for_cancelable                  *)
(* (include/timer.hpp): the timer's task, calls of cancel() and stop() of  *)
(* the timer compete for state; the winner resumes the sleeping coroutine, *)
(* if it finds its handle.                                                 *)
(*                                                                         *)
(* Of the timer this module assumes that a task is run after its time, or  *)
(* cancelled by stop(), once; TimerClients puts the timer itself there.    *)
(***************************************************************************)
EXTENDS RefCount

CONSTANTS Cancelers   \* calls of cancel()

VARIABLES
  state, waiter,  \* ControlBox; waiter: is the handle stored
  m_ref_count,    \* of the ControlBox, which is deleted when it reaches 0
  sleeper,   \* "start", "suspended", "resumed", "finished", and "gone" once the
             \* awaitable is destroyed
  task,      \* await_suspend(), then the task: "none", "set_waiter", "add_ref",
             \* "add_task", "added", "wake", "clear", "done"
  cpc,       \* per cancel(): "new", "wake", "clear", "done"
  returned,  \* per cancel(): whether it returned true
  expired,   \* the time is over
  received,  \* what await_resume returned: "none", "true", "false"
  resumes,   \* ghost: how often the coroutine went on
  raced      \* ghost: cancel() succeeded while await_suspend was running

boxVars == <<state, waiter, m_ref_count>>
cancelVars == <<cpc, returned>>
sleeperVars == <<sleeper, received, resumes>>
vars == <<boxVars, sleeperVars, task, cancelVars, expired, raced>>

Init ==
  /\ state = "ePending" /\ waiter = FALSE /\ m_ref_count = AddRef(0)
  /\ sleeper = "start" /\ task = "none"
  /\ cpc = [c \in Cancelers |-> "new"]
  /\ returned = [c \in Cancelers |-> FALSE]
  /\ expired = FALSE
  /\ received = "none" /\ resumes = 0
  /\ raced = FALSE

GoOn == sleeper' = "resumed" /\ resumes' = resumes + 1

\* Mutant: a load and a store in place of the compare_exchange.
AlwaysWins == TRUE
Wins == state = "ePending"

\* if (waiter) waiter.resume(); the reset of waiter comes after it.
Resume == IF waiter THEN GoOn /\ UNCHANGED received ELSE UNCHANGED sleeperVars

AfterWake == IF waiter THEN "clear" ELSE "done"

Expire ==
  /\ ~expired
  /\ expired' = TRUE
  /\ UNCHANGED <<boxVars, sleeperVars, task, cancelVars, raced>>

-----------------------------------------------------------------------------
(* The sleeping coroutine *)

AwaitReady ==
  /\ sleeper = "start"
  /\ IF expired \/ state # "ePending"
       THEN GoOn /\ UNCHANGED task
       ELSE sleeper' = "suspended" /\ task' = "set_waiter" /\ UNCHANGED resumes
  /\ UNCHANGED <<boxVars, cancelVars, expired, received, raced>>

\* await_suspend(); the coroutine may be resumed before it returns.
SetWaiter ==
  /\ task = "set_waiter"
  /\ waiter' = TRUE
  /\ task' = "add_ref"
  /\ UNCHANGED <<state, m_ref_count, sleeperVars, cancelVars, expired, raced>>

TaskAddsRef ==
  /\ task = "add_ref"
  /\ m_ref_count' = AddRef(m_ref_count)
  /\ task' = "add_task"
  /\ UNCHANGED <<state, waiter, sleeperVars, cancelVars, expired, raced>>

AddTask ==
  /\ task = "add_task"
  /\ task' = "added"
  /\ UNCHANGED <<boxVars, sleeperVars, cancelVars, expired, raced>>

AwaitResume ==
  /\ sleeper = "resumed"
  /\ sleeper' = "finished"
  /\ received' = IF state = "eConsumed" THEN "true" ELSE "false"
  /\ UNCHANGED <<boxVars, task, cancelVars, expired, resumes, raced>>

\* The owner destroys the awaitable, and m_cb with it, when it has been awaited.
\* That may be the coroutine which cancel() resumes, before cancel() goes on.
DestroyAwaitable ==
  /\ sleeper = "finished"
  /\ sleeper' = "gone"
  /\ m_ref_count' = Release(m_ref_count)
  /\ UNCHANGED <<state, waiter, task, cancelVars, expired, received, resumes, raced>>

-----------------------------------------------------------------------------
(* cancel() *)

Cancel(c) ==
  /\ cpc[c] = "new" /\ sleeper # "gone"
  /\ IF Wins
       THEN /\ state' = "eCanceled"
            /\ returned' = [returned EXCEPT ![c] = TRUE]
            /\ cpc' = [cpc EXCEPT ![c] = "wake"]
            /\ raced' = (raced \/ task \in {"set_waiter", "add_ref", "add_task"})
       ELSE /\ cpc' = [cpc EXCEPT ![c] = "done"]
            /\ UNCHANGED <<state, returned, raced>>
  /\ UNCHANGED <<waiter, m_ref_count, sleeperVars, task, expired>>

CancelWakes(c) ==
  /\ cpc[c] = "wake"
  /\ Resume
  /\ cpc' = [cpc EXCEPT ![c] = AfterWake]
  /\ UNCHANGED <<boxVars, task, returned, expired, raced>>

CancelClears(c) ==
  /\ cpc[c] = "clear"
  /\ waiter' = FALSE
  /\ cpc' = [cpc EXCEPT ![c] = "done"]
  /\ UNCHANGED <<state, m_ref_count, sleeperVars, task, returned, expired, raced>>

-----------------------------------------------------------------------------
(* The timer *)

TimeIsOver == expired

\* Mutant: cb is a plain pointer, the reference of the task is gone at once.
KeepsNothing(n) == Release(n)

\* intrusive_ptr cb { address }, and the release of the reference that
\* await_suspend took for the task: cb alone keeps the box until the end.
TakeOver(n) == Release(AddRef(n))

\* The compare_exchange of the callback and of the cancel function.
Claims(to) ==
  /\ task = "added"
  /\ IF Wins THEN /\ state' = to
                  /\ task' = "wake"
                  /\ m_ref_count' = TakeOver(m_ref_count)
             ELSE /\ task' = "done"
                  /\ m_ref_count' = Release(TakeOver(m_ref_count))
                  /\ UNCHANGED state
  /\ UNCHANGED <<waiter, sleeperVars, cancelVars, expired, raced>>

TaskClaims == Claims("eConsumed")

RunTask == TimeIsOver /\ TaskClaims

\* The task's cancel function, called by stop().
CancelTask == Claims("eCanceled")

TaskWakes ==
  /\ task = "wake"
  /\ Resume
  /\ task' = AfterWake
  /\ m_ref_count' = IF waiter THEN m_ref_count ELSE Release(m_ref_count)
  /\ UNCHANGED <<state, waiter, cancelVars, expired, raced>>

TaskClears ==
  /\ task = "clear"
  /\ waiter' = FALSE
  /\ task' = "done"
  /\ m_ref_count' = Release(m_ref_count)
  /\ UNCHANGED <<state, sleeperVars, cancelVars, expired, raced>>

Sleeper == AwaitReady \/ SetWaiter \/ TaskAddsRef \/ AddTask \/ AwaitResume \/ DestroyAwaitable
Timer == RunTask \/ TaskWakes \/ TaskClears

Next ==
  \/ Expire \/ Sleeper \/ Timer \/ CancelTask
  \/ \E c \in Cancelers : Cancel(c) \/ CancelWakes(c) \/ CancelClears(c)

Spec == Init /\ [][Next]_vars

-----------------------------------------------------------------------------
(* Properties *)

\* await_ready, the timer's task, its cancel function and the calls of cancel()
\* let the coroutine go on at most once between them.
ResumedOnce == resumes <= 1

\* co_await returns true only after the time, and then no cancel() returned true.
TrueMeansSlept ==
  received = "true" => expired /\ \A c \in Cancelers : ~returned[c]

\* Who is about to use the ControlBox: the awaitable, its await_suspend, the
\* task in the queue or under way.  A cancel() uses it through the awaitable
\* (timer.hpp:219-222) and keeps neither of them: if the coroutine it resumed
\* has destroyed the awaitable, it resets a handle that is no longer there.
InUse == sleeper # "gone" \/ task \notin {"none", "done"}

\* The box is there as long as one of these uses it and is deleted after that,
\* also when the resumed coroutine destroys the awaitable before the callback
\* has reset the handle.  The exception is an await_suspend that is still under
\* way when cancel() has resumed the coroutine: it uses the awaitable as well.
BoxLifetime == ~raced => (m_ref_count > 0 <=> InUse)
==============================================================================
