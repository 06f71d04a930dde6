-------------------------------- MODULE Looper --------------------------------
(***************************************************************************)
(* LooperSchedulerRunner (include/looper.hpp): one worker thread resumes   *)
(* the coroutines that sched() submits, in order and without the mutex;    *)
(* a coroutine it resumes may submit itself again.  stop() destroys the    *)
(* coroutines still queued.                                                *)
(*                                                                         *)
(* submit and stop keep the mutex from their first to their last line:     *)
(* each is one step.                                                       *)
(***************************************************************************)
EXTENDS Naturals, Sequences

CONSTANTS
  Coroutines,
  MaxSubmits   \* bound: how often each coroutine is submitted

ASSUME LooperAssumption == MaxSubmits \in Nat \ {0}

VARIABLES
  m_tasks, m_stop,
  rpc,        \* run(): "lock", "check", "next", "resume", "relock", "asleep", "done"
  submits,    \* per coroutine: how often it was submitted
  at,         \* per coroutine: "outside", "queued", "worker", "destroyed", "dropped"
  accepted,   \* ghosts: the coroutines that submit() queued,
  resumed,    \*   those that run() resumed,
  destroyed   \*   and those that stop() destroyed, in order

history == <<accepted, resumed, destroyed>>
looperVars == <<m_tasks, m_stop, rpc, submits, at, history>>

LooperInit ==
  /\ m_tasks = << >> /\ m_stop = FALSE
  /\ rpc = "lock"
  /\ submits = [h \in Coroutines |-> 0]
  /\ at = [h \in Coroutines |-> "outside"]
  /\ accepted = << >> /\ resumed = << >> /\ destroyed = << >>

MutexFree == rpc \notin {"check", "next"}

\* Mutant: nobody is notified.
NotifyNobody == rpc

\* m_cv.notify_one() and notify_all(): run() is the only one that waits.
Notify == IF rpc = "asleep" THEN "lock" ELSE rpc

\* Mutant: submit() does not look at m_stop.
NeverRefused == FALSE
Refused == m_stop

\* Mutant: the newest coroutine is resumed first.
PushedInFront(h) == <<h>> \o m_tasks
Pushed(h) == Append(m_tasks, h)

-----------------------------------------------------------------------------
(* Clients *)

\* sched() suspends the coroutine, on any thread or on the worker, and submits
\* it; after stop() it is neither queued nor destroyed.
Submit(h) ==
  /\ at[h] \in {"outside", "worker"} /\ submits[h] < MaxSubmits
  /\ at[h] = "worker" => rpc = "resume"
  /\ MutexFree
  /\ submits' = [submits EXCEPT ![h] = @ + 1]
  /\ IF Refused
       THEN /\ at' = [at EXCEPT ![h] = "dropped"]
            /\ UNCHANGED <<m_tasks, rpc, accepted>>
       ELSE /\ m_tasks' = Pushed(h)
            /\ accepted' = Append(accepted, h)
            /\ at' = [at EXCEPT ![h] = "queued"]
            /\ rpc' = Notify
  /\ UNCHANGED <<m_stop, resumed, destroyed>>

Stop ==
  /\ ~m_stop
  /\ MutexFree
  /\ m_stop' = TRUE
  /\ m_tasks' = << >>
  /\ destroyed' = destroyed \o m_tasks
  /\ at' = [h \in Coroutines |-> IF at[h] = "queued" THEN "destroyed" ELSE at[h]]
  /\ rpc' = Notify
  /\ UNCHANGED <<submits, accepted, resumed>>

-----------------------------------------------------------------------------
(* run() *)

\* The wait of run() begins, or returns.
Lock ==
  /\ rpc = "lock"
  /\ rpc' = "check"
  /\ UNCHANGED <<m_tasks, m_stop, submits, at, history>>

\* while (!m_stop)
CheckStop ==
  /\ rpc = "check"
  /\ rpc' = IF m_stop THEN "done" ELSE "next"
  /\ UNCHANGED <<m_tasks, m_stop, submits, at, history>>

\* The oldest coroutine is popped, and the mutex unlocked to resume it.
Resume ==
  /\ rpc = "next"
  /\ m_tasks # << >>
  /\ m_tasks' = Tail(m_tasks)
  /\ resumed' = Append(resumed, Head(m_tasks))
  /\ at' = [at EXCEPT ![Head(m_tasks)] = "worker"]
  /\ rpc' = "resume"
  /\ UNCHANGED <<m_stop, submits, accepted, destroyed>>

\* The coroutine suspended, here or elsewhere, or ended.
EndResume ==
  /\ rpc = "resume"
  /\ rpc' = "relock"
  /\ at' = [h \in Coroutines |-> IF at[h] = "worker" THEN "outside" ELSE at[h]]
  /\ UNCHANGED <<m_tasks, m_stop, submits, history>>

Relock ==
  /\ rpc = "relock"
  /\ rpc' = "next"
  /\ UNCHANGED <<m_tasks, m_stop, submits, at, history>>

\* m_cv.wait(locker): m_stop is not looked at again.
Sleep ==
  /\ rpc = "next"
  /\ m_tasks = << >>
  /\ rpc' = "asleep"
  /\ UNCHANGED <<m_tasks, m_stop, submits, at, history>>

\* A condition variable may wake without a notification.
SpuriousWakeup ==
  /\ rpc = "asleep"
  /\ rpc' = "lock"
  /\ UNCHANGED <<m_tasks, m_stop, submits, at, history>>

WorkerEnded == rpc = "done" /\ UNCHANGED looperVars

Run == Lock \/ CheckStop \/ Resume \/ EndResume \/ Relock \/ Sleep

LooperNext == (\E h \in Coroutines : Submit(h)) \/ Stop \/ Run \/ SpuriousWakeup \/ WorkerEnded

LooperSpec == LooperInit /\ [][LooperNext]_looperVars

\* The worker runs, and the coroutines it resumes return to it.
FairLooperSpec == LooperSpec /\ WF_looperVars(Run)

-----------------------------------------------------------------------------
(* Properties *)

\* Every coroutine that submit() accepts is resumed once, or destroyed once, or
\* still queued, and all of it in the order of submission.
ServedInOrder == accepted = resumed \o destroyed \o m_tasks

\* No coroutine is resumed after stop(), although the inner loop of run() does
\* not look at m_stop: submit() does.
NothingResumedAfterStop == [][m_stop => resumed' = resumed]_looperVars

\* Every coroutine that submit() accepts is resumed or destroyed.
EveryTaskServed == \A h \in Coroutines : at[h] = "queued" ~> at[h] # "queued"
==============================================================================
