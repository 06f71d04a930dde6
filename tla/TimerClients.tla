----------------------------- MODULE TimerClients -----------------------------
(***************************************************************************)
(* The timer with the coroutines that TimerWrapper makes its clients       *)
(* (include/timer.hpp): one with_timeout and one sleep_for_cancelable, each *)
(* with its task in the queue.                                             *)
(*                                                                         *)
(* What Timeout and CancelableSleep assume of the clock and the timer is   *)
(* replaced by the timer: a client's task is claimed when run() calls its  *)
(* callback, whatever the time, and cancelled when stop() finds it.        *)
(***************************************************************************)
EXTENDS Timer

CONSTANTS
  Timed, Slept,  \* the tasks of the two clients
  Cancelers,     \* calls of cancel() on the sleep
  Deadlines      \* bound: what the deadlines of the two may be

ASSUME ClientsAssumption ==
  /\ Tasks = {Timed, Slept} /\ Timed # Slept /\ IsFiniteSet(Cancelers)
  /\ Deadlines \subseteq [Tasks -> Time \ {0}]

VARIABLES
  deadline,   \* m_timeout and m_wake_time
  w_state, w_buf, w_exception, w_operation, w_answer, w_awaiter, w_suspending,
  w_task, w_received, w_resumes,
  s_state, s_waiter, s_refs, s_sleeper, s_task, s_cpc, s_returned, s_received, s_resumes, s_raced

W == INSTANCE Timeout WITH
  state <- w_state, buf <- w_buf, exception <- w_exception, operation <- w_operation,
  answer <- w_answer, awaiter <- w_awaiter, suspending <- w_suspending, task <- w_task,
  expired <- (deadline[Timed] <= now), received <- w_received, resumes <- w_resumes

S == INSTANCE CancelableSleep WITH
  state <- s_state, waiter <- s_waiter, m_ref_count <- s_refs, sleeper <- s_sleeper, task <- s_task, cpc <- s_cpc,
  returned <- s_returned, expired <- (deadline[Slept] <= now), received <- s_received,
  resumes <- s_resumes, raced <- s_raced

timeoutVars == <<w_state, w_buf, w_exception, w_operation, w_answer, w_awaiter, w_suspending,
                 w_task, w_received, w_resumes>>
sleepVars == <<s_state, s_waiter, s_refs, s_sleeper, s_task, s_cpc, s_returned, s_received, s_resumes,
               s_raced>>
allVars == <<vars, deadline, timeoutVars, sleepVars>>

\* The clients are there before their time.
ClientsInit ==
  /\ Init
  /\ deadline \in Deadlines
  /\ W!Init /\ S!Init

-----------------------------------------------------------------------------
(* The timer *)

\* stop() runs the sleep's cancel function with the mutex locked.
Cancelling == s_task \in {"wake", "clear"} /\ current # {Slept}

\* The callback of a client is one or two steps of the client's task.
CallbackReturned ==
  /\ current = {Timed} => w_task \notin {"added", "resume"}
  /\ current = {Slept} => s_task \notin {"added", "wake", "clear"}

TimerRuns ==
  /\ (rpc \in {"lock", "relock"} => ~Cancelling)
  /\ (rpc = "callback" => CallbackReturned)
  /\ Run
  /\ UNCHANGED <<deadline, timeoutVars, sleepVars>>

TimePasses == Tick /\ UNCHANGED <<deadline, timeoutVars, sleepVars>>

Wakes == SpuriousWakeup /\ UNCHANGED <<deadline, timeoutVars, sleepVars>>

\* The cancel functions of all tasks in the queue.
StopTimer ==
  /\ Stop
  /\ UNCHANGED deadline
  /\ IF Timed \in m_tasks THEN W!CancelTask ELSE UNCHANGED timeoutVars
  /\ IF Slept \in m_tasks THEN S!CancelTask ELSE UNCHANGED sleepVars

-----------------------------------------------------------------------------
(* The clients *)

ClientAlone == UNCHANGED <<vars, deadline>>

\* add_task, which the coroutine that is gone may leave out.
TimeoutAddsTask ==
  /\ ~Cancelling
  /\ UNCHANGED <<deadline, sleepVars>>
  /\ \/ AddTask(Timed, deadline[Timed]) /\ W!AddTask /\ w_task' = "added"
     \/ UNCHANGED vars /\ W!AddTask /\ w_task' # "added"

TimeoutAwaits ==
  /\ ClientAlone /\ UNCHANGED sleepVars
  /\ W!AwaitReady \/ W!StartOperation \/ W!AwaitResume

TimeoutOperation == ClientAlone /\ UNCHANGED sleepVars /\ W!Operation

OperationAnswers == ClientAlone /\ UNCHANGED sleepVars /\ W!Answers

TimeoutTask ==
  /\ ClientAlone /\ UNCHANGED sleepVars
  /\ rpc = "callback" /\ current = {Timed}
  /\ W!TaskClaims \/ W!TaskResumes

SleepAddsTask ==
  /\ ~Cancelling
  /\ UNCHANGED <<deadline, timeoutVars>>
  /\ AddTask(Slept, deadline[Slept]) /\ S!AddTask

SleepAwaits ==
  /\ ClientAlone /\ UNCHANGED timeoutVars
  /\ S!AwaitReady \/ S!SetWaiter \/ S!TaskAddsRef \/ S!AwaitResume

SleeperLeaves == ClientAlone /\ UNCHANGED timeoutVars /\ S!DestroyAwaitable

\* In the callback, or, but for the claim, in the cancel function.
SleepTask ==
  /\ ClientAlone /\ UNCHANGED timeoutVars
  /\ \/ rpc = "callback" /\ current = {Slept} /\ S!TaskClaims
     \/ S!TaskWakes
     \/ S!TaskClears

CancelSleep(c) == ClientAlone /\ UNCHANGED timeoutVars /\ S!Cancel(c)

CancelGoesOn(c) ==
  /\ ClientAlone /\ UNCHANGED timeoutVars
  /\ S!CancelWakes(c) \/ S!CancelClears(c)

TimerStopped == rpc = "done" /\ UNCHANGED allVars

ClientsNext ==
  \/ TimerRuns \/ TimePasses \/ Wakes \/ StopTimer
  \/ TimeoutAddsTask \/ TimeoutAwaits \/ TimeoutOperation \/ OperationAnswers \/ TimeoutTask
  \/ SleepAddsTask \/ SleepAwaits \/ SleeperLeaves \/ SleepTask
  \/ \E c \in Cancelers : CancelSleep(c) \/ CancelGoesOn(c)
  \/ TimerStopped

ClientsSpec == ClientsInit /\ [][ClientsNext]_allVars

\* The thread of the timer runs, time passes and calls that have begun go on; a
\* thread that waits for the timer's mutex gets it in the end.  Nobody has to
\* answer, to cancel or to stop, and no spurious wakeup helps.
FairClientsSpec ==
  /\ ClientsSpec
  /\ WF_allVars(TimerRuns) /\ WF_allVars(TimePasses)
  /\ SF_allVars(TimeoutAddsTask) /\ SF_allVars(SleepAddsTask)
  /\ WF_allVars(TimeoutAwaits) /\ WF_allVars(TimeoutOperation) /\ WF_allVars(TimeoutTask)
  /\ WF_allVars(SleepAwaits) /\ WF_allVars(SleepTask)
  /\ \A c \in Cancelers : WF_allVars(CancelGoesOn(c))

-----------------------------------------------------------------------------
(* Properties *)

\* The timer does what its clients rely on: a task runs after its time, or is
\* cancelled, and once, so that each client behaves as its own module says.
ServesClients == W!Spec /\ S!Spec

\* with_timeout over the timer keeps what AwaitSpec promises: the coroutine
\* goes on once, after its operation has answered or its time is over.
WithTimeoutSpec == W!WithTimeoutSpec

\* What with_timeout and the sleep return is what happened: the answer of the
\* operation whose parts are all there, a timeout or a whole sleep only after
\* the time, and a whole sleep only if no cancel() returned true.
AnswersAreTrue == W!AnswerIsTrue /\ S!TrueMeansSlept

\* The task's callback, its cancel function, and the calls of cancel() let a
\* sleeping coroutine go on at most once between them; the box they share is
\* there for the last of awaitable, callback and cancel function, and deleted
\* after it.  For cancel() itself the code does not ensure that.
SharedBoxSafe == S!ResumedOnce /\ S!BoxLifetime

\* Unless the timer is stopped, with_timeout returns even if the operation
\* never answers, and a sleep ends, but for a cancel() that falls between
\* await_ready and add_task and finds no handle.  After a stop() that comes
\* while no callback runs, run() returns, and the join of ~TimerRunner with it.
EverybodyGoesOn ==
  /\ <>(w_awaiter = "gone" \/ m_stop)
  /\ <>(s_sleeper \in {"finished", "gone"} \/ s_raced \/ m_stop)
  /\ StopWhileIdleEndsRun
==============================================================================
