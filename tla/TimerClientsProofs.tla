-------------------------- MODULE TimerClientsProofs --------------------------
(***************************************************************************)
(* For any number of calls of cancel(), any deadlines and any length of    *)
(* time: the timer runs or cancels each task once and never oversleeps;    *)
(* with_timeout and the cancelable sleep behave over the timer as their    *)
(* own modules say, with_timeout implements AwaitSpec, their answers are   *)
(* true, and the ControlBox lives as long as it is used.                   *)
(*                                                                         *)
(* The argument has three layers: an invariant of the timer, that of the   *)
(* tasks of the two clients in it, from which every step is a step of      *)
(* Timeout and of CancelableSleep or leaves them alone, and one invariant  *)
(* of each of these two, for their own steps.                              *)
(***************************************************************************)
EXTENDS TimerClients, TLAPS

USE TimerAssumption, ClientsAssumption DEF TimerAssumption, ClientsAssumption

-----------------------------------------------------------------------------
(* The timer *)

\* The words of the timer keep their types.
TimerTypeOK ==
  /\ now \in Time
  /\ m_tasks \in SUBSET Tasks /\ m_stop \in BOOLEAN
  /\ execute_time \in [Tasks -> Time]
  /\ rpc \in {"lock", "check", "due", "callback", "relock", "decide", "asleep", "done"}
  /\ wake_time \in Int \cup {Never}
  /\ current \in SUBSET Tasks
  /\ fate \in [Tasks -> {"new", "pending", "run", "cancelled", "twice"}]

\* A task whose callback runs is due and is not in the queue any more.
CallbackInv ==
  /\ current # {} => rpc = "callback"
  /\ \A t \in current : fate[t] = "run" /\ execute_time[t] <= now

TimerInv == TimerTypeOK /\ RunOrCancelledOnce /\ NeverOversleeps /\ CallbackInv

LEMMA TimerInit == Init => TimerInv
<1> SUFFICES ASSUME Init PROVE TimerInv
  OBVIOUS
<1>1. 0 \in Time
  BY DEF Time
<1>2. TimerTypeOK
  BY <1>1 DEF Init, TimerTypeOK
<1>3. RunOrCancelledOnce /\ NeverOversleeps /\ CallbackInv
  BY DEF Init, RunOrCancelledOnce, NeverOversleeps, CallbackInv
<1> QED
  BY <1>2, <1>3 DEF TimerInv

LEMMA TimerStep == TimerInv /\ [Next]_vars => TimerInv'
<1> SUFFICES ASSUME TimerInv, [Next]_vars PROVE TimerInv'
  OBVIOUS
<1> USE DEF TimerInv, TimerTypeOK, RunOrCancelledOnce, NeverOversleeps, CallbackInv, Time
<1>1. ASSUME NEW t \in Tasks, NEW time \in Time, AddTask(t, time) PROVE TimerInv'
  BY <1>1 DEF AddTask, Notify, MutexFree
<1>2. CASE Stop
  BY <1>2 DEF Stop, Notify, MutexFree
<1>3. CASE Tick
  BY <1>3 DEF Tick
<1>4. ASSUME NEW t \in Tasks, StartCallback(t) PROVE TimerInv'
  BY <1>4 DEF StartCallback, Top, IsDue, Popped
<1>5. CASE Sleep
  <2>1. CASE m_tasks = {} /\ wake_time' = Never /\ rpc' = "asleep"
    BY <1>5, <2>1 DEF Sleep
  <2>2. ASSUME NEW t \in Top, execute_time[t] > now, wake_time' = WakeTime(t), rpc' = "asleep"
        PROVE  TimerInv'
    <3>1. \A u \in m_tasks : wake_time' < execute_time[u]
      BY <2>2 DEF Top, WakeTime
    <3>2. wake_time' \in Int /\ wake_time' # Never
      BY <2>2 DEF Top, WakeTime
    <3> QED
      BY <1>5, <2>2, <3>1, <3>2 DEF Sleep
  <2>3. CASE rpc' = "check" /\ UNCHANGED wake_time
    BY <1>5, <2>3 DEF Sleep
  <2> QED
    BY <1>5, <2>1, <2>2, <2>3 DEF Sleep
<1>6. CASE Lock \/ CheckStop \/ EndCallback \/ Relock \/ NothingDue \/ TimeOut \/ SpuriousWakeup
  BY <1>6 DEF Lock, CheckStop, EndCallback, Relock, NothingDue, TimeOut, SpuriousWakeup
<1>7. CASE Terminating \/ UNCHANGED vars
  BY <1>7 DEF Terminating, vars
<1> QED
  BY <1>1, <1>2, <1>3, <1>4, <1>5, <1>6, <1>7 DEF Next, Run

-----------------------------------------------------------------------------
(* The tasks of the clients in the timer *)

\* The timer has the deadlines that its clients gave it.
DeadlineInv ==
  /\ deadline \in [Tasks -> Time \ {0}]
  /\ \A t \in Tasks : fate[t] # "new" => execute_time[t] = deadline[t]

ClientsInv == TimerInv /\ DeadlineInv

\* Whatever the clients do is a step of the timer to the timer.
LEMMA TimerStepOfClients == ClientsInv /\ [ClientsNext]_allVars => [Next]_vars
<1> SUFFICES ASSUME ClientsInv, [ClientsNext]_allVars PROVE [Next]_vars
  OBVIOUS
<1>1. ASSUME NEW t \in Tasks, AddTask(t, deadline[t]) PROVE Next
  BY <1>1 DEF ClientsInv, DeadlineInv, Next
<1>2. CASE TimeoutAddsTask \/ SleepAddsTask
  BY <1>1, <1>2 DEF TimeoutAddsTask, SleepAddsTask
<1>3. CASE TimerRuns \/ TimePasses \/ Wakes \/ StopTimer
  BY <1>3 DEF TimerRuns, TimePasses, Wakes, StopTimer, Next
<1>4. CASE TimeoutAwaits \/ TimeoutOperation \/ OperationAnswers \/ TimeoutTask
  BY <1>4 DEF TimeoutAwaits, TimeoutOperation, OperationAnswers, TimeoutTask, ClientAlone
<1>5. CASE SleepAwaits \/ SleeperLeaves \/ SleepTask
  BY <1>5 DEF SleepAwaits, SleeperLeaves, SleepTask, ClientAlone
<1>6. ASSUME NEW c \in Cancelers, CancelSleep(c) \/ CancelGoesOn(c) PROVE UNCHANGED vars
  BY <1>6 DEF CancelSleep, CancelGoesOn, ClientAlone
<1>7. CASE TimerStopped \/ UNCHANGED allVars
  BY <1>7 DEF TimerStopped, allVars
<1> QED
  BY <1>2, <1>3, <1>4, <1>5, <1>6, <1>7 DEF ClientsNext

\* Nobody changes a deadline.
LEMMA SameDeadlines == [ClientsNext]_allVars => UNCHANGED deadline
  BY DEF ClientsNext, allVars, TimerRuns, TimePasses, Wakes, StopTimer, TimeoutAddsTask,
         TimeoutAwaits, TimeoutOperation, OperationAnswers, TimeoutTask, SleepAddsTask,
         SleepAwaits, SleeperLeaves, SleepTask, CancelSleep, CancelGoesOn, TimerStopped,
         ClientAlone

LEMMA ClientsInvInit == ClientsInit => ClientsInv
<1> SUFFICES ASSUME ClientsInit PROVE ClientsInv
  OBVIOUS
<1>1. DeadlineInv
  BY DEF ClientsInit, Init, DeadlineInv
<1> QED
  BY <1>1, TimerInit DEF ClientsInit, ClientsInv

LEMMA ClientsInvStep == ClientsInv /\ [ClientsNext]_allVars => ClientsInv'
<1> SUFFICES ASSUME ClientsInv, [ClientsNext]_allVars PROVE ClientsInv'
  OBVIOUS
<1>1. [Next]_vars /\ UNCHANGED deadline
  BY TimerStepOfClients, SameDeadlines
<1>2. TimerInv'
  BY <1>1, TimerStep DEF ClientsInv
<1>3. \A t \in Tasks : fate'[t] # "new" => execute_time'[t] = deadline'[t]
  <2> USE DEF ClientsInv, DeadlineInv, TimerInv, TimerTypeOK
  <2>1. ASSUME NEW t \in Tasks, AddTask(t, deadline[t])
        PROVE  \A u \in Tasks : fate'[u] # "new" => execute_time'[u] = deadline'[u]
    BY <1>1, <2>1 DEF AddTask
  <2>2. CASE UNCHANGED <<fate, execute_time>>
    BY <1>1, <2>2
  <2>3. CASE TimerRuns \/ TimePasses \/ Wakes \/ StopTimer
    <3>1. CASE StopTimer
      BY <1>1, <3>1 DEF StopTimer, Stop, RunOrCancelledOnce
    <3>2. ASSUME NEW t \in Tasks, StartCallback(t)
          PROVE  \A u \in Tasks : fate'[u] # "new" => execute_time'[u] = deadline'[u]
      BY <1>1, <3>2 DEF StartCallback, Top, RunOrCancelledOnce
    <3> QED
      BY <1>1, <2>2, <2>3, <3>1, <3>2
         DEF TimerRuns, TimePasses, Wakes, Run, Tick, Lock, CheckStop, EndCallback, Relock,
             NothingDue, Sleep, TimeOut, SpuriousWakeup
  <2>4. CASE TimeoutAddsTask \/ SleepAddsTask
    BY <2>1, <2>2, <2>4 DEF TimeoutAddsTask, SleepAddsTask, vars
  <2> QED
    BY <2>2, <2>3, <2>4 DEF ClientsNext, allVars, vars, TimeoutAwaits, TimeoutOperation,
       OperationAnswers, TimeoutTask, SleepAwaits, SleeperLeaves, SleepTask, CancelSleep,
       CancelGoesOn, TimerStopped, ClientAlone
<1> QED
  BY <1>1, <1>2, <1>3 DEF ClientsInv, DeadlineInv

\* A callback is called when the deadline of its client is over.
LEMMA CallbackInTime ==
  ASSUME ClientsInv, NEW t \in Tasks, current = {t}
  PROVE  deadline[t] <= now
BY DEF ClientsInv, DeadlineInv, TimerInv, CallbackInv

\* To with_timeout, every step is one of Timeout or none of its own.
LEMMA TimeoutStepOfClients == ClientsInv /\ [ClientsNext]_allVars => [W!Next]_(W!vars)
<1> SUFFICES ASSUME ClientsInv, [ClientsNext]_allVars PROVE [W!Next]_(W!vars)
  OBVIOUS
<1> USE DEF W!vars, W!stateVars, W!awaiterVars, timeoutVars
<1>1. ASSUME UNCHANGED <<now, deadline, timeoutVars>> PROVE UNCHANGED W!vars
  BY <1>1
<1>2. CASE TimePasses
  BY <1>2 DEF TimePasses, Tick, W!Next, W!Expire, ClientsInv, DeadlineInv, TimerInv,
              TimerTypeOK, Time
<1>3. CASE StopTimer
  BY <1>1, <1>3 DEF StopTimer, Stop, W!Next
<1>4. CASE TimeoutTask
  <2>1. deadline[Timed] <= now
    BY <1>4, CallbackInTime DEF TimeoutTask
  <2> QED
    BY <1>4, <2>1 DEF TimeoutTask, W!Next, W!Task, W!RunTask, W!TimeIsOver
<1>5. CASE TimeoutAddsTask \/ TimeoutAwaits \/ TimeoutOperation \/ OperationAnswers
  BY <1>5 DEF TimeoutAddsTask, TimeoutAwaits, TimeoutOperation, OperationAnswers, W!Next,
              W!Await
<1>6. CASE TimerRuns \/ Wakes
  BY <1>1, <1>6 DEF TimerRuns, Wakes, Run, Lock, CheckStop, StartCallback, EndCallback, Relock,
                    NothingDue, Sleep, TimeOut, SpuriousWakeup
<1>7. CASE SleepAddsTask \/ SleepAwaits \/ SleeperLeaves \/ SleepTask
  BY <1>1, <1>7 DEF SleepAddsTask, SleepAwaits, SleeperLeaves, SleepTask, ClientAlone, AddTask, vars
<1>8. ASSUME NEW c \in Cancelers, CancelSleep(c) \/ CancelGoesOn(c) PROVE UNCHANGED W!vars
  BY <1>1, <1>8 DEF CancelSleep, CancelGoesOn, ClientAlone, vars
<1>9. CASE TimerStopped \/ UNCHANGED allVars
  BY <1>1, <1>9 DEF TimerStopped, allVars, vars
<1> QED
  BY <1>2, <1>3, <1>4, <1>5, <1>6, <1>7, <1>8, <1>9 DEF ClientsNext

\* And to the sleep one of CancelableSleep.
LEMMA SleepStepOfClients == ClientsInv /\ [ClientsNext]_allVars => [S!Next]_(S!vars)
<1> SUFFICES ASSUME ClientsInv, [ClientsNext]_allVars PROVE [S!Next]_(S!vars)
  OBVIOUS
<1> USE DEF S!vars, S!boxVars, S!cancelVars, S!sleeperVars, sleepVars
<1>1. ASSUME UNCHANGED <<now, deadline, sleepVars>> PROVE UNCHANGED S!vars
  BY <1>1
<1>2. CASE TimePasses
  BY <1>2 DEF TimePasses, Tick, S!Next, S!Expire, ClientsInv, DeadlineInv, TimerInv,
              TimerTypeOK, Time
<1>3. CASE StopTimer
  BY <1>1, <1>3 DEF StopTimer, Stop, S!Next
<1>4. CASE SleepTask
  <2>1. CASE rpc = "callback" /\ current = {Slept} /\ S!TaskClaims
    <3>1. deadline[Slept] <= now
      BY <2>1, CallbackInTime
    <3> QED
      BY <2>1, <3>1 DEF S!Next, S!Timer, S!RunTask, S!TimeIsOver
  <2>2. CASE S!TaskWakes \/ S!TaskClears
    BY <2>2 DEF S!Next, S!Timer
  <2> QED
    BY <1>4, <2>1, <2>2 DEF SleepTask
<1>5. CASE SleepAddsTask \/ SleepAwaits \/ SleeperLeaves
  BY <1>5 DEF SleepAddsTask, SleepAwaits, SleeperLeaves, S!Next, S!Sleeper
<1>6. CASE TimerRuns \/ Wakes
  BY <1>1, <1>6 DEF TimerRuns, Wakes, Run, Lock, CheckStop, StartCallback, EndCallback, Relock,
                    NothingDue, Sleep, TimeOut, SpuriousWakeup
<1>7. CASE TimeoutAddsTask \/ TimeoutAwaits \/ TimeoutOperation \/ OperationAnswers \/ TimeoutTask
  BY <1>1, <1>7 DEF TimeoutAddsTask, TimeoutAwaits, TimeoutOperation, OperationAnswers, TimeoutTask,
                    ClientAlone, AddTask, vars
<1>8. ASSUME NEW c \in Cancelers, CancelSleep(c) \/ CancelGoesOn(c) PROVE S!Next
  BY <1>8 DEF CancelSleep, CancelGoesOn, S!Next
<1>9. CASE TimerStopped \/ UNCHANGED allVars
  BY <1>1, <1>9 DEF TimerStopped, allVars, vars
<1> QED
  BY <1>2, <1>3, <1>4, <1>5, <1>6, <1>7, <1>8, <1>9 DEF ClientsNext

-----------------------------------------------------------------------------
(* with_timeout *)

\* The words of with_timeout keep their types.
TimeoutTypeOK ==
  /\ w_state \in {"ePending", "eValid", "eError", "eTimeout"}
  /\ w_operation \in {"initial", "running", "claim", "resume", "done"}
  /\ w_answer \in {"none", "value", "error"}
  /\ w_awaiter \in {"start", "suspended", "resumed", "gone"}
  /\ w_suspending \in {"none", "resume_operation", "add_task", "done"}
  /\ w_task \in {"none", "added", "resume", "done", "cancelled"}

\* Nothing has begun before await_ready; the operation is started once and
\* answers once, the task is added once, and who goes on has an answer.
StartInv ==
  /\ w_awaiter = "start" => w_state = "ePending" /\ w_operation = "initial" /\ w_task = "none"
                            /\ w_suspending = "none"
  /\ w_suspending = "resume_operation" => w_operation = "initial" /\ w_awaiter = "suspended"
  /\ w_suspending \in {"none", "resume_operation", "add_task"} => w_task = "none"
  /\ w_operation = "initial" => w_suspending \in {"none", "resume_operation"}
  /\ w_operation \in {"initial", "running"} <=> w_answer = "none"

\* The one that set state resumes the coroutine, which is suspended until then;
\* afterwards nobody is left to resume it.
OneResumes ==
  /\ w_operation = "resume" => w_awaiter = "suspended" /\ w_state \in {"eValid", "eError"}
  /\ w_task = "resume" => w_awaiter = "suspended" /\ w_state = "eTimeout"
  /\ w_awaiter \in {"resumed", "gone"} => w_state # "ePending"
  /\ w_state = "ePending" => w_awaiter \in {"start", "suspended"}

\* state says what is in State.
StateIsTrue ==
  /\ w_answer = "value" => w_buf = "full"
  /\ w_answer = "error" => w_exception = "set"
  /\ w_state = "eValid" => w_answer = "value"
  /\ w_state = "eError" => w_answer = "error"
  /\ w_state = "eTimeout" => deadline[Timed] <= now
  /\ w_received = "value" => w_state = "eValid"
  /\ w_received = "error" => w_state = "eError"
  /\ w_received = "timeout" => w_state = "eTimeout"

TimeoutInv == TimeoutTypeOK /\ StartInv /\ OneResumes /\ StateIsTrue

LEMMA TimeoutInit == ClientsInit => TimeoutInv
<1> SUFFICES ASSUME ClientsInit PROVE TimeoutInv
  OBVIOUS
<1>1. W!Init
  BY DEF ClientsInit
<1> QED
  BY <1>1 DEF W!Init, TimeoutInv, TimeoutTypeOK, StartInv, OneResumes, StateIsTrue

LEMMA TimeoutInvStep == TimeoutInv /\ [W!Next]_(W!vars) => TimeoutInv'
<1> SUFFICES ASSUME TimeoutInv, [W!Next]_(W!vars) PROVE TimeoutInv'
  OBVIOUS
<1> USE DEF TimeoutInv, TimeoutTypeOK, StartInv, OneResumes, StateIsTrue,
            W!stateVars, W!awaiterVars, W!GoOn
<1>1. CASE W!Expire
  BY <1>1 DEF W!Expire
<1>2. CASE W!AwaitReady
  BY <1>2 DEF W!AwaitReady, W!StateWhenLate
<1>3. CASE W!StartOperation
  BY <1>3 DEF W!StartOperation
<1>4. CASE W!AddTask
  BY <1>4 DEF W!AddTask
<1>5. CASE W!AwaitResume
  BY <1>5 DEF W!AwaitResume, W!Answer
<1>6. CASE W!Answers
  BY <1>6 DEF W!Answers, W!Stored
<1>7. CASE W!OperationClaims
  BY <1>7 DEF W!OperationClaims, W!Wins
<1>8. CASE W!OperationResumes
  BY <1>8 DEF W!OperationResumes
<1>9. CASE W!RunTask
  BY <1>9 DEF W!RunTask, W!TimeIsOver, W!TaskClaims, W!Wins
<1>10. CASE W!TaskResumes
  BY <1>10 DEF W!TaskResumes
<1>11. CASE W!CancelTask
  BY <1>11 DEF W!CancelTask
<1>12. CASE UNCHANGED W!vars
  BY <1>12 DEF W!vars
<1> QED
  BY <1>1, <1>2, <1>3, <1>4, <1>5, <1>6, <1>7, <1>8, <1>9, <1>10, <1>11, <1>12
     DEF W!Next, W!Await, W!Operation, W!Task

-----------------------------------------------------------------------------
(* The cancelable sleep *)

\* The words of the sleep keep their types.
SleepTypeOK ==
  /\ s_state \in {"ePending", "eConsumed", "eCanceled"}
  /\ s_waiter \in BOOLEAN
  /\ s_sleeper \in {"start", "suspended", "resumed", "finished", "gone"}
  /\ s_task \in {"none", "set_waiter", "add_ref", "add_task", "added", "wake", "clear", "done"}
  /\ s_cpc \in [Cancelers -> {"new", "wake", "clear", "done"}]
  /\ s_returned \in [Cancelers -> BOOLEAN]
  /\ s_raced \in BOOLEAN

\* References: of the awaitable, and of the task from add_ref to its end.
RefsInv ==
  s_refs = (IF s_sleeper = "gone" THEN 0 ELSE 1)
         + (IF s_task \in {"add_task", "added", "wake", "clear"} THEN 1 ELSE 0)

\* One of the task and the calls of cancel() has set state, and is the only one
\* that wakes and clears.
OneWinner ==
  /\ s_state = "ePending" => s_task \notin {"wake", "clear"} /\ \A c \in Cancelers : s_cpc[c] = "new"
  /\ s_task \in {"wake", "clear"} => \A c \in Cancelers : s_cpc[c] \notin {"wake", "clear"}
  /\ \A c, d \in Cancelers : s_cpc[c] \in {"wake", "clear"} /\ s_cpc[d] \in {"wake", "clear"} => c = d

\* Until the winner has woken the coroutine it is suspended, or was not when the
\* winner came; the handle is there only after await_suspend has begun.
WakeInv ==
  /\ s_sleeper = "start" => s_task = "none"
  /\ s_task \in {"none", "set_waiter"} => ~s_waiter
  /\ s_task # "none" /\ (s_state = "ePending" \/ s_task = "wake" \/ \E c \in Cancelers : s_cpc[c] = "wake")
       => s_sleeper = "suspended"
  /\ s_resumes = IF s_sleeper \in {"start", "suspended"} THEN 0 ELSE 1

\* An await_suspend that no cancel() has overtaken still has the awaitable.
BoxInv == ~s_raced /\ s_task \in {"set_waiter", "add_ref", "add_task"} => s_state = "ePending"

\* state says who came first.
SleptInv ==
  /\ s_state = "eConsumed" => deadline[Slept] <= now
  /\ \A c \in Cancelers : s_returned[c] => s_state = "eCanceled"
  /\ s_received = "true" => s_state = "eConsumed"

SleepInv == SleepTypeOK /\ RefsInv /\ OneWinner /\ WakeInv /\ BoxInv /\ SleptInv

LEMMA SleepInit == ClientsInit => SleepInv
<1> SUFFICES ASSUME ClientsInit PROVE SleepInv
  OBVIOUS
<1>1. S!Init
  BY DEF ClientsInit
<1>2. SleepTypeOK
  BY <1>1 DEF S!Init, SleepTypeOK
<1>3. RefsInv
  BY <1>1 DEF S!Init, S!AddRef, RefsInv
<1>4. OneWinner /\ WakeInv /\ BoxInv /\ SleptInv
  BY <1>1 DEF S!Init, OneWinner, WakeInv, BoxInv, SleptInv
<1> QED
  BY <1>2, <1>3, <1>4 DEF SleepInv

LEMMA SleepInvStep == SleepInv /\ [S!Next]_(S!vars) => SleepInv'
<1> SUFFICES ASSUME SleepInv, [S!Next]_(S!vars) PROVE SleepInv'
  OBVIOUS
<1> USE DEF SleepInv, SleepTypeOK, RefsInv, OneWinner, WakeInv, BoxInv, SleptInv,
            S!boxVars, S!cancelVars, S!sleeperVars, S!GoOn, S!AddRef, S!Release
<1>1. CASE S!Expire
  BY <1>1 DEF S!Expire
<1>2. CASE S!AwaitReady
  BY <1>2 DEF S!AwaitReady
<1>3. CASE S!SetWaiter
  BY <1>3 DEF S!SetWaiter
<1>4. CASE S!TaskAddsRef
  BY <1>4 DEF S!TaskAddsRef
<1>5. CASE S!AddTask
  BY <1>5 DEF S!AddTask
<1>6. CASE S!AwaitResume
  BY <1>6 DEF S!AwaitResume
<1>7. CASE S!DestroyAwaitable
  BY <1>7 DEF S!DestroyAwaitable
<1>8. ASSUME NEW c \in Cancelers, S!Cancel(c) PROVE SleepInv'
  <2>1. SleepTypeOK'
    BY <1>8 DEF S!Cancel, S!Wins
  <2>2. RefsInv'
    BY <1>8 DEF S!Cancel, S!Wins
  <2>3. OneWinner'
    BY <1>8 DEF S!Cancel, S!Wins
  <2>4. WakeInv'
    BY <1>8 DEF S!Cancel, S!Wins
  <2>5. BoxInv'
    BY <1>8 DEF S!Cancel, S!Wins
  <2>6. SleptInv'
    BY <1>8 DEF S!Cancel, S!Wins
  <2> QED
    BY <2>1, <2>2, <2>3, <2>4, <2>5, <2>6
<1>9. ASSUME NEW c \in Cancelers, S!CancelWakes(c) PROVE SleepInv'
  BY <1>9 DEF S!CancelWakes, S!Resume, S!AfterWake
<1>10. ASSUME NEW c \in Cancelers, S!CancelClears(c) PROVE SleepInv'
  BY <1>10 DEF S!CancelClears
<1>11. CASE S!RunTask
  BY <1>11 DEF S!RunTask, S!TimeIsOver, S!TaskClaims, S!Claims, S!Wins, S!TakeOver
<1>12. CASE S!CancelTask
  BY <1>12 DEF S!CancelTask, S!Claims, S!Wins, S!TakeOver
<1>13. CASE S!TaskWakes
  BY <1>13 DEF S!TaskWakes, S!Resume, S!AfterWake
<1>14. CASE S!TaskClears
  <2>1. SleepTypeOK'
    BY <1>14 DEF S!TaskClears
  <2>2. RefsInv'
    BY <1>14 DEF S!TaskClears
  <2>3. OneWinner'
    BY <1>14 DEF S!TaskClears
  <2>4. WakeInv'
    BY <1>14 DEF S!TaskClears
  <2>5. BoxInv'
    BY <1>14 DEF S!TaskClears
  <2>6. SleptInv'
    BY <1>14 DEF S!TaskClears
  <2> QED
    BY <2>1, <2>2, <2>3, <2>4, <2>5, <2>6
<1>15. CASE UNCHANGED S!vars
  BY <1>15 DEF S!vars
<1> QED
  BY <1>1, <1>2, <1>3, <1>4, <1>5, <1>6, <1>7, <1>8, <1>9, <1>10, <1>11, <1>12, <1>13, <1>14, <1>15
     DEF S!Next, S!Sleeper, S!Timer

-----------------------------------------------------------------------------
(* What follows *)

\* The invariants of the timer and of its two clients hold throughout.
THEOREM ClientsInvariant == ClientsSpec => [](ClientsInv /\ TimeoutInv /\ SleepInv)
<1>1. ClientsInit => ClientsInv /\ TimeoutInv /\ SleepInv
  BY ClientsInvInit, TimeoutInit, SleepInit
<1>2. ClientsInv /\ TimeoutInv /\ SleepInv /\ [ClientsNext]_allVars
        => (ClientsInv /\ TimeoutInv /\ SleepInv)'
  BY ClientsInvStep, TimeoutStepOfClients, SleepStepOfClients, TimeoutInvStep, SleepInvStep
<1> QED
  BY <1>1, <1>2, PTL DEF ClientsSpec

\* run() and stop() (timer.hpp:54-90, 46-52) never both take a task, whatever
\* callbacks and other threads add meanwhile.
THEOREM TasksOnce == ClientsSpec => []RunOrCancelledOnce
<1>1. ClientsInv => RunOrCancelledOnce
  BY DEF ClientsInv, TimerInv
<1> QED
  BY <1>1, ClientsInvariant, PTL

\* The wait of run() ends before each task in the queue is due.
THEOREM InTime == ClientsSpec => []NeverOversleeps
<1>1. ClientsInv => NeverOversleeps
  BY DEF ClientsInv, TimerInv
<1> QED
  BY <1>1, ClientsInvariant, PTL

\* The timer gives with_timeout and the cancelable sleep what they rely on.
THEOREM Serves == ClientsSpec => ServesClients
<1>1. ClientsInit => W!Init /\ S!Init
  BY DEF ClientsInit
<1> QED
  BY <1>1, TimeoutStepOfClients, SleepStepOfClients, ClientsInvariant, PTL
     DEF ClientsSpec, ServesClients, W!Spec, S!Spec

\* What with_timeout and the sleep return has happened.
THEOREM TrueAnswers == ClientsSpec => []AnswersAreTrue
<1>1. TimeoutInv => W!AnswerIsTrue
  BY DEF TimeoutInv, StateIsTrue, W!AnswerIsTrue
<1>2. SleepInv => S!TrueMeansSlept
  BY DEF SleepInv, SleptInv, SleepTypeOK, S!TrueMeansSlept
<1>3. ClientsInv /\ TimeoutInv /\ SleepInv => AnswersAreTrue
  BY <1>1, <1>2 DEF AnswersAreTrue
<1> QED
  BY <1>3, ClientsInvariant, PTL

\* The sleeper is resumed once, and the ControlBox is deleted after its last use
\* by the awaitable, by the timer's callback and by the cancel function, and not
\* before (timer.hpp:224-276), unless a cancel() succeeded while await_suspend
\* was under way.  The last use by cancel() itself (timer.hpp:221) may be later.
THEOREM BoxSafe == ClientsSpec => []SharedBoxSafe
<1>1. SleepInv => S!ResumedOnce
  BY DEF SleepInv, WakeInv, S!ResumedOnce
<1>2. SleepInv => S!BoxLifetime
  <2> SUFFICES ASSUME SleepInv, ~s_raced PROVE s_refs > 0 <=> S!InUse
    BY DEF S!BoxLifetime
  <2>1. s_refs > 0 <=> s_sleeper # "gone" \/ s_task \in {"add_task", "added", "wake", "clear"}
    BY DEF SleepInv, RefsInv
  <2>2. s_task \in {"set_waiter", "add_ref"} => s_sleeper # "gone"
    BY DEF SleepInv, BoxInv, WakeInv
  <2> QED
    BY <2>1, <2>2 DEF S!InUse, SleepInv, SleepTypeOK
<1>3. ClientsInv /\ TimeoutInv /\ SleepInv => SharedBoxSafe
  BY <1>1, <1>2 DEF SharedBoxSafe
<1> QED
  BY <1>3, ClientsInvariant, PTL

\* with_timeout over the timer implements AwaitSpec: the first to set state is
\* what finishes, and resuming the coroutine is going on.
THEOREM KeepsPromise == ClientsSpec => WithTimeoutSpec
<1> DEFINE finished == CASE w_state \in {"eValid", "eError"} -> {"operation"}
                         [] (w_state = "eTimeout" \/ (w_awaiter = "start" /\ deadline[Timed] <= now)) -> {"timer"}
                         [] OTHER -> {}
           awaiter == CASE w_awaiter = "start" -> "running"
                        [] w_awaiter = "gone" -> "resumed"
                        [] OTHER -> w_awaiter
<1>1. ClientsInit => W!Promise!Init
  BY DEF ClientsInit, W!Init, W!Promise!Init
<1>2. ASSUME TimeoutInv, [W!Next]_(W!vars)
      PROVE  [W!Promise!Next]_<<finished, awaiter, w_resumes>>
  <2> USE <1>2 DEF TimeoutInv, TimeoutTypeOK, StartInv, OneResumes, StateIsTrue,
                   W!stateVars, W!awaiterVars, W!GoOn, W!Promise!Next
  <2>1. CASE W!Expire
    BY <2>1 DEF W!Expire, W!Promise!Finish
  <2>2. CASE W!AwaitReady
    BY <2>2 DEF W!AwaitReady, W!StateWhenLate, W!Promise!GoOn, W!Promise!Enough, W!Promise!Suspend
  <2>3. CASE W!StartOperation \/ W!AddTask \/ W!AwaitResume \/ W!Answers \/ W!CancelTask
    BY <2>3 DEF W!StartOperation, W!AddTask, W!AwaitResume, W!Answers, W!Stored, W!CancelTask
  <2>4. CASE W!OperationClaims
    BY <2>4 DEF W!OperationClaims, W!Wins, W!Promise!Finish
  <2>5. CASE W!RunTask
    BY <2>5 DEF W!RunTask, W!TimeIsOver, W!TaskClaims, W!Wins, W!Promise!Finish
  <2>6. CASE W!OperationResumes
    BY <2>6 DEF W!OperationResumes, W!Promise!GoOn, W!Promise!Enough
  <2>7. CASE W!TaskResumes
    BY <2>7 DEF W!TaskResumes, W!Promise!GoOn, W!Promise!Enough
  <2>8. CASE UNCHANGED W!vars
    BY <2>8 DEF W!vars
  <2> QED
    BY <2>1, <2>2, <2>3, <2>4, <2>5, <2>6, <2>7, <2>8 DEF W!Next, W!Await, W!Operation, W!Task
<1> QED
  BY <1>1, <1>2, TimeoutStepOfClients, ClientsInvariant, PTL
     DEF ClientsSpec, WithTimeoutSpec, W!WithTimeoutSpec, W!Promise!Spec
==============================================================================
