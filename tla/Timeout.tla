------------------------------- MODULE Timeout -------------------------------
(***************************************************************************)
(* TimeoutAwaitable, that is with_timeout (include/timer.hpp): the awaited *)
(* operation and a task of the timer both try to set state; the one that   *)
(* does resumes the coroutine.  await_suspend starts the operation first   *)
(* and adds the task then, so that the coroutine may be gone when it does. *)
(*                                                                         *)
(* Of the timer this module assumes that a task is run after its time, or  *)
(* cancelled by stop(), once; TimerClients puts the timer itself there.    *)
(***************************************************************************)
EXTENDS Naturals

VARIABLES
  state, buf, exception,  \* State
  operation, \* "initial", "running", "claim", "resume", "done"
  answer,    \* how the operation ended: "none", "value", "error"
  awaiter,   \* "start", "suspended", "resumed", "gone"
  suspending,\* await_suspend: "none", "resume_operation", "add_task", "done"
  task,      \* "none", "added", "resume", "done", "cancelled"
  expired,   \* the time is over
  received,  \* what await_resume returned: "none", "value", "error", "timeout"
  resumes    \* ghost: how often the coroutine went on

stateVars == <<state, buf, exception>>
awaiterVars == <<awaiter, resumes>>
vars == <<stateVars, operation, answer, awaiterVars, suspending, task, expired, received>>

Init ==
  /\ state = "ePending" /\ buf = "empty" /\ exception = "none"
  /\ operation = "initial" /\ answer = "none"
  /\ awaiter = "start" /\ suspending = "none" /\ task = "none"
  /\ expired = FALSE
  /\ received = "none" /\ resumes = 0

GoOn == awaiter' = "resumed" /\ resumes' = resumes + 1

Expire ==
  /\ ~expired
  /\ expired' = TRUE
  /\ UNCHANGED <<stateVars, operation, answer, awaiterVars, suspending, task, received>>

\* Mutant: a store in place of the compare_exchange.
AlwaysWins == TRUE
Wins == state = "ePending"

-----------------------------------------------------------------------------
(* The awaiting coroutine *)

StateWhenLate == "eTimeout"

AwaitReady ==
  /\ awaiter = "start"
  /\ IF expired
       THEN /\ state' = StateWhenLate
            /\ GoOn
            /\ UNCHANGED suspending
       ELSE /\ awaiter' = "suspended" /\ suspending' = "resume_operation"
            /\ UNCHANGED <<state, resumes>>
  /\ UNCHANGED <<buf, exception, operation, answer, task, expired, received>>

\* await_suspend(): the caller is set and the operation's coroutine resumed.
StartOperation ==
  /\ suspending = "resume_operation"
  /\ operation' = "running"
  /\ suspending' = "add_task"
  /\ UNCHANGED <<stateVars, answer, awaiterVars, task, expired, received>>

\* m_timer.add_task(m_timeout, ...): if the awaitable is gone, what is read of
\* it is undefined, and a task may be added or not.
AddTask ==
  /\ suspending = "add_task"
  /\ \/ task' = "added"
     \/ awaiter = "gone" /\ UNCHANGED task
  /\ suspending' = "done"
  /\ UNCHANGED <<stateVars, operation, answer, awaiterVars, expired, received>>

Answer ==
  CASE state = "eValid" -> "value" [] state = "eError" -> "error" [] state = "eTimeout" -> "timeout"

\* await_resume(); the awaitable, a temporary of with_timeout_until, is destroyed.
AwaitResume ==
  /\ awaiter = "resumed"
  /\ awaiter' = "gone"
  /\ received' = Answer
  /\ UNCHANGED <<stateVars, operation, answer, suspending, task, expired, resumes>>

-----------------------------------------------------------------------------
(* The operation *)

Stored ==
  IF answer' = "value" THEN buf' = "full" /\ UNCHANGED exception
                       ELSE exception' = "set" /\ UNCHANGED buf

Answers ==
  /\ operation = "running"
  /\ answer' \in {"value", "error"}
  /\ Stored
  /\ operation' = "claim"
  /\ UNCHANGED <<state, awaiterVars, suspending, task, expired, received>>

OperationClaims ==
  /\ operation = "claim"
  /\ IF Wins
       THEN /\ state' = IF answer = "value" THEN "eValid" ELSE "eError"
            /\ operation' = "resume"
       ELSE /\ operation' = "done"
            /\ UNCHANGED state
  /\ UNCHANGED <<buf, exception, answer, awaiterVars, suspending, task, expired, received>>

OperationResumes ==
  /\ operation = "resume"
  /\ GoOn
  /\ operation' = "done"
  /\ UNCHANGED <<stateVars, answer, suspending, task, expired, received>>

-----------------------------------------------------------------------------
(* The timer *)

TimeIsOver == expired

TaskClaims ==
  /\ task = "added"
  /\ IF Wins THEN state' = "eTimeout" /\ task' = "resume"
             ELSE task' = "done" /\ UNCHANGED state
  /\ UNCHANGED <<buf, exception, operation, answer, awaiterVars, suspending, expired, received>>

RunTask == TimeIsOver /\ TaskClaims

TaskResumes ==
  /\ task = "resume"
  /\ GoOn
  /\ task' = "done"
  /\ UNCHANGED <<stateVars, operation, answer, suspending, expired, received>>

\* stop(): the task's cancel function only drops its reference to State.
CancelTask ==
  /\ task = "added"
  /\ task' = "cancelled"
  /\ UNCHANGED <<stateVars, operation, answer, awaiterVars, suspending, expired, received>>

Await == AwaitReady \/ StartOperation \/ AddTask \/ AwaitResume
Operation == OperationClaims \/ OperationResumes
Task == RunTask \/ TaskResumes

Next == Expire \/ Await \/ Answers \/ Operation \/ Task \/ CancelTask

Spec == Init /\ [][Next]_vars

-----------------------------------------------------------------------------
(* Properties *)

\* What await_resume returns is what happened: a value that was constructed in
\* buf, the exception that was thrown, or a timeout after the time was over.
AnswerIsTrue ==
  CASE received = "value" -> answer = "value" /\ buf = "full"
    [] received = "error" -> answer = "error" /\ exception = "set"
    [] received = "timeout" -> expired
    [] OTHER -> TRUE

\* with_timeout keeps its promise to the awaiting coroutine: it goes on once,
\* after its operation has answered or its time is over.
Promise == INSTANCE AwaitSpec
  WITH Awaitables <- {"operation", "timer"},
       Sufficient <- {{"operation"}, {"timer"}},
       finished <- CASE state \in {"eValid", "eError"} -> {"operation"}
                     [] (state = "eTimeout" \/ (awaiter = "start" /\ expired)) -> {"timer"}
                     [] OTHER -> {},
       awaiter <- CASE awaiter = "start" -> "running"
                    [] awaiter = "gone" -> "resumed"
                    [] OTHER -> awaiter
WithTimeoutSpec == Promise!Spec
==============================================================================
