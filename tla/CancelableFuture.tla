--------------------------- MODULE CancelableFuture ---------------------------
(***************************************************************************)
(* CancelablePromise, CancelableWaitablePromise and their futures          *)
(* (include/coro.hpp): one coroutine whose body begins waits for its own   *)
(* cancellation while any thread cancels it, and whose owner waits for it, *)
(* awaits it or destroys it.  final_suspend cancels before the final       *)
(* awaiter publishes the result.                                           *)
(*                                                                         *)
(* A caller of cancel() does so while the owner has not begun to destroy   *)
(* the future, and the owner destroys it after the calls have returned.    *)
(***************************************************************************)
EXTENDS Cancellation

VARIABLES
  f_waitable, f_result, f_state, f_caller, f_coroutine, f_frame, f_awaited, f_owner, f_missed

F == INSTANCE Future WITH
  waitable <- f_waitable, result <- f_result, m_state <- f_state,
  m_caller_coroutine <- f_caller, coroutine <- f_coroutine, frame <- f_frame,
  awaited <- f_awaited, owner <- f_owner, missed <- f_missed

futureVars ==
  <<f_waitable, f_result, f_state, f_caller, f_coroutine, f_frame, f_awaited, f_owner, f_missed>>
allVars == <<vars, futureVars>>

FutureInit == Init /\ F!Init

-----------------------------------------------------------------------------
(* The coroutine *)

\* co_await wait_cancel(), and the steps of its await_suspend.
BodyWaits ==
  /\ f_coroutine = "body"
  /\ Body \/ \E w \in Waits : BeginWait(w)
  /\ UNCHANGED futureVars

\* co_return, or an exception; not in the middle of an await_suspend.
BodyReturns == bpc = "body" /\ F!Return /\ UNCHANGED vars

\* Mutant: the final awaiter does not come after the cancel().
FinalCancelLeftOut == TRUE
FinalCancelReturned == cpc[Final] = "done"

\* final_suspend(): cancel() ...
FinalCancel ==
  /\ f_coroutine = "returned"
  /\ Cancel(Final)
  /\ UNCHANGED futureVars

\* ... and the final awaiter.
FinalAwaiter ==
  /\ f_coroutine = "returned" => FinalCancelReturned
  /\ F!FinalSuspend \/ F!SetValid \/ F!Notify \/ F!ResumeCaller
  /\ UNCHANGED vars

-----------------------------------------------------------------------------
(* Callers of cancel(), and the owner *)

Callers == Cancelers \ {Final}

CallsCancel(c) ==
  /\ f_owner \notin {"destructor", "destructor_asleep", "gone"}
  /\ Exchange(c)
  /\ UNCHANGED futureVars

CancelReturns(c) == ResumeWaiter(c) /\ UNCHANGED futureVars

OwnerWaits ==
  /\ F!Wait \/ F!BeginAwait \/ F!AwaitReady \/ F!SetCaller \/ F!Get \/ F!DestructorWaits
  /\ UNCHANGED vars

OwnerTimesOut == F!TimeOut /\ UNCHANGED vars

OwnerDestroys ==
  /\ \A c \in Callers : cpc[c] # "resume"
  /\ F!BeginDestructor \/ F!Destroy
  /\ UNCHANGED vars

\* The coroutine has ended, and its owner is through or sleeps for good.
Through ==
  /\ f_coroutine = "ended" /\ f_owner \in {"gone", "suspended"}
  /\ UNCHANGED allVars

Coroutine == BodyReturns \/ FinalCancel \/ FinalAwaiter
Owner == OwnerWaits \/ OwnerDestroys

FutureNext ==
  \/ BodyWaits \/ Coroutine
  \/ Owner \/ OwnerTimesOut
  \/ \E c \in Callers : CallsCancel(c) \/ CancelReturns(c)
  \/ Through

FutureSpec == FutureInit /\ [][FutureNext]_allVars

\* The coroutine ends, calls that have begun go on, and the owner goes on;
\* nobody has to cancel, and no timeout helps.
FairFutureSpec ==
  /\ FutureSpec
  /\ WF_allVars(Body /\ UNCHANGED futureVars) /\ WF_allVars(Coroutine) /\ WF_allVars(Owner)
  /\ \A c \in Callers : WF_allVars(CancelReturns(c))

-----------------------------------------------------------------------------
(* Properties *)

\* Only a suspended coroutine is resumed: by cancel(), by the wait that takes
\* its place, and by the final awaiter.  The exception is a wait that writes
\* m_waiter between the exchange and the read of a cancel().
OnlySuspendedResumed == [][ResumedOnlySuspended' /\ F!CallerWasSuspended]_allVars

\* When the owner has the result, a wait_cancel() that is still suspended is
\* the one that a cancel() in progress resumes; when the frame is destroyed
\* there is none: it would wait for good on a promise that is gone.
NobodyLeftWaiting ==
  f_owner \in {"ready", "got", "gone"} /\ ~overlapped =>
    \A w \in Waits : status[w] = "suspended" =>
      f_frame = "alive" /\ m_waiter = w /\ \E c \in Callers : cpc[c] = "resume"

\* Whatever way the owner learns that the coroutine has ended, by wait(), by
\* await_ready() or by the resume of the final awaiter, the result is there.
GetFindsResult == F!GetFindsResult

\* wait(), the wait of the destructor and a co_await that registers before the
\* final awaiter looks for a caller go on, whoever cancels or is waiting.
OwnerGoesOn == F!WaitReturns /\ F!EarlyCallerResumed
==============================================================================
