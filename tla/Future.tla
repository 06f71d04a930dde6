-------------------------------- MODULE Future --------------------------------
(***************************************************************************)
(* Promise, Future and their waitable and cancelable forms                 *)
(* (include/coro.hpp): an eager coroutine ends on some thread while its    *)
(* owner waits for it (WaitableFuture), gives up waiting and awaits it     *)
(* (wait_for, detach), or awaits it from another coroutine (Future,        *)
(* DetachedWaitableFuture), and then destroys its frame.                   *)
(*                                                                         *)
(* The final awaiter touches the promise, which is in the frame, after the *)
(* word that lets the owner go on is set.                                  *)
(***************************************************************************)
EXTENDS Naturals

VARIABLES
  waitable,    \* WaitablePromise, or Promise
  result,      \* "none", "value", "error": m_value and m_exception
  m_state,     \* of WaitablePromiseBase
  m_caller_coroutine,  \* whether the awaiting coroutine is registered
  coroutine,   \* "body", "returned", "set_valid", "notify", "get_caller", "ended"
  frame,       \* "alive" or "destroyed"
  awaited,     \* the owner is a coroutine that awaits, or was detached
  owner,       \* "start", "wait", "asleep", "await_ready", "set_caller", "suspended",
               \* "ready", "got", "destructor", "destructor_asleep", "gone"
  missed       \* ghost: set_caller came after the final awaiter's get_caller

ownerVars == <<waitable, awaited, missed>>
promiseVars == <<result, m_state, m_caller_coroutine>>
vars == <<promiseVars, coroutine, frame, owner, ownerVars>>

Init ==
  /\ waitable \in BOOLEAN /\ awaited = FALSE
  /\ result = "none" /\ m_state = 0 /\ m_caller_coroutine = FALSE
  /\ coroutine = "body" /\ frame = "alive"
  /\ owner = "start"
  /\ missed = FALSE

-----------------------------------------------------------------------------
(* The coroutine *)

Outcomes == {"value", "error"}

\* return_value(), return_void() or unhandled_exception().
Return ==
  /\ coroutine = "body"
  /\ result' \in Outcomes
  /\ coroutine' = "returned"
  /\ UNCHANGED <<m_state, m_caller_coroutine, frame, owner, ownerVars>>

Publishes == waitable

\* final_suspend(): from here on done() is true.
FinalSuspend ==
  /\ coroutine = "returned"
  /\ coroutine' = IF Publishes THEN "set_valid" ELSE "get_caller"
  /\ UNCHANGED <<promiseVars, frame, owner, ownerVars>>

Done == coroutine \in {"set_valid", "notify", "get_caller", "ended"}

\* set_valid(): the store ...
SetValid ==
  /\ coroutine = "set_valid"
  /\ m_state' = 1
  /\ coroutine' = "notify"
  /\ UNCHANGED <<result, m_caller_coroutine, frame, owner, ownerVars>>

\* ... and notify_all().
Notify ==
  /\ coroutine = "notify"
  /\ owner' = CASE owner = "asleep" -> "wait"
                [] owner = "destructor_asleep" -> "destructor"
                [] OTHER -> owner
  /\ coroutine' = "get_caller"
  /\ UNCHANGED <<promiseVars, frame, ownerVars>>

\* Mutant: the final awaiter goes to the noop coroutine.
NeverCalls == FALSE
Calls == m_caller_coroutine

\* The final awaiter resumes the caller, if there is one by now.
ResumeCaller ==
  /\ coroutine = "get_caller"
  /\ owner' = IF Calls THEN "ready" ELSE owner
  /\ coroutine' = "ended"
  /\ UNCHANGED <<promiseVars, frame, ownerVars>>

-----------------------------------------------------------------------------
(* The owner *)

\* WaitableFuture::wait, wait_for and wait_until
Wait ==
  /\ waitable
  /\ owner \in {"start", "wait"}
  /\ owner' = IF m_state = 0 THEN "asleep" ELSE "ready"
  /\ UNCHANGED <<promiseVars, coroutine, frame, ownerVars>>

\* wait_for returns false: std::move(future).detach(), and forget() awaits it.
TimeOut ==
  /\ owner = "asleep"
  /\ owner' = "await_ready"
  /\ awaited' = TRUE
  /\ UNCHANGED <<waitable, promiseVars, coroutine, frame, missed>>

BeginAwait ==
  /\ owner = "start"
  /\ owner' = "await_ready"
  /\ awaited' = TRUE
  /\ UNCHANGED <<waitable, promiseVars, coroutine, frame, missed>>

\* Mutant: await_ready takes a coroutine that has not ended for done.
ReadyTooEarly == TRUE
IsReady == Done

AwaitReady ==
  /\ owner = "await_ready"
  /\ owner' = IF IsReady THEN "ready" ELSE "set_caller"
  /\ UNCHANGED <<promiseVars, coroutine, frame, ownerVars>>

\* await_suspend()
SetCaller ==
  /\ owner = "set_caller"
  /\ m_caller_coroutine' = TRUE
  /\ owner' = "suspended"
  /\ missed' = (coroutine = "ended")
  /\ UNCHANGED <<waitable, awaited, result, m_state, coroutine, frame>>

\* get(), await_resume()
Get ==
  /\ owner = "ready"
  /\ owner' = "got"
  /\ UNCHANGED <<ownerVars, promiseVars, coroutine, frame>>

\* ~WaitableFuture begins, with or without a wait or a get() before it.
BeginDestructor ==
  /\ waitable /\ ~awaited
  /\ owner \in {"start", "ready", "got"}
  /\ owner' = "destructor"
  /\ UNCHANGED <<promiseVars, coroutine, frame, ownerVars>>

\* wait() in the destructor.
DestructorWaits ==
  /\ owner = "destructor" /\ m_state = 0
  /\ owner' = "destructor_asleep"
  /\ UNCHANGED <<promiseVars, coroutine, frame, ownerVars>>

\* m_coroutine.destroy(): after the wait, or when the awaiting coroutine has
\* its result (~Future, ~DetachedWaitableFuture).
Destroy ==
  /\ \/ owner = "destructor" /\ m_state = 1
     \/ owner = "got" /\ awaited
  /\ frame' = "destroyed"
  /\ owner' = "gone"
  /\ UNCHANGED <<promiseVars, coroutine, ownerVars>>

\* The owner is through, or suspended for good.
Terminating ==
  /\ coroutine = "ended" /\ owner \in {"gone", "suspended"}
  /\ UNCHANGED vars

Coroutine == Return \/ FinalSuspend \/ SetValid \/ Notify \/ ResumeCaller
Owner ==
  \/ Wait \/ BeginAwait \/ AwaitReady \/ SetCaller \/ Get
  \/ BeginDestructor \/ DestructorWaits \/ Destroy

Next == Coroutine \/ Owner \/ TimeOut \/ Terminating

Spec == Init /\ [][Next]_vars

\* The coroutine ends, and the owner's calls go on.
FairSpec == Spec /\ WF_vars(Coroutine) /\ WF_vars(Owner)

-----------------------------------------------------------------------------
(* Properties *)

\* get() and await_resume() find what the coroutine returned or threw, on every
\* way there: wait(), await_ready() and the resume of the final awaiter.
GetFindsResult == owner = "ready" => result # "none"

\* The final awaiter resumes a caller only while that is suspended; it does not
\* both find the coroutine done and get resumed by it.
CallerWasSuspended ==
  coroutine' # coroutine /\ owner' = "ready" /\ owner # "ready" => owner = "suspended"

\* wait() and the wait of the destructor return once the coroutine has ended.
WaitReturns == owner \in {"asleep", "destructor_asleep"} ~> owner \notin {"asleep", "destructor_asleep"}

\* A caller that registers before the final awaiter looks for one is resumed.
EarlyCallerResumed == owner = "suspended" /\ ~missed ~> owner = "gone"
==============================================================================
