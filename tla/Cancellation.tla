----------------------------- MODULE Cancellation -----------------------------
(***************************************************************************)
(* CancelablePromiseBase (include/coro.hpp): the word and the handle       *)
(* through which cancel(), called by any thread and by final_suspend,      *)
(* resumes whoever awaits wait_cancel().                                   *)
(*                                                                         *)
(* The body of the cancelable coroutine begins the waits, one after the    *)
(* other, through wait_any or with_timeout too: it need not suspend, and   *)
(* may abandon a wait and begin another one (main.cpp:123-125).            *)
(***************************************************************************)
EXTENDS Naturals, FiniteSets

CONSTANTS
  Waits,       \* the coroutines that await wait_cancel(), once each
  Cancelers,   \* calls of cancel()
  Final,       \* the one that final_suspend makes
  Null

ASSUME CancellationAssumption ==
  /\ IsFiniteSet(Cancelers) /\ Final \in Cancelers /\ Null \notin Waits

VARIABLES
  m_state, m_waiter,
  bpc,         \* the body: "body", "reset", "take", "store", "register", "ended"
  current,     \* the wait whose await_suspend the body executes
  status,      \* per wait: "new", "suspending", "suspended", "went_on", "broken"
  cpc,         \* per cancel(): "new", "resume", "done"
  returned,    \* per cancel(): what it returned, FALSE before
  overlapped   \* ghost: m_waiter was written while a cancel() was about to read it

bodyVars == <<bpc, current>>
cancelVars == <<cpc, returned>>
vars == <<m_state, m_waiter, bodyVars, status, cancelVars, overlapped>>

Init ==
  /\ m_state = "ePending" /\ m_waiter = Null
  /\ bpc = "body" /\ current = Null
  /\ status = [w \in Waits |-> "new"]
  /\ cpc = [c \in Cancelers |-> "new"]
  /\ returned = [c \in Cancelers |-> FALSE]
  /\ overlapped = FALSE

\* resume() of a coroutine that is not suspended is undefined.
Resumed(w) == IF status[w] = "suspended" THEN "went_on" ELSE "broken"

-----------------------------------------------------------------------------
(* cancel() *)

Succeeds == m_state # "eCanceled"

SomebodyWaits == m_state = "eWaiting"

\* Mutant: a load in place of the exchange.
StateUnchanged == m_state
StateAfterCancel == "eCanceled"

\* m_state.exchange(eCanceled)
Exchange(c) ==
  /\ cpc[c] = "new"
  /\ IF c = Final THEN bpc = "body" /\ bpc' = "ended" ELSE UNCHANGED bpc
  /\ m_state' = StateAfterCancel
  /\ returned' = [returned EXCEPT ![c] = Succeeds]
  /\ cpc' = [cpc EXCEPT ![c] = IF SomebodyWaits THEN "resume" ELSE "done"]
  /\ UNCHANGED <<m_waiter, current, status, overlapped>>

\* m_waiter.resume()
ResumeWaiter(c) ==
  /\ cpc[c] = "resume"
  /\ cpc' = [cpc EXCEPT ![c] = "done"]
  /\ status' = [status EXCEPT ![m_waiter] = Resumed(m_waiter)]
  /\ UNCHANGED <<m_state, m_waiter, bodyVars, returned, overlapped>>

-----------------------------------------------------------------------------
(* co_await wait_cancel() *)

\* await_ready()
BeginWait(w) ==
  /\ bpc = "body" /\ status[w] = "new"
  /\ IF m_state = "eCanceled"
       THEN /\ status' = [status EXCEPT ![w] = "went_on"]
            /\ UNCHANGED bodyVars
       ELSE /\ status' = [status EXCEPT ![w] = "suspending"]
            /\ bpc' = "reset" /\ current' = w
  /\ UNCHANGED <<m_state, m_waiter, cancelVars, overlapped>>

StateAfterReset == IF m_state = "eWaiting" THEN "ePending" ELSE m_state

\* reset_waiter(): the compare_exchange ...
ResetWaiter ==
  /\ bpc = "reset"
  /\ m_state' = StateAfterReset
  /\ bpc' = IF m_state = "eWaiting" THEN "take" ELSE "store"
  /\ UNCHANGED <<m_waiter, current, status, cancelVars, overlapped>>

ResumeOldWaiter ==
  status' = [status EXCEPT ![m_waiter] = Resumed(m_waiter)]

\* ... and the exchange; the wait that was registered before goes on.
TakeOldWaiter ==
  /\ bpc = "take"
  /\ ResumeOldWaiter
  /\ m_waiter' = Null
  /\ bpc' = "store"
  /\ UNCHANGED <<m_state, current, cancelVars, overlapped>>

\* set_cancel_waiter(): m_waiter is not atomic, and is written in any state.
StoreWaiter ==
  /\ bpc = "store"
  /\ m_waiter' = current
  /\ overlapped' = (overlapped \/ \E c \in Cancelers : cpc[c] = "resume")
  /\ bpc' = "register"
  /\ UNCHANGED <<m_state, current, status, cancelVars>>

\* Its compare_exchange; await_suspend returns whether it succeeded.
Register ==
  /\ bpc = "register"
  /\ IF m_state = "ePending"
       THEN /\ m_state' = "eWaiting"
            /\ status' = [status EXCEPT ![current] =
                            IF @ = "suspending" THEN "suspended" ELSE "broken"]
       ELSE /\ status' = [status EXCEPT ![current] =
                            IF @ = "suspending" THEN "went_on" ELSE "broken"]
            /\ UNCHANGED m_state
  /\ bpc' = "body" /\ current' = Null
  /\ UNCHANGED <<m_waiter, cancelVars, overlapped>>

Cancel(c) == Exchange(c) \/ ResumeWaiter(c)
Body == ResetWaiter \/ TakeOldWaiter \/ StoreWaiter \/ Register

Next ==
  \/ \E c \in Cancelers : Cancel(c)
  \/ \E w \in Waits : BeginWait(w)
  \/ Body

Spec == Init /\ [][Next]_vars

-----------------------------------------------------------------------------
(* Properties *)

\* Nobody resumes a coroutine that is not suspended, unless a new wait wrote
\* m_waiter between the exchange and the read of a cancel().
ResumedOnlySuspended == overlapped \/ \A w \in Waits : status[w] # "broken"
==============================================================================
