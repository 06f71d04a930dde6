--------------------------- MODULE FutureEachProofs ---------------------------
(***************************************************************************)
(* Proofs about the two parts that meet in main.cpp's test_wait_each: a    *)
(* cancelable future whose body awaits a wait_each again and again.  What  *)
(* is proved of one does not depend on the other.                          *)
(*                                                                         *)
(* CancelableFuture: whoever waits for the coroutine finds its result, no  *)
(* wait_cancel() is left suspended behind it, and nobody resumes a         *)
(* coroutine that is not suspended.  The argument is about who may resume the wait that is registered.  It   *)
(* is one of: whoever comes next, while m_state is eWaiting; the body, in  *)
(* reset_waiter(); one cancel() after its exchange.                        *)
(***************************************************************************)
EXTENDS CancelableFuture, WaitEach, FiniteSetTheorems, SequenceTheorems, TLAPS

-----------------------------------------------------------------------------
(* The inductive invariant *)

CancelStates == {"ePending", "eWaiting", "eCanceled"}
BodySteps == {"body", "reset", "take", "store", "register", "ended"}
WaitStatus == {"new", "suspending", "suspended", "went_on", "broken"}
CancelSteps == {"new", "resume", "done"}

CancelTypeOK ==
  /\ m_state \in CancelStates
  /\ m_waiter \in Waits \cup {Null}
  /\ bpc \in BodySteps
  /\ current \in Waits \cup {Null}
  /\ status \in [Waits -> WaitStatus]
  /\ cpc \in [Cancelers -> CancelSteps]
  /\ overlapped \in BOOLEAN

\* A cancel() that has begun has left eCanceled, and nothing takes it away;
\* while the body replaces the registered wait, nobody else is registered.
StateInv ==
  /\ \A c \in Cancelers : cpc[c] # "new" => m_state = "eCanceled"
  /\ bpc \in {"take", "store", "register"} => m_state # "eWaiting"
  /\ bpc \in {"reset", "take", "store", "register"} => current \in Waits

\* A cancel() is about to read m_waiter.
Resuming == \E c \in Cancelers : cpc[c] = "resume"

\* Somebody has to resume the registered wait.
Registered == m_state = "eWaiting" \/ bpc = "take" \/ Resuming

\* The wait whose await_suspend the body executes, which nobody can see yet.
CurrentInv ==
  /\ bpc \in {"reset", "take", "store", "register"} => status[current] = "suspending"
  /\ bpc = "register" => m_waiter = current /\ ~Resuming

\* m_waiter is the one suspended wait, and one actor only will resume it.
WaiterInv ==
  /\ Registered => m_waiter \in Waits /\ status[m_waiter] = "suspended"
  /\ \A w \in Waits : status[w] = "suspended" => m_waiter = w /\ Registered
  /\ \A c, d \in Cancelers : cpc[c] = "resume" /\ cpc[d] = "resume" => c = d
  /\ bpc = "take" => ~Resuming
  /\ \A w \in Waits : status[w] # "broken"

CancelInv == StateInv /\ (overlapped \/ (CurrentInv /\ WaiterInv))

CoroutineSteps == {"body", "returned", "set_valid", "notify", "get_caller", "ended"}
OwnerSteps ==
  {"start", "wait", "asleep", "await_ready", "set_caller", "suspended", "ready", "got",
   "destructor", "destructor_asleep", "gone"}

FutureTypeOK ==
  /\ f_result \in {"none"} \cup F!Outcomes
  /\ f_state \in {0, 1}
  /\ f_caller \in BOOLEAN
  /\ f_coroutine \in CoroutineSteps
  /\ f_frame \in {"alive", "destroyed"}
  /\ f_owner \in OwnerSteps

\* The coroutine ended in this order: the result, the last cancel(), and then
\* what lets the owner go on.
EndInv ==
  /\ f_coroutine # "body" => f_result # "none" /\ bpc \in {"body", "ended"}
  /\ bpc = "ended" <=> cpc[Final] # "new"
  /\ f_coroutine = "body" => cpc[Final] = "new"
  /\ f_coroutine \notin {"body", "returned"} => cpc[Final] = "done"
  /\ f_state = 1 => f_coroutine \notin {"body", "returned"}

\* The owner has gone on for a reason, and a registered caller is suspended
\* until the final awaiter resumes it.
OwnerInv ==
  /\ f_owner \in {"ready", "got", "gone"} => f_coroutine \notin {"body", "returned"}
  /\ f_caller /\ f_coroutine # "ended" => f_owner = "suspended"
  /\ f_owner = "gone" => \A c \in Callers : cpc[c] # "resume"
  /\ f_owner # "gone" => f_frame = "alive"

FutureInv == EndInv /\ OwnerInv

Inv == CancelTypeOK /\ FutureTypeOK /\ CancelInv /\ FutureInv

LEMMA InitInv == FutureInit => Inv
<1> SUFFICES ASSUME FutureInit PROVE Inv
  OBVIOUS
<1> USE CancellationAssumption DEF FutureInit, Init, F!Init, CancellationAssumption
<1>1. CancelTypeOK
  BY DEF CancelTypeOK, CancelStates, BodySteps, WaitStatus, CancelSteps
<1>2. CancelInv
  BY DEF CancelInv, StateInv, CurrentInv, WaiterInv, Registered, Resuming
<1>3. FutureTypeOK
  BY DEF FutureTypeOK, CoroutineSteps, OwnerSteps
<1>4. FutureInv
  BY DEF FutureInv, EndInv, OwnerInv, Callers
<1> QED
  BY <1>1, <1>2, <1>3, <1>4 DEF Inv

-----------------------------------------------------------------------------
(* cancel() and the waits *)

USE CancellationAssumption DEF CancellationAssumption

LEMMA CancelTyped ==
  ASSUME CancelTypeOK, Next
  PROVE  CancelTypeOK'
<1> USE DEF CancelTypeOK, CancelStates, BodySteps, WaitStatus, CancelSteps
<1>1. \A w : Resumed(w) \in WaitStatus
  BY DEF Resumed
<1>2. ASSUME NEW c \in Cancelers, Exchange(c) PROVE CancelTypeOK'
  BY <1>2 DEF Exchange, StateAfterCancel
<1>3. ASSUME NEW c \in Cancelers, ResumeWaiter(c) PROVE CancelTypeOK'
  BY <1>1, <1>3 DEF ResumeWaiter, bodyVars
<1>4. ASSUME NEW w \in Waits, BeginWait(w) PROVE CancelTypeOK'
  BY <1>4 DEF BeginWait, bodyVars, cancelVars
<1>5. CASE ResetWaiter
  BY <1>5 DEF ResetWaiter, StateAfterReset, cancelVars
<1>6. CASE TakeOldWaiter
  BY <1>1, <1>6 DEF TakeOldWaiter, ResumeOldWaiter, cancelVars
<1>7. CASE StoreWaiter
  BY <1>7 DEF StoreWaiter, cancelVars
<1>8. CASE Register
  BY <1>8 DEF Register, cancelVars
<1> QED
  BY <1>2, <1>3, <1>4, <1>5, <1>6, <1>7, <1>8, Zenon DEF Next, Cancel, Body

LEMMA StateStep ==
  ASSUME CancelTypeOK, StateInv, Next
  PROVE  StateInv'
<1> USE DEF CancelTypeOK, CancelStates, StateInv
<1>1. ASSUME NEW c \in Cancelers, Exchange(c) PROVE StateInv'
  BY <1>1 DEF Exchange, StateAfterCancel
<1>2. ASSUME NEW c \in Cancelers, ResumeWaiter(c) PROVE StateInv'
  BY <1>2 DEF ResumeWaiter, bodyVars
<1>3. ASSUME NEW w \in Waits, BeginWait(w) PROVE StateInv'
  BY <1>3 DEF BeginWait, bodyVars, cancelVars
<1>4. CASE ResetWaiter
  BY <1>4 DEF ResetWaiter, StateAfterReset, cancelVars
<1>5. CASE TakeOldWaiter
  BY <1>5 DEF TakeOldWaiter, ResumeOldWaiter, cancelVars
<1>6. CASE StoreWaiter
  BY <1>6 DEF StoreWaiter, cancelVars
<1>7. CASE Register
  BY <1>7 DEF Register, cancelVars
<1> QED
  BY <1>1, <1>2, <1>3, <1>4, <1>5, <1>6, <1>7, Zenon DEF Next, Cancel, Body

\* As long as no wait is written under a cancel(), the right to resume the
\* registered wait passes from hand to hand.
LEMMA WaiterStep ==
  ASSUME CancelTypeOK, StateInv, CurrentInv, WaiterInv, Next, ~overlapped'
  PROVE  CurrentInv' /\ WaiterInv'
<1> USE DEF CancelTypeOK, CancelStates, StateInv, CurrentInv, WaiterInv, Registered, Resuming
<1>1. ASSUME NEW c \in Cancelers, Exchange(c) PROVE CurrentInv' /\ WaiterInv'
  BY <1>1 DEF Exchange, StateAfterCancel, SomebodyWaits
<1>2. ASSUME NEW c \in Cancelers, ResumeWaiter(c) PROVE CurrentInv' /\ WaiterInv'
  BY <1>2 DEF ResumeWaiter, bodyVars, Resumed
<1>3. ASSUME NEW w \in Waits, BeginWait(w) PROVE CurrentInv' /\ WaiterInv'
  BY <1>3 DEF BeginWait, bodyVars, cancelVars
<1>4. CASE ResetWaiter
  BY <1>4 DEF ResetWaiter, StateAfterReset, cancelVars
<1>5. CASE TakeOldWaiter
  BY <1>5 DEF TakeOldWaiter, ResumeOldWaiter, cancelVars, Resumed
<1>6. CASE StoreWaiter
  BY <1>6 DEF StoreWaiter, cancelVars
<1>7. CASE Register
  BY <1>7 DEF Register, cancelVars
<1> QED
  BY <1>1, <1>2, <1>3, <1>4, <1>5, <1>6, <1>7, Zenon DEF Next, Cancel, Body

\* The ghost, once set, stays.
LEMMA OverlapStays ==
  ASSUME CancelTypeOK, overlapped, Next
  PROVE  overlapped'
BY DEF CancelTypeOK, Next, Cancel, Body, Exchange, ResumeWaiter, BeginWait, ResetWaiter, TakeOldWaiter,
   StoreWaiter, Register

LEMMA CancelStep ==
  ASSUME CancelTypeOK, CancelInv, [Next]_vars
  PROVE  CancelTypeOK' /\ CancelInv'
<1>1. CASE Next
  BY <1>1, CancelTyped, StateStep, WaiterStep, OverlapStays DEF CancelInv
<1>2. CASE UNCHANGED vars
  BY <1>2, Zenon DEF vars, bodyVars, cancelVars, CancelTypeOK, CancelInv, StateInv, CurrentInv, WaiterInv,
     Registered, Resuming
<1> QED
  BY <1>1, <1>2

-----------------------------------------------------------------------------
(* The coroutine and its owner *)

\* Every step of the whole is a step of cancel() and the waits, or none.
LEMMA CancelPart == [FutureNext]_allVars => [Next]_vars
<1> USE DEF allVars
<1>1. Coroutine => [Next]_vars
  BY DEF Coroutine, BodyReturns, FinalCancel, FinalAwaiter, Next
<1>2. ASSUME NEW c \in Callers, CallsCancel(c) \/ CancelReturns(c) PROVE Next
  BY <1>2 DEF Callers, CallsCancel, CancelReturns, Next, Cancel
<1> QED
  BY <1>1, <1>2 DEF FutureNext, BodyWaits, Owner, OwnerWaits, OwnerDestroys, OwnerTimesOut, Through, Next

CoroutineStep == F!Return \/ F!FinalSuspend \/ F!SetValid \/ F!Notify \/ F!ResumeCaller
OwnerStep ==
  \/ F!Wait \/ F!BeginAwait \/ F!AwaitReady \/ F!SetCaller \/ F!Get \/ F!TimeOut
  \/ F!BeginDestructor \/ F!DestructorWaits \/ F!Destroy

LEMMA FutureTyped ==
  ASSUME FutureTypeOK, CoroutineStep \/ OwnerStep
  PROVE  FutureTypeOK'
<1> USE DEF FutureTypeOK, CoroutineSteps, OwnerSteps, F!Outcomes, F!promiseVars, F!ownerVars
<1>1. CASE CoroutineStep
  BY <1>1 DEF CoroutineStep, F!Return, F!FinalSuspend, F!SetValid, F!Notify, F!ResumeCaller
<1>2. CASE OwnerStep
  BY <1>2 DEF OwnerStep, F!Wait, F!BeginAwait, F!AwaitReady, F!SetCaller, F!Get, F!TimeOut,
     F!BeginDestructor, F!DestructorWaits, F!Destroy
<1> QED
  BY <1>1, <1>2

\* A step of the coroutine: the body returns between two waits, and the final
\* awaiter comes after the last cancel().
LEMMA CoroutineInv ==
  ASSUME CancelTypeOK, FutureTypeOK, FutureInv, UNCHANGED vars, CoroutineStep,
         f_coroutine = "body" => bpc = "body",
         f_coroutine = "returned" => FinalCancelReturned
  PROVE  FutureInv'
<1> USE DEF FutureInv, EndInv, OwnerInv, vars, bodyVars, cancelVars, F!promiseVars, F!ownerVars,
            FutureTypeOK, CoroutineSteps, OwnerSteps
<1>1. CASE F!Return
  BY <1>1 DEF F!Return, F!Outcomes
<1>2. CASE F!FinalSuspend
  BY <1>2 DEF F!FinalSuspend, FinalCancelReturned
<1>3. CASE F!SetValid
  BY <1>3 DEF F!SetValid
<1>4. CASE F!Notify
  BY <1>4 DEF F!Notify
<1>5. CASE F!ResumeCaller
  BY <1>5 DEF F!ResumeCaller, F!Calls
<1> QED
  BY <1>1, <1>2, <1>3, <1>4, <1>5 DEF CoroutineStep

\* A step of the owner, who destroys the frame when nobody is in cancel().
LEMMA OwnerStepInv ==
  ASSUME CancelTypeOK, FutureTypeOK, FutureInv, UNCHANGED vars, OwnerStep,
         F!Destroy => \A c \in Callers : cpc[c] # "resume"
  PROVE  FutureInv'
<1> USE DEF FutureInv, EndInv, OwnerInv, vars, bodyVars, cancelVars, F!promiseVars, F!ownerVars,
            FutureTypeOK, CoroutineSteps, OwnerSteps
<1>1. CASE F!Wait \/ F!Get \/ F!BeginDestructor \/ F!DestructorWaits
  BY <1>1 DEF F!Wait, F!Get, F!BeginDestructor, F!DestructorWaits
<1>2. CASE F!TimeOut \/ F!BeginAwait
  BY <1>2 DEF F!TimeOut, F!BeginAwait
<1>3. CASE F!AwaitReady
  BY <1>3 DEF F!AwaitReady, F!IsReady, F!Done
<1>4. CASE F!SetCaller
  BY <1>4 DEF F!SetCaller
<1>5. CASE F!Destroy
  BY <1>5 DEF F!Destroy
<1> QED
  BY <1>1, <1>2, <1>3, <1>4, <1>5 DEF OwnerStep

LEMMA FutureStep ==
  ASSUME Inv, FutureNext
  PROVE  FutureTypeOK' /\ FutureInv'
<1> USE DEF Inv
<1> DEFINE Goal == FutureTypeOK' /\ FutureInv'
<1>1. CASE BodyWaits
  <2>1. UNCHANGED futureVars /\ UNCHANGED cpc /\ f_coroutine = "body" /\ bpc' \in BodySteps \ {"ended"}
    BY <1>1 DEF BodyWaits, Body, BeginWait, ResetWaiter, TakeOldWaiter, StoreWaiter, Register, bodyVars,
       cancelVars, BodySteps, FutureInv, EndInv
  <2> QED
    BY <2>1 DEF futureVars, FutureTypeOK, FutureInv, EndInv, OwnerInv
<1>2. CASE BodyReturns
  BY <1>2, FutureTyped, CoroutineInv DEF BodyReturns, CoroutineStep, F!Return
<1>3. CASE FinalCancel
  <2>1. UNCHANGED futureVars /\ f_coroutine = "returned"
    BY <1>3 DEF FinalCancel
  <2>2. cpc' = [cpc EXCEPT ![Final] = cpc'[Final]] /\ cpc'[Final] # "new" /\ bpc' = "ended"
    BY <1>3 DEF FinalCancel, Cancel, Exchange, ResumeWaiter, bodyVars, CancelTypeOK, FutureInv, EndInv
  <2> QED
    BY <2>1, <2>2 DEF futureVars, FutureTypeOK, FutureInv, EndInv, OwnerInv, Callers, CancelTypeOK
<1>4. CASE FinalAwaiter
  BY <1>4, FutureTyped, CoroutineInv DEF FinalAwaiter, CoroutineStep, F!FinalSuspend, F!SetValid, F!Notify,
     F!ResumeCaller
<1>5. CASE OwnerWaits \/ OwnerTimesOut
  <2>1. OwnerStep /\ UNCHANGED vars /\ ~F!Destroy
    BY <1>5 DEF OwnerWaits, OwnerTimesOut, OwnerStep, F!Wait, F!BeginAwait, F!AwaitReady, F!SetCaller, F!Get,
       F!DestructorWaits, F!TimeOut, F!Destroy
  <2> QED
    BY <2>1, FutureTyped, OwnerStepInv
<1>6. CASE OwnerDestroys
  BY <1>6, FutureTyped, OwnerStepInv DEF OwnerDestroys, OwnerStep
<1>7. ASSUME NEW c \in Callers, CallsCancel(c) \/ CancelReturns(c) PROVE Goal
  <2>1. UNCHANGED futureVars /\ UNCHANGED bpc /\ c \in Cancelers /\ c # Final
    BY <1>7 DEF CallsCancel, CancelReturns, Exchange, ResumeWaiter, bodyVars, Callers
  <2>2. cpc' = [cpc EXCEPT ![c] = cpc'[c]] /\ (f_owner = "gone" => cpc'[c] = "done")
    BY <1>7 DEF CallsCancel, CancelReturns, Exchange, ResumeWaiter, CancelTypeOK, Callers
  <2> QED
    BY <2>1, <2>2 DEF futureVars, FutureTypeOK, FutureInv, EndInv, OwnerInv, Callers, CancelTypeOK
<1>8. CASE Through
  BY <1>8 DEF Through, allVars, vars, futureVars, bodyVars, cancelVars, FutureTypeOK, FutureInv, EndInv,
     OwnerInv
<1> QED
  BY <1>1, <1>2, <1>3, <1>4, <1>5, <1>6, <1>7, <1>8, Zenon DEF FutureNext, Coroutine, Owner

LEMMA InvStep == Inv /\ [FutureNext]_allVars => Inv'
<1> SUFFICES ASSUME Inv, [FutureNext]_allVars PROVE Inv'
  OBVIOUS
<1>1. CancelTypeOK' /\ CancelInv'
  BY CancelPart, CancelStep DEF Inv
<1>2. CASE FutureNext
  BY <1>1, <1>2, FutureStep DEF Inv
<1>3. CASE UNCHANGED allVars
  BY <1>1, <1>3 DEF Inv, allVars, vars, futureVars, bodyVars, cancelVars, FutureTypeOK, FutureInv, EndInv,
     OwnerInv
<1> QED
  BY <1>2, <1>3

-----------------------------------------------------------------------------
(* Theorems *)

\* Throughout, one actor at most is left to resume the registered wait, and the
\* coroutine's end comes in the order of return_value() and final_suspend().
THEOREM FutureInvariant == FutureSpec => []Inv
BY InitInv, InvStep, PTL DEF FutureSpec

\* wait(), await_ready() and the final awaiter let the owner go on only when
\* return_value() or unhandled_exception() has left a result.
THEOREM FindsResult == FutureSpec => []GetFindsResult
<1>1. Inv => GetFindsResult
  BY DEF Inv, FutureInv, EndInv, OwnerInv, GetFindsResult, F!GetFindsResult
<1> QED
  BY <1>1, FutureInvariant, PTL

\* The cancel() of final_suspend leaves no wait_cancel() behind: when the owner
\* goes on, a wait that is still suspended is the one that another cancel(),
\* which is not through, is about to resume.
THEOREM NobodyLeft == FutureSpec => []NobodyLeftWaiting
<1>1. Inv => NobodyLeftWaiting
  <2> SUFFICES ASSUME Inv, f_owner \in {"ready", "got", "gone"}, ~overlapped,
                      NEW w \in Waits, status[w] = "suspended"
               PROVE  f_frame = "alive" /\ m_waiter = w /\ \E c \in Callers : cpc[c] = "resume"
    BY Zenon DEF NobodyLeftWaiting
  <2>1. cpc[Final] = "done"
    BY DEF Inv, FutureInv, EndInv, OwnerInv
  <2>2. m_state = "eCanceled" /\ bpc = "ended"
    BY <2>1 DEF Inv, CancelInv, StateInv, FutureInv, EndInv
  <2>3. m_waiter = w /\ Resuming
    BY <2>2 DEF Inv, CancelInv, WaiterInv, Registered
  <2>4. PICK c \in Cancelers : cpc[c] = "resume"
    BY <2>3 DEF Resuming
  <2>5. c \in Callers
    BY <2>1, <2>4 DEF Callers
  <2> QED
    BY <2>3, <2>4, <2>5 DEF Inv, FutureInv, OwnerInv
<1> QED
  BY <1>1, FutureInvariant, PTL

\* cancel(), reset_waiter() and the final awaiter resume only what is suspended.
THEOREM ResumesSuspended == FutureSpec => OnlySuspendedResumed
<1>1. Inv => ResumedOnlySuspended
  BY DEF Inv, CancelInv, WaiterInv, ResumedOnlySuspended
<1>2. Inv /\ [FutureNext]_allVars => [F!CallerWasSuspended]_allVars
  <2> SUFFICES ASSUME Inv, FutureNext PROVE F!CallerWasSuspended
    OBVIOUS
  <2>1. CASE FinalAwaiter
    BY <2>1 DEF FinalAwaiter, F!CallerWasSuspended, F!FinalSuspend, F!SetValid, F!Notify, F!ResumeCaller,
       F!Calls, F!promiseVars, F!ownerVars, Inv, FutureInv, OwnerInv
  <2>2. CASE BodyReturns
    BY <2>2 DEF BodyReturns, F!Return, F!CallerWasSuspended
  <2>3. CASE OwnerWaits \/ OwnerTimesOut \/ OwnerDestroys
    BY <2>3 DEF OwnerWaits, OwnerTimesOut, OwnerDestroys, F!Wait, F!BeginAwait, F!AwaitReady, F!SetCaller,
       F!Get, F!DestructorWaits, F!TimeOut, F!BeginDestructor, F!Destroy, F!CallerWasSuspended
  <2>4. CASE UNCHANGED futureVars
    BY <2>4 DEF futureVars, F!CallerWasSuspended
  <2> QED
    BY <2>1, <2>2, <2>3, <2>4
       DEF FutureNext, BodyWaits, Coroutine, FinalCancel, Owner, CallsCancel, CancelReturns, Through, allVars
<1>3. Inv /\ Inv' /\ [FutureNext]_allVars => [ResumedOnlySuspended' /\ F!CallerWasSuspended]_allVars
  <2>1. Inv' => ResumedOnlySuspended'
    BY <1>1, PTL
  <2> QED
    BY <1>2, <2>1
<1> QED
  BY <1>3, FutureInvariant, PTL DEF FutureSpec, OnlySuspendedResumed

-----------------------------------------------------------------------------
(* WaitEach: the inductive invariant *)

Uncounted == {"co_await", "link", "count"}
RunnerSteps == Uncounted \cup {"exchange", "done"}
ConsumerSteps == {"ready", "peek", "suspended", "resumed", "done", "terminated"}
TailState == [pc : {"free", "store", "load", "peek", "exchange"}, stub : Nat]

EachTypeOK ==
  /\ remaining \in Nat
  /\ coroutine_addr \in Tails \cup {NoHandle} /\ buffered \in Tails \cup {NoHandle}
  /\ results \in Seq(Awaitables)
  /\ linked \in SUBSET Awaitables /\ got \in SUBSET Awaitables /\ lost \in SUBSET Awaitables
  /\ rpc \in [Awaitables -> RunnerSteps]
  /\ consumer \in ConsumerSteps
  /\ tail \in [Tails -> TailState]

\* The runners that are still counted.
CountInv == remaining = Cardinality({i \in Awaitables : rpc[i] \in Uncounted})

\* The queue holds the result of i.
Holds(i) == \E n \in 1..Len(results) : results[n] = i

\* Where the result of i is: with the runner until it has its place, in the
\* queue until it is dequeued, then delivered; visible before it is counted.
\* Or it was lost, because enqueue had no memory for it.
ResultInv ==
  /\ \A m, n \in 1..Len(results) : results[m] = results[n] => m = n
  /\ \A i \in Awaitables :
       /\ rpc[i] = "co_await" => ~Holds(i) /\ i \notin got \cup lost
       /\ rpc[i] = "link" => Holds(i) /\ i \notin linked
       /\ rpc[i] \notin {"co_await", "link"} => i \in got \cup linked \cup lost
       /\ i \in lost => ~Holds(i) /\ i \notin got
       /\ i \in linked => Holds(i)
       /\ i \in got => ~Holds(i)

\* The await_suspend calls that have not stored their handle.
Storing == {k \in Tails : tail[k].pc = "store"}

\* The suspended coroutine has one handle: about to be stored, in a store
\* buffer, or in coroutine_addr.  Nobody has a handle of a running one.
HandleInv ==
  /\ consumer = "suspended" <=> Storing # {} \/ coroutine_addr # NoHandle \/ buffered # NoHandle
  /\ \A j, k \in Storing : j = k
  /\ Storing # {} => coroutine_addr = NoHandle /\ buffered = NoHandle
  /\ coroutine_addr # NoHandle => buffered = NoHandle

EachInv == EachTypeOK /\ CountInv /\ ResultInv /\ HandleInv

LEMMA EachInitInv == EachInit => EachInv
<1> SUFFICES ASSUME EachInit PROVE EachInv
  OBVIOUS
<1> USE WaitEachAssumption DEF EachInit, WaitEachAssumption, Slot!Init, Queue!Init
<1>1. << >> \in Seq(Awaitables) /\ Len(<< >>) = 0
  BY EmptySeq
<1>2. remaining \in Nat
  BY FS_CardinalityType DEF Started
<1>3. EachTypeOK
  BY <1>1, <1>2 DEF EachTypeOK, RunnerSteps, Uncounted, ConsumerSteps, TailState
<1>4. CountInv
  <2>1. {i \in Awaitables : rpc[i] \in Uncounted} = Awaitables
    BY DEF Uncounted
  <2> QED
    BY <2>1 DEF CountInv, Started
<1>5. Storing = {}
  BY DEF Storing
<1> QED
  BY <1>1, <1>3, <1>4, <1>5 DEF EachInv, ResultInv, Holds, HandleInv

-----------------------------------------------------------------------------
(* WaitEach: the handle *)

\* Steps that leave the handle and the coroutine alone.
LEMMA HandleFrame ==
  ASSUME EachInv, UNCHANGED slotVars, Storing' = Storing, (consumer = "suspended") = (consumer' = "suspended")
  PROVE  HandleInv'
BY DEF EachInv, HandleInv, slotVars

\* Whoever exchanges coroutine_addr takes the only handle there is.
LEMMA HandleTaken ==
  ASSUME EachInv, NEW own \in BOOLEAN, Slot!Exchange(own), ResumeExchanged(own), Storing' = Storing
  PROVE  /\ HandleInv'
         /\ consumer' # consumer => consumer = "suspended" /\ consumer' = "resumed"
         /\ coroutine_addr' = NoHandle /\ buffered' \in {buffered, NoHandle}
BY DEF EachInv, EachTypeOK, HandleInv, Slot!Exchange, Slot!Exchanged, ResumeExchanged, ConsumerSteps

LEMMA TailMoves ==
  ASSUME EachInv, NEW k \in Tails, NEW q \in {"free", "store", "load", "peek", "exchange"}, NEW s \in Nat,
         tail' = [tail EXCEPT ![k] = [pc |-> q, stub |-> s]]
  PROVE  /\ tail' \in [Tails -> TailState]
         /\ Storing' = IF q = "store" THEN Storing \cup {k} ELSE Storing \ {k}
<1>1. tail \in [Tails -> TailState]
  BY DEF EachInv, EachTypeOK
<1>2. \A j \in Tails : tail'[j] = IF j = k THEN [pc |-> q, stub |-> s] ELSE tail[j]
  BY <1>1
<1>3. tail' \in [Tails -> TailState]
  BY <1>1 DEF TailState
<1>4. \A j \in Tails : j \in Storing' <=> IF j = k THEN q = "store" ELSE j \in Storing
  BY <1>2 DEF Storing
<1> QED
  BY <1>3, <1>4 DEF Storing

\* A step of await_suspend that sets the step only.
LEMMA TailProceeds ==
  ASSUME EachInv, NEW k \in Tails, NEW q \in {"free", "store", "load", "peek", "exchange"},
         tail' = [tail EXCEPT ![k].pc = q]
  PROVE  /\ tail' \in [Tails -> TailState]
         /\ Storing' = IF q = "store" THEN Storing \cup {k} ELSE Storing \ {k}
<1>1. tail \in [Tails -> TailState]
  BY DEF EachInv, EachTypeOK
<1>2. tail[k].stub \in Nat /\ [tail[k] EXCEPT !.pc = q] = [pc |-> q, stub |-> tail[k].stub]
  BY <1>1 DEF TailState
<1>3. tail' = [tail EXCEPT ![k] = [pc |-> q, stub |-> tail[k].stub]]
  BY <1>2
<1> QED
  BY <1>2, <1>3, TailMoves

LEMMA SuspendHandle ==
  ASSUME EachInv, NEW k \in Tails, Suspend(k)
  PROVE  HandleInv' /\ tail' \in [Tails -> TailState]
<1>1. tail' \in [Tails -> TailState] /\ Storing' = Storing \cup {k}
  BY TailProceeds DEF Suspend
<1> QED
  BY <1>1 DEF EachInv, HandleInv, Suspend, slotVars

LEMMA StoreHandleKeeps ==
  ASSUME EachInv, NEW k \in Tails, StoreHandle(k)
  PROVE  /\ HandleInv' /\ tail' \in [Tails -> TailState]
         /\ coroutine_addr' \in Tails \cup {NoHandle} /\ buffered' \in Tails \cup {NoHandle}
<1>1. tail' \in [Tails -> TailState] /\ Storing' = Storing \ {k}
  BY TailProceeds DEF StoreHandle
<1>2. k \in Storing /\ k # NoHandle
  BY WaitEachAssumption DEF StoreHandle, Storing, WaitEachAssumption
<1> QED
  BY <1>1, <1>2 DEF EachInv, EachTypeOK, HandleInv, StoreHandle, Slot!Store

LEMMA DrainKeeps ==
  ASSUME EachInv, Drain
  PROVE  /\ HandleInv'
         /\ coroutine_addr' \in Tails \cup {NoHandle} /\ buffered' \in Tails \cup {NoHandle}
<1>1. Storing' = Storing
  BY DEF Drain, Storing
<1> QED
  BY <1>1 DEF EachInv, EachTypeOK, HandleInv, Drain, Slot!Drain

-----------------------------------------------------------------------------
(* WaitEach: the results *)

\* Steps that leave the queue and what was delivered alone.
LEMMA ResultFrame ==
  ASSUME EachInv, UNCHANGED <<queueVars, rpc, got, lost>>
  PROVE  ResultInv'
BY DEF EachInv, ResultInv, Holds, queueVars

LEMMA RunnerProceeds ==
  ASSUME EachInv, NEW i \in Awaitables, NEW q \in RunnerSteps, rpc' = [rpc EXCEPT ![i] = q]
  PROVE  /\ rpc' \in [Awaitables -> RunnerSteps]
         /\ \A j \in Awaitables : rpc'[j] = IF j = i THEN q ELSE rpc[j]
BY DEF EachInv, EachTypeOK

\* A runner that is counted, or not, before and after its step.
LEMMA CountFrame ==
  ASSUME EachInv, remaining' = remaining,
         \A i \in Awaitables : rpc[i] \in Uncounted <=> rpc'[i] \in Uncounted
  PROVE  CountInv'
<1>1. {i \in Awaitables : rpc'[i] \in Uncounted} = {i \in Awaitables : rpc[i] \in Uncounted}
  OBVIOUS
<1> QED
  BY <1>1 DEF EachInv, CountInv

LEMMA EnqueueKeeps ==
  ASSUME EachInv, NEW i \in Awaitables, EnqueueResult(i)
  PROVE  EachInv'
<1>1. /\ rpc[i] = "co_await" /\ results' = Append(results, i) /\ rpc' = [rpc EXCEPT ![i] = "link"]
      /\ \A n \in DOMAIN results : results[n] # i
      /\ UNCHANGED <<linked, remaining, coroutine_addr, buffered, consumer, got, lost, tail>>
  BY DEF EnqueueResult, Queue!Claim, slotVars
<1>2. results \in Seq(Awaitables) /\ linked \in SUBSET Awaitables /\ ResultInv
  BY DEF EachInv, EachTypeOK
<1>3. /\ results' \in Seq(Awaitables)
      /\ Len(results) \in Nat /\ Len(results') = Len(results) + 1
      /\ \A n \in 1..Len(results) : results'[n] = results[n] /\ results[n] # i
      /\ results'[Len(results) + 1] = i
  BY <1>1, <1>2, AppendProperties, LenProperties
<1>4. rpc' \in [Awaitables -> RunnerSteps] /\ \A j \in Awaitables : rpc'[j] = IF j = i THEN "link" ELSE rpc[j]
  BY <1>1, RunnerProceeds DEF RunnerSteps, Uncounted
<1>5. \A n \in 1..Len(results') : n \in 1..Len(results) \/ n = Len(results) + 1
  BY <1>3
<1>6. Len(results) + 1 \in 1..Len(results') /\ 1..Len(results) \subseteq 1..Len(results')
  BY <1>3
<1>7. \A j \in Awaitables : Holds(j)' <=> Holds(j) \/ j = i
  BY <1>3, <1>5, <1>6 DEF Holds
<1>8. \A m, n \in 1..Len(results') : results'[m] = results'[n] => m = n
  BY <1>2, <1>3, <1>5 DEF ResultInv
<1>9. ResultInv'
  BY <1>1, <1>2, <1>4, <1>7, <1>8 DEF ResultInv
<1>10. CountInv'
  BY <1>1, <1>4, CountFrame DEF Uncounted
<1>11. HandleInv'
  BY <1>1, HandleFrame DEF Storing, slotVars
<1> QED
  BY <1>1, <1>3, <1>4, <1>9, <1>10, <1>11 DEF EachInv, EachTypeOK

LEMMA FailKeeps ==
  ASSUME EachInv, NEW i \in Awaitables, EnqueueFails(i)
  PROVE  EachInv'
<1>1. /\ rpc[i] = "co_await" /\ lost' = lost \cup {i} /\ rpc' = [rpc EXCEPT ![i] = "count"]
      /\ UNCHANGED <<results, linked, remaining, coroutine_addr, buffered, consumer, got, tail>>
  BY DEF EnqueueFails, slotVars, queueVars
<1>2. rpc' \in [Awaitables -> RunnerSteps] /\ \A j \in Awaitables : rpc'[j] = IF j = i THEN "count" ELSE rpc[j]
  BY <1>1, RunnerProceeds DEF RunnerSteps, Uncounted
<1>3. \A j \in Awaitables : Holds(j)' <=> Holds(j)
  BY <1>1 DEF Holds
<1>4. ResultInv'
  BY <1>1, <1>2, <1>3 DEF EachInv, ResultInv
<1>5. CountInv'
  BY <1>1, <1>2, CountFrame DEF Uncounted
<1>6. HandleInv'
  BY <1>1, HandleFrame DEF Storing, slotVars
<1> QED
  BY <1>1, <1>2, <1>4, <1>5, <1>6 DEF EachInv, EachTypeOK

LEMMA LinkKeeps ==
  ASSUME EachInv, NEW i \in Awaitables, LinkResult(i)
  PROVE  EachInv'
<1>1. /\ rpc[i] = "link" /\ linked' = linked \cup {i} /\ rpc' = [rpc EXCEPT ![i] = "count"]
      /\ UNCHANGED <<results, remaining, coroutine_addr, buffered, consumer, got, lost, tail>>
  BY DEF LinkResult, Queue!Publish, slotVars
<1>2. rpc' \in [Awaitables -> RunnerSteps] /\ \A j \in Awaitables : rpc'[j] = IF j = i THEN "count" ELSE rpc[j]
  BY <1>1, RunnerProceeds DEF RunnerSteps, Uncounted
<1>3. \A j \in Awaitables : Holds(j)' <=> Holds(j)
  BY <1>1 DEF Holds
<1>4. ResultInv'
  BY <1>1, <1>2, <1>3 DEF EachInv, ResultInv
<1>5. CountInv'
  BY <1>1, <1>2, CountFrame DEF Uncounted
<1>6. HandleInv'
  BY <1>1, HandleFrame DEF Storing, slotVars
<1> QED
  BY <1>1, <1>2, <1>4, <1>5, <1>6 DEF EachInv, EachTypeOK

LEMMA CountDownKeeps ==
  ASSUME EachInv, NEW i \in Awaitables, CountDown(i)
  PROVE  EachInv'
<1> DEFINE S == {j \in Awaitables : rpc[j] \in Uncounted}
<1>1. /\ rpc[i] = "count" /\ remaining' = remaining - 1 /\ rpc' = [rpc EXCEPT ![i] = "exchange"]
      /\ UNCHANGED <<results, linked, coroutine_addr, buffered, consumer, got, lost, tail>>
  BY DEF CountDown, slotVars, queueVars
<1>2. /\ rpc' \in [Awaitables -> RunnerSteps]
      /\ \A j \in Awaitables : rpc'[j] = IF j = i THEN "exchange" ELSE rpc[j]
  BY <1>1, RunnerProceeds DEF RunnerSteps
<1>3. ResultInv'
  BY <1>1, <1>2 DEF EachInv, ResultInv, Holds
<1>4. IsFiniteSet(S) /\ i \in S
  BY <1>1, FS_Subset, WaitEachAssumption DEF WaitEachAssumption, Uncounted
<1>5. {j \in Awaitables : rpc'[j] \in Uncounted} = S \ {i}
  BY <1>2 DEF Uncounted
<1>6. Cardinality(S \ {i}) = Cardinality(S) - 1 /\ Cardinality(S \ {i}) \in Nat
  BY <1>4, FS_RemoveElement, FS_CardinalityType
<1>7. remaining' \in Nat /\ CountInv'
  BY <1>1, <1>5, <1>6 DEF EachInv, CountInv
<1>8. HandleInv'
  BY <1>1, HandleFrame DEF Storing, slotVars
<1> QED
  BY <1>1, <1>2, <1>3, <1>7, <1>8 DEF EachInv, EachTypeOK

LEMMA RunnerResumesKeeps ==
  ASSUME EachInv, NEW i \in Awaitables, RunnerResumes(i)
  PROVE  EachInv' /\ (consumer' # consumer => consumer = "suspended")
<1>1. /\ rpc[i] = "exchange" /\ rpc' = [rpc EXCEPT ![i] = "done"]
      /\ Slot!Exchange(FALSE) /\ ResumeExchanged(FALSE)
      /\ UNCHANGED <<results, linked, remaining, got, lost, tail>>
  BY DEF RunnerResumes, queueVars
<1>2. rpc' \in [Awaitables -> RunnerSteps] /\ \A j \in Awaitables : rpc'[j] = IF j = i THEN "done" ELSE rpc[j]
  BY <1>1, RunnerProceeds DEF RunnerSteps
<1>3. ResultInv'
  BY <1>1, <1>2 DEF EachInv, ResultInv, Holds
<1>4. CountInv'
  BY <1>1, <1>2, CountFrame DEF Uncounted
<1>5. /\ HandleInv' /\ (consumer' # consumer => consumer = "suspended" /\ consumer' = "resumed")
      /\ coroutine_addr' = NoHandle /\ buffered' \in {buffered, NoHandle}
  <2>1. Storing' = Storing
    BY <1>1 DEF Storing
  <2> QED
    BY <1>1, <2>1, HandleTaken
<1> QED
  BY <1>1, <1>2, <1>3, <1>4, <1>5 DEF EachInv, EachTypeOK, ConsumerSteps

-----------------------------------------------------------------------------
(* WaitEach: the awaiting coroutine *)

LEMMA TailResumesKeeps ==
  ASSUME EachInv, NEW k \in Tails, TailResumes(k)
  PROVE  EachInv' /\ (consumer' # consumer => consumer = "suspended")
<1> DEFINE own == buffered = k
<1>1. /\ tail[k].pc = "exchange" /\ tail' = [tail EXCEPT ![k].pc = "free"]
      /\ Slot!Exchange(own) /\ ResumeExchanged(own)
      /\ UNCHANGED <<results, linked, remaining, got, lost, rpc>>
  BY DEF TailResumes, queueVars
<1>2. tail' \in [Tails -> TailState] /\ Storing' = Storing
  BY <1>1, TailProceeds DEF Storing
<1>3. /\ HandleInv' /\ (consumer' # consumer => consumer = "suspended" /\ consumer' = "resumed")
      /\ coroutine_addr' = NoHandle /\ buffered' \in {buffered, NoHandle}
  <2>1. own \in BOOLEAN
    OBVIOUS
  <2> HIDE DEF own
  <2> QED
    BY <1>1, <1>2, <2>1, HandleTaken
<1>4. ResultInv'
  BY <1>1, ResultFrame DEF queueVars
<1>5. CountInv'
  BY <1>1, CountFrame
<1> QED
  BY <1>1, <1>2, <1>3, <1>4, <1>5 DEF EachInv, EachTypeOK, ConsumerSteps

\* The other steps of await_suspend, and of the store buffer.
LEMMA AwaitSuspendKeeps ==
  ASSUME EachInv, NEW k \in Tails, Suspend(k) \/ StoreHandle(k) \/ TailLoadHead(k) \/ TailPeek(k)
  PROVE  EachInv'
<1>1. /\ UNCHANGED <<results, linked, remaining, got, lost, rpc>>
      /\ consumer' \in {consumer, "suspended"}
  BY DEF Suspend, StoreHandle, TailLoadHead, TailPeek, queueVars
<1>2. ResultInv' /\ CountInv'
  BY <1>1, ResultFrame, CountFrame DEF queueVars
<1>3. /\ HandleInv' /\ tail' \in [Tails -> TailState]
      /\ coroutine_addr' \in Tails \cup {NoHandle} /\ buffered' \in Tails \cup {NoHandle}
  <2>0. EachTypeOK
    BY DEF EachInv
  <2>1. CASE Suspend(k)
    BY <2>0, <2>1, SuspendHandle DEF EachTypeOK, Suspend, slotVars
  <2>2. CASE StoreHandle(k)
    BY <2>2, StoreHandleKeeps
  <2>3. CASE TailLoadHead(k)
    <3>1. Stub \in Nat
      BY <2>0, FS_Subset, FS_CardinalityType, WaitEachAssumption DEF EachTypeOK, Stub, WaitEachAssumption
    <3>2. tail' = [tail EXCEPT ![k] = [pc |-> "peek", stub |-> Stub]] /\ k \notin Storing
      BY <2>3 DEF TailLoadHead, Storing
    <3>3. tail' \in [Tails -> TailState] /\ Storing' = Storing
      <4>1. tail' \in [Tails -> TailState] /\ Storing' = Storing \ {k}
        BY <3>1, <3>2, TailMoves
      <4> QED
        BY <3>2, <4>1
    <3>4. UNCHANGED slotVars /\ consumer' = consumer
      BY <2>3 DEF TailLoadHead
    <3> QED
      BY <2>0, <3>3, <3>4, HandleFrame DEF EachTypeOK, slotVars
  <2>4. CASE TailPeek(k)
    <3>1. PICK nonempty \in SeesNext(k) :
            tail' = [tail EXCEPT ![k] = [pc |-> IF nonempty THEN "exchange" ELSE "free", stub |-> 0]]
      BY <2>4 DEF TailPeek
    <3>2. PICK q \in {"free", "exchange"} : tail' = [tail EXCEPT ![k] = [pc |-> q, stub |-> 0]]
      BY <3>1
    <3>3. k \notin Storing
      BY <2>4 DEF TailPeek, Storing
    <3>4. tail' \in [Tails -> TailState] /\ Storing' = Storing
      <4>1. tail' \in [Tails -> TailState] /\ Storing' = Storing \ {k}
        <5>1. q \in {"free", "store", "load", "peek", "exchange"} /\ q # "store" /\ 0 \in Nat
          OBVIOUS
        <5> QED
          BY <3>2, <5>1, TailMoves
      <4> QED
        BY <3>3, <4>1
    <3>5. UNCHANGED slotVars /\ consumer' = consumer
      BY <2>4 DEF TailPeek
    <3> QED
      BY <2>0, <3>4, <3>5, HandleFrame DEF EachTypeOK, slotVars
  <2> QED
    BY <2>1, <2>2, <2>3, <2>4
<1> QED
  BY <1>1, <1>2, <1>3 DEF EachInv, EachTypeOK, ConsumerSteps

\* try_dequeue() takes the result that is in front.
LEMMA ReceiveKeeps ==
  ASSUME EachInv, NEW i \in Awaitables, Receive(i)
  PROVE  EachInv'
<1>1. /\ consumer = "resumed" /\ consumer' \in {"done", "ready"}
      /\ results # << >> /\ i = Head(results) /\ i \in linked
      /\ results' = Tail(results) /\ linked' = linked \ {i} /\ got' = got \cup {i}
      /\ UNCHANGED <<remaining, coroutine_addr, buffered, rpc, lost, tail>>
  BY DEF Receive, Queue!Take, Queue!FrontVisible, slotVars
<1>2. results \in Seq(Awaitables) /\ linked \in SUBSET Awaitables /\ got \in SUBSET Awaitables /\ ResultInv
  BY DEF EachInv, EachTypeOK
<1>3. /\ results' \in Seq(Awaitables)
      /\ Len(results) \in Nat \ {0} /\ Len(results') = Len(results) - 1
      /\ \A n \in 1..Len(results') : results'[n] = results[n + 1]
      /\ results[1] = i
  <2>1. Len(results) \in Nat \ {0} /\ results[1] = i
    BY <1>1, <1>2, EmptySeq
  <2> QED
    BY <1>1, <1>2, <2>1, HeadTailProperties
<1>4. \A n \in 1..Len(results') : n \in Nat /\ n + 1 \in 1..Len(results) /\ n + 1 # 1
  BY <1>3
<1>5. \A m, n \in 1..Len(results') : results'[m] = results'[n] => m = n
  <2> SUFFICES ASSUME NEW m \in 1..Len(results'), NEW n \in 1..Len(results'), results'[m] = results'[n]
               PROVE  m = n
    OBVIOUS
  <2>1. m + 1 = n + 1
    BY <1>2, <1>3, <1>4 DEF ResultInv
  <2> QED
    BY <1>4, <2>1
<1>6. \A j \in Awaitables : Holds(j)' <=> Holds(j) /\ j # i
  <2> SUFFICES ASSUME NEW j \in Awaitables PROVE Holds(j)' <=> Holds(j) /\ j # i
    OBVIOUS
  <2>1. ASSUME Holds(j)' PROVE Holds(j) /\ j # i
    <3>1. PICK n \in 1..Len(results') : results'[n] = j
      BY <2>1 DEF Holds
    <3>2. results[n + 1] = j /\ n + 1 \in 1..Len(results) /\ n + 1 # 1 /\ 1 \in 1..Len(results)
      BY <1>3, <1>4, <3>1
    <3> QED
      BY <1>2, <1>3, <3>2 DEF Holds, ResultInv
  <2>2. ASSUME Holds(j), j # i PROVE Holds(j)'
    <3>1. PICK n \in 1..Len(results) : results[n] = j
      BY <2>2 DEF Holds
    <3>2. n - 1 \in 1..Len(results') /\ (n - 1) + 1 = n
      BY <1>3, <2>2, <3>1
    <3>3. results'[n - 1] = j
      BY <1>3, <3>1, <3>2
    <3> QED
      BY <3>2, <3>3 DEF Holds
  <2> QED
    BY <2>1, <2>2
<1>7. ResultInv'
  BY <1>1, <1>2, <1>5, <1>6 DEF ResultInv
<1>8. CountInv'
  BY <1>1, CountFrame
<1>9. HandleInv'
  BY <1>1, HandleFrame DEF Storing, slotVars
<1> QED
  BY <1>1, <1>2, <1>3, <1>7, <1>8, <1>9 DEF EachInv, EachTypeOK, ConsumerSteps

LEMMA ConsumerKeeps ==
  ASSUME EachInv, LoadRemaining \/ PeekReady \/ ReceiveNothing
  PROVE  EachInv'
<1>1. /\ UNCHANGED <<remaining, results, linked, coroutine_addr, buffered, rpc, got, lost, tail>>
      /\ consumer # "suspended" /\ consumer' # "suspended" /\ consumer' \in ConsumerSteps
  BY WaitEachAssumption DEF LoadRemaining, PeekReady, ReceiveNothing, queueVars, slotVars, ConsumerSteps,
     WaitEachAssumption
<1>2. ResultInv' /\ CountInv'
  BY <1>1, ResultFrame, CountFrame DEF queueVars
<1>3. HandleInv'
  BY <1>1, HandleFrame DEF Storing, slotVars
<1> QED
  BY <1>1, <1>2, <1>3 DEF EachInv, EachTypeOK

LEMMA EachInvStep == EachInv /\ [EachNext]_eachVars => EachInv'
<1> SUFFICES ASSUME EachInv, [EachNext]_eachVars PROVE EachInv'
  OBVIOUS
<1>1. ASSUME NEW i \in Awaitables, Runner(i) PROVE EachInv'
  BY <1>1, EnqueueKeeps, FailKeeps, LinkKeeps, CountDownKeeps, RunnerResumesKeeps DEF Runner, RunnerEnds
<1>2. ASSUME NEW k \in Tails, AwaitSuspend(k) PROVE EachInv'
  BY <1>2, AwaitSuspendKeeps, TailResumesKeeps DEF AwaitSuspend
<1>3. CASE Consume
  BY <1>3, ConsumerKeeps, AwaitSuspendKeeps, ReceiveKeeps DEF Consume
<1>4. CASE Drain
  <2>1. UNCHANGED <<remaining, results, linked, rpc, consumer, got, lost, tail>>
    BY <1>4 DEF Drain, queueVars
  <2>2. ResultInv' /\ CountInv'
    BY <2>1, ResultFrame, CountFrame DEF queueVars
  <2> QED
    BY <1>4, <2>1, <2>2, DrainKeeps DEF EachInv, EachTypeOK
<1>5. CASE UNCHANGED eachVars
  <2>1. UNCHANGED <<remaining, results, linked, coroutine_addr, buffered, rpc, consumer, got, lost, tail>>
    BY <1>5 DEF eachVars, queueVars, slotVars
  <2>2. ResultInv' /\ CountInv' /\ HandleInv'
    BY <2>1, ResultFrame, CountFrame, HandleFrame DEF queueVars, slotVars, Storing
  <2> QED
    BY <2>1, <2>2 DEF EachInv, EachTypeOK
<1> QED
  BY <1>1, <1>2, <1>3, <1>4, <1>5 DEF EachNext, Terminating

-----------------------------------------------------------------------------
(* WaitEach: the theorems *)

\* Throughout, a suspended coroutine has exactly one handle on its way to
\* whoever resumes it and a running one has none, also while an earlier
\* await_suspend is still in progress and with stores in its thread's buffer;
\* and each result is in one place, unless enqueue had no memory for it.
THEOREM EachInvariant == EachSpec => []EachInv
BY EachInitInv, EachInvStep, PTL DEF EachSpec

\* await_ready() takes remaining = 0 for "nothing more to wait for", and it is:
\* the runner counts down after its result is visible, or when enqueue had no
\* memory for it and the result is lost.
THEOREM AllAccounted == EachSpec => []NoneRemaining
<1>1. EachInv => NoneRemaining
  <2> SUFFICES ASSUME EachInv, remaining = 0
               PROVE  /\ Awaitables = got \cup linked \cup lost
                      /\ got \cap linked = {} /\ lost \cap (got \cup linked) = {}
    BY DEF NoneRemaining
  <2> DEFINE S == {i \in Awaitables : rpc[i] \in Uncounted}
  <2>1. S = {}
    <3>1. IsFiniteSet(S)
      BY FS_Subset, WaitEachAssumption DEF WaitEachAssumption
    <3> QED
      BY <3>1, FS_EmptySet DEF EachInv, CountInv
  <2>2. \A i \in Awaitables : i \in got \cup linked \cup lost
    BY <2>1 DEF EachInv, ResultInv, Uncounted
  <2> QED
    BY <2>2 DEF EachInv, EachTypeOK, ResultInv
<1> QED
  BY <1>1, EachInvariant, PTL

\* "exchange保证不会重复唤醒" (awaitable.hpp:872): the exchange of a runner or of
\* await_suspend resumes the coroutine only while it is suspended.
THEOREM ExchangeResumesOnce == EachSpec => ResumesOnlyWhileSuspended
<1> DEFINE Resumes == consumer # "resumed" /\ consumer' = "resumed"
<1>1. EachInv /\ [EachNext]_eachVars =>
        [(tail' # tail \/ rpc' # rpc) /\ Resumes => consumer = "suspended"]_eachVars
  <2> SUFFICES ASSUME EachInv, EachNext, tail' # tail \/ rpc' # rpc, Resumes PROVE consumer = "suspended"
    OBVIOUS
  <2>1. ASSUME NEW i \in Awaitables, Runner(i) PROVE consumer = "suspended"
    BY <2>1, RunnerResumesKeeps DEF Runner, RunnerEnds, EnqueueResult, EnqueueFails, LinkResult, CountDown
  <2>2. ASSUME NEW k \in Tails, AwaitSuspend(k) PROVE consumer = "suspended"
    BY <2>2, TailResumesKeeps DEF AwaitSuspend, StoreHandle, TailLoadHead, TailPeek
  <2>3. ~Consume
    BY WaitEachAssumption DEF WaitEachAssumption, Consume, LoadRemaining, PeekReady, ReceiveNothing, Suspend, Receive
  <2>4. ~Drain /\ ~Terminating
    BY DEF Drain, Terminating, eachVars
  <2> QED
    BY <2>1, <2>2, <2>3, <2>4 DEF EachNext
<1>2. EachSpec => [][(tail' # tail \/ rpc' # rpc) /\ Resumes => consumer = "suspended"]_eachVars
  BY <1>1, EachInvariant, PTL DEF EachSpec
<1>3. ((tail' # tail \/ rpc' # rpc) /\ Resumes => consumer = "suspended")
        => (/\ tail' # tail \/ rpc' # rpc
            /\ consumer # "resumed" /\ consumer' = "resumed"
            => consumer = "suspended")
  OBVIOUS
<1> QED
  BY <1>2, <1>3, PTL DEF ResumesOnlyWhileSuspended
==============================================================================
