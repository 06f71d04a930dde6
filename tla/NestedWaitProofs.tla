--------------------------- MODULE NestedWaitProofs ---------------------------
(***************************************************************************)
(* For any finite set of awaited operations, and whether or not the        *)
(* stores of await_suspend may be delayed: wait_all is type correct, the   *)
(* awaiting coroutine goes on at most once, it then finds every result,    *)
(* and WaitAll implements AwaitSpec.  The same for a wait_all that is an   *)
(* operation of a wait_any of any other operations: the wait_any delivers  *)
(* its winner's result, and the two together implement AwaitSpec.          *)
(*                                                                         *)
(* The counter alone does not give the first part.  IInv adds that         *)
(* waiting_count is the number of runners that have not counted down, that *)
(* the handle is in one place at most and only while the coroutine is      *)
(* suspended, and that whoever is about to take it knows the count to be   *)
(* zero.  AnyInv is the like for wait_any, whose index is set before its   *)
(* result.                                                                 *)
(***************************************************************************)
EXTENDS NestedWait, FiniteSetTheorems, TLAPS

USE WaitAllAssumption

\* The runners that have not executed fetch_sub.
Uncounted == {i \in Awaitables : rpc[i] \in {"co_await", "count"}}

\* waiting_count is the number of runners that have not counted down, each of
\* the others has stored its result.
CountInv ==
  /\ IsFiniteSet(Uncounted)
  /\ waiting_count = Cardinality(Uncounted)
  /\ \A i \in Awaitables : rpc[i] # "co_await" => result[i] # "none"

\* Only a suspended coroutine's handle is in the slot or in the store buffer,
\* and not in both.
HandleInv ==
  /\ coroutine_addr # Null \/ buffered # Null =>
       awaiter = "suspended" /\ tail \in {"check", "exchange", "done"}
  /\ buffered # Null => coroutine_addr = Null
  /\ tail = "none" => awaiter = "running"
  /\ tail = "store" => awaiter = "suspended"
  /\ awaiter = "running" => tail = "none"

\* Whoever may resume the coroutine has seen the count at zero.
ResumeInv ==
  /\ \A i \in Awaitables : rpc[i] = "exchange" => waiting_count = 0
  /\ tail = "exchange" => waiting_count = 0
  /\ awaiter = "resumed" => waiting_count = 0
  /\ resumes = IF awaiter = "resumed" THEN 1 ELSE 0

IInv == TypeOK /\ CountInv /\ HandleInv /\ ResumeInv

-----------------------------------------------------------------------------
(* Lemmas about wait_all *)

\* The runner that executes fetch_sub leaves one uncounted runner less.
LEMMA CountOne ==
  ASSUME IInv, NEW i \in Awaitables, CountDown(i)
  PROVE  /\ waiting_count \in Nat \ {0}
         /\ Uncounted' = Uncounted \ {i}
         /\ IsFiniteSet(Uncounted')
         /\ waiting_count' = Cardinality(Uncounted')
<1>1. i \in Uncounted /\ Uncounted' = Uncounted \ {i}
  BY DEF IInv, TypeOK, Uncounted, CountDown
<1>2. IsFiniteSet(Uncounted)
  BY DEF IInv, CountInv
<1>3. Cardinality(Uncounted) \in Nat /\ Cardinality(Uncounted \ {i}) \in Nat
  BY <1>2, FS_CardinalityType, FS_RemoveElement
<1>4. /\ IsFiniteSet(Uncounted \ {i})
      /\ Cardinality(Uncounted \ {i}) = Cardinality(Uncounted) - 1
  BY <1>1, <1>2, FS_RemoveElement
<1>5. waiting_count = Cardinality(Uncounted) /\ waiting_count' = waiting_count - 1
  BY DEF IInv, CountInv, CountDown
<1>6. IsFiniteSet(Uncounted') /\ Cardinality(Uncounted') = Cardinality(Uncounted \ {i})
  BY <1>1, <1>4, Zenon
<1> QED
  BY <1>1, <1>3, <1>4, <1>5, <1>6

\* When the count is zero, every runner has counted down.
LEMMA NoneUncounted ==
  ASSUME IInv, waiting_count = 0
  PROVE  \A i \in Awaitables : rpc[i] \in {"exchange", "done"}
<1>1. Uncounted = {}
  BY FS_EmptySet DEF IInv, CountInv
<1> QED
  BY <1>1 DEF IInv, TypeOK, Uncounted

\* An exchange that returns a handle found the coroutine suspended and its
\* store made, and the handle is nowhere afterwards.
LEMMA ExchangeOnce ==
  ASSUME IInv, NEW own \in BOOLEAN, Slot!Exchange(own), ResumeExchanged(own),
         awaiter = "resumed" \/ waiting_count = 0, own => tail = "exchange"
  PROVE  /\ awaiter' \in {"running", "suspended", "resumed"} /\ resumes' \in Nat
         /\ Slot!TypeOK'
         /\ coroutine_addr' = Null
         /\ buffered' # Null => buffered' = buffered /\ awaiter' = awaiter
         /\ awaiter' # awaiter => /\ awaiter = "suspended" /\ awaiter' = "resumed"
                                 /\ tail \in {"check", "exchange", "done"}
         /\ resumes' = IF awaiter' = "resumed" THEN 1 ELSE 0
<1>1. CASE Slot!Exchanged(own) # Null
  <2>1. awaiter = "suspended" /\ tail \in {"check", "exchange", "done"}
    BY <1>1 DEF IInv, HandleInv, Slot!Exchanged
  <2>2. awaiter' = "resumed" /\ resumes' = resumes + 1
    BY <1>1 DEF ResumeExchanged, GoOn
  <2>3. own \/ buffered = Null
    BY <1>1 DEF IInv, HandleInv, Slot!Exchanged
  <2> QED
    BY <2>1, <2>2, <2>3 DEF IInv, TypeOK, ResumeInv, Slot!Exchange, Slot!TypeOK
<1>2. CASE Slot!Exchanged(own) = Null
  <2>1. awaiter' = awaiter /\ resumes' = resumes
    BY <1>2 DEF ResumeExchanged, awaiterVars
  <2> QED
    BY <2>1 DEF IInv, TypeOK, ResumeInv, Slot!Exchange, Slot!TypeOK
<1> QED
  BY <1>1, <1>2

-----------------------------------------------------------------------------
(* IInv is inductive *)

LEMMA InitIInv == Init => IInv
<1> SUFFICES ASSUME Init PROVE IInv
  OBVIOUS
<1>1. Uncounted = Awaitables /\ waiting_count = Cardinality(Awaitables)
  BY DEF Init, Uncounted, Started
<1>2. Cardinality(Awaitables) \in Nat /\ 0 \in Nat
  BY FS_CardinalityType
<1>3. IsFiniteSet(Uncounted) /\ waiting_count = Cardinality(Uncounted)
  BY <1>1, Zenon
<1>4. waiting_count \in 0..Cardinality(Awaitables)
  BY <1>1, <1>2
<1>5. Slot!TypeOK
  BY DEF Init, Slot!Init, Slot!TypeOK
<1> QED
  BY <1>3, <1>4, <1>5
     DEF Init, IInv, TypeOK, CountInv, HandleInv, ResumeInv, Slot!Init

\* Each action leaves its part of IInv intact.
LEMMA NextIInv == IInv /\ [Next]_vars => IInv'
<1> SUFFICES ASSUME IInv, [Next]_vars PROVE IInv'
  OBVIOUS
<1>1. ASSUME NEW i \in Awaitables, StoreResult(i) PROVE IInv'
  <2>1. Uncounted' = Uncounted
    BY <1>1 DEF StoreResult, Uncounted, IInv, TypeOK
  <2>2. TypeOK'
    BY <1>1 DEF StoreResult, IInv, TypeOK, Slot!TypeOK, slotVars, awaiterVars
  <2>3. IsFiniteSet(Uncounted') /\ waiting_count' = Cardinality(Uncounted')
    <3>1. waiting_count' = waiting_count
      BY <1>1 DEF StoreResult
    <3> QED
      BY <2>1, <3>1, Zenon DEF IInv, CountInv
  <2>4. \A j \in Awaitables : rpc'[j] # "co_await" => result'[j] # "none"
    BY <1>1 DEF StoreResult, IInv, TypeOK, CountInv
  <2>5. HandleInv' /\ ResumeInv'
    BY <1>1 DEF StoreResult, IInv, TypeOK, HandleInv, ResumeInv, slotVars, awaiterVars
  <2> QED
    BY <2>2, <2>3, <2>4, <2>5 DEF IInv, CountInv
<1>2. ASSUME NEW i \in Awaitables, CountDown(i) PROVE IInv'
  <2>1. /\ waiting_count \in Nat \ {0}
        /\ IsFiniteSet(Uncounted') /\ waiting_count' = Cardinality(Uncounted')
    BY <1>2, CountOne
  <2>2. TypeOK'
    <3>1. waiting_count' \in 0..Cardinality(Awaitables)
      BY <1>2, <2>1, FS_CardinalityType DEF CountDown, IInv, TypeOK
    <3>2. Slot!TypeOK'
      BY <1>2 DEF CountDown, IInv, TypeOK, Slot!TypeOK, slotVars
    <3> QED
      BY <1>2, <3>1, <3>2 DEF CountDown, IInv, TypeOK, awaiterVars
  <2>3. \A j \in Awaitables : rpc'[j] # "co_await" => result'[j] # "none"
    BY <1>2 DEF CountDown, IInv, TypeOK, CountInv
  <2>4. HandleInv'
    BY <1>2 DEF CountDown, IInv, HandleInv, slotVars, awaiterVars
  <2>5. ResumeInv'
    BY <1>2, <2>1 DEF CountDown, IInv, TypeOK, ResumeInv, IsLast, awaiterVars
  <2> QED
    BY <2>1, <2>2, <2>3, <2>4, <2>5 DEF IInv, CountInv
<1>3. ASSUME NEW i \in Awaitables, RunnerResumes(i) PROVE IInv'
  <2>1. waiting_count = 0
    BY <1>3 DEF RunnerResumes, IInv, ResumeInv
  <2>2. /\ awaiter' \in {"running", "suspended", "resumed"} /\ resumes' \in Nat
        /\ Slot!TypeOK'
        /\ coroutine_addr' = Null
        /\ buffered' # Null => buffered' = buffered /\ awaiter' = awaiter
        /\ awaiter' # awaiter => /\ awaiter = "suspended" /\ awaiter' = "resumed"
                                 /\ tail \in {"check", "exchange", "done"}
        /\ resumes' = IF awaiter' = "resumed" THEN 1 ELSE 0
    BY <1>3, <2>1, ExchangeOnce DEF RunnerResumes
  <2>3. Uncounted' = Uncounted
    BY <1>3 DEF RunnerResumes, Uncounted, IInv, TypeOK
  <2>4. TypeOK'
    BY <1>3, <2>2 DEF RunnerResumes, IInv, TypeOK
  <2>5. IsFiniteSet(Uncounted') /\ waiting_count' = Cardinality(Uncounted')
    <3>1. waiting_count' = waiting_count
      BY <1>3 DEF RunnerResumes
    <3> QED
      BY <2>3, <3>1, Zenon DEF IInv, CountInv
  <2>6. \A j \in Awaitables : rpc'[j] # "co_await" => result'[j] # "none"
    BY <1>3 DEF RunnerResumes, IInv, TypeOK, CountInv
  <2>7. HandleInv'
    BY <1>3, <2>2 DEF RunnerResumes, IInv, HandleInv
  <2>8. ResumeInv'
    BY <1>3, <2>1, <2>2 DEF RunnerResumes, IInv, ResumeInv
  <2> QED
    BY <2>4, <2>5, <2>6, <2>7, <2>8 DEF IInv, CountInv
<1>4. ASSUME Await \/ Drain \/ UNCHANGED vars PROVE IInv'
  <2>1. rpc' = rpc /\ waiting_count' = waiting_count /\ result' = result
    BY <1>4 DEF Await, AwaitReady, AwaitNotReady, StoreHandle, TailCheck, TailResumes, Drain, vars
  <2>2. Uncounted' = Uncounted
    BY <2>1 DEF Uncounted
  <2>3. CountInv'
    BY <2>1, <2>2, Zenon DEF IInv, CountInv
  <2>4. SUFFICES /\ awaiter' \in {"running", "suspended", "resumed"} /\ resumes' \in Nat
                 /\ tail' \in {"none", "store", "check", "exchange", "done"}
                 /\ Slot!TypeOK' /\ HandleInv' /\ ResumeInv'
    BY <2>1, <2>3 DEF IInv, TypeOK
  <2>5. CASE AwaitReady
    BY <2>1, <2>5 DEF AwaitReady, AllCounted, GoOn, slotVars, IInv, TypeOK, Slot!TypeOK,
                      HandleInv, ResumeInv
  <2>6. CASE AwaitNotReady
    BY <2>1, <2>6 DEF AwaitNotReady, slotVars, IInv, TypeOK, Slot!TypeOK, HandleInv, ResumeInv
  <2>7. CASE StoreHandle
    BY <2>1, <2>7 DEF StoreHandle, Slot!Store, awaiterVars, IInv, TypeOK, Slot!TypeOK,
                      HandleInv, ResumeInv
  <2>8. CASE TailCheck
    BY <2>1, <2>8 DEF TailCheck, AllCounted, slotVars, awaiterVars, IInv, TypeOK, Slot!TypeOK,
                      HandleInv, ResumeInv
  <2>9. CASE TailResumes
    <3>1. waiting_count = 0 /\ tail = "exchange" /\ tail' = "done"
      BY <2>9 DEF TailResumes, IInv, ResumeInv
    <3>2. /\ awaiter' \in {"running", "suspended", "resumed"} /\ resumes' \in Nat
          /\ Slot!TypeOK'
          /\ coroutine_addr' = Null
          /\ buffered' # Null => buffered' = buffered /\ awaiter' = awaiter
          /\ awaiter' # awaiter => /\ awaiter = "suspended" /\ awaiter' = "resumed"
                                 /\ tail \in {"check", "exchange", "done"}
          /\ resumes' = IF awaiter' = "resumed" THEN 1 ELSE 0
      BY <2>9, <3>1, ExchangeOnce DEF TailResumes
    <3> QED
      BY <2>1, <3>1, <3>2 DEF IInv, HandleInv, ResumeInv
  <2>10. CASE Drain
    BY <2>1, <2>10 DEF Drain, Slot!Drain, awaiterVars, IInv, TypeOK, Slot!TypeOK,
                       HandleInv, ResumeInv
  <2>11. CASE UNCHANGED vars
    BY <2>11 DEF vars, slotVars, awaiterVars, IInv, TypeOK, Slot!TypeOK, HandleInv, ResumeInv
  <2> QED
    BY <1>4, <2>5, <2>6, <2>7, <2>8, <2>9, <2>10, <2>11 DEF Await
<1> QED
  BY <1>1, <1>2, <1>3, <1>4 DEF Next, Runner, Terminating

\* IInv holds throughout.
THEOREM WaitAllInvariant == Spec => []IInv
  BY InitIInv, NextIInv, PTL DEF Spec

-----------------------------------------------------------------------------
(* What follows for wait_all *)

\* The words and program counters of wait_all keep their types; in particular
\* waiting_count never wraps below zero.
THEOREM TypeCorrect == Spec => []TypeOK
<1>1. IInv => TypeOK
  BY DEF IInv
<1> QED
  BY <1>1, WaitAllInvariant, PTL

\* A coroutine that goes on after wait_all finds the result of each operation.
THEOREM CompleteResults == Spec => []ResumedComplete
<1>1. IInv => ResumedComplete
  <2> SUFFICES ASSUME IInv, awaiter = "resumed" PROVE \A i \in Awaitables : result[i] # "none"
    BY DEF ResumedComplete
  <2>1. \A i \in Awaitables : rpc[i] \in {"exchange", "done"}
    BY NoneUncounted DEF IInv, ResumeInv
  <2> QED
    BY <2>1 DEF IInv, CountInv
<1> QED
  BY <1>1, WaitAllInvariant, PTL

\* The runner that counts down to zero and await_suspend never both resume the
\* coroutine.
THEOREM AtMostOnce == Spec => []ResumedOnce
<1>1. IInv => ResumedOnce
  BY DEF IInv, ResumeInv, ResumedOnce
<1> QED
  BY <1>1, WaitAllInvariant, PTL

\* wait_all implements AwaitSpec: counting down is finishing, and a coroutine
\* goes on, once, only after all operations have finished.
THEOREM Implements == Spec => WaitAllSpec
<1> DEFINE finished == {i \in Awaitables : rpc[i] \in {"exchange", "done"}}
<1>1. Init => Promise!Init
  BY DEF Init, Promise!Init
<1>2. ASSUME IInv, IInv', [Next]_vars
      PROVE  [Promise!Next]_<<finished, awaiter, resumes>>
  <2>1. waiting_count = 0 => Promise!Enough
    BY <1>2, NoneUncounted DEF Promise!Enough
  <2>2. finished' = finished \/ \E i \in Awaitables : CountDown(i)
    BY <1>2 DEF Next, Runner, StoreResult, RunnerResumes, Await, AwaitReady, AwaitNotReady,
                StoreHandle, TailCheck, TailResumes, Drain, Terminating, vars, IInv, TypeOK
  <2>3. ASSUME NEW i \in Awaitables, CountDown(i)
        PROVE  Promise!Finish(i)
    <3>1. i \notin finished /\ finished' = finished \cup {i}
      BY <1>2, <2>3 DEF CountDown, IInv, TypeOK
    <3> QED
      BY <2>3, <3>1 DEF Promise!Finish, CountDown, awaiterVars
  <2>4. CASE finished' = finished
    <3>1. CASE UNCHANGED <<awaiter, resumes>>
      BY <2>4, <3>1
    <3>2. CASE AwaitNotReady
      BY <2>4, <3>2 DEF AwaitNotReady, Promise!Suspend, Promise!Next
    <3>3. CASE AwaitReady
      BY <2>1, <2>4, <3>3 DEF AwaitReady, AllCounted, GoOn, Promise!GoOn, Promise!Next
    <3>4. ASSUME NEW own \in BOOLEAN, Slot!Exchange(own), ResumeExchanged(own),
                 waiting_count = 0
          PROVE  [Promise!Next]_<<finished, awaiter, resumes>>
      <4>1. CASE Slot!Exchanged(own) # Null
        BY <1>2, <2>1, <2>4, <3>4, <4>1
           DEF ResumeExchanged, GoOn, Promise!GoOn, Promise!Next, Slot!Exchanged, IInv, HandleInv
      <4>2. CASE Slot!Exchanged(own) = Null
        BY <2>4, <3>4, <4>2 DEF ResumeExchanged, awaiterVars
      <4> QED
        BY <4>1, <4>2
    <3>5. ASSUME NEW i \in Awaitables, RunnerResumes(i)
          PROVE  [Promise!Next]_<<finished, awaiter, resumes>>
      BY <1>2, <3>4, <3>5 DEF RunnerResumes, IInv, ResumeInv
    <3>6. CASE TailResumes
      BY <1>2, <3>4, <3>6 DEF TailResumes, IInv, ResumeInv
    <3> QED
      BY <1>2, <3>1, <3>2, <3>3, <3>5, <3>6
         DEF Next, Runner, StoreResult, CountDown, Await, StoreHandle, TailCheck, Drain,
             Terminating, vars, awaiterVars
  <2> QED
    BY <2>2, <2>3, <2>4 DEF Promise!Next
<1> QED
  BY <1>1, <1>2, WaitAllInvariant, PTL DEF Spec, WaitAllSpec, Promise!Spec

-----------------------------------------------------------------------------
(* wait_any *)

AnyAwaitables == Others \cup {Inner}

AnyResults == [of : AnyAwaitables, kind : {"torn", "value", "error"}] \cup {Any!NoResult}

\* The words and program counters of wait_any keep their types.
AnyTypeOK ==
  /\ ready_index \in AnyAwaitables \cup {Null}
  /\ o_result \in AnyResults
  /\ Any!Slot!TypeOK
  /\ o_rpc \in [AnyAwaitables -> {"co_await", "emplace", "emplacing", "exchange", "done"}]
  /\ o_awaiter \in {"running", "suspended", "resumed", "finished"}
  /\ o_tail \in {"none", "store", "check", "exchange", "done"}

\* Only the runner that set ready_index goes on to write the result, which is
\* whole when it looks for the handle.
WinnerInv ==
  /\ \A i \in AnyAwaitables : o_rpc[i] \in {"emplace", "emplacing", "exchange"} => ready_index = i
  /\ ready_index = Null => \A i \in AnyAwaitables : o_rpc[i] = "co_await"
  /\ o_result # Any!NoResult => ready_index # Null /\ o_result.of = ready_index
  /\ ready_index # Null =>
       /\ o_rpc[ready_index] # "co_await"
       /\ o_rpc[ready_index] \in {"exchange", "done"} => Any!Whole(o_result)

\* Only a suspended coroutine's handle is in the slot or in the store buffer,
\* and not in both.
AnyHandleInv ==
  /\ o_coroutine_addr # Null \/ o_buffered # Null =>
       o_awaiter = "suspended" /\ o_tail \in {"check", "exchange", "done"}
  /\ o_buffered # Null => o_coroutine_addr = Null
  /\ o_tail = "none" <=> o_awaiter = "running"
  /\ o_tail = "store" => o_awaiter = "suspended"

\* Whoever resumes the coroutine has seen ready_index; the winner has written
\* its result when it does, and what await_resume returned is of the winner.
AnyResumeInv ==
  /\ o_tail = "exchange" \/ o_awaiter \in {"resumed", "finished"} => ready_index # Null
  /\ o_resumes = IF o_awaiter \in {"resumed", "finished"} THEN 1 ELSE 0
  /\ resumer = "runner" => ready_index # Null /\ o_rpc[ready_index] = "done"
  /\ received.result # Any!NoResult => received.result.of = received.index
  /\ o_awaiter = "finished" /\ resumer = "runner" => Any!Whole(received.result)

\* The runner that awaits the wait_all competes only after that has gone on.
AfterInner == o_rpc[Inner] # "co_await" => awaiter = "resumed"

AnyInv == AnyTypeOK /\ WinnerInv /\ AnyHandleInv /\ AnyResumeInv

LEMMA AnyInit == NestedInit => AnyInv /\ AfterInner
<1> SUFFICES ASSUME NestedInit PROVE AnyInv /\ AfterInner
  OBVIOUS
<1>1. Any!Init
  BY DEF NestedInit
<1>2. AnyTypeOK
  BY <1>1 DEF Any!Init, Any!Slot!Init, AnyTypeOK, AnyResults, AnyAwaitables, Any!Slot!TypeOK
<1>3. WinnerInv /\ AnyHandleInv /\ AnyResumeInv /\ AfterInner
  BY <1>1, NestedAssumption
     DEF NestedAssumption, Any!Init, Any!Slot!Init, WinnerInv, AnyHandleInv, AnyResumeInv, AnyAwaitables,
         AfterInner
<1> QED
  BY <1>2, <1>3 DEF AnyInv

\* An exchange that returns a handle found the coroutine suspended and its
\* store made, and the handle is nowhere afterwards.
LEMMA AnyExchangeOnce ==
  ASSUME AnyInv, NEW own \in BOOLEAN, NEW by, Any!Slot!Exchange(own), Any!ResumeExchanged(own, by),
         own => o_tail = "exchange"
  PROVE  /\ Any!Slot!TypeOK'
         /\ o_coroutine_addr' = Null
         /\ o_buffered' # Null => o_buffered' = o_buffered /\ o_awaiter' = o_awaiter
         /\ \/ /\ o_awaiter = "suspended" /\ o_awaiter' = "resumed" /\ o_resumes' = 1 /\ resumer' = by
               /\ o_tail \in {"check", "exchange", "done"}
            \/ UNCHANGED <<o_awaiter, o_resumes, resumer>>
<1>1. CASE Any!Slot!Exchanged(own) # Null
  <2>1. o_awaiter = "suspended" /\ o_tail \in {"check", "exchange", "done"}
    BY <1>1 DEF AnyInv, AnyHandleInv, Any!Slot!Exchanged
  <2>2. o_awaiter' = "resumed" /\ o_resumes' = o_resumes + 1 /\ resumer' = by
    BY <1>1 DEF Any!ResumeExchanged, Any!GoOn
  <2>3. own \/ o_buffered = Null
    BY <1>1 DEF AnyInv, AnyHandleInv, Any!Slot!Exchanged
  <2> QED
    BY <2>1, <2>2, <2>3 DEF AnyInv, AnyTypeOK, AnyResumeInv, Any!Slot!Exchange, Any!Slot!TypeOK
<1>2. CASE Any!Slot!Exchanged(own) = Null
  <2>1. UNCHANGED <<o_awaiter, o_resumes, resumer>>
    BY <1>2 DEF Any!ResumeExchanged, Any!awaiterVars
  <2> QED
    BY <2>1 DEF AnyInv, AnyTypeOK, Any!Slot!Exchange, Any!Slot!TypeOK
<1> QED
  BY <1>1, <1>2

LEMMA AnyStep == AnyInv /\ [Any!Next]_(Any!vars) => AnyInv'
<1> SUFFICES ASSUME AnyInv, [Any!Next]_(Any!vars) PROVE AnyInv'
  OBVIOUS
<1> USE NestedAssumption
    DEF NestedAssumption, AnyInv, AnyTypeOK, WinnerInv, AnyHandleInv, AnyResumeInv, AnyResults, AnyAwaitables,
        Any!slotVars, Any!awaiterVars, Any!Slot!TypeOK, Any!NoResult, Any!Whole
<1>1. ASSUME NEW i \in AnyAwaitables, Any!Claim(i) PROVE AnyInv'
  BY <1>1 DEF Any!Claim, Any!Wins
<1>2. ASSUME NEW i \in AnyAwaitables, Any!BeginEmplace(i) PROVE AnyInv'
  BY <1>2 DEF Any!BeginEmplace
<1>3. ASSUME NEW i \in AnyAwaitables, Any!EndEmplace(i) PROVE AnyInv'
  BY <1>3 DEF Any!EndEmplace
<1>4. ASSUME NEW i \in AnyAwaitables, Any!RunnerResumes(i) PROVE AnyInv'
  BY <1>4, AnyExchangeOnce DEF Any!RunnerResumes
<1>5. CASE Any!AwaitReady
  BY <1>5 DEF Any!AwaitReady, Any!Decided, Any!GoOn
<1>6. CASE Any!StoreHandle
  BY <1>6 DEF Any!StoreHandle, Any!Slot!Store
<1>7. CASE Any!TailCheck
  BY <1>7 DEF Any!TailCheck, Any!Decided
<1>8. CASE Any!TailResumes
  <2>1. /\ Any!Slot!TypeOK' /\ o_coroutine_addr' = Null
        /\ o_buffered' # Null => o_buffered' = o_buffered /\ o_awaiter' = o_awaiter
        /\ \/ /\ o_awaiter = "suspended" /\ o_awaiter' = "resumed" /\ o_resumes' = 1
              /\ resumer' = "tail"
           \/ UNCHANGED <<o_awaiter, o_resumes, resumer>>
    BY <1>8, AnyExchangeOnce DEF Any!TailResumes
  <2>2. /\ o_tail = "exchange" /\ o_tail' = "done"
        /\ UNCHANGED <<ready_index, o_result, o_rpc, received>>
    BY <1>8 DEF Any!TailResumes
  <2>3. AnyTypeOK' /\ WinnerInv'
    BY <2>1, <2>2
  <2>4. AnyHandleInv'
    BY <2>1, <2>2
  <2>5. AnyResumeInv'
    BY <2>1, <2>2
  <2> QED
    BY <2>3, <2>4, <2>5
<1>9. CASE Any!AwaitResume
  BY <1>9 DEF Any!AwaitResume
<1>10. CASE Any!Drain
  BY <1>10 DEF Any!Drain, Any!Slot!Drain
<1>11. CASE UNCHANGED Any!vars
  BY <1>11 DEF Any!vars
<1> QED
  BY <1>1, <1>2, <1>3, <1>4, <1>5, <1>6, <1>7, <1>8, <1>9, <1>10, <1>11
     DEF Any!Next, Any!Runner, Any!Await, Any!Terminating

-----------------------------------------------------------------------------
(* A wait_all within a wait_any *)

\* Each step is one of the wait_all, one of the wait_any, or none of either.
LEMMA StepOfBoth == [NestedNext]_allVars => [Next]_vars /\ [Any!Next]_(Any!vars)
<1> SUFFICES ASSUME [NestedNext]_allVars PROVE [Next]_vars /\ [Any!Next]_(Any!vars)
  OBVIOUS
<1> USE DEF Any!vars, Any!slotVars, Any!awaiterVars, outerVars
<1>1. CASE (\E i \in Awaitables : InnerRunner(i)) \/ InnerAwait \/ InnerDrain
  BY <1>1 DEF InnerRunner, InnerAwait, InnerDrain, Next
<1>2. CASE ClaimInner \/ ClaimOther \/ \E i \in Others \cup {Inner} : Deliver(i)
  BY <1>2 DEF ClaimInner, ClaimOther, Deliver, Any!Next, Any!Runner
<1>3. CASE OuterAwait \/ OuterDrain
  BY <1>3 DEF OuterAwait, OuterDrain, Any!Next
<1>4. CASE NestedTerminating \/ UNCHANGED allVars
  BY <1>4 DEF NestedTerminating, Terminating, allVars
<1> QED
  BY <1>1, <1>2, <1>3, <1>4 DEF NestedNext

LEMMA AfterInnerStep ==
  ASSUME IInv, AnyInv, AfterInner, [NestedNext]_allVars
  PROVE  AfterInner'
<1>1. awaiter = "resumed" => awaiter' = "resumed"
  <2>1. ASSUME NEW own \in BOOLEAN, ResumeExchanged(own), awaiter = "resumed" PROVE awaiter' = "resumed"
    BY <2>1 DEF ResumeExchanged, GoOn, awaiterVars
  <2> QED
    BY <2>1, StepOfBoth
       DEF Next, Runner, StoreResult, CountDown, RunnerResumes, Await, AwaitReady, AwaitNotReady,
           StoreHandle, TailCheck, TailResumes, Drain, Terminating, vars, awaiterVars, IInv, HandleInv, GoOn
<1>2. o_rpc[Inner] = "co_await" /\ o_rpc'[Inner] # "co_await" => awaiter = "resumed"
  <2> USE NestedAssumption DEF NestedAssumption, AnyInv, AnyTypeOK, AnyAwaitables
  <2>1. CASE ClaimInner
    BY <2>1 DEF ClaimInner
  <2>2. CASE ClaimOther
    BY <2>2 DEF ClaimOther, Any!Claim
  <2>3. ASSUME NEW i \in Others \cup {Inner}, Deliver(i)
        PROVE  o_rpc[Inner] = "co_await" => o_rpc'[Inner] = "co_await"
    BY <2>3 DEF Deliver, Any!BeginEmplace, Any!EndEmplace, Any!RunnerResumes
  <2>4. CASE OuterAwait \/ OuterDrain
    BY <2>4 DEF OuterAwait, OuterDrain, Any!Await, Any!AwaitReady, Any!StoreHandle, Any!TailCheck,
                Any!TailResumes, Any!AwaitResume, Any!Drain
  <2> QED
    BY <2>1, <2>2, <2>3, <2>4
       DEF NestedNext, allVars, outerVars, InnerRunner, InnerAwait, InnerDrain, NestedTerminating
<1> QED
  BY <1>1, <1>2 DEF AfterInner

\* The invariants of the two hold of them together.
THEOREM NestedInvariant == NestedSpec => [](IInv /\ AnyInv /\ AfterInner)
<1>1. NestedInit => IInv /\ AnyInv /\ AfterInner
  BY InitIInv, AnyInit DEF NestedInit
<1>2. IInv /\ AnyInv /\ AfterInner /\ [NestedNext]_allVars => (IInv /\ AnyInv /\ AfterInner)'
  BY StepOfBoth, NextIInv, AnyStep, AfterInnerStep
<1> QED
  BY <1>1, <1>2, PTL DEF NestedSpec

\* The wait_all behaves within the wait_any as it does alone: what is proved
\* for Spec holds for it.
THEOREM NestedWaitAll == NestedSpec => Spec
<1>1. NestedInit => Init
  BY DEF NestedInit
<1> QED
  BY <1>1, StepOfBoth, PTL DEF NestedSpec, Spec

\* The runner that awaits the wait_all finds all results.
THEOREM NestedComplete == NestedSpec => []ResumedComplete
  BY NestedWaitAll, CompleteResults, PTL

\* wait_all keeps its promise to that runner.
THEOREM NestedWaitAllPromise == NestedSpec => WaitAllSpec
  BY NestedWaitAll, Implements, PTL

\* The result that wait_any returns, if any, is that of the operation whose
\* index it returns, and is whole if the winner itself resumed the coroutine.
THEOREM WinnerDelivered == NestedSpec => []WinnersResult
<1>1. AnyInv => WinnersResult
  BY DEF AnyInv, AnyResumeInv, WinnersResult, Any!ResultOfWinner, Any!WinnerDelivers
<1> QED
  BY <1>1, NestedInvariant, PTL

\* What a step of wait_any may do to its index and its coroutine: an operation
\* wins, the coroutine goes on after that, it suspends, or it returns.
LEMMA AnyEffect ==
  ASSUME AnyInv, [Any!Next]_(Any!vars)
  PROVE  \/ UNCHANGED <<ready_index, o_awaiter, o_resumes>>
         \/ /\ ready_index = Null /\ ready_index' \in AnyAwaitables
            /\ UNCHANGED <<o_awaiter, o_resumes>>
         \/ /\ ready_index # Null /\ UNCHANGED ready_index
            /\ o_awaiter \in {"running", "suspended"} /\ o_awaiter' = "resumed"
            /\ o_resumes' = o_resumes + 1
         \/ /\ UNCHANGED <<ready_index, o_resumes>>
            /\ <<o_awaiter, o_awaiter'>> \in {<<"running", "suspended">>, <<"resumed", "finished">>}
<1> USE DEF AnyInv, Any!awaiterVars
<1>1. ASSUME NEW own \in BOOLEAN, NEW by, Any!ResumeExchanged(own, by),
             UNCHANGED ready_index, ready_index # Null
      PROVE  \/ UNCHANGED <<ready_index, o_awaiter, o_resumes>>
             \/ /\ UNCHANGED ready_index
                /\ o_awaiter = "suspended" /\ o_awaiter' = "resumed" /\ o_resumes' = o_resumes + 1
  BY <1>1 DEF Any!ResumeExchanged, Any!GoOn, Any!Slot!Exchanged, AnyHandleInv
<1>2. ASSUME NEW i \in AnyAwaitables, Any!Claim(i)
      PROVE  \/ UNCHANGED <<ready_index, o_awaiter, o_resumes>>
             \/ /\ ready_index = Null /\ ready_index' \in AnyAwaitables
                /\ UNCHANGED <<o_awaiter, o_resumes>>
  BY <1>2 DEF Any!Claim, Any!Wins
<1>3. ASSUME NEW i \in AnyAwaitables, Any!RunnerResumes(i)
      PROVE  /\ ready_index # Null /\ UNCHANGED ready_index
             /\ Any!ResumeExchanged(FALSE, "runner")
  BY <1>3, NestedAssumption DEF NestedAssumption, Any!RunnerResumes, WinnerInv, AnyAwaitables
<1>4. CASE Any!TailResumes
  BY <1>1, <1>4 DEF Any!TailResumes, AnyResumeInv
<1>5. CASE Any!AwaitReady
  BY <1>5 DEF Any!AwaitReady, Any!Decided, Any!GoOn
<1> QED
  BY <1>1, <1>2, <1>3, <1>4, <1>5
     DEF Any!Next, Any!Runner, Any!BeginEmplace, Any!EndEmplace, Any!Await, Any!StoreHandle,
         Any!TailCheck, Any!AwaitResume, Any!Drain, Any!Terminating, Any!vars, AnyAwaitables

\* wait_any implements AwaitSpec, and so does the whole expression: claiming
\* ready_index, or counting down, is finishing.
THEOREM NestedImplements == NestedSpec => NestedPromise
<1> DEFINE won == IF ready_index = Null THEN {} ELSE {ready_index}
           finished == {i \in Awaitables : rpc[i] \in {"exchange", "done"}} \cup ({ready_index} \cap Others)
           goneOn == IF o_awaiter = "finished" THEN "resumed" ELSE o_awaiter
<1>1. NestedInit => Any!Promise!Init /\ Promised!Init
  BY NestedAssumption
     DEF NestedAssumption, NestedInit, Init, Any!Init, Any!Promise!Init, Promised!Init
<1>2. ASSUME AnyInv, [Any!Next]_(Any!vars)
      PROVE  [Any!Promise!Next]_<<won, goneOn, o_resumes>>
  <2>1. CASE ready_index = Null /\ ready_index' \in AnyAwaitables /\ UNCHANGED <<o_awaiter, o_resumes>>
    BY <2>1, NestedAssumption
       DEF NestedAssumption, AnyAwaitables, Any!Promise!Next, Any!Promise!Finish
  <2>2. CASE /\ ready_index # Null /\ UNCHANGED ready_index
             /\ o_awaiter \in {"running", "suspended"} /\ o_awaiter' = "resumed"
             /\ o_resumes' = o_resumes + 1
    <3>1. Any!Promise!Enough
      BY <1>2, <2>2 DEF Any!Promise!Enough, AnyInv, AnyTypeOK, AnyAwaitables
    <3> QED
      BY <2>2, <3>1 DEF Any!Promise!Next, Any!Promise!GoOn
  <2>3. CASE /\ UNCHANGED <<ready_index, o_resumes>>
             /\ <<o_awaiter, o_awaiter'>> \in {<<"running", "suspended">>, <<"resumed", "finished">>}
    BY <2>3 DEF Any!Promise!Next, Any!Promise!Suspend
  <2> QED
    BY <1>2, <2>1, <2>2, <2>3, AnyEffect
<1>3. ASSUME IInv, AnyInv, AfterInner, [NestedNext]_allVars
      PROVE  [Promised!Next]_<<finished, goneOn, o_resumes>>
  <2>1. UNCHANGED outerVars \/ UNCHANGED vars
    BY <1>3 DEF NestedNext, InnerRunner, InnerAwait, InnerDrain, ClaimInner, ClaimOther, Deliver, OuterAwait,
                OuterDrain, NestedTerminating, Terminating, allVars
  <2>2. CASE UNCHANGED outerVars
    <3>1. CASE UNCHANGED rpc
      BY <2>2, <3>1 DEF outerVars
    <3>2. ASSUME NEW i \in Awaitables, CountDown(i)
          PROVE  Promised!Finish(i)
      BY <1>3, <2>2, <3>2, NestedAssumption
         DEF NestedAssumption, outerVars, CountDown, Promised!Finish, IInv, TypeOK
    <3>3. ASSUME NEW i \in Awaitables, StoreResult(i) \/ RunnerResumes(i)
          PROVE  UNCHANGED finished
      BY <1>3, <2>2, <3>3 DEF outerVars, StoreResult, RunnerResumes, IInv, TypeOK
    <3> QED
      BY <1>3, <2>2, <3>1, <3>2, <3>3, StepOfBoth
         DEF outerVars, Promised!Next, Next, Runner, Await, AwaitReady, AwaitNotReady, StoreHandle,
             TailCheck, TailResumes, Drain, Terminating, vars
  <2>3. CASE UNCHANGED vars
    <3>1. UNCHANGED rpc
      BY <2>3 DEF vars
    <3>2. CASE ready_index = Null /\ ready_index' \in AnyAwaitables /\ UNCHANGED <<o_awaiter, o_resumes>>
      <4>1. CASE ready_index' = Inner
        <5>1. UNCHANGED finished
          BY <3>1, <3>2, <4>1, NestedAssumption DEF NestedAssumption
        <5> QED
          BY <3>2, <5>1
      <4>2. CASE ready_index' \in Others
        <5>1. ready_index' \notin finished /\ finished' = finished \cup {ready_index'}
          BY <3>1, <3>2, <4>2, NestedAssumption DEF NestedAssumption
        <5> QED
          BY <3>2, <4>2, <5>1 DEF Promised!Next, Promised!Finish
      <4>3. ready_index' = Inner \/ ready_index' \in Others
        BY <3>2 DEF AnyAwaitables
      <4> QED
        BY <4>1, <4>2, <4>3
    <3>3. CASE /\ ready_index # Null /\ UNCHANGED ready_index
               /\ o_awaiter \in {"running", "suspended"} /\ o_awaiter' = "resumed"
               /\ o_resumes' = o_resumes + 1
      <4>1. ASSUME ready_index \in Others
            PROVE  Promised!Enough
        <5>1. {ready_index} \in {{i} : i \in Others} /\ {ready_index} \subseteq finished
          BY <4>1
        <5> QED
          BY <5>1 DEF Promised!Enough
      <4>2. ASSUME ready_index = Inner
            PROVE  Promised!Enough
        <5>1. waiting_count = 0
          BY <1>3, <3>3, <4>2 DEF AnyInv, WinnerInv, AfterInner, IInv, ResumeInv
        <5>2. Awaitables \subseteq finished
          BY <1>3, <5>1, NoneUncounted
        <5> QED
          BY <5>2 DEF Promised!Enough
      <4>3. ready_index \in Others \/ ready_index = Inner
        BY <1>3, <3>3 DEF AnyInv, AnyTypeOK, AnyAwaitables
      <4>4. Promised!Enough
        BY <4>1, <4>2, <4>3
      <4> QED
        BY <3>1, <3>3, <4>4 DEF Promised!Next, Promised!GoOn
    <3>4. CASE /\ UNCHANGED <<ready_index, o_resumes>>
               /\ <<o_awaiter, o_awaiter'>> \in {<<"running", "suspended">>, <<"resumed", "finished">>}
      BY <3>1, <3>4 DEF Promised!Next, Promised!Suspend
    <3> QED
      BY <1>3, <3>1, <3>2, <3>3, <3>4, StepOfBoth, AnyEffect
  <2> QED
    BY <2>1, <2>2, <2>3
<1> QED
  BY <1>1, <1>2, <1>3, StepOfBoth, NestedInvariant, PTL
     DEF NestedSpec, NestedPromise, Any!WaitAnySpec, Any!Promise!Spec, Promised!Spec
==============================================================================
