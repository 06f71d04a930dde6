------------------------------- MODULE WaitAll -------------------------------
(***************************************************************************)
(* WaitAllAwaitable (include/awaitable.hpp): one runner coroutine per      *)
(* awaited operation stores the result and counts down; the last one, or   *)
(* await_suspend itself, resumes the awaiting coroutine.                   *)
(*                                                                         *)
(* await_suspend stores the handle first, so its remaining steps (the      *)
(* tail) run concurrently with a coroutine that someone already resumed.   *)
(***************************************************************************)
EXTENDS Naturals, FiniteSets

CONSTANTS Awaitables, Handle, Null, StoreBuffer

ASSUME WaitAllAssumption ==
  /\ IsFiniteSet(Awaitables) /\ Awaitables # {}
  /\ Handle # Null /\ StoreBuffer \in BOOLEAN

VARIABLES
  waiting_count, coroutine_addr, result,  \* State
  buffered,    \* the store of await_suspend, see CoroutineSlot
  rpc,         \* per runner: "co_await", "count", "exchange", "done"
  awaiter,     \* "running", "suspended", "resumed"
  tail,        \* await_suspend: "none", "check", "exchange", "done"
  resumes      \* ghost: how often the awaiter has gone on

slotVars == <<coroutine_addr, buffered>>
awaiterVars == <<awaiter, resumes>>
vars == <<waiting_count, result, slotVars, rpc, awaiterVars, tail>>

Slot == INSTANCE CoroutineSlot WITH Handles <- {Handle}

\* sizeof...(Awaitable)
Started == Cardinality(Awaitables)

Init ==
  /\ waiting_count = Started
  /\ result = [i \in Awaitables |-> "none"]
  /\ Slot!Init
  /\ rpc = [i \in Awaitables |-> "co_await"]
  /\ awaiter = "running"
  /\ tail = "none"
  /\ resumes = 0

\* resume(), or an await_ready that returned true: the coroutine goes on.
GoOn == awaiter' = "resumed" /\ resumes' = resumes + 1

\* Mutant: the awaiter goes on while one operation is left.
OneLeft == waiting_count <= 1

\* The exchange of the runner and of await_suspend, and the resume() after it.
ResumeExchanged(own) ==
  IF Slot!Exchanged(own) # Null THEN GoOn ELSE UNCHANGED awaiterVars

AllCounted == waiting_count = 0

-----------------------------------------------------------------------------
(* The runners *)

IsLast == waiting_count = 1

\* co_await awaitable completes, with a value or an exception.
StoreResult(i) ==
  /\ rpc[i] = "co_await"
  /\ \E r \in {"value", "error"} : result' = [result EXCEPT ![i] = r]
  /\ rpc' = [rpc EXCEPT ![i] = "count"]
  /\ UNCHANGED <<waiting_count, slotVars, awaiterVars, tail>>

\* waiting_count.fetch_sub(1)
CountDown(i) ==
  /\ rpc[i] = "count"
  /\ waiting_count' = waiting_count - 1
  /\ rpc' = [rpc EXCEPT ![i] = IF IsLast THEN "exchange" ELSE "done"]
  /\ UNCHANGED <<result, slotVars, awaiterVars, tail>>

RunnerResumes(i) ==
  /\ rpc[i] = "exchange"
  /\ Slot!Exchange(FALSE)
  /\ ResumeExchanged(FALSE)
  /\ rpc' = [rpc EXCEPT ![i] = "done"]
  /\ UNCHANGED <<waiting_count, result, tail>>

-----------------------------------------------------------------------------
(* The awaiting coroutine *)

\* await_ready() returns true.
AwaitReady ==
  /\ awaiter = "running" /\ tail = "none"
  /\ AllCounted
  /\ GoOn
  /\ tail' = "done"
  /\ UNCHANGED <<waiting_count, result, slotVars, rpc>>

\* await_ready() returns false and the coroutine suspends.
AwaitNotReady ==
  /\ awaiter = "running" /\ tail = "none"
  /\ ~AllCounted
  /\ awaiter' = "suspended"
  /\ tail' = "store"
  /\ UNCHANGED <<waiting_count, result, slotVars, rpc, resumes>>

StoreHandle ==
  /\ tail = "store"
  /\ Slot!Store(Handle)
  /\ tail' = "check"
  /\ UNCHANGED <<waiting_count, result, rpc, awaiterVars>>

TailCheck ==
  /\ tail = "check"
  /\ tail' = IF AllCounted THEN "exchange" ELSE "done"
  /\ UNCHANGED <<waiting_count, result, slotVars, rpc, awaiterVars>>

TailResumes ==
  /\ tail = "exchange"
  /\ Slot!Exchange(TRUE)
  /\ ResumeExchanged(TRUE)
  /\ tail' = "done"
  /\ UNCHANGED <<waiting_count, result, rpc>>

Drain ==
  /\ Slot!Drain
  /\ UNCHANGED <<waiting_count, result, rpc, awaiterVars, tail>>

\* Nothing is left to do; with StoreBuffer the awaiter may be left suspended.
Terminating ==
  /\ tail = "done" /\ buffered = Null /\ \A i \in Awaitables : rpc[i] = "done"
  /\ UNCHANGED vars

Runner(i) == StoreResult(i) \/ CountDown(i) \/ RunnerResumes(i)
Await == AwaitReady \/ AwaitNotReady \/ StoreHandle \/ TailCheck \/ TailResumes

Next == (\E i \in Awaitables : Runner(i)) \/ Await \/ Drain \/ Terminating

Spec == Init /\ [][Next]_vars

-----------------------------------------------------------------------------
(* Properties *)

\* The types of State and of the steps.
TypeOK ==
  /\ waiting_count \in 0..Cardinality(Awaitables)
  /\ result \in [Awaitables -> {"none", "value", "error"}]
  /\ Slot!TypeOK
  /\ rpc \in [Awaitables -> {"co_await", "count", "exchange", "done"}]
  /\ awaiter \in {"running", "suspended", "resumed"}
  /\ tail \in {"none", "store", "check", "exchange", "done"}
  /\ resumes \in Nat

\* The coroutine that goes on finds every result stored, and it goes on once,
\* although a runner and await_suspend may both try to resume it.
ResumedComplete == awaiter = "resumed" => \A i \in Awaitables : result[i] # "none"
ResumedOnce == resumes <= 1

\* wait_all keeps its promise to the awaiting coroutine.
Promise == INSTANCE AwaitSpec
  WITH Sufficient <- {Awaitables},
       finished <- {i \in Awaitables : rpc[i] \in {"exchange", "done"}}
WaitAllSpec == Promise!Spec

\* A store of await_suspend that its later load has overtaken is still in the
\* buffer when the last runner has looked for the handle.
Overtaken == buffered # Null /\ tail = "done" /\ \A i \in Awaitables : rpc[i] = "done"
==============================================================================
