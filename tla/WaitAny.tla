------------------------------- MODULE WaitAny -------------------------------
(***************************************************************************)
(* WaitAnyAwaitable (include/awaitable.hpp): the runner that first sets    *)
(* ready_index wins, stores its result and resumes the awaiting coroutine; *)
(* the other runners end without a trace.  await_ready and await_suspend   *)
(* look at ready_index only, which the winner sets before its result.      *)
(***************************************************************************)
EXTENDS Integers, FiniteSets

CONSTANTS Awaitables, Handle, Null, StoreBuffer

VARIABLES
  ready_index,     \* -1 in the code is Null here
  coroutine_addr,
  result,          \* whose it is, and "none", "torn" (half written), "value", "error"
  buffered,        \* the store of await_suspend, see CoroutineSlot
  rpc,             \* per runner: "co_await", "emplace", "emplacing", "exchange", "done"
  awaiter,         \* "running", "suspended", "resumed", "finished"
  tail,            \* await_suspend: "none", "store", "check", "exchange", "done"
  received,        \* what await_resume returned: the index and the result
  resumes, resumer \* ghosts: how often the awaiter has gone on, and through whom

slotVars == <<coroutine_addr, buffered>>
awaiterVars == <<awaiter, resumes, resumer>>
vars == <<ready_index, result, slotVars, rpc, awaiterVars, tail, received>>

Slot == INSTANCE CoroutineSlot WITH Handles <- {Handle}

\* AwaitableResultAny(): std::monostate.
NoResult == [of |-> Null, kind |-> "none"]

Init ==
  /\ ready_index = Null
  /\ result = NoResult
  /\ Slot!Init
  /\ rpc = [i \in Awaitables |-> "co_await"]
  /\ awaiter = "running"
  /\ tail = "none"
  /\ received = [index |-> Null, result |-> NoResult]
  /\ resumes = 0 /\ resumer = "none"

GoOn(by) == awaiter' = "resumed" /\ resumes' = resumes + 1 /\ resumer' = by

ResumeExchanged(own, by) ==
  IF Slot!Exchanged(own) # Null THEN GoOn(by) ELSE UNCHANGED awaiterVars

-----------------------------------------------------------------------------
(* The runners *)

\* Mutant: a plain store instead of the compare_exchange.
WinsAlways(i) == TRUE
Wins(i) == ready_index = Null

\* co_await awaitable completed; ready_index.compare_exchange_strong.
Claim(i) ==
  /\ rpc[i] = "co_await"
  /\ ready_index' = IF Wins(i) THEN i ELSE ready_index
  /\ rpc' = [rpc EXCEPT ![i] = IF Wins(i) THEN "emplace" ELSE "done"]
  /\ UNCHANGED <<result, slotVars, awaiterVars, tail, received>>

BeginEmplace(i) ==
  /\ rpc[i] = "emplace"
  /\ result' = [of |-> i, kind |-> "torn"]
  /\ rpc' = [rpc EXCEPT ![i] = "emplacing"]
  /\ UNCHANGED <<ready_index, slotVars, awaiterVars, tail, received>>

EndEmplace(i) ==
  /\ rpc[i] = "emplacing"
  /\ \E kind \in {"value", "error"} : result' = [of |-> i, kind |-> kind]
  /\ rpc' = [rpc EXCEPT ![i] = "exchange"]
  /\ UNCHANGED <<ready_index, slotVars, awaiterVars, tail, received>>

RunnerResumes(i) ==
  /\ rpc[i] = "exchange"
  /\ Slot!Exchange(FALSE)
  /\ ResumeExchanged(FALSE, "runner")
  /\ rpc' = [rpc EXCEPT ![i] = "done"]
  /\ UNCHANGED <<ready_index, result, tail, received>>

-----------------------------------------------------------------------------
(* The awaiting coroutine *)

\* Mutant: await_suspend does not look again.
NeverDecided == FALSE
Decided == ready_index # Null

\* await_ready()
AwaitReady ==
  /\ awaiter = "running" /\ tail = "none"
  /\ IF Decided
       THEN GoOn("ready") /\ tail' = "done"
       ELSE awaiter' = "suspended" /\ tail' = "store" /\ UNCHANGED <<resumes, resumer>>
  /\ UNCHANGED <<ready_index, result, slotVars, rpc, received>>

StoreHandle ==
  /\ tail = "store"
  /\ Slot!Store(Handle)
  /\ tail' = "check"
  /\ UNCHANGED <<ready_index, result, rpc, awaiterVars, received>>

TailCheck ==
  /\ tail = "check"
  /\ tail' = IF Decided THEN "exchange" ELSE "done"
  /\ UNCHANGED <<ready_index, result, slotVars, rpc, awaiterVars, received>>

TailResumes ==
  /\ tail = "exchange"
  /\ Slot!Exchange(TRUE)
  /\ ResumeExchanged(TRUE, "tail")
  /\ tail' = "done"
  /\ UNCHANGED <<ready_index, result, rpc, received>>

\* await_resume() returns { ready_index, std::move(result) }.
AwaitResume ==
  /\ awaiter = "resumed"
  /\ awaiter' = "finished"
  /\ received' = [index |-> ready_index, result |-> result]
  /\ UNCHANGED <<ready_index, result, slotVars, rpc, resumes, resumer, tail>>

Drain ==
  /\ Slot!Drain
  /\ UNCHANGED <<ready_index, result, rpc, awaiterVars, tail, received>>

Terminating ==
  /\ tail = "done" /\ awaiter \in {"suspended", "finished"} /\ buffered = Null
  /\ \A i \in Awaitables : rpc[i] = "done"
  /\ UNCHANGED vars

Runner(i) == Claim(i) \/ BeginEmplace(i) \/ EndEmplace(i) \/ RunnerResumes(i)
Await == AwaitReady \/ StoreHandle \/ TailCheck \/ TailResumes \/ AwaitResume

Next == (\E i \in Awaitables : Runner(i)) \/ Await \/ Drain \/ Terminating

Spec == Init /\ [][Next]_vars

-----------------------------------------------------------------------------
(* Properties *)

Whole(r) == r.kind \in {"value", "error"}

\* The result that await_resume returns, when there is one, is the result of
\* the operation whose index it returns: the losers never write.
ResultOfWinner == received.result # NoResult => received.result.of = received.index

\* A coroutine that the winner itself resumes finds the whole result.
WinnerDelivers == awaiter = "finished" /\ resumer = "runner" => Whole(received.result)

\* wait_any keeps its promise to the awaiting coroutine.
Promise == INSTANCE AwaitSpec
  WITH Sufficient <- {{i} : i \in Awaitables},
       finished <- IF ready_index = Null THEN {} ELSE {ready_index},
       awaiter <- IF awaiter = "finished" THEN "resumed" ELSE awaiter
WaitAnySpec == Promise!Spec

\* A store of await_suspend that its later load has overtaken is still in the
\* buffer when the winner has looked for the handle.
Overtaken ==
  /\ buffered # Null /\ tail = "done"
  /\ ready_index # Null /\ rpc[ready_index] = "done"
==============================================================================
