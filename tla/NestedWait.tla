------------------------------ MODULE NestedWait ------------------------------
(***************************************************************************)
(* co_await wait_any(wait_all(...), b, ...), awaitables of one another     *)
(* (include/awaitable.hpp).  The runner that wait_any starts for its first *)
(* argument is the coroutine that awaits the wait_all: it suspends while   *)
(* wait_any is constructed, and competes with the runners of the other     *)
(* operations when it goes on, on the thread of the last one of wait_all   *)
(* or, out of await_suspend, on its own.                                   *)
(*                                                                         *)
(* The inner part is WaitAll, the outer one an instance of WaitAny.        *)
(***************************************************************************)
EXTENDS WaitAll

CONSTANTS Inner, Others, OuterHandle  \* the index of the wait_all, the other indices

ASSUME NestedAssumption ==
  /\ Inner \notin Others /\ Null \notin Others \cup {Inner}
  /\ Others \cap Awaitables = {} /\ OuterHandle # Null

VARIABLES
  ready_index, o_coroutine_addr, o_result, o_buffered,
  o_rpc, o_awaiter, o_tail, received, o_resumes, resumer  \* see WaitAny

outerVars == <<ready_index, o_coroutine_addr, o_result, o_buffered,
               o_rpc, o_awaiter, o_tail, received, o_resumes, resumer>>
allVars == <<vars, outerVars>>

Any == INSTANCE WaitAny WITH
  Awaitables <- Others \cup {Inner}, Handle <- OuterHandle,
  coroutine_addr <- o_coroutine_addr, result <- o_result, buffered <- o_buffered,
  rpc <- o_rpc, awaiter <- o_awaiter, tail <- o_tail, resumes <- o_resumes

NestedInit == Init /\ Any!Init

\* The wait_all: its operations, and the runner that awaits it.
InnerRunner(i) == Runner(i) /\ UNCHANGED outerVars
InnerAwait == Await /\ UNCHANGED outerVars
InnerDrain == Drain /\ UNCHANGED outerVars

\* What co_await wait_all(...) returned is the runner's result.
ClaimInner ==
  /\ awaiter = "resumed"
  /\ Any!Claim(Inner)
  /\ UNCHANGED vars

ClaimOther == (\E i \in Others : Any!Claim(i)) /\ UNCHANGED vars

Deliver(i) ==
  /\ Any!BeginEmplace(i) \/ Any!EndEmplace(i) \/ Any!RunnerResumes(i)
  /\ UNCHANGED vars

\* wait_any has been constructed when the runner's await_suspend has returned.
OuterAwait ==
  /\ tail = "done"
  /\ Any!Await
  /\ UNCHANGED vars

OuterDrain == Any!Drain /\ UNCHANGED vars

\* All have ended, but for a runner whose wait_all was left suspended.
NestedTerminating ==
  /\ Terminating /\ o_tail = "done" /\ o_awaiter # "resumed" /\ o_buffered = Null
  /\ \A i \in Others : o_rpc[i] = "done"
  /\ o_rpc[Inner] = "done" \/ awaiter = "suspended"
  /\ UNCHANGED outerVars

NestedNext ==
  \/ \E i \in Awaitables : InnerRunner(i)
  \/ InnerAwait \/ InnerDrain
  \/ ClaimInner \/ ClaimOther \/ \E i \in Others \cup {Inner} : Deliver(i)
  \/ OuterAwait \/ OuterDrain
  \/ NestedTerminating

\* The operations of wait_all complete, the others need not; threads go on and
\* store buffers drain.
NestedFairness ==
  /\ \A i \in Awaitables : WF_allVars(InnerRunner(i))
  /\ WF_allVars(InnerAwait) /\ WF_allVars(InnerDrain)
  /\ WF_allVars(ClaimInner)
  /\ \A i \in Others \cup {Inner} : WF_allVars(Deliver(i))
  /\ WF_allVars(OuterAwait) /\ WF_allVars(OuterDrain)

NestedSpec == NestedInit /\ [][NestedNext]_allVars /\ NestedFairness

-----------------------------------------------------------------------------
(* Properties *)

\* await_resume returns the result of the operation whose index it returns, if
\* any, since the losers never write (awaitable.hpp:189); the coroutine that the
\* winner itself resumes finds the whole result.
WinnersResult == Any!ResultOfWinner /\ Any!WinnerDelivers

\* wait_any keeps its promise to the coroutine, and the two together that of the
\* whole expression: it goes on once, and not before all operations of wait_all,
\* or another one, have completed.
Promised == INSTANCE AwaitSpec WITH
  Awaitables <- Awaitables \cup Others,
  Sufficient <- {Awaitables} \cup {{i} : i \in Others},
  finished <- {i \in Awaitables : rpc[i] \in {"exchange", "done"}} \cup ({ready_index} \cap Others),
  awaiter <- IF o_awaiter = "finished" THEN "resumed" ELSE o_awaiter,
  resumes <- o_resumes
NestedPromise == Any!WaitAnySpec /\ Promised!Spec

\* The coroutine goes on once all operations of wait_all are complete, unless a
\* store of one of the two await_suspends has been overtaken.
EventuallyFinished == <>(o_awaiter = "finished" \/ Overtaken \/ Any!Overtaken)
==============================================================================
