------------------------------- MODULE WaitEach -------------------------------
(***************************************************************************)
(* WaitEachAwaitable (include/awaitable.hpp): every runner enqueues its    *)
(* result, counts down and tries to resume the awaiting coroutine, which   *)
(* awaits the same object again and again and dequeues one result each     *)
(* time.  The results are in a queue that behaves like FifoQueue.          *)
(*                                                                         *)
(* A coroutine that suspends twice may have two await_suspend calls in     *)
(* progress: the thread of the first may be slow.  They are the tails.     *)
(***************************************************************************)
EXTENDS Naturals, Sequences, FiniteSets

CONSTANTS
  Awaitables,
  Tails,       \* bound: await_suspend calls in progress at a time
  NoHandle,
  StoreBuffer, \* see CoroutineSlot
  MayLose,     \* bound: operations whose enqueue may find no memory for a node
  Counted,     \* the consumer ends when it has a result of each of these; {}:
               \* it goes on until nullopt.  main.cpp:126-154 counts idx 0, 1, 3
  AfterNull    \* what the consumer may do at nullopt: await again ("ready"), end
               \* ("done"), or call value() on it ("terminated", main.cpp:128)

ASSUME WaitEachAssumption ==
  /\ IsFiniteSet(Awaitables) /\ Awaitables # {} /\ Tails # {}
  /\ NoHandle \notin Tails
  /\ StoreBuffer \in BOOLEAN
  /\ MayLose \subseteq Awaitables /\ Counted \subseteq Awaitables
  /\ AfterNull # {} /\ AfterNull \subseteq {"ready", "done", "terminated"}

VARIABLES
  remaining, coroutine_addr, results, linked,  \* State; the queue as in FifoQueue
  buffered,   \* a store of await_suspend in its thread's buffer
  rpc,        \* per runner: "co_await", "link", "count", "exchange", "done"
  consumer,   \* "ready", "peek", "suspended", "resumed", "done", "terminated"
  got,        \* the operations whose results were dequeued
  lost,       \* the operations whose results were never enqueued
  tail        \* per await_suspend: its step and the stub that maybe_empty loaded

queueVars == <<results, linked>>
slotVars == <<coroutine_addr, buffered>>
eachVars == <<remaining, queueVars, slotVars, rpc, consumer, got, lost, tail>>

Slot == INSTANCE CoroutineSlot WITH Handles <- Tails, Null <- NoHandle
Queue == INSTANCE FifoQueue WITH Elements <- Awaitables, items <- results, published <- linked

\* Mutant: one operation is not counted.
OneTooFew == Cardinality(Awaitables) - 1

\* sizeof...(Awaitable)
Started == Cardinality(Awaitables)

EachInit ==
  /\ remaining = Started
  /\ Slot!Init /\ Queue!Init
  /\ rpc = [i \in Awaitables |-> "co_await"]
  /\ consumer = "ready"
  /\ got = {} /\ lost = {}
  /\ tail = [k \in Tails |-> [pc |-> "free", stub |-> 0]]

\* Dequeuing deletes the stub; the n-th stub is the one after n dequeues.
Stub == Cardinality(got)

-----------------------------------------------------------------------------
(* The runners *)

\* results.enqueue(Idx, ...) in its two steps.
EnqueueResult(i) ==
  /\ rpc[i] = "co_await"
  /\ Queue!Claim(i)
  /\ rpc' = [rpc EXCEPT ![i] = "link"]
  /\ UNCHANGED <<remaining, slotVars, consumer, got, lost, tail>>

\* No memory for a node: enqueue returns false, which the runner ignores.
EnqueueFails(i) ==
  /\ rpc[i] = "co_await" /\ i \in MayLose
  /\ lost' = lost \cup {i}
  /\ rpc' = [rpc EXCEPT ![i] = "count"]
  /\ UNCHANGED <<remaining, queueVars, slotVars, consumer, got, tail>>

LinkResult(i) ==
  /\ rpc[i] = "link"
  /\ Queue!Publish(i)
  /\ rpc' = [rpc EXCEPT ![i] = "count"]
  /\ UNCHANGED <<remaining, slotVars, consumer, got, lost, tail>>

\* remaining.fetch_sub(1)
CountDown(i) ==
  /\ rpc[i] = "count"
  /\ remaining' = remaining - 1
  /\ rpc' = [rpc EXCEPT ![i] = "exchange"]
  /\ UNCHANGED <<queueVars, slotVars, consumer, got, lost, tail>>

\* Mutant: the handle is resumed whatever the exchange returned.
ResumeAlways(own) == consumer' = "resumed"

ResumeExchanged(own) ==
  IF Slot!Exchanged(own) # NoHandle THEN consumer' = "resumed" ELSE UNCHANGED consumer

RunnerResumes(i) ==
  /\ rpc[i] = "exchange"
  /\ Slot!Exchange(FALSE)
  /\ ResumeExchanged(FALSE)
  /\ rpc' = [rpc EXCEPT ![i] = "done"]
  /\ UNCHANGED <<remaining, queueVars, got, lost, tail>>

-----------------------------------------------------------------------------
(* The awaiting coroutine *)

\* await_ready(): first remaining, then maybe_empty().
LoadRemaining ==
  /\ consumer = "ready"
  /\ consumer' = IF remaining = 0 THEN "resumed" ELSE "peek"
  /\ UNCHANGED <<remaining, queueVars, slotVars, rpc, got, lost, tail>>

PeekReady ==
  /\ consumer = "peek" /\ Queue!FrontVisible
  /\ consumer' = "resumed"
  /\ UNCHANGED <<remaining, queueVars, slotVars, rpc, got, lost, tail>>

\* The queue looks empty: await_ready returns false, the coroutine suspends.
Suspend(k) ==
  /\ consumer = "peek" /\ ~Queue!FrontVisible
  /\ tail[k].pc = "free"
  /\ consumer' = "suspended"
  /\ tail' = [tail EXCEPT ![k].pc = "store"]
  /\ UNCHANGED <<remaining, queueVars, slotVars, rpc, got, lost>>

\* await_suspend() stores the handle.
StoreHandle(k) ==
  /\ tail[k].pc = "store"
  /\ Slot!Store(k)
  /\ tail' = [tail EXCEPT ![k].pc = "load"]
  /\ UNCHANGED <<remaining, queueVars, rpc, consumer, got, lost>>

\* maybe_empty() in await_suspend loads m_head ...
TailLoadHead(k) ==
  /\ tail[k].pc = "load"
  /\ tail' = [tail EXCEPT ![k] = [pc |-> "peek", stub |-> Stub]]
  /\ UNCHANGED <<remaining, queueVars, slotVars, rpc, consumer, got, lost>>

\* Mutant: await_suspend does not look again.
SeesNothing(k) == {FALSE}

\* ... and then head->next.  If a resumed consumer has deleted that stub, the
\* read is undefined: it may find anything.
SeesNext(k) == IF tail[k].stub = Stub THEN {Queue!FrontVisible} ELSE BOOLEAN
TailPeek(k) ==
  /\ tail[k].pc = "peek"
  /\ \E nonempty \in SeesNext(k) :
       tail' = [tail EXCEPT ![k] = [pc |-> IF nonempty THEN "exchange" ELSE "free", stub |-> 0]]
  /\ UNCHANGED <<remaining, queueVars, slotVars, rpc, consumer, got, lost>>

TailResumes(k) ==
  LET own == buffered = k IN
  /\ tail[k].pc = "exchange"
  /\ Slot!Exchange(own)
  /\ ResumeExchanged(own)
  /\ tail' = [tail EXCEPT ![k].pc = "free"]
  /\ UNCHANGED <<remaining, queueVars, rpc, got, lost>>

\* await_resume(): results.try_dequeue().
Receive(i) ==
  /\ consumer = "resumed"
  /\ Queue!Take(i)
  /\ got' = got \cup {i}
  /\ consumer' = IF Counted # {} /\ Counted \subseteq got' THEN "done" ELSE "ready"
  /\ UNCHANGED <<remaining, slotVars, rpc, lost, tail>>

\* nullopt.  An exception in a Nothrow coroutine such as main.cpp's ends the
\* program (coro.hpp:198); here the other threads go on.
ReceiveNothing ==
  /\ consumer = "resumed"
  /\ ~Queue!FrontVisible
  /\ consumer' \in AfterNull
  /\ UNCHANGED <<remaining, queueVars, slotVars, rpc, got, lost, tail>>

Drain ==
  /\ Slot!Drain
  /\ UNCHANGED <<remaining, queueVars, rpc, consumer, got, lost, tail>>

\* Nothing is left to do; the consumer may be suspended for good.
Quiet ==
  /\ \A i \in Awaitables : rpc[i] = "done"
  /\ \A k \in Tails : tail[k].pc = "free"
  /\ buffered = NoHandle
Terminating == Quiet /\ consumer \in {"suspended", "done", "terminated"} /\ UNCHANGED eachVars

RunnerEnds(i) == LinkResult(i) \/ CountDown(i) \/ RunnerResumes(i)
Runner(i) == EnqueueResult(i) \/ EnqueueFails(i) \/ RunnerEnds(i)
AwaitSuspend(k) == StoreHandle(k) \/ TailLoadHead(k) \/ TailPeek(k) \/ TailResumes(k)
Consume ==
  \/ LoadRemaining \/ PeekReady \/ ReceiveNothing
  \/ \E k \in Tails : Suspend(k)
  \/ \E i \in Awaitables : Receive(i)

EachNext ==
  \/ \E i \in Awaitables : Runner(i)
  \/ \E k \in Tails : AwaitSuspend(k)
  \/ Consume \/ Drain \/ Terminating

EachSpec == EachInit /\ [][EachNext]_eachVars

\* The counted operations complete, threads go on, and store buffers drain.
FairEachSpec ==
  /\ EachSpec
  /\ \A i \in Counted : WF_eachVars(Runner(i))
  /\ \A i \in Awaitables : WF_eachVars(RunnerEnds(i))
  /\ \A k \in Tails : WF_eachVars(AwaitSuspend(k))
  /\ WF_eachVars(Consume) /\ WF_eachVars(Drain)

-----------------------------------------------------------------------------
(* Properties *)

\* Runners and await_suspend resume the coroutine only while it is suspended,
\* also when an old await_suspend is still on its way ("exchange保证不会重复唤醒",
\* awaitable.hpp:872).
ResumesOnlyWhileSuspended ==
  [][/\ tail' # tail \/ rpc' # rpc
     /\ consumer # "resumed" /\ consumer' = "resumed"
     => consumer = "suspended"]_eachVars

\* remaining = 0 means what await_ready takes it for: every result is in the
\* queue and visible, or was delivered, but for those that enqueue had no
\* memory for, which are counted down all the same (awaitable.hpp:850).
NoneRemaining ==
  remaining = 0 =>
    /\ Awaitables = got \cup linked \cup lost
    /\ got \cap linked = {} /\ lost \cap (got \cup linked) = {}

\* The consumer receives the results that it counts, whether or not the other
\* operations complete, unless it calls value() on a nullopt.  The exceptions
\* are a result that was lost, and a store of await_suspend that its later
\* loads have overtaken and that is still in the buffer when the last runner
\* has looked for it.
Overtaken ==
  buffered # NoHandle /\ tail[buffered].pc = "free" /\ \A i \in Counted : rpc[i] = "done"
AllDelivered == <>(consumer \in {"done", "terminated"} \/ Overtaken \/ lost \cap Counted # {})

\* awaitable.hpp:864: "if the number of remaining tasks is 0 or the result
\* queue is not empty, the coroutine does not sleep".
NoSleepWhenNoneLeft == ~(Quiet /\ consumer = "suspended" /\ remaining = 0)
==============================================================================
