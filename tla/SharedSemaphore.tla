--------------------------- MODULE SharedSemaphore ---------------------------
(***************************************************************************)
(* coro::CountingSemaphore (include/sync.hpp) as it is built and used:     *)
(* over nct::AtomicQueue itself, with several releasers that share         *)
(* m_mutex, and owned through rc_ptrs as in test_sem (main.cpp:73-109).    *)
(*                                                                         *)
(* A coroutine has an rc_ptr in its frame, acquires once and ends; under   *)
(* with_timeout it may give up.  A releaser is a callback with an rc_ptr   *)
(* of its own.  The last of them to go deletes the semaphore.              *)
(***************************************************************************)
EXTENDS Naturals, Sequences, FiniteSets, RefCount

CONSTANTS
  Coroutines, Releasers,
  Owner,      \* the code that calls make_rc and hands out copies
  Nodes,      \* addresses for the nodes of m_waiters; `new` may also fail
  Null,
  InitCount   \* permits at the beginning

VARIABLES
  m_head, m_tail, next, value, heap, prod, cons, m_mutex, arr, life, chain,
              \* m_waiters and m_mutex, see AtomicQueue
  count, waiters,  \* m_count
  acq,        \* coroutines: "ready", "enqueue", "waiting", "lost", "granted", "destroyed"
  rel,        \* releasers: "ready", "wake", "done"
  started,    \* users that have been given an rc_ptr
  refs,       \* who holds an rc_ptr
  refcnt      \* RcBox::refcnt

queueVars == <<m_head, m_tail, next, value, heap, prod, cons, m_mutex, arr, life, chain>>
vars == <<queueVars, count, waiters, acq, rel, started, refs, refcnt>>

Users == Coroutines \cup Releasers

ASSUME SharedAssumption ==
  /\ IsFiniteSet(Users) /\ Coroutines \cap Releasers = {} /\ Owner \notin Users
  /\ Null \notin Nodes \cup Releasers

ASSUME CountAssumption == InitCount \in Nat

Queue == INSTANCE AtomicQueue WITH
  Producers <- Coroutines, Consumers <- Releasers,
  NLoop <- 1, Ops <- {"wait"}, EarlyStop <- FALSE

-----------------------------------------------------------------------------
(* The abstract semaphore *)

Handle(e) == e[1]

\* A releaser whose wait_dequeue will never load next again.
Spins(r) ==
  \/ cons[r].pc = "spin"
  \/ cons[r].pc = "loop" /\ cons[r].next = Null /\ cons[r].tail \notin {Null, cons[r].head}

Stage(u) ==
  IF u \in Releasers THEN IF rel[u] # "wake" THEN "running" ELSE IF Spins(u) THEN "spin" ELSE "wake"
  ELSE CASE acq[u] \in {"ready", "granted"} -> "running"
         [] acq[u] = "enqueue" /\ prod[u].pc = "link" -> "link"
         [] acq[u] \in {"enqueue", "lost"} /\ prod[u].pc # "link" -> "enqueue"
         [] acq[u] = "waiting" -> "suspended"
         [] acq[u] = "destroyed" -> "destroyed"

Sem == INSTANCE CountingSemaphore WITH
  Tasks <- Users, ReleaseAmounts <- {1},
  MaxUnused <- InitCount + Cardinality(Releasers), MaxOverdrawn <- 0,  \* neither binds
  m_waiters <- [i \in DOMAIN Queue!items |-> Handle(Queue!items[i])],
  linked <- {Handle(e) : e \in Queue!published},
  pc <- [u \in Users |-> Stage(u)],
  need_wake <- [u \in Users |-> IF u \in Releasers /\ rel[u] = "wake" THEN 1 ELSE 0],
  alive <- life # "gone",
  unused <- InitCount + Cardinality({r \in Releasers : rel[r] # "ready"})
              - Cardinality({w \in Coroutines : acq[w] = "granted"}),
  overdrawn <- 0

-----------------------------------------------------------------------------

\* make_rc has constructed the semaphore; which address the stub has is no matter.
Init ==
  /\ Queue!Init /\ m_head = CHOOSE n \in Nodes : TRUE
  /\ count = InitCount /\ waiters = 0
  /\ acq = [w \in Coroutines |-> "ready"]
  /\ rel = [r \in Releasers |-> "ready"]
  /\ started = {} /\ refs = {Owner} /\ refcnt = 1

\* The owner copies its rc_ptr into a frame or a callback.
Start(u) ==
  /\ Owner \in refs /\ u \notin started
  /\ started' = started \cup {u}
  /\ refs' = refs \cup {u}
  /\ refcnt' = AddRef(refcnt)
  /\ UNCHANGED <<queueVars, count, waiters, acq, rel>>

Queued == {Handle(value[n]) : n \in {chain[i] : i \in 2..Len(chain)}}

\* ~RcBox: the semaphore destroys the coroutines still queued, its queue the nodes.
Delete ==
  /\ acq' = [w \in Coroutines |-> IF w \in Queued THEN "destroyed" ELSE acq[w]]
  /\ heap' = heap \ {chain[i] : i \in DOMAIN chain}
  /\ value' = [n \in Nodes |-> Null]
  /\ m_head' = Null /\ m_tail' = Null /\ chain' = << >> /\ life' = "gone"
  /\ UNCHANGED <<next, prod, cons, m_mutex, arr>>

\* u's rc_ptr is destroyed, with its frame or its callback.
Drop(u) ==
  /\ u \in refs
  /\ refs' = refs \ {u}
  /\ refcnt' = Release(refcnt)
  /\ IF IsLast(refcnt) THEN Delete ELSE UNCHANGED <<queueVars, acq>>
  /\ UNCHANGED <<count, waiters, rel, started>>

OwnerEnds == started = Users /\ Drop(Owner)

-----------------------------------------------------------------------------
(* A coroutine: co_await sem->acquire() *)

Acquire(w) ==
  /\ w \in refs /\ acq[w] = "ready"
  /\ count' = count - 1
  /\ waiters' = IF Sem!MustWait(count) THEN waiters + 1 ELSE waiters
  /\ acq' = [acq EXCEPT ![w] = IF Sem!MustWait(count) THEN "enqueue" ELSE "granted"]
  /\ UNCHANGED <<queueVars, rel, started, refs, refcnt>>

EnqueueWaiter(w) ==
  /\ acq[w] = "enqueue"
  /\ \E n \in Nodes : Queue!Enqueue(w, n)
  /\ UNCHANGED <<count, waiters, acq, rel, started, refs, refcnt>>

\* No memory for a node, which may happen at any time: enqueue returns false,
\* await_suspend true all the same.
EnqueueFails(w) ==
  /\ acq[w] = "enqueue" /\ prod[w].pc = "enqueue"
  /\ prod' = [prod EXCEPT ![w].pc = "done"]
  /\ acq' = [acq EXCEPT ![w] = "lost"]
  /\ UNCHANGED <<m_head, m_tail, next, value, heap, cons, m_mutex, arr, life, chain, count, waiters, rel, started, refs, refcnt>>

LinkWaiter(w) ==
  /\ Queue!Link(w)
  /\ acq' = [acq EXCEPT ![w] = "waiting"]
  /\ UNCHANGED <<count, waiters, rel, started, refs, refcnt>>

\* The end of enqueue, by when the coroutine may be running elsewhere.
NotifyReleaser(w) ==
  /\ Queue!Notify(w)
  /\ UNCHANGED <<count, waiters, acq, rel, started, refs, refcnt>>

\* The coroutine has its permit, and ends.
End(w) == acq[w] = "granted" /\ Drop(w)

\* with_timeout goes on without the acquisition, whose own coroutine stays
\* where it is and holds no rc_ptr; the caller ends.
GiveUp(w) == acq[w] \in {"waiting", "lost"} /\ prod[w].pc = "done" /\ Drop(w)

-----------------------------------------------------------------------------
(* A releaser: sem->release() *)

ReleaseOne(r) ==
  /\ r \in refs /\ rel[r] = "ready"
  /\ count' = count + 1
  /\ waiters' = Sem!LeftWaiting(1)
  /\ rel' = [rel EXCEPT ![r] = IF Sem!NeedWake(1) > 0 THEN "wake" ELSE "done"]
  /\ UNCHANGED <<queueVars, acq, started, refs, refcnt>>

\* m_waiters.wait_dequeue(std::unique_lock { m_mutex }), up to its return.
Dequeue(r) ==
  /\ rel[r] = "wake"
  /\ \/ Queue!BeginWait(r) \/ Queue!LoadNext(r) \/ Queue!Loop(r)
     \/ Queue!Wait(r) \/ Queue!Recheck(r) \/ Queue!ReloadTail(r)
  /\ UNCHANGED <<count, waiters, acq, rel, started, refs, refcnt>>

\* The dequeue returns a handle, and release() resumes it.
Resume(r) ==
  /\ Queue!Pop(r)
  /\ acq' = [acq EXCEPT ![Handle(value[cons[r].next])] = "granted"]
  /\ rel' = [rel EXCEPT ![r] = "done"]
  /\ UNCHANGED <<count, waiters, started, refs, refcnt>>

ReleaserEnds(r) == rel[r] = "done" /\ Drop(r)

\* The timer was stopped, and the sleep destroyed with its callback.
Cancel(r) == rel[r] = "ready" /\ Drop(r)

-----------------------------------------------------------------------------

\* Why a waiter or a releaser may be stuck: a spin, a waiter in no queue, a
\* releaser asleep on a recycled address, a release that never comes.
Asleep == {r \in Releasers : cons[r].pc = "asleep"}
Hung ==
  \/ \E r \in Releasers : Spins(r)
  \/ \E w \in Coroutines : acq[w] = "lost"
  \/ \E r \in Asleep : cons[r].head # m_head
  \/ \E r \in started \ refs : r \in Releasers /\ rel[r] = "ready"

Ended == life = "gone" /\ \A w \in Coroutines : prod[w].pc # "notify"
Terminating == (Ended \/ Hung) /\ UNCHANGED vars

CoroutineStep(w) ==
  Start(w) \/ Acquire(w) \/ EnqueueWaiter(w) \/ EnqueueFails(w) \/ LinkWaiter(w) \/ NotifyReleaser(w) \/ End(w)
ReleaserStep(r) == Start(r) \/ ReleaseOne(r) \/ Dequeue(r) \/ Resume(r) \/ ReleaserEnds(r)

Next ==
  \/ OwnerEnds
  \/ \E w \in Coroutines : CoroutineStep(w) \/ GiveUp(w)
  \/ \E r \in Releasers : ReleaserStep(r) \/ Cancel(r)
  \/ Terminating

\* Threads run on, and the callbacks are called in the end; nothing makes a
\* timeout fire.
Fairness ==
  /\ WF_vars(OwnerEnds)
  /\ \A w \in Coroutines : WF_vars(CoroutineStep(w))
  /\ \A r \in Releasers : WF_vars(ReleaserStep(r))

Spec == Init /\ [][Next]_vars /\ Fairness

-----------------------------------------------------------------------------
(* Properties *)

\* The semaphore over its real queue behaves as CountingSemaphore says, with
\* several releasers in wait_dequeue and acquisitions given up, except that a
\* waiter whose node could not be allocated is not destroyed (sync.hpp:104).
LeaksWaiter == life' = "gone" /\ \E w \in Coroutines : acq[w] = "lost"
SemaphoreSpec == Sem!Init /\ [][Sem!Next \/ LeaksWaiter]_(Sem!vars)

\* Nobody is inside the semaphore, its mutex or its queue when the last rc_ptr
\* goes, but for the notify_one of an enqueue whose coroutine went on
\* (sync.hpp:105); and while it is there, no deleted node is touched.
NoUseAfterFree ==
  /\ Queue!NoDanglingDeref
  /\ life = "gone" =>
       /\ m_mutex = Null
       /\ \A w \in Coroutines : w \notin refs /\ acq[w] # "enqueue"
       /\ \A r \in Releasers : r \notin refs /\ cons[r].pc = "idle"

\* When everybody has ended, semaphore and nodes are freed, and each acquisition
\* that was given up (main.cpp:104) has taken a permit or been destroyed with
\* the semaphore.
NothingLeft ==
  refs = {} =>
    /\ life = "gone" /\ heap = {}
    /\ \A w \in Coroutines : acq[w] \in {"granted", "destroyed", "lost"}

\* The last rc_ptr deletes the semaphore, and not before.
MemorySafe == NoUseAfterFree /\ NothingLeft

\* There is a permit for every acquisition, also for those given up: all
\* coroutines and all calls of release() come to an end, unless something hangs.
EverybodyEnds == <>[]Hung \/ <>(started = Users /\ refs = {})
==============================================================================
