-------------------------- MODULE CountingSemaphore --------------------------
(***************************************************************************)
(* coro::CountingSemaphore (include/sync.hpp): one atomic word holds the   *)
(* permit count and the number of waiters nobody has promised to wake;     *)
(* the handles of suspended coroutines are in an nct::AtomicQueue.         *)
(*                                                                         *)
(* A task is a coroutine together with the thread that runs it.  release() *)
(* resumes a waiter inline, on its own stack; here the waiter and the      *)
(* releaser then run concurrently, which allows more interleavings.        *)
(* The queue is the abstract FifoQueue, which AtomicQueue implements.      *)
(***************************************************************************)
EXTENDS Integers, Sequences, FiniteSets

CONSTANTS
  Tasks,
  InitCount,       \* the constructor's argument
  ReleaseAmounts,  \* arguments of release(); negative ones withdraw permits
  MaxUnused,       \* bound: permits free, or on their way to a waiter, at a time
  MaxOverdrawn     \* bound: permits withdrawn in a behaviour that were not there

ASSUME SemaphoreAssumption ==
  /\ IsFiniteSet(Tasks)
  /\ InitCount \in Nat /\ MaxUnused \in Nat /\ MaxOverdrawn \in Nat
  /\ ReleaseAmounts \subseteq Int

VARIABLES
  count, waiters,    \* m_count
  m_waiters, linked, \* the waiter queue: its order, the linked elements
  pc,                \* per task: "running", "enqueue", "link", "suspended",
                     \* "wake", "spin", "destroyed"
  need_wake,         \* per task: wakeups its release() has yet to deliver
  alive,             \* the semaphore has not been destroyed
  unused,            \* ghost: permits there were, or were released since, less
                     \* those withdrawn and those that a coroutine has acquired
  overdrawn          \* ghost: permits withdrawn while there were none

semVars == <<count, waiters, m_waiters, linked, pc, need_wake, alive>>
ghostVars == <<unused, overdrawn>>
vars == <<semVars, ghostVars>>

Queue == INSTANCE FifoQueue WITH Elements <- Tasks, items <- m_waiters, published <- linked

Init ==
  /\ count = InitCount /\ waiters = 0
  /\ Queue!Init
  /\ pc = [t \in Tasks |-> "running"]
  /\ need_wake = [t \in Tasks |-> 0]
  /\ alive = TRUE
  /\ unused = InitCount /\ overdrawn = 0

Running(t) == alive /\ pc[t] = "running"

-----------------------------------------------------------------------------
(* acquire() and try_acquire() *)

\* Mutant: a coroutine waits although the last permit is there.
MustWaitAtZero(c) == c - 1 <= 0

MustWait(c) == c - 1 < 0

\* acquire_helper's compare_exchange, through await_suspend.
Acquire(t) ==
  /\ Running(t)
  /\ count' = count - 1
  /\ IF MustWait(count)
       THEN /\ waiters' = waiters + 1
            /\ pc' = [pc EXCEPT ![t] = "enqueue"]
            /\ UNCHANGED unused
       ELSE unused' = unused - 1 /\ UNCHANGED <<waiters, pc>>
  /\ UNCHANGED <<m_waiters, linked, need_wake, alive, overdrawn>>

\* m_waiters.enqueue(handle) in its two steps; await_suspend returns true.
EnqueueWaiter(t) ==
  /\ pc[t] = "enqueue"
  /\ Queue!Claim(t)
  /\ pc' = [pc EXCEPT ![t] = "link"]
  /\ UNCHANGED <<count, waiters, need_wake, alive, ghostVars>>

LinkWaiter(t) ==
  /\ pc[t] = "link"
  /\ Queue!Publish(t)
  /\ pc' = [pc EXCEPT ![t] = "suspended"]
  /\ UNCHANGED <<count, waiters, need_wake, alive, ghostVars>>

\* Mutant: try_acquire takes a permit that is on its way to a waiter.
AvailableAtZero == count >= 0

Available == count > 0

\* A successful try_acquire; a failing one writes back what it read.
TryAcquire(t) ==
  /\ Running(t)
  /\ Available
  /\ count' = count - 1
  /\ unused' = unused - 1
  /\ UNCHANGED <<waiters, m_waiters, linked, pc, need_wake, alive, overdrawn>>

-----------------------------------------------------------------------------
(* release() *)

\* Mutants: release wakes every waiter, nobody, or n waiters whether they are
\* there or not; the woken ones still count as waiting.
WakesAll(n) == waiters
WakesNobody(n) == 0
WakesRequested(n) == IF n > 0 THEN n ELSE 0
NoneLeave(n) == waiters

NeedWake(n) == IF n > 0 THEN (IF n < waiters THEN n ELSE waiters) ELSE 0
LeftWaiting(n) == waiters - NeedWake(n)

\* What a withdrawal of -n permits takes beyond those that are free.
Free == IF count > 0 THEN count ELSE 0
Overdraft(n) == IF Free + n < 0 THEN -(Free + n) ELSE 0

\* The compare_exchange of release(n), which withdraws permits unchecked.
Release(t, n) ==
  /\ Running(t)
  /\ n \in ReleaseAmounts
  /\ unused + n <= MaxUnused
  /\ overdrawn + Overdraft(n) <= MaxOverdrawn
  /\ count' = count + n
  /\ waiters' = LeftWaiting(n)
  /\ need_wake' = [need_wake EXCEPT ![t] = NeedWake(n)]
  /\ pc' = [pc EXCEPT ![t] = IF NeedWake(n) > 0 THEN "wake" ELSE "running"]
  /\ unused' = unused + n
  /\ overdrawn' = overdrawn + Overdraft(n)
  /\ UNCHANGED <<m_waiters, linked, alive>>

\* A spinning wait_dequeue keeps m_mutex.
MutexFree == \A t \in Tasks : pc[t] # "spin"

\* wait_dequeue returns w, and release() resumes it.
Wake(t, w) ==
  /\ pc[t] = "wake"
  /\ MutexFree
  /\ Queue!Take(w)
  /\ need_wake' = [need_wake EXCEPT ![t] = @ - 1]
  /\ pc' = [pc EXCEPT ![t] = IF need_wake[t] = 1 THEN "running" ELSE @, ![w] = "running"]
  /\ unused' = unused - 1
  /\ UNCHANGED <<count, waiters, alive, overdrawn>>

\* wait_dequeue found the front element claimed but not linked: it read next
\* once, and spins with the mutex held for good, whether or not the element
\* has been linked by the time it looks at the tail.
SpinForever(t) ==
  /\ pc[t] = "wake"
  /\ MutexFree
  /\ m_waiters # << >>
  /\ pc' = [pc EXCEPT ![t] = "spin"]
  /\ UNCHANGED <<count, waiters, m_waiters, linked, need_wake, alive, ghostVars>>

-----------------------------------------------------------------------------

\* Mutant: `if` instead of `while` in the destructor.
OldestAbandoned == IF m_waiters = << >> THEN {} ELSE {Head(m_waiters)}

Abandoned == {m_waiters[i] : i \in DOMAIN m_waiters}

\* ~CountingSemaphore, when no call is in progress: the handles still queued
\* are destroyed.
Destroy ==
  /\ alive
  /\ \A t \in Tasks : pc[t] \in {"running", "suspended"}
  /\ alive' = FALSE
  /\ pc' = [t \in Tasks |-> IF t \in Abandoned THEN "destroyed" ELSE pc[t]]
  /\ m_waiters' = << >> /\ linked' = {}
  /\ UNCHANGED <<count, waiters, need_wake, ghostVars>>

\* The spin hangs its task and every later wakeup; the rest may have finished.
Stopped == ~alive \/ \E t \in Tasks : pc[t] = "spin"
Terminating == Stopped /\ UNCHANGED vars

Next ==
  \/ \E t \in Tasks :
       \/ Acquire(t) \/ EnqueueWaiter(t) \/ LinkWaiter(t) \/ TryAcquire(t)
       \/ \E n \in ReleaseAmounts : Release(t, n)
       \/ \E w \in Tasks : Wake(t, w)
       \/ SpinForever(t)
  \/ Destroy \/ Terminating

Spec == Init /\ [][Next]_vars

-----------------------------------------------------------------------------
(* Properties *)

\* The types of sync.hpp; `unsigned waiters` never wraps.
TypeOK ==
  /\ count \in Int /\ waiters \in Nat
  /\ Queue!TypeOK
  /\ pc \in [Tasks -> {"running", "enqueue", "link", "suspended", "wake", "spin", "destroyed"}]
  /\ need_wake \in [Tasks -> Nat]
  /\ alive \in BOOLEAN
  /\ unused \in Int /\ overdrawn \in Nat

\* acquire, try_acquire and the wakeups of release together never admit more
\* coroutines than there were permits, but for permits that release(-n) has
\* withdrawn when they were not there: count is then below zero without a
\* waiter, and the next release(1) wakes one all the same (sync.hpp:55-58).
GrantsWithinPermits == unused + overdrawn >= 0

\* A free permit and a coroutine that nobody has promised to wake never
\* coexist, and count falls below zero by one per such coroutine and permit
\* overdrawn: the two halves of Counter are updated together.
Missing == IF count < 0 THEN -count ELSE 0
NoIdlePermit == waiters <= Missing /\ Missing <= waiters + overdrawn

\* Every wakeup a release() still owes has a coroutine to go to, queued or on
\* its way into the queue, so its wait_dequeue does not block for good.
Registered == {t \in Tasks : pc[t] \in {"enqueue", "link", "suspended"}}
Owed == UNION {{t} \X (1..need_wake[t]) : t \in Tasks}
WakeupsMatchWaiters == alive => Cardinality(Registered) = waiters + Cardinality(Owed)

\* The destructor reaches every suspended coroutine (sync.hpp:44-48).
NoneLeftSuspended == ~alive => Registered = {}
==============================================================================
