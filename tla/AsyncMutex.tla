------------------------------ MODULE AsyncMutex ------------------------------
(***************************************************************************)
(* coro::Mutex (include/sync.hpp): a CountingSemaphore with one permit;    *)
(* lock, try_lock and unlock are acquire, try_acquire and release(1).      *)
(* Only the coroutine that holds the mutex unlocks it, and it may lock it  *)
(* again any number of times.                                              *)
(***************************************************************************)
EXTENDS Integers, Sequences, FiniteSets

CONSTANT Tasks

ASSUME MutexAssumption == IsFiniteSet(Tasks)

VARIABLES
  count, waiters, m_waiters, linked, pc, need_wake, alive,
  unused,                    \* m_sem, see CountingSemaphore
  holders                    \* ghost: tasks between lock and unlock

\* Mutant: Mutex(): m_sem(2).
TwoPermits == 2

\* Mutex(): m_sem(1)
Permits == 1

\* Whoever unlocks had the permit, so MaxUnused does not bind.
m_sem == INSTANCE CountingSemaphore
  WITH InitCount <- Permits, ReleaseAmounts <- {1},
       MaxUnused <- Permits, MaxOverdrawn <- 0, overdrawn <- 0

semVars == <<count, waiters, m_waiters, linked, pc, need_wake, alive, unused>>
vars == <<semVars, holders>>

Init == m_sem!Init /\ holders = {}

\* lock() returns at once, or await_suspend suspends the caller.
Lock(t) ==
  /\ t \notin holders
  /\ m_sem!Acquire(t)
  /\ holders' = IF pc'[t] = "running" THEN holders \cup {t} ELSE holders

TryLock(t) ==
  /\ t \notin holders
  /\ m_sem!TryAcquire(t)
  /\ holders' = holders \cup {t}

Suspend(t) ==
  /\ m_sem!EnqueueWaiter(t) \/ m_sem!LinkWaiter(t)
  /\ UNCHANGED holders

Unlock(t) ==
  /\ t \in holders
  /\ m_sem!Release(t, 1)
  /\ holders' = holders \ {t}

\* The rest of unlock(): the mutex goes to w.
HandOver(t, w) ==
  /\ m_sem!Wake(t, w)
  /\ holders' = holders \cup {w}

\* unlock() met a waiter that is being linked, and its wait_dequeue spins.
Spin(t) == m_sem!SpinForever(t) /\ UNCHANGED holders

Spinning == \E t \in Tasks : pc[t] = "spin"
Terminating == Spinning /\ UNCHANGED vars

Next ==
  \/ \E t \in Tasks :
       \/ Lock(t) \/ TryLock(t) \/ Suspend(t) \/ Unlock(t)
       \/ \E w \in Tasks : HandOver(t, w)
       \/ Spin(t)
  \/ Terminating

Spec == Init /\ [][Next]_vars

\* A thread inside lock() or unlock() goes on, and every critical section ends.
FairSpec ==
  Spec /\ \A t \in Tasks :
            /\ WF_vars(Suspend(t) \/ Spin(t) \/ \E w \in Tasks : HandOver(t, w))
            /\ WF_vars(Unlock(t))

-----------------------------------------------------------------------------
(* Properties *)

\* At most one coroutine is between lock and unlock (sync.hpp:116-135).
MutualExclusion == \A t, u \in holders : t = u

\* lock and try_lock never overtake a queued coroutine, and unlock hands the
\* mutex to the oldest one: it is not free in between.
NoOvertaking ==
  [][\A t \in holders' \ holders : m_waiters = << >> \/ t = Head(m_waiters)]_vars

\* Every coroutine that waits in lock() gets the mutex if critical sections
\* end, however often the others lock it, unless an unlock() spins.
NoStarvation == \A t \in Tasks : (t \in m_sem!Registered) ~> (t \in holders \/ Spinning)
==============================================================================
