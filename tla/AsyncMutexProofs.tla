--------------------------- MODULE AsyncMutexProofs ---------------------------
(***************************************************************************)
(* For any finite set of tasks: at most one coroutine holds the Mutex, and *)
(* it is handed to the oldest waiter.                                      *)
(*                                                                         *)
(* A behaviour of AsyncMutex is one of its semaphore, so what is proved of *)
(* CountingSemaphore holds of m_sem.                                       *)
(***************************************************************************)
EXTENDS AsyncMutex, FiniteSetTheorems, SequenceTheorems, TLAPS

USE MutexAssumption DEF MutexAssumption

Sem == INSTANCE CountingSemaphoreProofs
  WITH InitCount <- Permits, ReleaseAmounts <- {1},
       MaxUnused <- Permits, MaxOverdrawn <- 0, overdrawn <- 0

\* An instance has its own name for the operators of FiniteSets.
LEMMA SemSets ==
  ASSUME NEW S
  PROVE  (Sem!IsFiniteSet(S) <=> IsFiniteSet(S)) /\ Sem!Cardinality(S) = Cardinality(S)
<1>1. Sem!IsFiniteSet(S) <=> IsFiniteSet(S)
  BY Zenon DEF Sem!IsFiniteSet, IsFiniteSet
<1>2. Sem!Cardinality(S) = Cardinality(S)
  BY Zenon DEF Sem!Cardinality, Cardinality
<1> QED
  BY <1>1, <1>2

\* Every step of the mutex is one of its semaphore, or none.
LEMMA SemStep == [Next]_vars => [Sem!Next]_(Sem!vars)
<1>1. ASSUME NEW t \in Tasks, m_sem!Acquire(t) PROVE Sem!Acquire(t)
  BY <1>1, Zenon DEF m_sem!Acquire, Sem!Acquire, m_sem!Running, Sem!Running, m_sem!MustWait, Sem!MustWait
<1>2. ASSUME NEW t \in Tasks, m_sem!TryAcquire(t) PROVE Sem!TryAcquire(t)
  BY <1>2, Zenon DEF m_sem!TryAcquire, Sem!TryAcquire, m_sem!Running, Sem!Running, m_sem!Available,
     Sem!Available
<1>3. ASSUME NEW t \in Tasks, Suspend(t) PROVE Sem!EnqueueWaiter(t) \/ Sem!LinkWaiter(t)
  BY <1>3, Zenon DEF Suspend, m_sem!EnqueueWaiter, Sem!EnqueueWaiter, m_sem!LinkWaiter, Sem!LinkWaiter,
     m_sem!Queue!Claim, Sem!Queue!Claim, m_sem!Queue!Publish, Sem!Queue!Publish, m_sem!ghostVars, Sem!ghostVars
<1>4. ASSUME NEW t \in Tasks, m_sem!Release(t, 1) PROVE Sem!Release(t, 1)
  BY <1>4, Zenon DEF m_sem!Release, Sem!Release, m_sem!Running, Sem!Running, m_sem!NeedWake, Sem!NeedWake,
     m_sem!LeftWaiting, Sem!LeftWaiting, m_sem!Free, Sem!Free, m_sem!Overdraft, Sem!Overdraft
<1>5. ASSUME NEW t \in Tasks, NEW w \in Tasks, m_sem!Wake(t, w) PROVE Sem!Wake(t, w)
  BY <1>5, Zenon DEF m_sem!Wake, Sem!Wake, m_sem!MutexFree, Sem!MutexFree, m_sem!Queue!Take, Sem!Queue!Take,
     m_sem!Queue!FrontVisible, Sem!Queue!FrontVisible
<1>6. 1 \in {1}
  OBVIOUS
<1>8. ASSUME NEW t \in Tasks, Spin(t) PROVE Sem!SpinForever(t)
  BY <1>8, Zenon DEF Spin, m_sem!SpinForever, Sem!SpinForever, m_sem!MutexFree, Sem!MutexFree,
     m_sem!ghostVars, Sem!ghostVars
<1>7. CASE UNCHANGED vars
  BY <1>7 DEF vars, semVars, Sem!vars, Sem!semVars, Sem!ghostVars
<1> QED
  BY <1>1, <1>2, <1>3, <1>4, <1>5, <1>6, <1>7, <1>8, Zenon
     DEF Next, Lock, TryLock, Unlock, HandOver, Terminating, Sem!Next

LEMMA SemInvariant == Spec => [](Sem!CountInv /\ Sem!MatchInv)
<1>1. Sem!SemaphoreAssumption
  BY SemSets DEF Sem!SemaphoreAssumption, Permits
<1>2. Init => Sem!Init
  BY Zenon DEF Init, m_sem!Init, Sem!Init, m_sem!Queue!Init, Sem!Queue!Init
<1> QED
  BY <1>1, <1>2, SemStep, Sem!CountInvariant, Sem!MatchInvariant, PTL DEF Spec, Sem!Spec

-----------------------------------------------------------------------------
(* Holders *)

Waiting(t) == pc[t] \in {"enqueue", "link", "suspended"}

\* What the mutex needs of its semaphore: with one permit, a permit that is
\* free or on its way to a waiter is one that nobody holds.
LEMMA OnePermit ==
  ASSUME Sem!CountInv, Sem!MatchInv
  PROVE  /\ count \in Int /\ waiters \in Nat /\ unused \in Int
         /\ m_waiters \in Seq(Tasks)
         /\ pc \in [Tasks -> {"running", "enqueue", "link", "suspended", "wake", "spin", "destroyed"}]
         /\ \A t \in linked : pc[t] = "suspended"
         /\ unused >= 0
         /\ count > 0 => unused >= 1
         /\ count > 0 /\ unused = 1 /\ alive => \A t \in Tasks : ~Waiting(t)
<1> DEFINE owed == Sem!Cardinality(Sem!Owed)
<1>1. owed \in Nat
  BY SemSets, FS_CardinalityType DEF Sem!CountInv
<1>2. Sem!TypeOK /\ Sem!NoIdlePermit /\ unused = count + waiters + owed
  BY DEF Sem!CountInv
<1> HIDE DEF owed
<1>3. /\ unused >= 0
      /\ count > 0 => unused >= 1
      /\ count > 0 /\ unused = 1 => waiters = 0 /\ owed = 0
  BY <1>1, <1>2 DEF Sem!TypeOK, Sem!NoIdlePermit, Sem!Missing
<1>4. ASSUME count > 0, unused = 1, alive
      PROVE  \A t \in Tasks : ~Waiting(t)
  <2>1. Cardinality(Sem!Registered) = 0
    BY <1>3, <1>4, SemSets DEF Sem!MatchInv, Sem!WakeupsMatchWaiters, owed
  <2>2. IsFiniteSet(Sem!Registered)
    BY FS_Subset DEF Sem!Registered
  <2> QED
    BY <2>1, <2>2, FS_EmptySet DEF Sem!Registered, Waiting
<1> QED
  BY <1>2, <1>3, <1>4 DEF Sem!TypeOK, Sem!Queue!TypeOK, Sem!CountInv

\* A coroutine is in the queue once, and only while it waits; the holders are
\* running, and as many as permits are out.
MutexInv ==
  /\ \A i, j \in DOMAIN m_waiters : m_waiters[i] = m_waiters[j] => i = j
  /\ \A i \in DOMAIN m_waiters : pc[m_waiters[i]] \in {"link", "suspended"}
  /\ holders \subseteq Tasks /\ \A t \in holders : pc[t] = "running"
  /\ Cardinality(holders) = 1 - unused

LEMMA HoldersFinite ==
  ASSUME MutexInv
  PROVE  /\ IsFiniteSet(holders) /\ Cardinality(holders) \in Nat
         /\ \A t \in Tasks \ holders : Cardinality(holders \cup {t}) = Cardinality(holders) + 1
         /\ \A t \in holders : Cardinality(holders \ {t}) = Cardinality(holders) - 1
<1>1. IsFiniteSet(holders)
  BY FS_Subset DEF MutexInv
<1> QED
  BY <1>1, FS_CardinalityType, FS_AddElement, FS_RemoveElement

\* A free permit means that nobody waits.
LEMMA NobodyWaits ==
  ASSUME Sem!CountInv, Sem!MatchInv, MutexInv, alive, count > 0
  PROVE  m_waiters = << >>
<1>1. \A t \in Tasks : ~Waiting(t)
  BY OnePermit, HoldersFinite DEF MutexInv
<1>2. ASSUME m_waiters # << >> PROVE FALSE
  <2>1. 1 \in DOMAIN m_waiters /\ m_waiters[1] \in Tasks
    BY <1>2, OnePermit, HeadTailProperties, LenProperties, EmptySeq
  <2> QED
    BY <1>1, <2>1 DEF MutexInv, Waiting
<1> QED
  BY <1>2

LEMMA MutexInit == Init => MutexInv
<1> SUFFICES ASSUME Init PROVE MutexInv
  OBVIOUS
<1>1. Cardinality({}) = 0
  BY FS_EmptySet
<1> QED
  BY <1>1 DEF Init, MutexInv, m_sem!Init, m_sem!Queue!Init, Permits

LEMMA MutexStep ==
  ASSUME Sem!CountInv, Sem!MatchInv, MutexInv, [Next]_vars
  PROVE  MutexInv' /\ (\A t \in holders' \ holders : m_waiters = << >> \/ t = Head(m_waiters))
<1> DEFINE Goal == MutexInv' /\ (\A t \in holders' \ holders : m_waiters = << >> \/ t = Head(m_waiters))
<1> USE OnePermit, HoldersFinite
<1>0. ASSUME NEW t \in Tasks \ holders, pc[t] = "running", m_waiters = << >>,
             unused' = unused - 1, holders' = holders \cup {t},
             UNCHANGED <<m_waiters, pc>>
      PROVE  Goal
  <2>1. holders' \subseteq Tasks /\ \A u \in holders' : pc'[u] = "running"
    BY <1>0 DEF MutexInv
  <2>2. (Cardinality(holders) = 1 - unused)'
    <3>1. Cardinality(holders') = Cardinality(holders) + 1
      BY <1>0
    <3> QED
      BY <1>0, <3>1 DEF MutexInv
  <2> QED
    BY <1>0, <2>1, <2>2 DEF MutexInv
<1>1. ASSUME NEW t \in Tasks, Lock(t) PROVE Goal
  <2>1. /\ t \notin holders /\ pc[t] = "running" /\ alive
        /\ UNCHANGED m_waiters
    BY <1>1 DEF Lock, m_sem!Acquire, m_sem!Running
  <2>2. CASE m_sem!MustWait(count)
    <3>1. pc' = [pc EXCEPT ![t] = "enqueue"] /\ UNCHANGED <<holders, unused>>
      BY <1>1, <2>2 DEF Lock, m_sem!Acquire
    <3> QED
      BY <2>1, <3>1 DEF MutexInv
  <2>3. CASE ~m_sem!MustWait(count)
    <3>1. count > 0 /\ pc' = pc /\ unused' = unused - 1
      BY <1>1, <2>3 DEF Lock, m_sem!Acquire, m_sem!MustWait
    <3>2. holders' = holders \cup {t}
      BY <1>1, <2>1, <3>1 DEF Lock
    <3>3. m_waiters = << >>
      BY <2>1, <3>1, NobodyWaits
    <3> QED
      BY <1>0, <2>1, <3>1, <3>2, <3>3
  <2> QED
    BY <2>2, <2>3
<1>2. ASSUME NEW t \in Tasks, TryLock(t) PROVE Goal
  <2>1. /\ t \notin holders /\ pc[t] = "running" /\ alive /\ count > 0
        /\ unused' = unused - 1 /\ holders' = holders \cup {t}
        /\ UNCHANGED <<m_waiters, pc>>
    BY <1>2 DEF TryLock, m_sem!TryAcquire, m_sem!Running, m_sem!Available
  <2>2. m_waiters = << >>
    BY <2>1, NobodyWaits
  <2> QED
    BY <1>0, <2>1, <2>2
<1>3. ASSUME NEW t \in Tasks, Suspend(t) PROVE Goal
  <2>1. CASE m_sem!EnqueueWaiter(t)
    <3>1. /\ pc[t] = "enqueue" /\ pc' = [pc EXCEPT ![t] = "link"]
          /\ m_waiters' = Append(m_waiters, t) /\ \A i \in DOMAIN m_waiters : m_waiters[i] # t
          /\ UNCHANGED <<holders, unused>>
      BY <1>3, <2>1 DEF Suspend, m_sem!EnqueueWaiter, m_sem!Queue!Claim, m_sem!ghostVars
    <3>2. /\ DOMAIN m_waiters' = DOMAIN m_waiters \cup {Len(m_waiters) + 1}
          /\ \A i \in DOMAIN m_waiters : i # Len(m_waiters) + 1 /\ m_waiters'[i] = m_waiters[i]
          /\ m_waiters'[Len(m_waiters) + 1] = t
      BY <3>1, AppendProperties, LenProperties
    <3>3. t \notin holders
      BY <3>1 DEF MutexInv
    <3>4. \A i \in DOMAIN m_waiters' : m_waiters'[i] # t <=> i \in DOMAIN m_waiters
      BY <3>1, <3>2
    <3>5. (\A i, j \in DOMAIN m_waiters : m_waiters[i] = m_waiters[j] => i = j)'
      BY <3>2, <3>4 DEF MutexInv
    <3>6. (\A i \in DOMAIN m_waiters : pc[m_waiters[i]] \in {"link", "suspended"})'
      <4> SUFFICES ASSUME NEW i \in DOMAIN m_waiters' PROVE pc'[m_waiters'[i]] \in {"link", "suspended"}
        OBVIOUS
      <4>1. CASE i \in DOMAIN m_waiters
        BY <3>1, <3>2, <4>1 DEF MutexInv
      <4>2. CASE i \notin DOMAIN m_waiters
        BY <3>1, <3>2, <4>2
      <4> QED
        BY <4>1, <4>2
    <3>7. holders' \subseteq Tasks /\ \A u \in holders' : pc'[u] = "running"
      BY <3>1, <3>3 DEF MutexInv
    <3>8. (Cardinality(holders) = 1 - unused)'
      BY <3>1 DEF MutexInv
    <3> QED
      BY <3>1, <3>5, <3>6, <3>7, <3>8 DEF MutexInv
  <2>2. CASE m_sem!LinkWaiter(t)
    <3>1. /\ pc[t] = "link" /\ pc' = [pc EXCEPT ![t] = "suspended"]
          /\ UNCHANGED <<m_waiters, holders, unused>>
      BY <1>3, <2>2 DEF Suspend, m_sem!LinkWaiter, m_sem!Queue!Publish, m_sem!ghostVars
    <3>2. (\A i \in DOMAIN m_waiters : pc[m_waiters[i]] \in {"link", "suspended"})'
      BY <3>1 DEF MutexInv
    <3>3. (Cardinality(holders) = 1 - unused)'
      BY <3>1 DEF MutexInv
    <3>4. holders' \subseteq Tasks /\ \A u \in holders' : pc'[u] = "running"
      BY <3>1 DEF MutexInv
    <3> QED
      BY <3>1, <3>2, <3>3, <3>4 DEF MutexInv
  <2> QED
    BY <1>3, <2>1, <2>2 DEF Suspend
<1>4. ASSUME NEW t \in Tasks, Unlock(t) PROVE Goal
  <2>1. /\ t \in holders /\ pc[t] = "running" /\ holders' = holders \ {t}
        /\ \E p \in {"running", "wake"} : pc' = [pc EXCEPT ![t] = p]
        /\ unused' = unused + 1 /\ UNCHANGED m_waiters
    BY <1>4 DEF Unlock, m_sem!Release, m_sem!Running
  <2> QED
    BY <2>1 DEF MutexInv
<1>5. ASSUME NEW t \in Tasks, NEW w \in Tasks, HandOver(t, w) PROVE Goal
  <2>1. /\ pc[t] = "wake" /\ w \in linked /\ m_waiters # << >> /\ w = Head(m_waiters)
        /\ m_waiters' = Tail(m_waiters) /\ holders' = holders \cup {w}
        /\ \E p \in {"running", "wake"} : pc' = [pc EXCEPT ![t] = p, ![w] = "running"]
        /\ unused' = unused - 1
    BY <1>5 DEF HandOver, m_sem!Wake, m_sem!Queue!Take, m_sem!Queue!FrontVisible
  <2>2. pc[w] = "suspended" /\ w \notin holders /\ t \notin holders
    BY <2>1 DEF MutexInv
  <2>3. /\ DOMAIN m_waiters' = {i \in Nat : i + 1 \in DOMAIN m_waiters /\ i > 0}
        /\ \A i \in DOMAIN m_waiters' : m_waiters'[i] = m_waiters[i + 1] /\ i + 1 # 1
        /\ 1 \in DOMAIN m_waiters /\ m_waiters[1] = w
    BY <2>1, HeadTailProperties, LenProperties
  <2>4. \A i \in DOMAIN m_waiters' : m_waiters'[i] # w
    BY <2>3 DEF MutexInv
  <2>5. MutexInv'
    <3>1. (\A i, j \in DOMAIN m_waiters : m_waiters[i] = m_waiters[j] => i = j)'
      BY <2>3 DEF MutexInv
    <3>2. (\A i \in DOMAIN m_waiters : pc[m_waiters[i]] \in {"link", "suspended"})'
      <4> SUFFICES ASSUME NEW i \in DOMAIN m_waiters' PROVE pc'[m_waiters'[i]] \in {"link", "suspended"}
        OBVIOUS
      <4>1. m_waiters'[i] # w /\ pc[m_waiters'[i]] \in {"link", "suspended"}
        BY <2>3, <2>4 DEF MutexInv
      <4> QED
        BY <2>1, <4>1
    <3>3. holders' \subseteq Tasks /\ \A u \in holders' : pc'[u] = "running"
      BY <2>1, <2>2 DEF MutexInv
    <3>4. (Cardinality(holders) = 1 - unused)'
      <4>1. Cardinality(holders') = Cardinality(holders) + 1 /\ unused' = unused - 1
        BY <2>1, <2>2
      <4> QED
        BY <4>1 DEF MutexInv
    <3> QED
      BY <3>1, <3>2, <3>3, <3>4 DEF MutexInv
  <2> QED
    BY <2>1, <2>5
<1>6. ASSUME NEW t \in Tasks, Spin(t) PROVE Goal
  <2>1. /\ pc[t] = "wake" /\ pc' = [pc EXCEPT ![t] = "spin"]
        /\ UNCHANGED <<m_waiters, holders, unused>>
    BY <1>6 DEF Spin, m_sem!SpinForever, m_sem!ghostVars
  <2> QED
    BY <2>1 DEF MutexInv
<1>7. CASE UNCHANGED vars
  BY <1>7 DEF vars, semVars, MutexInv
<1> QED
  BY <1>1, <1>2, <1>3, <1>4, <1>5, <1>6, <1>7 DEF Next, Terminating

\* The invariants of the semaphore hold of m_sem, and the tasks between lock()
\* and unlock() are as many as the permits it has given out.
THEOREM MutexInvariant == Spec => [](Sem!CountInv /\ Sem!MatchInv /\ MutexInv)
BY SemInvariant, MutexInit, MutexStep, PTL DEF Spec

\* Two coroutines are never both between lock() and unlock().
THEOREM OneHolder == Spec => []MutualExclusion
<1>1. Sem!CountInv /\ Sem!MatchInv /\ MutexInv => MutualExclusion
  <2> SUFFICES ASSUME Sem!CountInv, Sem!MatchInv, MutexInv,
                      NEW t \in holders, NEW u \in holders, t # u
               PROVE  FALSE
    BY DEF MutualExclusion
  <2>1. Cardinality(holders) <= 1
    BY OnePermit DEF MutexInv
  <2>2. IsFiniteSet(holders \ {t}) /\ Cardinality(holders \ {t}) = Cardinality(holders) - 1
    BY HoldersFinite, FS_RemoveElement
  <2>3. u \in holders \ {t}
    OBVIOUS
  <2>4. Cardinality(holders \ {t}) \in Nat /\ Cardinality(holders \ {t}) # 0
    BY <2>2, <2>3, FS_EmptySet, FS_CardinalityType
  <2> QED
    BY <2>1, <2>2, <2>4, HoldersFinite
<1> QED
  BY <1>1, MutexInvariant, PTL

\* The mutex passes to the oldest coroutine that waits for it; lock() and
\* try_lock() take it only when nobody does.
THEOREM InOrder == Spec => NoOvertaking
<1>1. Sem!CountInv /\ Sem!MatchInv /\ MutexInv /\ [Next]_vars
        => [\A t \in holders' \ holders : m_waiters = << >> \/ t = Head(m_waiters)]_vars
  BY MutexStep
<1> QED
  BY <1>1, MutexInvariant, PTL DEF Spec, NoOvertaking
==============================================================================
