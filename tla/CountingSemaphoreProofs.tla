----------------------- MODULE CountingSemaphoreProofs -----------------------
(***************************************************************************)
(* For any finite set of tasks and any constants: CountingSemaphore is     *)
(* type correct, admits no more coroutines than it had permits but for     *)
(* those withdrawn unchecked, keeps count and waiters consistent, and      *)
(* never owes a wakeup to nobody.                                          *)
(***************************************************************************)
EXTENDS CountingSemaphore, FiniteSetTheorems, SequenceTheorems, TLAPS

USE SemaphoreAssumption

\* The wakeups that a function like need_wake stands for.
OwedOf(f) == UNION {{t} \X (1..f[t]) : t \in Tasks}

\* A release() that starts to owe k wakeups adds k of them.
LEMMA OwedStart ==
  ASSUME NEW f \in [Tasks -> Nat], NEW t \in Tasks, NEW k \in Nat, f[t] = 0,
         NEW g, g = [f EXCEPT ![t] = k], IsFiniteSet(OwedOf(f))
  PROVE  IsFiniteSet(OwedOf(g)) /\ Cardinality(OwedOf(g)) = Cardinality(OwedOf(f)) + k
<1> DEFINE New == {t} \X (1..k)
<1>1. IsFiniteSet(New) /\ Cardinality(New) = k
  <2>1. IsFiniteSet({t}) /\ Cardinality({t}) = 1
    BY FS_Singleton
  <2>2. 1 \in Int /\ k \in Int
    OBVIOUS
  <2>3. IsFiniteSet(1..k) /\ Cardinality(1..k) = IF 1 > k THEN 0 ELSE k - 1 + 1
    BY ONLY <2>2, FS_Interval
  <2>4. Cardinality(1..k) = k
    BY <2>3
  <2>5. /\ IsFiniteSet({t} \X (1..k))
        /\ Cardinality({t} \X (1..k)) = Cardinality({t}) * Cardinality(1..k)
    BY <2>1, <2>3, FS_Product
  <2> QED
    BY <2>1, <2>4, <2>5
<1>2. OwedOf(g) = OwedOf(f) \cup New
  BY DEF OwedOf
<1>3. OwedOf(f) \cap New = {}
  BY DEF OwedOf
<1>4. Cardinality(OwedOf(f)) \in Nat /\ Cardinality({}) = 0
  BY FS_CardinalityType, FS_EmptySet
<1> HIDE DEF New
<1>5. /\ IsFiniteSet(OwedOf(f) \cup New)
      /\ Cardinality(OwedOf(f) \cup New)
           = Cardinality(OwedOf(f)) + Cardinality(New) - Cardinality(OwedOf(f) \cap New)
  BY <1>1, FS_Union
<1>6. /\ IsFiniteSet(OwedOf(g))
      /\ Cardinality(OwedOf(g))
           = Cardinality(OwedOf(f)) + Cardinality(New) - Cardinality({})
  BY <1>2, <1>3, <1>5, Zenon
<1> QED
  BY <1>1, <1>4, <1>6

\* A release() that delivers one of its wakeups removes one.
LEMMA OwedDeliver ==
  ASSUME NEW f \in [Tasks -> Nat], NEW t \in Tasks, f[t] > 0,
         NEW g, g = [f EXCEPT ![t] = @ - 1], IsFiniteSet(OwedOf(f))
  PROVE  /\ IsFiniteSet(OwedOf(g))
         /\ Cardinality(OwedOf(g)) = Cardinality(OwedOf(f)) - 1
<1>1. OwedOf(g) = OwedOf(f) \ {<<t, f[t]>>}
  BY DEF OwedOf
<1>2. <<t, f[t]>> \in OwedOf(f)
  BY DEF OwedOf
<1>3. /\ IsFiniteSet(OwedOf(f) \ {<<t, f[t]>>})
      /\ Cardinality(OwedOf(f) \ {<<t, f[t]>>}) = Cardinality(OwedOf(f)) - 1
  BY <1>2, FS_RemoveElement
<1> QED
  BY <1>1, <1>3, Zenon

-----------------------------------------------------------------------------
(* Counting: type correctness and permits *)

\* Only suspended coroutines are visible in the queue, need_wake is positive
\* exactly inside release(), and every unused permit is in count, made up for
\* by a waiter, or on its way to one.
CountInv ==
  /\ TypeOK
  /\ \A t \in Tasks : need_wake[t] > 0 <=> pc[t] \in {"wake", "spin"}
  /\ \A t \in linked : pc[t] = "suspended"
  /\ NoIdlePermit
  /\ IsFiniteSet(Owed)
  /\ unused = count + waiters + Cardinality(Owed)

LEMMA OwedIsOwedOf == Owed = OwedOf(need_wake)
BY DEF Owed, OwedOf

LEMMA ReleaseOwes ==
  ASSUME CountInv, NEW t \in Tasks, NEW n \in ReleaseAmounts, Release(t, n)
  PROVE  /\ NeedWake(n) \in 0..waiters
         /\ IsFiniteSet(Owed') /\ Cardinality(Owed') = Cardinality(Owed) + NeedWake(n)
<1>1. NeedWake(n) \in 0..waiters
  BY DEF NeedWake, TypeOK, CountInv
<1>2. need_wake[t] = 0 /\ need_wake' = [need_wake EXCEPT ![t] = NeedWake(n)]
  BY DEF Release, Running, TypeOK, CountInv
<1> QED
  BY <1>1, <1>2, OwedIsOwedOf, OwedStart DEF CountInv, TypeOK, Owed, OwedOf

LEMMA WakeDelivers ==
  ASSUME CountInv, NEW t \in Tasks, NEW w \in Tasks, Wake(t, w)
  PROVE  /\ need_wake[t] > 0 /\ pc[t] = "wake" /\ pc[w] = "suspended" /\ w \in linked
         /\ need_wake' = [need_wake EXCEPT ![t] = @ - 1]
         /\ IsFiniteSet(Owed') /\ Cardinality(Owed') = Cardinality(Owed) - 1
<1>1. /\ pc[t] = "wake" /\ w \in linked
      /\ need_wake' = [need_wake EXCEPT ![t] = @ - 1]
  BY DEF Wake, Queue!Take, Queue!FrontVisible
<1>2. need_wake[t] > 0 /\ pc[w] = "suspended"
  BY <1>1 DEF CountInv
<1> QED
  BY <1>1, <1>2, OwedIsOwedOf, OwedDeliver DEF CountInv, TypeOK, Owed, OwedOf

LEMMA CountInit == Init => CountInv
<1> SUFFICES ASSUME Init PROVE CountInv
  OBVIOUS
<1>1. Owed = {}
  BY DEF Init, Owed
<1>2. IsFiniteSet(Owed) /\ Cardinality(Owed) = 0
  BY <1>1, FS_EmptySet
<1>3. TypeOK
  BY DEF Init, TypeOK, Queue!Init, Queue!TypeOK
<1> QED
  BY <1>2, <1>3 DEF Init, CountInv, NoIdlePermit, Missing, Queue!Init

LEMMA CountStep == CountInv /\ [Next]_vars => CountInv'
<1> SUFFICES ASSUME CountInv, [Next]_vars PROVE CountInv'
  OBVIOUS
<1> USE DEF CountInv, NoIdlePermit, Missing
<1>0. Cardinality(Owed) \in Nat
  BY FS_CardinalityType
<1>1. ASSUME NEW t \in Tasks, Acquire(t) PROVE CountInv'
  <2>1. Owed' = Owed
    BY <1>1 DEF Acquire, Owed
  <2>2. TypeOK'
    BY <1>1 DEF TypeOK, Acquire, Queue!TypeOK
  <2>3. NoIdlePermit' /\ unused' - count' - waiters' = unused - count - waiters
    BY <1>1 DEF Acquire, MustWait, TypeOK
  <2>4. (unused = count + waiters + Cardinality(Owed))'
    BY <1>0, <1>1, <2>1, <2>2, <2>3 DEF Acquire, TypeOK
  <2>5. \A u \in Tasks : pc'[u] # pc[u] => pc[u] = "running" /\ pc'[u] = "enqueue"
    BY <1>1 DEF Acquire, Running, TypeOK
  <2>6. need_wake' = need_wake /\ linked' = linked
    BY <1>1 DEF Acquire
  <2> QED
    BY <2>1, <2>2, <2>3, <2>4, <2>5, <2>6 DEF TypeOK, Queue!TypeOK
<1>2. ASSUME NEW t \in Tasks, EnqueueWaiter(t) PROVE CountInv'
  <2>1. Owed' = Owed
    BY <1>2 DEF EnqueueWaiter, Owed
  <2>2. TypeOK'
    <3>1. m_waiters' \in Seq(Tasks)
      BY <1>2, AppendProperties DEF TypeOK, EnqueueWaiter, Queue!TypeOK, Queue!Claim
    <3> QED
      BY <1>2, <3>1 DEF TypeOK, EnqueueWaiter, Queue!TypeOK, Queue!Claim, ghostVars
  <2> QED
    BY <1>0, <1>2, <2>1, <2>2 DEF EnqueueWaiter, TypeOK, Queue!TypeOK, ghostVars, Queue!Claim
<1>3. ASSUME NEW t \in Tasks, LinkWaiter(t) PROVE CountInv'
  <2>1. Owed' = Owed
    BY <1>3 DEF LinkWaiter, Owed
  <2>2. TypeOK'
    BY <1>3 DEF TypeOK, LinkWaiter, Queue!TypeOK, Queue!Publish, ghostVars
  <2> QED
    BY <1>0, <1>3, <2>1, <2>2 DEF LinkWaiter, TypeOK, ghostVars, Queue!Publish
<1>4. ASSUME NEW t \in Tasks, TryAcquire(t) PROVE CountInv'
  <2>1. Owed' = Owed
    BY <1>4 DEF TryAcquire, Owed
  <2>2. TypeOK'
    BY <1>4 DEF TypeOK, TryAcquire, Queue!TypeOK
  <2> QED
    BY <1>0, <1>4, <2>1, <2>2 DEF TryAcquire, Available, TypeOK
<1>5. ASSUME NEW t \in Tasks, NEW n \in ReleaseAmounts, Release(t, n) PROVE CountInv'
  <2> DEFINE k == NeedWake(n)
  <2>1. k \in Nat /\ k <= waiters /\ n \in Int
    BY <1>5, ReleaseOwes DEF TypeOK
  <2>2. need_wake[t] = 0 /\ need_wake' = [need_wake EXCEPT ![t] = k]
    BY <1>5 DEF Release, Running, TypeOK
  <2>4. IsFiniteSet(Owed') /\ Cardinality(Owed') = Cardinality(Owed) + k
    BY <1>5, ReleaseOwes
  <2>3. Overdraft(n) \in Nat /\ overdrawn' = overdrawn + Overdraft(n)
    BY <1>5, <2>1 DEF Release, Overdraft, Free, TypeOK
  <2>5. count' = count + n /\ waiters' = waiters - k /\ unused' = unused + n
    BY <1>5 DEF Release, LeftWaiting
  <2>6. TypeOK'
    <3>1. /\ count' \in Int /\ waiters' \in Nat /\ unused' \in Int /\ overdrawn' \in Nat
          /\ need_wake' \in [Tasks -> Nat]
      BY <2>1, <2>2, <2>3, <2>5 DEF TypeOK
    <3>2. /\ pc' \in [Tasks -> {"running", "enqueue", "link", "suspended", "wake", "spin", "destroyed"}]
          /\ UNCHANGED <<m_waiters, linked, alive>>
      BY <1>5 DEF TypeOK, Release
    <3> QED
      BY <3>1, <3>2 DEF TypeOK, Queue!TypeOK
  <2>7. NoIdlePermit'
    <3>1. CASE n > 0
      BY <2>1, <2>3, <2>5, <3>1 DEF NeedWake, TypeOK
    <3>2. CASE n <= 0
      BY <2>1, <2>3, <2>5, <3>2 DEF NeedWake, Overdraft, Free, TypeOK
    <3> QED
      BY <2>1, <3>1, <3>2
  <2>8. (\A u \in Tasks : need_wake[u] > 0 <=> pc[u] \in {"wake", "spin"})'
    BY <1>5, <2>1, <2>2 DEF Release, TypeOK
  <2> HIDE DEF k
  <2>9. (unused = count + waiters + Cardinality(Owed))'
    BY <1>0, <2>1, <2>4, <2>5 DEF TypeOK
  <2>10. (\A u \in linked : pc[u] = "suspended")'
    BY <1>5 DEF Release, Running, TypeOK, Queue!TypeOK
  <2> QED
    BY <2>4, <2>6, <2>7, <2>8, <2>9, <2>10
<1>6. ASSUME NEW t \in Tasks, NEW w \in Tasks, Wake(t, w) PROVE CountInv'
  <2>1. need_wake[t] > 0 /\ need_wake' = [need_wake EXCEPT ![t] = @ - 1]
    BY <1>6, WakeDelivers
  <2>2. IsFiniteSet(Owed') /\ Cardinality(Owed') = Cardinality(Owed) - 1
    BY <1>6, WakeDelivers
  <2>3. pc[t] = "wake" /\ pc[w] = "suspended" /\ w \in linked
    BY <1>6, WakeDelivers
  <2>4. TypeOK'
    <3>1. m_waiters' \in Seq(Tasks)
      BY <1>6, HeadTailProperties DEF TypeOK, Wake, Queue!TypeOK, Queue!Take, Queue!FrontVisible
    <3>2. need_wake' \in [Tasks -> Nat]
      BY <2>1 DEF TypeOK
    <3>3. linked' \in SUBSET Tasks
      BY <1>6 DEF TypeOK, Wake, Queue!TypeOK, Queue!Take
    <3>4. pc' = [pc EXCEPT ![t] = IF need_wake[t] = 1 THEN "running" ELSE pc[t], ![w] = "running"]
      BY <1>6 DEF Wake
    <3>5. pc' \in [Tasks -> {"running", "enqueue", "link", "suspended", "wake", "spin", "destroyed"}]
      BY <3>4 DEF TypeOK
    <3>6. /\ count' \in Int /\ waiters' \in Nat /\ alive' \in BOOLEAN
          /\ unused' \in Int /\ overdrawn' \in Nat
      BY <1>6 DEF TypeOK, Wake
    <3> QED
      BY <3>1, <3>2, <3>3, <3>5, <3>6 DEF TypeOK, Queue!TypeOK
  <2>5. (\A u \in Tasks : need_wake[u] > 0 <=> pc[u] \in {"wake", "spin"})'
    BY <1>6, <2>1, <2>3 DEF Wake, TypeOK
  <2>6. (\A u \in linked : pc[u] = "suspended")'
    BY <1>6, <2>3 DEF Wake, TypeOK, Queue!TypeOK, Queue!Take
  <2>7. NoIdlePermit' /\ (unused = count + waiters + Cardinality(Owed))'
    BY <1>0, <1>6, <2>2 DEF Wake, TypeOK
  <2> QED
    BY <2>2, <2>4, <2>5, <2>6, <2>7
<1>7. ASSUME NEW t \in Tasks, SpinForever(t) PROVE CountInv'
  <2>1. Owed' = Owed
    BY <1>7 DEF SpinForever, Owed
  <2>2. TypeOK'
    BY <1>7 DEF TypeOK, SpinForever, Queue!TypeOK, ghostVars
  <2> QED
    BY <1>0, <1>7, <2>1, <2>2 DEF SpinForever, TypeOK, ghostVars
<1>8. CASE Destroy
  <2>1. Owed' = Owed
    BY <1>8 DEF Destroy, Owed
  <2>2. TypeOK'
    <3>1. m_waiters' \in Seq(Tasks)
      BY <1>8, EmptySeq DEF Destroy
    <3> QED
      BY <1>8, <3>1 DEF TypeOK, Destroy, Queue!TypeOK, ghostVars
  <2> QED
    BY <1>0, <1>8, <2>1, <2>2 DEF Destroy, TypeOK, ghostVars
<1>9. CASE UNCHANGED vars
  <2>1. Owed' = Owed
    BY <1>9 DEF vars, semVars, Owed
  <2> QED
    BY <1>9, <2>1 DEF vars, semVars, ghostVars, TypeOK, Queue!TypeOK
<1> QED
  BY <1>1, <1>2, <1>3, <1>4, <1>5, <1>6, <1>7, <1>8, <1>9 DEF Next, Terminating

\* Permits are free, taken, or on their way to a waiter that release() has
\* promised to wake; acquire() and release(n) create and lose none, and only
\* withdrawals of permits that are not there part count from waiters.
THEOREM CountInvariant == Spec => []CountInv
BY CountInit, CountStep, PTL DEF Spec

\* m_count and the waiter queue keep their types; in particular the unsigned
\* waiters never goes below zero in release().
THEOREM TypeCorrect == Spec => []TypeOK
<1>1. CountInv => TypeOK
  BY DEF CountInv
<1> QED
  BY <1>1, CountInvariant, PTL

\* For any amounts released and withdrawn, acquire, try_acquire and release
\* admit no more coroutines than there were permits, plus those that
\* withdrawals took while they were not there.
THEOREM PermitsRespected == Spec => []GrantsWithinPermits
<1>1. CountInv => GrantsWithinPermits
  <2> SUFFICES ASSUME CountInv PROVE GrantsWithinPermits
    OBVIOUS
  <2>1. Cardinality(Owed) \in Nat
    BY FS_CardinalityType DEF CountInv
  <2> QED
    BY <2>1 DEF CountInv, TypeOK, NoIdlePermit, Missing, GrantsWithinPermits
<1> QED
  BY <1>1, CountInvariant, PTL

\* waiters is what count says it is, up to the permits overdrawn, and there is
\* never a free permit beside an unpromised waiter.
THEOREM CounterConsistent == Spec => []NoIdlePermit
<1>1. CountInv => NoIdlePermit
  BY DEF CountInv
<1> QED
  BY <1>1, CountInvariant, PTL

-----------------------------------------------------------------------------
(* Waking: every promised wakeup has a waiter *)

InWaiters(t) == \E i \in DOMAIN m_waiters : m_waiters[i] = t

\* A coroutine that is suspended is in the queue until it is woken or the
\* semaphore is destroyed, and registered coroutines match the wakeups due.
MatchInv ==
  /\ \A t \in Tasks : pc[t] \in {"link", "suspended"} => InWaiters(t)
  /\ ~alive => \A t \in Tasks : pc[t] \in {"running", "destroyed"}
  /\ WakeupsMatchWaiters

LEMMA RegisteredFinite == IsFiniteSet(Registered) /\ Cardinality(Registered) \in Nat
<1>1. Registered \in SUBSET Tasks
  BY DEF Registered
<1> QED
  BY <1>1, FS_Subset, FS_CardinalityType

LEMMA MatchInit == Init => MatchInv
<1> SUFFICES ASSUME Init PROVE MatchInv
  OBVIOUS
<1>1. Owed = {} /\ Registered = {}
  BY DEF Init, Owed, Registered
<1>2. Cardinality(Owed) = 0 /\ Cardinality(Registered) = 0
  BY <1>1, FS_EmptySet
<1> QED
  BY <1>2 DEF Init, MatchInv, WakeupsMatchWaiters

LEMMA MatchStep == CountInv /\ MatchInv /\ [Next]_vars => MatchInv'
<1> SUFFICES ASSUME CountInv, MatchInv, [Next]_vars PROVE MatchInv'
  OBVIOUS
<1>a. Cardinality(Owed) \in Nat /\ Cardinality(Registered) \in Nat /\ IsFiniteSet(Registered)
  BY RegisteredFinite, FS_CardinalityType DEF CountInv
<1>b. TypeOK /\ waiters \in Nat /\ pc = [t \in Tasks |-> pc[t]] /\ m_waiters \in Seq(Tasks)
  BY DEF CountInv, TypeOK, Queue!TypeOK
<1>1. ASSUME NEW t \in Tasks, Acquire(t) PROVE MatchInv'
  <2>1. Owed' = Owed /\ m_waiters' = m_waiters /\ alive' /\ alive /\ pc[t] = "running"
    BY <1>1 DEF Acquire, Owed, Running
  <2>2. CASE MustWait(count)
    <3>1. pc' = [pc EXCEPT ![t] = "enqueue"] /\ waiters' = waiters + 1
      BY <1>1, <2>2 DEF Acquire
    <3>2. Registered' = Registered \cup {t} /\ t \notin Registered
      BY <1>b, <2>1, <3>1 DEF Registered
    <3>3. Cardinality(Registered \cup {t}) = Cardinality(Registered) + 1
      BY <1>a, <3>2, FS_AddElement
    <3>4. Cardinality(Registered') = waiters' + Cardinality(Owed')
      BY <1>a, <1>b, <2>1, <3>1, <3>2, <3>3 DEF MatchInv, WakeupsMatchWaiters
    <3> QED
      BY <1>b, <2>1, <3>1, <3>4 DEF MatchInv, WakeupsMatchWaiters, InWaiters
  <2>3. CASE ~MustWait(count)
    <3>1. pc' = pc /\ waiters' = waiters
      BY <1>1, <2>3 DEF Acquire
    <3> QED
      BY <2>1, <3>1 DEF MatchInv, WakeupsMatchWaiters, InWaiters, Registered
  <2> QED
    BY <2>2, <2>3
<1>2. ASSUME NEW t \in Tasks, EnqueueWaiter(t) PROVE MatchInv'
  <2>1. /\ Owed' = Owed /\ waiters' = waiters /\ alive' = alive
        /\ pc[t] = "enqueue" /\ pc' = [pc EXCEPT ![t] = "link"]
        /\ m_waiters' = Append(m_waiters, t)
    BY <1>2 DEF EnqueueWaiter, Owed, Queue!Claim
  <2>2. Registered' = Registered
    BY <1>b, <2>1 DEF Registered
  <2>3. \A u \in Tasks : InWaiters(u) \/ u = t => InWaiters(u)'
    <3>1. Len(m_waiters) \in Nat /\ DOMAIN m_waiters = 1..Len(m_waiters)
      BY <1>b, LenProperties
    <3>2. /\ DOMAIN m_waiters' = 1..(Len(m_waiters) + 1)
          /\ \A i \in 1..Len(m_waiters) : m_waiters'[i] = m_waiters[i]
          /\ m_waiters'[Len(m_waiters) + 1] = t
      BY <1>b, <2>1, AppendProperties, LenProperties
    <3> QED
      BY <3>1, <3>2 DEF InWaiters
  <2>4. alive
    BY <1>b, <2>1 DEF MatchInv
  <2> QED
    BY <1>b, <2>1, <2>2, <2>3, <2>4 DEF MatchInv, WakeupsMatchWaiters
<1>3. ASSUME NEW t \in Tasks, LinkWaiter(t) PROVE MatchInv'
  <2>1. /\ Owed' = Owed /\ waiters' = waiters /\ alive' = alive /\ m_waiters' = m_waiters
        /\ pc[t] = "link" /\ pc' = [pc EXCEPT ![t] = "suspended"]
    BY <1>3 DEF LinkWaiter, Owed, Queue!Publish
  <2>2. Registered' = Registered
    BY <1>b, <2>1 DEF Registered
  <2>3. alive
    BY <1>b, <2>1 DEF MatchInv
  <2> QED
    BY <1>b, <2>1, <2>2, <2>3 DEF MatchInv, WakeupsMatchWaiters, InWaiters
<1>4. ASSUME NEW t \in Tasks, TryAcquire(t) PROVE MatchInv'
  BY <1>4 DEF TryAcquire, Owed, Registered, MatchInv, WakeupsMatchWaiters, InWaiters
<1>5. ASSUME NEW t \in Tasks, NEW n \in ReleaseAmounts, Release(t, n) PROVE MatchInv'
  <2>1. /\ waiters' = waiters - NeedWake(n) /\ m_waiters' = m_waiters /\ alive' /\ alive
        /\ pc[t] = "running"
        /\ pc' = [pc EXCEPT ![t] = IF NeedWake(n) > 0 THEN "wake" ELSE "running"]
    BY <1>5 DEF Release, LeftWaiting, Running
  <2>2. Registered' = Registered
    BY <1>b, <2>1 DEF Registered
  <2>3. NeedWake(n) \in 0..waiters /\ Cardinality(Owed') = Cardinality(Owed) + NeedWake(n)
    BY <1>5, ReleaseOwes
  <2>4. Cardinality(Registered') = waiters' + Cardinality(Owed')
    BY <1>a, <1>b, <2>1, <2>2, <2>3 DEF MatchInv, WakeupsMatchWaiters
  <2> QED
    BY <1>b, <2>1, <2>4 DEF MatchInv, WakeupsMatchWaiters, InWaiters
<1>6. ASSUME NEW t \in Tasks, NEW w \in Tasks, Wake(t, w) PROVE MatchInv'
  <2>1. /\ waiters' = waiters /\ alive' = alive
        /\ pc' = [pc EXCEPT ![t] = IF need_wake[t] = 1 THEN "running" ELSE pc[t], ![w] = "running"]
        /\ m_waiters # << >> /\ w = Head(m_waiters) /\ m_waiters' = Tail(m_waiters)
    BY <1>6 DEF Wake, Queue!Take, Queue!FrontVisible
  <2>2. pc[t] = "wake" /\ pc[w] = "suspended" /\ Cardinality(Owed') = Cardinality(Owed) - 1
    BY <1>6, WakeDelivers
  <2>3. Registered' = Registered \ {w} /\ w \in Registered
    BY <1>b, <2>1, <2>2 DEF Registered
  <2>4. Cardinality(Registered \ {w}) = Cardinality(Registered) - 1
    BY <1>a, <2>3, FS_RemoveElement
  <2>5. alive
    BY <2>2 DEF MatchInv
  <2>6. Cardinality(Registered') = waiters' + Cardinality(Owed')
    BY <1>a, <1>b, <2>1, <2>2, <2>3, <2>4, <2>5 DEF MatchInv, WakeupsMatchWaiters
  <2>7. \A u \in Tasks \ {w} : InWaiters(u) => InWaiters(u)'
    <3> SUFFICES ASSUME NEW u \in Tasks \ {w}, InWaiters(u) PROVE InWaiters(u)'
      OBVIOUS
    <3>1. /\ Len(m_waiters) \in Nat /\ DOMAIN m_waiters = 1..Len(m_waiters)
      BY <1>b, LenProperties
    <3>2. PICK i \in 1..Len(m_waiters) : m_waiters[i] = u
      BY <3>1 DEF InWaiters
    <3>3. i # 1
      BY <1>b, <2>1, <3>2
    <3>4. /\ m_waiters' \in Seq(Tasks) /\ Len(m_waiters') = Len(m_waiters) - 1
          /\ \A k \in 1..Len(m_waiters') : m_waiters'[k] = m_waiters[k + 1]
      BY <1>b, <2>1, HeadTailProperties
    <3>5. DOMAIN m_waiters' = 1..(Len(m_waiters) - 1)
      BY <3>4, LenProperties
    <3>6. i - 1 \in 1..(Len(m_waiters) - 1) /\ m_waiters'[i - 1] = u
      BY <3>1, <3>2, <3>3, <3>4
    <3> QED
      BY <3>5, <3>6 DEF InWaiters
  <2> QED
    BY <1>b, <2>1, <2>2, <2>5, <2>6, <2>7 DEF MatchInv, WakeupsMatchWaiters
<1>7. ASSUME NEW t \in Tasks, SpinForever(t) PROVE MatchInv'
  <2>1. /\ Owed' = Owed /\ waiters' = waiters /\ alive' = alive /\ m_waiters' = m_waiters
        /\ pc[t] = "wake" /\ pc' = [pc EXCEPT ![t] = "spin"]
    BY <1>7 DEF SpinForever, Owed
  <2>2. Registered' = Registered
    BY <1>b, <2>1 DEF Registered
  <2>3. alive
    BY <2>1 DEF MatchInv
  <2> QED
    BY <1>b, <2>1, <2>2, <2>3 DEF MatchInv, WakeupsMatchWaiters, InWaiters
<1>8. CASE Destroy
  <2>1. /\ ~alive' /\ \A t \in Tasks : pc[t] \in {"running", "suspended"}
        /\ pc' = [t \in Tasks |-> IF t \in Abandoned THEN "destroyed" ELSE pc[t]]
    BY <1>8 DEF Destroy
  <2>2. \A t \in Tasks : pc[t] = "suspended" => t \in Abandoned
    BY DEF MatchInv, InWaiters, Abandoned
  <2> QED
    BY <2>1, <2>2 DEF MatchInv, WakeupsMatchWaiters
<1>9. CASE UNCHANGED vars
  BY <1>9 DEF vars, semVars, Owed, Registered, MatchInv, WakeupsMatchWaiters, InWaiters
<1> QED
  BY <1>1, <1>2, <1>3, <1>4, <1>5, <1>6, <1>7, <1>8, <1>9 DEF Next, Terminating

\* The coroutines that acquire() has counted are those that nobody has promised
\* to wake and those that a release() still owes a wakeup.
THEOREM MatchInvariant == Spec => []MatchInv
BY CountInvariant, MatchInit, MatchStep, PTL DEF Spec

\* Each wakeup that a release() owes has a coroutine that is in the queue or
\* about to enter it, so the wait_dequeue in release() never waits for nothing.
THEOREM WakeupsHaveWaiters == Spec => []WakeupsMatchWaiters
<1>1. MatchInv => WakeupsMatchWaiters
  BY DEF MatchInv
<1> QED
  BY <1>1, MatchInvariant, PTL

\* ~CountingSemaphore leaves no coroutine suspended.
THEOREM DestructorComplete == Spec => []NoneLeftSuspended
<1>1. MatchInv => NoneLeftSuspended
  BY DEF MatchInv, NoneLeftSuspended, Registered
<1> QED
  BY <1>1, MatchInvariant, PTL
==============================================================================
