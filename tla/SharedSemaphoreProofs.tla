------------------------- MODULE SharedSemaphoreProofs -------------------------
(***************************************************************************)
(* For any coroutines, releasers and addresses: the semaphore of           *)
(* SharedSemaphore lives as long as somebody holds an rc_ptr, nobody       *)
(* touches it or a node of its queue afterwards, and nothing is left when  *)
(* the last rc_ptr has gone.                                               *)
(*                                                                         *)
(* While the semaphore is there, its queue does what AtomicQueue does, so  *)
(* what is proved of AtomicQueue holds of it.  The rest is who holds an    *)
(* rc_ptr: whoever is inside an operation.  From that, and from which      *)
(* coroutines have their handle in the queue, every step is one of         *)
(* CountingSemaphore, leaks a waiter, or changes nothing there.            *)
(***************************************************************************)
EXTENDS SharedSemaphore, FiniteSetTheorems, SequenceTheorems, TLAPS

USE SharedAssumption DEF SharedAssumption

Q == INSTANCE AtomicQueueProofs WITH
  Producers <- Coroutines, Consumers <- Releasers,
  NLoop <- 1, Ops <- {"wait"}, EarlyStop <- FALSE

-----------------------------------------------------------------------------
(* The inductive invariant *)

TypeOK ==
  /\ life \in {"open", "gone"}
  /\ prod \in [Coroutines -> Q!ProducerState] /\ cons \in [Releasers -> Q!ConsumerState]
  /\ acq \in [Coroutines -> {"ready", "enqueue", "waiting", "lost", "granted", "destroyed"}]
  /\ rel \in [Releasers -> {"ready", "wake", "done"}]
  /\ started \subseteq Users /\ refs \subseteq started \cup {Owner}

\* refcnt counts the rc_ptrs, and the owner goes when everybody has one.
RefInv ==
  /\ IsFiniteSet(refs) /\ refcnt = Cardinality(refs)
  /\ Owner \notin refs => started = Users
  /\ life = "gone" <=> refs = {}

\* Who is inside the semaphore, its mutex or its queue holds an rc_ptr.
HolderInv ==
  /\ \A w \in Coroutines : acq[w] = "enqueue" => w \in refs
  /\ \A w \in started \ refs : w \in Coroutines => acq[w] # "ready"
  /\ \A r \in Releasers : rel[r] = "wake" => r \in refs
  /\ \A r \in Releasers : cons[r].pc # "idle" => rel[r] = "wake"
  /\ m_mutex # Null =>
       m_mutex \in Releasers /\ cons[m_mutex].pc \in {"load", "loop", "reload", "spin"}

\* Where a coroutine is in its only enqueue.
EnqueueInv ==
  \A w \in Coroutines :
    /\ prod[w].pc = "enqueue" => prod[w].sent = 0
    /\ prod[w].pc \in {"link", "notify"} => prod[w].sent = 1
    /\ prod[w].pc = "link" => acq[w] = "enqueue"
    /\ acq[w] = "ready" => prod[w].pc = "enqueue"
    /\ acq[w] = "enqueue" => prod[w].pc \in {"enqueue", "link"}
    /\ acq[w] = "waiting" => prod[w].pc \in {"notify", "done"}

\* While the semaphore is there, a coroutine that waits is in the queue.
OpenInv ==
  life = "open" =>
    /\ Q!Inv
    /\ \A w \in Coroutines : prod[w].pc = "link" => value[prod[w].node] = <<w, 1>>
    /\ \A w \in Coroutines : acq[w] = "waiting" => \E i \in 2..Len(chain) : value[chain[i]] = <<w, 1>>

\* Afterwards, nobody waits.
GoneInv ==
  life = "gone" =>
    heap = {} /\ \A w \in Coroutines : acq[w] \in {"granted", "destroyed", "lost"}

Inv == TypeOK /\ RefInv /\ HolderInv /\ EnqueueInv /\ OpenInv /\ GoneInv

-----------------------------------------------------------------------------
(* The queue *)

LEMMA QueueAssumption == Q!AtomicQueueAssumption
BY DEF Q!AtomicQueueAssumption

LEMMA QueueSteps ==
  ASSUME Q!Inv,
         \/ \E w \in Coroutines : (\E n \in Nodes : Queue!Enqueue(w, n)) \/ Queue!Link(w) \/ Queue!Notify(w)
         \/ \E r \in Releasers :
              \/ Queue!BeginWait(r) \/ Queue!LoadNext(r) \/ Queue!Loop(r) \/ Queue!Wait(r)
              \/ Queue!Recheck(r) \/ Queue!ReloadTail(r) \/ Queue!Pop(r)
         \/ UNCHANGED queueVars
  PROVE  Q!Inv'
<1>1. ASSUME NEW w \in Coroutines, NEW n \in Nodes, Queue!Enqueue(w, n) PROVE Q!Enqueue(w, n)
  BY <1>1, Zenon DEF Queue!Enqueue, Q!Enqueue, Queue!MoreToSend, Q!MoreToSend, Queue!NewNode, Q!NewNode
<1>2. ASSUME NEW w \in Coroutines, Queue!Link(w) PROVE Q!Link(w)
  BY <1>2, Zenon DEF Queue!Link, Q!Link, Queue!Predecessor, Q!Predecessor
<1>3. ASSUME NEW w \in Coroutines, Queue!Notify(w) PROVE Q!Notify(w)
  BY <1>3, Zenon DEF Queue!Notify, Q!Notify, Queue!NotifyOne, Q!NotifyOne, Queue!Asleep, Q!Asleep, Queue!Wake,
     Q!Wake, Queue!MoreToSend, Q!MoreToSend, Queue!memory, Q!memory
<1>4. ASSUME NEW r \in Releasers, Queue!BeginWait(r) PROVE Q!BeginWait(r)
  BY <1>4, Zenon DEF Queue!BeginWait, Q!BeginWait, Queue!CallsAllowed, Q!CallsAllowed, Queue!LockFree, Q!LockFree,
     Queue!Goto, Q!Goto, Queue!memory, Q!memory
<1>5. ASSUME NEW r \in Releasers, Queue!LoadNext(r) PROVE Q!LoadNext(r)
  BY <1>5, Zenon DEF Queue!LoadNext, Q!LoadNext, Queue!Goto, Q!Goto, Queue!memory, Q!memory
<1>6. ASSUME NEW r \in Releasers, Queue!Loop(r) PROVE Q!Loop(r)
  BY <1>6, Zenon DEF Queue!Loop, Q!Loop, Queue!Goto, Q!Goto, Queue!memory, Q!memory
<1>7. ASSUME NEW r \in Releasers, Queue!Wait(r) PROVE Q!Wait(r)
  BY <1>7, Zenon DEF Queue!Wait, Q!Wait, Queue!Blocks, Q!Blocks, Queue!memory, Q!memory
<1>8. ASSUME NEW r \in Releasers, Queue!Recheck(r) PROVE Q!Recheck(r)
  BY <1>8, Zenon DEF Queue!Recheck, Q!Recheck, Queue!LockFree, Q!LockFree, Queue!Goto, Q!Goto, Queue!memory, Q!memory
<1>9. ASSUME NEW r \in Releasers, Queue!ReloadTail(r) PROVE Q!ReloadTail(r)
  BY <1>9, Zenon DEF Queue!ReloadTail, Q!ReloadTail, Queue!Goto, Q!Goto, Queue!memory, Q!memory
<1>10. ASSUME NEW r \in Releasers, Queue!Pop(r) PROVE Q!Pop(r)
  BY <1>10, Zenon DEF Queue!Pop, Q!Pop, Queue!Unlink, Q!Unlink, Queue!Return, Q!Return, Queue!Idle, Q!Idle
<1>11. UNCHANGED queueVars => UNCHANGED Q!vars
  BY DEF queueVars, Q!vars, Q!memory
<1>12. [Q!Next]_(Q!vars)
  BY <1>1, <1>2, <1>3, <1>4, <1>5, <1>6, <1>7, <1>8, <1>9, <1>10, <1>11, Zenon DEF Q!Next, Q!Produce, Q!Consume
<1> QED
  BY <1>12, Q!InvStep, QueueAssumption

LEMMA InvInit == Init => Inv
<1> SUFFICES ASSUME Init PROVE Inv
  OBVIOUS
<1>1. Q!Init
  BY Zenon DEF Init, Queue!Init, Q!Init, Queue!Idle, Q!Idle
<1>2. Q!Inv
  BY <1>1, Q!InvInit, QueueAssumption
<1>3. /\ life = "open" /\ m_mutex = Null
      /\ \A w \in Coroutines : prod[w].pc = "enqueue" /\ prod[w].sent = 0 /\ acq[w] = "ready"
      /\ \A r \in Releasers : cons[r].pc = "idle" /\ rel[r] = "ready"
      /\ acq \in [Coroutines -> {"ready"}] /\ rel \in [Releasers -> {"ready"}]
      /\ started = {} /\ refs = {Owner} /\ refcnt = 1
  BY DEF Init, Queue!Init, Queue!Idle
<1>4. TypeOK
  BY <1>2, <1>3 DEF TypeOK, Q!Inv, Q!TypeOK
<1>5. RefInv
  BY <1>3, FS_Singleton DEF RefInv
<1>6. HolderInv /\ EnqueueInv /\ OpenInv /\ GoneInv
  BY <1>2, <1>3 DEF HolderInv, EnqueueInv, OpenInv, GoneInv
<1> QED
  BY <1>4, <1>5, <1>6 DEF Inv

\* A step that moves no element and starts no wait.
LEMMA OpenStep ==
  ASSUME Inv, UNCHANGED <<value, chain, life>>, life = "open" => Q!Inv',
         \A w \in Coroutines : prod'[w].pc = "link" => prod'[w] = prod[w],
         \A w \in Coroutines : acq'[w] = "waiting" => acq[w] = "waiting"
  PROVE  OpenInv'
BY DEF Inv, OpenInv

LEMMA QueueFrame ==
  ASSUME Inv, UNCHANGED queueVars
  PROVE  /\ UNCHANGED <<m_head, m_tail, next, value, heap, prod, cons, m_mutex, arr, life, chain>>
         /\ life = "open" => Q!Inv'
<1>1. life = "open" => Q!Inv
  BY DEF Inv, OpenInv
<1>2. life = "open" => Q!Inv'
  BY <1>1, QueueSteps
<1> QED
  BY <1>2 DEF queueVars

-----------------------------------------------------------------------------
(* The rc_ptrs *)

LEMMA StartStep ==
  ASSUME Inv, NEW u \in Users, Start(u)
  PROVE  Inv'
<1>1. /\ Owner \in refs /\ u \notin started /\ started' = started \cup {u} /\ refs' = refs \cup {u}
      /\ refcnt' = refcnt + 1 /\ UNCHANGED <<queueVars, count, waiters, acq, rel>>
  BY DEF Start, AddRef
<1>2. /\ UNCHANGED <<m_head, m_tail, next, value, heap, prod, cons, m_mutex, arr, life, chain>>
      /\ life = "open" => Q!Inv'
  BY <1>1, QueueFrame
<1>3. TypeOK'
  BY <1>1, <1>2 DEF Inv, TypeOK
<1>4. RefInv'
  <2>1. u \notin refs
    BY <1>1 DEF Inv, TypeOK, Users
  <2> QED
    BY <1>1, <1>2, <2>1, FS_AddElement DEF Inv, RefInv
<1>5. HolderInv' /\ EnqueueInv'
  BY <1>1, <1>2 DEF Inv, HolderInv, EnqueueInv
<1>6. OpenInv'
  BY <1>1, <1>2, OpenStep
<1>7. GoneInv'
  BY <1>1, <1>2 DEF Inv, GoneInv
<1> QED
  BY <1>3, <1>4, <1>5, <1>6, <1>7 DEF Inv

\* Who lets the last rc_ptr go is the last to be through.
LEMMA LastHolder ==
  ASSUME Inv, NEW u \in refs, refs = {u}, started = Users,
         u \in Coroutines => acq[u] \notin {"ready", "enqueue"},
         u \in Releasers => rel[u] # "wake"
  PROVE  /\ life = "open"
         /\ \A w \in Coroutines : acq[w] \notin {"ready", "enqueue"}
         /\ \A r \in Releasers : rel[r] # "wake" /\ cons[r].pc = "idle"
<1>1. life = "open"
  BY DEF Inv, TypeOK, RefInv
<1>2. \A w \in Coroutines : acq[w] \notin {"ready", "enqueue"}
  BY DEF Inv, HolderInv, Users
<1>3. \A r \in Releasers : rel[r] # "wake" /\ cons[r].pc = "idle"
  BY DEF Inv, HolderInv, Users
<1> QED
  BY <1>1, <1>2, <1>3

\* The last rc_ptr goes: no one is inside the semaphore, and a coroutine that
\* waits is destroyed with it.
LEMMA DeleteStep ==
  ASSUME Inv, NEW u \in refs, refs = {u}, Delete, refs' = {},
         refcnt' = 0, started = Users, UNCHANGED <<rel, started>>,
         u \in Coroutines => acq[u] \notin {"ready", "enqueue"},
         u \in Releasers => rel[u] # "wake"
  PROVE  Inv'
<1>1. life = "open"
  BY LastHolder
<1>2. /\ acq' = [w \in Coroutines |-> IF w \in Queued THEN "destroyed" ELSE acq[w]]
      /\ heap' = heap \ {chain[i] : i \in DOMAIN chain} /\ life' = "gone"
      /\ UNCHANGED <<next, prod, cons, m_mutex, arr>>
  BY DEF Delete
<1>3. \A w \in Coroutines : acq[w] \notin {"ready", "enqueue"}
  BY LastHolder
<1>4. \A r \in Releasers : rel[r] # "wake" /\ cons[r].pc = "idle"
  BY LastHolder
<1>5. m_mutex = Null
  BY <1>4 DEF Inv, HolderInv
<1>6. heap' = {}
  <2>1. DOMAIN chain = 1..Len(chain)
    BY <1>1 DEF Inv, OpenInv, Q!Inv, Q!TypeOK
  <2> QED
    BY <1>1, <1>2, <2>1 DEF Inv, OpenInv, Q!Inv, Q!ChainInv
<1>7. ASSUME NEW w \in Coroutines PROVE acq'[w] \in {"granted", "destroyed", "lost"}
  <2>1. CASE acq[w] = "waiting"
    <3>1. PICK i \in 2..Len(chain) : value[chain[i]] = <<w, 1>>
      BY <1>1, <2>1 DEF Inv, OpenInv
    <3>2. w \in Queued
      BY <3>1 DEF Queued, Handle
    <3> QED
      BY <1>2, <3>2
  <2>2. CASE acq[w] # "waiting"
    BY <1>2, <1>3, <2>2 DEF Inv, TypeOK
  <2> QED
    BY <2>1, <2>2
<1>8. TypeOK'
  BY <1>2, <1>7 DEF Inv, TypeOK
<1>9. RefInv'
  BY <1>2, FS_EmptySet DEF Inv, RefInv
<1>10. HolderInv'
  BY <1>2, <1>4, <1>5, <1>7 DEF HolderInv
<1>11. EnqueueInv'
  BY <1>2, <1>3, <1>7 DEF Inv, EnqueueInv
<1>12. OpenInv' /\ GoneInv'
  BY <1>2, <1>6, <1>7 DEF OpenInv, GoneInv
<1> QED
  BY <1>8, <1>9, <1>10, <1>11, <1>12 DEF Inv

\* A holder that is not inside an operation lets its rc_ptr go.
LEMMA DropStep ==
  ASSUME Inv, NEW u, Drop(u),
         u \in Coroutines => acq[u] \notin {"ready", "enqueue"},
         u \in Releasers => rel[u] # "wake",
         u = Owner => started = Users
  PROVE  Inv'
<1>1. /\ u \in refs /\ refs' = refs \ {u} /\ refcnt' = refcnt - 1
      /\ IF refcnt = 1 THEN Delete ELSE UNCHANGED <<queueVars, acq>>
      /\ UNCHANGED <<count, waiters, rel, started>>
  BY DEF Drop, Release, IsLast
<1>2. /\ IsFiniteSet(refs) /\ refcnt = Cardinality(refs) /\ IsFiniteSet(refs')
      /\ refcnt \in Nat /\ Cardinality(refs') = refcnt - 1
  BY <1>1, FS_RemoveElement, FS_CardinalityType DEF Inv, RefInv
<1>3. refcnt = 1 <=> refs' = {}
  BY <1>2, FS_EmptySet
<1>4. Owner \notin refs' => started' = Users
  BY <1>1 DEF Inv, RefInv
<1>5. CASE refcnt = 1
  BY <1>1, <1>3, <1>4, <1>5, DeleteStep
<1>6. CASE refcnt # 1
  <2>1. UNCHANGED <<queueVars, acq, rel, started>>
    BY <1>1, <1>6
  <2>2. /\ UNCHANGED <<m_head, m_tail, next, value, heap, prod, cons, m_mutex, arr, life, chain>>
        /\ life = "open" => Q!Inv'
    BY <2>1, QueueFrame
  <2>3. TypeOK'
    BY <1>1, <2>1, <2>2 DEF Inv, TypeOK
  <2>4. RefInv'
    BY <1>1, <1>2, <1>3, <1>4, <1>6, <2>2 DEF Inv, RefInv
  <2>5. HolderInv'
    BY <1>1, <2>1, <2>2 DEF Inv, HolderInv
  <2>6. EnqueueInv' /\ GoneInv'
    BY <2>1, <2>2 DEF Inv, EnqueueInv, GoneInv
  <2>7. OpenInv'
    BY <2>1, <2>2, OpenStep
  <2> QED
    BY <2>3, <2>4, <2>5, <2>6, <2>7 DEF Inv
<1> QED
  BY <1>5, <1>6

-----------------------------------------------------------------------------
(* The coroutines *)

LEMMA AcquireStep ==
  ASSUME Inv, NEW w \in Coroutines, Acquire(w)
  PROVE  Inv'
<1>1. /\ w \in refs /\ acq[w] = "ready" /\ UNCHANGED <<queueVars, rel, started, refs, refcnt>>
      /\ acq' \in [Coroutines -> {"ready", "enqueue", "waiting", "lost", "granted", "destroyed"}]
      /\ acq'[w] \in {"enqueue", "granted"} /\ \A x \in Coroutines \ {w} : acq'[x] = acq[x]
  BY DEF Acquire, Inv, TypeOK
<1>2. /\ UNCHANGED <<m_head, m_tail, next, value, heap, prod, cons, m_mutex, arr, life, chain>>
      /\ life = "open" => Q!Inv'
  BY <1>1, QueueFrame
<1>3. TypeOK' /\ RefInv'
  BY <1>1, <1>2 DEF Inv, TypeOK, RefInv
<1>4. HolderInv'
  BY <1>1, <1>2 DEF Inv, HolderInv
<1>5. EnqueueInv'
  BY <1>1, <1>2 DEF Inv, EnqueueInv
<1>6. OpenInv'
  BY <1>1, <1>2, OpenStep
<1>7. GoneInv'
  BY <1>1, <1>2 DEF Inv, RefInv, GoneInv
<1> QED
  BY <1>3, <1>4, <1>5, <1>6, <1>7 DEF Inv

\* The compare_exchange puts the coroutine's element at the end of the chain.
LEMMA EnqueueEffect ==
  ASSUME Inv, NEW w \in Coroutines, EnqueueWaiter(w)
  PROVE  /\ life = "open" /\ Q!Inv /\ Q!Inv'
         /\ acq[w] = "enqueue" /\ prod[w].pc = "enqueue"
         /\ UNCHANGED <<m_head, cons, m_mutex, arr, life, count, waiters, acq, rel, started, refs, refcnt>>
         /\ Len(chain) \in Nat /\ Len(chain) >= 1 /\ Len(chain') = Len(chain) + 1
         /\ \A i \in 1..Len(chain) : chain'[i] = chain[i] /\ value'[chain[i]] = value[chain[i]]
         /\ value'[chain'[Len(chain) + 1]] = <<w, 1>>
         /\ prod'[w].pc = "link" /\ prod'[w].node = chain'[Len(chain) + 1] /\ prod'[w].sent = 1
         /\ \A x \in Coroutines \ {w} : prod'[x] = prod[x]
<1>1. PICK n \in Nodes : Queue!Enqueue(w, n)
  BY DEF EnqueueWaiter
<1>2. /\ acq[w] = "enqueue" /\ UNCHANGED <<count, waiters, acq, rel, started, refs, refcnt>>
      /\ prod[w].pc = "enqueue" /\ prod[w].sent = 0 /\ n \notin heap
      /\ value' = [value EXCEPT ![n] = <<w, prod[w].sent + 1>>] /\ chain' = Append(chain, n)
      /\ prod' = [prod EXCEPT ![w] =
                    [pc |-> "link", node |-> n, prev |-> m_tail, sent |-> prod[w].sent + 1]]
      /\ UNCHANGED <<m_head, cons, m_mutex, arr, life>>
  BY <1>1 DEF EnqueueWaiter, Queue!Enqueue, Inv, EnqueueInv
<1>3. life = "open" /\ Q!Inv
  BY <1>2 DEF Inv, TypeOK, RefInv, HolderInv, OpenInv
<1>4. Q!Inv'
  BY <1>1, <1>3, QueueSteps
<1>5. /\ prod'[w].pc = "link" /\ prod'[w].node = n /\ prod'[w].sent = 1
      /\ \A x \in Coroutines \ {w} : prod'[x] = prod[x]
  BY <1>2 DEF Inv, TypeOK
<1>6. value'[n] = <<w, 1>> /\ \A m \in Nodes \ {n} : value'[m] = value[m]
  BY <1>2, <1>3 DEF Q!Inv, Q!TypeOK
<1>7. Len(chain) \in Nat /\ Len(chain) >= 1 /\ \A i \in 1..Len(chain) : chain[i] \in Nodes
  BY <1>3, Q!Lengths, QueueAssumption
<1>8. \A i \in 1..Len(chain) : chain[i] # n
  BY <1>2, <1>3 DEF Q!Inv, Q!ChainInv
<1>9. /\ Len(chain') = Len(chain) + 1 /\ chain'[Len(chain) + 1] = n
      /\ \A i \in 1..Len(chain) : chain'[i] = chain[i]
  BY <1>2, <1>3, Q!ChainGrows, QueueAssumption
<1> QED
  BY <1>2, <1>3, <1>4, <1>5, <1>6, <1>7, <1>8, <1>9

LEMMA EnqueueStep ==
  ASSUME Inv, NEW w \in Coroutines, EnqueueWaiter(w)
  PROVE  Inv'
<1>1. /\ life = "open" /\ Q!Inv /\ Q!Inv' /\ acq[w] = "enqueue"
      /\ UNCHANGED <<m_head, cons, m_mutex, arr, life, count, waiters, acq, rel, started, refs, refcnt>>
      /\ Len(chain) \in Nat /\ Len(chain') = Len(chain) + 1
      /\ \A i \in 1..Len(chain) : chain'[i] = chain[i] /\ value'[chain[i]] = value[chain[i]]
      /\ value'[chain'[Len(chain) + 1]] = <<w, 1>>
  BY EnqueueEffect
<1>2. /\ prod'[w].pc = "link" /\ prod'[w].node = chain'[Len(chain) + 1] /\ prod'[w].sent = 1
      /\ \A x \in Coroutines \ {w} : prod'[x] = prod[x]
  BY EnqueueEffect
<1>3. TypeOK' /\ RefInv' /\ HolderInv' /\ GoneInv'
  <2>1. TypeOK'
    BY <1>1 DEF Inv, TypeOK, Q!Inv, Q!TypeOK
  <2> QED
    BY <1>1, <2>1 DEF Inv, RefInv, HolderInv, GoneInv
<1>4. EnqueueInv'
  BY <1>1, <1>2 DEF Inv, EnqueueInv
<1>5. OpenInv'
  <2>1. ASSUME NEW x \in Coroutines \ {w}, prod[x].pc = "link" PROVE value'[prod[x].node] = <<x, 1>>
    <3>1. PICK i \in 1..(Len(chain) - 1) : prod[x].node = chain[i + 1]
      BY <1>1, <2>1 DEF Q!Inv, Q!LinkInv, Q!Linking
    <3>2. i + 1 \in 1..Len(chain)
      BY <1>1
    <3>3. value'[chain[i + 1]] = value[chain[i + 1]]
      BY <1>1, <3>2
    <3> QED
      BY <1>1, <2>1, <3>1, <3>3 DEF Inv, OpenInv
  <2>2. ASSUME NEW x \in Coroutines, prod'[x].pc = "link" PROVE value'[prod'[x].node] = <<x, 1>>
    <3>1. CASE x = w
      BY <1>1, <1>2, <3>1
    <3>2. CASE x # w
      BY <1>2, <2>1, <2>2, <3>2
    <3> QED
      BY <3>1, <3>2
  <2>3. ASSUME NEW x \in Coroutines, acq[x] = "waiting"
        PROVE  \E i \in 2..Len(chain') : value'[chain'[i]] = <<x, 1>>
    <3>1. PICK i \in 2..Len(chain) : value[chain[i]] = <<x, 1>>
      BY <1>1, <2>3 DEF Inv, OpenInv
    <3>2. i \in 2..Len(chain') /\ i \in 1..Len(chain)
      BY <1>1
    <3> QED
      BY <1>1, <3>1, <3>2
  <2> QED
    BY <1>1, <2>2, <2>3 DEF OpenInv
<1> QED
  BY <1>3, <1>4, <1>5 DEF Inv

LEMMA EnqueueFailsStep ==
  ASSUME Inv, NEW w \in Coroutines, EnqueueFails(w)
  PROVE  Inv'
<1>1. /\ acq[w] = "enqueue" /\ prod[w].pc = "enqueue" /\ prod' = [prod EXCEPT ![w].pc = "done"]
      /\ acq' = [acq EXCEPT ![w] = "lost"]
      /\ UNCHANGED <<m_head, m_tail, next, value, heap, cons, m_mutex, arr, life, chain, rel, started, refs, refcnt>>
  BY DEF EnqueueFails
<1>2. life = "open" /\ Q!Inv
  BY <1>1 DEF Inv, TypeOK, RefInv, HolderInv, OpenInv
<1>3. Q!Inv'
  BY <1>1, <1>2, Q!ProducerStep, QueueAssumption DEF Q!memory
<1>4. prod'[w].pc = "done" /\ \A x \in Coroutines \ {w} : prod'[x] = prod[x]
  BY <1>1 DEF Inv, TypeOK
<1>5. acq'[w] = "lost" /\ \A x \in Coroutines \ {w} : acq'[x] = acq[x]
  BY <1>1 DEF Inv, TypeOK
<1>6. TypeOK' /\ RefInv' /\ HolderInv' /\ GoneInv'
  <2>1. TypeOK'
    BY <1>1, <1>3 DEF Inv, TypeOK, Q!Inv, Q!TypeOK
  <2> QED
    BY <1>1, <1>2, <1>5, <2>1 DEF Inv, RefInv, HolderInv, GoneInv
<1>7. EnqueueInv'
  BY <1>4, <1>5 DEF Inv, EnqueueInv
<1>8. OpenInv'
  BY <1>1, <1>3, <1>4, <1>5, OpenStep
<1> QED
  BY <1>6, <1>7, <1>8 DEF Inv

\* From now on the coroutine waits, and its handle is in the queue.
LEMMA LinkStep ==
  ASSUME Inv, NEW w \in Coroutines, LinkWaiter(w)
  PROVE  Inv'
<1>1. /\ Queue!Link(w) /\ prod[w].pc = "link" /\ acq[w] = "enqueue" /\ prod[w].sent = 1
      /\ prod' = [prod EXCEPT ![w].pc = "notify", ![w].node = Null, ![w].prev = Null]
      /\ acq' = [acq EXCEPT ![w] = "waiting"]
      /\ UNCHANGED <<m_head, m_tail, value, heap, cons, m_mutex, arr, life, chain, rel, started, refs, refcnt>>
  BY DEF LinkWaiter, Queue!Link, Inv, EnqueueInv
<1>2. life = "open" /\ Q!Inv
  BY <1>1 DEF Inv, TypeOK, RefInv, HolderInv, OpenInv
<1>3. Q!Inv'
  BY <1>1, <1>2, QueueSteps
<1>4. prod'[w].pc = "notify" /\ prod'[w].sent = 1 /\ \A x \in Coroutines \ {w} : prod'[x] = prod[x]
  BY <1>1 DEF Inv, TypeOK
<1>5. acq'[w] = "waiting" /\ \A x \in Coroutines \ {w} : acq'[x] = acq[x]
  BY <1>1 DEF Inv, TypeOK
<1>6. TypeOK' /\ RefInv' /\ HolderInv' /\ GoneInv'
  <2>1. TypeOK'
    BY <1>1, <1>3 DEF Inv, TypeOK, Q!Inv, Q!TypeOK
  <2> QED
    BY <1>1, <1>2, <1>5, <2>1 DEF Inv, RefInv, HolderInv, GoneInv
<1>7. EnqueueInv'
  BY <1>4, <1>5 DEF Inv, EnqueueInv
<1>8. OpenInv'
  <2>1. \E i \in 2..Len(chain) : value[chain[i]] = <<w, 1>>
    <3>1. PICK i \in 1..(Len(chain) - 1) : prod[w].node = chain[i + 1]
      BY <1>1, <1>2 DEF Q!Inv, Q!LinkInv, Q!Linking
    <3>2. i + 1 \in 2..Len(chain)
      BY <1>2, Q!Lengths, QueueAssumption
    <3> QED
      BY <1>1, <1>2, <3>1, <3>2 DEF Inv, OpenInv
  <2> QED
    BY <1>1, <1>2, <1>3, <1>4, <1>5, <2>1 DEF Inv, OpenInv
<1> QED
  BY <1>6, <1>7, <1>8 DEF Inv

\* notify_one lets a sleeper compare again, at most.
LEMMA NotifyEffect ==
  ASSUME Inv, NEW w \in Coroutines, NotifyReleaser(w)
  PROVE  /\ cons' \in [Releasers -> Q!ConsumerState]
         /\ \A r \in Releasers : cons'[r] = cons[r] \/ (cons[r].pc = "asleep" /\ cons'[r].pc = "wait")
<1>1. PICK C : C \in Queue!NotifyOne /\ Queue!Wake(C)
  BY DEF NotifyReleaser, Queue!Notify
<1>2. C \subseteq Queue!Asleep
  BY <1>1 DEF NotifyReleaser, Queue!NotifyOne
<1>3. \A r \in Releasers :
         /\ [cons[r] EXCEPT !.pc = "wait"] \in Q!ConsumerState
         /\ [cons[r] EXCEPT !.pc = "wait"].pc = "wait"
  BY Q!ConsumerUpdate, QueueAssumption DEF Inv, TypeOK
<1>4. cons' = [r \in Releasers |-> IF r \in C THEN [cons[r] EXCEPT !.pc = "wait"] ELSE cons[r]]
  BY <1>1 DEF Queue!Wake
<1>5. \A r \in Releasers : cons[r] \in Q!ConsumerState
  BY DEF Inv, TypeOK
<1>6. \A r \in Releasers : r \in C => cons[r].pc = "asleep"
  BY <1>2 DEF Queue!Asleep
<1>7. \A r \in Releasers :
        IF r \in C THEN cons'[r] = [cons[r] EXCEPT !.pc = "wait"] ELSE cons'[r] = cons[r]
  BY <1>4
<1>8. \A r \in Releasers : cons'[r] \in Q!ConsumerState
  BY <1>3, <1>5, <1>7
<1>9. ASSUME NEW r \in Releasers
      PROVE  cons'[r] = cons[r] \/ (cons[r].pc = "asleep" /\ cons'[r].pc = "wait")
  <2>1. CASE r \in C
    <3>1. cons'[r] = [cons[r] EXCEPT !.pc = "wait"]
      BY <1>7, <2>1
    <3>2. cons'[r].pc = "wait"
      BY <1>3, <3>1, Zenon
    <3> QED
      BY <1>6, <2>1, <3>2
  <2>2. CASE r \notin C
    BY <1>7, <2>2
  <2> QED
    BY <2>1, <2>2
<1>10. cons' \in [Releasers -> Q!ConsumerState]
  <2>1. cons' = [r \in Releasers |-> cons'[r]]
    BY <1>4
  <2> QED
    BY <1>8, <2>1
<1> QED
  BY <1>9, <1>10

\* The end of an enqueue, which may come when the semaphore has gone.
LEMMA NotifyStep ==
  ASSUME Inv, NEW w \in Coroutines, NotifyReleaser(w)
  PROVE  Inv'
<1>1. /\ Queue!Notify(w) /\ prod[w].pc = "notify" /\ prod[w].sent = 1
      /\ prod' = [prod EXCEPT ![w].pc = IF Queue!MoreToSend(w) THEN "enqueue" ELSE "done"]
      /\ UNCHANGED <<m_head, m_tail, next, value, heap, m_mutex, arr, life, chain, acq, rel, started, refs, refcnt>>
  BY DEF NotifyReleaser, Queue!Notify, Queue!memory, Inv, EnqueueInv
<1>2. prod' = [prod EXCEPT ![w].pc = "done"]
  BY <1>1 DEF Queue!MoreToSend
<1>3. /\ prod'[w].pc = "done" /\ \A x \in Coroutines \ {w} : prod'[x] = prod[x]
      /\ prod' \in [Coroutines -> Q!ProducerState]
  <2>1. [prod[w] EXCEPT !.pc = "done"] \in Q!ProducerState
    BY Q!ProducerUpdate, QueueAssumption DEF Inv, TypeOK
  <2> QED
    BY <1>2, <2>1 DEF Inv, TypeOK
<1>4. /\ cons' \in [Releasers -> Q!ConsumerState]
      /\ \A r \in Releasers : cons'[r] = cons[r] \/ (cons[r].pc = "asleep" /\ cons'[r].pc = "wait")
  BY NotifyEffect
<1>5. TypeOK' /\ RefInv' /\ GoneInv'
  BY <1>1, <1>3, <1>4 DEF Inv, TypeOK, RefInv, GoneInv
<1>6. HolderInv'
  BY <1>1, <1>4 DEF Inv, HolderInv
<1>7. EnqueueInv'
  BY <1>1, <1>3 DEF Inv, EnqueueInv
<1>8. OpenInv'
  <2>1. life = "open" => Q!Inv'
    BY <1>1, QueueSteps DEF Inv, OpenInv
  <2> QED
    BY <1>1, <1>3, <2>1, OpenStep
<1> QED
  BY <1>5, <1>6, <1>7, <1>8 DEF Inv

-----------------------------------------------------------------------------
(* The releasers *)

LEMMA ReleaseStep ==
  ASSUME Inv, NEW r \in Releasers, ReleaseOne(r)
  PROVE  Inv'
<1>1. /\ r \in refs /\ rel[r] = "ready" /\ UNCHANGED <<queueVars, acq, started, refs, refcnt>>
      /\ rel' \in [Releasers -> {"ready", "wake", "done"}]
      /\ \A x \in Releasers \ {r} : rel'[x] = rel[x]
  BY DEF ReleaseOne, Inv, TypeOK
<1>2. /\ UNCHANGED <<m_head, m_tail, next, value, heap, prod, cons, m_mutex, arr, life, chain>>
      /\ life = "open" => Q!Inv'
  BY <1>1, QueueFrame
<1>3. TypeOK' /\ RefInv' /\ EnqueueInv' /\ GoneInv'
  BY <1>1, <1>2 DEF Inv, TypeOK, RefInv, EnqueueInv, GoneInv
<1>4. HolderInv'
  BY <1>1, <1>2 DEF Inv, HolderInv
<1>5. OpenInv'
  BY <1>1, <1>2, OpenStep
<1> QED
  BY <1>3, <1>4, <1>5 DEF Inv

\* Whoever takes the mutex, in wait_dequeue, has an rc_ptr; so has who waits.
LEMMA DequeueStep ==
  ASSUME Inv, NEW r \in Releasers, Dequeue(r)
  PROVE  Inv'
<1>1. /\ rel[r] = "wake" /\ UNCHANGED <<acq, rel, started, refs, refcnt>>
      /\ UNCHANGED <<m_head, m_tail, next, value, heap, prod, arr, life, chain>>
  BY DEF Dequeue, Queue!BeginWait, Queue!LoadNext, Queue!Loop, Queue!Wait, Queue!Recheck, Queue!ReloadTail,
         Queue!memory
<1>2. life = "open" /\ Q!Inv
  BY <1>1 DEF Inv, TypeOK, RefInv, HolderInv, OpenInv
<1>3. Q!Inv'
  BY <1>2, QueueSteps DEF Dequeue
<1>4. TypeOK' /\ RefInv' /\ EnqueueInv' /\ GoneInv'
  <2>1. TypeOK'
    BY <1>1, <1>3 DEF Inv, TypeOK, Q!Inv, Q!TypeOK
  <2> QED
    BY <1>1, <2>1 DEF Inv, RefInv, EnqueueInv, GoneInv
<1>5. \A x \in Releasers \ {r} : cons'[x] = cons[x]
  BY DEF Dequeue, Queue!BeginWait, Queue!LoadNext, Queue!Loop, Queue!Wait, Queue!Recheck, Queue!ReloadTail,
         Queue!Goto, Inv, TypeOK
<1>6. \/ m_mutex' = Null
      \/ m_mutex' = r /\ cons'[r].pc \in {"load", "loop", "reload", "spin"}
      \/ m_mutex' = m_mutex /\ m_mutex # r
  <2>1. ASSUME NEW k, NEW h, NEW t, NEW n, Queue!Goto(r, k, h, t, n)
        PROVE  cons'[r].pc = k
    BY <2>1 DEF Queue!Goto, Inv, TypeOK
  <2>2. CASE Queue!BeginWait(r) \/ Queue!Recheck(r)
    BY <2>1, <2>2 DEF Queue!BeginWait, Queue!Recheck
  <2>3. CASE Queue!LoadNext(r) \/ Queue!ReloadTail(r)
    BY <2>1, <2>3 DEF Queue!LoadNext, Queue!ReloadTail
  <2>4. CASE Queue!Loop(r)
    BY <2>1, <2>4 DEF Queue!Loop
  <2>5. CASE Queue!Wait(r)
    BY <2>5 DEF Queue!Wait, Inv, HolderInv
  <2> QED
    BY <2>2, <2>3, <2>4, <2>5 DEF Dequeue
<1>7. HolderInv'
  BY <1>1, <1>5, <1>6 DEF Inv, HolderInv
<1>8. OpenInv'
  BY <1>1, <1>3, OpenStep
<1> QED
  BY <1>4, <1>7, <1>8 DEF Inv

\* The handle that is resumed is the one of a coroutine that waits and is past
\* the linking of its node.
LEMMA ResumeEffect ==
  ASSUME Inv, NEW r \in Releasers, Resume(r)
  PROVE  /\ life = "open" /\ Q!Inv /\ Q!Inv'
         /\ Len(chain) \in Nat /\ Len(chain) >= 2 /\ cons[r].next = chain[2]
         /\ m_head = chain[1] /\ next[chain[1]] # Null
         /\ \A i \in 1..Len(chain) : chain[i] \in Nodes /\ (chain[i] = chain[2] => i = 2)
         /\ \A x \in Coroutines : prod[x].pc = "link" =>
              prod[x].node # chain[2] /\ \E i \in 2..Len(chain) : prod[x].node = chain[i]
         /\ Len(chain') = Len(chain) - 1
         /\ \A i \in 2..Len(chain) : i # 2 =>
              i - 1 \in 2..Len(chain') /\ chain'[i - 1] = chain[i] /\ value'[chain[i]] = value[chain[i]]
         /\ \E v \in Coroutines :
              /\ value[chain[2]] = <<v, 1>> /\ prod[v].pc \notin {"enqueue", "link"}
              /\ acq' = [acq EXCEPT ![v] = "granted"]
<1>1. /\ cons[r].pc = "loop" /\ cons[r].next # Null /\ Queue!Pop(r)
      /\ acq' = [acq EXCEPT ![Handle(value[cons[r].next])] = "granted"]
      /\ rel' = [rel EXCEPT ![r] = "done"]
      /\ m_mutex' = Null /\ UNCHANGED <<m_tail, next, prod, life, started, refs, refcnt>>
      /\ value' = [value EXCEPT ![cons[r].next] = Null] /\ chain' = Tail(chain)
      /\ cons' = [cons EXCEPT ![r] = Queue!Idle("wait")]
  BY DEF Resume, Queue!Pop, Queue!Unlink, Queue!Return
<1>2. life = "open" /\ Q!Inv
  BY <1>1 DEF Inv, TypeOK, RefInv, HolderInv, OpenInv
<1>3. Q!Inv'
  BY <1>1, <1>2, QueueSteps
<1>4. /\ Len(chain) \in Nat /\ Len(chain) >= 2 /\ cons[r].next = chain[2]
      /\ m_head = chain[1] /\ next[chain[1]] # Null
  <2>1. cons[r].next = next[m_head] /\ next[m_head] # Null
    BY <1>1, <1>2 DEF Q!Inv, Q!LockInv
  <2>2. Len(chain) >= 2 /\ m_head = chain[1] /\ next[m_head] = chain[2]
    BY <1>2, <2>1, Q!Successor, QueueAssumption
  <2>3. Len(chain) \in Nat
    BY <1>2, Q!Lengths, QueueAssumption
  <2> QED
    BY <2>1, <2>2, <2>3
<1>5. \A i \in 1..Len(chain) : chain[i] \in Nodes /\ (chain[i] = chain[2] => i = 2)
  BY <1>2, <1>4, Q!Lengths, QueueAssumption DEF Q!Inv, Q!ChainInv
<1>6. PICK v \in Coroutines : value[chain[2]] = <<v, 1>> /\ 1 <= prod[v].sent
  <2>1. value[chain[2]] \in Q!Elements /\ value[chain[2]][2] <= prod[value[chain[2]][1]].sent
    BY <1>2, <1>4 DEF Q!Inv, Q!ValueInv
  <2>2. PICK v \in Coroutines, k \in 1..1 : value[chain[2]] = <<v, k>>
    BY <2>1 DEF Q!Elements
  <2>3. k = 1
    OBVIOUS
  <2> QED
    BY <2>1, <2>2, <2>3
<1>7. \A x \in Coroutines : prod[x].pc = "link" =>
        prod[x].node # chain[2] /\ \E i \in 2..Len(chain) : prod[x].node = chain[i]
  <2> SUFFICES ASSUME NEW x \in Coroutines, prod[x].pc = "link"
               PROVE  prod[x].node # chain[2] /\ \E i \in 2..Len(chain) : prod[x].node = chain[i]
    OBVIOUS
  <2>1. PICK i \in 1..(Len(chain) - 1) : prod[x].node = chain[i + 1] /\ next[chain[i]] = Null
    BY <1>2 DEF Q!Inv, Q!LinkInv, Q!Linking
  <2>2. i # 1
    BY <1>4, <2>1
  <2>3. i + 1 \in 2..Len(chain) /\ i + 1 # 2 /\ i + 1 \in 1..Len(chain)
    BY <1>4, <2>2
  <2> QED
    BY <1>5, <2>1, <2>3
<1>8. prod[v].pc \notin {"enqueue", "link"}
  <2>1. prod[v].pc # "enqueue"
    BY <1>6 DEF Inv, EnqueueInv
  <2>2. prod[v].pc # "link"
    <3> SUFFICES ASSUME prod[v].pc = "link" PROVE FALSE
      OBVIOUS
    <3>1. PICK i \in 2..Len(chain) : prod[v].node = chain[i]
      BY <1>7
    <3>2. value[chain[i]] = value[chain[2]] /\ 2 \in 2..Len(chain)
      BY <1>2, <1>4, <1>6, <3>1 DEF Inv, OpenInv
    <3>3. i = 2
      BY <1>2, <3>2 DEF Q!Inv, Q!ValueInv
    <3> QED
      BY <1>7, <3>1, <3>3
  <2> QED
    BY <2>1, <2>2
<1>9. acq' = [acq EXCEPT ![v] = "granted"]
  BY <1>1, <1>4, <1>6 DEF Handle
<1>10. /\ Len(chain') = Len(chain) - 1
       /\ \A i \in 1..(Len(chain) - 1) : chain'[i] = chain[i + 1]
  BY <1>1, <1>2, <1>4, Q!ChainShrinks, QueueAssumption
<1>11. \A m \in Nodes : m # chain[2] => value'[m] = value[m]
  BY <1>1, <1>2, <1>4 DEF Q!Inv, Q!TypeOK
<1>12. ASSUME NEW i \in 2..Len(chain), i # 2
       PROVE  i - 1 \in 2..Len(chain') /\ chain'[i - 1] = chain[i] /\ value'[chain[i]] = value[chain[i]]
  <2>1. /\ i - 1 \in 2..Len(chain') /\ i - 1 \in 1..(Len(chain) - 1) /\ (i - 1) + 1 = i
        /\ i \in 1..Len(chain)
    BY <1>4, <1>10, <1>12
  <2>2. chain'[i - 1] = chain[i]
    BY <1>10, <2>1
  <2> QED
    BY <1>5, <1>11, <1>12, <2>1, <2>2
<1> QED
  BY <1>2, <1>3, <1>4, <1>5, <1>6, <1>7, <1>8, <1>9, <1>10, <1>12

LEMMA ResumeStep ==
  ASSUME Inv, NEW r \in Releasers, Resume(r)
  PROVE  Inv'
<1>1. /\ rel' = [rel EXCEPT ![r] = "done"] /\ cons' = [cons EXCEPT ![r] = Queue!Idle("wait")]
      /\ m_mutex' = Null /\ UNCHANGED <<m_tail, next, prod, life, started, refs, refcnt>>
      /\ value' = [value EXCEPT ![cons[r].next] = Null]
  BY DEF Resume, Queue!Pop, Queue!Unlink, Queue!Return
<1>2. PICK v \in Coroutines :
        /\ value[chain[2]] = <<v, 1>> /\ prod[v].pc \notin {"enqueue", "link"}
        /\ acq' = [acq EXCEPT ![v] = "granted"]
  BY ResumeEffect
<1>3. /\ life = "open" /\ Q!Inv /\ Q!Inv'
      /\ Len(chain) \in Nat /\ Len(chain) >= 2 /\ cons[r].next = chain[2]
      /\ \A i \in 1..Len(chain) : chain[i] \in Nodes /\ (chain[i] = chain[2] => i = 2)
  BY ResumeEffect
<1>4. \A x \in Coroutines : prod[x].pc = "link" =>
        prod[x].node # chain[2] /\ \E i \in 2..Len(chain) : prod[x].node = chain[i]
  BY ResumeEffect
<1>5. \A i \in 2..Len(chain) : i # 2 =>
        i - 1 \in 2..Len(chain') /\ chain'[i - 1] = chain[i] /\ value'[chain[i]] = value[chain[i]]
  BY ResumeEffect
<1>6. acq'[v] = "granted" /\ \A x \in Coroutines \ {v} : acq'[x] = acq[x]
  BY <1>2 DEF Inv, TypeOK
<1>7. TypeOK' /\ RefInv' /\ GoneInv'
  <2>1. acq' \in [Coroutines -> {"ready", "enqueue", "waiting", "lost", "granted", "destroyed"}]
    BY <1>2 DEF Inv, TypeOK
  <2>2. TypeOK'
    BY <1>1, <1>3, <2>1 DEF Inv, TypeOK, Q!Inv, Q!TypeOK
  <2> QED
    BY <1>1, <1>3, <2>2 DEF Inv, RefInv, GoneInv
<1>8. HolderInv'
  <2>1. /\ cons'[r].pc = "idle" /\ rel'[r] = "done"
        /\ \A x \in Releasers \ {r} : cons'[x] = cons[x] /\ rel'[x] = rel[x]
    BY <1>1 DEF Queue!Idle, Inv, TypeOK
  <2> QED
    BY <1>1, <1>6, <2>1 DEF Inv, HolderInv
<1>9. EnqueueInv'
  BY <1>1, <1>2, <1>6 DEF Inv, EnqueueInv
<1>10. OpenInv'
  <2>1. \A m \in Nodes : m # chain[2] => value'[m] = value[m]
    BY <1>1, <1>3 DEF Q!Inv, Q!TypeOK
  <2>2. ASSUME NEW x \in Coroutines, prod'[x].pc = "link" PROVE value'[prod'[x].node] = <<x, 1>>
    <3>1. prod[x].pc = "link" /\ prod'[x].node = prod[x].node
      BY <1>1, <2>2
    <3>2. prod[x].node \in Nodes /\ prod[x].node # chain[2]
      <4>1. PICK i \in 2..Len(chain) : prod[x].node = chain[i]
        BY <1>4, <3>1
      <4> QED
        BY <1>3, <1>4, <3>1, <4>1
    <3> QED
      BY <1>3, <2>1, <3>1, <3>2 DEF Inv, OpenInv
  <2>3. ASSUME NEW x \in Coroutines, acq'[x] = "waiting"
        PROVE  \E i \in 2..Len(chain') : value'[chain'[i]] = <<x, 1>>
    <3>1. x # v /\ acq[x] = "waiting"
      BY <1>6, <2>3
    <3>2. PICK i \in 2..Len(chain) : value[chain[i]] = <<x, 1>>
      BY <1>3, <3>1 DEF Inv, OpenInv
    <3>3. i # 2
      BY <1>2, <3>1, <3>2
    <3> QED
      BY <1>5, <3>2, <3>3
  <2> QED
    BY <1>3, <2>2, <2>3 DEF OpenInv
<1> QED
  BY <1>7, <1>8, <1>9, <1>10 DEF Inv

-----------------------------------------------------------------------------
(* The theorems *)

LEMMA InvStep == Inv /\ [Next]_vars => Inv'
<1> SUFFICES ASSUME Inv, [Next]_vars PROVE Inv'
  OBVIOUS
<1>1. CASE UNCHANGED vars
  <2>1. UNCHANGED <<queueVars, acq, rel, started, refs, refcnt>>
    BY <1>1 DEF vars
  <2>2. /\ UNCHANGED <<m_head, m_tail, next, value, heap, prod, cons, m_mutex, arr, life, chain>>
        /\ life = "open" => Q!Inv'
    BY <2>1, QueueFrame
  <2>3. TypeOK' /\ RefInv' /\ HolderInv' /\ EnqueueInv' /\ GoneInv'
    BY <2>1, <2>2 DEF Inv, TypeOK, RefInv, HolderInv, EnqueueInv, GoneInv
  <2>4. OpenInv'
    BY <2>1, <2>2, OpenStep
  <2> QED
    BY <2>3, <2>4 DEF Inv
<1>2. CASE OwnerEnds
  BY <1>2, DropStep DEF OwnerEnds, Users
<1>3. ASSUME NEW w \in Coroutines, CoroutineStep(w) \/ GiveUp(w) PROVE Inv'
  <2>1. CASE End(w) \/ GiveUp(w)
    BY <2>1, DropStep DEF End, GiveUp, Users
  <2>2. CASE Start(w)
    BY <2>2, StartStep DEF Users
  <2> QED
    BY <1>3, <2>1, <2>2, AcquireStep, EnqueueStep, EnqueueFailsStep, LinkStep, NotifyStep DEF CoroutineStep
<1>4. ASSUME NEW r \in Releasers, ReleaserStep(r) \/ Cancel(r) PROVE Inv'
  <2>1. CASE ReleaserEnds(r) \/ Cancel(r)
    BY <2>1, DropStep DEF ReleaserEnds, Cancel, Users
  <2>2. CASE Start(r)
    BY <2>2, StartStep DEF Users
  <2> QED
    BY <1>4, <2>1, <2>2, ReleaseStep, DequeueStep, ResumeStep DEF ReleaserStep
<1> QED
  BY <1>1, <1>2, <1>3, <1>4 DEF Next, Terminating

\* Whoever is inside acquire() or release() holds an rc_ptr; the semaphore
\* lives exactly as long as somebody does (rc_ptr.hpp), and until then a
\* coroutine that waits has its handle in m_waiters.
THEOREM SharedInvariant == Spec => []Inv
BY InvInit, InvStep, PTL DEF Spec

\* No node and no semaphore is used after its deletion, however many releasers
\* are inside wait_dequeue and acquisitions are given up; and when the last
\* rc_ptr has gone, nothing is left (sync.hpp, main.cpp:73-109).
THEOREM SharedMemorySafe == Spec => []MemorySafe
<1>1. ASSUME Inv PROVE MemorySafe
  <2>1. Queue!NoDanglingDeref
    <3>1. CASE life = "open"
      <4>1. Q!NoDanglingDeref
        BY <1>1, <3>1, Q!NoDangling, QueueAssumption DEF Inv, OpenInv
      <4> QED
        BY <4>1, Zenon DEF Q!NoDanglingDeref, Queue!NoDanglingDeref
    <3>2. CASE life = "gone"
      BY <1>1, <3>2 DEF Inv, RefInv, HolderInv, EnqueueInv, Queue!NoDanglingDeref
    <3> QED
      BY <1>1, <3>1, <3>2 DEF Inv, TypeOK
  <2>2. NoUseAfterFree
    BY <1>1, <2>1 DEF Inv, RefInv, HolderInv, NoUseAfterFree
  <2>3. NothingLeft
    BY <1>1 DEF Inv, RefInv, GoneInv, NothingLeft
  <2> QED
    BY <2>2, <2>3 DEF MemorySafe
<1> QED
  BY <1>1, SharedInvariant, PTL

-----------------------------------------------------------------------------
(* What the refinement of CountingSemaphore needs besides *)

\* Whose handle is in the queue has not been resumed, nor given up its node.
QueuedInv ==
  life = "open" =>
    /\ \A w \in Coroutines : acq[w] # "destroyed"
    /\ \A w \in Coroutines, i \in 2..Len(chain) : value[chain[i]] = <<w, 1>> => acq[w] \in {"enqueue", "waiting"}

\* Who holds the mutex and saw a tail that is not the head has an element before
\* him: nobody else removes it.
TailInv ==
  life = "open" => \A r \in Releasers :
    cons[r].pc \in {"load", "loop"} /\ Len(chain) = 1 => cons[r].tail \in {Null, cons[r].head}

SemInv == count \in Int /\ waiters \in Nat /\ QueuedInv /\ TailInv

\* A coroutine that has not enqueued yet is not in the chain.
LEMMA NotQueued ==
  ASSUME Inv, life = "open", NEW w \in Coroutines, prod[w].pc = "enqueue"
  PROVE  \A i \in 2..Len(chain) : value[chain[i]] # <<w, 1>>
<1> SUFFICES ASSUME NEW i \in 2..Len(chain), value[chain[i]] = <<w, 1>> PROVE FALSE
  OBVIOUS
<1>1. 1 <= prod[w].sent
  BY DEF Inv, OpenInv, Q!Inv, Q!ValueInv
<1> QED
  BY <1>1 DEF Inv, EnqueueInv

LEMMA QueuedFrame ==
  ASSUME QueuedInv, UNCHANGED <<value, chain, life>>,
         \A w \in Coroutines :
           \/ acq'[w] = acq[w] \/ acq'[w] \in {"enqueue", "waiting"}
           \/ /\ acq'[w] # "destroyed"
              /\ life = "open" => \A i \in 2..Len(chain) : value[chain[i]] # <<w, 1>>
  PROVE  QueuedInv'
BY DEF QueuedInv

LEMMA QueuedStep ==
  ASSUME Inv, Inv', QueuedInv, [Next]_vars
  PROVE  QueuedInv'
<1>1. ASSUME UNCHANGED <<queueVars, acq>> PROVE QueuedInv'
  BY <1>1 DEF queueVars, QueuedInv
<1>2. ASSUME NEW u, Drop(u) PROVE QueuedInv'
  <2>1. CASE Delete
    BY <2>1 DEF Delete, QueuedInv
  <2>2. CASE ~Delete
    BY <1>1, <1>2, <2>2 DEF Drop
  <2> QED
    BY <2>1, <2>2
<1>3. ASSUME NEW w \in Coroutines, Acquire(w) PROVE QueuedInv'
  <2>1. /\ prod[w].pc = "enqueue" /\ UNCHANGED <<value, chain, life>>
        /\ acq'[w] # "destroyed" /\ \A x \in Coroutines \ {w} : acq'[x] = acq[x]
    BY <1>3 DEF Acquire, queueVars, Inv, TypeOK, EnqueueInv
  <2> QED
    BY <2>1, NotQueued, QueuedFrame
<1>4. ASSUME NEW w \in Coroutines, EnqueueWaiter(w) PROVE QueuedInv'
  <2>1. /\ UNCHANGED <<life, acq>> /\ life = "open" /\ acq[w] = "enqueue"
        /\ Len(chain) \in Nat /\ Len(chain) >= 1 /\ Len(chain') = Len(chain) + 1
        /\ \A i \in 1..Len(chain) : chain'[i] = chain[i] /\ value'[chain[i]] = value[chain[i]]
        /\ value'[chain'[Len(chain) + 1]] = <<w, 1>>
    BY <1>4, EnqueueEffect
  <2>2. ASSUME NEW x \in Coroutines, NEW i \in 2..Len(chain'), value'[chain'[i]] = <<x, 1>>
        PROVE  acq[x] \in {"enqueue", "waiting"}
    <3>1. CASE i = Len(chain) + 1
      BY <2>1, <2>2, <3>1
    <3>2. CASE i # Len(chain) + 1
      <4>1. i \in 2..Len(chain) /\ i \in 1..Len(chain)
        BY <2>1, <3>2
      <4>2. value[chain[i]] = <<x, 1>>
        BY <2>1, <2>2, <4>1
      <4> QED
        BY <2>1, <4>1, <4>2 DEF QueuedInv
    <3> QED
      BY <3>1, <3>2
  <2> QED
    BY <2>1, <2>2 DEF QueuedInv
<1>5. ASSUME NEW w \in Coroutines, EnqueueFails(w) PROVE QueuedInv'
  <2>1. /\ prod[w].pc = "enqueue" /\ UNCHANGED <<value, chain, life>>
        /\ acq'[w] = "lost" /\ \A x \in Coroutines \ {w} : acq'[x] = acq[x]
    BY <1>5 DEF EnqueueFails, Inv, TypeOK
  <2> QED
    BY <2>1, NotQueued, QueuedFrame
<1>6. ASSUME NEW w \in Coroutines, LinkWaiter(w) PROVE QueuedInv'
  <2>1. /\ UNCHANGED <<value, chain, life>>
        /\ acq'[w] = "waiting" /\ \A x \in Coroutines \ {w} : acq'[x] = acq[x]
    BY <1>6 DEF LinkWaiter, Queue!Link, Inv, TypeOK
  <2> QED
    BY <2>1, QueuedFrame
<1>7. ASSUME NEW r \in Releasers, Resume(r) PROVE QueuedInv'
  <2>1. PICK v \in Coroutines : value[chain[2]] = <<v, 1>> /\ acq' = [acq EXCEPT ![v] = "granted"]
    BY <1>7, ResumeEffect
  <2>2. /\ life = "open" /\ Q!Inv /\ Len(chain) \in Nat /\ Len(chain) >= 2 /\ Len(chain') = Len(chain) - 1
        /\ \A i \in 2..Len(chain) : i # 2 =>
             i - 1 \in 2..Len(chain') /\ chain'[i - 1] = chain[i] /\ value'[chain[i]] = value[chain[i]]
    BY <1>7, ResumeEffect
  <2>3. ASSUME NEW x \in Coroutines, NEW i \in 2..Len(chain'), value'[chain'[i]] = <<x, 1>>
        PROVE  acq'[x] \in {"enqueue", "waiting"}
    <3> DEFINE k == i + 1
    <3>1. k \in 2..Len(chain) /\ k # 2 /\ k - 1 = i /\ 2 \in 2..Len(chain)
      BY <2>2
    <3> HIDE DEF k
    <3>2. value[chain[k]] = <<x, 1>>
      BY <2>2, <2>3, <3>1
    <3>3. x # v
      <4>1. value[chain[k]] # value[chain[2]]
        BY <2>2, <3>1 DEF Q!Inv, Q!ValueInv
      <4> QED
        BY <2>1, <3>2, <4>1
    <3>4. acq[x] \in {"enqueue", "waiting"}
      BY <2>2, <3>1, <3>2 DEF QueuedInv
    <3> QED
      BY <2>1, <3>3, <3>4 DEF Inv, TypeOK
  <2>4. \A x \in Coroutines : acq'[x] # "destroyed"
    BY <2>1, <2>2 DEF QueuedInv, Inv, TypeOK
  <2> QED
    BY <2>3, <2>4 DEF QueuedInv
<1>8. ASSUME NEW w \in Coroutines, NotifyReleaser(w) PROVE QueuedInv'
  BY <1>8 DEF NotifyReleaser, Queue!Notify, Queue!memory, QueuedInv
<1>9. ASSUME NEW r \in Releasers, Dequeue(r) PROVE QueuedInv'
  BY <1>9 DEF Dequeue, Queue!BeginWait, Queue!LoadNext, Queue!Loop, Queue!Wait, Queue!Recheck, Queue!ReloadTail,
     Queue!memory, QueuedInv
<1>10. CASE UNCHANGED vars
  BY <1>1, <1>10 DEF vars
<1>11. ASSUME NEW u, Start(u) PROVE QueuedInv'
  BY <1>1, <1>11 DEF Start
<1>12. ASSUME NEW r \in Releasers, ReleaseOne(r) PROVE QueuedInv'
  BY <1>1, <1>12 DEF ReleaseOne
<1> QED
  BY <1>2, <1>3, <1>4, <1>5, <1>6, <1>7, <1>8, <1>9, <1>10, <1>11, <1>12
     DEF Next, OwnerEnds, CoroutineStep, ReleaserStep, End, GiveUp, ReleaserEnds, Cancel, Terminating

LEMMA TailStep ==
  ASSUME Inv, TailInv, [Next]_vars
  PROVE  TailInv'
<1>1. ASSUME UNCHANGED <<cons, chain, life>> PROVE TailInv'
  BY <1>1 DEF TailInv
<1>2. ASSUME NEW u, Drop(u) PROVE TailInv'
  <2>1. CASE Delete
    BY <2>1 DEF Delete, TailInv
  <2>2. CASE ~Delete
    BY <1>1, <1>2, <2>2 DEF Drop, queueVars
  <2> QED
    BY <2>1, <2>2
<1>3. ASSUME NEW w \in Coroutines, EnqueueWaiter(w) PROVE TailInv'
  <2>1. Len(chain) \in Nat /\ Len(chain) >= 1 /\ Len(chain') = Len(chain) + 1
    BY <1>3, EnqueueEffect
  <2> QED
    BY <2>1 DEF TailInv
<1>4. ASSUME NEW w \in Coroutines, NotifyReleaser(w) PROVE TailInv'
  <2>1. UNCHANGED <<chain, life>>
    BY <1>4 DEF NotifyReleaser, Queue!Notify, Queue!memory
  <2>2. \A r \in Releasers : cons'[r] = cons[r] \/ cons'[r].pc = "wait"
    BY <1>4, NotifyEffect
  <2> QED
    BY <2>1, <2>2 DEF TailInv
<1>5. ASSUME NEW r \in Releasers, Dequeue(r) PROVE TailInv'
  <2>1. /\ UNCHANGED <<m_head, m_tail, chain, life>> /\ rel[r] = "wake"
        /\ \A x \in Releasers \ {r} : cons'[x] = cons[x]
    BY <1>5 DEF Dequeue, Queue!BeginWait, Queue!LoadNext, Queue!Loop, Queue!Wait, Queue!Recheck, Queue!ReloadTail,
       Queue!memory, Queue!Goto, Inv, TypeOK
  <2>2. life = "open" /\ Q!Inv
    BY <2>1 DEF Inv, TypeOK, RefInv, HolderInv, OpenInv
  <2>3. Len(chain) = 1 => m_tail = m_head
    BY <2>2, Q!Lengths, QueueAssumption DEF Q!Inv, Q!ChainInv
  <2>4. ASSUME NEW k, NEW h, NEW t, NEW n, Queue!Goto(r, k, h, t, n)
        PROVE  cons'[r].pc = k /\ cons'[r].head = h /\ cons'[r].tail = t
    BY <2>4 DEF Queue!Goto, Inv, TypeOK
  <2>5. cons'[r].pc \in {"load", "loop"} /\ Len(chain) = 1 => cons'[r].tail \in {Null, cons'[r].head}
    <3>1. CASE Queue!BeginWait(r)
      BY <2>3, <2>4, <3>1 DEF Queue!BeginWait
    <3>2. CASE Queue!LoadNext(r)
      BY <2>2, <2>4, <3>2 DEF Queue!LoadNext, TailInv
    <3>3. CASE Queue!Loop(r) \/ Queue!Recheck(r)
      BY <2>4, <3>3 DEF Queue!Loop, Queue!Recheck
    <3>4. CASE Queue!Wait(r)
      BY <3>4 DEF Queue!Wait, Inv, TypeOK
    <3>5. CASE Queue!ReloadTail(r)
      <4>1. cons[r].head = m_head
        BY <2>2, <3>5 DEF Queue!ReloadTail, Q!Inv, Q!LockInv
      <4> QED
        BY <2>3, <2>4, <3>5, <4>1 DEF Queue!ReloadTail
    <3> QED
      BY <1>5, <3>1, <3>2, <3>3, <3>4, <3>5 DEF Dequeue
  <2> QED
    BY <2>1, <2>5 DEF TailInv
<1>6. ASSUME NEW r \in Releasers, Resume(r) PROVE TailInv'
  <2>1. Q!Inv /\ cons[r].pc = "loop" /\ cons' = [cons EXCEPT ![r] = Queue!Idle("wait")]
    BY <1>6, ResumeEffect DEF Resume, Queue!Pop, Queue!Return
  <2>2. \A x \in Releasers \ {r} : cons[x].pc \notin {"load", "loop"}
    BY <2>1 DEF Q!Inv, Q!LockInv
  <2>3. \A x \in Releasers : cons'[x].pc \notin {"load", "loop"}
    BY <2>1, <2>2 DEF Inv, TypeOK, Queue!Idle
  <2> QED
    BY <2>3 DEF TailInv
<1>7. ASSUME NEW w \in Coroutines, Acquire(w) \/ EnqueueFails(w) \/ LinkWaiter(w) PROVE TailInv'
  BY <1>1, <1>7 DEF Acquire, EnqueueFails, LinkWaiter, Queue!Link, queueVars
<1>8. ASSUME NEW u, Start(u) \/ ReleaseOne(u) PROVE TailInv'
  BY <1>1, <1>8 DEF Start, ReleaseOne, queueVars
<1>9. CASE UNCHANGED vars
  BY <1>1, <1>9 DEF vars, queueVars
<1> QED
  BY <1>2, <1>3, <1>4, <1>5, <1>6, <1>7, <1>8, <1>9
     DEF Next, OwnerEnds, CoroutineStep, ReleaserStep, End, GiveUp, ReleaserEnds, Cancel, Terminating

LEMMA CounterStep ==
  ASSUME count \in Int, waiters \in Nat, [Next]_vars
  PROVE  count' \in Int /\ waiters' \in Nat
<1>1. ASSUME NEW w \in Coroutines, Acquire(w) PROVE count' \in Int /\ waiters' \in Nat
  BY <1>1 DEF Acquire
<1>2. ASSUME NEW r \in Releasers, ReleaseOne(r) PROVE count' \in Int /\ waiters' \in Nat
  BY <1>2 DEF ReleaseOne, Sem!LeftWaiting, Sem!NeedWake
<1>3. \/ \E w \in Coroutines : Acquire(w)
      \/ \E r \in Releasers : ReleaseOne(r)
      \/ UNCHANGED <<count, waiters>>
  BY DEF Next, OwnerEnds, CoroutineStep, ReleaserStep, End, GiveUp, ReleaserEnds, Cancel, Terminating, Drop,
     Start, EnqueueWaiter, EnqueueFails, LinkWaiter, NotifyReleaser, Dequeue, Resume, vars
<1> QED
  BY <1>1, <1>2, <1>3

-----------------------------------------------------------------------------
(* The refinement of CountingSemaphore *)

\* The variables of the abstract semaphore.
HandlesOf(s) == [i \in DOMAIN s |-> Handle(s[i])]
Handles == HandlesOf(Queue!items)
LinkedHandles == {Handle(e) : e \in Queue!published}
Stages == [u \in Users |-> Stage(u)]
Owes == [u \in Users |-> IF u \in Releasers /\ rel[u] = "wake" THEN 1 ELSE 0]
Alive == life # "gone"
Granted == Cardinality({w \in Coroutines : acq[w] = "granted"})
Released == Cardinality({r \in Releasers : rel[r] # "ready"})
Unused == InitCount + Released - Granted

A == INSTANCE CountingSemaphore WITH
  Tasks <- Users, ReleaseAmounts <- {1},
  MaxUnused <- InitCount + Cardinality(Releasers), MaxOverdrawn <- 0,
  m_waiters <- Handles, linked <- LinkedHandles, pc <- Stages, need_wake <- Owes, alive <- Alive,
  unused <- Unused, overdrawn <- 0

\* Calls of release() and acquisitions are counted in natural numbers.
LEMMA GhostTypes ==
  /\ Released \in Nat /\ Granted \in Nat
  /\ Cardinality(Releasers) \in Nat /\ IsFiniteSet(Releasers) /\ InitCount \in Nat
<1>1. /\ {r \in Releasers : rel[r] # "ready"} \in SUBSET Users
      /\ {w \in Coroutines : acq[w] = "granted"} \in SUBSET Users
      /\ Releasers \in SUBSET Users
  BY DEF Users
<1> QED
  BY <1>1, SharedAssumption, CountAssumption, FS_Subset, FS_CardinalityType DEF Released, Granted

LEMMA HandleOfElement ==
  \A e \in Q!Elements : Handle(e) \in Coroutines /\ e = <<Handle(e), 1>>
BY DEF Q!Elements, Handle

LEMMA HandlesOfSeq ==
  ASSUME NEW s \in Seq(Q!Elements)
  PROVE  /\ HandlesOf(s) \in Seq(Coroutines) /\ Len(HandlesOf(s)) = Len(s)
         /\ DOMAIN HandlesOf(s) = 1..Len(s)
         /\ \A i \in 1..Len(s) : HandlesOf(s)[i] = Handle(s[i])
<1>1. DOMAIN s = 1..Len(s) /\ Len(s) \in Nat /\ \A i \in 1..Len(s) : s[i] \in Q!Elements
  BY LenProperties
<1>2. DOMAIN HandlesOf(s) = 1..Len(s) /\ \A i \in 1..Len(s) : HandlesOf(s)[i] = Handle(s[i])
  BY <1>1 DEF HandlesOf
<1>3. HandlesOf(s) \in [1..Len(s) -> Coroutines]
  BY <1>1, HandleOfElement DEF HandlesOf
<1>4. HandlesOf(s) \in Seq(Coroutines)
  BY <1>1, <1>3, SeqDef
<1> QED
  BY <1>1, <1>2, <1>3, <1>4, LenProperties

LEMMA HandlesAppend ==
  ASSUME NEW s \in Seq(Q!Elements), NEW e \in Q!Elements
  PROVE  HandlesOf(Append(s, e)) = Append(HandlesOf(s), Handle(e))
<1>1. /\ Append(s, e) \in Seq(Q!Elements) /\ Len(Append(s, e)) = Len(s) + 1 /\ Len(s) \in Nat
      /\ \A i \in 1..Len(s) : Append(s, e)[i] = s[i]
      /\ Append(s, e)[Len(s) + 1] = e
  BY AppendProperties, LenProperties
<1>2. /\ HandlesOf(Append(s, e)) \in Seq(Coroutines) /\ Len(HandlesOf(Append(s, e))) = Len(s) + 1
      /\ \A i \in 1..(Len(s) + 1) : HandlesOf(Append(s, e))[i] = Handle(Append(s, e)[i])
  BY <1>1, HandlesOfSeq
<1>3. /\ HandlesOf(s) \in Seq(Coroutines) /\ Len(HandlesOf(s)) = Len(s)
      /\ \A i \in 1..Len(s) : HandlesOf(s)[i] = Handle(s[i])
      /\ Handle(e) \in Coroutines
  BY HandlesOfSeq, HandleOfElement
<1>4. /\ Append(HandlesOf(s), Handle(e)) \in Seq(Coroutines)
      /\ Len(Append(HandlesOf(s), Handle(e))) = Len(s) + 1
      /\ \A i \in 1..Len(s) : Append(HandlesOf(s), Handle(e))[i] = HandlesOf(s)[i]
      /\ Append(HandlesOf(s), Handle(e))[Len(s) + 1] = Handle(e)
  BY <1>3, AppendProperties
<1>5. \A i \in 1..(Len(s) + 1) : HandlesOf(Append(s, e))[i] = Append(HandlesOf(s), Handle(e))[i]
  <2> SUFFICES ASSUME NEW i \in 1..(Len(s) + 1)
               PROVE  HandlesOf(Append(s, e))[i] = Append(HandlesOf(s), Handle(e))[i]
    OBVIOUS
  <2>1. CASE i = Len(s) + 1
    BY <1>1, <1>2, <1>4, <2>1
  <2>2. CASE i # Len(s) + 1
    <3>1. i \in 1..Len(s)
      BY <1>1, <2>2
    <3> QED
      BY <1>1, <1>2, <1>3, <1>4, <3>1
  <2> QED
    BY <2>1, <2>2
<1> QED
  BY <1>2, <1>4, <1>5, SeqEqual

LEMMA HandlesTail ==
  ASSUME NEW s \in Seq(Q!Elements), s # << >>
  PROVE  /\ HandlesOf(Tail(s)) = Tail(HandlesOf(s)) /\ Head(HandlesOf(s)) = Handle(Head(s))
         /\ HandlesOf(s) # << >>
<1>1. /\ Tail(s) \in Seq(Q!Elements) /\ Len(Tail(s)) = Len(s) - 1 /\ Len(s) \in Nat /\ Len(s) >= 1
      /\ \A i \in 1..Len(Tail(s)) : Tail(s)[i] = s[i + 1]
      /\ Head(s) = s[1]
  BY HeadTailProperties, LenProperties, EmptySeq
<1>2. /\ HandlesOf(s) \in Seq(Coroutines) /\ Len(HandlesOf(s)) = Len(s)
      /\ \A i \in 1..Len(s) : HandlesOf(s)[i] = Handle(s[i])
  BY HandlesOfSeq
<1>3. HandlesOf(s) # << >>
  BY <1>1, <1>2, EmptySeq
<1>4. /\ Tail(HandlesOf(s)) \in Seq(Coroutines) /\ Len(Tail(HandlesOf(s))) = Len(s) - 1
      /\ \A i \in 1..(Len(s) - 1) : Tail(HandlesOf(s))[i] = HandlesOf(s)[i + 1]
      /\ Head(HandlesOf(s)) = HandlesOf(s)[1]
  BY <1>2, <1>3, HeadTailProperties
<1>5. /\ HandlesOf(Tail(s)) \in Seq(Coroutines) /\ Len(HandlesOf(Tail(s))) = Len(s) - 1
      /\ \A i \in 1..(Len(s) - 1) : HandlesOf(Tail(s))[i] = Handle(Tail(s)[i])
  BY <1>1, HandlesOfSeq
<1>6. \A i \in 1..(Len(s) - 1) : HandlesOf(Tail(s))[i] = Tail(HandlesOf(s))[i]
  <2> SUFFICES ASSUME NEW i \in 1..(Len(s) - 1)
               PROVE  HandlesOf(Tail(s))[i] = Tail(HandlesOf(s))[i]
    OBVIOUS
  <2>1. i + 1 \in 1..Len(s)
    BY <1>1
  <2> QED
    BY <1>1, <1>2, <1>4, <1>5, <2>1
<1>7. HandlesOf(Tail(s)) = Tail(HandlesOf(s))
  BY <1>4, <1>5, <1>6, SeqEqual
<1> QED
  BY <1>1, <1>2, <1>3, <1>4, <1>7

LEMMA SameItems ==
  /\ Queue!items = Q!items /\ Queue!published = Q!published
  /\ Queue!items' = Q!items' /\ Queue!published' = Q!published'
BY Zenon DEF Queue!items, Q!items, Queue!published, Q!published

\* The elements of the queue are the handles of different coroutines.
LEMMA ItemsAreElements ==
  ASSUME Q!Inv, life = "open"
  PROVE  /\ Queue!items \in Seq(Q!Elements) /\ Queue!published \subseteq Q!Elements
         /\ Len(Queue!items) = Len(chain) - 1 /\ Len(chain) >= 1 /\ Len(chain) \in Nat
         /\ \A i \in 1..(Len(chain) - 1) : Queue!items[i] = value[chain[i + 1]]
<1>1. Len(chain) \in Nat /\ Len(chain) >= 1
  BY Q!Lengths, QueueAssumption
<1>2. /\ Q!items \in Seq(Q!Elements) /\ Len(Q!items) = Len(chain) - 1
      /\ \A i \in 1..(Len(chain) - 1) : Q!items[i] = value[chain[i + 1]] /\ Q!items[i] \in Q!Elements
  BY <1>1, Q!ItemsOfChain, QueueAssumption
<1>3. Q!published \subseteq Q!Elements
  BY <1>2 DEF Q!published
<1> QED
  BY <1>1, <1>2, <1>3, SameItems

LEMMA ClaimsHandle ==
  ASSUME Inv, NEW w \in Coroutines, EnqueueWaiter(w)
  PROVE  A!Queue!Claim(w)
<1>1. PICK n \in Nodes : Queue!Enqueue(w, n)
  BY DEF EnqueueWaiter
<1>2. Q!Enqueue(w, n)
  BY <1>1, Zenon DEF Queue!Enqueue, Q!Enqueue, Queue!MoreToSend, Q!MoreToSend, Queue!NewNode, Q!NewNode
<1>3. life = "open" /\ Q!Inv /\ prod[w].pc = "enqueue"
  BY EnqueueEffect
<1>4. prod[w].sent = 0
  BY <1>3 DEF Inv, EnqueueInv
<1>5. <<w, 1>> \in Q!Elements /\ Q!Queue!Claim(<<w, 1>>)
  BY <1>2, <1>3, <1>4, Q!EnqueueClaims, QueueAssumption
<1>6. /\ \A i \in DOMAIN Queue!items : Queue!items[i] # <<w, 1>>
      /\ Queue!items' = Append(Queue!items, <<w, 1>>) /\ Queue!published' = Queue!published
  BY <1>5, SameItems DEF Q!Queue!Claim
<1>7. Queue!items \in Seq(Q!Elements)
  BY <1>3, ItemsAreElements
<1>8. Handles' = Append(Handles, w)
  BY <1>5, <1>6, <1>7, HandlesAppend DEF Handles, Handle
<1>9. \A i \in DOMAIN Handles : Handles[i] # w
  <2>1. DOMAIN Queue!items = 1..Len(Queue!items) /\ \A i \in 1..Len(Queue!items) : Queue!items[i] \in Q!Elements
    BY <1>7, LenProperties
  <2>2. DOMAIN Handles = 1..Len(Queue!items) /\ \A i \in 1..Len(Queue!items) : Handles[i] = Handle(Queue!items[i])
    BY <1>7, HandlesOfSeq DEF Handles
  <2> QED
    BY <1>6, <2>1, <2>2, HandleOfElement
<1>10. LinkedHandles' = LinkedHandles
  BY <1>6 DEF LinkedHandles
<1> QED
  BY <1>8, <1>9, <1>10 DEF A!Queue!Claim

LEMMA PublishesHandle ==
  ASSUME Inv, NEW w \in Coroutines, LinkWaiter(w)
  PROVE  A!Queue!Publish(w)
<1>1. Q!Link(w)
  BY Zenon DEF LinkWaiter, Queue!Link, Q!Link, Queue!Predecessor, Q!Predecessor
<1>2. life = "open" /\ Q!Inv /\ prod[w].pc = "link" /\ value[prod[w].node] = <<w, 1>>
  BY <1>1 DEF Q!Link, Inv, TypeOK, RefInv, HolderInv, EnqueueInv, OpenInv
<1>3. PICK e \in Q!Elements : Q!Queue!Publish(e) /\ e = <<w, 1>>
  BY <1>1, <1>2, Q!LinkPublishes, QueueAssumption
<1>4. /\ \E i \in DOMAIN Queue!items : Queue!items[i] = <<w, 1>>
      /\ <<w, 1>> \notin Queue!published
      /\ Queue!published' = Queue!published \cup {<<w, 1>>} /\ Queue!items' = Queue!items
  BY <1>3, SameItems DEF Q!Queue!Publish
<1>5. Queue!items \in Seq(Q!Elements) /\ Queue!published \subseteq Q!Elements
  BY <1>2, ItemsAreElements
<1>6. Handles' = Handles
  BY <1>4 DEF Handles
<1>7. \E i \in DOMAIN Handles : Handles[i] = w
  <2>1. DOMAIN Queue!items = 1..Len(Queue!items)
    BY <1>5, LenProperties
  <2>2. DOMAIN Handles = 1..Len(Queue!items) /\ \A i \in 1..Len(Queue!items) : Handles[i] = Handle(Queue!items[i])
    BY <1>5, HandlesOfSeq DEF Handles
  <2> QED
    BY <1>4, <2>1, <2>2 DEF Handle
<1>8. w \notin LinkedHandles
  BY <1>4, <1>5, HandleOfElement DEF LinkedHandles
<1>9. LinkedHandles' = LinkedHandles \cup {w}
  <2>1. Handle(<<w, 1>>) = w
    BY DEF Handle
  <2> QED
    BY <1>4, <2>1 DEF LinkedHandles
<1> QED
  BY <1>6, <1>7, <1>8, <1>9 DEF A!Queue!Publish

LEMMA TakesHandle ==
  ASSUME Inv, NEW r \in Releasers, Resume(r), NEW v \in Coroutines, value[chain[2]] = <<v, 1>>
  PROVE  A!Queue!Take(v)
<1>1. /\ life = "open" /\ Q!Inv /\ Len(chain) >= 2 /\ Len(chain) \in Nat /\ cons[r].next = chain[2]
      /\ m_head = chain[1] /\ next[chain[1]] # Null
  BY ResumeEffect
<1>2. cons[r].head = m_head /\ cons[r].next = next[m_head] /\ Queue!Pop(r)
  BY <1>1 DEF Resume, Queue!Pop, Q!Inv, Q!LockInv
<1>3. Q!Unlink(m_head, next[m_head], {value[next[m_head]]})
  BY <1>2, Zenon DEF Queue!Pop, Queue!Unlink, Q!Unlink
<1>4. PICK e \in Q!Elements : Q!Queue!Take(e)
  BY <1>1, <1>3, Q!UnlinkTakes, QueueAssumption
<1>5. /\ Queue!items # << >> /\ Head(Queue!items) \in Queue!published /\ e = Head(Queue!items)
      /\ Queue!items' = Tail(Queue!items) /\ Queue!published' = Queue!published \ {e}
  BY <1>4, SameItems DEF Q!Queue!Take, Q!Queue!FrontVisible
<1>6. /\ Queue!items \in Seq(Q!Elements) /\ Queue!published \subseteq Q!Elements
      /\ Queue!items[1] = <<v, 1>>
  BY <1>1, ItemsAreElements
<1>7. e = <<v, 1>>
  BY <1>5, <1>6
<1>8. /\ Handles' = Tail(Handles) /\ Handles # << >> /\ Head(Handles) = v
  BY <1>5, <1>6, <1>7, HandlesTail DEF Handles, Handle
<1>9. v \in LinkedHandles
  BY <1>5, <1>7 DEF LinkedHandles, Handle
<1>10. LinkedHandles' = LinkedHandles \ {v}
  BY <1>5, <1>6, <1>7, HandleOfElement DEF LinkedHandles
<1> QED
  BY <1>8, <1>9, <1>10 DEF A!Queue!Take, A!Queue!FrontVisible

LEMMA StagesSet ==
  ASSUME NEW t \in Users, NEW k, Stage(t)' = k, \A u \in Users \ {t} : Stage(u)' = Stage(u)
  PROVE  Stages' = [Stages EXCEPT ![t] = k]
BY DEF Stages

LEMMA StagesKept ==
  ASSUME \A u \in Users : Stage(u)' = Stage(u)
  PROVE  Stages' = Stages
BY DEF Stages

LEMMA SameReleaserStage ==
  ASSUME NEW r \in Releasers, rel'[r] = rel[r], Spins(r)' <=> Spins(r)
  PROVE  Stage(r)' = Stage(r)
BY DEF Stage

LEMMA CoroutineStages ==
  ASSUME Inv, NEW w \in Coroutines
  PROVE  /\ w \notin Releasers /\ w \in Users
         /\ acq[w] \in {"ready", "granted"} => Stage(w) = "running"
         /\ acq[w] = "enqueue" /\ prod[w].pc = "link" => Stage(w) = "link"
         /\ acq[w] = "enqueue" /\ prod[w].pc # "link" => Stage(w) = "enqueue"
         /\ acq[w] = "lost" => Stage(w) = "enqueue"
         /\ acq[w] = "waiting" => Stage(w) = "suspended"
         /\ acq[w] = "destroyed" => Stage(w) = "destroyed"
         /\ Stage(w) # "spin"
<1>1. w \notin Releasers /\ w \in Users
  BY DEF Users
<1>2. acq[w] = "lost" => prod[w].pc # "link"
  BY DEF Inv, EnqueueInv
<1>3. acq[w] \in {"ready", "enqueue", "waiting", "lost", "granted", "destroyed"}
  BY DEF Inv, TypeOK
<1> QED
  BY <1>1, <1>2, <1>3 DEF Stage

LEMMA CoroutineStagesNext ==
  ASSUME Inv', NEW w \in Coroutines
  PROVE  /\ acq'[w] \in {"ready", "granted"} => Stage(w)' = "running"
         /\ acq'[w] = "enqueue" /\ prod'[w].pc = "link" => Stage(w)' = "link"
         /\ acq'[w] = "enqueue" /\ prod'[w].pc # "link" => Stage(w)' = "enqueue"
         /\ acq'[w] = "lost" => Stage(w)' = "enqueue"
         /\ acq'[w] = "waiting" => Stage(w)' = "suspended"
         /\ acq'[w] = "destroyed" => Stage(w)' = "destroyed"
<1>1. w \notin Releasers
  OBVIOUS
<1>2. acq'[w] = "lost" => prod'[w].pc # "link"
  BY DEF Inv, EnqueueInv
<1> QED
  BY <1>1, <1>2 DEF Stage

\* What the stage of a coroutine and of a releaser depends on.
LEMMA SameCoroutineStage ==
  ASSUME Inv, Inv', NEW w \in Coroutines, acq'[w] = acq[w], prod'[w].pc = "link" <=> prod[w].pc = "link"
  PROVE  Stage(w)' = Stage(w)
<1>1. acq[w] \in {"ready", "enqueue", "waiting", "lost", "granted", "destroyed"}
  BY DEF Inv, TypeOK
<1> QED
  BY <1>1, CoroutineStages, CoroutineStagesNext

\* Whoever has the mutex is the only one who may spin.
LEMMA OthersDoNotSpin ==
  ASSUME Inv, life = "open", NEW r \in Releasers, m_mutex \in {Null, r}, ~Spins(r)
  PROVE  A!MutexFree
<1>1. ASSUME NEW x \in Releasers, x # r PROVE ~Spins(x)
  BY <1>1 DEF Spins, Inv, OpenInv, Q!Inv, Q!LockInv
<1>2. ASSUME NEW x \in Releasers PROVE Stage(x) # "spin"
  BY <1>1 DEF Stage
<1>3. ASSUME NEW w \in Coroutines PROVE Stage(w) # "spin"
  BY CoroutineStages
<1> QED
  BY <1>2, <1>3 DEF A!MutexFree, Stages, Users

LEMMA SameQueue ==
  ASSUME UNCHANGED <<next, value, chain>>
  PROVE  Handles' = Handles /\ LinkedHandles' = LinkedHandles
<1>1. Queue!items' = Queue!items /\ Queue!published' = Queue!published
  BY DEF Queue!items, Queue!published
<1> QED
  BY <1>1 DEF Handles, LinkedHandles

\* A step that the abstract semaphore does not see.
LEMMA Stutters ==
  ASSUME UNCHANGED <<next, value, chain, life, count, waiters, rel>>,
         \A w \in Coroutines : acq'[w] = "granted" <=> acq[w] = "granted",
         \A u \in Users : Stage(u)' = Stage(u)
  PROVE  UNCHANGED A!vars
<1>1. Handles' = Handles /\ LinkedHandles' = LinkedHandles
  BY SameQueue
<1>2. Stages' = Stages
  BY StagesKept
<1>3. Owes' = Owes /\ Alive' = Alive /\ Released' = Released
  BY DEF Owes, Alive, Released
<1>4. Unused' = Unused
  BY <1>3 DEF Granted, Unused
<1> QED
  BY <1>1, <1>2, <1>3, <1>4 DEF A!vars, A!semVars, A!ghostVars

LEMMA GrantOne ==
  ASSUME Inv, NEW w \in Coroutines, acq[w] # "granted", acq' = [acq EXCEPT ![w] = "granted"]
  PROVE  Granted' = Granted + 1
<1> DEFINE G == {x \in Coroutines : acq[x] = "granted"}
<1>1. IsFiniteSet(G)
  <2>1. G \in SUBSET Users
    BY DEF Users
  <2> QED
    BY <2>1, FS_Subset
<1>2. {x \in Coroutines : acq'[x] = "granted"} = G \cup {w} /\ w \notin G
  BY DEF Inv, TypeOK
<1> QED
  BY <1>1, <1>2, FS_AddElement DEF Granted

LEMMA UseOne ==
  ASSUME Inv, NEW w \in Coroutines, acq[w] # "granted", acq' = [acq EXCEPT ![w] = "granted"],
         Released' = Released
  PROVE  Unused' = Unused - 1
<1>1. Granted' = Granted + 1
  BY GrantOne
<1>2. Released \in Nat /\ Granted \in Nat /\ InitCount \in Nat
  BY GhostTypes
<1> QED
  BY <1>1, <1>2 DEF Unused

LEMMA DestroyMaps ==
  ASSUME Inv, Inv', SemInv, NEW u \in refs, refs = {u}, Delete, started = Users,
         UNCHANGED <<count, waiters, rel>>,
         u \in Coroutines => acq[u] \notin {"ready", "enqueue"},
         u \in Releasers => rel[u] # "wake"
  PROVE  A!Destroy \/ LeaksWaiter
<1>1. /\ life = "open" /\ life' = "gone" /\ chain' = << >> /\ UNCHANGED <<prod, cons>>
      /\ acq' = [w \in Coroutines |-> IF w \in Queued THEN "destroyed" ELSE acq[w]]
      /\ \A w \in Coroutines : acq[w] \notin {"ready", "enqueue"}
      /\ \A r \in Releasers : rel[r] # "wake" /\ cons[r].pc = "idle"
  BY LastHolder DEF Delete
<1>2. CASE \E w \in Coroutines : acq[w] = "lost"
  BY <1>1, <1>2 DEF LeaksWaiter
<1>3. CASE \A w \in Coroutines : acq[w] # "lost"
  <2>1. Alive /\ Alive' = FALSE
    BY <1>1 DEF Alive
  <2>2. \A w \in Coroutines : acq[w] \in {"waiting", "granted"}
    BY <1>1, <1>3 DEF SemInv, QueuedInv, Inv, TypeOK
  <2>3. \A r \in Releasers : Stage(r) = "running" /\ Stage(r)' = "running"
    BY <1>1 DEF Stage
  <2>4. \A t \in Users : Stages[t] \in {"running", "suspended"}
    BY <2>2, <2>3, CoroutineStages DEF Stages, Users
  <2>5. A!Abandoned = Queued
    <3>1. /\ Len(chain) \in Nat /\ Len(chain) >= 1 /\ Queue!items \in Seq(Q!Elements)
          /\ Len(Queue!items) = Len(chain) - 1
          /\ \A i \in 1..(Len(chain) - 1) : Queue!items[i] = value[chain[i + 1]]
      BY <1>1, ItemsAreElements DEF Inv, OpenInv
    <3>2. /\ DOMAIN Handles = 1..(Len(chain) - 1)
          /\ \A i \in 1..(Len(chain) - 1) : Handles[i] = Handle(value[chain[i + 1]])
      BY <3>1, HandlesOfSeq DEF Handles
    <3>3. \A x \in A!Abandoned : x \in Queued
      <4> SUFFICES ASSUME NEW i \in 1..(Len(chain) - 1) PROVE Handles[i] \in Queued
        BY <3>2 DEF A!Abandoned
      <4>1. i + 1 \in 2..Len(chain)
        BY <3>1
      <4> QED
        BY <3>2, <4>1 DEF Queued
    <3>4. \A x \in Queued : x \in A!Abandoned
      <4> SUFFICES ASSUME NEW i \in 2..Len(chain) PROVE Handle(value[chain[i]]) \in A!Abandoned
        BY DEF Queued
      <4>1. i - 1 \in 1..(Len(chain) - 1) /\ (i - 1) + 1 = i
        BY <3>1
      <4>2. Handles[i - 1] = Handle(value[chain[i]])
        BY <3>2, <4>1
      <4> QED
        BY <3>2, <4>1, <4>2 DEF A!Abandoned
    <3> QED
      BY <3>3, <3>4
  <2>6. \A w \in Queued : w \in Coroutines /\ acq[w] # "granted"
    <3> SUFFICES ASSUME NEW i \in 2..Len(chain)
                 PROVE  LET w == Handle(value[chain[i]]) IN w \in Coroutines /\ acq[w] # "granted"
      BY DEF Queued
    <3>1. value[chain[i]] \in Q!Elements
      BY <1>1 DEF Inv, OpenInv, Q!Inv, Q!ValueInv
    <3>2. PICK w \in Coroutines : value[chain[i]] = <<w, 1>> /\ Handle(value[chain[i]]) = w
      BY <3>1, HandleOfElement
    <3>3. acq[w] \in {"enqueue", "waiting"}
      BY <1>1, <3>2 DEF SemInv, QueuedInv
    <3> QED
      BY <3>2, <3>3
  <2>7. Stages' = [t \in Users |-> IF t \in A!Abandoned THEN "destroyed" ELSE Stages[t]]
    <3>1. ASSUME NEW w \in Coroutines
          PROVE  Stage(w)' = IF w \in Queued THEN "destroyed" ELSE Stage(w)
      <4>1. CASE w \in Queued
        BY <1>1, <4>1, CoroutineStagesNext
      <4>2. CASE w \notin Queued
        BY <1>1, <4>2, SameCoroutineStage
      <4> QED
        BY <4>1, <4>2
    <3>2. ASSUME NEW r \in Releasers
          PROVE  Stage(r)' = IF r \in Queued THEN "destroyed" ELSE Stage(r)
      BY <2>3, <2>6
    <3> QED
      BY <2>5, <3>1, <3>2 DEF Stages, Users
  <2>8. Handles' = << >> /\ LinkedHandles' = {}
    <3>1. 1..(Len(chain') - 1) = {}
      BY <1>1
    <3>2. Queue!items' = << >> /\ Queue!published' = {}
      BY <3>1 DEF Queue!items, Queue!published
    <3> QED
      BY <3>2 DEF Handles, HandlesOf, LinkedHandles
  <2>9. UNCHANGED <<Owes, Unused>>
    <3>1. \A w \in Coroutines : acq'[w] = "granted" <=> acq[w] = "granted"
      BY <1>1, <2>6
    <3> QED
      BY <3>1 DEF Owes, Unused, Released, Granted
  <2> QED
    BY <2>1, <2>4, <2>7, <2>8, <2>9 DEF A!Destroy, A!ghostVars
<1> QED
  BY <1>2, <1>3

\* Nobody's rc_ptr but the last one changes anything.
LEMMA DropMaps ==
  ASSUME Inv, Inv', SemInv, NEW u, Drop(u),
         u \in Coroutines => acq[u] \notin {"ready", "enqueue"},
         u \in Releasers => rel[u] # "wake",
         u = Owner => started = Users
  PROVE  A!Destroy \/ LeaksWaiter \/ UNCHANGED A!vars
<1>1. /\ u \in refs /\ refs' = refs \ {u} /\ UNCHANGED <<count, waiters, rel, started>>
      /\ IF refcnt = 1 THEN Delete ELSE UNCHANGED <<queueVars, acq>>
  BY DEF Drop, IsLast
<1>2. CASE refcnt = 1
  <2>1. refs = {u}
    <3>1. PICK x : refs = {x}
      BY <1>2, FS_Singleton DEF Inv, RefInv
    <3> QED
      BY <1>1, <3>1
  <2>2. started = Users
    BY <1>1, <2>1 DEF Inv, RefInv
  <2> QED
    BY <1>1, <1>2, <2>1, <2>2, DestroyMaps
<1>3. CASE refcnt # 1
  <2>1. UNCHANGED <<m_head, m_tail, next, value, chain, life, prod, cons, acq, rel, count, waiters>>
    BY <1>1, <1>3 DEF queueVars
  <2>2. \A x \in Users : Stage(x)' = Stage(x)
    BY <2>1, SameCoroutineStage, SameReleaserStage DEF Users, Spins
  <2> QED
    BY <2>1, <2>2, Stutters
<1> QED
  BY <1>2, <1>3

LEMMA AcquireMaps ==
  ASSUME Inv, Inv', NEW w \in Coroutines, Acquire(w)
  PROVE  A!Acquire(w)
<1>1. /\ w \in refs /\ acq[w] = "ready" /\ count' = count - 1
      /\ UNCHANGED <<next, value, chain, life, prod, cons, rel>>
      /\ prod[w].pc = "enqueue"
  BY DEF Acquire, queueVars, Inv, EnqueueInv
<1>2. Alive /\ Alive' = Alive /\ Handles' = Handles /\ LinkedHandles' = LinkedHandles
  BY <1>1, SameQueue DEF Inv, RefInv, Alive
<1>3. Owes' = Owes /\ Released' = Released
  BY <1>1 DEF Owes, Released
<1>4. Stages[w] = "running" /\ w \in Users /\ w \notin Releasers
  BY <1>1, CoroutineStages DEF Stages
<1>5. \A x \in Coroutines \ {w} : Stage(x)' = Stage(x)
  <2>1. \A x \in Coroutines \ {w} : acq'[x] = acq[x] /\ prod'[x] = prod[x]
    BY <1>1 DEF Acquire, Inv, TypeOK
  <2> QED
    BY <2>1, SameCoroutineStage
<1>6. \A r \in Releasers : Stage(r)' = Stage(r)
  BY <1>1, SameReleaserStage DEF Spins
<1>7. CASE Sem!MustWait(count)
  <2>1. waiters' = waiters + 1 /\ acq' = [acq EXCEPT ![w] = "enqueue"]
    BY <1>7 DEF Acquire
  <2>2. Stage(w)' = "enqueue"
    BY <1>1, <2>1, CoroutineStagesNext DEF Inv, TypeOK
  <2>3. Stages' = [Stages EXCEPT ![w] = "enqueue"]
    BY <1>4, <1>5, <1>6, <2>2, StagesSet DEF Users
  <2>4. Unused' = Unused
    <3>1. \A x \in Coroutines : acq'[x] = "granted" <=> acq[x] = "granted"
      BY <1>1, <2>1 DEF Inv, TypeOK
    <3> QED
      BY <1>3, <3>1 DEF Unused, Granted
  <2> QED
    BY <1>1, <1>2, <1>3, <1>4, <1>7, <2>1, <2>3, <2>4 DEF A!Acquire, A!Running, A!MustWait, Sem!MustWait
<1>8. CASE ~Sem!MustWait(count)
  <2>1. waiters' = waiters /\ acq' = [acq EXCEPT ![w] = "granted"]
    BY <1>8 DEF Acquire
  <2>2. Unused' = Unused - 1
    BY <1>1, <1>3, <2>1, UseOne
  <2>3. Stage(w)' = Stage(w)
    BY <1>1, <2>1, CoroutineStages, CoroutineStagesNext DEF Inv, TypeOK
  <2>4. Stages' = Stages
    BY <1>5, <1>6, <2>3, StagesKept DEF Users
  <2> QED
    BY <1>1, <1>2, <1>3, <1>4, <1>8, <2>1, <2>2, <2>4 DEF A!Acquire, A!Running, A!MustWait, Sem!MustWait
<1> QED
  BY <1>7, <1>8

LEMMA EnqueueMaps ==
  ASSUME Inv, Inv', NEW w \in Coroutines, EnqueueWaiter(w)
  PROVE  A!EnqueueWaiter(w)
<1>1. /\ acq[w] = "enqueue" /\ prod[w].pc = "enqueue"
      /\ UNCHANGED <<cons, life, count, waiters, acq, rel>>
      /\ prod'[w].pc = "link" /\ \A x \in Coroutines \ {w} : prod'[x] = prod[x]
  BY EnqueueEffect
<1>2. A!Queue!Claim(w)
  BY ClaimsHandle
<1>3. Stages[w] = "enqueue" /\ w \in Users
  BY <1>1, CoroutineStages DEF Stages
<1>4. Stage(w)' = "link"
  BY <1>1, CoroutineStagesNext
<1>5. \A x \in Users \ {w} : Stage(x)' = Stage(x)
  BY <1>1, SameCoroutineStage, SameReleaserStage DEF Users, Spins
<1>6. Stages' = [Stages EXCEPT ![w] = "link"]
  BY <1>3, <1>4, <1>5, StagesSet
<1>7. UNCHANGED <<Owes, Alive, Unused>>
  BY <1>1 DEF Owes, Alive, Unused, Granted, Released
<1> QED
  BY <1>1, <1>2, <1>3, <1>6, <1>7 DEF A!EnqueueWaiter, A!ghostVars

LEMMA LinkMaps ==
  ASSUME Inv, Inv', NEW w \in Coroutines, LinkWaiter(w)
  PROVE  A!LinkWaiter(w)
<1>1. /\ acq[w] = "enqueue" /\ prod[w].pc = "link"
      /\ UNCHANGED <<cons, life, count, waiters, rel>>
      /\ acq'[w] = "waiting"
      /\ \A x \in Coroutines \ {w} : acq'[x] = acq[x] /\ prod'[x] = prod[x]
  BY DEF LinkWaiter, Queue!Link, Inv, TypeOK, EnqueueInv
<1>2. A!Queue!Publish(w)
  BY PublishesHandle
<1>3. Stages[w] = "link" /\ w \in Users
  BY <1>1, CoroutineStages DEF Stages
<1>4. Stage(w)' = "suspended"
  BY <1>1, CoroutineStagesNext
<1>5. \A x \in Users \ {w} : Stage(x)' = Stage(x)
  BY <1>1, SameCoroutineStage, SameReleaserStage DEF Users, Spins
<1>6. Stages' = [Stages EXCEPT ![w] = "suspended"]
  BY <1>3, <1>4, <1>5, StagesSet
<1>7. UNCHANGED <<Owes, Alive, Unused>>
  <2>1. \A x \in Coroutines : acq'[x] = "granted" <=> acq[x] = "granted"
    BY <1>1
  <2> QED
    BY <1>1, <2>1 DEF Owes, Alive, Unused, Granted, Released
<1> QED
  BY <1>1, <1>2, <1>3, <1>6, <1>7 DEF A!LinkWaiter, A!ghostVars

LEMMA EnqueueFailsMaps ==
  ASSUME Inv, Inv', NEW w \in Coroutines, EnqueueFails(w)
  PROVE  UNCHANGED A!vars
<1>1. /\ acq[w] = "enqueue" /\ prod[w].pc = "enqueue"
      /\ UNCHANGED <<next, value, chain, life, count, waiters, rel, cons>>
      /\ acq'[w] = "lost" /\ \A x \in Coroutines \ {w} : acq'[x] = acq[x] /\ prod'[x] = prod[x]
  BY DEF EnqueueFails, Inv, TypeOK
<1>2. Stage(w) = "enqueue" /\ Stage(w)' = "enqueue"
  BY <1>1, CoroutineStages, CoroutineStagesNext
<1>3. \A x \in Users : Stage(x)' = Stage(x)
  BY <1>1, <1>2, SameCoroutineStage, SameReleaserStage DEF Users, Spins
<1>4. \A x \in Coroutines : acq'[x] = "granted" <=> acq[x] = "granted"
  BY <1>1
<1> QED
  BY <1>1, <1>3, <1>4, Stutters

LEMMA NotifyMaps ==
  ASSUME Inv, Inv', NEW w \in Coroutines, NotifyReleaser(w)
  PROVE  UNCHANGED A!vars
<1>1. /\ UNCHANGED <<next, value, chain, life, count, waiters, acq, rel>>
      /\ prod[w].pc # "link" /\ prod'[w].pc # "link" /\ \A x \in Coroutines \ {w} : prod'[x] = prod[x]
  BY DEF NotifyReleaser, Queue!Notify, Queue!memory, Inv, TypeOK
<1>2. \A r \in Releasers : Spins(r)' <=> Spins(r)
  BY NotifyEffect DEF Spins
<1>3. \A x \in Users : Stage(x)' = Stage(x)
  BY <1>1, <1>2, SameCoroutineStage, SameReleaserStage DEF Users
<1> QED
  BY <1>1, <1>3, Stutters

LEMMA ReleaseMaps ==
  ASSUME Inv, Inv', SemInv, NEW r \in Releasers, ReleaseOne(r)
  PROVE  A!Release(r, 1)
<1>1. /\ r \in refs /\ rel[r] = "ready" /\ count' = count + 1 /\ waiters' = A!LeftWaiting(1)
      /\ rel' = [rel EXCEPT ![r] = IF A!NeedWake(1) > 0 THEN "wake" ELSE "done"]
      /\ UNCHANGED <<next, value, chain, life, prod, cons, acq>>
  BY DEF ReleaseOne, queueVars, Sem!LeftWaiting, Sem!NeedWake, A!LeftWaiting, A!NeedWake
<1>2. /\ Alive /\ Alive' = Alive /\ Handles' = Handles /\ LinkedHandles' = LinkedHandles
      /\ Granted' = Granted
  BY <1>1, SameQueue DEF Inv, RefInv, Alive, Granted
<1>3. A!NeedWake(1) \in {0, 1}
  BY DEF A!NeedWake, SemInv
<1>4. cons[r].pc = "idle" /\ ~Spins(r) /\ ~Spins(r)'
  BY <1>1 DEF Inv, HolderInv, Spins
<1>5. Stages[r] = "running" /\ r \in Users
  BY <1>1 DEF Stages, Stage, Users
<1>6. Stage(r)' = IF A!NeedWake(1) > 0 THEN "wake" ELSE "running"
  BY <1>1, <1>4 DEF Stage, Inv, TypeOK
<1>7. \A x \in Users \ {r} : Stage(x)' = Stage(x)
  <2>1. \A x \in Releasers \ {r} : rel'[x] = rel[x] /\ (Spins(x)' <=> Spins(x))
    BY <1>1 DEF Inv, TypeOK, Spins
  <2> QED
    BY <1>1, <2>1, SameCoroutineStage, SameReleaserStage DEF Users
<1>8. Stages' = [Stages EXCEPT ![r] = IF A!NeedWake(1) > 0 THEN "wake" ELSE "running"]
  BY <1>5, <1>6, <1>7, StagesSet
<1>9. Owes' = [Owes EXCEPT ![r] = A!NeedWake(1)]
  <2>1. (IF rel'[r] = "wake" THEN 1 ELSE 0) = A!NeedWake(1)
    BY <1>1, <1>3 DEF Inv, TypeOK
  <2>2. \A x \in Releasers \ {r} : rel'[x] = rel[x]
    BY <1>1 DEF Inv, TypeOK
  <2> QED
    BY <1>5, <2>1, <2>2 DEF Owes
<1>10. Unused' = Unused + 1 /\ Unused + 1 <= InitCount + Cardinality(Releasers)
  <2> DEFINE R == {x \in Releasers : rel[x] # "ready"}
  <2>1. IsFiniteSet(R) /\ IsFiniteSet(Releasers)
    <3>1. R \in SUBSET Users /\ Releasers \in SUBSET Users
      BY DEF Users
    <3> QED
      BY <3>1, FS_Subset
  <2>2. {x \in Releasers : rel'[x] # "ready"} = R \cup {r} /\ r \notin R
    BY <1>1 DEF Inv, TypeOK
  <2>3. Cardinality(R \cup {r}) = Cardinality(R) + 1
    BY <2>1, <2>2, FS_AddElement
  <2>4. Cardinality(R \cup {r}) <= Cardinality(Releasers)
    <3>1. R \cup {r} \in SUBSET Releasers
      OBVIOUS
    <3> QED
      BY <2>1, <3>1, FS_Subset
  <2>5. Released' = Released + 1 /\ Released + 1 <= Cardinality(Releasers)
    BY <2>2, <2>3, <2>4 DEF Released
  <2> QED
    BY <1>2, <2>5, GhostTypes DEF Unused
<1>11. A!Overdraft(1) = 0
  BY DEF A!Overdraft, A!Free, SemInv
<1> QED
  BY <1>1, <1>2, <1>5, <1>8, <1>9, <1>10, <1>11 DEF A!Release, A!Running

\* A round of wait_dequeue is not seen, unless it is the one that begins to spin.
LEMMA DequeueMaps ==
  ASSUME Inv, Inv', SemInv, NEW r \in Releasers, Dequeue(r)
  PROVE  A!SpinForever(r) \/ UNCHANGED A!vars
<1>1. /\ rel[r] = "wake" /\ UNCHANGED <<m_head, m_tail, next, value, chain, life, prod, count, waiters, acq, rel>>
      /\ \A x \in Releasers \ {r} : cons'[x] = cons[x]
  BY DEF Dequeue, Queue!BeginWait, Queue!LoadNext, Queue!Loop, Queue!Wait, Queue!Recheck, Queue!ReloadTail,
     Queue!memory, Queue!Goto, Inv, TypeOK
<1>2. life = "open" /\ Q!Inv
  BY <1>1 DEF Inv, TypeOK, RefInv, HolderInv, OpenInv
<1>3. \A x \in Users \ {r} : Stage(x)' = Stage(x)
  BY <1>1, SameCoroutineStage, SameReleaserStage DEF Users, Spins
<1>4. CASE Spins(r)' <=> Spins(r)
  <2>1. \A x \in Users : Stage(x)' = Stage(x)
    BY <1>1, <1>3, <1>4, SameReleaserStage
  <2> QED
    BY <1>1, <2>1, Stutters
<1>5. CASE ~(Spins(r)' <=> Spins(r))
  <2>1. ASSUME NEW k, NEW h, NEW t, NEW n, Queue!Goto(r, k, h, t, n)
        PROVE  cons'[r].pc = k /\ cons'[r].head = h /\ cons'[r].tail = t /\ cons'[r].next = n
    BY <2>1 DEF Queue!Goto, Inv, TypeOK
  <2>2. \/ Queue!LoadNext(r) /\ cons'[r].pc = "loop" /\ cons'[r].head = cons[r].head /\ cons'[r].tail = cons[r].tail
        \/ Queue!ReloadTail(r) /\ cons'[r].pc = "loop" /\ cons'[r].head = cons[r].head /\ cons'[r].tail = m_tail
    <3>1. CASE Queue!BeginWait(r)
      BY <1>5, <2>1, <3>1 DEF Queue!BeginWait, Spins
    <3>2. CASE Queue!Recheck(r)
      BY <1>5, <2>1, <3>2 DEF Queue!Recheck, Spins
    <3>3. CASE Queue!Wait(r)
      BY <1>5, <3>3 DEF Queue!Wait, Spins, Inv, TypeOK
    <3>4. CASE Queue!Loop(r)
      BY <1>5, <2>1, <3>4 DEF Queue!Loop, Spins
    <3>5. CASE Queue!LoadNext(r) \/ Queue!ReloadTail(r)
      BY <2>1, <3>5 DEF Queue!LoadNext, Queue!ReloadTail
    <3> QED
      BY <3>1, <3>2, <3>3, <3>4, <3>5 DEF Dequeue
  <2>3. ~Spins(r) /\ Spins(r)' /\ cons[r].pc \in {"load", "reload"}
    BY <1>5, <2>2 DEF Spins, Queue!LoadNext, Queue!ReloadTail
  <2>4. cons'[r].tail \notin {Null, cons'[r].head}
    BY <2>2, <2>3 DEF Spins
  <2>5. m_mutex = r /\ cons[r].head = m_head
    BY <1>2, <2>3 DEF Q!Inv, Q!LockInv
  <2>6. Len(chain) # 1
    <3>1. CASE Queue!LoadNext(r)
      BY <1>2, <2>2, <2>4, <3>1 DEF Queue!LoadNext, Queue!ReloadTail, SemInv, TailInv
    <3>2. CASE Queue!ReloadTail(r)
      <4>1. Len(chain) = 1 => m_tail = m_head
        BY <1>2, Q!Lengths, QueueAssumption DEF Q!Inv, Q!ChainInv
      <4>2. cons'[r].tail = m_tail /\ cons'[r].head = m_head
        BY <2>1, <2>5, <3>2 DEF Queue!ReloadTail
      <4> QED
        BY <2>4, <4>1, <4>2
    <3> QED
      BY <2>2, <3>1, <3>2
  <2>7. Handles # << >>
    <3>1. Queue!items \in Seq(Q!Elements) /\ Len(Queue!items) # 0
      BY <1>2, <2>6, ItemsAreElements
    <3> QED
      BY <3>1, HandlesOfSeq, EmptySeq DEF Handles
  <2>8. A!MutexFree
    BY <1>2, <2>3, <2>5, OthersDoNotSpin
  <2>9. Stages[r] = "wake" /\ Stage(r)' = "spin" /\ r \in Users
    BY <1>1, <2>3 DEF Stages, Stage, Users
  <2>10. Stages' = [Stages EXCEPT ![r] = "spin"]
    BY <1>3, <2>9, StagesSet
  <2>11. UNCHANGED <<count, waiters, Handles, LinkedHandles, Owes, Alive, Unused>>
    <3>1. Handles' = Handles /\ LinkedHandles' = LinkedHandles
      BY <1>1, SameQueue
    <3> QED
      BY <1>1, <3>1 DEF Owes, Alive, Unused, Granted, Released
  <2> QED
    BY <2>7, <2>8, <2>9, <2>10, <2>11 DEF A!SpinForever, A!ghostVars
<1> QED
  BY <1>4, <1>5

LEMMA ResumeMaps ==
  ASSUME Inv, Inv', SemInv, NEW r \in Releasers, Resume(r)
  PROVE  \E v \in Users : A!Wake(r, v)
<1>1. PICK v \in Coroutines :
        /\ value[chain[2]] = <<v, 1>> /\ prod[v].pc \notin {"enqueue", "link"}
        /\ acq' = [acq EXCEPT ![v] = "granted"]
  BY ResumeEffect
<1>2. /\ life = "open" /\ Q!Inv /\ Len(chain) \in Nat /\ Len(chain) >= 2
      /\ cons[r].pc = "loop" /\ cons[r].next # Null
      /\ cons' = [cons EXCEPT ![r] = Queue!Idle("wait")] /\ rel' = [rel EXCEPT ![r] = "done"]
      /\ UNCHANGED <<prod, life, count, waiters>>
  BY ResumeEffect DEF Resume, Queue!Pop, Queue!Return
<1>3. acq[v] = "waiting"
  <2>1. acq[v] \in {"enqueue", "waiting"}
    BY <1>1, <1>2 DEF SemInv, QueuedInv
  <2> QED
    BY <1>1, <2>1 DEF Inv, EnqueueInv
<1>4. rel[r] = "wake" /\ m_mutex = r /\ ~Spins(r)
  BY <1>2 DEF Inv, HolderInv, Q!Inv, Q!LockInv, Spins
<1>5. A!MutexFree
  BY <1>2, <1>4, OthersDoNotSpin
<1>6. A!Queue!Take(v)
  BY <1>1, TakesHandle
<1>7. v \in Users /\ r \in Users /\ v # r /\ Stages[r] = "wake" /\ Owes[r] = 1
  BY <1>4 DEF Users, Stages, Stage, Owes
<1>8. /\ cons'[r].pc = "idle" /\ rel'[r] = "done" /\ acq'[v] = "granted"
      /\ \A x \in Releasers \ {r} : cons'[x] = cons[x] /\ rel'[x] = rel[x]
      /\ \A x \in Coroutines \ {v} : acq'[x] = acq[x]
  BY <1>1, <1>2 DEF Queue!Idle, Inv, TypeOK
<1>9. Stage(r)' = "running" /\ Stage(v)' = "running"
  BY <1>8, CoroutineStagesNext DEF Stage
<1>10. \A x \in Users \ {r, v} : Stage(x)' = Stage(x)
  BY <1>2, <1>8, SameCoroutineStage, SameReleaserStage DEF Users, Spins
<1>11. Stages' = [Stages EXCEPT ![r] = IF Owes[r] = 1 THEN "running" ELSE @, ![v] = "running"]
  BY <1>7, <1>9, <1>10 DEF Stages
<1>12. Owes' = [Owes EXCEPT ![r] = @ - 1]
  <2>1. \A x \in Users \ {r} : Owes'[x] = Owes[x]
    BY <1>8 DEF Owes
  <2>2. Owes'[r] = 0
    BY <1>7, <1>8 DEF Owes
  <2>3. Owes \in [Users -> {0, 1}] /\ Owes' \in [Users -> {0, 1}]
    BY DEF Owes
  <2> QED
    BY <1>7, <2>1, <2>2, <2>3
<1>13. UNCHANGED <<count, waiters, Alive, Released>>
  <2>1. \A x \in Releasers : rel'[x] # "ready" <=> rel[x] # "ready"
    BY <1>4, <1>8
  <2> QED
    BY <1>2, <2>1 DEF Alive, Released
<1>14. Unused' = Unused - 1
  BY <1>1, <1>3, <1>13, UseOne
<1>15. A!Wake(r, v)
  BY <1>5, <1>6, <1>7, <1>11, <1>12, <1>13, <1>14 DEF A!Wake
<1> QED
  BY <1>7, <1>15

LEMMA NextMaps ==
  ASSUME Inv, Inv', SemInv, [Next]_vars
  PROVE  A!Next \/ LeaksWaiter \/ UNCHANGED A!vars
<1>1. CASE UNCHANGED vars
  <2>1. UNCHANGED <<next, value, chain, life, prod, cons, acq, rel, count, waiters>>
    BY <1>1 DEF vars, queueVars
  <2>2. \A x \in Users : Stage(x)' = Stage(x)
    BY <2>1, SameCoroutineStage, SameReleaserStage DEF Users, Spins
  <2> QED
    BY <2>1, <2>2, Stutters
<1>2. CASE OwnerEnds
  BY <1>2, DropMaps DEF OwnerEnds, Users, A!Next
<1>3. ASSUME NEW u \in Users, Start(u) PROVE UNCHANGED A!vars
  <2>1. UNCHANGED <<next, value, chain, life, prod, cons, acq, rel, count, waiters>>
    BY <1>3 DEF Start, queueVars
  <2>2. \A x \in Users : Stage(x)' = Stage(x)
    BY <2>1, SameCoroutineStage, SameReleaserStage DEF Users, Spins
  <2> QED
    BY <2>1, <2>2, Stutters
<1>4. ASSUME NEW w \in Coroutines, CoroutineStep(w) \/ GiveUp(w)
      PROVE  A!Next \/ LeaksWaiter \/ UNCHANGED A!vars
  <2>1. CASE End(w) \/ GiveUp(w)
    BY <2>1, DropMaps DEF End, GiveUp, Users, A!Next
  <2>2. CASE Acquire(w)
    BY <2>2, AcquireMaps DEF A!Next, Users
  <2>3. CASE EnqueueWaiter(w)
    BY <2>3, EnqueueMaps DEF A!Next, Users
  <2>4. CASE LinkWaiter(w)
    BY <2>4, LinkMaps DEF A!Next, Users
  <2>5. CASE Start(w) \/ EnqueueFails(w) \/ NotifyReleaser(w)
    BY <1>3, <2>5, EnqueueFailsMaps, NotifyMaps DEF Users
  <2> QED
    BY <1>4, <2>1, <2>2, <2>3, <2>4, <2>5 DEF CoroutineStep
<1>5. ASSUME NEW r \in Releasers, ReleaserStep(r) \/ Cancel(r)
      PROVE  A!Next \/ LeaksWaiter \/ UNCHANGED A!vars
  <2>1. CASE ReleaserEnds(r) \/ Cancel(r)
    BY <2>1, DropMaps DEF ReleaserEnds, Cancel, Users, A!Next
  <2>2. CASE ReleaseOne(r)
    BY <2>2, ReleaseMaps DEF A!Next, Users
  <2>3. CASE Dequeue(r)
    BY <2>3, DequeueMaps DEF A!Next, Users
  <2>4. CASE Resume(r)
    BY <2>4, ResumeMaps DEF A!Next, Users
  <2>5. CASE Start(r)
    BY <1>3, <2>5 DEF Users
  <2> QED
    BY <1>5, <2>1, <2>2, <2>3, <2>4, <2>5 DEF ReleaserStep
<1> QED
  BY <1>1, <1>2, <1>4, <1>5 DEF Next, Terminating

LEMMA InitMaps == Init => A!Init /\ SemInv
<1> SUFFICES ASSUME Init PROVE A!Init /\ SemInv
  OBVIOUS
<1>1. /\ life = "open" /\ Len(chain) = 1 /\ count = InitCount /\ waiters = 0
      /\ \A w \in Coroutines : acq[w] = "ready"
      /\ \A r \in Releasers : cons[r].pc = "idle" /\ rel[r] = "ready"
  BY DEF Init, Queue!Init, Queue!Idle
<1>2. SemInv
  BY <1>1, GhostTypes DEF SemInv, QueuedInv, TailInv
<1>3. Inv
  BY InvInit
<1>4. Stages = [u \in Users |-> "running"] /\ Owes = [u \in Users |-> 0]
  <2>1. \A w \in Coroutines : Stage(w) = "running"
    BY <1>1, <1>3, CoroutineStages
  <2>2. \A r \in Releasers : Stage(r) = "running"
    BY <1>1 DEF Stage
  <2> QED
    BY <1>1, <2>1, <2>2 DEF Stages, Owes, Users
<1>5. Handles = << >> /\ LinkedHandles = {}
  <2>1. 1..(Len(chain) - 1) = {}
    BY <1>1
  <2>2. Queue!items = << >>
    <3>1. Queue!items \in Seq(Q!Elements) /\ Len(Queue!items) = 0
      BY <1>1, <1>3, ItemsAreElements DEF Inv, OpenInv
    <3> QED
      BY <3>1, EmptySeq
  <2>3. Queue!published = {}
    BY <2>1 DEF Queue!published
  <2> QED
    BY <2>2, <2>3 DEF Handles, HandlesOf, LinkedHandles
<1>6. Alive = TRUE /\ Unused = InitCount
  <2>1. {w \in Coroutines : acq[w] = "granted"} = {} /\ {r \in Releasers : rel[r] # "ready"} = {}
    BY <1>1
  <2>2. Granted = 0 /\ Released = 0
    BY <2>1, FS_EmptySet DEF Granted, Released
  <2> QED
    BY <1>1, <2>2, GhostTypes DEF Alive, Unused
<1> QED
  BY <1>1, <1>2, <1>4, <1>5, <1>6 DEF A!Init, A!Queue!Init

LEMMA SemStep == Inv /\ Inv' /\ SemInv /\ [Next]_vars => SemInv'
BY QueuedStep, TailStep, CounterStep DEF SemInv

\* A is the instance of which SemaphoreSpec speaks.
LEMMA SameSemaphore ==
  /\ A!Init => Sem!Init
  /\ A!Next => Sem!Next
  /\ A!vars = Sem!vars /\ A!vars' = Sem!vars'
<1>1. A!Init => Sem!Init
  BY Zenon DEF A!Init, Sem!Init, A!Queue!Init, Sem!Queue!Init, Handles, HandlesOf, LinkedHandles, Stages, Owes,
     Alive, Unused, Granted, Released
<1>2. A!vars = Sem!vars /\ A!vars' = Sem!vars'
  BY Zenon DEF A!vars, Sem!vars, A!semVars, Sem!semVars, A!ghostVars, Sem!ghostVars,
     Handles, HandlesOf, LinkedHandles, Stages, Owes, Alive, Unused, Granted, Released
<1>3. A!Next => Sem!Next
  BY Zenon DEF A!Next, Sem!Next, A!Acquire, Sem!Acquire, A!EnqueueWaiter, Sem!EnqueueWaiter, A!LinkWaiter,
     Sem!LinkWaiter, A!TryAcquire, Sem!TryAcquire, A!Release, Sem!Release, A!Wake, Sem!Wake, A!SpinForever,
     Sem!SpinForever, A!Destroy, Sem!Destroy, A!Terminating, Sem!Terminating,
     A!Running, Sem!Running, A!MustWait, Sem!MustWait, A!Available, Sem!Available, A!NeedWake, Sem!NeedWake,
     A!LeftWaiting, Sem!LeftWaiting, A!Free, Sem!Free, A!Overdraft, Sem!Overdraft, A!MutexFree, Sem!MutexFree, A!Abandoned, Sem!Abandoned, A!Stopped, Sem!Stopped,
     A!Queue!Claim, Sem!Queue!Claim, A!Queue!Publish, Sem!Queue!Publish, A!Queue!Take, Sem!Queue!Take,
     A!Queue!FrontVisible, Sem!Queue!FrontVisible,
     A!vars, Sem!vars, A!semVars, Sem!semVars, A!ghostVars, Sem!ghostVars,
     Handles, HandlesOf, LinkedHandles, Stages, Owes, Alive, Unused, Granted, Released
<1> QED
  BY <1>1, <1>2, <1>3

\* The semaphore over its real queue, with several releasers in wait_dequeue,
\* acquisitions given up and allocations that fail, does only what
\* CountingSemaphore does, or leaks a waiter that is in no queue (sync.hpp:104).
THEOREM ImplementsSemaphore == Spec => SemaphoreSpec
<1>1. Init => Sem!Init /\ SemInv
  BY InitMaps, SameSemaphore
<1>2. Inv /\ Inv' /\ SemInv /\ [Next]_vars => [Sem!Next \/ LeaksWaiter]_(Sem!vars)
  BY NextMaps, SameSemaphore
<1> QED
  BY <1>1, <1>2, SemStep, SharedInvariant, PTL DEF Spec, SemaphoreSpec
==============================================================================
