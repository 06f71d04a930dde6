----------------------------- MODULE AtomicQueue -----------------------------
(***************************************************************************)
(* nct::AtomicQueue (include/container/queue.hpp), the linked MPSC queue   *)
(* under the semaphore and wait_each, together with the part of            *)
(* nct::waitable_atomic (include/waitable_atomic.hpp) it blocks on.        *)
(*                                                                         *)
(* Producers run the loop of test/test_atomic_queue.cpp: NLoop enqueues    *)
(* each.  Consumers dequeue through a locker (one consumer alone is the    *)
(* FakeLocker case).  A node is an address: `delete` returns it to the     *)
(* allocator, and a later `new` may hand out the same one again.           *)
(***************************************************************************)
EXTENDS Naturals, Sequences, FiniteSets

CONSTANTS
  Producers, Consumers,
  Nodes,      \* addresses the allocator can hand out
  Null,       \* nullptr; also "nobody" for the locker
  NLoop,      \* enqueues per producer
  Ops,        \* the dequeue calls in use: subset of {"try", "wait", "until"}
  EarlyStop   \* TRUE: stop() may come at any time; FALSE: after the last enqueue

ASSUME AtomicQueueAssumption ==
  /\ NLoop \in Nat
  /\ Null \notin Nodes \cup Consumers
  /\ Ops \subseteq {"try", "wait", "until"} /\ Ops # {}
  /\ EarlyStop \in BOOLEAN

VARIABLES
  m_head, m_tail,     \* the queue object
  next, value, heap,  \* Node::next, Node::value, the allocated addresses
  prod,               \* producers: step, `n`, `tail`, number of enqueues
  cons,               \* consumers: step, call, and the helper's locals
  m_mutex,            \* who holds the locker
  arr,                \* the elements handed to consumers (`arr` of the test)
  life,               \* "open", "notify", "stopped", "destroying", "gone"
  chain               \* ghost: the nodes in order, m_head first

memory == <<m_head, next, value, heap, arr, chain>>
vars == <<memory, m_tail, prod, cons, m_mutex, life>>

Elements == Producers \X (1..NLoop)

\* A consumer between two calls; o is the next call it makes.
Idle(o) == [pc |-> "idle", op |-> o, head |-> Null, tail |-> Null, next |-> Null]

Init ==
  /\ m_head \in Nodes /\ m_tail = m_head /\ heap = {m_head} /\ chain = <<m_head>>
  /\ next = [n \in Nodes |-> Null]
  /\ value = [n \in Nodes |-> Null]
  /\ prod = [p \in Producers |-> [pc |-> "enqueue", node |-> Null, prev |-> Null, sent |-> 0]]
  /\ cons \in [Consumers -> {Idle(o) : o \in Ops}]
  /\ m_mutex = Null
  /\ arr = {}
  /\ life = "open"

-----------------------------------------------------------------------------
(* enqueue() *)

\* Mutant: a reused address keeps its old next.
KeepsStaleNext(n) == next

\* The producer's loop, and the next pointers once Node's constructor has run on n.
MoreToSend(p) == prod[p].sent < NLoop
NewNode(n) == [next EXCEPT ![n] = Null]

\* The successful compare_exchange on m_tail; `new` gave the node before.
Enqueue(p, n) ==
  /\ prod[p].pc = "enqueue" /\ MoreToSend(p)
  /\ m_tail # Null
  /\ n \notin heap
  /\ heap' = heap \cup {n}
  /\ value' = [value EXCEPT ![n] = <<p, prod[p].sent + 1>>]
  /\ next' = NewNode(n)
  /\ m_tail' = n
  /\ chain' = Append(chain, n)
  /\ prod' = [prod EXCEPT ![p] =
                [pc |-> "link", node |-> n, prev |-> m_tail, sent |-> @.sent + 1]]
  /\ UNCHANGED <<m_head, cons, m_mutex, arr, life>>

\* enqueue() returns false, and the producer of the test returns.
EnqueueFails(p) ==
  /\ prod[p].pc = "enqueue" /\ MoreToSend(p)
  /\ m_tail = Null \/ heap = Nodes
  /\ prod' = [prod EXCEPT ![p].pc = "done"]
  /\ UNCHANGED <<memory, m_tail, cons, m_mutex, life>>

\* The node whose next the producer writes: `tail` of its compare_exchange.
Predecessor(p) == prod[p].prev

\* tail->next.store(n)
Link(p) ==
  /\ prod[p].pc = "link"
  /\ next' = [next EXCEPT ![Predecessor(p)] = prod[p].node]
  /\ prod' = [prod EXCEPT ![p].pc = "notify", ![p].node = Null, ![p].prev = Null]
  /\ UNCHANGED <<m_head, m_tail, value, heap, cons, m_mutex, arr, life, chain>>

Asleep == {c \in Consumers : cons[c].pc = "asleep"}

\* Mutant: nobody is notified.
NotifyNobody == {{}}

\* The sets of sleepers that notify_one() and notify_all() may wake.
NotifyOne == IF Asleep = {} THEN {{}} ELSE {{c} : c \in Asleep}
NotifyAll == {Asleep}

Wake(C) == cons' = [c \in Consumers |-> IF c \in C THEN [cons[c] EXCEPT !.pc = "wait"] ELSE cons[c]]

Notify(p) ==
  /\ prod[p].pc = "notify"
  /\ \E C \in NotifyOne : Wake(C)
  /\ prod' = [prod EXCEPT ![p].pc = IF MoreToSend(p) THEN "enqueue" ELSE "done"]
  /\ UNCHANGED <<memory, m_tail, m_mutex, life>>

-----------------------------------------------------------------------------
(* try_dequeue() and wait_dequeue_helper() *)

CallsAllowed == life \in {"open", "notify", "stopped"}

\* Mutants: calls that do not exclude each other; dequeues that delete the new
\* stub.
NeverLocked == TRUE
UnlinkFreesNext(h, n, got) ==
  /\ m_head' = n /\ heap' = heap \ {n} /\ arr' = arr \cup got
  /\ value' = [value EXCEPT ![n] = Null] /\ chain' = Tail(chain) /\ UNCHANGED next

LockFree == m_mutex = Null

\* Every dequeue ends this way: m_head moves on to n, the old stub h is
\* deleted, n's value is moved out (the caller receives got) and destroyed.
Unlink(h, n, got) ==
  /\ m_head' = n
  /\ heap' = heap \ {h}
  /\ arr' = arr \cup got
  /\ value' = [value EXCEPT ![n] = Null]
  /\ chain' = Tail(chain)
  /\ UNCHANGED next

\* Consumer c moves to step pc of its call, with its locals as given.
Goto(c, pc, h, t, n) ==
  cons' = [cons EXCEPT ![c] = [pc |-> pc, op |-> @.op, head |-> h, tail |-> t, next |-> n]]

Return(c) == \E o \in Ops : cons' = [cons EXCEPT ![c] = Idle(o)]

\* With the locker held no one else moves m_head, so the call is one step.
TryDequeue(c) ==
  /\ cons[c].pc = "idle" /\ cons[c].op = "try" /\ CallsAllowed
  /\ LockFree
  /\ next[m_head] # Null
  /\ Unlink(m_head, next[m_head], {value[next[m_head]]})
  /\ Return(c)
  /\ UNCHANGED <<m_tail, prod, m_mutex, life>>

\* The locker is taken, and head and tail are loaded, before next is.
BeginWait(c) ==
  /\ cons[c].pc = "idle" /\ cons[c].op # "try" /\ CallsAllowed
  /\ LockFree
  /\ m_mutex' = c
  /\ Goto(c, "load", m_head, m_tail, Null)
  /\ UNCHANGED <<memory, m_tail, prod, life>>

LoadNext(c) ==
  LET l == cons[c] IN
  /\ l.pc = "load"
  /\ Goto(c, "loop", l.head, l.tail, next[l.head])
  /\ UNCHANGED <<memory, m_tail, prod, m_mutex, life>>

\* The loop is left: the dequeue succeeds, the locker is released on return.
Pop(c) ==
  LET l == cons[c] IN
  /\ l.pc = "loop" /\ l.next # Null
  /\ Unlink(l.head, l.next, {value[l.next]})
  /\ Return(c)
  /\ m_mutex' = Null
  /\ UNCHANGED <<m_tail, prod, life>>

\* One round of the loop: nullopt once stopped, a wait without the locker when
\* head == tail.  Otherwise a new tail for the same head and next, until stop().
Loop(c) ==
  LET l == cons[c] IN
  /\ l.pc = "loop" /\ l.next = Null
  /\ \/ l.tail = Null   /\ Goto(c, "done", Null, Null, Null) /\ m_mutex' = Null
     \/ l.tail = l.head /\ Goto(c, "wait", l.head, l.tail, Null) /\ m_mutex' = Null
     \/ l.tail \notin {Null, l.head} /\ Goto(c, "spin", l.head, l.tail, Null) /\ UNCHANGED m_mutex
  /\ UNCHANGED <<memory, m_tail, prod, life>>

\* next is never loaded again, and m_tail cannot become a head that is not its
\* predecessor any more: only a stopped queue ends the loop.
Spin(c) ==
  /\ cons[c].pc = "spin"
  /\ m_tail = Null
  /\ Goto(c, "done", Null, Null, Null) /\ m_mutex' = Null
  /\ UNCHANGED <<memory, m_tail, prod, life>>

\* waitable_atomic::wait compares addresses and blocks on the futex while the
\* value is the expected one; the kernel compares again, atomically.
Blocks(c) == m_tail = cons[c].tail

Wait(c) ==
  /\ cons[c].pc = "wait"
  /\ cons' = [cons EXCEPT ![c].pc = IF Blocks(c) THEN "asleep" ELSE "relock"]
  /\ UNCHANGED <<memory, m_tail, prod, m_mutex, life>>

\* wait_until() ran out of time: nullopt, without the locker.
TimeOut(c) ==
  /\ cons[c].op = "until" /\ cons[c].pc \in {"wait", "asleep"}
  /\ Blocks(c)
  /\ Return(c)
  /\ UNCHANGED <<memory, m_tail, prod, m_mutex, life>>

\* locker.lock(), then head and next are loaded again, and tail after them.
Recheck(c) ==
  /\ cons[c].pc = "relock"
  /\ LockFree
  /\ m_mutex' = c
  /\ Goto(c, "reload", m_head, Null, next[m_head])
  /\ UNCHANGED <<memory, m_tail, prod, life>>

ReloadTail(c) ==
  LET l == cons[c] IN
  /\ l.pc = "reload"
  /\ Goto(c, "loop", l.head, m_tail, l.next)
  /\ UNCHANGED <<memory, m_tail, prod, m_mutex, life>>

-----------------------------------------------------------------------------
(* stop() and ~AtomicQueue() *)

StopStore ==
  /\ life = "open"
  /\ EarlyStop \/ \A p \in Producers : prod[p].pc = "done" /\ prod[p].sent = NLoop
  /\ m_tail' = Null
  /\ life' = "notify"
  /\ UNCHANGED <<memory, prod, cons, m_mutex>>

StopNotify ==
  /\ life = "notify"
  /\ \E C \in NotifyAll : Wake(C)
  /\ life' = "stopped"
  /\ UNCHANGED <<memory, m_tail, prod, m_mutex>>

\* The owner destroys the queue when no call is in progress (the test joins);
\* ~AtomicQueue drains it and deletes the last stub.
BeginDestroy ==
  /\ life = "stopped"
  /\ \A p \in Producers : prod[p].pc = "done"
  /\ \A c \in Consumers : cons[c].pc \in {"idle", "done"}
  /\ life' = "destroying"
  /\ UNCHANGED <<memory, m_tail, prod, cons, m_mutex>>

Drain ==
  /\ life = "destroying"
  /\ next[m_head] # Null
  /\ Unlink(m_head, next[m_head], {})
  /\ UNCHANGED <<m_tail, prod, cons, m_mutex, life>>

DeleteStub ==
  /\ life = "destroying"
  /\ next[m_head] = Null
  /\ heap' = heap \ {m_head}
  /\ m_head' = Null
  /\ chain' = << >>
  /\ life' = "gone"
  /\ UNCHANGED <<m_tail, next, value, arr, prod, cons, m_mutex>>

Terminating == life = "gone" /\ UNCHANGED vars

Produce(p) == (\E n \in Nodes : Enqueue(p, n)) \/ EnqueueFails(p) \/ Link(p) \/ Notify(p)

Consume(c) ==
  \/ TryDequeue(c) \/ BeginWait(c) \/ LoadNext(c) \/ Pop(c)
  \/ Loop(c) \/ Spin(c) \/ Wait(c) \/ Recheck(c) \/ ReloadTail(c)

Next ==
  \/ \E p \in Producers : Produce(p)
  \/ \E c \in Consumers : Consume(c) \/ TimeOut(c)
  \/ StopStore \/ StopNotify \/ BeginDestroy \/ Drain \/ DeleteStub \/ Terminating

\* Every thread that can take a step eventually does; nothing makes a timeout
\* fire, or the owner destroy the queue.
Fairness ==
  /\ \A p \in Producers : WF_vars(Produce(p))
  /\ \A c \in Consumers : WF_vars(Consume(c))
  /\ WF_vars(StopStore) /\ WF_vars(StopNotify)

Spec == Init /\ [][Next]_vars /\ Fairness

-----------------------------------------------------------------------------
(* The refinement of FifoQueue *)

items == [i \in 1..(Len(chain) - 1) |-> value[chain[i + 1]]]

published ==
  {value[chain[i + 1]] : i \in {j \in 1..(Len(chain) - 1) : next[chain[j]] # Null}}

\* enqueue and the dequeues implement the two-step FIFO their clients rely on,
\* whatever the interleaving, the reuse of addresses and the moment of stop().
Queue == INSTANCE FifoQueue
FifoSpec == Queue!Spec

-----------------------------------------------------------------------------
(* Properties *)

\* No thread is about to use a node that has been deleted: a producer's
\* tail->next (queue.hpp:56), a consumer's head->next, head and next->value
\* (149-169), the queue's own m_head.
NoDanglingDeref ==
  /\ life # "gone" => m_head \in heap
  /\ \A p \in Producers : prod[p].pc = "link" => {prod[p].prev, prod[p].node} \subseteq heap
  /\ \A c \in Consumers : cons[c].pc \in {"load", "loop", "reload", "spin"} =>
       cons[c].head \in heap /\ cons[c].next \in heap \cup {Null}

\* A lone consumer is never left asleep (wait_dequeue, m_tail.wait) once the
\* notifications of enqueue and stop are over and there is an element or a
\* stop to see.
NoLostWakeup ==
  /\ \A p \in Producers : prod[p].pc \notin {"link", "notify"}
  /\ life # "notify"
  /\ Asleep # {}
  => items = << >> /\ m_tail # Null

\* Every node and value is destroyed once: not while a thread still uses it, and
\* not later than in ~AtomicQueue (Test::count ends at 0 in test_atomic_queue.cpp).
NoLeak == life = "gone" => heap = {} /\ \A n \in Nodes : value[n] = Null
MemorySafe == NoDanglingDeref /\ NoLeak

\* stop() gets every consumer out of wait_dequeue and wait_dequeue_until, the
\* ones that spin with the locker held too.
StopEndsEveryWait ==
  \A c \in Consumers : (m_tail = Null) ~> (cons[c].pc \in {"idle", "done"})

\* test_atomic_queue.cpp:68-72, after the join: assert(arr[i][j]).
TestAssertion ==
  /\ \A p \in Producers : prod[p].pc = "done" /\ prod[p].sent = NLoop
  /\ \A c \in Consumers : cons[c].pc = "done"
  => arr = Elements
==============================================================================
