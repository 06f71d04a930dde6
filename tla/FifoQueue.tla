------------------------------ MODULE FifoQueue ------------------------------
(***************************************************************************)
(* What nct::AtomicQueue promises to its clients (include/container/       *)
(* queue.hpp): a FIFO in which an element gets its position in one step    *)
(* and becomes visible to the dequeuing side in a later one.  Between the  *)
(* two, the queue "may spuriously report empty" (queue.hpp:127), and       *)
(* elements behind an invisible one are invisible as well.                 *)
(*                                                                         *)
(* AtomicQueue implements this module; CountingSemaphore and WaitEach are  *)
(* clients of it.  Elements are unique while they are in the queue.        *)
(***************************************************************************)
EXTENDS Sequences

CONSTANT Elements

VARIABLES
  items,      \* the elements, oldest first
  published   \* the elements whose predecessor already points to them

TypeOK ==
  /\ items \in Seq(Elements)
  /\ published \in SUBSET Elements

Init ==
  /\ items = << >>
  /\ published = {}

\* An enqueuer swings the tail: the element's position is now fixed.
Claim(e) ==
  /\ \A i \in DOMAIN items : items[i] # e
  /\ items' = Append(items, e)
  /\ UNCHANGED published

\* The enqueuer links the element to its predecessor.
Publish(e) ==
  /\ \E i \in DOMAIN items : items[i] = e
  /\ e \notin published
  /\ published' = published \cup {e}
  /\ UNCHANGED items

\* What !maybe_empty() and a successful try_dequeue() observe.
FrontVisible ==
  /\ items # << >>
  /\ Head(items) \in published

\* A dequeuer removes the oldest element.
Take(e) ==
  /\ FrontVisible
  /\ e = Head(items)
  /\ items' = Tail(items)
  /\ published' = published \ {e}

Next == \E e \in Elements : Claim(e) \/ Publish(e) \/ Take(e)

Spec == Init /\ [][Next]_<<items, published>>
==============================================================================
