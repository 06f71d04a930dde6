---------------------------- MODULE CoroutineSlot ----------------------------
(***************************************************************************)
(* std::atomic<void*> coroutine_addr, the word through which wait_any,     *)
(* wait_all and wait_each hand a suspended coroutine to whoever resumes    *)
(* it (include/awaitable.hpp).  await_suspend stores the handle and then   *)
(* loads other shared words; a release store followed by an acquire load   *)
(* of another word may be reordered, also by x86 hardware: the store sits  *)
(* in the thread's store buffer until it drains, or until an exchange of   *)
(* the same thread flushes it.                                             *)
(***************************************************************************)
CONSTANTS
  Handles, Null,
  StoreBuffer   \* TRUE: the stores of await_suspend are buffered

VARIABLES coroutine_addr, buffered

TypeOK ==
  /\ coroutine_addr \in Handles \cup {Null}
  /\ buffered \in Handles \cup {Null}
  /\ buffered # Null => StoreBuffer

Init == coroutine_addr = Null /\ buffered = Null

\* coroutine_addr.store(h, release)
Store(h) ==
  IF StoreBuffer THEN buffered' = h /\ UNCHANGED coroutine_addr
                 ELSE coroutine_addr' = h /\ UNCHANGED buffered

Drain ==
  /\ buffered # Null
  /\ coroutine_addr' = buffered
  /\ buffered' = Null

\* exchange(nullptr, acq_rel): what it returns, and what it leaves, for the
\* thread that owns the buffered store (own) and for any other one.
Exchanged(own) == IF own /\ buffered # Null THEN buffered ELSE coroutine_addr
Exchange(own) ==
  /\ coroutine_addr' = Null
  /\ buffered' = IF own THEN Null ELSE buffered
==============================================================================
