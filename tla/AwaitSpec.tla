------------------------------ MODULE AwaitSpec ------------------------------
(***************************************************************************)
(* What `co_await wait_all(...)` and `co_await wait_any(...)` promise the  *)
(* coroutine that awaits (include/awaitable.hpp): it goes on exactly once, *)
(* and not before the operations it waits for have finished: all of them   *)
(* for wait_all, one of them for wait_any.                                 *)
(***************************************************************************)
EXTENDS Naturals

CONSTANTS
  Awaitables,
  Sufficient   \* the sets of operations each of which is enough to go on

VARIABLES
  finished,  \* operations that have reported
  awaiter,   \* "running", "suspended", "resumed"
  resumes    \* how often the coroutine has gone on

Init ==
  /\ finished = {}
  /\ awaiter = "running"
  /\ resumes = 0

Enough == \E ops \in Sufficient : ops \subseteq finished

Finish(i) ==
  /\ i \notin finished
  /\ finished' = finished \cup {i}
  /\ UNCHANGED <<awaiter, resumes>>

Suspend ==
  /\ awaiter = "running"
  /\ awaiter' = "suspended"
  /\ UNCHANGED <<finished, resumes>>

\* Without suspending, or after it.
GoOn ==
  /\ awaiter # "resumed"
  /\ Enough
  /\ awaiter' = "resumed"
  /\ resumes' = resumes + 1
  /\ UNCHANGED finished

Next == (\E i \in Awaitables : Finish(i)) \/ Suspend \/ GoOn

Spec == Init /\ [][Next]_<<finished, awaiter, resumes>>
==============================================================================
