------------------------------ MODULE IoService ------------------------------
(***************************************************************************)
(* coro::io::Service (include/io/service.hpp) and SqeAwaitable             *)
(* (include/io/sqe_awaitable.hpp) over io_uring, which is external: a ring *)
(* of submission entries, operations in the kernel, and completions.       *)
(*                                                                         *)
(* A client is a coroutine that awaits operations or gives them callbacks. *)
(* It runs on the thread of run(), within main or a resolve(), or          *)
(* elsewhere once another awaitable resumed it there (main.cpp:162).       *)
(* Calls of liburing are atomic.  m_cqe_count is a plain counter that both  *)
(* threads use: every access is a step, and behind an advance with its     *)
(* argument read there is room for the other thread.                       *)
(***************************************************************************)
EXTENDS Naturals, Sequences

CONSTANTS
  Clients, Root,  \* Root's future is the argument of run()
  Movers,         \* clients that also await other things than the service
  MaxOps,         \* bound: operations in a behaviour
  Entries,        \* size of the submission ring
  CqEntries,      \* unread completions beyond which the kernel accepts no more
  Null

ASSUME ServiceAssumption ==
  /\ Root \in Clients /\ Movers \subseteq Clients /\ Null \notin Clients \X Nat
  /\ MaxOps \in Nat /\ Entries \in Nat \ {0} /\ CqEntries \in Nat \ {0}

VARIABLES
  sqe,              \* per slot: the operation prepared in it, its user_data
  sqhead, sqtail,   \* entries consumed by the kernel, handed out by get_sqe
  inflight,         \* entries in the kernel
  cq, cqhead,       \* completions posted so far, and given back
  m_cqe_count,
  run,              \* the thread of run(): its step, the head of the loop it is
                    \* in or was in last, and the value that ++m_cqe_count has read
  client,           \* per client: step, operation number, slot, thread
  callbacks,        \* operations with a resolver that resumes nobody
  early,            \* ghost: an entry was submitted before its user_data was set
  overlapped        \* ghost: m_cqe_count was read while somebody had yet to write it

sqVars == <<sqe, sqhead, sqtail>>
cqVars == <<cq, cqhead, m_cqe_count, overlapped>>
vars == <<sqVars, inflight, cqVars, run, client, callbacks, early>>

Operation(c) == <<c, client[c].n>>

Init ==
  /\ sqe = [s \in 0..(Entries - 1) |-> [op |-> Null, data |-> Null]]
  /\ sqhead = 0 /\ sqtail = 0
  /\ inflight = {} /\ cq = << >> /\ cqhead = 0
  /\ m_cqe_count = 0
  /\ run = [pc |-> "start", head |-> 0, count |-> 0]
  /\ client = [c \in Clients |-> [pc |-> "running", n |-> 0, slot |-> 0, thread |-> "run"]]
  /\ callbacks = {}
  /\ early = FALSE /\ overlapped = FALSE

-----------------------------------------------------------------------------
(* io_uring *)

Unsubmitted == {sqe[i % Entries] : i \in sqhead..(sqtail - 1)}

Accepts(head) == Len(cq) - head < CqEntries

\* io_uring_submit: the kernel takes all prepared entries, or refuses them all
\* while too many completions, from `head` on, are unread.
SubmitEntries(entries, head) ==
  IF Accepts(head)
    THEN /\ sqhead' = sqtail
         /\ inflight' = inflight \cup entries
         /\ early' = (early \/ \E e \in entries : e.data # e.op)
    ELSE UNCHANGED <<sqhead, inflight, early>>

Complete(e) ==
  /\ e \in inflight
  /\ inflight' = inflight \ {e}
  /\ cq' = Append(cq, e.data)
  /\ UNCHANGED <<sqVars, cqhead, m_cqe_count, overlapped, run, client, callbacks, early>>

-----------------------------------------------------------------------------
(* Clients *)

\* Code of a client runs in main before run() is called, in a resolve(), or on
\* another thread; one call of io_uring_get_sqe_safe at a time on run()'s.
InGetSqe == {"advance", "reset", "submit", "retry"}
MayRun(c) ==
  \/ client[c].thread = "other"
  \/ /\ run.pc \in {"start", "resolving"}
     /\ \A d \in Clients \ {c} : client[d].thread = "run" => client[d].pc \notin InGetSqe

\* Root runs from the beginning; any running code may begin another client.
NotBegun(c) == c # Root /\ client[c].pc = "running" /\ client[c].n = 0

HasRoom(head) == sqtail - head < Entries

\* io_uring_get_sqe and the prep function, which leaves the user_data of an
\* earlier operation or clears it, depending on the version.
TakeSlot(c) ==
  LET s == sqtail % Entries
      o == <<c, client[c].n + 1>> IN
  /\ \E d \in {Null, sqe[s].data} : sqe' = [sqe EXCEPT ![s] = [op |-> o, data |-> d]]
  /\ sqtail' = sqtail + 1
  /\ client' = [client EXCEPT ![c].pc = "prepared", ![c].n = @ + 1, ![c].slot = s]

\* Bounds: none begins after MaxOps operations, an early submission, or an
\* overlap.
Begins(c) ==
  client[c].pc = "running" /\ MayRun(c) /\ sqtail < MaxOps /\ ~early /\ ~overlapped

ClientGoto(c, pc) == client' = [client EXCEPT ![c].pc = pc]

\* nop(), read() and write() with a free entry.
Prepare(c) ==
  /\ Begins(c)
  /\ HasRoom(sqhead)
  /\ TakeSlot(c)
  /\ UNCHANGED <<sqhead, inflight, cqVars, run, callbacks, early>>

\* Whoever has read m_cqe_count, and is about to write it.
Writers == {c \in Clients : client[c].pc = "reset"}
RunWrites == run.pc \in {"count", "reset"}

\* Mutant: the completions given back are given back again at the end of the loop.
CountKept(n) == n

CountAfterAdvance(n) == 0

\* io_uring_get_sqe_safe on a full ring: the completions seen are given back,
\* what is there is submitted, and a second attempt made, which may throw.
PrepareWhenFull(c) ==
  /\ Begins(c)
  /\ ~HasRoom(sqhead)
  /\ ClientGoto(c, "advance")
  /\ UNCHANGED <<sqVars, inflight, cqVars, run, callbacks, early>>

Advance(c) ==
  /\ client[c].pc = "advance" /\ MayRun(c)
  /\ cqhead' = cqhead + m_cqe_count
  /\ overlapped' = (overlapped \/ RunWrites \/ Writers # {})
  /\ ClientGoto(c, "reset")
  /\ UNCHANGED <<sqVars, inflight, cq, m_cqe_count, run, callbacks, early>>

ResetCount(c) ==
  /\ client[c].pc = "reset" /\ MayRun(c)
  /\ m_cqe_count' = CountAfterAdvance(m_cqe_count)
  /\ ClientGoto(c, "submit")
  /\ UNCHANGED <<sqVars, inflight, cq, cqhead, overlapped, run, callbacks, early>>

SubmitAll(c) ==
  /\ client[c].pc = "submit" /\ MayRun(c)
  /\ SubmitEntries(Unsubmitted, cqhead)
  /\ ClientGoto(c, "retry")
  /\ UNCHANGED <<sqe, sqtail, cqVars, run, callbacks>>

Retry(c) ==
  /\ client[c].pc = "retry" /\ MayRun(c)
  /\ IF HasRoom(sqhead)
       THEN TakeSlot(c)
       ELSE ClientGoto(c, "ended") /\ UNCHANGED <<sqe, sqtail>>
  /\ UNCHANGED <<sqhead, inflight, cqVars, run, callbacks, early>>

\* io_uring_sqe_set_data, on a slot that may not be c's any more.
WithData(c) == [sqe EXCEPT ![client[c].slot].data = Operation(c)]

\* co_await: await_suspend sets the user_data and submits.
Await(c) ==
  /\ client[c].pc = "prepared" /\ MayRun(c)
  /\ sqe' = WithData(c)
  /\ SubmitEntries({sqe'[i % Entries] : i \in sqhead..(sqtail - 1)}, cqhead)
  /\ client' = [client EXCEPT ![c].pc = "suspended", ![c].slot = 0]
  /\ UNCHANGED <<sqtail, cqVars, run, callbacks>>

\* set_callback() and set_deferred() leave the submission to others, and their
\* caller goes on.
SetResolver(c) ==
  /\ client[c].pc = "prepared" /\ MayRun(c)
  /\ sqe' = WithData(c)
  /\ callbacks' = callbacks \cup {Operation(c)}
  /\ client' = [client EXCEPT ![c].pc = "running", ![c].slot = 0]
  /\ UNCHANGED <<sqhead, sqtail, inflight, cqVars, run, early>>

\* Another awaitable resumes the client on a thread of its own.
MoveElsewhere(c) ==
  /\ c \in Movers
  /\ client[c].pc = "running" /\ client[c].thread = "run" /\ MayRun(c)
  /\ client' = [client EXCEPT ![c].thread = "other"]
  /\ UNCHANGED <<sqVars, inflight, cqVars, run, callbacks, early>>

End(c) ==
  /\ client[c].pc = "running" /\ MayRun(c) /\ ~NotBegun(c)
  /\ ClientGoto(c, "ended")
  /\ UNCHANGED <<sqVars, inflight, cqVars, run, callbacks, early>>

-----------------------------------------------------------------------------
(* run() *)

Goto(pc) == run' = [run EXCEPT !.pc = pc]

\* No client is in the middle of something on the thread of run().
ClientsIdle ==
  \A c \in Clients :
    client[c].thread = "other" \/ client[c].pc \in {"suspended", "ended"} \/ NotBegun(c)

\* main calls run(), or a resolve() returns.
Return ==
  /\ run.pc \in {"start", "resolving"} /\ ClientsIdle
  /\ Goto(IF run.pc = "start" THEN "check" ELSE "loop")
  /\ UNCHANGED <<sqVars, inflight, cqVars, client, callbacks, early>>

Done == client[Root].pc = "ended"

Check ==
  /\ run.pc = "check"
  /\ Goto(IF Done THEN "returned" ELSE "enter")
  /\ UNCHANGED <<sqVars, inflight, cqVars, client, callbacks, early>>

\* io_uring_submit_and_wait(&m_ring, 1) submits, then blocks.
SubmitAndWait ==
  /\ run.pc = "enter"
  /\ SubmitEntries(Unsubmitted, cqhead)
  /\ Goto("wait")
  /\ UNCHANGED <<sqe, sqtail, cqVars, client, callbacks>>

BeginLoop ==
  /\ run.pc = "wait" /\ cqhead # Len(cq)
  /\ run' = [run EXCEPT !.pc = "loop", !.head = cqhead]
  /\ UNCHANGED <<sqVars, inflight, cqVars, client, callbacks, early>>

\* resolve() of the resolver d: a callback is called and deleted, a client that
\* awaits the operation resumed.  Stale user_data is a resolver that is no more.
Awaiting(d) == {c \in Clients : client[c].pc = "suspended" /\ Operation(c) = d}
Resolve(d) ==
  CASE d \in callbacks -> "loop"
    [] Awaiting(d) # {} -> "resolving"
    [] OTHER -> "crashed"

\* One round of io_uring_for_each_cqe: ++m_cqe_count reads and writes.
ReadCount ==
  /\ run.pc = "loop" /\ run.head < Len(cq)
  /\ run' = [run EXCEPT !.pc = "count", !.count = m_cqe_count]
  /\ overlapped' = (overlapped \/ Writers # {})
  /\ UNCHANGED <<sqVars, inflight, cq, cqhead, m_cqe_count, client, callbacks, early>>

Visit ==
  LET d == cq[run.head + 1] IN
  /\ run.pc = "count"
  /\ m_cqe_count' = run.count + 1
  /\ callbacks' = callbacks \ {d}
  /\ client' = [c \in Clients |->
       IF c \in Awaiting(d) THEN [client[c] EXCEPT !.pc = "running", !.thread = "run"] ELSE client[c]]
  /\ run' = [head |-> run.head + 1, count |-> 0, pc |-> IF d = Null THEN "loop" ELSE Resolve(d)]
  /\ UNCHANGED <<sqVars, inflight, cq, cqhead, early, overlapped>>

\* If more was given back than there was, the loop goes on with stale entries,
\* the user_data of resolvers that are no more.
Overrun ==
  /\ run.pc = "loop" /\ run.head > Len(cq)
  /\ Goto("crashed")
  /\ UNCHANGED <<sqVars, inflight, cqVars, client, callbacks, early>>

\* Mutant: the completions are not given back.
NothingBack(n) == 0

GivenBack(n) == n

EndLoop ==
  /\ run.pc = "loop" /\ run.head = Len(cq)
  /\ cqhead' = cqhead + GivenBack(m_cqe_count)
  /\ overlapped' = (overlapped \/ Writers # {})
  /\ Goto("reset")
  /\ UNCHANGED <<sqVars, inflight, cq, m_cqe_count, client, callbacks, early>>

ResetAfterLoop ==
  /\ run.pc = "reset"
  /\ m_cqe_count' = 0
  /\ Goto("check")
  /\ UNCHANGED <<sqVars, inflight, cq, cqhead, overlapped, client, callbacks, early>>

\* run() waits for good if an operation has lost its user_data, if completions
\* were given back that it has not seen, or if the future ended on another
\* thread and nothing wakes the service.
Terminating ==
  /\ \/ run.pc \in {"returned", "crashed"} \/ (early /\ overlapped)
     \/ run.pc = "wait" /\ (early \/ overlapped \/ Done)
  /\ UNCHANGED vars

Service ==
  \/ Return \/ Check \/ SubmitAndWait
  \/ BeginLoop \/ ReadCount \/ Visit \/ Overrun \/ EndLoop \/ ResetAfterLoop
GetSqe(c) == Prepare(c) \/ PrepareWhenFull(c) \/ Advance(c) \/ ResetCount(c) \/ SubmitAll(c) \/ Retry(c)
Proceed(c) == GetSqe(c) \/ Await(c) \/ SetResolver(c) \/ End(c)

\* Bound: an early submission and an overlap, both, end a behaviour.
Running == run.pc \notin {"returned", "crashed"} /\ ~(early /\ overlapped)

Next ==
  \/ (Running /\ (Service \/ (\E c \in Clients : Proceed(c) \/ MoveElsewhere(c)) \/ \E e \in inflight : Complete(e)))
  \/ Terminating

\* The thread of run() and the clients go on, and the kernel completes
\* everything; nobody need go elsewhere.
Fairness ==
  /\ WF_vars(Running /\ Service)
  /\ \A c \in Clients : WF_vars(Running /\ Proceed(c))
  /\ WF_vars(Running /\ \E e \in inflight : Complete(e))

Spec == Init /\ [][Next]_vars /\ Fairness

-----------------------------------------------------------------------------
(* Properties *)

\* What the loop has seen and nobody has given back; whoever is about to clear
\* m_cqe_count has given it back already.
NotGivenBack == IF Writers # {} \/ run.pc = "reset" THEN 0 ELSE m_cqe_count

\* The completions that the loop has seen are those given back and those that
\* m_cqe_count counts, also when a client in the loop or on another thread meets
\* a full ring (service.hpp:80-81): none is skipped or seen again.  The exception
\* are two threads that overlapped between reading m_cqe_count and writing it
\* (service.hpp:80-81, 98, 103-104).
CompletionsAccounted ==
  overlapped \/ (cqhead + NotGivenBack = run.head /\ run.head <= Len(cq))

\* resolve() is called for a coroutine that awaits just this operation, and so
\* at most once, unless an entry was submitted before its user_data was set, or
\* an overlap has spoilt m_cqe_count.
ResolvesAwaited == run.pc = "crashed" => (early \/ overlapped)

\* Whoever awaits an operation goes on, unless run() returns before, and run()
\* returns once its future has ended on its thread (on another one it sleeps on
\* until a completion wakes it, hence the nop of main.cpp:166).  The exceptions
\* are an early submission and an overlap.
Served ==
  \/ <>(early \/ overlapped)
  \/ /\ \A c \in Clients :
          (client[c].pc = "suspended") ~> (client[c].pc # "suspended" \/ run.pc = "returned")
     /\ (Done /\ client[Root].thread = "run") ~> (run.pc = "returned")
==============================================================================
