----------------------------- MODULE RunLoopProofs -----------------------------
(***************************************************************************)
(* Proofs about the two loops that resume coroutines on a thread of their  *)
(* own.  They have nothing in common but this module.                      *)
(*                                                                         *)
(* IoService, for any ring sizes and any number of clients and operations: *)
(* the completions that the loop has seen are given back once, and every   *)
(* completion finds the one resolver it is for.                            *)
(*                                                                         *)
(* An operation is a token that is in one place at a time: in the ring, in *)
(* the kernel, or among the completions that the loop has not seen.  As    *)
(* long as no entry was submitted early, a token that left the ring has a  *)
(* callback or an awaiting client, until the loop takes both away.  What   *)
(* the loop has seen is what cqhead and m_cqe_count add up to, as long as  *)
(* at most one thread is between reading m_cqe_count and writing it.       *)
(*                                                                         *)
(* Looper, for any number of coroutines and submissions: the worker serves *)
(* the queue in order, and nobody is resumed after stop().  The argument   *)
(* is that stop() leaves the queue empty, and submit() keeps it so.        *)
(***************************************************************************)
EXTENDS IoService, Looper, SequenceTheorems, TLAPS

USE ServiceAssumption DEF ServiceAssumption

-----------------------------------------------------------------------------
(* The inductive invariant *)

Operations == Clients \X (Nat \ {0})
Entry == [op : Operations \cup {Null}, data : Operations \cup {Null}]
ClientSteps == {"running", "prepared", "suspended", "ended"} \cup InGetSqe
ClientState == [pc : ClientSteps, n : Nat, slot : 0..(Entries - 1), thread : {"run", "other"}]
RunSteps ==
  {"start", "check", "enter", "wait", "loop", "count", "resolving", "reset", "returned", "crashed"}
RunState == [pc : RunSteps, head : Nat, count : Nat]

TypeOK ==
  /\ sqe \in [0..(Entries - 1) -> Entry]
  /\ sqhead \in Nat /\ sqtail \in Nat /\ sqhead <= sqtail
  /\ inflight \in SUBSET Entry
  /\ cq \in Seq(Operations \cup {Null})
  /\ cqhead \in Nat /\ m_cqe_count \in Nat
  /\ run \in RunState
  /\ client \in [Clients -> ClientState]
  /\ callbacks \in SUBSET Operations
  /\ early \in BOOLEAN /\ overlapped \in BOOLEAN

\* A client that has prepared an operation has begun one.
PreparedInv == \A c \in Clients : client[c].pc \in {"prepared", "suspended"} => client[c].n > 0

\* The completions that the loop has visited, since the beginning.
Seen == run.head

\* One thread at a time is between reading m_cqe_count and writing it.
OneWriter == (RunWrites => Writers = {}) /\ \A c, d \in Writers : c = d

AccountInv ==
  overlapped \/
    /\ OneWriter
    /\ cqhead + NotGivenBack = Seen /\ Seen <= Len(cq)
    /\ run.pc = "count" => run.count = m_cqe_count /\ run.head < Len(cq)
    /\ run.pc \notin {"loop", "count", "resolving", "reset", "crashed"} => m_cqe_count = 0

Begun(o) == o \in Operations /\ o[2] <= client[o[1]].n

\* A slot keeps the user_data of an operation that was begun.
DataInv == \A s \in 0..(Entries - 1) : sqe[s].data # Null => Begun(sqe[s].data)

\* Somebody waits for the completion of o, and resolve() finds him.
Pending(o) == o \in callbacks \/ Awaiting(o) # {}

Ring == sqhead..(sqtail - 1)
InRing(i) == sqe[i % Entries]
Unseen == {i \in 1..Len(cq) : i > Seen}

RingInv ==
  \A i \in Ring :
    /\ Begun(InRing(i).op)
    /\ InRing(i).data = InRing(i).op => Pending(InRing(i).op)
    /\ \A j \in Ring : InRing(i).op = InRing(j).op => i = j
    /\ \A e \in inflight : e.op # InRing(i).op
    /\ \A k \in Unseen : cq[k] # InRing(i).op

KernelInv ==
  \A e \in inflight :
    /\ Begun(e.op) /\ e.data = e.op /\ Pending(e.op)
    /\ \A k \in Unseen : cq[k] # e.op

UnseenInv ==
  \A i \in Unseen :
    /\ Begun(cq[i]) /\ Pending(cq[i])
    /\ \A k \in Unseen : cq[i] = cq[k] => i = k

TokenInv == RingInv /\ KernelInv /\ UnseenInv

Inv ==
  /\ TypeOK /\ PreparedInv /\ AccountInv /\ DataInv
  /\ early \/ overlapped \/ (TokenInv /\ run.pc # "crashed")

-----------------------------------------------------------------------------
(* Types *)

LEMMA SlotType == \A i \in Nat : i % Entries \in 0..(Entries - 1)
OBVIOUS

LEMMA RingSlots ==
  ASSUME TypeOK, NEW i \in Ring
  PROVE  i \in Nat /\ i % Entries \in 0..(Entries - 1)
<1>1. i \in Nat
  BY DEF TypeOK, Ring
<1> QED
  BY <1>1, SlotType

\* The entries between the head and the tail of the ring have slots of their own.
LEMMA SlotsDiffer ==
  ASSUME NEW i \in Nat, NEW j \in Nat, i < j, j - i < Entries
  PROVE  i % Entries # j % Entries
<1> DEFINE a == i \div Entries
           b == j \div Entries
<1>1. a \in Int /\ b \in Int /\ i = Entries * a + (i % Entries) /\ j = Entries * b + (j % Entries)
  OBVIOUS
<1> HIDE DEF a, b
<1>2. SUFFICES ASSUME i % Entries = j % Entries PROVE FALSE
  OBVIOUS
<1>3. j - i = Entries * (b - a)
  BY <1>1, <1>2
<1>4. CASE b - a <= 0
  BY <1>1, <1>3, <1>4
<1>5. CASE b - a >= 1
  BY <1>1, <1>3, <1>5
<1> QED
  BY <1>1, <1>4, <1>5

LEMMA InitInv == Init => Inv
<1> SUFFICES ASSUME Init PROVE Inv
  OBVIOUS
<1> USE DEF Init
<1>1. TypeOK
  <2>1. 0 \in 0..(Entries - 1)
    OBVIOUS
  <2>2. sqe \in [0..(Entries - 1) -> Entry]
    BY DEF Entry
  <2>3. client \in [Clients -> ClientState]
    BY <2>1 DEF ClientState, ClientSteps
  <2>4. run \in RunState
    BY DEF RunState, RunSteps
  <2> QED
    BY <2>2, <2>3, <2>4 DEF TypeOK
<1>2. PreparedInv /\ DataInv
  BY DEF DataInv, PreparedInv
<1>3. AccountInv
  <2>1. Writers = {} /\ ~RunWrites /\ NotGivenBack = 0 /\ Len(cq) = 0
    BY DEF Writers, RunWrites, NotGivenBack
  <2> QED
    BY <2>1 DEF AccountInv, OneWriter, Seen
<1>4. Ring = {} /\ Unseen = {}
  BY DEF Ring, Unseen, Seen
<1> QED
  BY <1>1, <1>2, <1>3, <1>4 DEF Inv, TokenInv, RingInv, KernelInv, UnseenInv

\* A client goes on to another step, and keeps the rest of its state.
LEMMA ClientMoves ==
  ASSUME TypeOK, NEW c \in Clients, NEW pc \in ClientSteps
  PROVE  /\ [client EXCEPT ![c].pc = pc] \in [Clients -> ClientState]
         /\ [client EXCEPT ![c].pc = pc, ![c].slot = 0] \in [Clients -> ClientState]
         /\ [client EXCEPT ![c].thread = "other"] \in [Clients -> ClientState]
         /\ \A s \in 0..(Entries - 1) :
              [client EXCEPT ![c].pc = pc, ![c].n = @ + 1, ![c].slot = s] \in [Clients -> ClientState]
<1>1. client \in [Clients -> ClientState] /\ 0 \in 0..(Entries - 1)
  BY DEF TypeOK
<1>2. ASSUME NEW r \in ClientState, NEW s \in 0..(Entries - 1)
      PROVE  /\ [r EXCEPT !.pc = pc] \in ClientState
             /\ [r EXCEPT !.pc = pc, !.slot = 0] \in ClientState
             /\ [r EXCEPT !.thread = "other"] \in ClientState
             /\ [r EXCEPT !.pc = pc, !.n = @ + 1, !.slot = s] \in ClientState
  <2>1. r.n + 1 \in Nat
    BY DEF ClientState
  <2>2. [r EXCEPT !.pc = pc] \in ClientState
    BY DEF ClientState
  <2>3. [r EXCEPT !.pc = pc, !.slot = 0] \in ClientState
    BY <1>1 DEF ClientState
  <2>4. [r EXCEPT !.thread = "other"] \in ClientState
    BY DEF ClientState
  <2>5. [r EXCEPT !.pc = pc, !.n = @ + 1, !.slot = s] \in ClientState
    BY <2>1 DEF ClientState
  <2> QED
    BY <2>2, <2>3, <2>4, <2>5
<1>3. [client EXCEPT ![c].pc = pc] \in [Clients -> ClientState]
  BY <1>1, <1>2
<1>4. [client EXCEPT ![c].pc = pc, ![c].slot = 0] \in [Clients -> ClientState]
  BY <1>1, <1>2
<1>5. [client EXCEPT ![c].thread = "other"] \in [Clients -> ClientState]
  BY <1>1, <1>2
<1>6. ASSUME NEW s \in 0..(Entries - 1)
      PROVE  [client EXCEPT ![c].pc = pc, ![c].n = @ + 1, ![c].slot = s] \in [Clients -> ClientState]
  BY <1>1, <1>2
<1> QED
  BY <1>3, <1>4, <1>5, <1>6

LEMMA OperationType ==
  ASSUME TypeOK, NEW c \in Clients
  PROVE  /\ Operation(c) = <<c, client[c].n>> /\ client[c].n \in Nat
         /\ client[c].n > 0 => Operation(c) \in Operations
         /\ <<c, client[c].n + 1>> \in Operations
BY DEF TypeOK, ClientState, Operation, Operations

LEMMA UnsubmittedType ==
  ASSUME TypeOK
  PROVE  Unsubmitted \subseteq Entry
BY SlotType DEF TypeOK, Unsubmitted

LEMMA SubmitTyped ==
  ASSUME TypeOK, NEW entries \in SUBSET Entry, NEW head, SubmitEntries(entries, head)
  PROVE  sqhead' \in {sqhead, sqtail} /\ inflight' \in SUBSET Entry /\ early' \in BOOLEAN
BY DEF TypeOK, SubmitEntries

LEMMA TakeSlotTyped ==
  ASSUME TypeOK, NEW c \in Clients, TakeSlot(c)
  PROVE  /\ sqe' \in [0..(Entries - 1) -> Entry] /\ sqtail' \in Nat /\ sqtail' = sqtail + 1
         /\ client' \in [Clients -> ClientState]
<1>1. sqtail % Entries \in 0..(Entries - 1)
  BY SlotType DEF TypeOK
<1>2. client' \in [Clients -> ClientState]
  BY <1>1, ClientMoves DEF TakeSlot, ClientSteps
<1>3. PICK d \in {Null, sqe[sqtail % Entries].data} :
        sqe' = [sqe EXCEPT ![sqtail % Entries] = [op |-> <<c, client[c].n + 1>>, data |-> d]]
  BY DEF TakeSlot
<1>4. [op |-> <<c, client[c].n + 1>>, data |-> d] \in Entry
  BY <1>1, OperationType DEF TypeOK, Entry
<1> QED
  BY <1>1, <1>2, <1>3, <1>4 DEF TakeSlot, TypeOK

LEMMA WithDataTyped ==
  ASSUME TypeOK, PreparedInv, NEW c \in Clients, client[c].pc = "prepared"
  PROVE  WithData(c) \in [0..(Entries - 1) -> Entry]
<1>1. Operation(c) \in Operations /\ client[c].slot \in 0..(Entries - 1)
  BY OperationType DEF PreparedInv, TypeOK, ClientState
<1> QED
  BY <1>1 DEF WithData, TypeOK, Entry

LEMMA ServiceTyped ==
  ASSUME TypeOK, Service
  PROVE  TypeOK'
<1>0. \A pc \in RunSteps : Goto(pc) => run' \in RunState
  BY DEF TypeOK, Goto, RunState
<1>1. CASE Return \/ Check \/ BeginLoop \/ ReadCount \/ Overrun \/ EndLoop \/ ResetAfterLoop
  <2>1. run' \in RunState
    <3>1. CASE BeginLoop \/ ReadCount
      BY <3>1 DEF TypeOK, BeginLoop, ReadCount, RunState, RunSteps
    <3>2. CASE Return \/ Check \/ Overrun \/ EndLoop \/ ResetAfterLoop
      BY <1>0, <3>2 DEF Return, Check, Overrun, EndLoop, ResetAfterLoop, RunSteps
    <3> QED
      BY <1>1, <3>1, <3>2
  <2>2. /\ UNCHANGED <<sqVars, inflight, cq, client, callbacks, early>>
        /\ cqhead' \in Nat /\ m_cqe_count' \in Nat /\ overlapped' \in BOOLEAN
    <3>1. CASE Return \/ Check \/ BeginLoop \/ Overrun
      BY <3>1 DEF TypeOK, Return, Check, BeginLoop, Overrun, cqVars
    <3>2. CASE ReadCount
      BY <3>2 DEF TypeOK, ReadCount
    <3>3. CASE EndLoop
      BY <3>3 DEF TypeOK, EndLoop, GivenBack
    <3>4. CASE ResetAfterLoop
      BY <3>4 DEF TypeOK, ResetAfterLoop
    <3> QED
      BY <1>1, <3>1, <3>2, <3>3, <3>4
  <2> QED
    BY <2>1, <2>2 DEF TypeOK, sqVars
<1>2. CASE SubmitAndWait
  <2>1. run' \in RunState
    BY <1>0, <1>2 DEF SubmitAndWait, RunSteps
  <2> QED
    BY <1>2, <2>1, SubmitTyped, UnsubmittedType DEF TypeOK, SubmitAndWait, cqVars
<1>3. CASE Visit
  <2> DEFINE d == cq[run.head + 1]
  <2>1. client' \in [Clients -> ClientState]
    BY <1>3 DEF Visit, TypeOK, ClientState, ClientSteps
  <2>2. run.head + 1 \in Nat /\ run.count + 1 \in Nat
    BY DEF TypeOK, RunState
  <2>3. Resolve(d) \in {"loop", "resolving", "crashed"}
    BY DEF Resolve
  <2>4. run' \in RunState
    BY <1>3, <2>2, <2>3 DEF Visit, RunState, RunSteps
  <2>5. /\ UNCHANGED <<sqVars, inflight, cq, cqhead, early, overlapped>>
        /\ m_cqe_count' = run.count + 1 /\ callbacks' = callbacks \ {d}
    BY <1>3, Zenon DEF Visit
  <2> HIDE DEF d
  <2> QED
    BY <2>1, <2>2, <2>4, <2>5 DEF TypeOK, sqVars
<1> QED
  BY <1>1, <1>2, <1>3 DEF Service

LEMMA ClientTyped ==
  ASSUME TypeOK, PreparedInv, NEW c \in Clients, Proceed(c) \/ MoveElsewhere(c)
  PROVE  TypeOK'
<1>1. CASE Prepare(c)
  BY <1>1, TakeSlotTyped DEF Prepare, TypeOK, cqVars
<1>0. \A pc \in ClientSteps : ClientGoto(c, pc) => client' \in [Clients -> ClientState]
  <2> SUFFICES ASSUME NEW pc \in ClientSteps, ClientGoto(c, pc) PROVE client' \in [Clients -> ClientState]
    OBVIOUS
  <2>1. [client EXCEPT ![c].pc = pc] \in [Clients -> ClientState]
    BY ClientMoves
  <2> QED
    BY <2>1 DEF ClientGoto
<1>2. CASE PrepareWhenFull(c) \/ Advance(c) \/ ResetCount(c)
  <2>1. client' \in [Clients -> ClientState]
    BY <1>0, <1>2 DEF PrepareWhenFull, Advance, ResetCount, ClientSteps, InGetSqe
  <2>2. /\ UNCHANGED <<sqVars, inflight, cq, run, callbacks, early>>
        /\ cqhead' \in Nat /\ m_cqe_count' \in Nat /\ overlapped' \in BOOLEAN
    BY <1>2 DEF TypeOK, PrepareWhenFull, Advance, ResetCount, CountAfterAdvance, cqVars
  <2> QED
    BY <2>1, <2>2 DEF TypeOK, sqVars
<1>7. CASE SubmitAll(c)
  <2>1. client' \in [Clients -> ClientState]
    BY <1>0, <1>7 DEF SubmitAll, ClientSteps, InGetSqe
  <2>2. sqhead' \in {sqhead, sqtail} /\ inflight' \in SUBSET Entry /\ early' \in BOOLEAN
    BY <1>7, SubmitTyped, UnsubmittedType DEF SubmitAll
  <2> QED
    BY <1>7, <2>1, <2>2 DEF SubmitAll, TypeOK, cqVars
<1>8. CASE Retry(c)
  <2>1. sqtail \in Nat
    BY DEF TypeOK
  <2>2. /\ sqe' \in [0..(Entries - 1) -> Entry] /\ sqtail' \in Nat /\ sqtail' >= sqtail
        /\ client' \in [Clients -> ClientState]
    <3>1. CASE TakeSlot(c)
      BY <2>1, <3>1, TakeSlotTyped
    <3>2. CASE ClientGoto(c, "ended") /\ UNCHANGED <<sqe, sqtail>>
      BY <1>0, <2>1, <3>2 DEF TypeOK, ClientSteps
    <3> QED
      BY <1>8, <3>1, <3>2 DEF Retry
  <2> QED
    BY <1>8, <2>2 DEF Retry, TypeOK, cqVars
<1>3. CASE Await(c)
  <2>1. sqe' \in [0..(Entries - 1) -> Entry]
    BY <1>3, WithDataTyped DEF Await
  <2>2. {sqe'[i % Entries] : i \in sqhead..(sqtail - 1)} \subseteq Entry
    BY <2>1, SlotType DEF TypeOK
  <2>3. sqhead' \in {sqhead, sqtail} /\ inflight' \in SUBSET Entry /\ early' \in BOOLEAN
    BY <1>3, <2>2, SubmitTyped DEF Await
  <2>4. client' \in [Clients -> ClientState]
    BY <1>3, ClientMoves DEF Await, ClientSteps
  <2> QED
    BY <1>3, <2>1, <2>3, <2>4 DEF Await, TypeOK, cqVars
<1>4. CASE SetResolver(c)
  <2>1. sqe' \in [0..(Entries - 1) -> Entry]
    BY <1>4, WithDataTyped DEF SetResolver
  <2>2. client' \in [Clients -> ClientState]
    BY <1>4, ClientMoves DEF SetResolver, ClientSteps
  <2>3. Operation(c) \in Operations
    BY <1>4, OperationType DEF SetResolver, PreparedInv
  <2> QED
    BY <1>4, <2>1, <2>2, <2>3 DEF SetResolver, TypeOK, cqVars
<1>5. CASE MoveElsewhere(c)
  <2>1. client' \in [Clients -> ClientState]
    BY <1>5, ClientMoves DEF MoveElsewhere, ClientSteps
  <2> QED
    BY <1>5, <2>1 DEF MoveElsewhere, TypeOK, sqVars, cqVars
<1>6. CASE End(c)
  <2>1. client' \in [Clients -> ClientState]
    BY <1>0, <1>6 DEF End, ClientSteps
  <2> QED
    BY <1>6, <2>1 DEF End, TypeOK, sqVars, cqVars
<1> QED
  BY <1>1, <1>2, <1>3, <1>4, <1>5, <1>6, <1>7, <1>8 DEF Proceed, GetSqe

LEMMA CompleteTyped ==
  ASSUME TypeOK, NEW e \in inflight, Complete(e)
  PROVE  TypeOK'
<1>1. e.data \in Operations \cup {Null}
  BY DEF TypeOK, Entry
<1> QED
  BY <1>1 DEF Complete, TypeOK, sqVars

LEMMA Typed ==
  ASSUME TypeOK, PreparedInv, [Next]_vars
  PROVE  TypeOK' /\ PreparedInv'
<1>1. TypeOK'
  <2>1. CASE UNCHANGED vars
    BY <2>1 DEF vars, sqVars, cqVars, TypeOK
  <2> QED
    BY <2>1, ServiceTyped, ClientTyped, CompleteTyped DEF Next, Terminating
<1>2. PreparedInv'
  <2> USE DEF PreparedInv
  <2>1. CASE UNCHANGED client
    BY <2>1
  <2>2. CASE Visit
    <3>1. \A c \in Clients : client'[c] = client[c] \/ client'[c] = [client[c] EXCEPT !.pc = "running", !.thread = "run"]
      BY <2>2 DEF Visit
    <3>2. \A r \in ClientState : [r EXCEPT !.pc = "running", !.thread = "run"].pc = "running"
      BY DEF ClientState
    <3>3. \A c \in Clients : client[c] \in ClientState
      BY DEF TypeOK
    <3> QED
      BY <3>1, <3>2, <3>3
  <2>3. ASSUME NEW c \in Clients, Proceed(c) \/ MoveElsewhere(c) PROVE PreparedInv'
    <3>1. client \in [Clients -> ClientState] /\ client[c].n \in Nat
      BY DEF TypeOK, ClientState
    <3>2. CASE TakeSlot(c)
      BY <3>1, <3>2 DEF TakeSlot
    <3>3. ASSUME NEW pc \in ClientSteps \ {"prepared"}, pc = "suspended" => client[c].n > 0,
                 client' = [client EXCEPT ![c].pc = pc] \/ client' = [client EXCEPT ![c].pc = pc, ![c].slot = 0]
          PROVE  PreparedInv'
      <4>1. client[c] \in ClientState
        BY <3>1
      <4>2. client'[c].pc = pc /\ client'[c].n = client[c].n
        BY <3>1, <3>3, <4>1 DEF ClientState
      <4>3. \A x \in Clients \ {c} : client'[x] = client[x]
        BY <3>1, <3>3
      <4> QED
        BY <3>3, <4>2, <4>3
    <3>4. CASE MoveElsewhere(c)
      BY <3>1, <3>4 DEF MoveElsewhere
    <3>5. CASE GetSqe(c) \/ End(c)
      <4>1. TakeSlot(c) \/ \E pc \in InGetSqe \cup {"ended"} : ClientGoto(c, pc)
        BY <3>5 DEF GetSqe, Prepare, PrepareWhenFull, Advance, ResetCount, SubmitAll, Retry, End, InGetSqe
      <4> QED
        BY <3>2, <3>3, <4>1 DEF ClientGoto, ClientSteps, InGetSqe
    <3>6. CASE Await(c)
      BY <3>3, <3>6 DEF Await, ClientSteps
    <3>7. CASE SetResolver(c)
      <4>1. client' = [client EXCEPT ![c].pc = "running", ![c].slot = 0]
        BY <3>7 DEF SetResolver
      <4>2. "running" \in ClientSteps \ {"prepared"} /\ "running" # "suspended"
        BY DEF ClientSteps
      <4> QED
        BY <3>3, <4>1, <4>2
    <3> QED
      BY <2>3, <3>4, <3>5, <3>6, <3>7 DEF Proceed
  <2>4. CASE Service /\ ~Visit
    BY <2>1, <2>4 DEF Service, Return, Check, SubmitAndWait, BeginLoop, ReadCount, Overrun, EndLoop, ResetAfterLoop
  <2> QED
    BY <2>1, <2>2, <2>3, <2>4 DEF Next, Complete, Terminating, vars
<1> QED
  BY <1>1, <1>2

-----------------------------------------------------------------------------
(* The completions *)

LEMMA AccountFrame ==
  ASSUME TypeOK, AccountInv, UNCHANGED <<run, cqhead, m_cqe_count, overlapped>>, Writers' = Writers,
         cq' = cq \/ \E d : cq' = Append(cq, d)
  PROVE  AccountInv'
<1>1. Len(cq) \in Nat /\ Len(cq') >= Len(cq)
  BY DEF TypeOK
<1>2. run.head \in Nat
  BY DEF TypeOK, RunState
<1>3. NotGivenBack' = NotGivenBack /\ RunWrites' = RunWrites
  BY DEF NotGivenBack, RunWrites
<1>4. CASE overlapped
  BY <1>4 DEF AccountInv
<1>5. CASE ~overlapped
  <2>1. /\ OneWriter
        /\ cqhead + NotGivenBack = Seen /\ Seen <= Len(cq)
        /\ run.pc = "count" => run.count = m_cqe_count /\ run.head < Len(cq)
        /\ run.pc \notin {"loop", "count", "resolving", "reset", "crashed"} => m_cqe_count = 0
    BY <1>5 DEF AccountInv
  <2>2. OneWriter'
    BY <1>3, <2>1 DEF OneWriter
  <2> QED
    BY <1>1, <1>2, <1>3, <2>1, <2>2 DEF AccountInv, Seen
<1> QED
  BY <1>4, <1>5

\* The steps of run().
LEMMA AccountService ==
  ASSUME TypeOK, AccountInv, Service
  PROVE  AccountInv'
<1>1. /\ run.head \in Nat /\ run.count \in Nat /\ cqhead \in Nat /\ m_cqe_count \in Nat /\ Len(cq) \in Nat
      /\ run = [pc |-> run.pc, head |-> run.head, count |-> run.count]
  BY DEF TypeOK, RunState
<1>2. cq' = cq /\ (overlapped => overlapped')
  <2>1. CASE Visit
    BY <2>1, Zenon DEF Visit
  <2>2. CASE Return \/ Check \/ SubmitAndWait \/ BeginLoop \/ Overrun
    BY <2>2 DEF Return, Check, SubmitAndWait, BeginLoop, Overrun, cqVars
  <2>3. CASE ReadCount \/ EndLoop \/ ResetAfterLoop
    <3>1. overlapped \in BOOLEAN /\ (Writers # {}) \in BOOLEAN
      BY DEF TypeOK
    <3> QED
      BY <2>3, <3>1 DEF ReadCount, EndLoop, ResetAfterLoop
  <2> QED
    BY <2>1, <2>2, <2>3 DEF Service
<1>3. SUFFICES ASSUME ~overlapped', ~overlapped
               PROVE  /\ OneWriter'
                      /\ (cqhead + NotGivenBack)' = run'.head /\ run'.head <= Len(cq)
                      /\ run'.pc = "count" => run'.count = m_cqe_count' /\ run'.head < Len(cq)
                      /\ run'.pc \notin {"loop", "count", "resolving", "reset", "crashed"} => m_cqe_count' = 0
  BY <1>2 DEF AccountInv, Seen
<1>4. /\ OneWriter
      /\ cqhead + NotGivenBack = run.head /\ run.head <= Len(cq)
      /\ run.pc = "count" => run.count = m_cqe_count /\ run.head < Len(cq)
      /\ run.pc \notin {"loop", "count", "resolving", "reset", "crashed"} => m_cqe_count = 0
  BY <1>3 DEF AccountInv, Seen
<1>5. CASE Return \/ Check \/ SubmitAndWait
  <2>1. /\ run'.head = run.head /\ run'.pc \in {"check", "enter", "returned", "wait", "loop"}
        /\ run.pc \in {"start", "resolving", "check", "enter"}
        /\ run'.pc # "loop" => run.pc # "resolving"
        /\ UNCHANGED <<cqhead, m_cqe_count, client>>
    BY <1>1, <1>5 DEF Return, Check, SubmitAndWait, Goto, cqVars
  <2>2. Writers' = Writers /\ NotGivenBack' = NotGivenBack /\ ~RunWrites'
    BY <2>1 DEF Writers, NotGivenBack, RunWrites
  <2> QED
    BY <1>4, <2>1, <2>2 DEF OneWriter
<1>6. CASE BeginLoop
  <2>1. run.pc = "wait" /\ run'.pc = "loop" /\ run'.head = cqhead /\ UNCHANGED <<cqhead, m_cqe_count, client>>
    BY <1>1, <1>6 DEF BeginLoop, cqVars
  <2>2. m_cqe_count = 0 /\ NotGivenBack = 0 /\ NotGivenBack' = 0 /\ Writers' = Writers /\ ~RunWrites'
    BY <1>4, <2>1 DEF Writers, NotGivenBack, RunWrites
  <2> QED
    BY <1>1, <1>4, <2>1, <2>2 DEF OneWriter
<1>7. CASE ReadCount
  <2>1. /\ run.pc = "loop" /\ run'.pc = "count" /\ run'.head = run.head /\ run.head < Len(cq)
        /\ run'.count = m_cqe_count /\ UNCHANGED <<cqhead, m_cqe_count, client>> /\ Writers = {}
    BY <1>1, <1>3, <1>7 DEF ReadCount
  <2>2. Writers' = {} /\ NotGivenBack' = NotGivenBack
    BY <2>1 DEF Writers, NotGivenBack
  <2> QED
    BY <1>4, <2>1, <2>2 DEF OneWriter
<1>8. CASE Visit
  <2>1. /\ run.pc = "count" /\ m_cqe_count' = run.count + 1 /\ cqhead' = cqhead
        /\ client' = [c \in Clients |->
             IF c \in Awaiting(cq[run.head + 1]) THEN [client[c] EXCEPT !.pc = "running", !.thread = "run"] ELSE client[c]]
    BY <1>8, Zenon DEF Visit
  <2>2. run'.head = run.head + 1 /\ run'.pc \in {"loop", "resolving", "crashed"}
    BY <1>8 DEF Visit, Resolve
  <2>3. Writers = {} /\ NotGivenBack = m_cqe_count
    BY <1>4, <2>1 DEF OneWriter, RunWrites, NotGivenBack
  <2>4. Writers' = {}
    <3>1. ASSUME NEW c \in Clients PROVE client'[c].pc # "reset"
      <4>1. client[c] \in ClientState /\ client[c].pc # "reset"
        BY <2>3 DEF TypeOK, Writers
      <4>2. client'[c] = client[c] \/ client'[c] = [client[c] EXCEPT !.pc = "running", !.thread = "run"]
        BY <2>1
      <4> QED
        BY <4>1, <4>2 DEF ClientState
    <3> QED
      BY <3>1 DEF Writers
  <2>5. NotGivenBack' = m_cqe_count'
    BY <2>2, <2>4 DEF NotGivenBack
  <2>6. OneWriter'
    BY <2>4 DEF OneWriter
  <2>7. /\ cqhead' = cqhead /\ NotGivenBack' = m_cqe_count + 1
        /\ cqhead + m_cqe_count = run.head /\ run.head < Len(cq)
    BY <1>4, <2>1, <2>3, <2>5
  <2>8. cqhead' + NotGivenBack' = run'.head /\ run'.head <= Len(cq)
    BY <1>1, <2>2, <2>7
  <2> QED
    BY <2>2, <2>6, <2>8
<1>9. CASE Overrun
  BY <1>1, <1>4, <1>9 DEF Overrun
<1>10. CASE EndLoop
  <2>1. /\ run.pc = "loop" /\ run'.pc = "reset" /\ run'.head = run.head
        /\ cqhead' = cqhead + m_cqe_count /\ UNCHANGED client /\ Writers = {}
    BY <1>1, <1>3, <1>10 DEF EndLoop, GivenBack, Goto
  <2>2. Writers' = {} /\ NotGivenBack' = 0 /\ NotGivenBack = m_cqe_count
    BY <2>1 DEF Writers, NotGivenBack
  <2> QED
    BY <1>1, <1>4, <2>1, <2>2 DEF OneWriter
<1>11. CASE ResetAfterLoop
  <2>1. /\ run.pc = "reset" /\ run'.pc = "check" /\ run'.head = run.head /\ m_cqe_count' = 0
        /\ UNCHANGED <<cqhead, client>>
    BY <1>1, <1>11 DEF ResetAfterLoop, Goto
  <2>2. NotGivenBack = 0 /\ NotGivenBack' = 0 /\ Writers' = Writers /\ Writers = {}
    BY <1>4, <2>1 DEF Writers, NotGivenBack, OneWriter, RunWrites
  <2> QED
    BY <1>4, <2>1, <2>2 DEF OneWriter
<1> QED
  BY <1>5, <1>6, <1>7, <1>8, <1>9, <1>10, <1>11 DEF Service

\* A client gives back what the loop has seen, also on a thread of its own.
LEMMA AccountAdvance ==
  ASSUME TypeOK, AccountInv, NEW c \in Clients, Advance(c)
  PROVE  AccountInv'
<1>1. /\ run.head \in Nat /\ cqhead \in Nat /\ m_cqe_count \in Nat
      /\ client[c] \in ClientState /\ client \in [Clients -> ClientState]
  BY DEF TypeOK, RunState
<1>2. SUFFICES ASSUME ~overlapped' PROVE AccountInv'
  BY DEF AccountInv
<1>3. /\ Writers = {} /\ ~RunWrites /\ ~overlapped /\ cqhead' = cqhead + m_cqe_count
      /\ UNCHANGED <<run, m_cqe_count, cq>> /\ client' = [client EXCEPT ![c].pc = "reset"]
  BY <1>2 DEF Advance, ClientGoto
<1>4. Writers' = {c}
  <2>1. client'[c].pc = "reset"
    BY <1>1, <1>3 DEF ClientState
  <2>2. \A x \in Clients \ {c} : client'[x].pc # "reset"
    BY <1>1, <1>3 DEF Writers
  <2> QED
    BY <2>1, <2>2 DEF Writers
<1>5. NotGivenBack = m_cqe_count /\ NotGivenBack' = 0 /\ ~RunWrites'
  BY <1>3, <1>4 DEF NotGivenBack, RunWrites
<1>6. OneWriter'
  BY <1>4, <1>5 DEF OneWriter
<1> QED
  BY <1>1, <1>3, <1>5, <1>6 DEF AccountInv, Seen

LEMMA AccountReset ==
  ASSUME TypeOK, AccountInv, NEW c \in Clients, ResetCount(c)
  PROVE  AccountInv'
<1>1. client[c] \in ClientState /\ client \in [Clients -> ClientState]
  BY DEF TypeOK
<1>2. SUFFICES ASSUME ~overlapped PROVE AccountInv'
  BY DEF AccountInv, ResetCount
<1>3. /\ client[c].pc = "reset" /\ m_cqe_count' = 0 /\ UNCHANGED <<run, cqhead, cq>>
      /\ client' = [client EXCEPT ![c].pc = "submit"]
  BY DEF ResetCount, ClientGoto, CountAfterAdvance
<1>4. c \in Writers /\ Writers' = {}
  <2>1. c \in Writers /\ \A x \in Writers : x = c
    BY <1>2, <1>3 DEF Writers, AccountInv, OneWriter
  <2>2. client'[c].pc # "reset"
    BY <1>1, <1>3 DEF ClientState
  <2>3. \A x \in Clients \ {c} : client'[x].pc # "reset"
    BY <1>1, <1>3, <2>1 DEF Writers
  <2> QED
    BY <2>1, <2>2, <2>3 DEF Writers
<1>5. NotGivenBack = 0 /\ NotGivenBack' = 0 /\ ~RunWrites /\ ~RunWrites'
  BY <1>2, <1>3, <1>4 DEF NotGivenBack, RunWrites, AccountInv, OneWriter
<1>6. OneWriter' /\ run.pc # "count"
  BY <1>4, <1>5 DEF OneWriter, RunWrites
<1> QED
  BY <1>2, <1>3, <1>5, <1>6 DEF AccountInv, Seen

LEMMA AccountStep ==
  ASSUME TypeOK, AccountInv, [Next]_vars
  PROVE  AccountInv'
<1>1. CASE UNCHANGED vars
  <2>1. Writers' = Writers
    BY <1>1 DEF vars, Writers
  <2> QED
    BY <1>1, <2>1, AccountFrame DEF vars, cqVars
<1>2. ASSUME NEW c \in Clients, Proceed(c) \/ MoveElsewhere(c), ~Advance(c), ~ResetCount(c) PROVE AccountInv'
  <2>1. /\ client[c] \in ClientState /\ client \in [Clients -> ClientState]
        /\ sqtail % Entries \in 0..(Entries - 1)
    BY SlotType DEF TypeOK
  <2>2. client[c].pc # "reset" /\ UNCHANGED <<run, cqVars>>
    BY <1>2 DEF Proceed, GetSqe, Prepare, PrepareWhenFull, SubmitAll, Retry, Begins, Await, SetResolver, End, MoveElsewhere
  <2>3. PICK r : client' = [client EXCEPT ![c] = r] /\ r.pc # "reset"
    <3>1. \A pc \in ClientSteps \ {"reset"} : [client[c] EXCEPT !.pc = pc].pc # "reset"
      BY <2>1 DEF ClientState
    <3>2. \A pc \in ClientSteps \ {"reset"} : [client[c] EXCEPT !.pc = pc, !.slot = 0].pc # "reset"
      BY <2>1 DEF ClientState
    <3>3. [client[c] EXCEPT !.pc = "prepared", !.n = @ + 1, !.slot = sqtail % Entries].pc # "reset"
      BY <2>1 DEF ClientState
    <3>4. [client[c] EXCEPT !.thread = "other"].pc # "reset"
      BY <2>1, <2>2 DEF ClientState
    <3>5. CASE TakeSlot(c)
      BY <3>3, <3>5 DEF TakeSlot
    <3>6. CASE MoveElsewhere(c)
      BY <3>4, <3>6 DEF MoveElsewhere
    <3>7. CASE Await(c) \/ SetResolver(c)
      <4>1. PICK pc \in {"suspended", "running"} : client' = [client EXCEPT ![c].pc = pc, ![c].slot = 0]
        BY <3>7 DEF Await, SetResolver
      <4>2. client' = [client EXCEPT ![c] = [client[c] EXCEPT !.pc = pc, !.slot = 0]]
        BY <2>1, <4>1
      <4> QED
        BY <3>2, <4>2 DEF ClientSteps
    <3>8. ASSUME NEW pc \in ClientSteps \ {"reset"}, ClientGoto(c, pc)
          PROVE  \E r : client' = [client EXCEPT ![c] = r] /\ r.pc # "reset"
      BY <3>1, <3>8 DEF ClientGoto
    <3> QED
      BY <1>2, <3>5, <3>6, <3>7, <3>8
         DEF Proceed, GetSqe, Prepare, PrepareWhenFull, SubmitAll, Retry, End, ClientSteps, InGetSqe
  <2>4. Writers' = Writers
    BY <2>1, <2>2, <2>3 DEF Writers
  <2> QED
    BY <2>2, <2>4, AccountFrame DEF cqVars
<1>3. ASSUME NEW e \in inflight, Complete(e) PROVE AccountInv'
  <2>1. Writers' = Writers
    BY <1>3 DEF Complete, Writers
  <2> QED
    BY <1>3, <2>1, AccountFrame DEF Complete
<1> QED
  BY <1>1, <1>2, <1>3, AccountService, AccountAdvance, AccountReset DEF Next, Terminating

-----------------------------------------------------------------------------
(* The tokens *)

BegunStays == \A o \in Operations : Begun(o) => Begun(o)'
PendingStays == \A o \in Operations : Pending(o) => Pending(o)'

\* How a step may change a client.
LEMMA ClientChanges ==
  ASSUME TypeOK, [Next]_vars
  PROVE  \A x \in Clients :
           /\ client'[x].n \in {client[x].n, client[x].n + 1}
           /\ ~Visit /\ client[x].pc = "suspended" => client'[x] = client[x]
<1>1. client \in [Clients -> ClientState]
  BY DEF TypeOK
<1>2. CASE UNCHANGED client
  BY <1>2
<1>3. CASE Visit
  <2>1. \A x \in Clients : client'[x] = client[x] \/ client'[x] = [client[x] EXCEPT !.pc = "running", !.thread = "run"]
    BY <1>3 DEF Visit
  <2>2. \A r \in ClientState : [r EXCEPT !.pc = "running", !.thread = "run"].n = r.n
    BY DEF ClientState
  <2> QED
    BY <1>1, <1>3, <2>1, <2>2
<1>4. ASSUME NEW c \in Clients, Proceed(c) \/ MoveElsewhere(c), ~UNCHANGED client
      PROVE  /\ client[c].pc # "suspended" /\ client'[c].n \in {client[c].n, client[c].n + 1}
             /\ \A x \in Clients \ {c} : client'[x] = client[x]
  <2>1. client[c].n \in Nat /\ client[c] \in ClientState
    BY <1>1 DEF ClientState
  <2>2. CASE TakeSlot(c)
    <3>1. \A s : [client[c] EXCEPT !.pc = "prepared", !.n = @ + 1, !.slot = s].n = client[c].n + 1
      BY <2>1 DEF ClientState
    <3>2. client' = [client EXCEPT ![c] = [client[c] EXCEPT !.pc = "prepared", !.n = @ + 1, !.slot = sqtail % Entries]]
      BY <2>2 DEF TakeSlot
    <3>3. client[c].pc # "suspended"
      BY <1>4, <2>2, <2>1, <3>2 DEF Proceed, GetSqe, Prepare, PrepareWhenFull, Advance, ResetCount, SubmitAll, Retry,
         Begins, Await, SetResolver, End, MoveElsewhere
    <3> QED
      BY <1>1, <3>1, <3>2, <3>3
  <2>3. ASSUME NEW r, r.n = client[c].n, client' = [client EXCEPT ![c] = r]
        PROVE  client'[c].n = client[c].n /\ \A x \in Clients \ {c} : client'[x] = client[x]
    BY <1>1, <2>3
  <2>4. ASSUME NEW pc, ClientGoto(c, pc), client[c].pc # "suspended"
        PROVE  /\ client[c].pc # "suspended" /\ client'[c].n \in {client[c].n, client[c].n + 1}
               /\ \A x \in Clients \ {c} : client'[x] = client[x]
    <3>1. client' = [client EXCEPT ![c] = [client[c] EXCEPT !.pc = pc]]
      BY <2>4 DEF ClientGoto
    <3>2. [client[c] EXCEPT !.pc = pc].n = client[c].n
      BY <2>1 DEF ClientState
    <3> QED
      BY <2>3, <2>4, <3>1, <3>2
  <2>5. CASE Await(c)
    <3>1. client' = [client EXCEPT ![c] = [client[c] EXCEPT !.pc = "suspended", !.slot = 0]] /\ client[c].pc = "prepared"
      BY <2>5 DEF Await
    <3>2. [client[c] EXCEPT !.pc = "suspended", !.slot = 0].n = client[c].n
      BY <2>1 DEF ClientState
    <3> QED
      BY <2>3, <3>1, <3>2
  <2>6. CASE SetResolver(c)
    <3>1. client' = [client EXCEPT ![c] = [client[c] EXCEPT !.pc = "running", !.slot = 0]] /\ client[c].pc = "prepared"
      BY <2>6 DEF SetResolver
    <3>2. [client[c] EXCEPT !.pc = "running", !.slot = 0].n = client[c].n
      BY <2>1 DEF ClientState
    <3> QED
      BY <2>3, <3>1, <3>2
  <2>7. CASE (GetSqe(c) \/ End(c)) /\ ~TakeSlot(c)
    <3>1. client[c].pc # "suspended" /\ \E pc : ClientGoto(c, pc)
      BY <2>7 DEF GetSqe, Prepare, PrepareWhenFull, Advance, ResetCount, SubmitAll, Retry, Begins, End
    <3> QED
      BY <2>4, <3>1
  <2>8. CASE MoveElsewhere(c)
    <3>1. client' = [client EXCEPT ![c] = [client[c] EXCEPT !.thread = "other"]] /\ client[c].pc = "running"
      BY <2>8 DEF MoveElsewhere
    <3>2. [client[c] EXCEPT !.thread = "other"].n = client[c].n
      BY <2>1 DEF ClientState
    <3> QED
      BY <2>3, <3>1, <3>2
  <2> QED
    BY <1>4, <2>2, <2>5, <2>6, <2>7, <2>8 DEF Proceed
<1>5. CASE Service /\ ~Visit
  BY <1>2, <1>5 DEF Service, Return, Check, SubmitAndWait, BeginLoop, ReadCount, Overrun, EndLoop, ResetAfterLoop
<1>6. ASSUME NEW c \in Clients, Proceed(c) \/ MoveElsewhere(c), ~UNCHANGED client
      PROVE  \A x \in Clients :
               /\ client'[x].n \in {client[x].n, client[x].n + 1}
               /\ ~Visit /\ client[x].pc = "suspended" => client'[x] = client[x]
  BY <1>4, <1>6
<1> QED
  BY <1>2, <1>3, <1>5, <1>6 DEF Next, Complete, Terminating, vars

LEMMA BegunStep ==
  ASSUME TypeOK, [Next]_vars
  PROVE  BegunStays
<1>1. \A c \in Clients : client[c].n \in Nat
  BY DEF TypeOK, ClientState
<1>2. \A o \in Operations : o[1] \in Clients /\ o[2] \in Nat
  BY DEF Operations
<1> QED
  BY <1>1, <1>2, ClientChanges DEF BegunStays, Begun

LEMMA PendingStep ==
  ASSUME TypeOK, [Next]_vars, ~Visit
  PROVE  PendingStays
<1>1. callbacks \subseteq callbacks'
  <2>1. CASE Service
    BY <2>1 DEF Service, Return, Check, SubmitAndWait, BeginLoop, ReadCount, Overrun, EndLoop, ResetAfterLoop
  <2>2. ASSUME NEW c \in Clients, Proceed(c) \/ MoveElsewhere(c) PROVE callbacks \subseteq callbacks'
    BY <2>2 DEF Proceed, GetSqe, Prepare, PrepareWhenFull, Advance, ResetCount, SubmitAll, Retry, Await, SetResolver,
       End, MoveElsewhere
  <2> QED
    BY <2>1, <2>2 DEF Next, Complete, Terminating, vars
<1>2. ASSUME NEW o \in Operations, NEW x \in Awaiting(o) PROVE x \in Awaiting(o)'
  BY <1>2, ClientChanges DEF Awaiting, Operation
<1> QED
  BY <1>1, <1>2 DEF PendingStays, Pending

\* A step that moves no token.
LEMMA FrameTokens ==
  ASSUME TypeOK, TokenInv, BegunStays, PendingStays, UNCHANGED <<sqVars, inflight, cq>>, Seen' = Seen
  PROVE  TokenInv'
<1> USE DEF sqVars, BegunStays, PendingStays, Begun
<1>1. RingInv'
  BY DEF TokenInv, RingInv, Ring, InRing, Unseen
<1>2. KernelInv'
  BY DEF TokenInv, KernelInv, Unseen
<1>3. UnseenInv'
  BY DEF TokenInv, UnseenInv, Unseen
<1> QED
  BY <1>1, <1>2, <1>3 DEF TokenInv

\* Tokens go from the ring to the kernel, those of the early submissions apart.
LEMMA SubmitTokens ==
  ASSUME TypeOK, TokenInv, BegunStays, PendingStays, UNCHANGED cq, Seen' = Seen, ~early', ~early,
         NEW entries \in SUBSET Entry, NEW head, SubmitEntries(entries, head),
         \A e \in entries : \E i \in Ring : e.op = InRing(i).op /\ (e.data = e.op => Pending(e.op)')
  PROVE  KernelInv' /\ UnseenInv'
<1>1. Unseen' = Unseen
  BY DEF Unseen
<1>2. UnseenInv'
  BY <1>1 DEF TokenInv, UnseenInv, BegunStays, PendingStays, Begun
<1>3. \A e \in inflight : Begun(e.op)' /\ e.data = e.op /\ Pending(e.op)' /\ \A k \in Unseen : cq[k] # e.op
  BY DEF TokenInv, KernelInv, BegunStays, PendingStays, Begun
<1>4. ASSUME NEW e \in inflight', e \notin inflight
      PROVE  Begun(e.op)' /\ e.data = e.op /\ Pending(e.op)' /\ \A k \in Unseen : cq[k] # e.op
  <2>1. e \in entries /\ e.data = e.op
    BY <1>4 DEF SubmitEntries
  <2>2. PICK i \in Ring : e.op = InRing(i).op /\ (e.data = e.op => Pending(e.op)')
    BY <2>1
  <2>3. Begun(e.op) /\ \A k \in Unseen : cq[k] # e.op
    BY <2>2 DEF TokenInv, RingInv
  <2> QED
    BY <2>1, <2>2, <2>3 DEF BegunStays, Begun
<1>5. KernelInv'
  BY <1>1, <1>3, <1>4 DEF KernelInv
<1> QED
  BY <1>2, <1>5

\* The same, when the submission empties the ring or leaves it as it is.
LEMMA SubmitRing ==
  ASSUME TypeOK, TokenInv, BegunStays, PendingStays, UNCHANGED <<sqtail, cq>>, Seen' = Seen, ~early', ~early,
         sqe' \in [0..(Entries - 1) -> Entry],
         \A i \in Ring : sqe'[i % Entries].op = InRing(i).op,
         \A i \in Ring : \A o \in Operations : InRing(i).op = o /\ sqe'[i % Entries].data = o => Pending(o)',
         NEW head, SubmitEntries({sqe'[i % Entries] : i \in Ring}, head)
  PROVE  TokenInv'
<1> DEFINE entries == {sqe'[i % Entries] : i \in Ring}
<1>1. \A i \in Ring : i \in Nat /\ i % Entries \in 0..(Entries - 1)
  BY RingSlots
<1>2. KernelInv' /\ UnseenInv'
  <2>1. entries \in SUBSET Entry
    BY <1>1
  <2>2. ASSUME NEW e \in entries
        PROVE  \E i \in Ring : e.op = InRing(i).op /\ (e.data = e.op => Pending(e.op)')
    <3>1. PICK i \in Ring : e = sqe'[i % Entries]
      OBVIOUS
    <3>2. e.op = InRing(i).op /\ e.op \in Operations
      BY <3>1 DEF TokenInv, RingInv, Begun
    <3> QED
      BY <3>1, <3>2
  <2> QED
    BY <2>1, <2>2, SubmitTokens
<1>3. CASE sqhead' = sqtail
  <2>1. Ring' = {}
    BY <1>3 DEF Ring, TypeOK
  <2> QED
    BY <1>2, <2>1 DEF TokenInv, RingInv
<1>4. CASE sqhead' = sqhead /\ inflight' = inflight
  <2>1. Ring' = Ring /\ Unseen' = Unseen
    BY <1>4 DEF Ring, Unseen
  <2>2. \A i \in Ring : InRing(i)' = sqe'[i % Entries]
    BY DEF InRing
  <2>3. RingInv'
    <3>1. SUFFICES ASSUME NEW i \in Ring, NEW o, o = InRing(i).op
                   PROVE  /\ Begun(o)'
                          /\ sqe'[i % Entries].data = o => Pending(o)'
                          /\ \A j \in Ring : o = InRing(j).op => i = j
                          /\ \A e \in inflight : e.op # o
                          /\ \A k \in Unseen : cq[k] # o
      BY <1>4, <2>1, <2>2 DEF RingInv
    <3>2. o \in Operations /\ Begun(o)
      BY <3>1 DEF TokenInv, RingInv, Begun
    <3> QED
      BY <3>1, <3>2 DEF TokenInv, RingInv, BegunStays
  <2> QED
    BY <1>2, <2>3 DEF TokenInv
<1> QED
  BY <1>3, <1>4 DEF SubmitEntries

LEMMA SubmitRingAsIs ==
  ASSUME TypeOK, TokenInv, BegunStays, PendingStays, UNCHANGED <<sqe, sqtail, cq>>, Seen' = Seen, ~early', ~early,
         NEW head, SubmitEntries({sqe'[i % Entries] : i \in Ring}, head)
  PROVE  TokenInv'
<1>1. sqe' \in [0..(Entries - 1) -> Entry]
  BY DEF TypeOK
<1>2. \A i \in Ring : sqe'[i % Entries] = InRing(i)
  BY DEF InRing
<1>3. \A i \in Ring : \A o \in Operations : InRing(i).op = o /\ InRing(i).data = o => Pending(o)'
  BY DEF TokenInv, RingInv, PendingStays
<1> QED
  BY <1>1, <1>2, <1>3, SubmitRing

\* c sets the user_data of the entry that it has prepared, or of another one.
LEMMA WithDataTokens ==
  ASSUME TypeOK, TokenInv, PendingStays, NEW c \in Clients, sqe' = WithData(c),
         \A o \in Operations : o = Operation(c) => Pending(o)'
  PROVE  /\ \A i \in Ring : sqe'[i % Entries].op = InRing(i).op
         /\ \A i \in Ring : \A o \in Operations : InRing(i).op = o /\ sqe'[i % Entries].data = o => Pending(o)'
<1>1. SUFFICES ASSUME NEW i \in Ring, NEW o \in Operations, InRing(i).op = o
               PROVE  /\ sqe'[i % Entries].op = o
                      /\ sqe'[i % Entries].data = o => Pending(o)'
  BY DEF TokenInv, RingInv, Begun
<1>2. i % Entries \in 0..(Entries - 1)
  BY RingSlots
<1>3. InRing(i) \in Entry /\ sqe[i % Entries] = InRing(i)
  BY <1>2 DEF InRing, TypeOK
<1>4. InRing(i).data = o => Pending(o)'
  BY <1>1 DEF TokenInv, RingInv, PendingStays
<1>5. CASE i % Entries # client[c].slot
  <2>1. sqe'[i % Entries] = InRing(i)
    BY <1>2, <1>3, <1>5 DEF WithData, TypeOK
  <2> QED
    BY <1>1, <1>4, <2>1
<1>6. CASE i % Entries = client[c].slot
  <2>1. sqe'[i % Entries] = [InRing(i) EXCEPT !.data = Operation(c)]
    BY <1>2, <1>3, <1>6 DEF WithData, TypeOK
  <2>2. sqe'[i % Entries].op = InRing(i).op /\ sqe'[i % Entries].data = Operation(c)
    BY <1>3, <2>1 DEF Entry
  <2> QED
    BY <1>1, <2>2
<1> QED
  BY <1>5, <1>6

\* A new entry is for an operation that nobody has begun before, and its
\* user_data, if it has one, is an older one.
LEMMA NewEntry ==
  ASSUME TypeOK, DataInv, NEW c \in Clients, TakeSlot(c), NEW o, o = <<c, client[c].n + 1>>
  PROVE  /\ ~Begun(o) /\ Begun(o)'
         /\ sqe'[sqtail % Entries].op = o /\ sqe'[sqtail % Entries].data # o
         /\ \A s \in 0..(Entries - 1) : s # sqtail % Entries => sqe'[s] = sqe[s]
<1> DEFINE s == sqtail % Entries
<1>1. s \in 0..(Entries - 1) /\ sqe \in [0..(Entries - 1) -> Entry]
  BY SlotType DEF TypeOK
<1>2. client[c].n \in Nat /\ client'[c].n = client[c].n + 1
  BY DEF TypeOK, ClientState, TakeSlot
<1>3. ~Begun(o) /\ Begun(o)'
  <2>1. o[1] = c /\ o[2] = client[c].n + 1 /\ o \in Operations
    BY <1>2 DEF Operations
  <2> QED
    BY <1>2, <2>1 DEF Begun
<1>4. PICK d \in {Null, sqe[s].data} : sqe' = [sqe EXCEPT ![s] = [op |-> o, data |-> d]]
  BY DEF TakeSlot
<1>5. d # o
  <2>1. o \in Clients \X Nat
    BY <1>2
  <2>2. o # Null
    BY <2>1
  <2>3. sqe[s].data # o
    BY <1>1, <1>3, <2>2 DEF DataInv
  <2> QED
    BY <2>2, <2>3
<1> HIDE DEF s
<1>6. sqe'[s].op = o /\ sqe'[s].data # o /\ \A t \in 0..(Entries - 1) : t # s => sqe'[t] = sqe[t]
  BY <1>1, <1>4, <1>5
<1> QED
  BY <1>3, <1>6 DEF s

LEMMA DataStep ==
  ASSUME TypeOK, PreparedInv, DataInv, [Next]_vars
  PROVE  DataInv'
<1>1. BegunStays
  BY BegunStep
<1>2. sqe \in [0..(Entries - 1) -> Entry]
  BY DEF TypeOK
<1>3. CASE UNCHANGED sqe
  BY <1>1, <1>3 DEF DataInv, BegunStays, Begun
<1>4. ASSUME NEW c \in Clients, TakeSlot(c) PROVE DataInv'
  <2>1. sqtail % Entries \in 0..(Entries - 1)
    BY SlotType DEF TypeOK
  <2>2. PICK d \in {Null, sqe[sqtail % Entries].data} :
          sqe' = [sqe EXCEPT ![sqtail % Entries] = [op |-> <<c, client[c].n + 1>>, data |-> d]]
    BY <1>4 DEF TakeSlot
  <2>3. \A s \in 0..(Entries - 1) : sqe'[s].data \in {Null, sqe[s].data}
    BY <1>2, <2>1, <2>2
  <2> QED
    BY <1>1, <2>3 DEF DataInv, BegunStays, Begun
<1>5. ASSUME NEW c \in Clients, client[c].pc = "prepared", sqe' = WithData(c) PROVE DataInv'
  <2>1. Operation(c) \in Operations /\ Begun(Operation(c))
    <3>1. client[c].n \in Nat /\ client[c].n > 0 /\ Operation(c) = <<c, client[c].n>>
      BY <1>5, OperationType DEF PreparedInv
    <3>2. Operation(c) \in Operations
      BY <3>1 DEF Operations
    <3> QED
      BY <3>1, <3>2 DEF Begun
  <2>2. PICK o \in Operations : o = Operation(c)
    BY <2>1
  <2>3. \A s \in 0..(Entries - 1) : sqe'[s].data \in {o, sqe[s].data}
    <3>1. SUFFICES ASSUME NEW s \in 0..(Entries - 1) PROVE sqe'[s].data \in {o, sqe[s].data}
      OBVIOUS
    <3>2. sqe'[s] = sqe[s] \/ sqe'[s] = [sqe[s] EXCEPT !.data = o]
      BY <1>2, <1>5, <2>2 DEF WithData
    <3>3. sqe[s] \in Entry
      BY <1>2
    <3> QED
      BY <3>2, <3>3 DEF Entry
  <2> QED
    BY <1>1, <2>1, <2>2, <2>3 DEF DataInv, BegunStays, Begun
<1> QED
  BY <1>3, <1>4, <1>5
     DEF Next, Service, Return, Check, SubmitAndWait, BeginLoop, ReadCount, Visit, Overrun, EndLoop, ResetAfterLoop,
         Proceed, GetSqe, Prepare, PrepareWhenFull, Advance, ResetCount, SubmitAll, Retry, Await, SetResolver, End,
         MoveElsewhere, Complete, Terminating, vars, sqVars

\* The kernel turns a token into a completion.
LEMMA CompleteTokens ==
  ASSUME TypeOK, AccountInv, ~overlapped, TokenInv, BegunStays, PendingStays, NEW e \in inflight, Complete(e)
  PROVE  TokenInv'
<1>1. /\ inflight' = inflight \ {e} /\ cq' = Append(cq, e.data) /\ e.data = e.op
      /\ UNCHANGED sqVars /\ Seen' = Seen
  BY DEF Complete, TokenInv, KernelInv, Seen
<1>2. PICK last : last = Len(cq) + 1
  OBVIOUS
<1>3. /\ Unseen' = Unseen \cup {last} /\ last \notin Unseen /\ cq'[last] = e.op
      /\ \A k \in Unseen : cq'[k] = cq[k]
  <2>1. cq \in Seq(Operations \cup {Null}) /\ e.data \in Operations \cup {Null} /\ Len(cq) \in Nat
    BY DEF TypeOK, Entry
  <2>2. Seen \in Nat /\ Seen <= Len(cq)
    BY DEF TypeOK, RunState, Seen, AccountInv
  <2>3. Len(cq') = last /\ cq'[last] = e.op /\ \A k \in 1..Len(cq) : cq'[k] = cq[k]
    BY <1>1, <1>2, <2>1
  <2>4. Unseen' = {i \in 1..last : i > Seen}
    BY <1>1, <2>3 DEF Unseen
  <2> QED
    BY <1>2, <2>1, <2>2, <2>3, <2>4 DEF Unseen
<1>4. \A d \in inflight : d.op = e.op => d = e
  BY DEF TokenInv, KernelInv, TypeOK, Entry
<1>5. KernelInv'
  BY <1>1, <1>3, <1>4 DEF TokenInv, KernelInv, BegunStays, PendingStays, Begun
<1>6. UnseenInv'
  <2>1. SUFFICES ASSUME NEW k \in Unseen', NEW o, o = cq'[k]
                 PROVE  Begun(o)' /\ Pending(o)' /\ \A l \in Unseen' : o = cq'[l] => k = l
    BY DEF UnseenInv
  <2>2. Begun(o) /\ Pending(o) /\ o \in Operations
    BY <1>3, <2>1 DEF TokenInv, KernelInv, UnseenInv, Begun
  <2>3. \A l \in Unseen' : o = cq'[l] => k = l
    BY <1>3, <2>1 DEF TokenInv, KernelInv, UnseenInv
  <2> QED
    BY <2>2, <2>3 DEF BegunStays, PendingStays
<1>7. RingInv'
  <2>1. Ring' = Ring /\ \A i : InRing(i)' = InRing(i)
    BY <1>1 DEF Ring, InRing, sqVars
  <2>2. SUFFICES ASSUME NEW i \in Ring, NEW o, o = InRing(i).op
                 PROVE  /\ Begun(o)' /\ (InRing(i).data = o => Pending(o)')
                        /\ \A j \in Ring : o = InRing(j).op => i = j
                        /\ \A d \in inflight' : d.op # o
                        /\ \A k \in Unseen' : cq'[k] # o
    BY <2>1 DEF RingInv
  <2>3. /\ Begun(o) /\ (InRing(i).data = o => Pending(o))
        /\ \A j \in Ring : o = InRing(j).op => i = j
        /\ \A d \in inflight : d.op # o
        /\ \A k \in Unseen : cq[k] # o
    BY <2>2 DEF TokenInv, RingInv
  <2>4. Begun(o)' /\ (InRing(i).data = o => Pending(o)')
    BY <2>3 DEF BegunStays, PendingStays, Begun
  <2> QED
    BY <1>1, <1>3, <2>3, <2>4
<1> QED
  BY <1>5, <1>6, <1>7 DEF TokenInv

\* The loop takes a token with its resolver.
LEMMA VisitTokens ==
  ASSUME TypeOK, AccountInv, ~overlapped, TokenInv, BegunStays, Visit
  PROVE  TokenInv' /\ run'.pc # "crashed"
<1>1. PICK d : d = cq[run.head + 1]
  OBVIOUS
<1>2. run.head = Seen /\ Seen \in Nat /\ Seen < Len(cq) /\ Len(cq) \in Nat
  <2>1. run.pc = "count"
    BY Zenon DEF Visit
  <2> QED
    BY <2>1 DEF AccountInv, Seen, TypeOK, RunState
<1>3. Seen + 1 \in Unseen /\ cq[Seen + 1] = d
  BY <1>1, <1>2 DEF Unseen
<1>4. /\ UNCHANGED <<sqVars, inflight, cq>> /\ run'.head = run.head + 1
      /\ callbacks' = callbacks \ {d} /\ run'.pc = IF d = Null THEN "loop" ELSE Resolve(d)
  BY <1>1 DEF Visit
<1>5. Seen' = Seen + 1 /\ Unseen' = Unseen \ {Seen + 1}
  <2>1. Seen' = Seen + 1
    BY <1>4 DEF Seen
  <2> QED
    BY <1>2, <1>4, <2>1 DEF Unseen
<1>6. run'.pc # "crashed"
  BY <1>3, <1>4 DEF TokenInv, UnseenInv, Pending, Resolve
<1>7. ASSUME NEW o \in Operations, Pending(o), o # d PROVE Pending(o)'
  <2>1. CASE o \in callbacks
    BY <1>4, <1>7, <2>1 DEF Pending
  <2>2. ASSUME NEW x \in Awaiting(o) PROVE x \in Awaiting(o)'
    <3>1. x \notin Awaiting(d) /\ x \in Clients
      BY <1>7, <2>2 DEF Awaiting
    <3>2. client'[x] = client[x]
      BY <1>1, <3>1 DEF Visit
    <3> QED
      BY <2>2, <3>2 DEF Awaiting, Operation
  <2> QED
    BY <1>7, <2>1, <2>2 DEF Pending
<1>8. RingInv'
  BY <1>3, <1>4, <1>5, <1>7 DEF TokenInv, RingInv, Ring, InRing, sqVars, BegunStays, Begun
<1>9. KernelInv'
  BY <1>3, <1>4, <1>5, <1>7 DEF TokenInv, KernelInv, BegunStays, Begun
<1>10. UnseenInv'
  BY <1>3, <1>4, <1>5, <1>7 DEF TokenInv, UnseenInv, BegunStays, Begun
<1> QED
  BY <1>6, <1>8, <1>9, <1>10 DEF TokenInv

\* The entry that c prepares is a new token.
LEMMA NewEntryRing ==
  ASSUME TypeOK, DataInv, NEW c \in Clients, TakeSlot(c), BegunStays, PendingStays,
         sqhead' = sqhead, sqtail - sqhead < Entries, RingInv, inflight' = inflight,
         KernelInv', UnseenInv', \A e \in inflight' : Begun(e.op), \A k \in Unseen' : Begun(cq'[k]),
         UNCHANGED cq, Seen' = Seen
  PROVE  RingInv'
<1>1. PICK o : o = <<c, client[c].n + 1>>
  OBVIOUS
<1> PICK t : t = sqtail
  OBVIOUS
<1>2. /\ ~Begun(o) /\ Begun(o)' /\ t \in Nat /\ sqhead \in Nat /\ sqhead <= t /\ sqtail' = t + 1
      /\ InRing(t)'.op = o /\ InRing(t)'.data # o
  <2>1. sqtail \in Nat /\ sqhead \in Nat /\ sqhead <= sqtail /\ sqtail' = sqtail + 1
    BY DEF TypeOK, TakeSlot
  <2>2. ~Begun(o) /\ Begun(o)' /\ sqe'[t % Entries].op = o /\ sqe'[t % Entries].data # o
    BY <1>1, NewEntry
  <2> QED
    BY <2>1, <2>2 DEF InRing
<1>3. \A j \in Ring' : j = t \/ (j \in Ring /\ t - sqhead < Entries)
  BY <1>2 DEF Ring
<1>4. ASSUME NEW j \in Ring, j \in Ring', j # t
      PROVE  InRing(j)' = InRing(j) /\ Begun(InRing(j).op)
  <2>1. j \in Nat /\ j < t /\ t - j < Entries
    BY <1>2, <1>3, <1>4 DEF Ring
  <2>2. j % Entries # t % Entries /\ j % Entries \in 0..(Entries - 1)
    BY <1>2, <2>1, SlotsDiffer, SlotType
  <2> QED
    BY <1>1, <1>3, <1>4, <2>2, NewEntry DEF InRing, RingInv
<1>5. SUFFICES ASSUME NEW i \in Ring', NEW p, p = InRing(i)'.op
               PROVE  /\ Begun(p)' /\ (InRing(i)'.data = p => Pending(p)')
                      /\ \A j \in Ring' : p = InRing(j)'.op => i = j
                      /\ \A e \in inflight' : e.op # p
                      /\ \A k \in Unseen' : cq'[k] # p
  BY DEF RingInv
<1>6. CASE i = t
  <2>1. p = o
    BY <1>2, <1>5, <1>6
  <2>2. \A j \in Ring' : p = InRing(j)'.op => i = j
    BY <1>2, <1>3, <1>4, <1>6, <2>1
  <2> QED
    BY <1>2, <1>6, <2>1, <2>2
<1>7. CASE i # t
  <2>1. i \in Ring /\ InRing(i)' = InRing(i) /\ Begun(p)
    BY <1>3, <1>4, <1>5, <1>7
  <2>2. Unseen' = Unseen /\ cq' = cq
    BY DEF Unseen
  <2>3. Begun(p)' /\ (InRing(i)'.data = p => Pending(p)')
    BY <1>5, <2>1 DEF RingInv, BegunStays, PendingStays, Begun
  <2>4. \A j \in Ring' : p = InRing(j)'.op => i = j
    BY <1>2, <1>3, <1>4, <1>5, <2>1 DEF RingInv
  <2> QED
    BY <1>5, <2>1, <2>2, <2>3, <2>4 DEF RingInv
<1> QED
  BY <1>6, <1>7

LEMMA TakeSlotTokens ==
  ASSUME TypeOK, DataInv, TokenInv, BegunStays, PendingStays, NEW c \in Clients, TakeSlot(c),
         sqhead' = sqhead, sqtail - sqhead < Entries, UNCHANGED <<inflight, cq>>, Seen' = Seen
  PROVE  TokenInv'
<1>1. KernelInv'
  BY DEF TokenInv, KernelInv, Unseen, BegunStays, PendingStays, Begun
<1>2. UnseenInv'
  BY DEF TokenInv, UnseenInv, Unseen, BegunStays, PendingStays, Begun
<1>3. RingInv /\ (\A e \in inflight' : Begun(e.op)) /\ \A k \in Unseen' : Begun(cq'[k])
  BY DEF TokenInv, KernelInv, UnseenInv, Unseen
<1> QED
  BY <1>1, <1>2, <1>3, NewEntryRing DEF TokenInv

LEMMA ClientTokens ==
  ASSUME TypeOK, PreparedInv, DataInv, TokenInv, BegunStays, PendingStays, ~early, ~early',
         NEW c \in Clients, Proceed(c) \/ MoveElsewhere(c)
  PROVE  TokenInv'
<1>1. CASE Prepare(c)
  BY <1>1, TakeSlotTokens DEF Prepare, HasRoom, Seen, cqVars
<1>2. CASE PrepareWhenFull(c) \/ Advance(c) \/ ResetCount(c)
  BY <1>2, FrameTokens DEF PrepareWhenFull, Advance, ResetCount, Seen, cqVars
<1>6. CASE SubmitAll(c)
  <2>1. /\ UNCHANGED <<sqe, sqtail, cq>> /\ Seen' = Seen
        /\ SubmitEntries({sqe'[i % Entries] : i \in Ring}, cqhead)
    BY <1>6 DEF SubmitAll, Seen, Ring, Unsubmitted, cqVars
  <2> QED
    BY <2>1, SubmitRingAsIs
<1>7. CASE Retry(c)
  <2>1. UNCHANGED <<sqhead, inflight, cq>> /\ Seen' = Seen
    BY <1>7 DEF Retry, Seen, cqVars
  <2>2. CASE HasRoom(sqhead)
    <3>1. TakeSlot(c) /\ sqtail - sqhead < Entries
      BY <1>7, <2>2 DEF Retry, HasRoom
    <3> QED
      BY <2>1, <3>1, TakeSlotTokens
  <2>3. CASE ~HasRoom(sqhead)
    BY <1>7, <2>1, <2>3, FrameTokens DEF Retry, sqVars
  <2> QED
    BY <2>2, <2>3
<1>3. CASE Await(c)
  <2>1. /\ UNCHANGED <<sqtail, cq>> /\ Seen' = Seen /\ sqe' = WithData(c) /\ client[c].pc = "prepared"
        /\ SubmitEntries({sqe'[i % Entries] : i \in Ring}, cqhead)
    BY <1>3 DEF Await, Seen, Ring, cqVars
  <2>2. client'[c].pc = "suspended" /\ client'[c].n = client[c].n
    <3>1. client' = [client EXCEPT ![c] = [client[c] EXCEPT !.pc = "suspended", !.slot = 0]] /\ client[c] \in ClientState
      BY <1>3 DEF Await, TypeOK
    <3>2. /\ [client[c] EXCEPT !.pc = "suspended", !.slot = 0].pc = "suspended"
          /\ [client[c] EXCEPT !.pc = "suspended", !.slot = 0].n = client[c].n
      BY <3>1 DEF ClientState
    <3> QED
      BY <3>1, <3>2 DEF TypeOK
  <2>3. \A o \in Operations : o = Operation(c) => Pending(o)'
    BY <2>2 DEF Pending, Awaiting, Operation
  <2> QED
    BY <2>1, <2>3, WithDataTyped, WithDataTokens, SubmitRing
<1>4. CASE SetResolver(c)
  <2>1. /\ UNCHANGED <<sqhead, sqtail, inflight, cq>> /\ Seen' = Seen /\ sqe' = WithData(c)
        /\ \A o \in Operations : o = Operation(c) => Pending(o)'
    BY <1>4 DEF SetResolver, Seen, Pending, cqVars
  <2>2. \A i \in Ring : sqe'[i % Entries].op = InRing(i).op
    BY <2>1, WithDataTokens
  <2>3. \A i \in Ring : \A o \in Operations : InRing(i).op = o /\ sqe'[i % Entries].data = o => Pending(o)'
    BY <2>1, WithDataTokens
  <2>4. Ring' = Ring /\ Unseen' = Unseen /\ \A i : InRing(i)' = sqe'[i % Entries]
    BY <2>1 DEF Ring, Unseen, InRing
  <2>5. RingInv'
    <3>1. SUFFICES ASSUME NEW i \in Ring, NEW o, o = InRing(i).op
                   PROVE  /\ Begun(o)' /\ (sqe'[i % Entries].data = o => Pending(o)')
                          /\ \A j \in Ring : o = InRing(j).op => i = j
                          /\ \A e \in inflight : e.op # o
                          /\ \A k \in Unseen : cq[k] # o
      BY <2>1, <2>2, <2>4 DEF RingInv
    <3>2. o \in Operations /\ Begun(o)
      BY <3>1 DEF TokenInv, RingInv, Begun
    <3> QED
      BY <2>3, <3>1, <3>2 DEF TokenInv, RingInv, BegunStays
  <2>6. KernelInv'
    BY <2>1, <2>4 DEF TokenInv, KernelInv, BegunStays, PendingStays, Begun
  <2>7. UnseenInv'
    BY <2>1, <2>4 DEF TokenInv, UnseenInv, BegunStays, PendingStays, Begun
  <2> QED
    BY <2>5, <2>6, <2>7 DEF TokenInv
<1>5. CASE End(c) \/ MoveElsewhere(c)
  BY <1>5, FrameTokens DEF End, MoveElsewhere, Seen, cqVars
<1> QED
  BY <1>1, <1>2, <1>3, <1>4, <1>5, <1>6, <1>7 DEF Proceed, GetSqe

LEMMA TokenStep ==
  ASSUME Inv, ~early, ~early', ~overlapped, ~overlapped', [Next]_vars
  PROVE  TokenInv' /\ run'.pc # "crashed"
<1> USE DEF Inv
<1>1. BegunStays
  BY BegunStep
<1>2. CASE Visit
  BY <1>1, <1>2, VisitTokens
<1>4. \A pc : Goto(pc) => run'.head = run.head
  BY DEF Goto, TypeOK, RunState
<1>3. CASE ~Visit
  <2>1. PendingStays
    BY <1>3, PendingStep
  <2>2. run'.pc # "crashed"
    <3>1. ASSUME NEW pc, Goto(pc) PROVE run'.pc = pc
      BY <3>1 DEF TypeOK, RunState, Goto
    <3>2. CASE Service
      <4>1. CASE Return \/ Check \/ SubmitAndWait \/ EndLoop \/ ResetAfterLoop
        BY <3>1, <4>1 DEF Return, Check, SubmitAndWait, EndLoop, ResetAfterLoop
      <4>2. CASE BeginLoop \/ ReadCount
        BY <4>2 DEF BeginLoop, ReadCount, TypeOK, RunState
      <4>3. ~Overrun
        BY DEF Overrun, AccountInv, Seen, TypeOK, RunState
      <4> QED
        BY <1>3, <3>2, <4>1, <4>2, <4>3 DEF Service
    <3>3. CASE UNCHANGED run
      BY <3>3
    <3> QED
      BY <3>2, <3>3 DEF Next, Proceed, GetSqe, Prepare, PrepareWhenFull, Advance, ResetCount, SubmitAll, Retry, Await,
         SetResolver, End, MoveElsewhere, Complete, Terminating, vars
  <2> SUFFICES TokenInv'
    BY <2>2
  <2>3. CASE SubmitAndWait
    <3>1. /\ UNCHANGED <<sqe, sqtail, cq>> /\ Seen' = Seen
          /\ SubmitEntries({sqe'[i % Entries] : i \in Ring}, cqhead)
      BY <1>4, <2>3 DEF SubmitAndWait, Seen, Ring, Unsubmitted, cqVars
    <3> QED
      BY <1>1, <2>1, <3>1, SubmitRingAsIs
  <2>4. ASSUME NEW e \in inflight, Complete(e) PROVE TokenInv'
    BY <1>1, <2>1, <2>4, CompleteTokens
  <2>5. ASSUME NEW c \in Clients, Proceed(c) \/ MoveElsewhere(c) PROVE TokenInv'
    BY <1>1, <2>1, <2>5, ClientTokens
  <2>6. CASE Return \/ Check \/ ReadCount \/ EndLoop \/ ResetAfterLoop \/ Overrun \/ UNCHANGED vars
    <3>1. Seen' = Seen
      BY <1>4, <2>6 DEF Return, Check, ReadCount, EndLoop, ResetAfterLoop, Overrun, vars, Seen, TypeOK, RunState
    <3>2. UNCHANGED <<sqVars, inflight, cq>>
      BY <2>6 DEF Return, Check, ReadCount, EndLoop, ResetAfterLoop, Overrun, vars, cqVars
    <3> QED
      BY <1>1, <2>1, <3>1, <3>2, FrameTokens
  <2>7. CASE BeginLoop
    <3>1. cqhead = Seen
      <4>1. m_cqe_count = 0 /\ NotGivenBack = 0
        BY <2>7 DEF BeginLoop, AccountInv, NotGivenBack
      <4> QED
        BY <4>1 DEF AccountInv, TypeOK
    <3>2. UNCHANGED <<sqVars, inflight, cq>> /\ Seen' = Seen
      BY <2>7, <3>1 DEF BeginLoop, Seen, TypeOK, RunState, cqVars
    <3> QED
      BY <1>1, <2>1, <3>2, FrameTokens
  <2> QED
    BY <1>3, <2>3, <2>4, <2>5, <2>6, <2>7 DEF Next, Service, Terminating
<1> QED
  BY <1>2, <1>3

LEMMA BooleanGhosts ==
  ASSUME Inv
  PROVE  /\ early \in BOOLEAN /\ overlapped \in BOOLEAN
         /\ RunWrites \in BOOLEAN /\ (Writers # {}) \in BOOLEAN
BY DEF Inv, TypeOK, RunWrites

LEMMA InvStep == Inv /\ [Next]_vars => Inv'
<1> SUFFICES ASSUME Inv, [Next]_vars PROVE Inv'
  OBVIOUS
<1>1. TypeOK' /\ PreparedInv'
  BY Typed DEF Inv
<1>2. AccountInv' /\ DataInv'
  BY AccountStep, DataStep DEF Inv
<1>3. (early => early') /\ (overlapped => overlapped')
  <2>1. CASE Visit
    BY <2>1, Zenon DEF Visit
  <2>2. CASE Service /\ ~Visit
    BY <2>2, BooleanGhosts DEF Service, Return, Check, SubmitAndWait, BeginLoop, ReadCount, Overrun, EndLoop,
       ResetAfterLoop, SubmitEntries, cqVars
  <2>3. ASSUME NEW c \in Clients, Proceed(c) \/ MoveElsewhere(c)
        PROVE  (early => early') /\ (overlapped => overlapped')
    BY <2>3, BooleanGhosts DEF Proceed, GetSqe, Prepare, PrepareWhenFull, Advance, ResetCount, SubmitAll, Retry,
       Await, SetResolver, End, MoveElsewhere, SubmitEntries, cqVars
  <2> QED
    BY <2>1, <2>2, <2>3 DEF Next, Complete, Terminating, vars, cqVars
<1> QED
  BY <1>1, <1>2, <1>3, TokenStep DEF Inv

-----------------------------------------------------------------------------
(* Theorems *)

\* Throughout, as long as no two threads overlapped at m_cqe_count, what the loop
\* has seen is given back or counted; and while no entry was submitted early
\* either, each operation is in one place and has one resolver.
THEOREM ServiceInvariant == Spec => []Inv
BY InitInv, InvStep, PTL DEF Spec

\* service.hpp:80-81: the completions given back while the loop is among them,
\* also by a client on another thread, are not given back again at its end, and
\* none is passed over, as long as no two threads are between reading m_cqe_count
\* and writing it (service.hpp:80-81, 98, 103-104) at once.
THEOREM Accounted == Spec => []CompletionsAccounted
<1>1. Inv => CompletionsAccounted
  BY DEF Inv, AccountInv, Seen, CompletionsAccounted
<1> QED
  BY <1>1, ServiceInvariant, PTL

\* resolve() finds the resolver that the completion is for, and nobody has
\* called it before, as long as no entry was submitted before its user_data
\* was set, and no two threads were between reading and writing m_cqe_count.
THEOREM Resolves == Spec => []ResolvesAwaited
<1>1. Inv => ResolvesAwaited
  BY DEF Inv, ResolvesAwaited
<1> QED
  BY <1>1, ServiceInvariant, PTL

-----------------------------------------------------------------------------
(* Looper: the inductive invariant *)

LooperSteps == {"lock", "check", "next", "resume", "relock", "asleep", "done"}
Places == {"outside", "queued", "worker", "destroyed", "dropped"}

LooperTypeOK ==
  /\ m_tasks \in Seq(Coroutines)
  /\ m_stop \in BOOLEAN
  /\ rpc \in LooperSteps
  /\ submits \in [Coroutines -> Nat]
  /\ at \in [Coroutines -> Places]
  /\ accepted \in Seq(Coroutines) /\ resumed \in Seq(Coroutines) /\ destroyed \in Seq(Coroutines)

\* stop() empties the queue, and nobody fills it again.
StopInv == IF m_stop THEN m_tasks = << >> ELSE destroyed = << >>

\* A coroutine waits in the queue once, and nothing else runs it meanwhile.
QueuedOnce ==
  /\ \A i \in 1..Len(m_tasks) : at[m_tasks[i]] = "queued"
  /\ \A i, j \in 1..Len(m_tasks) : m_tasks[i] = m_tasks[j] => i = j
  /\ \A h \in Coroutines : at[h] = "queued" => \E i \in 1..Len(m_tasks) : m_tasks[i] = h

\* The worker runs one coroutine at a time, and none while it looks for one.
OneRuns ==
  /\ \A h \in Coroutines : at[h] = "worker" => rpc = "resume"
  /\ \A g, h \in Coroutines : at[g] = "worker" /\ at[h] = "worker" => g = h

LooperInv == LooperTypeOK /\ StopInv /\ ServedInOrder /\ QueuedOnce /\ OneRuns

-----------------------------------------------------------------------------
(* Looper: the steps *)

LEMMA LooperInitInv == LooperInit => LooperInv
<1> SUFFICES ASSUME LooperInit PROVE LooperInv
  OBVIOUS
<1> USE DEF LooperInit
<1>1. << >> \in Seq(Coroutines) /\ Len(<< >>) = 0
  BY EmptySeq
<1>2. LooperTypeOK
  BY <1>1 DEF LooperTypeOK, LooperSteps, Places
<1>3. ServedInOrder
  BY <1>1, ConcatEmptySeq DEF ServedInOrder
<1> QED
  BY <1>1, <1>2, <1>3 DEF LooperInv, StopInv, QueuedOnce, OneRuns

\* The steps of the worker that touch neither the queue nor a coroutine.
LEMMA LooperFrame ==
  ASSUME LooperInv, UNCHANGED <<m_tasks, m_stop, submits, at, history>>,
         rpc = "resume" => rpc' = "resume", rpc' \in LooperSteps
  PROVE  LooperInv'
BY DEF LooperInv, LooperTypeOK, StopInv, ServedInOrder, QueuedOnce, OneRuns, history

LEMMA LooperSubmit ==
  ASSUME LooperInv, NEW h \in Coroutines, Submit(h)
  PROVE  LooperInv'
<1> USE DEF LooperInv, LooperTypeOK, Submit
<1>1. submits' \in [Coroutines -> Nat]
  OBVIOUS
<1>2. CASE Refused
  <2>1. at' = [at EXCEPT ![h] = "dropped"] /\ at[h] # "queued"
        /\ UNCHANGED <<m_tasks, m_stop, rpc, accepted, resumed, destroyed>>
    BY <1>2
  <2>2. LooperTypeOK'
    BY <1>1, <2>1 DEF Places
  <2>3. \A g \in Coroutines : at'[g] = IF g = h THEN "dropped" ELSE at[g]
    BY <2>1
  <2>4. \A i \in 1..Len(m_tasks) : m_tasks[i] \in Coroutines
    BY ElementOfSeq
  <2>5. QueuedOnce'
    BY <2>1, <2>3, <2>4 DEF QueuedOnce
  <2>6. OneRuns'
    BY <2>1, <2>3 DEF OneRuns
  <2> QED
    BY <2>1, <2>2, <2>5, <2>6 DEF StopInv, ServedInOrder
<1>3. CASE ~Refused
  <2>1. /\ ~m_stop /\ m_tasks' = Append(m_tasks, h) /\ accepted' = Append(accepted, h)
        /\ at' = [at EXCEPT ![h] = "queued"] /\ at[h] # "queued"
        /\ rpc' = Notify
        /\ UNCHANGED <<m_stop, resumed, destroyed>>
    BY <1>3 DEF Refused, Pushed
  <2>2. LooperTypeOK'
    BY <1>1, <2>1, AppendProperties DEF Places, LooperSteps, Notify
  <2>3. \A g \in Coroutines : at'[g] = IF g = h THEN "queued" ELSE at[g]
    BY <2>1
  <2>4. \A i \in 1..Len(m_tasks) : m_tasks[i] \in Coroutines /\ m_tasks[i] # h
    BY <2>1, ElementOfSeq DEF QueuedOnce
  <2>5. /\ Len(m_tasks) \in Nat /\ Len(m_tasks') = Len(m_tasks) + 1
        /\ \A i \in 1..Len(m_tasks) : m_tasks'[i] = m_tasks[i]
        /\ m_tasks'[Len(m_tasks) + 1] = h
    BY <2>1, AppendProperties, LenProperties
  <2>6. QueuedOnce'
    <3>0. QueuedOnce
      OBVIOUS
    <3> HIDE DEF LooperInv, LooperTypeOK, Submit
    <3>1. \A i \in 1..Len(m_tasks') : i \in 1..Len(m_tasks) \/ i = Len(m_tasks) + 1
      BY <2>5
    <3>2. \A i \in 1..Len(m_tasks') : at'[m_tasks'[i]] = "queued"
      BY <2>3, <2>4, <2>5, <3>0, <3>1 DEF QueuedOnce
    <3>3. \A i, j \in 1..Len(m_tasks') : m_tasks'[i] = m_tasks'[j] => i = j
      BY <2>4, <2>5, <3>0, <3>1 DEF QueuedOnce
    <3>4. \A g \in Coroutines : at'[g] = "queued" => \E i \in 1..Len(m_tasks') : m_tasks'[i] = g
      <4>1. Len(m_tasks) + 1 \in 1..Len(m_tasks') /\ 1..Len(m_tasks) \subseteq 1..Len(m_tasks')
        BY <2>5
      <4> QED
        BY <2>3, <2>5, <3>0, <4>1 DEF QueuedOnce
    <3> QED
      BY <3>2, <3>3, <3>4 DEF QueuedOnce
  <2>7. OneRuns'
    BY <2>1, <2>3 DEF OneRuns, Notify
  <2>8. ServedInOrder'
    <3>1. resumed \o destroyed \in Seq(Coroutines) /\ m_tasks \in Seq(Coroutines) /\ <<h>> \in Seq(Coroutines)
      BY ConcatProperties
    <3> HIDE DEF LooperTypeOK, Submit
    <3>2. (resumed \o destroyed) \o (m_tasks \o <<h>>) = ((resumed \o destroyed) \o m_tasks) \o <<h>>
      BY <3>1, ConcatAssociative
    <3> USE DEF LooperTypeOK
    <3>3. m_tasks' = m_tasks \o <<h>> /\ accepted' = accepted \o <<h>>
      BY <2>1, AppendIsConcat
    <3> QED
      BY <2>1, <3>2, <3>3 DEF ServedInOrder
  <2> QED
    BY <2>1, <2>2, <2>6, <2>7, <2>8 DEF StopInv
<1> QED
  BY <1>2, <1>3

LEMMA LooperStop ==
  ASSUME LooperInv, Stop
  PROVE  LooperInv'
<1> USE DEF LooperInv, LooperTypeOK, Stop
<1>1. << >> \in Seq(Coroutines) /\ Len(<< >>) = 0
  BY EmptySeq
<1>2. destroyed' = m_tasks
  BY ConcatEmptySeq DEF StopInv
<1>3. \A h \in Coroutines : at'[h] = IF at[h] = "queued" THEN "destroyed" ELSE at[h]
  OBVIOUS
<1>4. LooperTypeOK'
  <2>1. at' \in [Coroutines -> Places]
    BY DEF Places
  <2> QED
    BY <1>1, <1>2, <2>1 DEF LooperSteps, Notify
<1>5. ServedInOrder'
  <2>1. destroyed = << >> /\ resumed \o destroyed = resumed
    BY ConcatEmptySeq DEF StopInv
  <2>2. resumed \o m_tasks \in Seq(Coroutines)
    BY ConcatProperties
  <2>3. (resumed \o m_tasks) \o << >> = resumed \o m_tasks
    BY <2>2, ConcatEmptySeq
  <2> QED
    BY <1>2, <2>1, <2>3 DEF ServedInOrder
<1>6. QueuedOnce' /\ OneRuns'
  BY <1>1, <1>3 DEF QueuedOnce, OneRuns, Notify
<1> QED
  BY <1>4, <1>5, <1>6 DEF StopInv

LEMMA LooperResume ==
  ASSUME LooperInv, Resume
  PROVE  LooperInv'
<1> DEFINE h == Head(m_tasks)
<1> USE DEF LooperInv, LooperTypeOK, Resume
<1>1. /\ h \in Coroutines /\ Tail(m_tasks) \in Seq(Coroutines)
      /\ Len(m_tasks) \in Nat \ {0} /\ Len(m_tasks') = Len(m_tasks) - 1
      /\ \A i \in 1..Len(m_tasks') : m_tasks'[i] = m_tasks[i + 1]
      /\ m_tasks[1] = h
  <2>1. Len(m_tasks) \in Nat \ {0}
    BY EmptySeq
  <2>2. m_tasks[1] = h
    OBVIOUS
  <2> QED
    BY <2>1, <2>2, HeadTailProperties
<1>2. ~m_stop /\ destroyed = << >>
  BY DEF StopInv
<1> HIDE DEF h
<1>3. /\ resumed' = Append(resumed, h) /\ at' = [at EXCEPT ![h] = "worker"] /\ rpc' = "resume"
      /\ rpc = "next" /\ UNCHANGED <<m_stop, submits, accepted, destroyed>>
  BY DEF h
<1>4. LooperTypeOK'
  BY <1>1, <1>3, AppendProperties DEF Places, LooperSteps
<1>5. \A g \in Coroutines : at'[g] = IF g = h THEN "worker" ELSE at[g]
  BY <1>1, <1>3
<1>6. QueuedOnce'
  <2>1. \A i \in 1..Len(m_tasks') : i \in Nat /\ i + 1 \in 1..Len(m_tasks) /\ i + 1 # 1
    BY <1>1
  <2>2. \A i \in 1..Len(m_tasks') : m_tasks'[i] \in Coroutines
    BY <1>1, ElementOfSeq
  <2>3. 1 \in 1..Len(m_tasks)
    BY <1>1
  <2>4. \A i \in 1..Len(m_tasks') : m_tasks'[i] # h /\ at[m_tasks'[i]] = "queued"
    BY <1>1, <2>1, <2>3 DEF QueuedOnce
  <2>5. \A i, j \in 1..Len(m_tasks') : m_tasks'[i] = m_tasks'[j] => i = j
    <3> SUFFICES ASSUME NEW i \in 1..Len(m_tasks'), NEW j \in 1..Len(m_tasks'), m_tasks'[i] = m_tasks'[j]
                 PROVE  i = j
      OBVIOUS
    <3>1. i + 1 = j + 1
      BY <1>1, <2>1 DEF QueuedOnce
    <3> QED
      BY <2>1, <3>1
  <2>6. ASSUME NEW g \in Coroutines, at'[g] = "queued" PROVE \E i \in 1..Len(m_tasks') : m_tasks'[i] = g
    <3>1. PICK j \in 1..Len(m_tasks) : m_tasks[j] = g
      BY <1>5, <2>6 DEF QueuedOnce
    <3>2. j # 1
      BY <1>1, <1>5, <2>6, <3>1
    <3>3. j - 1 \in 1..Len(m_tasks') /\ (j - 1) + 1 = j
      BY <1>1, <3>2
    <3> QED
      BY <1>1, <3>1, <3>3
  <2> QED
    BY <1>5, <2>2, <2>4, <2>5, <2>6 DEF QueuedOnce
<1>7. OneRuns'
  BY <1>3, <1>5 DEF OneRuns
<1>8. ServedInOrder'
  <2>1. m_tasks = <<h>> \o m_tasks' /\ <<h>> \in Seq(Coroutines)
    <3>1. <<h>> \in Seq(Coroutines) /\ Len(<<h>>) = 1 /\ <<h>>[1] = h
      BY <1>1
    <3>2. /\ <<h>> \o m_tasks' \in Seq(Coroutines)
          /\ Len(<<h>> \o m_tasks') = Len(m_tasks)
          /\ \A i \in 1..Len(m_tasks) : (<<h>> \o m_tasks')[i] = IF i <= 1 THEN <<h>>[i] ELSE m_tasks'[i - 1]
      <4> HIDE DEF LooperInv, LooperTypeOK, Resume
      <4>1. m_tasks' \in Seq(Coroutines) /\ Len(<<h>>) + Len(m_tasks') = Len(m_tasks)
        BY <1>1, <1>4, <3>1 DEF LooperTypeOK
      <4> QED
        BY <3>1, <4>1, ConcatProperties
    <3>3. \A i \in 1..Len(m_tasks) : (<<h>> \o m_tasks')[i] = m_tasks[i]
      <4> SUFFICES ASSUME NEW i \in 1..Len(m_tasks) PROVE (<<h>> \o m_tasks')[i] = m_tasks[i]
        OBVIOUS
      <4>1. CASE i = 1
        BY <1>1, <3>1, <3>2, <4>1
      <4>2. CASE i # 1
        <5>1. i - 1 \in 1..Len(m_tasks') /\ (i - 1) + 1 = i /\ ~(i <= 1)
          BY <1>1, <4>2
        <5> QED
          BY <1>1, <3>2, <5>1
      <4> QED
        BY <4>1, <4>2
    <3> QED
      BY <3>1, <3>2, <3>3, SeqEqual
  <2>2. resumed' = resumed \o <<h>> /\ resumed \o destroyed = resumed /\ resumed' \o destroyed' = resumed'
    BY <1>1, <1>2, <1>3, <1>4, AppendIsConcat, ConcatEmptySeq
  <2>3. (resumed \o <<h>>) \o m_tasks' = resumed \o (<<h>> \o m_tasks')
    <3>1. resumed \in Seq(Coroutines) /\ m_tasks' \in Seq(Coroutines)
      BY <1>4
    <3> HIDE DEF LooperInv, LooperTypeOK, Resume
    <3> QED
      BY <2>1, <3>1, ConcatAssociative
  <2> QED
    BY <1>3, <2>1, <2>2, <2>3 DEF ServedInOrder
<1> QED
  BY <1>2, <1>3, <1>4, <1>6, <1>7, <1>8 DEF StopInv

LEMMA LooperEndResume ==
  ASSUME LooperInv, EndResume
  PROVE  LooperInv'
<1> USE DEF LooperInv, LooperTypeOK, EndResume
<1>1. \A h \in Coroutines : at'[h] = IF at[h] = "worker" THEN "outside" ELSE at[h]
  OBVIOUS
<1>2. UNCHANGED <<m_tasks, m_stop, submits, accepted, resumed, destroyed>>
  BY DEF history
<1>3. LooperTypeOK'
  <2>1. at' \in [Coroutines -> Places]
    BY DEF Places
  <2> QED
    BY <1>2, <2>1 DEF LooperSteps
<1>4. \A i \in 1..Len(m_tasks) : m_tasks[i] \in Coroutines
  BY ElementOfSeq
<1>5. QueuedOnce' /\ OneRuns'
  BY <1>1, <1>2, <1>4 DEF QueuedOnce, OneRuns
<1> QED
  BY <1>2, <1>3, <1>5 DEF StopInv, ServedInOrder

LEMMA LooperInvStep == LooperInv /\ [LooperNext]_looperVars => LooperInv'
<1> SUFFICES ASSUME LooperInv, [LooperNext]_looperVars PROVE LooperInv'
  OBVIOUS
<1>1. ASSUME NEW h \in Coroutines, Submit(h) PROVE LooperInv'
  BY <1>1, LooperSubmit
<1>2. CASE Lock \/ CheckStop \/ Relock \/ Sleep \/ SpuriousWakeup
  <2>1. UNCHANGED <<m_tasks, m_stop, submits, at, history>> /\ rpc # "resume" /\ rpc' \in LooperSteps
    BY <1>2 DEF Lock, CheckStop, Relock, Sleep, SpuriousWakeup, LooperSteps
  <2> QED
    BY <2>1, LooperFrame
<1>3. CASE UNCHANGED looperVars
  <2>1. UNCHANGED <<m_tasks, m_stop, submits, at, history>> /\ rpc' = rpc
    BY <1>3 DEF looperVars
  <2> QED
    BY <2>1, LooperFrame DEF LooperInv, LooperTypeOK
<1> QED
  BY <1>1, <1>2, <1>3, LooperStop, LooperResume, LooperEndResume DEF LooperNext, Run, WorkerEnded

-----------------------------------------------------------------------------
(* Looper: the theorems *)

\* Throughout, the worker of LooperSchedulerRunner resumes one coroutine at a
\* time, and a coroutine is in the queue at most once and not while it runs:
\* stop() destroys each coroutine once, and none that is being resumed.
THEOREM LooperInvariant == LooperSpec => []LooperInv
BY LooperInitInv, LooperInvStep, PTL DEF LooperSpec

\* What submit() accepts is resumed by run() once, or destroyed by stop() once,
\* or still queued, in the order of submission, whatever the coroutines submit
\* from the worker itself.
THEOREM InServiceOrder == LooperSpec => []ServedInOrder
<1>1. LooperInv => ServedInOrder
  BY DEF LooperInv
<1> QED
  BY <1>1, LooperInvariant, PTL

\* run() resumes nobody after stop(), although its inner loop does not look at
\* m_stop: stop() leaves the queue empty and submit() refuses.
THEOREM NothingAfterStop == LooperSpec => NothingResumedAfterStop
<1>1. LooperInv /\ [LooperNext]_looperVars => [m_stop => resumed' = resumed]_looperVars
  <2> SUFFICES ASSUME LooperInv, LooperNext, m_stop PROVE resumed' = resumed
    OBVIOUS
  <2>1. ~Resume
    BY DEF LooperInv, StopInv, Resume
  <2> QED
    BY <2>1 DEF LooperNext, Submit, Stop, Run, Lock, CheckStop, EndResume, Relock, Sleep, SpuriousWakeup,
       WorkerEnded, looperVars, history
<1> QED
  BY <1>1, LooperInvariant, PTL DEF LooperSpec, NothingResumedAfterStop
==============================================================================
