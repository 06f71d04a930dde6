-------------------------- MODULE AtomicQueueProofs --------------------------
(***************************************************************************)
(* For any producers, consumers and addresses, and whatever addresses the  *)
(* allocator reuses: AtomicQueue touches no deleted node and leaks none,   *)
(* implements FifoQueue, and loses no notification of a lone consumer.     *)
(*                                                                         *)
(* The argument is about `chain`, the nodes in the order of their          *)
(* enqueues: it lists exactly the allocated nodes, and a link is missing   *)
(* only where the producer that has to make it is under way.               *)
(***************************************************************************)
EXTENDS AtomicQueue, SequenceTheorems, TLAPS

USE AtomicQueueAssumption DEF AtomicQueueAssumption

Address == Nodes \cup {Null}

ProducerState ==
  [pc : {"enqueue", "link", "notify", "done"}, node : Address, prev : Address, sent : 0..NLoop]
ConsumerState ==
  [pc : {"idle", "load", "loop", "wait", "asleep", "relock", "reload", "spin", "done"},
   op : Ops, head : Address, tail : Address, next : Address]

TypeOK ==
  /\ m_head \in Address /\ m_tail \in Address
  /\ next \in [Nodes -> Address] /\ value \in [Nodes -> Elements \cup {Null}]
  /\ heap \subseteq Nodes
  /\ prod \in [Producers -> ProducerState] /\ cons \in [Consumers -> ConsumerState]
  /\ life \in {"open", "notify", "stopped", "destroying", "gone"}
  /\ chain \in Seq(Nodes)

\* The chain lists the allocated nodes; m_head and m_tail are its ends, until
\* stop() clears m_tail and ~AtomicQueue deletes the last node.
ChainInv ==
  /\ life = "gone" <=> Len(chain) = 0
  /\ heap = {chain[i] : i \in 1..Len(chain)}
  /\ \A i, j \in 1..Len(chain) : chain[i] = chain[j] => i = j
  /\ life # "gone" => m_head = chain[1]
  /\ m_tail = IF life = "open" THEN chain[Len(chain)] ELSE Null

\* Producer p has node i + 1 to link to node i.
Linking(p, i) ==
  prod[p].pc = "link" /\ prod[p].prev = chain[i] /\ prod[p].node = chain[i + 1]

\* A node points to its successor, or one producer is about to link the two.
LinkInv ==
  /\ \A i \in 1..(Len(chain) - 1) :
       \/ next[chain[i]] = chain[i + 1]
       \/ next[chain[i]] = Null /\ \E p \in Producers : Linking(p, i)
  /\ life # "gone" => next[chain[Len(chain)]] = Null
  /\ \A p \in Producers : prod[p].pc = "link" =>
       \E i \in 1..(Len(chain) - 1) : Linking(p, i) /\ next[chain[i]] = Null
  /\ \A p, q \in Producers :
       prod[p].pc = "link" /\ prod[q].pc = "link" /\ prod[p].prev = prod[q].prev => p = q

\* Every node behind the stub holds an element of its own, no other node does.
ValueInv ==
  /\ \A i \in 2..Len(chain) :
       value[chain[i]] \in Elements /\ value[chain[i]][2] <= prod[value[chain[i]][1]].sent
  /\ \A i, j \in 2..Len(chain) : value[chain[i]] = value[chain[j]] => i = j
  /\ \A n \in Nodes : (\A i \in 2..Len(chain) : chain[i] # n) => value[n] = Null

\* A consumer that is inside a call with the locker knows m_head, and a successor
\* it has loaded is still the right one; the owner destroys an idle queue.
LockInv ==
  /\ \A c \in Consumers : cons[c].pc \in {"load", "loop", "reload", "spin"} =>
       m_mutex = c /\ cons[c].head = m_head /\ cons[c].next \in {Null, next[m_head]}
  /\ life \in {"destroying", "gone"} =>
       /\ \A p \in Producers : prod[p].pc = "done"
       /\ \A c \in Consumers : cons[c].pc \in {"idle", "done"}

Inv == TypeOK /\ ChainInv /\ LinkInv /\ ValueInv /\ LockInv

\* With one consumer: where it sleeps is the stub, and somebody still has to
\* notify it once that is not the last node.
SleepInv ==
  \A c \in Consumers : cons[c].pc \in {"wait", "asleep"} =>
    /\ cons[c].tail = m_head
    /\ cons[c].pc = "asleep" =>
         \/ m_tail = m_head \/ life = "notify"
         \/ \E p \in Producers : prod[p].pc \in {"link", "notify"}

-----------------------------------------------------------------------------
(* How the operations change the chain *)

\* A thread that goes on to its next step.
LEMMA ProducerUpdate ==
  ASSUME NEW r \in ProducerState, NEW s \in {"enqueue", "link", "notify", "done"}
  PROVE  /\ [r EXCEPT !.pc = s] \in ProducerState
         /\ [r EXCEPT !.pc = s, !.node = Null, !.prev = Null] \in ProducerState
<1>1. [r EXCEPT !.pc = s] \in ProducerState
  BY DEF ProducerState
<1>2. [r EXCEPT !.pc = s, !.node = Null, !.prev = Null] \in ProducerState
  BY DEF ProducerState, Address
<1> QED
  BY <1>1, <1>2

LEMMA ConsumerUpdate ==
  ASSUME NEW l \in ConsumerState,
         NEW k \in {"idle", "load", "loop", "wait", "asleep", "relock", "reload", "spin", "done"}
  PROVE  [l EXCEPT !.pc = k] \in ConsumerState /\ [l EXCEPT !.pc = k].pc = k
BY DEF ConsumerState

LEMMA Lengths ==
  ASSUME Inv
  PROVE  /\ Len(chain) \in Nat /\ \A i \in 1..Len(chain) : chain[i] \in Nodes
         /\ life # "gone" => Len(chain) >= 1 /\ m_head = chain[1]
BY LenProperties DEF Inv, TypeOK, ChainInv

\* A successor that has been loaded is the second node.
LEMMA Successor ==
  ASSUME Inv, life # "gone", next[m_head] # Null
  PROVE  Len(chain) >= 2 /\ m_head = chain[1] /\ next[m_head] = chain[2]
<1>1. Len(chain) # 1
  BY Lengths DEF Inv, LinkInv
<1>2. Len(chain) >= 2 /\ 1 \in 1..(Len(chain) - 1) /\ m_head = chain[1]
  BY <1>1, Lengths
<1> QED
  BY <1>2 DEF Inv, LinkInv

LEMMA ChainShrinks ==
  ASSUME Inv, Len(chain) >= 1, chain' = Tail(chain)
  PROVE  /\ chain' \in Seq(Nodes) /\ Len(chain') = Len(chain) - 1
         /\ \A i \in 1..(Len(chain) - 1) : chain'[i] = chain[i + 1]
BY HeadTailProperties, LenProperties, EmptySeq DEF Inv, TypeOK

LEMMA ChainGrows ==
  ASSUME Inv, NEW n \in Nodes, chain' = Append(chain, n)
  PROVE  /\ chain' \in Seq(Nodes) /\ Len(chain') = Len(chain) + 1
         /\ \A i \in 1..Len(chain) : chain'[i] = chain[i]
         /\ chain'[Len(chain) + 1] = n
BY AppendProperties, LenProperties DEF Inv, TypeOK

\* A dequeue, or a round of ~AtomicQueue's loop: the second node is the new stub.
LEMMA UnlinkStep ==
  ASSUME Inv, life # "gone", next[m_head] # Null, NEW got, Unlink(m_head, next[m_head], got),
         UNCHANGED <<m_tail, prod, life>>
  PROVE  /\ m_head' \in Address /\ value' \in [Nodes -> Elements \cup {Null}]
         /\ heap' \subseteq Nodes /\ chain' \in Seq(Nodes)
         /\ ChainInv' /\ LinkInv' /\ ValueInv'
<1>1. /\ Len(chain) >= 2 /\ Len(chain) \in Nat
      /\ m_head = chain[1] /\ m_head' = chain[2]
      /\ heap' = heap \ {chain[1]} /\ value' = [value EXCEPT ![chain[2]] = Null]
      /\ next' = next /\ chain' = Tail(chain)
  BY Successor, Lengths DEF Unlink
<1>2. /\ chain' \in Seq(Nodes) /\ Len(chain') = Len(chain) - 1
      /\ \A i \in 1..(Len(chain) - 1) : chain'[i] = chain[i + 1]
  BY <1>1, ChainShrinks
<1>3. \A i \in 1..Len(chain) : chain[i] \in Nodes
  BY Lengths
<1>4. m_head' \in Address /\ value' \in [Nodes -> Elements \cup {Null}] /\ heap' \subseteq Nodes
  BY <1>1, <1>3 DEF Inv, TypeOK, Address
<1>5. ChainInv'
  <2>1. heap' = {chain'[i] : i \in 1..Len(chain')}
    <3>1. \A i \in 1..Len(chain') : i + 1 \in 1..Len(chain) /\ i + 1 # 1 /\ chain'[i] = chain[i + 1]
      BY <1>1, <1>2
    <3>2. \A i \in 1..Len(chain) : i = 1 \/ (i - 1 \in 1..Len(chain') /\ chain'[i - 1] = chain[i])
      BY <1>1, <1>2
    <3>3. heap' = {chain[i] : i \in 1..Len(chain)} \ {chain[1]}
      BY <1>1 DEF Inv, ChainInv
    <3>4. 1 \in 1..Len(chain) /\ \A i \in 1..Len(chain) : chain[i] = chain[1] => i = 1
      BY <1>1 DEF Inv, ChainInv
    <3>5. \A x : x \in {chain[i] : i \in 1..Len(chain)} \ {chain[1]} => x \in {chain'[i] : i \in 1..Len(chain')}
      BY <3>2
    <3>6. \A x : x \in {chain'[i] : i \in 1..Len(chain')} => x \in {chain[i] : i \in 1..Len(chain)} \ {chain[1]}
      BY <3>1, <3>4
    <3> QED
      BY <3>3, <3>5, <3>6
  <2>2. (\A i, j \in 1..Len(chain) : chain[i] = chain[j] => i = j)'
    BY <1>1, <1>2 DEF Inv, ChainInv
  <2>3. chain'[1] = chain[2] /\ chain'[Len(chain')] = chain[Len(chain)]
    BY <1>1, <1>2
  <2> QED
    BY <1>1, <1>2, <2>1, <2>2, <2>3 DEF Inv, ChainInv
<1>6. LinkInv'
  <2>1. \A p \in Producers, i \in 1..(Len(chain') - 1) : Linking(p, i)' <=> Linking(p, i + 1)
    BY <1>1, <1>2 DEF Linking
  <2>2. \A i \in 1..(Len(chain') - 1) : i + 1 \in 1..(Len(chain) - 1)
    BY <1>1, <1>2
  <2>3. (\A i \in 1..(Len(chain) - 1) :
            \/ next[chain[i]] = chain[i + 1]
            \/ next[chain[i]] = Null /\ \E p \in Producers : Linking(p, i))'
    BY <1>1, <1>2, <2>1, <2>2 DEF Inv, LinkInv
  <2>4. chain'[Len(chain')] = chain[Len(chain)]
    BY <1>1, <1>2
  <2>5. \A p \in Producers : (prod[p].pc = "link")' =>
          \E i \in 1..(Len(chain') - 1) : Linking(p, i)' /\ next'[chain'[i]] = Null
    <3> SUFFICES ASSUME NEW p \in Producers, (prod[p].pc = "link")'
                 PROVE  \E i \in 1..(Len(chain') - 1) : Linking(p, i)' /\ next'[chain'[i]] = Null
      OBVIOUS
    <3>1. PICK i \in 1..(Len(chain) - 1) : Linking(p, i) /\ next[chain[i]] = Null
      BY DEF Inv, LinkInv
    <3>2. i # 1
      BY <1>1, <3>1
    <3>3. i - 1 \in 1..(Len(chain') - 1) /\ chain'[i - 1] = chain[i] /\ i - 1 + 1 = i
      BY <1>1, <1>2, <3>2
    <3>4. Linking(p, i - 1)'
      BY <2>1, <3>1, <3>3
    <3> QED
      BY <1>1, <3>1, <3>3, <3>4
  <2> QED
    BY <1>1, <2>3, <2>4, <2>5 DEF Inv, LinkInv
<1>7. ValueInv'
  <2>1. \A i \in 2..Len(chain') : i + 1 \in 2..Len(chain) /\ chain'[i] = chain[i + 1] /\ chain[i + 1] # chain[2]
    BY <1>1, <1>2 DEF Inv, ChainInv
  <2>2. \A i \in 2..Len(chain') : value'[chain'[i]] = value[chain[i + 1]]
    BY <1>1, <1>3, <2>1 DEF Inv, TypeOK
  <2>3. (\A i \in 2..Len(chain) :
            value[chain[i]] \in Elements /\ value[chain[i]][2] <= prod[value[chain[i]][1]].sent)'
    BY <2>1, <2>2 DEF Inv, ValueInv
  <2>4. (\A i, j \in 2..Len(chain) : value[chain[i]] = value[chain[j]] => i = j)'
    BY <1>1, <1>2, <2>1, <2>2 DEF Inv, ValueInv
  <2>5. ASSUME NEW n \in Nodes, \A i \in 2..Len(chain') : chain'[i] # n
        PROVE  value'[n] = Null
    <3>1. CASE n = chain[2]
      BY <1>1, <1>3, <3>1 DEF Inv, TypeOK
    <3>2. CASE n # chain[2]
      <4>1. \A i \in 2..Len(chain) : i = 2 \/ (i - 1 \in 2..Len(chain') /\ chain'[i - 1] = chain[i])
        BY <1>1, <1>2
      <4>2. \A i \in 2..Len(chain) : chain[i] # n
        BY <2>5, <3>2, <4>1
      <4> QED
        BY <1>1, <3>2, <4>2 DEF Inv, ValueInv, TypeOK
    <3> QED
      BY <3>1, <3>2
  <2> QED
    BY <2>3, <2>4, <2>5 DEF ValueInv
<1> QED
  BY <1>2, <1>4, <1>5, <1>6, <1>7

\* enqueue: the new node goes to the end of the chain, and is yet to be linked.
LEMMA EnqueueStep ==
  ASSUME Inv, NEW p \in Producers, NEW n \in Nodes, Enqueue(p, n)
  PROVE  Inv'
<1>1. /\ prod[p].pc = "enqueue" /\ prod[p].sent \in 0..(NLoop - 1) /\ n \notin heap /\ m_tail # Null
      /\ heap' = heap \cup {n} /\ value' = [value EXCEPT ![n] = <<p, prod[p].sent + 1>>]
      /\ next' = [next EXCEPT ![n] = Null] /\ m_tail' = n /\ chain' = Append(chain, n)
      /\ prod' = [prod EXCEPT ![p] =
                     [pc |-> "link", node |-> n, prev |-> m_tail, sent |-> prod[p].sent + 1]]
      /\ UNCHANGED <<m_head, cons, m_mutex, arr, life>>
  BY DEF Enqueue, MoreToSend, NewNode, Inv, TypeOK, ProducerState
<1>2. /\ life = "open" /\ m_tail = chain[Len(chain)]
      /\ Len(chain) \in Nat /\ Len(chain) >= 1 /\ m_head = chain[1]
  BY <1>1, Lengths DEF Inv, ChainInv
<1>3. /\ chain' \in Seq(Nodes) /\ Len(chain') = Len(chain) + 1
      /\ \A i \in 1..Len(chain) : chain'[i] = chain[i]
      /\ chain'[Len(chain) + 1] = n
  BY <1>1, ChainGrows
<1>4. \A i \in 1..Len(chain) : chain[i] \in Nodes /\ chain[i] # n
  BY <1>1, Lengths DEF Inv, ChainInv
<1>5. TypeOK'
  <2>1. prod' \in [Producers -> ProducerState]
    BY <1>1 DEF Inv, TypeOK, ProducerState, Address
  <2>2. <<p, prod[p].sent + 1>> \in Elements
    BY <1>1 DEF Elements
  <2>3. value' \in [Nodes -> Elements \cup {Null}] /\ next' \in [Nodes -> Address]
    BY <1>1, <2>2 DEF Inv, TypeOK, Address
  <2> QED
    BY <1>1, <1>3, <2>1, <2>3 DEF Inv, TypeOK, Address
<1>6. ChainInv'
  <2>1. heap' = {chain'[i] : i \in 1..Len(chain')}
    <3>1. 1..Len(chain') = 1..Len(chain) \cup {Len(chain) + 1}
      BY <1>2, <1>3
    <3> QED
      BY <1>1, <1>3, <3>1 DEF Inv, ChainInv
  <2>2. (\A i, j \in 1..Len(chain) : chain[i] = chain[j] => i = j)'
    BY <1>2, <1>3, <1>4 DEF Inv, ChainInv
  <2> QED
    BY <1>1, <1>2, <1>3, <2>1, <2>2 DEF ChainInv
<1>7. LinkInv'
  <2> PICK last : last = Len(chain)
    OBVIOUS
  <2>1. \A i \in 1..Len(chain) : next'[chain[i]] = next[chain[i]]
    BY <1>1, <1>4 DEF Inv, TypeOK
  <2>2. \A q \in Producers \ {p} : prod'[q] = prod[q]
    BY <1>1 DEF Inv, TypeOK
  <2>3. /\ prod'[p].pc = "link" /\ prod'[p].prev = chain[Len(chain)] /\ prod'[p].node = n
    BY <1>1, <1>2 DEF Inv, TypeOK
  <2>4. \A q \in Producers \ {p}, i \in 1..(Len(chain) - 1) : Linking(q, i) => Linking(q, i)'
    BY <1>2, <1>3, <2>2 DEF Linking
  <2>5. Linking(p, last)' /\ next'[chain'[last]] = Null
    BY <1>2, <1>3, <2>1, <2>3 DEF Linking, Inv, LinkInv
  <2>6. \A i \in 1..(Len(chain') - 1) :
          \/ next'[chain'[i]] = chain'[i + 1]
          \/ next'[chain'[i]] = Null /\ \E q \in Producers : Linking(q, i)'
    <3> SUFFICES ASSUME NEW i \in 1..(Len(chain') - 1)
                 PROVE  \/ next'[chain'[i]] = chain'[i + 1]
                        \/ next'[chain'[i]] = Null /\ \E q \in Producers : Linking(q, i)'
      OBVIOUS
    <3>1. CASE i = Len(chain)
      BY <2>5, <3>1
    <3>2. CASE i # Len(chain)
      <4>1. i \in 1..(Len(chain) - 1) /\ i \in 1..Len(chain) /\ i + 1 \in 1..Len(chain)
        BY <1>2, <1>3, <3>2
      <4>2. \A q \in Producers : Linking(q, i) => q # p
        BY <1>1 DEF Linking
      <4> QED
        BY <1>3, <2>1, <2>4, <4>1, <4>2 DEF Inv, LinkInv
    <3> QED
      BY <3>1, <3>2
  <2>7. next'[chain'[Len(chain')]] = Null
    BY <1>1, <1>3 DEF Inv, TypeOK
  <2>8. \A q \in Producers : (prod[q].pc = "link")' =>
          \E i \in 1..(Len(chain') - 1) : Linking(q, i)' /\ next'[chain'[i]] = Null
    <3> SUFFICES ASSUME NEW q \in Producers, (prod[q].pc = "link")'
                 PROVE  \E i \in 1..(Len(chain') - 1) : Linking(q, i)' /\ next'[chain'[i]] = Null
      OBVIOUS
    <3>1. CASE q = p
      BY <1>2, <1>3, <2>5, <3>1
    <3>2. CASE q # p
      <4>1. PICK i \in 1..(Len(chain) - 1) : Linking(q, i) /\ next[chain[i]] = Null
        BY <2>2, <3>2 DEF Inv, LinkInv
      <4>2. i \in 1..(Len(chain') - 1) /\ i \in 1..Len(chain)
        BY <1>2, <1>3
      <4> QED
        BY <1>3, <2>1, <2>4, <3>2, <4>1, <4>2
    <3> QED
      BY <3>1, <3>2
  <2>9. \A q \in Producers \ {p} : prod[q].pc = "link" => prod[q].prev # chain[Len(chain)]
    <3> SUFFICES ASSUME NEW q \in Producers \ {p}, prod[q].pc = "link"
                 PROVE  prod[q].prev # chain[Len(chain)]
      OBVIOUS
    <3>1. PICK i \in 1..(Len(chain) - 1) : prod[q].prev = chain[i]
      BY DEF Inv, LinkInv, Linking
    <3> QED
      BY <1>2, <3>1 DEF Inv, ChainInv
  <2> QED
    BY <1>1, <1>2, <2>2, <2>3, <2>6, <2>7, <2>8, <2>9 DEF Inv, LinkInv
<1>8. ValueInv'
  <2>1. \A i \in 2..Len(chain) : i \in 1..Len(chain) /\ value'[chain[i]] = value[chain[i]]
    BY <1>1, <1>4 DEF Inv, TypeOK
  <2>2. value'[n] = <<p, prod[p].sent + 1>> /\ value'[n] \in Elements
    BY <1>1 DEF Inv, TypeOK, Elements
  <2>3. 2..Len(chain') = 2..Len(chain) \cup {Len(chain) + 1}
    BY <1>2, <1>3
  <2>4. \A q \in Producers : prod'[q].sent = IF q = p THEN prod[p].sent + 1 ELSE prod[q].sent
    BY <1>1 DEF Inv, TypeOK
  <2>5. \A i \in 2..Len(chain) :
          /\ value[chain[i]] \in Elements /\ value[chain[i]][1] \in Producers /\ value[chain[i]][2] \in Nat
          /\ value[chain[i]][2] <= prod[value[chain[i]][1]].sent
    BY DEF Inv, ValueInv, Elements
  <2>6. (\A i \in 2..Len(chain) :
            value[chain[i]] \in Elements /\ value[chain[i]][2] <= prod[value[chain[i]][1]].sent)'
    <3> SUFFICES ASSUME NEW i \in 2..Len(chain')
                 PROVE  /\ value'[chain'[i]] \in Elements
                        /\ value'[chain'[i]][2] <= prod'[value'[chain'[i]][1]].sent
      OBVIOUS
    <3>1. CASE i = Len(chain) + 1
      BY <1>1, <1>3, <2>2, <2>4, <3>1
    <3>2. CASE i # Len(chain) + 1
      <4>1. i \in 2..Len(chain) /\ value'[chain'[i]] = value[chain[i]]
        BY <1>3, <2>1, <2>3, <3>2
      <4>2. prod[value[chain[i]][1]].sent \in Nat
        BY <2>5, <4>1 DEF Inv, TypeOK, ProducerState
      <4> QED
        BY <2>4, <2>5, <4>1, <4>2
    <3> QED
      BY <3>1, <3>2
  <2>7. \A i \in 2..Len(chain) : value[chain[i]] # <<p, prod[p].sent + 1>>
    BY <1>1, <2>5
  <2>8. (\A i, j \in 2..Len(chain) : value[chain[i]] = value[chain[j]] => i = j)'
    BY <1>3, <2>1, <2>2, <2>3, <2>7 DEF Inv, ValueInv
  <2>9. ASSUME NEW m \in Nodes, \A i \in 2..Len(chain') : chain'[i] # m
        PROVE  value'[m] = Null
    <3>1. m # n /\ \A i \in 2..Len(chain) : chain[i] # m
      BY <1>2, <1>3, <2>1, <2>3, <2>9
    <3> QED
      BY <1>1, <3>1 DEF Inv, ValueInv, TypeOK
  <2> QED
    BY <2>6, <2>8, <2>9 DEF ValueInv
<1>9. LockInv'
  <2>1. m_head # n
    BY <1>2, <1>4
  <2> QED
    BY <1>1, <1>2, <2>1 DEF Inv, LockInv, TypeOK, Address
<1> QED
  BY <1>5, <1>6, <1>7, <1>8, <1>9 DEF Inv

\* tail->next.store(n): the two nodes are still in the chain, side by side.
LEMMA LinkStep ==
  ASSUME Inv, NEW p \in Producers, Link(p)
  PROVE  Inv'
<1>1. PICK k \in 1..(Len(chain) - 1) : Linking(p, k) /\ next[chain[k]] = Null
  BY DEF Inv, LinkInv, Link
<1>2. /\ prod[p].pc = "link" /\ next' = [next EXCEPT ![chain[k]] = chain[k + 1]]
      /\ prod' = [prod EXCEPT ![p].pc = "notify", ![p].node = Null, ![p].prev = Null]
      /\ UNCHANGED <<m_head, m_tail, value, heap, cons, m_mutex, arr, life, chain>>
  BY <1>1 DEF Link, Linking, Predecessor
<1>3. /\ Len(chain) \in Nat /\ \A i \in 1..Len(chain) : chain[i] \in Nodes
      /\ \A i, j \in 1..Len(chain) : chain[i] = chain[j] => i = j
  BY Lengths DEF Inv, ChainInv
<1>4. k \in 1..Len(chain) /\ k + 1 \in 1..Len(chain) /\ k # Len(chain)
  BY <1>3
<1>5. /\ next'[chain[k]] = chain[k + 1]
      /\ \A i \in 1..Len(chain) : i # k => next'[chain[i]] = next[chain[i]]
  BY <1>2, <1>3, <1>4 DEF Inv, TypeOK
<1>6. \A q \in Producers : prod'[q].sent = prod[q].sent /\ (q # p => prod'[q] = prod[q])
  BY <1>2 DEF Inv, TypeOK
<1>7. prod'[p].pc = "notify"
  BY <1>2 DEF Inv, TypeOK
<1>8. TypeOK'
  <2>1. prod' \in [Producers -> ProducerState]
    <3>1. [prod[p] EXCEPT !.pc = "notify", !.node = Null, !.prev = Null] \in ProducerState
      BY ProducerUpdate DEF Inv, TypeOK
    <3> QED
      BY <1>2, <3>1 DEF Inv, TypeOK
  <2>2. next' \in [Nodes -> Address]
    BY <1>2, <1>3, <1>4 DEF Inv, TypeOK, Address
  <2> QED
    BY <1>2, <2>1, <2>2 DEF Inv, TypeOK
<1>9. ChainInv'
  BY <1>2 DEF Inv, ChainInv
<1>10. LinkInv'
  <2>1. \A q \in Producers, i \in 1..(Len(chain) - 1) : q # p /\ Linking(q, i) => Linking(q, i)'
    BY <1>2, <1>6 DEF Linking
  <2>2. \A q \in Producers, i \in 1..(Len(chain) - 1) : q # p /\ Linking(q, i) => i # k
    BY <1>1, <1>2 DEF Linking, Inv, LinkInv
  <2>3. \A i \in 1..(Len(chain) - 1) : i # k => i \in 1..Len(chain) /\ ~Linking(p, i)
    BY <1>1, <1>3, <1>4 DEF Linking
  <2>4. (\A i \in 1..(Len(chain) - 1) :
            \/ next[chain[i]] = chain[i + 1]
            \/ next[chain[i]] = Null /\ \E q \in Producers : Linking(q, i))'
    <3> SUFFICES ASSUME NEW i \in 1..(Len(chain) - 1)
                 PROVE  \/ next'[chain[i]] = chain[i + 1]
                        \/ next'[chain[i]] = Null /\ \E q \in Producers : Linking(q, i)'
      BY <1>2
    <3>1. CASE i = k
      BY <1>5, <3>1
    <3>2. CASE i # k
      BY <1>5, <2>1, <2>3, <3>2 DEF Inv, LinkInv
    <3> QED
      BY <3>1, <3>2
  <2>5. (life # "gone")' => next'[chain[Len(chain)]] = Null
    BY <1>2, <1>3, <1>4, <1>5 DEF Inv, LinkInv
  <2>6. \A q \in Producers : (prod[q].pc = "link")' =>
          \E i \in 1..(Len(chain) - 1) : Linking(q, i)' /\ next'[chain[i]] = Null
    <3> SUFFICES ASSUME NEW q \in Producers, (prod[q].pc = "link")'
                 PROVE  \E i \in 1..(Len(chain) - 1) : Linking(q, i)' /\ next'[chain[i]] = Null
      OBVIOUS
    <3>1. q # p
      BY <1>7
    <3>2. PICK i \in 1..(Len(chain) - 1) : Linking(q, i) /\ next[chain[i]] = Null
      BY <1>6, <3>1 DEF Inv, LinkInv
    <3>3. i # k /\ i \in 1..Len(chain)
      BY <1>3, <2>2, <3>1, <3>2
    <3> QED
      BY <1>5, <2>1, <3>1, <3>2, <3>3
  <2>7. (\A q, r \in Producers :
            prod[q].pc = "link" /\ prod[r].pc = "link" /\ prod[q].prev = prod[r].prev => q = r)'
    BY <1>6, <1>7 DEF Inv, LinkInv
  <2> QED
    BY <1>2, <2>4, <2>5, <2>6, <2>7 DEF LinkInv
<1>11. ValueInv'
  <2>1. \A i \in 2..Len(chain) : value[chain[i]][1] \in Producers
    BY DEF Inv, ValueInv, Elements
  <2>2. value' = value /\ chain' = chain
    BY <1>2
  <2>3. (\A i \in 2..Len(chain) :
            value[chain[i]] \in Elements /\ value[chain[i]][2] <= prod[value[chain[i]][1]].sent)'
    BY <1>6, <2>1, <2>2 DEF Inv, ValueInv
  <2> QED
    BY <2>2, <2>3 DEF Inv, ValueInv
<1>12. LockInv'
  <2>1. life \notin {"destroying", "gone"} /\ m_head = chain[1] /\ 1 \in 1..Len(chain)
    BY <1>2, <1>4, Lengths DEF Inv, LockInv, ChainInv
  <2>2. next[m_head] # Null => next'[m_head] = next[m_head]
    BY <1>1, <1>5, <2>1
  <2> QED
    BY <1>2, <2>1, <2>2 DEF Inv, LockInv
<1> QED
  BY <1>8, <1>9, <1>10, <1>11, <1>12 DEF Inv

\* A notification lets sleepers compare again.
LEMMA WakeStep ==
  ASSUME TypeOK, NEW C \in SUBSET Asleep, Wake(C)
  PROVE  /\ cons' \in [Consumers -> ConsumerState]
         /\ \A c \in Consumers :
              IF c \in C THEN cons[c].pc = "asleep" /\ cons'[c] = [cons[c] EXCEPT !.pc = "wait"]
                                /\ cons'[c].pc = "wait"
                         ELSE cons'[c] = cons[c]
<1>1. ASSUME NEW c \in Consumers
      PROVE  [cons[c] EXCEPT !.pc = "wait"] \in ConsumerState /\ [cons[c] EXCEPT !.pc = "wait"].pc = "wait"
  BY ConsumerUpdate DEF TypeOK
<1> QED
  BY <1>1 DEF TypeOK, Wake, Asleep

\* A producer that is not about to link goes on, and may notify.
LEMMA ProducerStep ==
  ASSUME Inv, NEW p \in Producers, prod[p].pc # "link",
         NEW s \in {"enqueue", "done"}, prod' = [prod EXCEPT ![p].pc = s],
         UNCHANGED <<memory, m_tail, m_mutex, life>>, life \notin {"destroying", "gone"},
         UNCHANGED cons \/ \E C \in NotifyOne : Wake(C)
  PROVE  Inv'
<1>1. UNCHANGED <<m_head, next, value, heap, chain, m_tail, life, m_mutex>>
  BY DEF memory
<1>2. \A q \in Producers : /\ prod'[q].pc # "link" <=> prod[q].pc # "link"
                           /\ prod'[q].sent = prod[q].sent
                           /\ prod[q].pc = "link" => prod'[q] = prod[q]
  BY DEF Inv, TypeOK
<1>3. /\ cons' \in [Consumers -> ConsumerState]
      /\ \A c \in Consumers : cons'[c] = cons[c] \/ cons'[c].pc = "wait"
  <2>1. CASE UNCHANGED cons
    BY <2>1 DEF Inv, TypeOK
  <2>2. CASE \E C \in NotifyOne : Wake(C)
    <3>1. PICK C \in NotifyOne : Wake(C)
      BY <2>2
    <3>2. C \subseteq Asleep
      BY <3>1 DEF NotifyOne
    <3> QED
      BY <3>1, <3>2, WakeStep DEF Inv
  <2> QED
    BY <2>1, <2>2
<1>4. TypeOK'
  <2>1. prod' \in [Producers -> ProducerState]
    <3>1. [prod[p] EXCEPT !.pc = s] \in ProducerState
      BY ProducerUpdate DEF Inv, TypeOK
    <3> QED
      BY <3>1 DEF Inv, TypeOK
  <2> QED
    BY <1>1, <1>3, <2>1 DEF Inv, TypeOK
<1>5. ChainInv'
  BY <1>1 DEF Inv, ChainInv
<1>6. LinkInv'
  <2>1. \A q \in Producers, i \in 1..(Len(chain) - 1) : Linking(q, i)' <=> Linking(q, i)
    BY <1>1, <1>2 DEF Linking
  <2> QED
    BY <1>1, <1>2, <2>1 DEF Inv, LinkInv
<1>7. ValueInv'
  <2>1. \A i \in 2..Len(chain) : value[chain[i]][1] \in Producers
    BY DEF Inv, ValueInv, Elements
  <2> QED
    BY <1>1, <1>2, <2>1 DEF Inv, ValueInv
<1>8. LockInv'
  <2>1. (\A c \in Consumers : cons[c].pc \in {"load", "loop", "reload", "spin"} =>
            m_mutex = c /\ cons[c].head = m_head /\ cons[c].next \in {Null, next[m_head]})'
    BY <1>1, <1>3 DEF Inv, LockInv
  <2> QED
    BY <1>1, <2>1 DEF Inv, LockInv
<1> QED
  BY <1>4, <1>5, <1>6, <1>7, <1>8 DEF Inv

\* One consumer goes to another step of its call, or makes the next one.
LEMMA CallStep ==
  ASSUME TypeOK, NEW c \in Consumers, NEW l \in ConsumerState, cons' = [cons EXCEPT ![c] = l]
  PROVE  /\ cons' \in [Consumers -> ConsumerState] /\ cons'[c] = l
         /\ \A d \in Consumers \ {c} : cons'[d] = cons[d]
BY DEF TypeOK

LEMMA GotoStep ==
  ASSUME TypeOK, NEW c \in Consumers,
         NEW s \in {"idle", "load", "loop", "wait", "asleep", "relock", "reload", "spin", "done"},
         NEW h \in Address, NEW t \in Address, NEW n \in Address, Goto(c, s, h, t, n)
  PROVE  \E l \in ConsumerState :
           /\ cons' = [cons EXCEPT ![c] = l]
           /\ l.pc = s /\ l.head = h /\ l.tail = t /\ l.next = n /\ l.op = cons[c].op
<1> DEFINE l == [pc |-> s, op |-> cons[c].op, head |-> h, tail |-> t, next |-> n]
<1>1. l \in ConsumerState
  BY DEF TypeOK, ConsumerState
<1>2. cons' = [cons EXCEPT ![c] = l]
  BY DEF Goto
<1> QED
  BY <1>1, <1>2

LEMMA ReturnStep ==
  ASSUME NEW c \in Consumers, Return(c)
  PROVE  \E l \in ConsumerState : cons' = [cons EXCEPT ![c] = l] /\ l.pc = "idle"
<1>1. PICK o \in Ops : cons' = [cons EXCEPT ![c] = Idle(o)]
  BY DEF Return
<1>2. Idle(o) \in ConsumerState /\ Idle(o).pc = "idle"
  BY DEF Idle, ConsumerState, Address
<1> QED
  BY <1>1, <1>2

\* A step of consumer c from one state of its call to another.
To(c, l) == cons' = [cons EXCEPT ![c] = l]

\* What the steps of a consumer do to its own call and to the queue.
LEMMA ConsumerEffect ==
  ASSUME Inv, NEW c \in Consumers, Consume(c) \/ TimeOut(c)
  PROVE  \E l \in ConsumerState :
           /\ To(c, l) /\ UNCHANGED <<m_tail, prod, life>> /\ life \notin {"destroying", "gone"}
           /\ \/ \* a dequeue
                 /\ next[m_head] # Null /\ Unlink(m_head, next[m_head], {value[next[m_head]]})
                 /\ l.pc = "idle" /\ m_mutex \in {Null, c}
              \/ \* out of the locker, or inside as before
                 /\ UNCHANGED memory
                 /\ \/ l.pc \in {"idle", "done", "wait", "asleep", "relock"}
                    \/ /\ l.pc \in {"load", "loop", "reload", "spin"} /\ m_mutex' = c
                       /\ l.head = m_head /\ l.next \in {Null, next[m_head]}
                 /\ m_mutex' = m_mutex \/ m_mutex \in {Null, c}
           /\ l.pc = "wait" => l.tail = m_head
           /\ l.pc = "asleep" => cons[c].pc = "wait" /\ l.tail = cons[c].tail /\ l.tail = m_tail
<1> DEFINE Effect(l) ==
      /\ To(c, l) /\ UNCHANGED <<m_tail, prod, life>> /\ life \notin {"destroying", "gone"}
      /\ \/ /\ next[m_head] # Null /\ Unlink(m_head, next[m_head], {value[next[m_head]]})
            /\ l.pc = "idle" /\ m_mutex \in {Null, c}
         \/ /\ UNCHANGED memory
            /\ \/ l.pc \in {"idle", "done", "wait", "asleep", "relock"}
               \/ /\ l.pc \in {"load", "loop", "reload", "spin"} /\ m_mutex' = c
                  /\ l.head = m_head /\ l.next \in {Null, next[m_head]}
            /\ m_mutex' = m_mutex \/ m_mutex \in {Null, c}
      /\ l.pc = "wait" => l.tail = m_head
      /\ l.pc = "asleep" => cons[c].pc = "wait" /\ l.tail = cons[c].tail /\ l.tail = m_tail
<1>0. /\ cons[c] \in ConsumerState /\ m_head \in Address /\ m_tail \in Address /\ Null \in Address
      /\ cons[c].head \in Address /\ cons[c].tail \in Address /\ cons[c].next \in Address
  BY DEF Inv, TypeOK, ConsumerState, Address
<1>1. life \in {"destroying", "gone"} => cons[c].pc \in {"idle", "done"}
  BY DEF Inv, LockInv
<1>2. cons[c].pc \in {"load", "loop", "reload", "spin"} =>
        m_mutex = c /\ cons[c].head = m_head /\ cons[c].next \in {Null, next[m_head]}
  BY DEF Inv, LockInv
<1>3. life # "gone" => next[m_head] \in Address
  BY Lengths DEF Inv, TypeOK
<1>4. CASE TryDequeue(c)
  BY <1>4, ReturnStep DEF TryDequeue, CallsAllowed, LockFree, To
<1>5. CASE BeginWait(c)
  <2>1. PICK l \in ConsumerState : To(c, l) /\ l.pc = "load" /\ l.head = m_head /\ l.next = Null
    BY <1>0, <1>5, GotoStep DEF BeginWait, To, Inv
  <2> QED
    BY <1>5, <2>1 DEF BeginWait, CallsAllowed, LockFree
<1>6. CASE LoadNext(c)
  <2>1. PICK l \in ConsumerState :
          To(c, l) /\ l.pc = "loop" /\ l.head = cons[c].head /\ l.next = next[cons[c].head]
    BY <1>0, <1>1, <1>2, <1>3, <1>6, GotoStep DEF LoadNext, To, Inv
  <2> QED
    BY <1>1, <1>2, <1>6, <2>1 DEF LoadNext
<1>7. CASE Pop(c)
  BY <1>1, <1>2, <1>7, ReturnStep DEF Pop, To
<1>8. CASE Loop(c)
  <2>1. CASE cons[c].tail = Null /\ Goto(c, "done", Null, Null, Null)
    BY <1>0, <1>1, <1>2, <1>8, <2>1, GotoStep DEF Loop, To, Inv
  <2>2. CASE cons[c].tail = cons[c].head /\ Goto(c, "wait", cons[c].head, cons[c].tail, Null)
    BY <1>0, <1>1, <1>2, <1>8, <2>2, GotoStep DEF Loop, To, Inv
  <2>3. CASE Goto(c, "spin", cons[c].head, cons[c].tail, Null) /\ UNCHANGED m_mutex
    BY <1>0, <1>1, <1>2, <1>8, <2>3, GotoStep DEF Loop, To, Inv
  <2> QED
    BY <1>8, <2>1, <2>2, <2>3 DEF Loop
<1>9. CASE Spin(c)
  BY <1>0, <1>1, <1>2, <1>9, GotoStep DEF Spin, To, Inv
<1>10. CASE Wait(c)
  <2>1. PICK s \in {"asleep", "relock"} :
          cons' = [cons EXCEPT ![c].pc = s] /\ (s = "asleep" => m_tail = cons[c].tail)
    BY <1>10 DEF Wait, Blocks
  <2> DEFINE l == [cons[c] EXCEPT !.pc = s]
  <2>2. l \in ConsumerState /\ l.pc = s /\ l.tail = cons[c].tail /\ To(c, l)
    BY <1>0, <2>1 DEF To, ConsumerState
  <2> QED
    BY <1>1, <1>10, <2>1, <2>2 DEF Wait
<1>11. CASE TimeOut(c)
  BY <1>1, <1>11, ReturnStep DEF TimeOut, To
<1>12. CASE Recheck(c)
  <2>1. PICK l \in ConsumerState : To(c, l) /\ l.pc = "reload" /\ l.head = m_head /\ l.next = next[m_head]
    BY <1>0, <1>1, <1>3, <1>12, GotoStep DEF Recheck, To, Inv
  <2> QED
    BY <1>1, <1>12, <2>1 DEF Recheck, LockFree
<1>13. CASE ReloadTail(c)
  <2>1. PICK l \in ConsumerState :
          To(c, l) /\ l.pc = "loop" /\ l.head = cons[c].head /\ l.next = cons[c].next
    BY <1>0, <1>13, GotoStep DEF ReloadTail, To, Inv
  <2> QED
    BY <1>1, <1>2, <1>13, <2>1 DEF ReloadTail
<1> QED
  BY <1>4, <1>5, <1>6, <1>7, <1>8, <1>9, <1>10, <1>11, <1>12, <1>13 DEF Consume

LEMMA ConsumerStep ==
  ASSUME Inv, NEW c \in Consumers, Consume(c) \/ TimeOut(c)
  PROVE  Inv'
<1>1. PICK l \in ConsumerState :
        /\ To(c, l) /\ UNCHANGED <<m_tail, prod, life>> /\ life \notin {"destroying", "gone"}
        /\ \/ /\ next[m_head] # Null /\ Unlink(m_head, next[m_head], {value[next[m_head]]})
              /\ l.pc = "idle" /\ m_mutex \in {Null, c}
           \/ /\ UNCHANGED memory
              /\ \/ l.pc \in {"idle", "done", "wait", "asleep", "relock"}
                 \/ /\ l.pc \in {"load", "loop", "reload", "spin"} /\ m_mutex' = c
                    /\ l.head = m_head /\ l.next \in {Null, next[m_head]}
              /\ m_mutex' = m_mutex \/ m_mutex \in {Null, c}
  BY ConsumerEffect
<1>2. /\ cons' \in [Consumers -> ConsumerState] /\ cons'[c] = l
      /\ \A d \in Consumers \ {c} : cons'[d] = cons[d]
  BY <1>1, CallStep DEF To, Inv
<1>3. \A d \in Consumers : cons[d].pc \in {"load", "loop", "reload", "spin"} =>
        m_mutex = d /\ cons[d].head = m_head /\ cons[d].next \in {Null, next[m_head]}
  BY DEF Inv, LockInv
<1>4. CASE next[m_head] # Null /\ Unlink(m_head, next[m_head], {value[next[m_head]]})
           /\ l.pc = "idle" /\ m_mutex \in {Null, c}
  <2>1. /\ m_head' \in Address /\ value' \in [Nodes -> Elements \cup {Null}]
        /\ heap' \subseteq Nodes /\ chain' \in Seq(Nodes)
        /\ ChainInv' /\ LinkInv' /\ ValueInv'
    BY <1>1, <1>4, UnlinkStep
  <2>2. next' = next
    BY <1>4 DEF Unlink
  <2>3. TypeOK'
    BY <1>1, <1>2, <2>1, <2>2 DEF Inv, TypeOK
  <2>4. \A d \in Consumers : cons'[d].pc \notin {"load", "loop", "reload", "spin"}
    BY <1>2, <1>3, <1>4
  <2>5. LockInv'
    BY <1>1, <2>4 DEF LockInv
  <2> QED
    BY <2>1, <2>3, <2>5 DEF Inv
<1>5. CASE /\ UNCHANGED memory
           /\ \/ l.pc \in {"idle", "done", "wait", "asleep", "relock"}
              \/ /\ l.pc \in {"load", "loop", "reload", "spin"} /\ m_mutex' = c
                 /\ l.head = m_head /\ l.next \in {Null, next[m_head]}
           /\ m_mutex' = m_mutex \/ m_mutex \in {Null, c}
  <2>1. UNCHANGED <<m_head, next, value, heap, chain, m_tail, prod, life>>
    BY <1>1, <1>5 DEF memory
  <2>2. TypeOK' /\ ChainInv'
    BY <1>2, <2>1 DEF Inv, TypeOK, ChainInv
  <2>3. LinkInv' /\ ValueInv'
    BY <2>1 DEF Inv, LinkInv, ValueInv, Linking
  <2>4. \A d \in Consumers : cons'[d].pc \in {"load", "loop", "reload", "spin"} =>
          m_mutex' = d /\ cons'[d].head = m_head /\ cons'[d].next \in {Null, next[m_head]}
    <3> SUFFICES ASSUME NEW d \in Consumers, cons'[d].pc \in {"load", "loop", "reload", "spin"}
                 PROVE  m_mutex' = d /\ cons'[d].head = m_head /\ cons'[d].next \in {Null, next[m_head]}
      OBVIOUS
    <3>1. CASE d = c
      BY <1>2, <1>5, <3>1
    <3>2. CASE d # c
      BY <1>2, <1>3, <1>5, <3>2
    <3> QED
      BY <3>1, <3>2
  <2>5. LockInv'
    BY <1>1, <2>1, <2>4 DEF LockInv
  <2> QED
    BY <2>2, <2>3, <2>5 DEF Inv
<1> QED
  BY <1>1, <1>4, <1>5

\* ~AtomicQueue's loop ends at the last node.
LEMMA LastNode ==
  ASSUME Inv, life = "destroying", next[m_head] = Null
  PROVE  Len(chain) = 1
<1>1. PICK last \in Nat : last = Len(chain) /\ last >= 1
  BY Lengths
<1>2. ASSUME last >= 2 PROVE FALSE
  <2>1. 1 \in 1..(Len(chain) - 1) /\ 2 \in 1..Len(chain)
    BY <1>1, <1>2
  <2>2. chain[2] # Null
    BY <2>1, Lengths
  <2>3. next[chain[1]] = Null
    BY Lengths
  <2> QED
    BY <2>1, <2>2, <2>3 DEF Inv, LinkInv, Linking, LockInv
<1> QED
  BY <1>1, <1>2

\* stop() and ~AtomicQueue().
LEMMA OwnerStep ==
  ASSUME Inv, StopStore \/ StopNotify \/ BeginDestroy \/ Drain \/ DeleteStub
  PROVE  Inv'
<1>1. CASE StopStore
  <2>1. life = "open" /\ life' = "notify" /\ m_tail' = Null
        /\ UNCHANGED <<m_head, next, value, heap, chain, prod, cons, m_mutex>>
    BY <1>1 DEF StopStore, memory
  <2>2. TypeOK' /\ ChainInv'
    BY <2>1 DEF Inv, TypeOK, ChainInv, Address
  <2>3. LinkInv' /\ ValueInv' /\ LockInv'
    BY <2>1 DEF Inv, LinkInv, ValueInv, Linking, LockInv
  <2> QED
    BY <2>2, <2>3 DEF Inv
<1>2. CASE StopNotify
  <2>1. life = "notify" /\ life' = "stopped" /\ Wake(Asleep)
        /\ UNCHANGED <<m_head, next, value, heap, chain, prod, m_tail, m_mutex>>
    BY <1>2 DEF StopNotify, memory, NotifyAll
  <2>2. /\ cons' \in [Consumers -> ConsumerState]
        /\ \A c \in Consumers : cons'[c] = cons[c] \/ cons'[c].pc = "wait"
    BY <2>1, WakeStep DEF Inv
  <2>3. TypeOK' /\ ChainInv'
    BY <2>1, <2>2 DEF Inv, TypeOK, ChainInv
  <2>4. LinkInv' /\ ValueInv'
    BY <2>1 DEF Inv, LinkInv, ValueInv, Linking
  <2>5. LockInv'
    BY <2>1, <2>2 DEF Inv, LockInv
  <2> QED
    BY <2>3, <2>4, <2>5 DEF Inv
<1>3. CASE BeginDestroy
  <2>1. life = "stopped" /\ life' = "destroying"
        /\ UNCHANGED <<m_head, next, value, heap, chain, prod, cons, m_tail, m_mutex>>
    BY <1>3 DEF BeginDestroy, memory
  <2>2. TypeOK' /\ ChainInv'
    BY <2>1 DEF Inv, TypeOK, ChainInv
  <2>3. LinkInv' /\ ValueInv' /\ LockInv'
    BY <1>3, <2>1 DEF Inv, LinkInv, ValueInv, Linking, LockInv, BeginDestroy
  <2> QED
    BY <2>2, <2>3 DEF Inv
<1>4. CASE Drain
  <2>1. /\ life = "destroying" /\ next[m_head] # Null /\ Unlink(m_head, next[m_head], {})
        /\ UNCHANGED <<m_tail, prod, cons, m_mutex, life>>
    BY <1>4 DEF Drain
  <2>2. /\ m_head' \in Address /\ value' \in [Nodes -> Elements \cup {Null}]
        /\ heap' \subseteq Nodes /\ chain' \in Seq(Nodes)
        /\ ChainInv' /\ LinkInv' /\ ValueInv'
    BY <2>1, UnlinkStep
  <2>3. TypeOK'
    BY <2>1, <2>2 DEF Inv, TypeOK, Unlink
  <2>4. LockInv'
    BY <2>1 DEF Inv, LockInv
  <2> QED
    BY <2>2, <2>3, <2>4 DEF Inv
<1>5. CASE DeleteStub
  <2>1. /\ life = "destroying" /\ next[m_head] = Null /\ life' = "gone"
        /\ heap' = heap \ {m_head} /\ m_head' = Null /\ chain' = << >>
        /\ UNCHANGED <<m_tail, next, value, arr, prod, cons, m_mutex>>
    BY <1>5 DEF DeleteStub
  <2>2. \A p \in Producers : prod[p].pc = "done"
    BY <2>1 DEF Inv, LockInv
  <2>3. Len(chain) = 1
    BY <2>1, LastNode
  <2>4. heap' = {} /\ Len(chain') = 0 /\ chain' \in Seq(Nodes)
    BY <2>1, <2>3, Lengths, EmptySeq DEF Inv, ChainInv
  <2>5. TypeOK'
    BY <2>1, <2>4 DEF Inv, TypeOK, Address
  <2>6. ChainInv'
    BY <2>1, <2>4 DEF Inv, ChainInv
  <2>7. LinkInv'
    BY <2>1, <2>2, <2>4 DEF Inv, LinkInv
  <2>8. ValueInv'
    BY <2>1, <2>3, <2>4 DEF Inv, ValueInv
  <2>9. LockInv'
    BY <2>1 DEF Inv, LockInv
  <2> QED
    BY <2>5, <2>6, <2>7, <2>8, <2>9 DEF Inv
<1> QED
  BY <1>1, <1>2, <1>3, <1>4, <1>5

LEMMA InvInit == Init => Inv
<1> SUFFICES ASSUME Init PROVE Inv
  OBVIOUS
<1>1. /\ m_head \in Nodes /\ m_tail = m_head /\ heap = {m_head} /\ life = "open" /\ m_mutex = Null
      /\ chain = <<m_head>> /\ chain \in Seq(Nodes) /\ Len(chain) = 1 /\ chain[1] = m_head
      /\ next = [n \in Nodes |-> Null] /\ value = [n \in Nodes |-> Null]
      /\ prod = [p \in Producers |-> [pc |-> "enqueue", node |-> Null, prev |-> Null, sent |-> 0]]
  BY DEF Init
<1>2. cons \in [Consumers -> ConsumerState] /\ \A c \in Consumers : cons[c].pc = "idle"
  <2>1. \A o \in Ops : Idle(o) \in ConsumerState /\ Idle(o).pc = "idle"
    BY DEF Idle, ConsumerState, Address
  <2> QED
    BY <2>1 DEF Init
<1>3. prod \in [Producers -> ProducerState]
  BY <1>1 DEF ProducerState, Address
<1>4. TypeOK
  BY <1>1, <1>2, <1>3 DEF TypeOK, Address
<1>5. ChainInv
  BY <1>1 DEF ChainInv
<1>6. LinkInv
  BY <1>1 DEF LinkInv
<1>7. ValueInv /\ LockInv
  BY <1>1, <1>2 DEF ValueInv, LockInv
<1> QED
  BY <1>4, <1>5, <1>6, <1>7 DEF Inv

LEMMA InvStep == Inv /\ [Next]_vars => Inv'
<1> SUFFICES ASSUME Inv, [Next]_vars PROVE Inv'
  OBVIOUS
<1>1. CASE UNCHANGED vars
  <2>1. UNCHANGED <<m_head, next, value, heap, chain, m_tail, prod, cons, m_mutex, life>>
    BY <1>1 DEF vars, memory
  <2>2. TypeOK' /\ ChainInv'
    BY <2>1 DEF Inv, TypeOK, ChainInv
  <2>3. LinkInv' /\ ValueInv' /\ LockInv'
    BY <2>1 DEF Inv, LinkInv, ValueInv, Linking, LockInv
  <2> QED
    BY <2>2, <2>3 DEF Inv
<1>2. ASSUME NEW p \in Producers, EnqueueFails(p) \/ Notify(p) PROVE Inv'
  <2>1. /\ prod[p].pc \in {"enqueue", "notify"} /\ UNCHANGED <<memory, m_tail, m_mutex, life>>
        /\ UNCHANGED cons \/ \E C \in NotifyOne : Wake(C)
    BY <1>2 DEF EnqueueFails, Notify
  <2>2. PICK s \in {"enqueue", "done"} : prod' = [prod EXCEPT ![p].pc = s]
    BY <1>2 DEF EnqueueFails, Notify
  <2> QED
    BY <2>1, <2>2, ProducerStep DEF Inv, LockInv
<1> QED
  BY <1>1, <1>2, EnqueueStep, LinkStep, ConsumerStep, OwnerStep DEF Next, Produce, Terminating

\* Throughout, the chain of enqueue and dequeue (queue.hpp:38-59, 117-163) lists
\* the allocated nodes, linked but for the producers under way.
THEOREM QueueInvariant == Spec => []Inv
BY InvInit, InvStep, PTL DEF Spec

\* What is about to be used is in the chain.
LEMMA NoDangling ==
  ASSUME Inv
  PROVE  NoDanglingDeref
<1>1. life # "gone" => m_head \in heap
  BY Lengths DEF Inv, ChainInv
<1>2. ASSUME NEW p \in Producers, prod[p].pc = "link"
      PROVE  {prod[p].prev, prod[p].node} \subseteq heap
  <2>1. PICK i \in 1..(Len(chain) - 1) : prod[p].prev = chain[i] /\ prod[p].node = chain[i + 1]
    BY <1>2 DEF Inv, LinkInv, Linking
  <2>2. i \in 1..Len(chain) /\ i + 1 \in 1..Len(chain)
    BY Lengths
  <2> QED
    BY <2>1, <2>2 DEF Inv, ChainInv
<1>3. ASSUME NEW c \in Consumers, cons[c].pc \in {"load", "loop", "reload", "spin"}
      PROVE  cons[c].head \in heap /\ cons[c].next \in heap \cup {Null}
  <2>1. cons[c].head = m_head /\ cons[c].next \in {Null, next[m_head]} /\ life # "gone"
    BY <1>3 DEF Inv, LockInv
  <2>2. next[m_head] \in heap \cup {Null}
    BY <2>1, Successor DEF Inv, ChainInv
  <2> QED
    BY <1>1, <2>1, <2>2
<1> QED
  BY <1>1, <1>2, <1>3 DEF NoDanglingDeref

\* No producer, consumer or destructor uses a node that has been deleted, and
\* ~AtomicQueue leaves no node and no value behind.
THEOREM MemoryIsSafe == Spec => []MemorySafe
<1>1. ASSUME Inv PROVE NoLeak
  BY <1>1 DEF NoLeak, Inv, ChainInv, ValueInv
<1> QED
  BY <1>1, NoDangling, QueueInvariant, PTL DEF MemorySafe

-----------------------------------------------------------------------------
(* Waking a lone consumer *)

\* After notify_one() or notify_all() the lone consumer compares again.
LEMMA AllAwake ==
  ASSUME Inv, Wake(Asleep)
  PROVE  \A c \in Consumers :
           /\ cons'[c].pc # "asleep"
           /\ \/ cons'[c] = cons[c]
              \/ cons[c].pc = "asleep" /\ cons'[c].pc = "wait" /\ cons'[c].tail = cons[c].tail
<1> SUFFICES ASSUME NEW c \in Consumers
             PROVE  /\ cons'[c].pc # "asleep"
                    /\ \/ cons'[c] = cons[c]
                       \/ cons[c].pc = "asleep" /\ cons'[c].pc = "wait" /\ cons'[c].tail = cons[c].tail
  OBVIOUS
<1>1. CASE c \in Asleep
  <2>1. cons[c].pc = "asleep" /\ cons'[c] = [cons[c] EXCEPT !.pc = "wait"]
    BY <1>1, WakeStep DEF Inv
  <2>2. cons[c] \in ConsumerState
    BY DEF Inv, TypeOK
  <2> QED
    BY <2>1, <2>2 DEF ConsumerState
<1>2. CASE c \notin Asleep
  BY <1>2, WakeStep DEF Inv, Asleep
<1> QED
  BY <1>1, <1>2

LEMMA SleepStep ==
  ASSUME Inv, SleepInv, \A c, d \in Consumers : c = d, [Next]_vars
  PROVE  SleepInv'
<1>1. ASSUME UNCHANGED <<m_head, m_tail, life>>,
             \A p \in Producers : prod[p].pc \in {"link", "notify"} => prod'[p].pc \in {"link", "notify"},
             \A c \in Consumers : cons'[c] = cons[c]
      PROVE  SleepInv'
  BY <1>1 DEF SleepInv
<1>2. ASSUME NEW p \in Producers, NEW n \in Nodes, Enqueue(p, n) PROVE SleepInv'
  <2>1. prod'[p].pc = "link" /\ UNCHANGED <<m_head, cons>>
    BY <1>2 DEF Enqueue, Inv, TypeOK
  <2> QED
    BY <2>1 DEF SleepInv
<1>3. ASSUME NEW p \in Producers, EnqueueFails(p) PROVE SleepInv'
  <2>1. \A q \in Producers : prod[q].pc \in {"link", "notify"} => prod'[q] = prod[q]
    BY <1>3 DEF EnqueueFails, Inv, TypeOK
  <2> QED
    BY <1>1, <1>3, <2>1 DEF EnqueueFails, memory
<1>4. ASSUME NEW p \in Producers, Link(p) PROVE SleepInv'
  <2>1. \A q \in Producers : prod'[q] = prod[q] \/ prod'[q].pc = "notify"
    BY <1>4 DEF Link, Inv, TypeOK
  <2> QED
    BY <1>1, <1>4, <2>1 DEF Link
<1>5. ASSUME NEW p \in Producers, Notify(p) PROVE SleepInv'
  <2>1. PICK C \in NotifyOne : Wake(C)
    BY <1>5 DEF Notify
  <2>2. C = Asleep
    BY <2>1 DEF NotifyOne, Asleep
  <2> QED
    BY <1>5, <2>1, <2>2, AllAwake DEF SleepInv, Notify, memory
<1>6. ASSUME NEW c \in Consumers, Consume(c) \/ TimeOut(c) PROVE SleepInv'
  <2>1. PICK l \in ConsumerState :
          /\ To(c, l) /\ UNCHANGED <<m_tail, prod, life>>
          /\ l.pc = "idle" \/ UNCHANGED memory
          /\ l.pc = "wait" => l.tail = m_head
          /\ l.pc = "asleep" => cons[c].pc = "wait" /\ l.tail = cons[c].tail /\ l.tail = m_tail
    BY <1>6, ConsumerEffect
  <2>2. cons'[c] = l
    BY <2>1, CallStep DEF To, Inv
  <2>3. CASE l.pc \notin {"wait", "asleep"}
    BY <2>2, <2>3 DEF SleepInv
  <2>4. CASE l.pc = "wait"
    BY <2>1, <2>2, <2>4 DEF SleepInv, memory
  <2>5. CASE l.pc = "asleep"
    BY <2>1, <2>2, <2>5 DEF SleepInv, memory
  <2> QED
    BY <2>3, <2>4, <2>5
<1>7. CASE StopStore
  BY <1>7 DEF StopStore, memory, SleepInv
<1>8. CASE StopNotify
  <2>1. Wake(Asleep)
    BY <1>8 DEF StopNotify, NotifyAll
  <2> QED
    BY <1>8, <2>1, AllAwake DEF SleepInv, StopNotify, memory
<1>9. CASE BeginDestroy
  BY <1>9 DEF BeginDestroy, SleepInv, memory
<1>10. CASE Drain \/ DeleteStub
  BY <1>10 DEF Drain, DeleteStub, Inv, LockInv, SleepInv
<1>11. CASE UNCHANGED vars
  BY <1>1, <1>11 DEF vars, memory
<1> QED
  BY <1>2, <1>3, <1>4, <1>5, <1>6, <1>7, <1>8, <1>9, <1>10, <1>11 DEF Next, Produce, Terminating

\* A lone consumer does not sleep through an element, or through stop(), once
\* those who enqueued or stopped have notified.
THEOREM WakesUp ==
  ASSUME \A c, d \in Consumers : c = d
  PROVE  Spec => []NoLostWakeup
<1>1. Init => SleepInv
  BY DEF Init, Idle, SleepInv
<1>2. ASSUME Inv, SleepInv PROVE NoLostWakeup
  <2> SUFFICES ASSUME \A p \in Producers : prod[p].pc \notin {"link", "notify"}, life # "notify",
                      NEW c \in Consumers, cons[c].pc = "asleep"
               PROVE  items = << >> /\ m_tail # Null
    BY DEF NoLostWakeup, Asleep
  <2>1. m_tail = m_head /\ life # "gone"
    BY <1>2 DEF SleepInv, Inv, LockInv
  <2>2. Len(chain) \in Nat /\ Len(chain) >= 1 /\ m_head = chain[1] /\ m_head \in Nodes
    BY <1>2, <2>1, Lengths
  <2>3. m_tail # Null /\ m_tail = chain[Len(chain)]
    BY <1>2, <2>1, <2>2 DEF Inv, ChainInv
  <2>4. Len(chain) = 1
    <3>1. 1 \in 1..Len(chain) /\ Len(chain) \in 1..Len(chain) /\ chain[1] = chain[Len(chain)]
      BY <2>1, <2>2, <2>3
    <3> QED
      BY <1>2, <3>1 DEF Inv, ChainInv
  <2>5. items = << >>
    BY <2>4 DEF items
  <2> QED
    BY <2>3, <2>5
<1> QED
  BY <1>1, <1>2, SleepStep, QueueInvariant, PTL DEF Spec

-----------------------------------------------------------------------------
(* The refinement of FifoQueue *)

\* The elements that the chain holds, oldest first.
LEMMA ItemsOfChain ==
  ASSUME Inv
  PROVE  /\ Len(chain) \in Nat
         /\ Len(chain) >= 1 => items \in Seq(Elements) /\ Len(items) = Len(chain) - 1
         /\ Len(chain) = 0 => items = << >>
         /\ DOMAIN items = 1..(Len(chain) - 1)
         /\ \A i \in 1..(Len(chain) - 1) : items[i] = value[chain[i + 1]] /\ items[i] \in Elements
         /\ \A i, j \in 1..(Len(chain) - 1) : items[i] = items[j] => i = j
<1>1. Len(chain) \in Nat
  BY Lengths
<1>2. \A i \in 1..(Len(chain) - 1) : i + 1 \in 2..Len(chain)
  BY <1>1
<1>3. \A i \in 1..(Len(chain) - 1) : items[i] = value[chain[i + 1]] /\ items[i] \in Elements
  BY <1>2 DEF items, Inv, ValueInv
<1>4. \A i, j \in 1..(Len(chain) - 1) : items[i] = items[j] => i = j
  BY <1>1, <1>2, <1>3 DEF Inv, ValueInv
<1>5. DOMAIN items = 1..(Len(chain) - 1) /\ items = [i \in 1..(Len(chain) - 1) |-> items[i]]
  BY DEF items
<1>6. Len(chain) >= 1 => items \in Seq(Elements) /\ Len(items) = Len(chain) - 1
  BY <1>1, <1>3, <1>5, SeqDef, LenProperties
<1>7. Len(chain) = 0 => items = << >>
  BY <1>5
<1> QED
  BY <1>1, <1>3, <1>4, <1>5, <1>6, <1>7

\* The compare_exchange on m_tail fixes the element's position.
LEMMA EnqueueClaims ==
  ASSUME Inv, NEW p \in Producers, NEW n \in Nodes, Enqueue(p, n)
  PROVE  <<p, prod[p].sent + 1>> \in Elements /\ Queue!Claim(<<p, prod[p].sent + 1>>)
<1> PICK e : e = <<p, prod[p].sent + 1>>
  OBVIOUS
<1> PICK last : last = Len(chain)
  OBVIOUS
<1>1. /\ prod[p].sent \in 0..(NLoop - 1) /\ e \in Elements /\ n \notin heap
      /\ value' = [value EXCEPT ![n] = e]
      /\ next' = [next EXCEPT ![n] = Null] /\ chain' = Append(chain, n)
  BY DEF Enqueue, MoreToSend, NewNode, Inv, TypeOK, ProducerState, Elements
<1>2. life = "open" /\ last \in Nat /\ last >= 1
  BY Lengths DEF Enqueue, Inv, ChainInv
<1>3. /\ Len(chain') = last + 1 /\ \A i \in 1..last : chain'[i] = chain[i]
      /\ chain'[last + 1] = n
  BY <1>1, ChainGrows
<1>4. /\ \A i \in 1..last : chain[i] \in Nodes /\ chain[i] # n
  BY <1>1, Lengths DEF Inv, ChainInv
<1>5. /\ \A i \in 1..last : value'[chain[i]] = value[chain[i]] /\ next'[chain[i]] = next[chain[i]]
      /\ value'[n] = e
  BY <1>1, <1>4 DEF Inv, TypeOK
<1>6. /\ items \in Seq(Elements) /\ Len(items) = last - 1 /\ DOMAIN items = 1..(last - 1)
      /\ \A i \in 1..(last - 1) : items[i] = value[chain[i + 1]]
  BY <1>2, ItemsOfChain
<1>7. \A i \in DOMAIN items : items[i] # e
  <2> SUFFICES ASSUME NEW i \in 1..(last - 1) PROVE items[i] # e
    BY <1>6
  <2>1. items[i] = value[chain[i + 1]] /\ i + 1 \in 2..Len(chain)
    BY <1>2, <1>6
  <2>2. items[i][2] <= prod[items[i][1]].sent
    BY <2>1 DEF Inv, ValueInv
  <2> QED
    BY <1>1, <2>2
<1>8. items' = Append(items, e)
  <2>1. /\ Append(items, e) \in Seq(Elements) /\ Len(Append(items, e)) = last
        /\ \A i \in 1..(last - 1) : Append(items, e)[i] = items[i]
        /\ Append(items, e)[last] = e
    BY <1>1, <1>2, <1>6, AppendProperties
  <2>2. DOMAIN Append(items, e) = 1..last /\ Append(items, e) = [i \in 1..last |-> Append(items, e)[i]]
    BY <2>1, LenProperties
  <2>3. items' = [i \in 1..last |-> value'[chain'[i + 1]]]
    BY <1>2, <1>3 DEF items
  <2>4. \A i \in 1..last : value'[chain'[i + 1]] = Append(items, e)[i]
    <3> SUFFICES ASSUME NEW i \in 1..last PROVE value'[chain'[i + 1]] = Append(items, e)[i]
      OBVIOUS
    <3>1. CASE i = last
      BY <1>3, <1>5, <2>1, <3>1
    <3>2. CASE i # last
      <4>1. i \in 1..(last - 1) /\ i + 1 \in 1..last
        BY <1>2, <3>2
      <4> QED
        BY <1>3, <1>5, <1>6, <2>1, <4>1
    <3> QED
      BY <3>1, <3>2
  <2> QED
    BY <2>2, <2>3, <2>4
<1>9. published' = published
  <2>1. next[chain[last]] = Null
    BY <1>2 DEF Inv, LinkInv
  <2>2. published' = {value'[chain'[i + 1]] : i \in {j \in 1..last : next'[chain'[j]] # Null}}
    BY <1>2, <1>3 DEF published
  <2>3. \A j \in 1..last : next'[chain'[j]] = next[chain[j]]
    BY <1>3, <1>5
  <2>4. {j \in 1..last : next'[chain'[j]] # Null} = {j \in 1..(last - 1) : next[chain[j]] # Null}
    BY <1>2, <2>1, <2>3
  <2>5. \A i \in 1..(last - 1) : value'[chain'[i + 1]] = value[chain[i + 1]]
    BY <1>2, <1>3, <1>5
  <2> QED
    BY <2>2, <2>4, <2>5 DEF published
<1> QED
  BY <1>1, <1>7, <1>8, <1>9 DEF Queue!Claim

\* tail->next.store makes it visible.
LEMMA LinkPublishes ==
  ASSUME Inv, NEW p \in Producers, Link(p)
  PROVE  \E e \in Elements : e = value[prod[p].node] /\ Queue!Publish(e)
<1>1. PICK k \in 1..(Len(chain) - 1) : Linking(p, k) /\ next[chain[k]] = Null
  BY DEF Inv, LinkInv, Link
<1>2. /\ next' = [next EXCEPT ![chain[k]] = chain[k + 1]] /\ UNCHANGED <<value, chain>>
  BY <1>1 DEF Link, Linking, Predecessor
<1>3. /\ Len(chain) \in Nat /\ \A i \in 1..Len(chain) : chain[i] \in Nodes
      /\ \A i, j \in 1..Len(chain) : chain[i] = chain[j] => i = j
      /\ k \in 1..Len(chain) /\ k + 1 \in 1..Len(chain)
  BY Lengths DEF Inv, ChainInv
<1>4. /\ next'[chain[k]] # Null
      /\ \A i \in 1..(Len(chain) - 1) : i # k => next'[chain[i]] = next[chain[i]]
  BY <1>2, <1>3 DEF Inv, TypeOK
<1>5. /\ k \in DOMAIN items /\ items[k] \in Elements /\ items[k] = value[chain[k + 1]]
      /\ \A i \in 1..(Len(chain) - 1) : value[chain[i + 1]] = items[k] => i = k
  BY ItemsOfChain
<1>6. items' = items /\ items[k] = value[prod[p].node]
  BY <1>1, <1>2, <1>5 DEF items, Linking
<1>7. items[k] \notin published
  BY <1>1, <1>5 DEF published
<1>8. published' = published \cup {items[k]}
  <2>1. {j \in 1..(Len(chain) - 1) : next'[chain[j]] # Null}
          = {j \in 1..(Len(chain) - 1) : next[chain[j]] # Null} \cup {k}
    BY <1>4
  <2>2. published' = {value[chain[i + 1]] : i \in {j \in 1..(Len(chain) - 1) : next'[chain[j]] # Null}}
    BY <1>2 DEF published
  <2> QED
    BY <1>5, <2>1, <2>2 DEF published
<1> QED
  BY <1>5, <1>6, <1>7, <1>8 DEF Queue!Publish

\* A dequeue takes the oldest element, and only when it is visible.
LEMMA UnlinkTakes ==
  ASSUME Inv, life # "gone", next[m_head] # Null, NEW got, Unlink(m_head, next[m_head], got)
  PROVE  \E e \in Elements : Queue!Take(e)
<1> PICK last : last = Len(chain)
  OBVIOUS
<1>1. /\ last >= 2 /\ last \in Nat /\ next[chain[1]] # Null
      /\ value' = [value EXCEPT ![chain[2]] = Null] /\ next' = next /\ chain' = Tail(chain)
  BY Successor, Lengths DEF Unlink
<1>2. Len(chain') = last - 1 /\ \A i \in 1..(last - 1) : chain'[i] = chain[i + 1]
  BY <1>1, ChainShrinks
<1>3. /\ items \in Seq(Elements) /\ Len(items) = last - 1 /\ DOMAIN items = 1..(last - 1)
      /\ \A i \in 1..(last - 1) : items[i] = value[chain[i + 1]] /\ items[i] \in Elements
      /\ \A i, j \in 1..(last - 1) : items[i] = items[j] => i = j
  BY <1>1, ItemsOfChain
<1>4. items # << >> /\ Head(items) = items[1] /\ 1 \in 1..(last - 1)
  BY <1>1, <1>3, HeadTailProperties, EmptySeq
<1>5. items[1] \in published
  BY <1>1, <1>3, <1>4 DEF published
<1>6. \A i \in 1..(last - 2) :
        /\ i + 1 \in 1..(last - 1) /\ value'[chain'[i + 1]] = value[chain[i + 2]]
        /\ value[chain[i + 2]] = items[i + 1]
  <2> SUFFICES ASSUME NEW i \in 1..(last - 2)
               PROVE  /\ i + 1 \in 1..(last - 1) /\ value'[chain'[i + 1]] = value[chain[i + 2]]
                      /\ value[chain[i + 2]] = items[i + 1]
    OBVIOUS
  <2>1. i + 1 \in 1..(last - 1) /\ i + 2 \in 1..last /\ i + 2 # 2 /\ 2 \in 1..last /\ i + 1 + 1 = i + 2
    BY <1>1
  <2>2. chain'[i + 1] = chain[i + 2] /\ chain[i + 2] # chain[2] /\ chain[i + 2] \in Nodes
    BY <1>2, <2>1, Lengths DEF Inv, ChainInv
  <2> QED
    BY <1>1, <1>3, <2>1, <2>2 DEF Inv, TypeOK
<1>7. items' = Tail(items)
  <2>1. /\ Tail(items) \in Seq(Elements) /\ Len(Tail(items)) = last - 2
        /\ \A i \in 1..(last - 2) : Tail(items)[i] = items[i + 1]
    BY <1>1, <1>3, <1>4, HeadTailProperties
  <2>2. Tail(items) = [i \in 1..(last - 2) |-> Tail(items)[i]]
    BY <2>1, LenProperties
  <2>3. items' = [i \in 1..(last - 2) |-> value'[chain'[i + 1]]]
    BY <1>1, <1>2 DEF items
  <2> QED
    BY <1>6, <2>1, <2>2, <2>3
<1>8. published' = published \ {items[1]}
  <2>1. published' = {value'[chain'[i + 1]] : i \in {j \in 1..(last - 2) : next'[chain'[j]] # Null}}
    BY <1>1, <1>2 DEF published
  <2>2. published = {value[chain[i + 1]] : i \in {j \in 1..(last - 1) : next[chain[j]] # Null}}
    BY DEF published
  <2>3. \A x \in published' : x \in published \ {items[1]}
    <3> SUFFICES ASSUME NEW i \in 1..(last - 2), next'[chain'[i]] # Null
                 PROVE  value'[chain'[i + 1]] \in published \ {items[1]}
      BY <2>1
    <3>1. /\ i + 1 \in 1..(last - 1) /\ i + 1 # 1 /\ 1 \in 1..(last - 1) /\ chain'[i] = chain[i + 1]
          /\ value'[chain'[i + 1]] = value[chain[i + 2]] /\ value[chain[i + 2]] = items[i + 1]
          /\ i + 1 + 1 = i + 2
      BY <1>1, <1>2, <1>6
    <3>2. items[i + 1] # items[1] /\ next[chain[i + 1]] # Null
      BY <1>1, <1>3, <3>1
    <3>3. value[chain[i + 2]] \in published
      BY <2>2, <3>1, <3>2
    <3> QED
      BY <3>1, <3>2, <3>3
  <2>4. \A x \in published \ {items[1]} : x \in published'
    <3> SUFFICES ASSUME NEW i \in 1..(last - 1), next[chain[i]] # Null, value[chain[i + 1]] # items[1]
                 PROVE  value[chain[i + 1]] \in published'
      BY <2>2
    <3>1. i # 1
      BY <1>3
    <3> DEFINE k == i - 1
    <3>2. k \in 1..(last - 2) /\ i = k + 1 /\ i + 1 = k + 2
      BY <1>1, <3>1
    <3> HIDE DEF k
    <3>3. next'[chain'[k]] # Null /\ value'[chain'[k + 1]] = value[chain[k + 2]]
      BY <1>1, <1>2, <1>6, <3>2
    <3> QED
      BY <2>1, <3>2, <3>3
  <2> QED
    BY <2>3, <2>4
<1> QED
  BY <1>3, <1>4, <1>5, <1>7, <1>8 DEF Queue!Take, Queue!FrontVisible

\* enqueue and the dequeues implement the FIFO of two steps.
THEOREM ImplementsFifo == Spec => FifoSpec
<1>1. Init => Queue!Init
  <2> SUFFICES ASSUME Init PROVE Queue!Init
    OBVIOUS
  <2>1. Len(chain) = 1
    BY DEF Init
  <2> QED
    BY <2>1 DEF Queue!Init, items, published
<1>2. Inv /\ [Next]_vars => [Queue!Next]_<<items, published>>
  <2> SUFFICES ASSUME Inv, [Next]_vars PROVE [Queue!Next]_<<items, published>>
    OBVIOUS
  <2>1. ASSUME UNCHANGED <<next, value, chain>> PROVE UNCHANGED <<items, published>>
    BY <2>1 DEF items, published
  <2>2. ASSUME NEW p \in Producers, NEW n \in Nodes, Enqueue(p, n) PROVE Queue!Next
    BY <2>2, EnqueueClaims DEF Queue!Next
  <2>3. ASSUME NEW p \in Producers, Link(p) PROVE Queue!Next
    BY <2>3, LinkPublishes DEF Queue!Next
  <2>4. ASSUME NEW p \in Producers, EnqueueFails(p) \/ Notify(p) PROVE UNCHANGED <<next, value, chain>>
    BY <2>4 DEF EnqueueFails, Notify, memory
  <2>5. ASSUME NEW c \in Consumers, Consume(c) \/ TimeOut(c)
        PROVE  Queue!Next \/ UNCHANGED <<next, value, chain>>
    <3>1. \/ life # "gone" /\ next[m_head] # Null /\ Unlink(m_head, next[m_head], {value[next[m_head]]})
          \/ UNCHANGED memory
      BY <2>5, ConsumerEffect
    <3> QED
      BY <3>1, UnlinkTakes DEF memory, Queue!Next
  <2>6. CASE StopStore \/ StopNotify \/ BeginDestroy \/ UNCHANGED vars
    BY <2>1, <2>6 DEF StopStore, StopNotify, BeginDestroy, vars, memory
  <2>7. CASE Drain
    BY <2>7, UnlinkTakes DEF Drain, Queue!Next
  <2>8. CASE DeleteStub
    <3>1. UNCHANGED <<next, value>> /\ Len(chain) = 1 /\ Len(chain') = 0
      BY <2>8, LastNode DEF DeleteStub
    <3> QED
      BY <3>1 DEF items, published
  <2> QED
    BY <2>1, <2>2, <2>3, <2>4, <2>5, <2>6, <2>7, <2>8 DEF Next, Produce, Terminating
<1> QED
  BY <1>1, <1>2, QueueInvariant, PTL DEF Spec, FifoSpec, Queue!Spec
==============================================================================
