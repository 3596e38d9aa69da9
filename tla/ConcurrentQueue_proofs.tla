------------------------ MODULE ConcurrentQueue_proofs ------------------------
(***************************************************************************)
(* For any number of threads, tokens and nodes: each producer of the queue *)
(* has one owner at most, the list holds every producer that was handed    *)
(* out, and the count that a consumer divides by covers the list.  Every   *)
(* dequeue comes to all that was in the queue when it began, unless others *)
(* take it: one that nobody overlaps and that answers "empty" has taken    *)
(* all of it.  A token leaves a producer after its quota.                  *)
(***************************************************************************)
EXTENDS ConcurrentQueue, FiniteSetTheorems, WellFoundedInduction, NaturalsInduction, TLAPS

-----------------------------------------------------------------------------
(* The inductive invariant. *)

Work == [pc : {"idle", "scan", "recycle", "link"}, want : Types,
         node : NodeOrNull, head : NodeOrNull]

\* What the producers' actions use has its type, and who recycles or links a node
\* has one.
ProducerTypes ==
  /\ plan \in Plan
  /\ ProducerListsHead \in NodeOrNull
  /\ Next_ \in [Nodes -> NodeOrNull]
  /\ Type \in [Nodes -> Types \cup {"none"}]
  /\ Inactive \in [Nodes -> BOOLEAN]
  /\ Token \in [Producers -> NodeOrNull] /\ Implicit \in [Producers -> NodeOrNull]
  /\ prod \in [Producers -> Work]
  /\ \A p \in Producers : prod[p].pc \in {"recycle", "link"} => prod[p].node # nullptr

Linking(p, n) == prod[p].pc = "link" /\ prod[p].node = n

\* The three ways in which a thread has a node.
Has(p, n) == Token[p] = n \/ Implicit[p] = n \/ Linking(p, n)

\* A node somebody has was created and is not up for recycling; and it is had in
\* one way, by one thread.
Ownership ==
  /\ \A n \in Nodes : Inactive[n] => Type[n] # "none"
  /\ \A p \in Producers, n \in Nodes : Has(p, n) => Type[n] # "none" /\ ~Inactive[n]
  /\ \A p, q \in Producers, n \in Nodes :
       /\ Token[p] = n => Implicit[q] # n /\ ~Linking(q, n)
       /\ Implicit[p] = n => ~Linking(q, n)
       /\ Has(p, n) /\ Has(q, n) => p = q

Used == {n \in Nodes : Type[n] # "none"}
Looking == {p \in Producers : prod[p].pc \in {"scan", "recycle"}}

\* There is a node left for every thread that may come to create one.
Room == Cardinality(Looking) + Cardinality(Used) <= plan.nodes

OwnerInv == ProducerTypes /\ Ownership /\ Room

-----------------------------------------------------------------------------
(* Facts used in several places. *)

\* Both sets Room counts are finite.
LEMMA CountsFinite ==
  /\ IsFiniteSet(Looking) /\ IsFiniteSet(Used)
  /\ Cardinality(Looking) \in Nat /\ Cardinality(Used) \in Nat
<1>1. IsFiniteSet(Nodes) /\ Cardinality(Nodes) = MaxNodes
  BY FS_Interval, ConcurrentQueueAssumption DEF Nodes
<1>2. IsFiniteSet(Looking) /\ IsFiniteSet(Used)
  BY <1>1, FS_Subset, ConcurrentQueueAssumption DEF Looking, Used
<1>3. QED
  BY <1>2, FS_CardinalityType

\* While there is room, a thread that finds nothing to recycle gets a node that
\* nobody has used.
LEMMA FreshIsUnused ==
  ASSUME OwnerInv, NEW p \in Producers, p \in Looking
  PROVE  Fresh \in Nodes /\ Type[Fresh] = "none"
<1>1. IsFiniteSet(Nodes) /\ Cardinality(Nodes) = MaxNodes
  BY FS_Interval, ConcurrentQueueAssumption DEF Nodes
<1>2. Cardinality(Looking) # 0
  BY CountsFinite, FS_EmptySet
<1>3. plan.nodes \in 0..MaxNodes
  BY DEF OwnerInv, ProducerTypes, Plan
<1>4. Cardinality(Used) < MaxNodes
  BY <1>2, <1>3, CountsFinite, ConcurrentQueueAssumption DEF OwnerInv, Room
<1>5. Used # Nodes
  BY <1>1, <1>4, ConcurrentQueueAssumption
<1>6. \E n \in Nodes : Type[n] = "none"
  BY <1>5 DEF Used
<1>7. QED
  BY <1>6 DEF Fresh

\* Consumers change nothing that the invariant is about.
LEMMA ConsumersLeaveProducers ==
  ASSUME NEW c \in Consumers, ConsumerStep(c)
  PROVE  UNCHANGED <<plan, list, producing>>
<1> USE DEF offsets
<1>1. ASSUME NEW kind \in Kinds, BeginWalk(c, kind) \/ BeginToken(c, kind)
      PROVE  UNCHANGED <<plan, list, producing>>
  BY <1>1 DEF BeginWalk, BeginToken
<1>2. BeginBest(c) \/ WalkNode(c) \/ SizeNode(c) \/ TakeBest(c)
        => UNCHANGED <<plan, list, producing>>
  BY DEF BeginBest, WalkNode, SizeNode, TakeBest
<1>3. ConstructConsumerToken(c) \/ UpdateHead(c) \/ UpdateCount(c) \/ UpdateOffset(c)
        => UNCHANGED <<plan, list, producing>>
  BY DEF ConstructConsumerToken, UpdateHead, UpdateCount, UpdateOffset
<1>4. TakeCurrent(c) \/ Rotate(c) \/ BeginRing(c) \/ RingNode(c) \/ Return(c)
        => UNCHANGED <<plan, list, producing>>
  BY DEF TakeCurrent, Rotate, BeginRing, RingNode, Return
<1>5. QED
  BY <1>1, <1>2, <1>3, <1>4 DEF ConsumerStep

-----------------------------------------------------------------------------
\* An empty queue has no producers and nobody who looks for one.
LEMMA OwnerInvInit == Init => OwnerInv
<1> SUFFICES ASSUME Init PROVE OwnerInv
  OBVIOUS
<1>1. ProducerTypes
  BY ConcurrentQueueAssumption
  DEF Init, ProducerTypes, Work, Idle, Types, NodeOrNull, Nodes, nullptr
<1>2. Ownership
  BY ConcurrentQueueAssumption
  DEF Init, Ownership, Has, Linking, Idle, Nodes, nullptr
<1>3. Room
  <2>1. Looking = {} /\ Used = {}
    BY DEF Init, Looking, Used, Idle
  <2>2. plan.nodes \in Nat
    BY <1>1, ConcurrentQueueAssumption DEF ProducerTypes, Plan
  <2>3. QED
    BY <2>1, <2>2, FS_EmptySet DEF Room
<1>4. QED
  BY <1>1, <1>2, <1>3 DEF OwnerInv

\* What is known of the record of a thread whose step makes it that record.
LEMMA NewRecord ==
  ASSUME OwnerInv, NEW p \in Producers, NEW r \in Work, prod' = [prod EXCEPT ![p] = r]
  PROVE  /\ prod' \in [Producers -> Work] /\ prod'[p] = r
         /\ \A q \in Producers \ {p} : prod'[q] = prod[q]
BY DEF OwnerInv, ProducerTypes

\* A thread outside GetProducerListNode.
LEMMA IdleRecord == Idle \in Work /\ Idle.pc = "idle"
BY ConcurrentQueueAssumption DEF Idle, Work, Types, NodeOrNull, Nodes, nullptr

\* A thread that gets a node nobody has, or the one it has linked, keeps ownership.
LEMMA OwnKeeps ==
  ASSUME OwnerInv, NEW p \in Producers, NEW n \in Nodes, Own(p, n), Type[n] # "none",
         UNCHANGED Type, Inactive' = [Inactive EXCEPT ![n] = FALSE],
         Inactive[n] \/ Linking(p, n)
  PROVE  /\ prod' \in [Producers -> Work] /\ prod'[p] = Idle
         /\ Token' \in [Producers -> NodeOrNull] /\ Implicit' \in [Producers -> NodeOrNull]
         /\ \A q \in Producers \ {p} : prod'[q] = prod[q]
         /\ Ownership'
<1>1. /\ prod' \in [Producers -> Work] /\ prod'[p] = Idle /\ Idle.pc = "idle"
      /\ \A q \in Producers \ {p} : prod'[q] = prod[q]
  BY IdleRecord, NewRecord DEF Own
<1>2. n \in NodeOrNull /\ n # nullptr
  BY ConcurrentQueueAssumption DEF Nodes, NodeOrNull, nullptr
<1>3. CASE Token' = [Token EXCEPT ![p] = n] /\ UNCHANGED Implicit
  BY <1>1, <1>2, <1>3 DEF OwnerInv, ProducerTypes, Ownership, Has, Linking
<1>4. CASE Implicit' = [Implicit EXCEPT ![p] = n] /\ UNCHANGED Token
  BY <1>1, <1>2, <1>4 DEF OwnerInv, ProducerTypes, Ownership, Has, Linking
<1>5. QED
  BY <1>1, <1>3, <1>4 DEF Own

\* A thread that is about to link a node, which nobody else has, has it now.
LEMMA SetNextKeeps ==
  ASSUME OwnerInv, NEW p \in Producers, NEW n \in Nodes, SetNext(p, n), UNCHANGED Inactive,
         \/ Type[n] = "none" /\ \E t \in Types : Type' = [Type EXCEPT ![n] = t]
         \/ Linking(p, n) /\ UNCHANGED Type
  PROVE  /\ prod' \in [Producers -> Work] /\ prod'[p].pc = "link" /\ prod'[p].node = n
         /\ Next_' \in [Nodes -> NodeOrNull]
         /\ \A q \in Producers \ {p} : prod'[q] = prod[q]
         /\ Ownership'
<1> DEFINE r == [prod[p] EXCEPT !.pc = "link", !.node = n, !.head = ProducerListsHead]
<1>1. n \in NodeOrNull /\ n # nullptr
  BY ConcurrentQueueAssumption DEF Nodes, NodeOrNull, nullptr
<1>2. r \in Work /\ r.pc = "link" /\ r.node = n
  <2>1. prod[p] \in Work /\ ProducerListsHead \in NodeOrNull
    BY DEF OwnerInv, ProducerTypes
  <2>2. QED
    BY <1>1, <2>1 DEF Work
<1>3. prod' = [prod EXCEPT ![p] = r]
  BY DEF SetNext
<1> HIDE DEF r
<1>4. /\ prod' \in [Producers -> Work] /\ prod'[p] = r
      /\ \A q \in Producers \ {p} : prod'[q] = prod[q]
  BY <1>2, <1>3, NewRecord
<1>5. Next_' \in [Nodes -> NodeOrNull]
  BY DEF SetNext, OwnerInv, ProducerTypes
<1>6. Ownership'
  <2> USE DEF SetNext, OwnerInv, ProducerTypes, Ownership, Has, Linking
  <2>1. CASE Type[n] = "none" /\ \E t \in Types : Type' = [Type EXCEPT ![n] = t]
    BY <1>2, <1>4, <2>1 DEF Types
  <2>2. CASE Linking(p, n) /\ UNCHANGED Type
    BY <1>2, <1>4, <2>2
  <2>3. QED
    BY <2>1, <2>2
<1>7. QED
  BY <1>2, <1>4, <1>5, <1>6

\* Every step of a producer keeps the types, ownership and room.
LEMMA ProducerStepKeeps ==
  ASSUME OwnerInv, NEW p \in Producers, ProducerStep(p)
  PROVE  ProducerTypes' /\ Ownership'
<1> USE ConcurrentQueueAssumption DEF OwnerInv, list, offsets
<1>1. ASSUME NEW type \in Types, Acquire(p, type), prod[p].pc = "idle",
             UNCHANGED <<list, plan, Token, Implicit>>
      PROVE  ProducerTypes' /\ Ownership'
  <2> DEFINE r == [Idle EXCEPT !.pc = "scan", !.want = type, !.node = ProducerListsHead]
  <2>1. r \in Work /\ r.pc = "scan"
    <3>1. Idle \in Work /\ ProducerListsHead \in NodeOrNull
      BY IdleRecord DEF ProducerTypes
    <3>2. QED
      BY <3>1 DEF Work
  <2>2. prod' = [prod EXCEPT ![p] = r]
    BY <1>1 DEF Acquire
  <2> HIDE DEF r
  <2>3. /\ prod' \in [Producers -> Work] /\ prod'[p] = r
        /\ \A q \in Producers \ {p} : prod'[q] = prod[q]
    BY <2>1, <2>2, NewRecord
  <2>4. ProducerTypes'
    BY <1>1, <2>1, <2>3 DEF ProducerTypes
  <2>5. Ownership'
    BY <1>1, <2>1, <2>3 DEF ProducerTypes, Ownership, Has, Linking
  <2>6. QED
    BY <2>4, <2>5
<1>2. CASE ConstructToken(p)
  BY <1>1, <1>2 DEF ConstructToken, Types
<1>3. CASE ConstructImplicit(p)
  BY <1>1, <1>3 DEF ConstructImplicit, Types
<1>4. CASE ScanNode(p)
  <2>1. PICK r \in Work : /\ prod' = [prod EXCEPT ![p] = r]
                          /\ r.pc \in {"scan", "recycle"}
                          /\ r.pc = "recycle" => r.node # nullptr
    <3>1. prod[p].node \in Nodes
      BY <1>4 DEF ScanNode, Work, Nodes, NodeOrNull, nullptr, ProducerTypes
    <3>2. Next_[prod[p].node] \in NodeOrNull
      BY <3>1 DEF ProducerTypes
    <3>3. CASE Inactive[prod[p].node] /\ Type[prod[p].node] = prod[p].want
      <4>1. prod' = [prod EXCEPT ![p] = [prod[p] EXCEPT !.pc = "recycle"]]
        BY <1>4, <3>3 DEF ScanNode
      <4>2. QED
        <5> DEFINE r == [prod[p] EXCEPT !.pc = "recycle"]
        <5>1. r \in Work /\ r.pc = "recycle" /\ r.node # nullptr
          <6>1. prod[p] \in Work /\ prod[p].node # nullptr
            BY <3>1 DEF Nodes, nullptr, ProducerTypes
          <6> HIDE DEF OwnerInv
          <6>2. QED
            BY <6>1 DEF Work
        <5>2. QED
          BY <4>1, <5>1
    <3>4. CASE ~(Inactive[prod[p].node] /\ Type[prod[p].node] = prod[p].want)
      <4>1. prod' = [prod EXCEPT ![p] = [prod[p] EXCEPT !.node = Next_[prod[p].node]]]
        BY <1>4, <3>4 DEF ScanNode
      <4>2. QED
        <5> DEFINE r == [prod[p] EXCEPT !.node = Next_[prod[p].node]]
        <5>1. r \in Work /\ r.pc = "scan"
          BY <1>4, <3>2 DEF ScanNode, Work, ProducerTypes
        <5>2. QED
          BY <4>1, <5>1
    <3>5. QED
      BY <3>3, <3>4
  <2>2. /\ prod' \in [Producers -> Work] /\ prod'[p] = r
        /\ \A q \in Producers \ {p} : prod'[q] = prod[q]
    BY <2>1, NewRecord
  <2>3. ProducerTypes'
    BY <1>4, <2>1, <2>2 DEF ScanNode, ProducerTypes
  <2>4. Ownership'
    BY <1>4, <2>1, <2>2 DEF ScanNode, ProducerTypes, Ownership, Has, Linking
  <2>5. QED
    BY <2>3, <2>4
<1>5. CASE Recycle(p)
  <2> DEFINE n == prod[p].node
  <2>1. n \in Nodes
    BY <1>5 DEF Recycle, Work, Nodes, NodeOrNull, nullptr, ProducerTypes
  <2>2. CASE Inactive[n]
    <3>1. Own(p, n) /\ UNCHANGED Type /\ Inactive' = [Inactive EXCEPT ![n] = FALSE]
      BY <1>5, <2>2 DEF Recycle
    <3>2. Type[n] # "none"
      BY <2>1, <2>2 DEF Ownership
    <3>3. /\ prod' \in [Producers -> Work] /\ prod'[p] = Idle
          /\ Token' \in [Producers -> NodeOrNull] /\ Implicit' \in [Producers -> NodeOrNull]
          /\ \A q \in Producers \ {p} : prod'[q] = prod[q]
          /\ Ownership'
      BY <2>1, <2>2, <3>1, <3>2, OwnKeeps
    <3>4. QED
      BY <1>5, <3>3, IdleRecord DEF Recycle, ProducerTypes
  <2>3. CASE ~Inactive[n]
    <3> DEFINE r == [prod[p] EXCEPT !.pc = "scan", !.node = Next_[n]]
    <3>1. r \in Work /\ r.pc = "scan"
      BY <2>1 DEF ProducerTypes, Work
    <3>2. prod' = [prod EXCEPT ![p] = r] /\ UNCHANGED <<Token, Implicit>>
      BY <1>5, <2>3 DEF Recycle
    <3> HIDE DEF r
    <3>3. /\ prod' \in [Producers -> Work] /\ prod'[p] = r
          /\ \A q \in Producers \ {p} : prod'[q] = prod[q]
      BY <3>1, <3>2, NewRecord
    <3>4. Inactive' = Inactive
      BY <1>5, <2>1, <2>3 DEF Recycle, ProducerTypes
    <3>5. ProducerTypes'
      BY <1>5, <3>1, <3>2, <3>3, <3>4 DEF Recycle, ProducerTypes
    <3>6. Ownership'
      BY <1>5, <3>1, <3>2, <3>3, <3>4 DEF Recycle, ProducerTypes, Ownership, Has, Linking
    <3>7. QED
      BY <3>5, <3>6
  <2>4. QED
    BY <2>2, <2>3
<1>6. CASE CountProducer(p)
  <2>1. Fresh \in Nodes /\ Type[Fresh] = "none"
    BY <1>6, FreshIsUnused DEF CountProducer, Looking
  <2>2. prod[p].want \in Types
    BY DEF ProducerTypes, Work
  <2>3. SetNext(p, Fresh) /\ UNCHANGED Inactive /\ Type' = [Type EXCEPT ![Fresh] = prod[p].want]
    BY <1>6 DEF CountProducer
  <2>4. /\ prod' \in [Producers -> Work] /\ prod'[p].pc = "link" /\ prod'[p].node = Fresh
        /\ Next_' \in [Nodes -> NodeOrNull]
        /\ \A q \in Producers \ {p} : prod'[q] = prod[q]
        /\ Ownership'
    BY <2>1, <2>2, <2>3, SetNextKeeps
  <2>5. ProducerTypes'
    BY <1>6, <2>1, <2>2, <2>3, <2>4 DEF CountProducer, SetNext, ProducerTypes, Nodes, nullptr
  <2>6. QED
    BY <2>4, <2>5
<1>7. CASE Link(p)
  <2> DEFINE n == prod[p].node
  <2>1. n \in Nodes /\ n \in NodeOrNull /\ Linking(p, n)
    BY <1>7 DEF Link, Linking, Work, Nodes, NodeOrNull, nullptr, ProducerTypes
  <2>2. Type[n] # "none" /\ ~Inactive[n]
    BY <2>1 DEF Ownership, Has
  <2>3. CASE Own(p, n) /\ ProducerListsHead' = n /\ UNCHANGED Next_
    <3>1. UNCHANGED Type /\ Inactive' = [Inactive EXCEPT ![n] = FALSE]
      BY <1>7, <2>1, <2>2 DEF Link, ProducerTypes
    <3>2. /\ prod' \in [Producers -> Work] /\ prod'[p] = Idle
          /\ Token' \in [Producers -> NodeOrNull] /\ Implicit' \in [Producers -> NodeOrNull]
          /\ \A q \in Producers \ {p} : prod'[q] = prod[q]
          /\ Ownership'
      BY <2>1, <2>2, <2>3, <3>1, OwnKeeps
    <3>3. QED
      BY <1>7, <2>1, <2>3, <3>1, <3>2, IdleRecord DEF Link, ProducerTypes
  <2>4. CASE SetNext(p, n) /\ UNCHANGED ProducerListsHead
    <3>1. /\ prod' \in [Producers -> Work] /\ prod'[p].pc = "link" /\ prod'[p].node = n
          /\ Next_' \in [Nodes -> NodeOrNull]
          /\ \A q \in Producers \ {p} : prod'[q] = prod[q]
          /\ Ownership'
      BY <1>7, <2>1, <2>4, SetNextKeeps DEF Link
    <3>2. QED
      BY <1>7, <2>1, <2>4, <3>1 DEF Link, SetNext, ProducerTypes, Nodes, nullptr
  <2>5. QED
    BY <1>7, <2>3, <2>4 DEF Link
<1>8. CASE DestroyToken(p)
  <2>1. Token[p] \in Nodes /\ nullptr \in NodeOrNull /\ nullptr \notin Nodes
    BY <1>8 DEF DestroyToken, ProducerTypes, Nodes, NodeOrNull, nullptr
  <2>2. QED
    BY <1>8, <2>1 DEF DestroyToken, ProducerTypes, Ownership, Has, Linking
<1>9. ASSUME NEW k \in 1..2, Enqueue(p, k) \/ EnqueueWithToken(p, k)
      PROVE  ProducerTypes' /\ Ownership'
  BY <1>9 DEF Enqueue, EnqueueWithToken, producing, ProducerTypes, Ownership, Has, Linking
<1>10. ASSUME NEW q \in Producers, MoveToken(p, q) PROVE ProducerTypes' /\ Ownership'
  <2>1. Token[p] \in Nodes /\ nullptr \in NodeOrNull /\ nullptr \notin Nodes /\ p # q
    BY <1>10 DEF MoveToken, ProducerTypes, Nodes, NodeOrNull, nullptr
  <2>2. QED
    BY <1>10, <2>1 DEF MoveToken, ProducerTypes, Ownership, Has, Linking
<1>11. QED
  BY <1>2, <1>3, <1>4, <1>5, <1>6, <1>7, <1>8, <1>9, <1>10 DEF ProducerStep

\* Each step of a producer leaves room: who begins to look was let in for it, and
\* who creates a node no longer looks.
LEMMA ProducerStepLeavesRoom ==
  ASSUME OwnerInv, NEW p \in Producers, ProducerStep(p)
  PROVE  Room'
<1> USE DEF list, offsets
<1>1. prod \in [Producers -> Work] /\ plan.nodes \in Nat
  BY ConcurrentQueueAssumption DEF OwnerInv, ProducerTypes, Plan
<1>2. ASSUME Looking' \subseteq Looking, UNCHANGED <<Type, plan>> PROVE Room'
  <2>1. Used' = Used
    BY <1>2 DEF Used
  <2>2. Cardinality(Looking') \in Nat /\ Cardinality(Looking') <= Cardinality(Looking)
    BY <1>2, CountsFinite, FS_Subset, FS_CardinalityType
  <2>3. QED
    BY <1>1, <1>2, <2>1, <2>2, CountsFinite DEF OwnerInv, Room
<1>3. ASSUME NEW type \in Types, Acquire(p, type), prod[p].pc = "idle",
             UNCHANGED <<Type, plan>>
      PROVE  Room'
  <2>1. Looking' = Looking \cup {p}
    BY <1>1, <1>3 DEF Acquire, Looking, Idle
  <2>2. p \notin Looking /\ Used' = Used
    BY <1>3 DEF Looking, Used
  <2>3. Cardinality(Looking') = Cardinality(Looking) + 1
    BY <2>1, <2>2, CountsFinite, FS_AddElement
  <2>4. plan.nodes - Cardinality(Used) > Cardinality(Looking)
    BY <1>3 DEF Acquire, Used, Looking
  <2>5. QED
    BY <1>1, <1>3, <2>2, <2>3, <2>4, CountsFinite DEF Room
<1>4. CASE ConstructToken(p)
  BY <1>3, <1>4 DEF ConstructToken, Types
<1>5. CASE ConstructImplicit(p)
  BY <1>3, <1>5 DEF ConstructImplicit, Types
<1>6. CASE ScanNode(p)
  BY <1>1, <1>2, <1>6 DEF ScanNode, Looking
<1>7. CASE Recycle(p)
  BY <1>1, <1>2, <1>7 DEF Recycle, Own, Looking, Idle
<1>8. CASE CountProducer(p)
  <2>1. Fresh \in Nodes /\ Type[Fresh] = "none"
    BY <1>8, FreshIsUnused DEF CountProducer, Looking
  <2>2. Looking' = Looking \ {p} /\ p \in Looking
    BY <1>1, <1>8 DEF CountProducer, SetNext, Looking
  <2>3. Used' = Used \cup {Fresh} /\ Fresh \notin Used
    BY <1>8, <2>1 DEF CountProducer, Used, OwnerInv, ProducerTypes, Types, Work
  <2>4. Cardinality(Looking') = Cardinality(Looking) - 1
    BY <2>2, CountsFinite, FS_RemoveElement
  <2>5. Cardinality(Used') = Cardinality(Used) + 1
    BY <2>3, CountsFinite, FS_AddElement
  <2>6. QED
    BY <1>1, <1>8, <2>4, <2>5, CountsFinite DEF CountProducer, OwnerInv, Room
<1>9. CASE Link(p)
  <2>1. prod'[p].pc \in {"idle", "link"} /\ \A q \in Producers \ {p} : prod'[q] = prod[q]
    <3>1. CASE Own(p, prod[p].node)
      BY <1>1, <3>1 DEF Own, Idle
    <3>2. CASE SetNext(p, prod[p].node)
      BY <1>1, <3>2 DEF SetNext
    <3>3. QED
      BY <1>9, <3>1, <3>2 DEF Link
  <2>2. Looking' \subseteq Looking
    BY <2>1 DEF Looking
  <2>3. QED
    BY <1>2, <1>9, <2>2 DEF Link
<1>10. CASE DestroyToken(p)
  BY <1>2, <1>10 DEF DestroyToken, Looking
<1>11. ASSUME NEW k \in 1..2, Enqueue(p, k) \/ EnqueueWithToken(p, k) PROVE Room'
  <2>1. Looking' = Looking
    BY <1>11 DEF Enqueue, EnqueueWithToken, producing, Looking
  <2>2. QED
    BY <1>2, <1>11, <2>1 DEF Enqueue, EnqueueWithToken
<1>12. ASSUME NEW q \in Producers, MoveToken(p, q) PROVE Room'
  BY <1>2, <1>12 DEF MoveToken, Looking
<1>13. QED
  BY <1>4, <1>5, <1>6, <1>7, <1>8, <1>9, <1>10, <1>11, <1>12 DEF ProducerStep

\* Every step of the queue keeps the invariant.
LEMMA OwnerInvNext == OwnerInv /\ [Next]_cqVars => OwnerInv'
<1> SUFFICES ASSUME OwnerInv, [Next]_cqVars PROVE OwnerInv'
  OBVIOUS
<1>1. ASSUME NEW p \in Producers, ProducerStep(p) PROVE OwnerInv'
  BY <1>1, ProducerStepKeeps, ProducerStepLeavesRoom DEF OwnerInv
<1>2. ASSUME UNCHANGED <<plan, list, producing>> PROVE OwnerInv'
  BY <1>2
  DEF OwnerInv, ProducerTypes, Ownership, Has, Linking, Room, Looking, Used, list, producing
<1>3. ASSUME NEW c \in Consumers, ConsumerStep(c) PROVE OwnerInv'
  BY <1>2, <1>3, ConsumersLeaveProducers
<1>4. CASE UNCHANGED cqVars
  BY <1>2, <1>4 DEF cqVars, offsets
<1>5. QED
  BY <1>1, <1>3, <1>4 DEF Next

-----------------------------------------------------------------------------
(* Theorems. *)

\* The invariant holds of every behaviour.
THEOREM OwnersCorrect == Spec => []OwnerInv
BY OwnerInvInit, OwnerInvNext, PTL DEF Spec

\* Two threads never enqueue to one sub-queue, and none to an inactive one: the
\* compare-and-swap on Inactive and on the head of the list suffice for it.
THEOREM ProducersHaveOneOwner == Spec => []OneOwner
<1>1. OwnerInv => OneOwner
  <2> SUFFICES ASSUME OwnerInv, NEW n \in Nodes
               PROVE  LET owners == {p \in Producers : Token[p] = n} \cup
                                    {<<p>> : p \in {p \in Producers : Implicit[p] = n}}
                      IN  Cardinality(owners) <= 1 /\ (Inactive[n] => owners = {})
    BY DEF OneOwner
  <2> DEFINE tokens == {p \in Producers : Token[p] = n}
             threads == {p \in Producers : Implicit[p] = n}
             owners == tokens \cup {<<p>> : p \in threads}
  <2>1. \A p \in tokens \cup threads : Has(p, n)
    BY DEF Has
  <2>2. Inactive[n] => owners = {}
    BY <2>1 DEF OwnerInv, Ownership
  <2>3. \A p, q \in tokens \cup threads : p = q
    BY <2>1 DEF OwnerInv, Ownership
  <2>4. tokens = {} \/ threads = {}
    BY DEF OwnerInv, Ownership
  <2>5. owners = {} \/ \E x : owners = {x}
    BY <2>3, <2>4
  <2>6. Cardinality(owners) <= 1
    <3>1. CASE owners = {}
      BY <3>1, FS_EmptySet
    <3>2. ASSUME NEW x, owners = {x} PROVE Cardinality(owners) = 1
      BY <3>2, FS_Singleton
    <3> HIDE DEF owners
    <3>3. QED
      BY <2>5, <3>1, <3>2
  <2>7. QED
    BY <2>2, <2>6
<1>2. QED
  BY <1>1, OwnersCorrect, PTL

-----------------------------------------------------------------------------
(* The list, its count, and what consumers remember of both. *)

\* The nodes that have been created and linked.
Linked == {n \in Nodes : Type[n] # "none" /\ \A p \in Producers : ~Linking(p, n)}

\* The list holds these, all of them and no others.
Complete ==
  /\ Closed(ProducerListsHead, Linked)
  /\ \A S \in SUBSET Nodes : Closed(ProducerListsHead, S) => Linked \subseteq S

\* A node that is about to be linked has the head its thread has seen for its next.
NextSeen == \A p \in Producers : prod[p].pc = "link" => Next_[prod[p].node] = prod[p].head

\* The count is that of all nodes created, linked or not.
Counted == ProducerCount = Cardinality(Used)

\* Only linked nodes have items.
Stored == items \in [Nodes -> Nat] /\ \A n \in Nodes : items[n] > 0 => n \in Linked

\* The records of the consumers have their fields, and what is left to get is a number.
Shapes ==
  /\ DOMAIN call = Consumers /\ DOMAIN consumer = Consumers
  /\ \A c \in Consumers : /\ DOMAIN call[c] = DOMAIN NoCall /\ call[c].left \in Int
                          /\ DOMAIN consumer[c] = DOMAIN NewConsumerToken

\* A head a consumer has loaded is in the list, and the count it loaded after it
\* covers what follows the head; who has a producer knows that there are some.
Updating(c) ==
  /\ consumer[c].DesiredProducer # nullptr => Used # {}
  /\ call[c].pc \in {"count", "offset"} =>
       Used # {} /\ call[c].head \in Linked \cup {nullptr}
  /\ call[c].pc = "offset" =>
       call[c].count >= Cardinality(From(call[c].head)) /\ call[c].count > 0

ListInv ==
  /\ OwnerInv /\ Complete /\ NextSeen /\ Counted /\ Stored /\ Shapes
  /\ \A c \in Consumers : Updating(c)

\* A step that leaves the linked nodes, their order and the head.
LEMMA ListKept ==
  ASSUME Complete, Linked' = Linked, ProducerListsHead' = ProducerListsHead,
         \A n \in Linked : Next_'[n] = Next_[n]
  PROVE  Complete'
<1>1. Closed(ProducerListsHead, Linked)'
  BY DEF Complete, Closed
<1>2. ASSUME NEW S \in SUBSET Nodes, Closed(ProducerListsHead, S)' PROVE Linked' \subseteq S
  <2>1. Closed(ProducerListsHead, S \cap Linked)
    BY <1>2 DEF Complete, Closed
  <2>2. Linked \subseteq S \cap Linked
    BY <2>1 DEF Complete
  <2>3. QED
    BY <2>2
<1>3. QED
  BY <1>1, <1>2 DEF Complete

\* What follows a linked node stays what it is, for Next is not written again.
LEMMA FromKept ==
  ASSUME Complete, NEW h \in Linked \cup {nullptr},
         \A n \in Linked : Next_'[n] = Next_[n]
  PROVE  From(h)' = From(h)
<1>1. \A n \in Linked : Next_[n] \in Linked \cup {nullptr}
  BY DEF Complete, Closed
<1>2. Linked \subseteq Nodes
  BY DEF Linked
<1>3. ASSUME NEW m \in From(h)' PROVE m \in From(h)
  <2>1. ASSUME NEW S \in SUBSET Nodes, Closed(h, S) PROVE m \in S
    <3>1. PICK K \in SUBSET Nodes : K = S \cap Linked
      OBVIOUS
    <3>2. Closed(h, K)'
      BY <1>1, <2>1, <3>1 DEF Closed
    <3>3. QED
      BY <1>3, <3>1, <3>2 DEF From
  <2>2. QED
    BY <1>3, <2>1 DEF From
<1>4. ASSUME NEW m \in From(h) PROVE m \in From(h)'
  <2>1. ASSUME NEW S \in SUBSET Nodes, Closed(h, S)' PROVE m \in S
    <3>1. Closed(h, S \cap Linked)
      BY <1>1, <2>1 DEF Closed
    <3>2. QED
      BY <1>2, <1>4, <3>1 DEF From
  <2>2. QED
    BY <1>4, <2>1 DEF From
<1>5. QED
  BY <1>3, <1>4

\* The list holds the linked nodes; after one of them follow only such.
LEMMA ListedAreLinked ==
  ASSUME Complete
  PROVE  Linked = Listed /\ \A h \in Linked \cup {nullptr} : From(h) \subseteq Linked
<1>1. Linked \in SUBSET Nodes /\ Closed(ProducerListsHead, Linked)
  BY DEF Linked, Complete
<1>2. Linked = Listed
  BY <1>1 DEF Listed, From, Complete
<1>3. ASSUME NEW h \in Linked \cup {nullptr} PROVE From(h) \subseteq Linked
  <2>1. Closed(h, Linked)
    BY <1>1 DEF Closed
  <2>2. QED
    BY <1>1, <2>1 DEF From
<1>4. QED
  BY <1>2, <1>3

\* Who owns a producer owns a linked one, and so is one that can be recycled.
LEMMA OwnedAreLinked ==
  ASSUME OwnerInv, NEW n \in Nodes,
         Inactive[n] \/ \E p \in Producers : Token[p] = n \/ Implicit[p] = n
  PROVE  n \in Linked
BY DEF OwnerInv, Ownership, Has, Linked

\* An empty queue.
LEMMA ListInvInit == Init => ListInv
<1> SUFFICES ASSUME Init PROVE ListInv
  OBVIOUS
<1>1. OwnerInv
  BY OwnerInvInit
<1>2. Used = {} /\ Linked = {}
  BY DEF Init, Used, Linked
<1>3. Complete
  BY <1>2 DEF Init, Complete, Closed
<1>4. Counted
  BY <1>2, FS_EmptySet DEF Init, Counted
<1>5. NextSeen /\ Stored
  BY DEF Init, Idle, NextSeen, Stored
<1>6. Shapes
  BY DEF Init, Shapes, NoCall
<1>7. \A c \in Consumers : Updating(c)
  BY DEF Init, Updating, NoCall, NewConsumerToken
<1>8. QED
  BY <1>1, <1>3, <1>4, <1>5, <1>6, <1>7 DEF ListInv

\* Steps of a producer that leave the list and link nothing.
LEMMA ProducerQuiet ==
  ASSUME ListInv, UNCHANGED <<ProducerListsHead, ProducerCount, Next_, Type>>,
         \A p \in Producers, n \in Nodes : Linking(p, n)' <=> Linking(p, n),
         \A p \in Producers : prod'[p].pc = "link" => prod'[p] = prod[p]
  PROVE  Complete' /\ NextSeen' /\ Counted' /\ Linked' = Linked
<1>1. Linked' = Linked /\ Used' = Used
  BY DEF Linked, Used
<1>2. QED
  BY <1>1, ListKept DEF ListInv, NextSeen, Counted

\* What the steps of a producer do to the list.
LEMMA ProducerKeepsList ==
  ASSUME ListInv, NEW p \in Producers, ProducerStep(p), OwnerInv'
  PROVE  /\ Complete' /\ NextSeen' /\ Counted'
         /\ Linked \subseteq Linked' /\ Used \subseteq Used'
         /\ \A n \in Linked : Next_'[n] = Next_[n]
         /\ \A n \in Linked' \ Linked : Next_'[n] \in Linked \cup {nullptr}
<1> USE DEF list, offsets
<1>1. /\ prod \in [Producers -> Work] /\ prod' \in [Producers -> Work]
      /\ Type \in [Nodes -> Types \cup {"none"}] /\ Next_ \in [Nodes -> NodeOrNull]
      /\ \A q \in Producers : prod[q].pc = "link" => prod[q].node \in Nodes
      /\ Complete /\ NextSeen /\ Counted /\ OwnerInv
  <2>1. OwnerInv /\ Complete /\ NextSeen /\ Counted
    BY DEF ListInv
  <2>2. ASSUME NEW q \in Producers, prod[q].pc = "link" PROVE prod[q].node \in Nodes
    <3>1. prod[q] \in Work /\ prod[q].node # nullptr
      BY <2>1, <2>2 DEF OwnerInv, ProducerTypes
    <3>2. QED
      BY <3>1 DEF Work, Nodes, NodeOrNull, nullptr
  <2>3. QED
    BY <2>1, <2>2 DEF OwnerInv, ProducerTypes
<1>2. ASSUME UNCHANGED <<ProducerListsHead, ProducerCount, Next_, Type>>,
             prod[p].pc # "link", prod'[p].pc # "link",
             \A q \in Producers \ {p} : prod'[q] = prod[q]
      PROVE  /\ Complete' /\ NextSeen' /\ Counted'
             /\ Linked \subseteq Linked' /\ Used \subseteq Used'
             /\ \A n \in Linked : Next_'[n] = Next_[n]
             /\ \A n \in Linked' \ Linked : Next_'[n] \in Linked \cup {nullptr}
  <2>1. \A q \in Producers, n \in Nodes : Linking(q, n)' <=> Linking(q, n)
    BY <1>2 DEF Linking
  <2>2. \A q \in Producers : prod'[q].pc = "link" => prod'[q] = prod[q]
    BY <1>2
  <2>3. QED
    BY <1>2, <2>1, <2>2, ProducerQuiet DEF Used
<1>3. CASE ConstructToken(p) \/ ConstructImplicit(p)
  BY <1>1, <1>2, <1>3 DEF ConstructToken, ConstructImplicit, Acquire, Idle
<1>4. CASE ScanNode(p)
  BY <1>1, <1>2, <1>4 DEF ScanNode
<1>5. CASE Recycle(p)
  <2>1. /\ prod'[p].pc \in {"idle", "scan"} /\ prod[p].pc = "recycle"
        /\ \A q \in Producers \ {p} : prod'[q] = prod[q]
    <3>1. CASE Own(p, prod[p].node)
      BY <1>1, <1>5, <3>1 DEF Recycle, Own, Idle
    <3>2. CASE prod' = [prod EXCEPT ![p].pc = "scan", ![p].node = Next_[prod[p].node]]
      BY <1>1, <1>5, <3>2 DEF Recycle, Work
    <3>3. QED
      BY <1>5, <3>1, <3>2 DEF Recycle
  <2>2. UNCHANGED <<ProducerListsHead, ProducerCount, Next_, Type>>
    BY <1>5 DEF Recycle
  <2>3. QED
    BY <1>2, <2>1, <2>2
<1>6. CASE DestroyToken(p)
  BY <1>1, <1>6, ProducerQuiet DEF DestroyToken, Linking, Used
<1>7. ASSUME NEW k \in 1..2, Enqueue(p, k) \/ EnqueueWithToken(p, k)
      PROVE  /\ Complete' /\ NextSeen' /\ Counted'
             /\ Linked \subseteq Linked' /\ Used \subseteq Used'
             /\ \A n \in Linked : Next_'[n] = Next_[n]
             /\ \A n \in Linked' \ Linked : Next_'[n] \in Linked \cup {nullptr}
  BY <1>1, <1>7, ProducerQuiet DEF Enqueue, EnqueueWithToken, producing, Linking, Used
<1>8. ASSUME NEW q \in Producers, MoveToken(p, q)
      PROVE  /\ Complete' /\ NextSeen' /\ Counted'
             /\ Linked \subseteq Linked' /\ Used \subseteq Used'
             /\ \A n \in Linked : Next_'[n] = Next_[n]
             /\ \A n \in Linked' \ Linked : Next_'[n] \in Linked \cup {nullptr}
  BY <1>1, <1>8, ProducerQuiet DEF MoveToken, Linking, Used
<1>9. CASE CountProducer(p)
  <2>1. PICK x \in Nodes : x = Fresh /\ Type[x] = "none"
    BY <1>1, <1>9, FreshIsUnused DEF CountProducer, Looking
  <2>2. /\ Type' = [Type EXCEPT ![x] = prod[p].want] /\ prod[p].want # "none"
        /\ ProducerCount' = (ProducerCount + 1) % Width
        /\ Next_' = [Next_ EXCEPT ![x] = ProducerListsHead]
        /\ prod' = [prod EXCEPT ![p].pc = "link", ![p].node = x, ![p].head = ProducerListsHead]
        /\ UNCHANGED ProducerListsHead /\ prod[p].pc = "scan"
    BY <1>1, <1>9, <2>1 DEF CountProducer, SetNext, Work, Types
  <2>3. /\ prod'[p].pc = "link" /\ prod'[p].node = x /\ prod'[p].head = ProducerListsHead
        /\ \A q \in Producers \ {p} : prod'[q] = prod[q]
    BY <1>1, <2>2 DEF Work
  <2>4. \A q \in Producers, n \in Nodes :
          Linking(q, n)' <=> Linking(q, n) \/ (q = p /\ n = x)
    BY <2>2, <2>3 DEF Linking
  <2>5. Linked' = Linked /\ x \notin Linked
    BY <1>1, <2>1, <2>2, <2>4 DEF Linked
  <2>6. \A n \in Linked : Next_'[n] = Next_[n]
    BY <1>1, <2>2, <2>5 DEF Linked
  <2>7. Complete'
    BY <1>1, <2>2, <2>5, <2>6, ListKept
  <2>8. NextSeen'
    <3>1. ASSUME NEW q \in Producers, prod'[q].pc = "link"
          PROVE  Next_'[prod'[q].node] = prod'[q].head
      <4>1. CASE q = p
        BY <1>1, <2>1, <2>2, <2>3, <4>1
      <4>2. CASE q # p
        <5>1. prod[q].node \in Nodes /\ prod[q].node # x /\ prod'[q] = prod[q]
          BY <1>1, <2>1, <2>3, <3>1, <4>2 DEF OwnerInv, Ownership, Has, Linking
        <5>2. QED
          BY <1>1, <2>2, <3>1, <5>1 DEF NextSeen
      <4>3. QED
        BY <4>1, <4>2
    <3>2. QED
      BY <3>1 DEF NextSeen
  <2>9. Used' = Used \cup {x} /\ x \notin Used
    BY <1>1, <2>1, <2>2 DEF Used
  <2>10. Cardinality(Used)' = Cardinality(Used) + 1
    BY <2>9, CountsFinite, FS_AddElement
  <2>11. Cardinality(Used) + 1 < Width
    <3>1. Cardinality(Looking) # 0
      BY <2>2, CountsFinite, FS_EmptySet DEF Looking
    <3>2. plan.nodes \in 0..MaxNodes
      BY <1>1 DEF OwnerInv, ProducerTypes, Plan
    <3>3. QED
      BY <1>1, <3>1, <3>2, CountsFinite, ConcurrentQueueAssumption DEF OwnerInv, Room
  <2>12. Counted'
    <3>1. ASSUME NEW k \in Nat, k + 1 < Width PROVE (k + 1) % Width = k + 1
      BY <3>1, ConcurrentQueueAssumption
    <3>2. (Cardinality(Used) + 1) % Width = Cardinality(Used) + 1
      BY <2>11, <3>1, CountsFinite
    <3>3. QED
      BY <1>1, <2>2, <2>10, <3>2 DEF Counted
  <2>13. QED
    BY <2>5, <2>6, <2>7, <2>8, <2>9, <2>12
<1>10. CASE Link(p)
  <2>1. PICK x \in Nodes : x = prod[p].node /\ Linking(p, x) /\ Type[x] # "none"
    BY <1>1, <1>10 DEF Link, Linking, OwnerInv, Ownership, Has
  <2>2. UNCHANGED <<ProducerCount, Type>> /\ Used' = Used /\ Counted'
    BY <1>1, <1>10 DEF Link, Used, Counted
  <2>3. \A q \in Producers \ {p} : ~Linking(q, x)
    BY <1>1, <2>1 DEF OwnerInv, Ownership, Has
  <2>4. CASE /\ ProducerListsHead = prod[p].head /\ ProducerListsHead' = x
             /\ Own(p, x) /\ UNCHANGED Next_
    <3>1. prod'[p].pc # "link" /\ \A q \in Producers \ {p} : prod'[q] = prod[q]
      BY <1>1, <2>4 DEF Own, Idle
    <3>2. Linked' = Linked \cup {x}
      BY <1>1, <2>1, <2>2, <2>3, <3>1 DEF Linked, Linking
    <3>3. Next_[x] = ProducerListsHead
      BY <1>1, <2>1, <2>4 DEF NextSeen, Linking
    <3>4. Closed(ProducerListsHead, Linked)'
      BY <1>1, <2>4, <3>2, <3>3 DEF Complete, Closed
    <3>5. ASSUME NEW S \in SUBSET Nodes, Closed(ProducerListsHead, S)' PROVE Linked' \subseteq S
      <4>1. x \in S
        BY <2>4, <3>5, ConcurrentQueueAssumption DEF Closed, Nodes, nullptr
      <4>2. Closed(ProducerListsHead, S)
        BY <2>4, <3>3, <3>5, <4>1 DEF Closed
      <4>3. QED
        BY <1>1, <3>2, <4>1, <4>2 DEF Complete
    <3>6. NextSeen'
      BY <1>1, <2>4, <3>1 DEF NextSeen
    <3>7. Next_'[x] \in Linked \cup {nullptr}
      BY <1>1, <2>4, <3>3 DEF Complete, Closed
    <3>8. QED
      BY <2>2, <2>4, <3>2, <3>4, <3>5, <3>6, <3>7 DEF Complete
  <2>5. CASE SetNext(p, x) /\ UNCHANGED ProducerListsHead
    <3>1. /\ prod'[p].pc = "link" /\ prod'[p].node = x /\ prod'[p].head = ProducerListsHead
          /\ \A q \in Producers \ {p} : prod'[q] = prod[q]
          /\ Next_' = [Next_ EXCEPT ![x] = ProducerListsHead]
      BY <1>1, <2>5 DEF SetNext, Work
    <3>2. \A q \in Producers, n \in Nodes : Linking(q, n)' <=> Linking(q, n)
      BY <2>1, <3>1 DEF Linking
    <3>3. Linked' = Linked /\ x \notin Linked
      BY <2>1, <2>2, <3>2 DEF Linked
    <3>4. \A n \in Linked : Next_'[n] = Next_[n]
      BY <1>1, <3>1, <3>3 DEF Linked
    <3>5. NextSeen'
      BY <1>1, <2>3, <3>1 DEF NextSeen, Linking
    <3>6. Complete'
      BY <1>1, <2>5, <3>3, <3>4, ListKept
    <3>7. QED
      BY <2>2, <3>3, <3>4, <3>5, <3>6
  <2>6. QED
    BY <1>10, <2>1, <2>4, <2>5 DEF Link
<1>11. QED
  BY <1>3, <1>4, <1>5, <1>6, <1>7, <1>8, <1>9, <1>10 DEF ProducerStep

\* Only a thread that owns a producer puts items into it.
LEMMA ProducerKeepsStored ==
  ASSUME ListInv, NEW p \in Producers, ProducerStep(p), Linked \subseteq Linked'
  PROVE  Stored'
<1> USE DEF list, offsets
<1>1. /\ Token \in [Producers -> NodeOrNull] /\ Implicit \in [Producers -> NodeOrNull]
      /\ OwnerInv /\ Stored
  BY DEF ListInv, OwnerInv, ProducerTypes
<1>2. CASE UNCHANGED items
  BY <1>1, <1>2 DEF Stored
<1>3. ASSUME NEW k \in 1..2, Enqueue(p, k) \/ EnqueueWithToken(p, k) PROVE Stored'
  <2>1. PICK n \in Nodes :
          (Token[p] = n \/ Implicit[p] = n) /\ items' = [items EXCEPT ![n] = @ + k]
    BY <1>1, <1>3 DEF Enqueue, EnqueueWithToken, Publish, NodeOrNull, Nodes, nullptr
  <2>2. n \in Linked
    BY <1>1, <2>1, OwnedAreLinked
  <2>3. QED
    BY <1>1, <2>1, <2>2 DEF Stored
<1>4. QED
  BY <1>2, <1>3
  DEF ProducerStep, ConstructToken, ConstructImplicit, ScanNode, Recycle, CountProducer, Link,
      DestroyToken, MoveToken

\* No consumer takes more items than there are.
LEMMA ConsumerKeepsStored ==
  ASSUME Stored, Shapes, NEW c \in Consumers, ConsumerStep(c), Linked' = Linked
  PROVE  Stored'
<1>1. ASSUME NEW n, NEW k \in Int, 0 <= k, n \in Nodes => k <= items[n], Take(n, k) PROVE Stored'
  <2>1. CASE n \in Nodes
    <3>1. items' = [items EXCEPT ![n] = items[n] - k] /\ items[n] - k \in Nat /\ k <= items[n]
      BY <1>1, <2>1 DEF Stored, Take
    <3>2. items' \in [Nodes -> Nat] /\ \A m \in Nodes : items'[m] <= items[m]
      BY <1>1, <2>1, <3>1 DEF Stored
    <3>3. QED
      BY <3>2 DEF Stored
  <2>2. CASE n \notin Nodes
    <3>1. items' = items
      BY <1>1, <2>2 DEF Stored, Take
    <3>2. QED
      BY <3>1 DEF Stored
  <2>3. QED
    BY <2>1, <2>2
<1>2. ASSUME NEW n, NEW max \in Int, NEW k \in 0..max, Yields(c, n, max, k), Take(n, k) PROVE Stored'
  <2>1. k \in Int /\ 0 <= k
    BY <1>2
  <2>2. ASSUME n \in Nodes PROVE k <= items[n]
    <3>1. items[n] \in Nat
      BY <2>2 DEF Stored
    <3>2. CASE max <= items[n]
      BY <1>2, <3>1, <3>2 DEF Yields
    <3>3. CASE ~(max <= items[n])
      BY <1>2, <3>1, <3>3 DEF Yields
    <3>4. QED
      BY <3>2, <3>3
  <2>3. QED
    BY <1>1, <1>2, <2>1, <2>2
<1>3. CASE UNCHANGED items
  BY <1>3 DEF Stored
<1>4. CASE WalkNode(c)
  <2>1. PICK k \in 0..call[c].left :
          /\ IF call[c].node = call[c].Best THEN k = 0 ELSE Yields(c, call[c].node, call[c].left, k)
          /\ Take(call[c].node, k)
    BY <1>4 DEF WalkNode
  <2>2. CASE k = 0
    BY <1>1, <2>1, <2>2 DEF Stored
  <2>3. CASE Yields(c, call[c].node, call[c].left, k)
    BY <1>2, <2>1, <2>3 DEF Shapes
  <2>4. QED
    BY <2>1, <2>2, <2>3
<1>5. CASE TakeBest(c)
  <2>1. PICK k \in 0..1 : Yields(c, call[c].Best, 1, k) /\ Take(call[c].Best, k)
    BY <1>5 DEF TakeBest
  <2>2. QED
    BY <1>2, <2>1 DEF Shapes
<1>6. CASE TakeCurrent(c)
  <2>1. PICK k \in 0..call[c].left : /\ Yields(c, consumer[c].CurrentProducer, call[c].left, k)
                                    /\ Take(consumer[c].CurrentProducer, k)
    BY <1>6 DEF TakeCurrent
  <2>2. QED
    BY <1>2, <2>1 DEF Shapes
<1>7. CASE RingNode(c)
  <2>1. PICK k \in 0..call[c].left : /\ Yields(c, call[c].node, call[c].left, k)
                                    /\ Take(call[c].node, k)
    BY <1>7 DEF RingNode
  <2>2. QED
    BY <1>2, <2>1 DEF Shapes
<1>8. QED
  BY <1>3, <1>4, <1>5, <1>6, <1>7
  DEF ConsumerStep, BeginWalk, BeginToken, BeginBest, SizeNode, ConstructConsumerToken,
      UpdateHead, UpdateCount, UpdateOffset, Rotate, BeginRing, Return

-----------------------------------------------------------------------------
(* The consumers' records. *)

\* A record of a consumer; one that is not about to use a head and a count.
IsCall(r) == DOMAIN r = DOMAIN NoCall /\ r.left \in Int
Elsewhere(r) == IsCall(r) /\ r.pc \notin {"count", "offset"}

\* A call that goes on with what it has got.
LEMMA GotIsCall ==
  ASSUME Shapes, NEW c \in Consumers, NEW n, NEW k \in Int
  PROVE  IsCall(Got(c, n, k)) /\ Got(c, n, k).pc = call[c].pc
BY DEF Shapes, IsCall, Got, NoCall

\* A call that ends.
LEMMA FinishEnds ==
  ASSUME NEW c \in Consumers, NEW r, IsCall(r), Finish(c, r)
  PROVE  \E q : Elsewhere(q) /\ Only(c, q)
<1>1. Elsewhere(NoCall)
  BY DEF Elsewhere, IsCall, NoCall
<1>2. Elsewhere([NoCall EXCEPT !.pc = "return", !.left = r.left, !.owed = r.owed])
  BY DEF Elsewhere, IsCall, NoCall
<1>3. QED
  BY <1>1, <1>2 DEF Finish

\* A round that goes on or ends.
LEMMA RingGoesOn ==
  ASSUME NEW c \in Consumers, NEW r, IsCall(r), NEW n, NEW h, NEW current,
         RingFrom(c, r, n, h, current)
  PROVE  \E q : Elsewhere(q) /\ Only(c, q)
<1> DEFINE next == IF Next_[n] = nullptr THEN h ELSE Next_[n]
           q == [r EXCEPT !.pc = "others", !.head = h, !.node = next]
<1>1. Finish(c, r) \/ Only(c, q)
  BY DEF RingFrom
<1>2. Elsewhere(q)
  BY DEF Elsewhere, IsCall, NoCall
<1>3. QED
  BY <1>1, <1>2, FinishEnds

\* A step of a consumer whose new record has no use for a head or a count.
LEMMA CallGoesOn ==
  ASSUME ListInv, NEW c \in Consumers, NEW r, Elsewhere(r), Only(c, r),
         UNCHANGED <<list, producing>>,
         DOMAIN consumer' = Consumers,
         \A d \in Consumers : /\ DOMAIN consumer'[d] = DOMAIN NewConsumerToken
                              /\ consumer'[d].DesiredProducer # nullptr => Used # {}
  PROVE  Shapes' /\ \A d \in Consumers : Updating(d)'
<1>1. /\ Shapes /\ Linked' = Linked /\ Used' = Used /\ Next_' = Next_
      /\ \A d \in Consumers : Updating(d)
  BY DEF ListInv, Linked, Linking, Used, list, producing
<1>2. call'[c] = r /\ \A d \in Consumers \ {c} : call'[d] = call[d]
  BY <1>1 DEF Only, Shapes
<1>3. Shapes'
  BY <1>1, <1>2 DEF Shapes, Only, Elsewhere, IsCall, NoCall, NewConsumerToken
<1>4. ASSUME NEW d \in Consumers PROVE Updating(d)'
  <2>1. CASE d = c
    BY <1>1, <1>2, <2>1 DEF Elsewhere, Updating
  <2>2. CASE d # c
    <3>1. PICK h : h = call[d].head
      OBVIOUS
    <3>2. From(h)' = From(h)
      BY <1>1 DEF From, Closed
    <3>3. QED
      BY <1>1, <1>2, <2>2, <3>1, <3>2 DEF Updating
  <2>3. QED
    BY <2>1, <2>2
<1>5. QED
  BY <1>3, <1>4

\* A call that begins.
LEMMA CallBegins ==
  ASSUME ListInv, NEW c \in Consumers, NEW kind, NEW at \in {"return", "walk", "size", "update", "current"},
         NEW n, Begin(c, kind, at, n), consumer' = [consumer EXCEPT ![c].calls = @ + 1],
         UNCHANGED <<list, producing>>
  PROVE  Shapes' /\ \A d \in Consumers : Updating(d)'
<1>1. /\ Shapes /\ Linked' = Linked /\ Used' = Used /\ Next_' = Next_
      /\ \A d \in Consumers : Updating(d)
  BY DEF ListInv, Linked, Linking, Used, list, producing
<1>2. /\ DOMAIN call' = Consumers
      /\ DOMAIN call'[c] = DOMAIN NoCall /\ call'[c].left \in Int /\ call'[c].pc = at
      /\ \A d \in Consumers \ {c} : call'[d] = [call[d] EXCEPT !.owed = NoCall.owed]
  <2> DEFINE asked == IF kind \in {"walkBulk", "tokenBulk"} THEN BulkCount ELSE 1
             r == [NoCall EXCEPT !.pc = at, !.kind = kind, !.node = n, !.left = asked,
                                 !.owed = IF Busy = {} THEN items ELSE @]
  <2>1. call' = [d \in Consumers |-> IF d = c THEN r
                                     ELSE [call[d] EXCEPT !.owed = NoCall.owed]]
    BY DEF Begin
  <2>2. DOMAIN r = DOMAIN NoCall /\ r.left = asked /\ r.pc = at
    BY DEF NoCall
  <2>3. asked \in Int
    BY ConcurrentQueueAssumption
  <2> HIDE DEF r, asked
  <2>4. QED
    BY <2>1, <2>2, <2>3
<1>3. ASSUME NEW d \in Consumers \ {c}
      PROVE  /\ DOMAIN call'[d] = DOMAIN NoCall /\ call'[d].left = call[d].left
             /\ call'[d].pc = call[d].pc /\ call'[d].head = call[d].head
             /\ call'[d].count = call[d].count
  <2>1. DOMAIN call[d] = DOMAIN NoCall
    BY <1>1 DEF Shapes
  <2>2. QED
    BY <1>2, <2>1 DEF NoCall
<1>4. /\ DOMAIN consumer' = Consumers
      /\ \A d \in Consumers : /\ DOMAIN consumer'[d] = DOMAIN NewConsumerToken
                               /\ consumer'[d].DesiredProducer = consumer[d].DesiredProducer
  BY <1>1 DEF Shapes, NewConsumerToken
<1>5. Shapes'
  BY <1>1, <1>2, <1>3, <1>4 DEF Shapes, NoCall, NewConsumerToken
<1>6. ASSUME NEW d \in Consumers PROVE Updating(d)'
  <2>1. CASE d = c
    BY <1>1, <1>2, <1>4, <2>1 DEF Updating
  <2>2. CASE d # c
    <3>1. PICK h : h = call[d].head
      OBVIOUS
    <3>2. From(h)' = From(h)
      BY <1>1 DEF From, Closed
    <3>3. QED
      BY <1>1, <1>3, <1>4, <2>2, <3>1, <3>2 DEF Updating
  <2>3. QED
    BY <2>1, <2>2
<1>7. QED
  BY <1>5, <1>6

\* The steps that have to do with a head and a count.
LEMMA UpdateSteps ==
  ASSUME ListInv, NEW c \in Consumers, UpdateHead(c) \/ UpdateCount(c) \/ UpdateOffset(c)
  PROVE  Shapes' /\ \A d \in Consumers : Updating(d)'
<1>1. /\ Shapes /\ Linked' = Linked /\ Used' = Used /\ Next_' = Next_
      /\ UNCHANGED <<list, producing>> /\ \A d \in Consumers : Updating(d)
      /\ DOMAIN call[c] = DOMAIN NoCall /\ IsCall(call[c])
  BY ZenonT(60) DEF UpdateHead, UpdateCount, UpdateOffset, ListInv, Linked, Linking, Used, list, producing,
         Shapes, IsCall
<1>2. Linked \subseteq Used /\ ProducerListsHead \in Linked \cup {nullptr}
  BY DEF ListInv, Linked, Used, Complete, Closed
<1>3. ASSUME NEW q, Only(c, q), UNCHANGED consumer, IsCall(q),
             Used # {}, q.head \in Linked \cup {nullptr},
             q.pc = "offset" => q.count >= Cardinality(From(q.head)) /\ q.count > 0
      PROVE  Shapes' /\ \A d \in Consumers : Updating(d)'
  <2>1. call'[c] = q /\ \A d \in Consumers \ {c} : call'[d] = call[d]
    BY <1>1, <1>3 DEF Only, Shapes
  <2>2. Shapes'
    BY <1>1, <1>3, <2>1 DEF Shapes, Only, IsCall, NoCall, NewConsumerToken
  <2>3. ASSUME NEW d \in Consumers PROVE Updating(d)'
    <3>1. PICK h : h = call'[d].head
      OBVIOUS
    <3>2. From(h)' = From(h)
      BY <1>1 DEF From, Closed
    <3>3. CASE d = c
      BY <1>1, <1>3, <2>1, <3>1, <3>2, <3>3 DEF Updating
    <3>4. CASE d # c
      BY <1>1, <1>3, <2>1, <3>1, <3>2, <3>4 DEF Updating
    <3>5. QED
      BY <3>3, <3>4
  <2>4. QED
    BY <2>2, <2>3
<1>4. CASE UpdateHead(c)
  <2>1. CASE consumer[c].DesiredProducer = nullptr /\ ProducerListsHead = nullptr
    <3>1. PICK q : Elsewhere(q) /\ Only(c, q)
      BY <1>1, <1>4, <2>1, FinishEnds DEF UpdateHead
    <3>2. UNCHANGED consumer
      BY <1>4 DEF UpdateHead
    <3>3. QED
      BY <1>1, <3>1, <3>2, CallGoesOn DEF Updating, Shapes
  <2>2. CASE ~(consumer[c].DesiredProducer = nullptr /\ ProducerListsHead = nullptr)
    <3> DEFINE q == [call[c] EXCEPT !.pc = "count", !.head = ProducerListsHead]
    <3>1. Only(c, q) /\ UNCHANGED consumer
      BY <1>4, <2>2 DEF UpdateHead
    <3>2. IsCall(q) /\ q.pc = "count" /\ q.head = ProducerListsHead
      BY <1>1 DEF IsCall, NoCall
    <3>3. Used # {}
      BY <1>1, <1>2, <2>2 DEF Updating
    <3> HIDE DEF q
    <3>4. QED
      BY <1>2, <1>3, <3>1, <3>2, <3>3
  <2>3. QED
    BY <2>1, <2>2
<1>5. CASE UpdateCount(c)
  <2> DEFINE q == [call[c] EXCEPT !.pc = "offset", !.count = ProducerCount]
  <2>1. Only(c, q) /\ UNCHANGED consumer /\ call[c].pc = "count"
    BY <1>5 DEF UpdateCount
  <2>2. IsCall(q) /\ q.pc = "offset" /\ q.head = call[c].head /\ q.count = Cardinality(Used)
    BY <1>1 DEF IsCall, NoCall, ListInv, Counted
  <2>3. Used # {} /\ call[c].head \in Linked \cup {nullptr}
    BY <1>1, <2>1 DEF Updating
  <2>4. From(call[c].head) \subseteq Used
    BY <1>2, <2>3, ListedAreLinked DEF ListInv
  <2>5. /\ Cardinality(From(call[c].head)) <= Cardinality(Used)
        /\ Cardinality(Used) \in Nat /\ Cardinality(Used) # 0
        /\ Cardinality(From(call[c].head)) \in Nat
    BY <2>3, <2>4, CountsFinite, FS_Subset, FS_EmptySet, FS_CardinalityType
  <2> HIDE DEF q
  <2>6. QED
    BY <1>3, <2>1, <2>2, <2>3, <2>5
<1>6. CASE UpdateOffset(c)
  <2> DEFINE q == [call[c] EXCEPT !.pc = "current", !.head = nullptr, !.count = 0]
  <2>1. /\ Only(c, q) /\ call[c].pc = "offset"
        /\ \E n : consumer' = [consumer EXCEPT ![c].DesiredProducer = n,
             ![c].CurrentProducer = n, ![c].ItemsConsumed = 0,
             ![c].LastKnownGlobalOffset = GlobalExplicitConsumerOffset]
    BY <1>6 DEF UpdateOffset
  <2>2. Elsewhere(q)
    BY <1>1 DEF Elsewhere, IsCall, NoCall
  <2>3. Used # {}
    BY <1>1, <2>1 DEF Updating
  <2>4. /\ DOMAIN consumer' = Consumers
        /\ \A d \in Consumers : DOMAIN consumer'[d] = DOMAIN NewConsumerToken
    BY <1>1, <2>1 DEF Shapes, NewConsumerToken
  <2> HIDE DEF q
  <2>5. QED
    BY <1>1, <2>1, <2>2, <2>3, <2>4, CallGoesOn
<1>7. QED
  BY <1>4, <1>5, <1>6

\* Every step of a consumer keeps what is known of the consumers.
LEMMA ConsumerKeepsCalls ==
  ASSUME ListInv, NEW c \in Consumers, ConsumerStep(c)
  PROVE  Shapes' /\ \A d \in Consumers : Updating(d)'
<1>1. Shapes /\ IsCall(call[c]) /\ \A d \in Consumers : Updating(d)
  BY DEF ListInv, Shapes, IsCall
<1>2. UNCHANGED <<list, producing>>
  BY ConsumersLeaveProducers
<1>3. ASSUME NEW r, Elsewhere(r), Only(c, r),
             \/ UNCHANGED consumer
             \/ \E n, k : consumer' = [consumer EXCEPT ![c].CurrentProducer = n, ![c].ItemsConsumed = k]
             \/ \E k : consumer' = [consumer EXCEPT ![c].ItemsConsumed = k]
      PROVE  Shapes' /\ \A d \in Consumers : Updating(d)'
  <2>1. /\ DOMAIN consumer' = Consumers
        /\ \A d \in Consumers : /\ DOMAIN consumer'[d] = DOMAIN NewConsumerToken
                                 /\ consumer'[d].DesiredProducer = consumer[d].DesiredProducer
    <3>1. DOMAIN consumer[c] = DOMAIN NewConsumerToken
      BY <1>1 DEF Shapes
    <3>2. CASE UNCHANGED consumer
      BY <1>1, <3>2 DEF Shapes
    <3>3. ASSUME NEW n, NEW k,
                 consumer' = [consumer EXCEPT ![c].CurrentProducer = n, ![c].ItemsConsumed = k]
          PROVE  /\ DOMAIN consumer' = Consumers
                 /\ \A d \in Consumers :
                      /\ DOMAIN consumer'[d] = DOMAIN NewConsumerToken
                      /\ consumer'[d].DesiredProducer = consumer[d].DesiredProducer
      BY <1>1, <3>1, <3>3 DEF Shapes, NewConsumerToken
    <3>4. ASSUME NEW k, consumer' = [consumer EXCEPT ![c].ItemsConsumed = k]
          PROVE  /\ DOMAIN consumer' = Consumers
                 /\ \A d \in Consumers :
                      /\ DOMAIN consumer'[d] = DOMAIN NewConsumerToken
                      /\ consumer'[d].DesiredProducer = consumer[d].DesiredProducer
      BY <1>1, <3>1, <3>4 DEF Shapes, NewConsumerToken
    <3>5. QED
      BY <1>3, <3>2, <3>3, <3>4
  <2>2. QED
    BY <1>1, <1>2, <1>3, <2>1, CallGoesOn DEF Updating
<1>4. ASSUME NEW kind \in Kinds, BeginWalk(c, kind) \/ BeginToken(c, kind)
      PROVE  Shapes' /\ \A d \in Consumers : Updating(d)'
  BY <1>2, <1>4, CallBegins DEF BeginWalk, BeginToken
<1>5. CASE BeginBest(c)
  BY <1>2, <1>5, CallBegins DEF BeginBest
<1>6. CASE UpdateHead(c) \/ UpdateCount(c) \/ UpdateOffset(c)
  BY <1>6, UpdateSteps
<1>7. CASE Return(c)
  <2>1. Elsewhere(NoCall)
    BY DEF Elsewhere, IsCall, NoCall
  <2>2. QED
    BY <1>3, <1>7, <2>1 DEF Return
<1>8. CASE Rotate(c)
  BY <1>1, <1>3, <1>8, FinishEnds DEF Rotate
<1>9. CASE BeginRing(c)
  BY <1>1, <1>3, <1>9, RingGoesOn DEF BeginRing
<1>10. CASE WalkNode(c)
  <2> DEFINE n == call[c].node
  <2>1. PICK k \in Int :
          /\ UNCHANGED consumer /\ call[c].pc = "walk"
          /\ Finish(c, Got(c, n, k)) \/ Only(c, [Got(c, n, k) EXCEPT !.node = Next_[n]])
    BY <1>10 DEF WalkNode
  <2>2. IsCall(Got(c, n, k)) /\ Got(c, n, k).pc = "walk"
    BY <1>1, <2>1, GotIsCall
  <2>3. Elsewhere([Got(c, n, k) EXCEPT !.node = Next_[n]])
    BY <2>2 DEF Elsewhere, IsCall, NoCall
  <2>4. QED
    BY <1>3, <2>1, <2>2, <2>3, FinishEnds
<1>11. CASE SizeNode(c)
  <2> DEFINE n == call[c].node
             counted(size) == call[c].NonEmptyCount + (IF size > 0 THEN 1 ELSE 0)
             seen(size) == [call[c] EXCEPT !.NonEmptyCount = counted(size),
                              !.Best = IF size > call[c].BestSize THEN n ELSE @,
                              !.BestSize = IF size > call[c].BestSize THEN size ELSE @]
  <2>1. PICK size \in Sizes(c, n) :
          Only(c, IF counted(size) < 3 /\ Next_[n] # nullptr
                  THEN [seen(size) EXCEPT !.node = Next_[n]]
                  ELSE [seen(size) EXCEPT !.pc = IF counted(size) > 0 THEN "best" ELSE "return",
                          !.node = nullptr, !.NonEmptyCount = 0, !.BestSize = 0])
    BY <1>11 DEF SizeNode
  <2>2. UNCHANGED consumer /\ call[c].pc = "size"
    BY <1>11 DEF SizeNode
  <2>3. IsCall(seen(size)) /\ seen(size).pc = "size"
    BY <1>1, <2>2 DEF IsCall, NoCall
  <2> HIDE DEF seen, counted
  <2>4. /\ Elsewhere([seen(size) EXCEPT !.node = Next_[n]])
        /\ Elsewhere([seen(size) EXCEPT !.pc = IF counted(size) > 0 THEN "best" ELSE "return",
                        !.node = nullptr, !.NonEmptyCount = 0, !.BestSize = 0])
    BY <2>3 DEF Elsewhere, IsCall, NoCall
  <2>5. QED
    BY <1>3, <2>1, <2>2, <2>4
<1>12. CASE TakeBest(c)
  <2>1. /\ UNCHANGED consumer
        /\ \/ Finish(c, Got(c, call[c].Best, 1)) \/ Finish(c, call[c])
           \/ Only(c, [call[c] EXCEPT !.pc = "walk", !.node = ProducerListsHead])
    BY <1>12 DEF TakeBest, WalkFrom
  <2>2. IsCall(Got(c, call[c].Best, 1))
    BY <1>1, GotIsCall
  <2>3. Elsewhere([call[c] EXCEPT !.pc = "walk", !.node = ProducerListsHead])
    BY <1>1 DEF Elsewhere, IsCall, NoCall
  <2>4. QED
    BY <1>1, <1>3, <2>1, <2>2, <2>3, FinishEnds
<1>13. CASE ConstructConsumerToken(c)
  <2>1. /\ UNCHANGED call /\ DOMAIN consumer' = Consumers
        /\ \A d \in Consumers : /\ DOMAIN consumer'[d] = DOMAIN NewConsumerToken
                                 /\ consumer'[d].DesiredProducer = consumer[d].DesiredProducer
    BY <1>1, <1>13 DEF ConstructConsumerToken, Shapes, NewConsumerToken
  <2>2. /\ Linked' = Linked /\ Used' = Used /\ Next_' = Next_
    BY <1>2 DEF Linked, Linking, Used, list, producing
  <2>3. Shapes'
    BY <1>1, <2>1 DEF Shapes, NoCall, NewConsumerToken
  <2>4. ASSUME NEW d \in Consumers PROVE Updating(d)'
    <3>1. PICK h : h = call[d].head
      OBVIOUS
    <3>2. From(h)' = From(h)
      BY <2>2 DEF From, Closed
    <3>3. QED
      BY <1>1, <2>1, <2>2, <3>1, <3>2 DEF Updating
  <2>5. QED
    BY <2>3, <2>4
<1>14. CASE TakeCurrent(c)
  <2> DEFINE n == consumer[c].CurrentProducer
  <2>1. PICK k \in Int, at \in {"ring", "rotate"} :
          /\ consumer' = [consumer EXCEPT ![c].ItemsConsumed = @ + k]
          /\ Finish(c, Got(c, n, k)) \/ Only(c, [Got(c, n, k) EXCEPT !.pc = at])
    <3>1. PICK k \in 0..call[c].left :
            /\ consumer' = [consumer EXCEPT ![c].ItemsConsumed = @ + k]
            /\ IF k = call[c].left /\ ~QuotaReached(c, consumer[c].ItemsConsumed + k)
               THEN Finish(c, Got(c, n, k))
               ELSE Only(c, [Got(c, n, k) EXCEPT !.pc = IF k < call[c].left THEN "ring" ELSE "rotate"])
      BY <1>14 DEF TakeCurrent
    <3>2. PICK at \in {"ring", "rotate"} : at = IF k < call[c].left THEN "ring" ELSE "rotate"
      OBVIOUS
    <3>3. Finish(c, Got(c, n, k)) \/ Only(c, [Got(c, n, k) EXCEPT !.pc = at])
      BY <3>1, <3>2
    <3>4. k \in Int
      OBVIOUS
    <3>5. QED
      BY <3>1, <3>2, <3>3, <3>4
  <2>2. IsCall(Got(c, n, k))
    BY <1>1, <2>1, GotIsCall
  <2>3. Elsewhere([Got(c, n, k) EXCEPT !.pc = at])
    BY <2>2 DEF Elsewhere, IsCall, NoCall
  <2>4. \E i : consumer' = [consumer EXCEPT ![c].ItemsConsumed = i]
    BY <2>1
  <2>5. QED
    BY <1>3, <2>1, <2>2, <2>3, <2>4, FinishEnds
<1>15. CASE RingNode(c)
  <2> DEFINE n == call[c].node
  <2>1. \E k \in Int : \E current :
          /\ consumer' = IF k = 0 THEN consumer
                         ELSE [consumer EXCEPT ![c].CurrentProducer = n, ![c].ItemsConsumed = k]
          /\ \/ Finish(c, Got(c, n, k))
             \/ RingFrom(c, Got(c, n, k), n, call[c].head, current)
    <3>1. PICK k \in 0..call[c].left :
            /\ consumer' = IF k = 0 THEN consumer
                           ELSE [consumer EXCEPT ![c].CurrentProducer = n, ![c].ItemsConsumed = k]
            /\ IF k = call[c].left THEN Finish(c, Got(c, n, k))
               ELSE RingFrom(c, Got(c, n, k), n, call[c].head, consumer'[c].CurrentProducer)
      BY <1>15 DEF RingNode
    <3>2. PICK current : current = consumer'[c].CurrentProducer
      OBVIOUS
    <3>3. Finish(c, Got(c, n, k)) \/ RingFrom(c, Got(c, n, k), n, call[c].head, current)
      BY <3>1, <3>2
    <3>4. k \in Int
      OBVIOUS
    <3>5. QED
      BY <3>1, <3>3, <3>4
  <2>2. PICK k, current :
          /\ k \in Int
          /\ consumer' = IF k = 0 THEN consumer
                         ELSE [consumer EXCEPT ![c].CurrentProducer = n, ![c].ItemsConsumed = k]
          /\ \/ Finish(c, Got(c, n, k))
             \/ RingFrom(c, Got(c, n, k), n, call[c].head, current)
    BY <2>1
  <2>3. IsCall(Got(c, n, k))
    BY <1>1, <2>2, GotIsCall
  <2>4. CASE Finish(c, Got(c, n, k))
    BY <1>3, <2>2, <2>3, <2>4, FinishEnds
  <2>5. CASE RingFrom(c, Got(c, n, k), n, call[c].head, current)
    BY <1>3, <2>2, <2>3, <2>5, RingGoesOn
  <2>6. QED
    BY <2>2, <2>4, <2>5
<1>16. QED
  BY <1>4, <1>5, <1>6, <1>7, <1>8, <1>9, <1>10, <1>11, <1>12, <1>13, <1>14, <1>15
  DEF ConsumerStep

\* A step of a producer leaves the consumers, and what follows the heads they have.
LEMMA ProducerKeepsCalls ==
  ASSUME ListInv, NEW p \in Producers, ProducerStep(p),
         Linked \subseteq Linked', Used \subseteq Used',
         \A n \in Linked : Next_'[n] = Next_[n]
  PROVE  Shapes' /\ \A d \in Consumers : Updating(d)'
<1>1. UNCHANGED <<call, consumer>>
  BY DEF ProducerStep, ConstructToken, ConstructImplicit, ScanNode, Recycle, CountProducer, Link,
         DestroyToken, Enqueue, EnqueueWithToken, MoveToken, consuming
<1>2. Shapes'
  BY <1>1 DEF ListInv, Shapes, NoCall, NewConsumerToken
<1>3. ASSUME NEW d \in Consumers PROVE Updating(d)'
  <2>1. Updating(d) /\ Complete
    BY DEF ListInv
  <2>2. CASE call[d].pc = "offset"
    <3>1. PICK h \in Linked \cup {nullptr} : h = call[d].head
      BY <2>1, <2>2 DEF Updating
    <3>2. From(h)' = From(h)
      BY <2>1, <3>1, FromKept
    <3>3. QED
      BY <1>1, <2>1, <2>2, <3>1, <3>2 DEF Updating
  <2>3. CASE call[d].pc # "offset"
    BY <1>1, <2>1, <2>3 DEF Updating
  <2>4. QED
    BY <2>2, <2>3
<1>4. QED
  BY <1>2, <1>3

\* Every step of the queue keeps the invariant.
LEMMA ListInvNext == ListInv /\ [Next]_cqVars => ListInv'
<1> SUFFICES ASSUME ListInv, [Next]_cqVars PROVE ListInv'
  OBVIOUS
<1>1. OwnerInv'
  BY OwnerInvNext DEF ListInv
<1>2. ASSUME NEW p \in Producers, ProducerStep(p) PROVE ListInv'
  <2>1. /\ Complete' /\ NextSeen' /\ Counted'
        /\ Linked \subseteq Linked' /\ Used \subseteq Used'
        /\ \A n \in Linked : Next_'[n] = Next_[n]
    BY <1>1, <1>2, ProducerKeepsList
  <2>2. QED
    BY <1>1, <1>2, <2>1, ProducerKeepsStored, ProducerKeepsCalls DEF ListInv
<1>3. ASSUME UNCHANGED <<list, producing>>
      PROVE  Complete' /\ NextSeen' /\ Counted' /\ Linked' = Linked
  BY <1>3, ProducerQuiet DEF list, producing, Linking
<1>4. ASSUME NEW c \in Consumers, ConsumerStep(c) PROVE ListInv'
  <2>1. Complete' /\ NextSeen' /\ Counted' /\ Linked' = Linked
    BY <1>3, <1>4, ConsumersLeaveProducers
  <2>2. QED
    BY <1>1, <1>4, <2>1, ConsumerKeepsStored, ConsumerKeepsCalls DEF ListInv
<1>5. CASE UNCHANGED cqVars
  <2>1. UNCHANGED <<list, producing, items, call, consumer>>
    BY <1>5 DEF cqVars, consuming
  <2>2. Complete' /\ NextSeen' /\ Counted' /\ Linked' = Linked /\ Used' = Used /\ Next_' = Next_
    BY <1>3, <2>1 DEF list, Used
  <2>3. Stored' /\ Shapes'
    BY <2>1, <2>2 DEF ListInv, Stored, Shapes, NoCall, NewConsumerToken
  <2>4. ASSUME NEW d \in Consumers PROVE Updating(d)'
    <3>1. PICK h : h = call[d].head
      OBVIOUS
    <3>2. From(h)' = From(h)
      BY <2>2 DEF From, Closed
    <3>3. QED
      BY <2>1, <2>2, <3>1, <3>2 DEF ListInv, Updating
  <2>5. QED
    BY <1>1, <2>2, <2>3, <2>4 DEF ListInv
<1>6. QED
  BY <1>2, <1>4, <1>5 DEF Next

\* The list of producers and what its consumers know of it are as they should be.
THEOREM ListCorrect == Spec => []ListInv
BY ListInvInit, ListInvNext, PTL DEF Spec

\* A producer that somebody has, that waits to be recycled or that has items is in
\* the list: AddProducer loses none, whoever links one at the same time.
THEOREM ListHoldsAllProducers == Spec => []ListComplete
<1>1. ListInv => ListComplete
  <2> SUFFICES ASSUME ListInv, NEW n \in Nodes,
                      \/ items[n] > 0 \/ Inactive[n]
                      \/ \E p \in Producers : Token[p] = n \/ Implicit[p] = n
               PROVE  n \in Listed
    BY DEF ListComplete
  <2>1. n \in Linked
    BY OwnedAreLinked DEF ListInv, Stored
  <2>2. QED
    BY <2>1, ListedAreLinked DEF ListInv
<1>2. QED
  BY <1>1, ListCorrect, PTL

\* What UpdateProducerForConsumer divides by is not zero, and is no less than the
\* number of producers that follow the head it has loaded.
THEOREM CountCoversTheList == Spec => []CountCoversList
<1>1. ListInv => CountCoversList
  BY DEF ListInv, Updating, CountCoversList
<1>2. QED
  BY <1>1, ListCorrect, PTL

-----------------------------------------------------------------------------
(* What a dequeue that nobody overlaps still owes its caller. *)

\* The list has an end: no nodes of it follow each other for ever.
Ends == \A S \in SUBSET Linked : S # {} => \E m \in S : Next_[m] \notin S

\* A consumer goes round from the last node to the head; S holds what it comes to from
\* node n before it is back at the current producer.
After(n, head) == IF Next_[n] = nullptr THEN head ELSE Next_[n]
Rounds(n, head, current, S) ==
  /\ n \in S \cup {current}
  /\ \A m \in S : After(m, head) \in S \cup {current}
Round(n, head, current) ==
  {m \in Nodes : \A S \in SUBSET Nodes : Rounds(n, head, current, S) => m \in S}

Calls ==
  [pc : {"idle", "return", "walk", "size", "best", "update", "count", "offset", "current",
         "ring", "rotate", "others"},
   kind : Kinds, node : NodeOrNull, left : Nat, head : NodeOrNull, count : Nat,
   Best : NodeOrNull, BestSize : Nat, NonEmptyCount : Nat, owed : [Nodes -> Nat]]
Tokens ==
  [InitialOffset : Nat, LastKnownGlobalOffset : Nat, ItemsConsumed : Nat,
   CurrentProducer : NodeOrNull, DesiredProducer : NodeOrNull, made : BOOLEAN, calls : Nat]

\* A call r with token t is at a node of the list wherever it uses one, has found a best
\* producer once it has seen one that is not empty, and still wants items until it has
\* got them all.
CallRight(r, t) ==
  /\ r \in Calls /\ t \in Tokens
  /\ r.pc = "idle" => r.owed = NoCall.owed
  /\ r.pc \notin {"idle", "rotate"} => r.left > 0
  /\ r.pc = "rotate" => r.left = 0
  /\ r.pc \in {"walk", "size"} => r.node \in Linked
  /\ r.pc = "size" => /\ r.left = 1
                      /\ IF r.NonEmptyCount = 0 THEN r.BestSize = 0 ELSE r.Best \in Linked
  /\ r.pc = "best" => r.left = 1 /\ r.Best \in Linked
  /\ r.pc \in {"count", "offset"} => r.head \in Linked
  /\ r.pc = "others" => r.node \in Linked /\ r.head \in Linked
  /\ r.pc \in {"current", "ring", "others"} => t.CurrentProducer \in Linked
  /\ t.DesiredProducer # nullptr => t.DesiredProducer \in Linked /\ t.CurrentProducer \in Linked

\* What it owes is still there, in a node it has yet to come to.
OwedAhead(r, t, stored) ==
  \A n \in Nodes : r.owed[n] > 0 =>
    /\ n \in Linked /\ r.owed[n] <= stored[n]
    /\ r.pc # "return"
    /\ r.pc = "walk" => n \in From(r.node) /\ n # r.Best
    /\ r.pc = "size" /\ r.NonEmptyCount = 0 => n \in From(r.node)
    /\ r.pc = "ring" => n # t.CurrentProducer
    /\ r.pc = "others" => n \in Round(r.node, r.head, t.CurrentProducer)

\* Who owes anything is alone inside a call.
OwesAlone(c) ==
  call[c].owed # NoCall.owed => \A d \in Consumers \ {c} : call[d].pc = "idle"

AnswerInv ==
  /\ ListInv /\ Ends
  /\ GlobalExplicitConsumerOffset \in Nat /\ NextExplicitConsumerId \in Nat
  /\ \A c \in Consumers : /\ CallRight(call[c], consumer[c])
                          /\ OwedAhead(call[c], consumer[c], items)
                          /\ OwesAlone(c)

-----------------------------------------------------------------------------
\* What a walk comes to after its first node.
LEMMA FromGoesOn ==
  ASSUME NEW n \in Nodes, NEW m \in From(n), m # n
  PROVE  m \in From(Next_[n])
<1>1. ASSUME NEW S \in SUBSET Nodes, Closed(Next_[n], S) PROVE m \in S
  <2>1. Closed(n, S \cup {n})
    BY <1>1 DEF Closed
  <2>2. m \in S \cup {n}
    BY <2>1 DEF From
  <2>3. QED
    BY <2>2
<1>2. QED
  BY <1>1 DEF From

\* Nothing follows the last node.
LEMMA FromNothing == From(nullptr) = {}
<1>1. Closed(nullptr, {})
  BY DEF Closed
<1>2. QED
  BY <1>1 DEF From

\* A round goes on with the next node; one that comes back to the current producer has
\* nothing more to come to.
LEMMA RoundGoesOn ==
  ASSUME NEW n \in Nodes, NEW head, NEW current, NEW m \in Round(n, head, current), m # n
  PROVE  After(n, head) # current /\ m \in Round(After(n, head), head, current)
<1>1. ASSUME NEW S \in SUBSET Nodes, Rounds(After(n, head), head, current, S) PROVE m \in S
  <2>1. Rounds(n, head, current, S \cup {n})
    BY <1>1 DEF Rounds
  <2>2. m \in S \cup {n}
    BY <2>1 DEF Round
  <2>3. QED
    BY <2>2
<1>2. After(n, head) # current
  <2>1. SUFFICES ASSUME After(n, head) = current PROVE FALSE
    OBVIOUS
  <2>2. Rounds(After(n, head), head, current, {})
    BY <2>1 DEF Rounds
  <2>3. QED
    BY <1>1, <2>2
<1>3. QED
  BY <1>1, <1>2 DEF Round

\* A round that begins anew at the node it has come to still comes to all others.
LEMMA RoundStartsAnew ==
  ASSUME NEW n \in Nodes, NEW head, NEW current, NEW m \in Round(n, head, current), m # n
  PROVE  After(n, head) # n /\ m \in Round(After(n, head), head, n)
<1>1. ASSUME NEW S \in SUBSET Nodes, Rounds(After(n, head), head, n, S) PROVE m \in S
  <2>1. Rounds(n, head, current, S \cup {n})
    BY <1>1 DEF Rounds
  <2>2. m \in S \cup {n}
    BY <2>1 DEF Round
  <2>3. QED
    BY <2>2
<1>2. After(n, head) # n
  <2>1. SUFFICES ASSUME After(n, head) = n PROVE FALSE
    OBVIOUS
  <2>2. Rounds(After(n, head), head, n, {})
    BY <2>1 DEF Rounds
  <2>3. QED
    BY <1>1, <2>2
<1>3. QED
  BY <1>1, <1>2 DEF Round

\* From any node of the list, a round that starts at the head comes to all of it.
LEMMA RoundIsComplete ==
  ASSUME Complete, Ends, NEW n \in Linked, NEW m \in Linked, m # n
  PROVE  /\ After(n, ProducerListsHead) # n
         /\ m \in Round(After(n, ProducerListsHead), ProducerListsHead, n)
<1>1. Linked \subseteq Nodes
  BY DEF Linked
<1>2. ASSUME NEW S \in SUBSET Nodes, Rounds(After(n, ProducerListsHead), ProducerListsHead, n, S)
      PROVE  m \in S
  <2> DEFINE T == (S \cup {n}) \cap Linked
  <2>1. \A i \in T : After(i, ProducerListsHead) \in S \cup {n}
    BY <1>2 DEF Rounds
  <2>2. PICK i \in T : Next_[i] \notin T
    BY DEF Ends
  <2>3. \A j \in Linked : Next_[j] \in Linked \cup {nullptr}
    BY DEF Complete, Closed
  <2>4. Next_[i] = nullptr
    BY <2>1, <2>2, <2>3 DEF After
  <2>5. ProducerListsHead \in S \cup {n}
    BY <2>1, <2>2, <2>4 DEF After
  <2>6. Closed(ProducerListsHead, T)
    <3>1. ProducerListsHead \in Linked \cup {nullptr}
      BY DEF Complete, Closed
    <3>2. ASSUME NEW j \in T PROVE Next_[j] \in T \cup {nullptr}
      BY <2>1, <2>3 DEF After
    <3> HIDE DEF T
    <3>3. ProducerListsHead \in T \cup {nullptr}
      BY <2>5, <3>1 DEF T
    <3>4. QED
      BY <3>2, <3>3 DEF Closed
  <2>7. m \in T
    BY <1>1, <2>6 DEF Complete
  <2>8. QED
    BY <2>7
<1>3. After(n, ProducerListsHead) # n
  <2>1. SUFFICES ASSUME After(n, ProducerListsHead) = n PROVE FALSE
    OBVIOUS
  <2>2. Rounds(After(n, ProducerListsHead), ProducerListsHead, n, {})
    BY <2>1 DEF Rounds
  <2>3. QED
    BY <1>2, <2>2
<1>4. QED
  BY <1>1, <1>2, <1>3 DEF Round

\* What follows a linked node, or the last one in a round, is linked.
LEMMA AfterIsLinked ==
  ASSUME Complete, NEW n \in Linked, NEW head \in Linked
  PROVE  After(n, head) \in Linked
BY DEF Complete, Closed, After

\* A list with nodes has a head.
LEMMA HeadIsLinked ==
  ASSUME Complete, Linked # {}
  PROVE  ProducerListsHead \in Linked
<1>1. ProducerListsHead \in Linked \cup {nullptr}
  BY DEF Complete, Closed
<1>2. ProducerListsHead = nullptr => Closed(ProducerListsHead, {})
  BY DEF Closed
<1>3. QED
  BY <1>1, <1>2 DEF Complete

\* Linked nodes are nodes.
LEMMA LinkedAreNodes == Linked \subseteq Nodes /\ nullptr \notin Linked /\ Linked \subseteq NodeOrNull
BY ConcurrentQueueAssumption DEF Linked, Nodes, NodeOrNull, nullptr

\* A round among linked nodes stays what it is, for Next is not written again.
LEMMA RoundKept ==
  ASSUME Complete, NEW n \in Linked, NEW head \in Linked, NEW current \in Linked,
         \A m \in Linked : Next_'[m] = Next_[m]
  PROVE  Round(n, head, current)' = Round(n, head, current)
<1>1. \A m \in Linked : After(m, head) \in Linked /\ After(m, head)' = After(m, head)
  BY AfterIsLinked DEF After
<1>2. Linked \subseteq Nodes
  BY LinkedAreNodes
<1>3. ASSUME NEW m \in Round(n, head, current)' PROVE m \in Round(n, head, current)
  <2>1. ASSUME NEW S \in SUBSET Nodes, Rounds(n, head, current, S) PROVE m \in S
    <3>1. PICK K \in SUBSET Nodes : K = S \cap Linked
      OBVIOUS
    <3>2. Rounds(n, head, current, K)'
      BY <1>1, <2>1, <3>1 DEF Rounds
    <3>3. QED
      BY <1>3, <3>1, <3>2 DEF Round
  <2>2. QED
    BY <1>3, <2>1 DEF Round
<1>4. ASSUME NEW m \in Round(n, head, current) PROVE m \in Round(n, head, current)'
  <2>1. ASSUME NEW S \in SUBSET Nodes, Rounds(n, head, current, S)' PROVE m \in S
    <3>1. Rounds(n, head, current, S \cap Linked)
      BY <1>1, <2>1 DEF Rounds
    <3>2. QED
      BY <1>2, <1>4, <3>1 DEF Round
  <2>2. QED
    BY <1>4, <2>1 DEF Round
<1>5. QED
  BY <1>3, <1>4

\* A new node goes before the others, so the list still ends.
LEMMA EndsKept ==
  ASSUME Complete, Ends, Linked \subseteq Linked',
         \A n \in Linked : Next_'[n] = Next_[n],
         \A n \in Linked' \ Linked : Next_'[n] \in Linked \cup {nullptr}
  PROVE  Ends'
<1>1. SUFFICES ASSUME NEW S \in SUBSET (Linked'), S # {}
               PROVE  \E m \in S : Next_'[m] \notin S
  BY DEF Ends
<1>2. nullptr \notin S
  BY ConcurrentQueueAssumption DEF Linked, Nodes, nullptr
<1>3. CASE S \cap Linked = {}
  BY <1>1, <1>2, <1>3
<1>4. CASE S \cap Linked # {}
  <2>1. PICK m \in S \cap Linked : Next_[m] \notin S \cap Linked
    BY <1>4 DEF Ends
  <2>2. Next_[m] \in Linked \cup {nullptr}
    BY <2>1 DEF Complete, Closed
  <2>3. QED
    BY <1>2, <2>1, <2>2
<1>5. QED
  BY <1>3, <1>4

\* No record owes anything at first, nor does one of a consumer outside a call.
LEMMA NothingOwed ==
  /\ NoCall \in Calls /\ NoCall.pc = "idle" /\ NoCall.owed = [n \in Nodes |-> 0]
  /\ NewConsumerToken \in Tokens /\ NewConsumerToken.DesiredProducer = nullptr
<1>1. Width - 1 \in Nat
  BY ConcurrentQueueAssumption
<1>2. nullptr \in NodeOrNull
  BY ConcurrentQueueAssumption DEF NodeOrNull, nullptr
<1>3. QED
  BY <1>1, <1>2 DEF NoCall, Calls, Kinds, NewConsumerToken, Tokens

\* At first nobody is inside a call and the list is empty.
LEMMA AnswerInvInit == Init => AnswerInv
<1> SUFFICES ASSUME Init PROVE AnswerInv
  OBVIOUS
<1>1. ListInv
  BY ListInvInit
<1>2. Linked = {}
  BY DEF Init, Linked
<1>3. Ends
  BY <1>2 DEF Ends
<1>4. ASSUME NEW c \in Consumers
      PROVE  /\ CallRight(call[c], consumer[c])
             /\ OwedAhead(call[c], consumer[c], items)
             /\ OwesAlone(c)
  <2>1. call[c] = NoCall /\ consumer[c] = NewConsumerToken
    BY DEF Init
  <2>2. CallRight(NoCall, NewConsumerToken)
    BY NothingOwed DEF CallRight
  <2>3. OwedAhead(NoCall, NewConsumerToken, items)
    BY NothingOwed DEF OwedAhead
  <2>4. QED
    BY <2>1, <2>2, <2>3 DEF OwesAlone
<1>5. QED
  BY <1>1, <1>3, <1>4 DEF AnswerInv, Init

\* A call stays right while the list grows and items come in.
LEMMA CallKept ==
  ASSUME Complete, Linked \subseteq Linked', \A n \in Linked : Next_'[n] = Next_[n],
         NEW r, NEW t, NEW stored \in [Nodes -> Nat], NEW now \in [Nodes -> Nat],
         CallRight(r, t), OwedAhead(r, t, stored), \A n \in Nodes : stored[n] <= now[n]
  PROVE  CallRight(r, t)' /\ OwedAhead(r, t, now)'
<1>1. CallRight(r, t)'
  BY DEF CallRight
<1>2. SUFFICES ASSUME NEW n \in Nodes, r.owed[n] > 0
               PROVE  /\ n \in Linked' /\ r.owed[n] <= now[n]
                      /\ r.pc # "return"
                      /\ r.pc = "walk" => n \in From(r.node)' /\ n # r.Best
                      /\ r.pc = "size" /\ r.NonEmptyCount = 0 => n \in From(r.node)'
                      /\ r.pc = "ring" => n # t.CurrentProducer
                      /\ r.pc = "others" => n \in Round(r.node, r.head, t.CurrentProducer)'
  BY <1>1 DEF OwedAhead
<1>3. r.owed[n] \in Nat /\ stored[n] \in Nat /\ now[n] \in Nat
  BY DEF CallRight, Calls
<1>4. /\ n \in Linked /\ r.owed[n] <= stored[n]
      /\ r.pc # "return"
      /\ r.pc = "walk" => n \in From(r.node) /\ n # r.Best
      /\ r.pc = "size" /\ r.NonEmptyCount = 0 => n \in From(r.node)
      /\ r.pc = "ring" => n # t.CurrentProducer
      /\ r.pc = "others" => n \in Round(r.node, r.head, t.CurrentProducer)
  BY <1>2 DEF OwedAhead
<1>5. r.owed[n] <= now[n]
  BY <1>3, <1>4
<1>6. r.node \in Linked => From(r.node)' = From(r.node)
  BY FromKept
<1>7. r.pc = "others" =>
        Round(r.node, r.head, t.CurrentProducer)' = Round(r.node, r.head, t.CurrentProducer)
  BY RoundKept DEF CallRight
<1>8. r.pc \in {"walk", "size"} => r.node \in Linked
  BY DEF CallRight
<1>9. QED
  BY <1>4, <1>5, <1>6, <1>7, <1>8

\* A producer's step takes no items away and leaves the consumers alone.
LEMMA ProducerKeepsAnswer ==
  ASSUME AnswerInv, NEW p \in Producers, ProducerStep(p), ListInv'
  PROVE  AnswerInv'
<1>1. ListInv /\ Complete /\ OwnerInv' /\ Ends /\ OwnerInv /\ Stored /\ Stored'
  BY DEF AnswerInv, ListInv
<1>2. /\ Linked \subseteq Linked' /\ \A n \in Linked : Next_'[n] = Next_[n]
      /\ \A n \in Linked' \ Linked : Next_'[n] \in Linked \cup {nullptr}
  BY <1>1, ProducerKeepsList
<1>3. Ends'
  BY <1>1, <1>2, EndsKept
<1>4. UNCHANGED <<call, consumer, GlobalExplicitConsumerOffset, NextExplicitConsumerId>>
  BY DEF ProducerStep, ConstructToken, ConstructImplicit, ScanNode, Recycle, CountProducer, Link,
         DestroyToken, Enqueue, EnqueueWithToken, MoveToken, consuming, offsets
<1>5. \A n \in Nodes : items[n] <= items'[n]
  <2>1. items \in [Nodes -> Nat] /\ items' \in [Nodes -> Nat]
    BY <1>1 DEF Stored
  <2>2. CASE UNCHANGED items
    BY <2>1, <2>2
  <2>3. ASSUME NEW k \in 1..2, Enqueue(p, k) \/ EnqueueWithToken(p, k)
        PROVE  \A n \in Nodes : items[n] <= items'[n]
    <3>1. PICK m : items' = [items EXCEPT ![m] = @ + k]
      BY <2>3 DEF Enqueue, EnqueueWithToken, Publish
    <3>2. ASSUME NEW n \in Nodes PROVE items'[n] \in {items[n], items[n] + k}
      BY <2>1, <3>1
    <3>3. QED
      BY <2>1, <3>2
  <2>4. QED
    BY <2>2, <2>3
    DEF ProducerStep, ConstructToken, ConstructImplicit, ScanNode, Recycle, CountProducer, Link,
        DestroyToken, MoveToken
<1>6. ASSUME NEW c \in Consumers
      PROVE  /\ CallRight(call[c], consumer[c])'
             /\ OwedAhead(call[c], consumer[c], items)'
             /\ OwesAlone(c)'
  <2>1. PICK r, t, stored, now : r = call[c] /\ t = consumer[c] /\ stored = items /\ now = items'
    OBVIOUS
  <2>2. stored \in [Nodes -> Nat] /\ now \in [Nodes -> Nat]
    BY <1>1, <2>1 DEF Stored
  <2>3. CallRight(r, t) /\ OwedAhead(r, t, stored)
    BY <2>1 DEF AnswerInv
  <2>4. CallRight(r, t)' /\ OwedAhead(r, t, now)'
    BY <1>1, <1>2, <1>5, <2>1, <2>2, <2>3, CallKept
  <2>5. OwesAlone(c)'
    BY <1>4 DEF AnswerInv, OwesAlone
  <2>6. QED
    BY <1>4, <2>1, <2>4, <2>5
<1>7. QED
  BY <1>3, <1>4, <1>6 DEF AnswerInv

\* What holds of a token whatever its consumer does.
TokenRight(t) ==
  /\ t \in Tokens
  /\ t.DesiredProducer # nullptr => t.DesiredProducer \in Linked /\ t.CurrentProducer \in Linked

\* While one consumer is inside a call no other is owed anything, and it only if it is alone.
LEMMA OthersOweNothing ==
  ASSUME AnswerInv, NEW c \in Consumers, call[c].pc # "idle"
  PROVE  /\ \A d \in Consumers \ {c} : call[d].owed = NoCall.owed
         /\ call[c].owed # NoCall.owed => Busy = {c}
<1>1. \A d \in Consumers \ {c} : call[d].owed = NoCall.owed
  BY DEF AnswerInv, OwesAlone
<1>2. call[c].owed # NoCall.owed => Busy = {c}
  BY DEF AnswerInv, OwesAlone, Busy
<1>3. QED
  BY <1>1, <1>2

\* A record that owes something owes some item of some node.
LEMMA OwesSome ==
  ASSUME NEW r \in Calls
  PROVE  r.owed # NoCall.owed <=> \E n \in Nodes : r.owed[n] > 0
<1>1. r.owed \in [Nodes -> Nat]
  BY DEF Calls
<1>2. NoCall.owed = [n \in Nodes |-> 0]
  BY NothingOwed
<1>3. CASE \A n \in Nodes : r.owed[n] = 0
  BY <1>1, <1>2, <1>3
<1>4. CASE \E n \in Nodes : r.owed[n] # 0
  BY <1>1, <1>2, <1>4
<1>5. QED
  BY <1>3, <1>4

\* A step inside a call that leaves a right record leaves all as it should be.
LEMMA CallMoves ==
  ASSUME AnswerInv, ListInv', NEW c \in Consumers, NEW r, NEW t, call[c].pc # "idle",
         call' = [call EXCEPT ![c] = r],
         consumer'[c] = t, \A d \in Consumers \ {c} : consumer'[d] = consumer[d],
         UNCHANGED <<list, producing>>,
         GlobalExplicitConsumerOffset' \in Nat, NextExplicitConsumerId' \in Nat,
         CallRight(r, t), NEW now, now = items', OwedAhead(r, t, now),
         r.owed # NoCall.owed => call[c].owed # NoCall.owed
  PROVE  AnswerInv'
<1>1. /\ call'[c] = r /\ \A d \in Consumers \ {c} : call'[d] = call[d]
      /\ consumer'[c] = t /\ \A d \in Consumers \ {c} : consumer'[d] = consumer[d]
  BY DEF AnswerInv, ListInv, Shapes
<1>2. Linked' = Linked /\ Next_' = Next_
  BY DEF Linked, Linking, list, producing
<1>3. Ends'
  BY <1>2 DEF AnswerInv, Ends
<1>4. NoCall' = NoCall
  BY DEF NoCall
<1>5. CallRight(r, t)' /\ OwedAhead(r, t, now)'
  BY <1>2, <1>4 DEF CallRight, OwedAhead, From, Closed, Round, Rounds, After
<1>6. ASSUME NEW d \in Consumers \ {c}
      PROVE  CallRight(call[d], consumer[d])' /\ OwedAhead(call[d], consumer[d], items)'
  <2>1. PICK q, u, i : q = call[d] /\ u = consumer[d] /\ i = items'
    OBVIOUS
  <2>2. CallRight(q, u) /\ q.owed = NoCall.owed
    BY <2>1, OthersOweNothing DEF AnswerInv
  <2>3. CallRight(q, u)'
    BY <1>2, <1>4, <2>2 DEF CallRight
  <2>4. OwedAhead(q, u, i)'
    BY <2>2, NothingOwed DEF OwedAhead
  <2>5. QED
    BY <1>1, <2>1, <2>3, <2>4
<1>7. \A d \in Consumers : OwesAlone(d)'
  <2>1. OwesAlone(c)'
    BY <1>1, <1>4 DEF AnswerInv, OwesAlone
  <2>2. ASSUME NEW d \in Consumers \ {c} PROVE OwesAlone(d)'
    BY <1>1, <1>4, OthersOweNothing DEF OwesAlone
  <2>3. QED
    BY <2>1, <2>2
<1>8. CallRight(call[c], consumer[c])' /\ OwedAhead(call[c], consumer[c], items)'
  BY <1>1, <1>5
<1>9. QED
  BY <1>3, <1>6, <1>7, <1>8 DEF AnswerInv

\* A call that ends with all it asked for, or that owes nothing.
LEMMA CallFinishes ==
  ASSUME AnswerInv, ListInv', NEW c \in Consumers, NEW r \in Calls, NEW t, call[c].pc # "idle",
         Finish(c, r), TokenRight(t),
         consumer'[c] = t, \A d \in Consumers \ {c} : consumer'[d] = consumer[d],
         UNCHANGED <<list, producing>>,
         GlobalExplicitConsumerOffset' \in Nat, NextExplicitConsumerId' \in Nat,
         r.left = 0 \/ \A n \in Nodes : r.owed[n] = 0
  PROVE  AnswerInv'
<1> DEFINE back == [NoCall EXCEPT !.pc = "return", !.left = r.left, !.owed = r.owed]
<1>1. PICK q : q = IF r.left = 0 THEN NoCall ELSE back
  OBVIOUS
<1>2. call' = [call EXCEPT ![c] = q]
  BY <1>1 DEF Finish, Only
<1>3. back \in Calls /\ back.pc = "return" /\ back.left = r.left /\ back.owed = r.owed
  BY NothingOwed DEF Calls
<1>4. r.left \in Nat
  BY DEF Calls
<1> HIDE DEF back
<1>5. q \in Calls /\ q.owed = NoCall.owed
  <2>1. CASE r.left = 0
    BY <1>1, <2>1, NothingOwed
  <2>2. CASE r.left # 0
    <3>1. q = back
      BY <1>1, <2>2
    <3>2. \A n \in Nodes : ~(r.owed[n] > 0)
      BY <2>2
    <3>3. r.owed = NoCall.owed
      BY <3>2, OwesSome
    <3>4. QED
      BY <1>3, <3>1, <3>3
  <2>3. QED
    BY <2>1, <2>2
<1>6. q.pc \in {"idle", "return"} /\ (q.pc = "return" => q.left > 0)
  BY <1>1, <1>3, <1>4, NothingOwed
<1>7. CallRight(q, t)
  BY <1>5, <1>6 DEF CallRight, TokenRight
<1>8. PICK now : now = items'
  OBVIOUS
<1>9. OwedAhead(q, t, now)
  BY <1>5, NothingOwed DEF OwedAhead
<1>10. QED
  BY <1>2, <1>5, <1>7, <1>8, <1>9, CallMoves

\* A call that gets k items of a node: what it is still owed is still there, and of this
\* node nothing, unless it got all it asked for.
LEMMA Taken ==
  ASSUME AnswerInv, NEW c \in Consumers, call[c].pc # "idle", NEW n \in Linked,
         NEW k \in 0..call[c].left,
         Yields(c, n, call[c].left, k) \/ (k = 0 /\ call[c].owed[n] = 0),
         Take(n, k), NEW g, g = Got(c, n, k)
  PROVE  /\ g \in Calls /\ g.left = call[c].left - k
         /\ g.pc = call[c].pc /\ g.node = call[c].node /\ g.head = call[c].head
         /\ g.Best = call[c].Best
         /\ \A m \in Nodes : g.owed[m] > 0 =>
              call[c].owed[m] > 0 /\ m \in Linked /\ g.owed[m] <= items'[m]
         /\ k < call[c].left => g.owed[n] = 0
<1>1. PICK r \in Calls : r = call[c]
  BY DEF AnswerInv, CallRight
<1>2. r.owed \in [Nodes -> Nat] /\ r.left \in Nat /\ items \in [Nodes -> Nat]
  BY <1>1 DEF Calls, AnswerInv, ListInv, Stored
<1>3. n \in Nodes /\ k \in Nat /\ r.owed[n] \in Nat /\ items[n] \in Nat
  BY <1>1, <1>2, LinkedAreNodes
<1>4. \A m \in Nodes : r.owed[m] > 0 => m \in Linked /\ r.owed[m] <= items[m]
  BY <1>1 DEF AnswerInv, OwedAhead
<1>5. PICK o \in Nat : o = IF k <= r.owed[n] THEN r.owed[n] - k ELSE 0
  BY <1>3
<1>6. g = [r EXCEPT !.left = r.left - k, !.owed = [r.owed EXCEPT ![n] = o]]
  BY <1>1, <1>5 DEF Got, Calls
<1>7. r.left - k \in Nat /\ [r.owed EXCEPT ![n] = o] \in [Nodes -> Nat]
  <2>1. k \in 0..r.left
    BY <1>1
  <2>2. r.left - k \in Nat
    BY <1>2, <2>1
  <2>3. QED
    BY <1>2, <1>5, <2>2
<1>8. /\ g \in Calls /\ g.left = r.left - k /\ g.owed = [r.owed EXCEPT ![n] = o]
      /\ g.pc = r.pc /\ g.node = r.node /\ g.head = r.head /\ g.Best = r.Best
  BY <1>6, <1>7 DEF Calls
<1>9. items' = [items EXCEPT ![n] = items[n] - k]
  BY DEF Take
<1>10. r.owed # NoCall.owed => Busy = {c}
  BY <1>1, OthersOweNothing
<1>11. (\E m \in Nodes : r.owed[m] > 0) => Busy = {c}
  BY <1>1, <1>10, OwesSome
<1>12. /\ o > 0 => r.owed[n] > 0 /\ o <= items[n] - k
       /\ k < r.left => o = 0
  <2>1. CASE r.owed[n] = 0
    BY <1>3, <1>5, <2>1
  <2>2. CASE r.owed[n] > 0
    <3>1. Busy = {c} /\ r.owed[n] <= items[n]
      BY <1>3, <1>4, <1>11, <2>2
    <3>2. k = IF r.left <= items[n] THEN r.left ELSE items[n]
      BY <1>1, <2>2, <3>1 DEF Yields
    <3>3. QED
      BY <1>2, <1>3, <1>5, <3>1, <3>2
  <2>3. QED
    BY <1>3, <2>1, <2>2
<1>13. g.owed[n] = o /\ \A m \in Nodes \ {n} : g.owed[m] = r.owed[m] /\ items'[m] = items[m]
  BY <1>2, <1>3, <1>8, <1>9
<1>14. items'[n] = items[n] - k
  BY <1>2, <1>3, <1>9
<1>15. ASSUME NEW m \in Nodes, g.owed[m] > 0
       PROVE  r.owed[m] > 0 /\ m \in Linked /\ g.owed[m] <= items'[m]
  <2>1. CASE m = n
    BY <1>12, <1>13, <1>14, <1>15, <2>1
  <2>2. CASE m # n
    BY <1>4, <1>13, <1>15, <2>2
  <2>3. QED
    BY <2>1, <2>2
<1>16. QED
  BY <1>1, <1>8, <1>12, <1>13, <1>15

-----------------------------------------------------------------------------
(* Going round the list. *)

\* The natural numbers are well-founded, so that induction over them needs no operator.
LEMMA NatWF == IsWellFoundedOn({ss \in Nat \X Nat : ss[1] < ss[2]}, Nat)
BY NatLessThanWellFounded DEF OpToRel

\* A set of natural numbers that is not empty has a least element.
LEMMA Least ==
  ASSUME NEW T, T \subseteq Nat, T # {}
  PROVE  \E x \in T : \A y \in T : x <= y
<1> DEFINE R == {ss \in Nat \X Nat : ss[1] < ss[2]}
<1>1. IsWellFoundedOn(R, Nat)
  BY NatWF
<1>2. \E x \in T : \A y \in T : ~ (<<y, x>> \in R)
  <2> HIDE DEF R
  <2>1. QED
    BY <1>1, WFMin
<1>3. PICK x \in T : \A y \in T : ~ (<<y, x>> \in R)
  BY <1>2
<1>4. ASSUME NEW y \in T PROVE x <= y
  <2>1. x \in Nat /\ y \in Nat
    OBVIOUS
  <2>2. ~(y < x)
    BY <1>3, <2>1
  <2>3. QED
    BY <2>1, <2>2
<1>5. QED
  BY <1>4

\* The nodes that i steps round from n come to.
Path(f, n, i, head) ==
  /\ f = [j \in 0..i |-> f[j]] /\ f[0] = n
  /\ \A j \in 1..i : f[j] = After(f[j - 1], head)

\* There is such a path, and it stays in the list.
LEMMA PathExists ==
  ASSUME Complete, NEW n \in Linked, NEW head \in Linked, NEW i \in Nat
  PROVE  \E f : Path(f, n, i, head) /\ \A j \in 0..i : f[j] \in Linked
<1> DEFINE Good(j) == \E f : Path(f, n, j, head) /\ \A k \in 0..j : f[k] \in Linked
           T == {j \in Nat : ~Good(j)}
<1>1. SUFFICES ASSUME T # {} PROVE FALSE
  OBVIOUS
<1> HIDE DEF Good
<1>2. PICK j \in T : \A k \in T : j <= k
  BY <1>1, Least, T \subseteq Nat
<1>3. j \in Nat /\ ~Good(j)
  OBVIOUS
<1>4. Good(0)
  <2>1. PICK f : f = [k \in 0..0 |-> n]
    OBVIOUS
  <2>2. Path(f, n, 0, head) /\ \A k \in 0..0 : f[k] \in Linked
    BY <2>1 DEF Path
  <2>3. QED
    BY <2>2 DEF Good
<1>5. j - 1 \in Nat /\ j - 1 \notin T
  BY <1>2, <1>3, <1>4
<1>6. PICK f : Path(f, n, j - 1, head) /\ \A k \in 0..(j - 1) : f[k] \in Linked
  BY <1>5 DEF Good
<1>7. PICK last \in Linked : last = After(f[j - 1], head)
  BY <1>5, <1>6, AfterIsLinked
<1>8. PICK g : g = [k \in 0..j |-> IF k = j THEN last ELSE f[k]]
  OBVIOUS
<1>9. g[j] = last /\ \A k \in 0..(j - 1) : g[k] = f[k]
  BY <1>3, <1>5, <1>8
<1>10. g = [k \in 0..j |-> g[k]]
  BY <1>8
<1>11. g[0] = n /\ \A k \in 1..j : g[k] = After(g[k - 1], head)
  <2>1. f[0] = n /\ \A k \in 1..(j - 1) : f[k] = After(f[k - 1], head)
    BY <1>6 DEF Path
  <2>2. g[0] = n
    BY <1>5, <1>9, <2>1
  <2>3. ASSUME NEW k \in 1..j PROVE g[k] = After(g[k - 1], head)
    <3>1. k - 1 \in 0..(j - 1) /\ g[k - 1] = f[k - 1]
      BY <1>3, <1>9
    <3>2. CASE k = j
      BY <1>7, <1>9, <3>1, <3>2
    <3>3. CASE k # j
      <4>1. k \in 1..(j - 1) /\ k \in 0..(j - 1)
        BY <1>3, <3>3
      <4>2. QED
        BY <1>9, <2>1, <3>1, <4>1
    <3>4. QED
      BY <3>2, <3>3
  <2>4. QED
    BY <2>2, <2>3
<1>12. \A k \in 0..j : g[k] \in Linked
  BY <1>6, <1>8, <1>3
<1>13. QED
  BY <1>3, <1>10, <1>11, <1>12 DEF Good, Path

\* Further follows the path.
LEMMA FurtherFollows ==
  ASSUME NEW n, NEW head, NEW i \in Nat, NEW p, Path(p, n, i, head)
  PROVE  Further(n, i, head) = p[i]
<1> DEFINE IsStep(f) == f = [j \in 0..i |-> IF j = 0 THEN n
                                            ELSE IF Next_[f[j - 1]] = nullptr THEN head ELSE Next_[f[j - 1]]]
<1>1. Further(n, i, head) = (CHOOSE f : IsStep(f))[i]
  BY DEF Further
<1>2. IsStep(p)
  BY DEF Path, After
<1>3. ASSUME NEW f, IsStep(f) PROVE f = p
  <2> DEFINE T == {j \in 0..i : f[j] # p[j]}
  <2>1. CASE T = {}
    <3>1. f = [j \in 0..i |-> f[j]] /\ p = [j \in 0..i |-> p[j]]
      BY <1>3 DEF Path
    <3>2. QED
      BY <2>1, <3>1
  <2>2. CASE T # {}
    <3>1. PICK j \in T : \A k \in T : j <= k
      BY <2>2, Least, T \subseteq Nat
    <3>2. f[j] = IF j = 0 THEN n ELSE After(f[j - 1], head)
      BY <1>3 DEF After
    <3>3. p[j] = IF j = 0 THEN n ELSE After(p[j - 1], head)
      BY <1>2 DEF After
    <3>4. j # 0 /\ j \in Nat /\ j <= i
      BY <3>2, <3>3
    <3>5. j - 1 \in 0..i /\ j - 1 \notin T
      BY <3>1, <3>4
    <3>6. f[j - 1] = p[j - 1]
      BY <3>5
    <3>7. QED
      BY <3>1, <3>2, <3>3, <3>4, <3>6
  <2>3. QED
    BY <2>1, <2>2
<1> HIDE DEF IsStep
<1>4. IsStep(CHOOSE f : IsStep(f))
  BY <1>2
<1>5. QED
  BY <1>1, <1>3, <1>4

\* Going round from a node of the list one comes to a node of the list.
LEMMA FurtherIsLinked ==
  ASSUME Complete, NEW n \in Linked, NEW head \in Linked, NEW i \in Nat
  PROVE  Further(n, i, head) \in Linked
<1>1. PICK f : Path(f, n, i, head) /\ \A j \in 0..i : f[j] \in Linked
  BY PathExists
<1>2. Further(n, i, head) = f[i]
  BY <1>1, FurtherFollows
<1>3. QED
  BY <1>1, <1>2

-----------------------------------------------------------------------------
(* The steps of a consumer. *)

\* A call that begins: what is in the queue is in the list, from the head on.
LEMMA CallStarts ==
  ASSUME AnswerInv, ListInv', NEW c \in Consumers, NEW kind \in Kinds,
         NEW at \in {"return", "walk", "size", "update", "current"}, NEW node \in NodeOrNull,
         Begin(c, kind, at, node), consumer' = [consumer EXCEPT ![c].calls = @ + 1],
         UNCHANGED <<list, producing, items, offsets>>,
         at \in {"walk", "size"} => node = ProducerListsHead /\ ProducerListsHead # nullptr,
         at = "size" => kind = "best",
         at = "return" => ProducerListsHead = nullptr,
         at = "current" => consumer[c].DesiredProducer # nullptr
  PROVE  AnswerInv'
<1>1. PICK i \in [Nodes -> Nat] : i = items
  BY DEF AnswerInv, ListInv, Stored
<1>2. PICK asked \in Nat \ {0} : asked = IF kind \in {"walkBulk", "tokenBulk"} THEN BulkCount ELSE 1
  BY ConcurrentQueueAssumption
<1>3. PICK owes \in [Nodes -> Nat] : owes = IF Busy = {} THEN i ELSE NoCall.owed
  BY NothingOwed
<1>4. PICK q : q = [NoCall EXCEPT !.pc = at, !.kind = kind, !.node = node, !.left = asked,
                                  !.owed = owes]
  OBVIOUS
<1>5. /\ q \in Calls /\ q.pc = at /\ q.kind = kind /\ q.node = node /\ q.left = asked
      /\ q.owed = owes /\ q.Best = nullptr /\ q.NonEmptyCount = 0 /\ q.BestSize = 0
  <2>1. q \in Calls
    BY <1>4, NothingOwed DEF Calls
  <2>2. QED
    BY <1>4, <2>1 DEF NoCall
<1>6. call' = [d \in Consumers |-> IF d = c THEN q ELSE [call[d] EXCEPT !.owed = NoCall.owed]]
  <2>1. [NoCall EXCEPT !.pc = at, !.kind = kind, !.node = node,
           !.left = IF kind \in {"walkBulk", "tokenBulk"} THEN BulkCount ELSE 1,
           !.owed = IF Busy = {} THEN items ELSE @] = q
    BY <1>1, <1>2, <1>3, <1>4 DEF NoCall
  <2>2. QED
    BY <2>1 DEF Begin
<1>7. PICK t \in Tokens : t = consumer[c]
  BY DEF AnswerInv, CallRight
<1>8. PICK u : u = [t EXCEPT !.calls = @ + 1]
  OBVIOUS
<1>9. /\ u \in Tokens /\ u.DesiredProducer = t.DesiredProducer
      /\ u.CurrentProducer = t.CurrentProducer
  BY <1>8 DEF Tokens
<1>10. call[c].pc = "idle"
  BY DEF Begin
<1>11. /\ consumer'[c] = u /\ \A d \in Consumers \ {c} : consumer'[d] = consumer[d]
  BY <1>7, <1>8 DEF AnswerInv, ListInv, Shapes
<1>12. Linked' = Linked /\ Next_' = Next_ /\ NoCall' = NoCall
  BY DEF Linked, Linking, list, producing, NoCall
<1>13. Complete /\ Stored
  BY DEF AnswerInv, ListInv
<1>14. TokenRight(t)
  BY <1>7 DEF AnswerInv, CallRight, TokenRight
<1>15. CallRight(q, u)
  <2>1. at \in {"walk", "size"} => node \in Linked
    BY <1>13 DEF Complete, Closed
  <2>2. at = "current" => u.CurrentProducer \in Linked
    BY <1>7, <1>9, <1>14 DEF TokenRight
  <2>3. at = "size" => q.left = 1
    BY <1>2, <1>5
  <2>4. QED
    BY <1>2, <1>5, <1>9, <1>14, <2>1, <2>2, <2>3 DEF CallRight, TokenRight
<1>16. OwedAhead(q, u, i)
  <2>1. ASSUME NEW n \in Nodes, owes[n] > 0
        PROVE  /\ n \in Linked /\ owes[n] <= i[n] /\ at # "return"
               /\ at \in {"walk", "size"} => n \in From(node)
    <3>1. owes = i /\ items[n] > 0
      BY <1>1, <1>3, <2>1, NothingOwed
    <3>2. n \in Linked
      BY <1>13, <3>1 DEF Stored
    <3>3. Linked = From(ProducerListsHead)
      BY <1>13, ListedAreLinked DEF Listed
    <3>4. ProducerListsHead # nullptr
      BY <1>13, <3>2, HeadIsLinked, LinkedAreNodes
    <3>5. owes[n] <= i[n]
      BY <3>1
    <3>6. QED
      BY <3>2, <3>3, <3>4, <3>5
  <2>2. \A n \in Nodes : n # nullptr
    BY ConcurrentQueueAssumption DEF Nodes, nullptr
  <2>3. QED
    BY <1>5, <2>1, <2>2 DEF OwedAhead
<1>17. CallRight(call[c], consumer[c])' /\ OwedAhead(call[c], consumer[c], items)'
  <2>1. CallRight(q, u)' /\ OwedAhead(q, u, i)'
    BY <1>12, <1>15, <1>16 DEF CallRight, OwedAhead, From, Closed, Round, Rounds, After
  <2>2. call'[c] = q /\ consumer'[c] = u /\ items' = i
    BY <1>1, <1>6, <1>11
  <2>3. QED
    BY <2>1, <2>2
<1>18. ASSUME NEW d \in Consumers \ {c}
       PROVE  /\ CallRight(call[d], consumer[d])' /\ OwedAhead(call[d], consumer[d], items)'
              /\ call'[d].owed = NoCall.owed /\ call'[d].pc = call[d].pc
  <2>1. PICK r \in Calls, v \in Tokens : r = call[d] /\ v = consumer[d] /\ CallRight(r, v)
    BY DEF AnswerInv, CallRight
  <2>2. PICK s : s = [r EXCEPT !.owed = NoCall.owed]
    OBVIOUS
  <2>3. /\ s \in Calls /\ s.owed = NoCall.owed
        /\ s.pc = r.pc /\ s.left = r.left /\ s.node = r.node /\ s.head = r.head
        /\ s.NonEmptyCount = r.NonEmptyCount /\ s.BestSize = r.BestSize /\ s.Best = r.Best
    BY <2>2, NothingOwed DEF Calls
  <2>4. CallRight(s, v)'
    BY <1>12, <2>1, <2>3 DEF CallRight
  <2>5. OwedAhead(s, v, i)'
    BY <2>3, NothingOwed DEF OwedAhead
  <2>6. call'[d] = s /\ consumer'[d] = v /\ items' = i
    BY <1>1, <1>6, <1>11, <2>1, <2>2
  <2>7. QED
    BY <2>1, <2>3, <2>4, <2>5, <2>6
<1>19. ASSUME NEW d \in Consumers PROVE OwesAlone(d)'
  <2>1. CASE d = c
    <3>1. call'[c].owed # NoCall.owed => Busy = {}
      BY <1>3, <1>5, <1>6
    <3>2. QED
      BY <1>12, <1>18, <2>1, <3>1 DEF OwesAlone, Busy
  <2>2. CASE d # c
    BY <1>12, <1>18, <2>2 DEF OwesAlone
  <2>3. QED
    BY <2>1, <2>2
<1>20. Ends'
  BY <1>12 DEF AnswerInv, Ends
<1>21. QED
  BY <1>17, <1>18, <1>19, <1>20 DEF AnswerInv, offsets

\* A token that is made: nobody is owed anything for it.
LEMMA TokenIsMade ==
  ASSUME AnswerInv, ListInv', NEW c \in Consumers, ConstructConsumerToken(c)
  PROVE  AnswerInv'
<1>1. PICK t \in Tokens : t = consumer[c]
  BY DEF AnswerInv, CallRight
<1>2. PICK u : u = [t EXCEPT !.made = TRUE, !.InitialOffset = NextExplicitConsumerId]
  OBVIOUS
<1>3. /\ u \in Tokens /\ u.DesiredProducer = t.DesiredProducer
      /\ u.CurrentProducer = t.CurrentProducer
  <2>1. NextExplicitConsumerId \in Nat
    BY DEF AnswerInv
  <2>2. QED
    BY <1>2, <2>1 DEF Tokens
<1>4. /\ consumer'[c] = u /\ \A d \in Consumers \ {c} : consumer'[d] = consumer[d]
  BY <1>1, <1>2 DEF AnswerInv, ListInv, Shapes, ConstructConsumerToken
<1>5. Linked' = Linked /\ Next_' = Next_ /\ NoCall' = NoCall
  BY DEF ConstructConsumerToken, Linked, Linking, list, producing, NoCall
<1>6. UNCHANGED <<items, call, GlobalExplicitConsumerOffset>>
  BY DEF ConstructConsumerToken
<1>7. ASSUME NEW d \in Consumers
      PROVE  CallRight(call[d], consumer[d])' /\ OwedAhead(call[d], consumer[d], items)'
  <2>1. PICK r, v, w, i : r = call[d] /\ v = consumer[d] /\ w = consumer'[d] /\ i = items
    OBVIOUS
  <2>2. /\ w \in Tokens /\ w.DesiredProducer = v.DesiredProducer
        /\ w.CurrentProducer = v.CurrentProducer
    BY <1>1, <1>3, <1>4, <2>1 DEF AnswerInv, CallRight
  <2>3. CallRight(r, v) /\ OwedAhead(r, v, i)
    BY <2>1 DEF AnswerInv
  <2>4. CallRight(r, w)' /\ OwedAhead(r, w, i)'
    BY <1>5, <2>2, <2>3 DEF CallRight, OwedAhead, From, Closed, Round, Rounds, After
  <2>5. QED
    BY <1>6, <2>1, <2>4
<1>8. \A d \in Consumers : OwesAlone(d)'
  BY <1>5, <1>6 DEF AnswerInv, OwesAlone
<1>9. NextExplicitConsumerId' \in Nat
  <2>1. ASSUME NEW x \in Nat PROVE (x + 1) % Width \in Nat
    BY ConcurrentQueueAssumption
  <2>2. QED
    BY <2>1 DEF ConstructConsumerToken, AnswerInv
<1>10. Ends'
  BY <1>5 DEF AnswerInv, Ends
<1>11. QED
  BY <1>6, <1>7, <1>8, <1>9, <1>10 DEF AnswerInv

\* The walk, the search for the best producer and its end.
LEMMA WalkKeeps ==
  ASSUME AnswerInv, ListInv', NEW c \in Consumers, WalkNode(c)
  PROVE  AnswerInv'
<1>1. PICK r \in Calls, t \in Tokens, n \in NodeOrNull :
        r = call[c] /\ t = consumer[c] /\ n = r.node
  <2>1. call[c] \in Calls /\ consumer[c] \in Tokens
    BY DEF AnswerInv, CallRight
  <2>2. call[c].node \in NodeOrNull
    BY <2>1 DEF Calls
  <2>3. QED
    BY <2>1, <2>2
<1>2. r.pc = "walk" /\ n \in Linked /\ TokenRight(t) /\ r.left \in Nat /\ r.left > 0
  BY <1>1 DEF WalkNode, AnswerInv, CallRight, TokenRight, Calls
<1>3. consumer'[c] = t /\ \A d \in Consumers \ {c} : consumer'[d] = consumer[d]
  BY <1>1 DEF WalkNode
<1>4. /\ UNCHANGED <<list, producing>>
      /\ GlobalExplicitConsumerOffset' \in Nat /\ NextExplicitConsumerId' \in Nat
  BY DEF WalkNode, offsets, AnswerInv
<1>5. \A m \in Nodes : r.owed[m] > 0 => m \in From(n) /\ m # r.Best
  BY <1>1, <1>2 DEF AnswerInv, OwedAhead
<1>6. n \in Nodes /\ r.owed[n] \in Nat
  BY <1>1, <1>2, LinkedAreNodes DEF Calls
<1>7. n = r.Best => r.owed[n] = 0
  BY <1>5, <1>6
<1>8. PICK k, g :
        /\ k \in 0..r.left
        /\ IF n = r.Best THEN k = 0 ELSE Yields(c, n, r.left, k)
        /\ Take(n, k) /\ g = Got(c, n, k)
        /\ IF k = r.left \/ Next_[n] = nullptr THEN Finish(c, g)
           ELSE Only(c, [g EXCEPT !.node = Next_[n]])
  BY <1>1 DEF WalkNode
<1>9. /\ g \in Calls /\ g.left = r.left - k
      /\ g.pc = r.pc /\ g.node = r.node /\ g.head = r.head /\ g.Best = r.Best
      /\ \A m \in Nodes : g.owed[m] > 0 =>
           r.owed[m] > 0 /\ m \in Linked /\ g.owed[m] <= items'[m]
      /\ k < r.left => g.owed[n] = 0
  <2>1. Yields(c, n, r.left, k) \/ (k = 0 /\ r.owed[n] = 0)
    BY <1>7, <1>8
  <2>2. call[c].pc # "idle" /\ n \in Linked /\ Take(n, k) /\ g = Got(c, n, k)
    BY <1>1, <1>2, <1>8
  <2>3. /\ k \in 0..call[c].left
        /\ Yields(c, n, call[c].left, k) \/ (k = 0 /\ call[c].owed[n] = 0)
    BY <1>1, <1>8, <2>1
  <2>4. /\ g \in Calls /\ g.left = call[c].left - k
        /\ g.pc = call[c].pc /\ g.node = call[c].node /\ g.head = call[c].head
        /\ g.Best = call[c].Best
        /\ \A m \in Nodes : g.owed[m] > 0 =>
             call[c].owed[m] > 0 /\ m \in Linked /\ g.owed[m] <= items'[m]
        /\ k < call[c].left => g.owed[n] = 0
    BY <2>2, <2>3, Taken
  <2>5. QED
    BY <1>1, <2>4
<1>11. k < r.left => \A m \in Nodes : g.owed[m] > 0 => m \in From(Next_[n]) /\ m # r.Best
  BY <1>5, <1>6, <1>9, FromGoesOn
<1>12. CASE k = r.left \/ Next_[n] = nullptr
  <2>1. g.left = 0 \/ \A m \in Nodes : g.owed[m] = 0
    <3>1. CASE k = r.left
      BY <1>2, <1>9, <3>1
    <3>2. CASE k # r.left
      <4>1. \A m \in Nodes : ~(g.owed[m] > 0)
        BY <1>2, <1>8, <1>11, <1>12, <3>2, FromNothing
      <4>2. \A m \in Nodes : g.owed[m] \in Nat
        BY <1>9 DEF Calls
      <4>3. QED
        BY <4>1, <4>2
    <3>3. QED
      BY <3>1, <3>2
  <2>2. Finish(c, g) /\ call[c].pc # "idle"
    BY <1>1, <1>2, <1>8, <1>12
  <2>3. QED
    BY <1>2, <1>3, <1>4, <1>9, <2>1, <2>2, CallFinishes
<1>13. CASE ~(k = r.left \/ Next_[n] = nullptr)
  <2>1. PICK next \in Linked : next = Next_[n]
    BY <1>2, <1>13 DEF AnswerInv, ListInv, Complete, Closed
  <2>2. PICK q : q = [g EXCEPT !.node = next]
    OBVIOUS
  <2>3. q \in Calls /\ q.pc = "walk" /\ q.node = next /\ q.left = g.left /\ q.owed = g.owed
        /\ q.Best = r.Best
    BY <1>2, <1>9, <2>1, <2>2, LinkedAreNodes DEF Calls
  <2>4. k < r.left /\ g.left > 0
    BY <1>2, <1>8, <1>9, <1>13
  <2>5. CallRight(q, t)
    BY <1>2, <2>1, <2>3, <2>4 DEF CallRight, TokenRight
  <2>6. PICK now : now = items'
    OBVIOUS
  <2>7. OwedAhead(q, t, now)
    BY <1>9, <1>11, <2>1, <2>3, <2>4, <2>6 DEF OwedAhead
  <2>8. call' = [call EXCEPT ![c] = q]
    BY <1>8, <1>13, <2>1, <2>2 DEF Only
  <2>9. q.owed # NoCall.owed => call[c].owed # NoCall.owed
    BY <1>1, <1>9, <2>3, OwesSome
  <2>10. call[c].pc # "idle"
    BY <1>1, <1>2
  <2>11. QED
    BY <1>3, <1>4, <2>5, <2>6, <2>7, <2>8, <2>9, <2>10, CallMoves
<1>14. QED
  BY <1>12, <1>13

\* The search for the best producer: who has found none has one ahead, if any has items.
LEMMA SizeKeeps ==
  ASSUME AnswerInv, ListInv', NEW c \in Consumers, SizeNode(c)
  PROVE  AnswerInv'
<1>1. PICK r \in Calls, t \in Tokens, n \in NodeOrNull :
        r = call[c] /\ t = consumer[c] /\ n = r.node
  <2>1. call[c] \in Calls /\ consumer[c] \in Tokens
    BY DEF AnswerInv, CallRight
  <2>2. call[c].node \in NodeOrNull
    BY <2>1 DEF Calls
  <2>3. QED
    BY <2>1, <2>2
<1>2. /\ r.pc = "size" /\ n \in Linked /\ TokenRight(t) /\ r.left = 1
      /\ IF r.NonEmptyCount = 0 THEN r.BestSize = 0 ELSE r.Best \in Linked
  BY <1>1 DEF SizeNode, AnswerInv, CallRight, TokenRight
<1>3. /\ consumer'[c] = t /\ \A d \in Consumers \ {c} : consumer'[d] = consumer[d]
      /\ UNCHANGED items
  BY <1>1 DEF SizeNode
<1>4. /\ UNCHANGED <<list, producing>>
      /\ GlobalExplicitConsumerOffset' \in Nat /\ NextExplicitConsumerId' \in Nat
  BY DEF SizeNode, offsets, AnswerInv
<1>5. PICK i \in [Nodes -> Nat] : i = items
  BY DEF AnswerInv, ListInv, Stored
<1>6. OwedAhead(r, t, i)
  BY <1>1, <1>5 DEF AnswerInv
<1>7. n \in Nodes /\ i[n] \in Nat /\ r.owed \in [Nodes -> Nat]
      /\ r.BestSize \in Nat /\ r.NonEmptyCount \in Nat
  BY <1>2, <1>5, LinkedAreNodes DEF Calls
<1> DEFINE counted(x) == r.NonEmptyCount + (IF x > 0 THEN 1 ELSE 0)
           seen(x) == [r EXCEPT !.NonEmptyCount = counted(x),
                         !.Best = IF x > r.BestSize THEN n ELSE @,
                         !.BestSize = IF x > r.BestSize THEN x ELSE @]
           next(x) == IF counted(x) < 3 /\ Next_[n] # nullptr THEN [seen(x) EXCEPT !.node = Next_[n]]
                      ELSE [seen(x) EXCEPT !.pc = IF counted(x) > 0 THEN "best" ELSE "return",
                              !.node = nullptr, !.NonEmptyCount = 0, !.BestSize = 0]
<1>8. PICK size, count, q :
        size \in Sizes(c, n) /\ count = counted(size) /\ q = next(size) /\ Only(c, q)
  <2>1. PICK x \in Sizes(c, n) : Only(c, next(x))
    BY ZenonT(60), <1>1 DEF SizeNode
  <2>2. QED
    BY <2>1
<1>9. size \in Nat /\ size <= i[n] /\ (Busy = {c} => size = i[n])
  BY <1>5, <1>7, <1>8 DEF Sizes
<1>10. count \in Nat /\ (count = 0 <=> r.NonEmptyCount = 0 /\ size = 0)
  BY <1>7, <1>8, <1>9
<1>11. PICK best, most : /\ best = IF size > r.BestSize THEN n ELSE r.Best
                         /\ most = IF size > r.BestSize THEN size ELSE r.BestSize
  OBVIOUS
<1>12. /\ best \in NodeOrNull /\ most \in Nat
       /\ count > 0 => best \in Linked
       /\ count = 0 => most = 0
  BY <1>2, <1>7, <1>9, <1>10, <1>11, LinkedAreNodes DEF Calls
<1>13. ASSUME count = 0, NEW m \in Nodes, r.owed[m] > 0
       PROVE  m \in From(Next_[n])
  <2>1. r.owed # NoCall.owed
    BY <1>13, OwesSome
  <2>2. Busy = {c}
    BY <1>1, <1>2, <2>1, OthersOweNothing
  <2>3. i[n] = 0
    BY <1>9, <1>10, <1>13, <2>2
  <2>4. m \in From(n) /\ r.owed[m] <= i[m]
    BY <1>1, <1>2, <1>6, <1>10, <1>13 DEF OwedAhead
  <2>5. r.owed[m] \in Nat
    BY <1>7
  <2>6. m # n
    BY <1>13, <2>3, <2>4, <2>5
  <2>7. QED
    BY <1>7, <2>4, <2>6, FromGoesOn
<1>14. /\ q \in Calls /\ q.owed = r.owed /\ q.left = r.left /\ q.Best = best
       /\ \/ q.pc = "size" /\ q.node = Next_[n] /\ Next_[n] # nullptr
             /\ q.NonEmptyCount = count /\ q.BestSize = most
          \/ q.pc = "best" /\ count > 0
          \/ q.pc = "return" /\ count = 0 /\ Next_[n] = nullptr
  <2>1. PICK s : s = [r EXCEPT !.NonEmptyCount = count, !.Best = best, !.BestSize = most]
    OBVIOUS
  <2>2. /\ s \in Calls /\ s.owed = r.owed /\ s.left = r.left /\ s.Best = best /\ s.pc = "size"
        /\ s.NonEmptyCount = count /\ s.BestSize = most
    BY <1>2, <1>10, <1>12, <2>1 DEF Calls
  <2>3. q = IF count < 3 /\ Next_[n] # nullptr THEN [s EXCEPT !.node = Next_[n]]
            ELSE [s EXCEPT !.pc = IF count > 0 THEN "best" ELSE "return",
                    !.node = nullptr, !.NonEmptyCount = 0, !.BestSize = 0]
    BY <1>8, <1>11, <2>1 DEF Calls
  <2>4. Next_[n] \in NodeOrNull /\ nullptr \in NodeOrNull
    BY <1>7, ConcurrentQueueAssumption
    DEF AnswerInv, ListInv, OwnerInv, ProducerTypes, NodeOrNull, nullptr
  <2>5. CASE count < 3 /\ Next_[n] # nullptr
    <3>1. q = [s EXCEPT !.node = Next_[n]]
      BY <2>3, <2>5
    <3>2. QED
      BY <2>2, <2>4, <2>5, <3>1 DEF Calls
  <2>6. CASE ~(count < 3 /\ Next_[n] # nullptr)
    <3>1. PICK at \in {"best", "return"} : at = IF count > 0 THEN "best" ELSE "return"
      OBVIOUS
    <3>2. q = [s EXCEPT !.pc = at, !.node = nullptr, !.NonEmptyCount = 0, !.BestSize = 0]
      BY <2>3, <2>6, <3>1
    <3>3. /\ q \in Calls /\ q.owed = s.owed /\ q.left = s.left /\ q.Best = s.Best
          /\ q.pc = at
      BY <2>2, <2>4, <3>2 DEF Calls
    <3>4. at = "best" => count > 0
      BY <3>1
    <3>5. at = "return" => count = 0 /\ Next_[n] = nullptr
      BY <1>10, <2>6, <3>1
    <3>6. QED
      BY <2>2, <3>3, <3>4, <3>5
  <2>7. QED
    BY <2>5, <2>6
<1>15. CallRight(q, t)
  <2>1. Next_[n] # nullptr => Next_[n] \in Linked
    BY <1>2 DEF AnswerInv, ListInv, Complete, Closed
  <2>2. q.pc \in {"size", "best", "return"} /\ q \in Calls /\ q.left = 1
    BY <1>2, <1>14
  <2>3. q.pc = "size" => q.node \in Linked
    BY <1>14, <2>1
  <2>4. q.pc = "size" => IF q.NonEmptyCount = 0 THEN q.BestSize = 0 ELSE q.Best \in Linked
    BY <1>10, <1>12, <1>14
  <2>5. q.pc = "best" => q.Best \in Linked
    BY <1>12, <1>14
  <2>6. QED
    BY <1>2, <2>2, <2>3, <2>4, <2>5 DEF CallRight, TokenRight
<1>16. OwedAhead(q, t, i)
  <2>1. ASSUME NEW m \in Nodes, q.owed[m] > 0
        PROVE  /\ m \in Linked /\ q.owed[m] <= i[m] /\ q.pc # "return"
               /\ q.pc = "size" /\ q.NonEmptyCount = 0 => m \in From(q.node)
    <3>1. r.owed[m] > 0 /\ q.owed[m] = r.owed[m]
      BY <1>14, <2>1
    <3>2. m \in Linked /\ r.owed[m] <= i[m]
      BY <1>6, <3>1 DEF OwedAhead
    <3>3. q.pc # "return"
      BY <1>13, <1>14, <3>1, FromNothing
    <3>4. q.pc = "size" /\ q.NonEmptyCount = 0 => m \in From(q.node)
      BY <1>13, <1>14, <3>1
    <3>5. QED
      BY <3>1, <3>2, <3>3, <3>4
  <2>2. QED
    BY <1>14, <2>1 DEF OwedAhead
<1>17. call' = [call EXCEPT ![c] = q] /\ call[c].pc # "idle" /\ i = items'
       /\ (q.owed # NoCall.owed => call[c].owed # NoCall.owed)
  BY <1>1, <1>2, <1>3, <1>5, <1>8, <1>14 DEF Only
<1>18. QED
  BY <1>3, <1>4, <1>15, <1>16, <1>17, CallMoves

\* The best producer is empty, or the call has what it asked for.
LEMMA BestKeeps ==
  ASSUME AnswerInv, ListInv', NEW c \in Consumers, TakeBest(c)
  PROVE  AnswerInv'
<1>1. PICK r \in Calls, t \in Tokens, n \in NodeOrNull :
        r = call[c] /\ t = consumer[c] /\ n = r.Best
  <2>1. call[c] \in Calls /\ consumer[c] \in Tokens
    BY DEF AnswerInv, CallRight
  <2>2. call[c].Best \in NodeOrNull
    BY <2>1 DEF Calls
  <2>3. QED
    BY <2>1, <2>2
<1>2. r.pc = "best" /\ n \in Linked /\ TokenRight(t) /\ r.left = 1
  BY <1>1 DEF TakeBest, AnswerInv, CallRight, TokenRight
<1>3. consumer'[c] = t /\ \A d \in Consumers \ {c} : consumer'[d] = consumer[d]
  BY <1>1 DEF TakeBest
<1>4. /\ UNCHANGED <<list, producing>>
      /\ GlobalExplicitConsumerOffset' \in Nat /\ NextExplicitConsumerId' \in Nat
  BY DEF TakeBest, offsets, AnswerInv
<1>5. PICK k, g :
        /\ k \in 0..1
        /\ Yields(c, n, 1, k) /\ Take(n, k) /\ g = Got(c, n, k)
        /\ IF k = 1 THEN Finish(c, Got(c, n, 1)) ELSE WalkFrom(c, ProducerListsHead)
  BY <1>1 DEF TakeBest
<1>6. n \in Nodes /\ call[c].pc # "idle"
  BY <1>1, <1>2, LinkedAreNodes
<1>7. /\ g \in Calls /\ g.left = 1 - k
      /\ g.pc = r.pc /\ g.node = r.node /\ g.head = r.head /\ g.Best = r.Best
      /\ \A m \in Nodes : g.owed[m] > 0 =>
           r.owed[m] > 0 /\ m \in Linked /\ g.owed[m] <= items'[m]
      /\ k < 1 => g.owed[n] = 0
  <2>1. n \in Linked /\ Take(n, k) /\ g = Got(c, n, k) /\ call[c].left = 1
    BY <1>1, <1>2, <1>5
  <2>2. k \in 0..call[c].left /\ Yields(c, n, call[c].left, k)
    BY <1>5, <2>1
  <2>3. /\ g \in Calls /\ g.left = call[c].left - k
        /\ g.pc = call[c].pc /\ g.node = call[c].node /\ g.head = call[c].head
        /\ g.Best = call[c].Best
        /\ \A m \in Nodes : g.owed[m] > 0 =>
             call[c].owed[m] > 0 /\ m \in Linked /\ g.owed[m] <= items'[m]
        /\ k < call[c].left => g.owed[n] = 0
    BY <1>6, <2>1, <2>2, Taken
  <2>4. QED
    BY <1>1, <2>1, <2>3
<1>8. CASE k = 1
  <2>1. Finish(c, g) /\ g.left = 0
    BY <1>5, <1>7, <1>8
  <2>2. QED
    BY <1>2, <1>3, <1>4, <1>6, <1>7, <2>1, CallFinishes
<1>9. CASE k = 0
  <2>1. WalkFrom(c, ProducerListsHead) /\ g.owed[n] = 0
    BY <1>5, <1>7, <1>9
  <2>2. r.owed \in [Nodes -> Nat] /\ g.owed = r.owed
    <3>1. r.owed \in [Nodes -> Nat] /\ items \in [Nodes -> Nat]
      BY DEF Calls, AnswerInv, ListInv, Stored
    <3>2. r.owed[n] \in Nat
      BY <1>6, <3>1
    <3>3. g = [r EXCEPT !.left = r.left - 0, !.owed = [r.owed EXCEPT ![n] = IF 0 <= @ THEN @ - 0 ELSE 0]]
      BY <1>1, <1>5, <1>9 DEF Got, Calls
    <3>4. [r.owed EXCEPT ![n] = IF 0 <= @ THEN @ - 0 ELSE 0] = r.owed
      BY <3>1, <3>2
    <3>5. QED
      BY <3>1, <3>3, <3>4 DEF Calls
  <2>3. r.owed[n] = 0
    BY <2>1, <2>2
  <2>4. PICK now : now = items'
    OBVIOUS
  <2>5. \A m \in Nodes : r.owed[m] > 0 => m \in Linked /\ r.owed[m] <= now[m] /\ m # n
    BY <1>7, <2>2, <2>3, <2>4
  <2>6. CASE ProducerListsHead = nullptr
    <3>1. FALSE
      BY <1>2, <2>6, HeadIsLinked, LinkedAreNodes DEF AnswerInv, ListInv
    <3>2. QED
      BY <3>1
  <2>7. CASE ProducerListsHead # nullptr
    <3>1. PICK head \in Linked : head = ProducerListsHead
      BY <1>2, HeadIsLinked DEF AnswerInv, ListInv
    <3>2. PICK q : q = [r EXCEPT !.pc = "walk", !.node = head]
      OBVIOUS
    <3>3. /\ q \in Calls /\ q.pc = "walk" /\ q.node = head /\ q.left = 1 /\ q.owed = r.owed
          /\ q.Best = n
      BY <1>1, <1>2, <3>1, <3>2, LinkedAreNodes DEF Calls
    <3>4. CallRight(q, t)
      BY <1>2, <3>1, <3>3 DEF CallRight, TokenRight
    <3>5. Linked = From(head)
      BY <3>1, ListedAreLinked DEF AnswerInv, ListInv, Listed
    <3>6. OwedAhead(q, t, now)
      BY <2>5, <3>3, <3>5 DEF OwedAhead
    <3>7. call' = [call EXCEPT ![c] = q]
      BY <1>1, <2>1, <2>7, <3>1, <3>2 DEF WalkFrom, Only
    <3>8. q.owed # NoCall.owed => call[c].owed # NoCall.owed
      BY <1>1, <3>3
    <3>9. QED
      BY <1>3, <1>4, <1>6, <2>4, <3>4, <3>6, <3>7, <3>8, CallMoves
  <2>8. QED
    BY <2>6, <2>7
<1>10. QED
  BY <1>5, <1>8, <1>9

\* UpdateProducerForConsumer: it takes nothing, and finds a producer if there is one.
LEMMA UpdateKeeps ==
  ASSUME AnswerInv, ListInv', NEW c \in Consumers,
         UpdateHead(c) \/ UpdateCount(c) \/ UpdateOffset(c)
  PROVE  AnswerInv'
<1>1. PICK r \in Calls, t \in Tokens : r = call[c] /\ t = consumer[c]
  BY DEF AnswerInv, CallRight
<1>2. r.pc \in {"update", "count", "offset"} /\ TokenRight(t) /\ CallRight(r, t)
  BY <1>1 DEF UpdateHead, UpdateCount, UpdateOffset, AnswerInv, CallRight, TokenRight
<1>3. /\ UNCHANGED <<list, producing, items>> /\ call[c].pc # "idle"
      /\ GlobalExplicitConsumerOffset' \in Nat /\ NextExplicitConsumerId' \in Nat
  BY <1>1, <1>2 DEF UpdateHead, UpdateCount, UpdateOffset, offsets, AnswerInv
<1>4. PICK i \in [Nodes -> Nat] : i = items
  BY DEF AnswerInv, ListInv, Stored
<1>5. OwedAhead(r, t, i) /\ Complete
  BY <1>1, <1>4 DEF AnswerInv, ListInv
<1>6. ASSUME NEW q \in Calls, NEW u, q.pc \in {"count", "offset", "current"}, q.owed = r.owed
      PROVE  /\ OwedAhead(q, u, i) /\ i = items'
             /\ q.owed # NoCall.owed => call[c].owed # NoCall.owed
  BY <1>1, <1>3, <1>4, <1>5, <1>6 DEF OwedAhead
<1>7. r.left > 0
  BY <1>2 DEF CallRight
<1>8. CASE UpdateHead(c)
  <2>1. consumer'[c] = t /\ \A d \in Consumers \ {c} : consumer'[d] = consumer[d]
    BY <1>1, <1>8 DEF UpdateHead
  <2>2. CASE t.DesiredProducer = nullptr /\ ProducerListsHead = nullptr
    <3>1. \A n \in Nodes : ~(r.owed[n] > 0)
      BY <1>5, <2>2, HeadIsLinked, LinkedAreNodes DEF OwedAhead
    <3>2. \A n \in Nodes : r.owed[n] = 0
      BY <3>1 DEF Calls
    <3>3. Finish(c, r)
      BY <1>1, <1>8, <2>2 DEF UpdateHead
    <3>4. QED
      BY <1>2, <1>3, <2>1, <3>2, <3>3, CallFinishes
  <2>3. CASE ~(t.DesiredProducer = nullptr /\ ProducerListsHead = nullptr)
    <3>1. PICK head \in Linked : head = ProducerListsHead
      BY <1>2, <1>5, <2>3, HeadIsLinked, LinkedAreNodes DEF TokenRight, Complete, Closed
    <3>2. PICK q : q = [r EXCEPT !.pc = "count", !.head = head]
      OBVIOUS
    <3>3. q \in Calls /\ q.pc = "count" /\ q.head = head /\ q.owed = r.owed /\ q.left = r.left
      BY <3>1, <3>2, LinkedAreNodes DEF Calls
    <3>4. CallRight(q, t)
      BY <1>2, <1>7, <3>1, <3>3 DEF CallRight, TokenRight
    <3>5. call' = [call EXCEPT ![c] = q]
      BY <1>1, <1>8, <2>3, <3>1, <3>2 DEF UpdateHead, Only
    <3>6. q \in Calls /\ q.pc \in {"count", "offset", "current"} /\ q.owed = r.owed
      BY <3>3
    <3>7. /\ OwedAhead(q, t, i) /\ i = items'
          /\ q.owed # NoCall.owed => call[c].owed # NoCall.owed
      BY <1>6, <3>6
    <3>8. QED
      BY <1>3, <2>1, <3>4, <3>5, <3>7, CallMoves
  <2>4. QED
    BY <2>2, <2>3
<1>9. CASE UpdateCount(c)
  <2>1. consumer'[c] = t /\ \A d \in Consumers \ {c} : consumer'[d] = consumer[d]
    BY <1>1, <1>9 DEF UpdateCount
  <2>2. PICK count \in Nat : count = ProducerCount
    BY CountsFinite DEF AnswerInv, ListInv, Counted
  <2>3. PICK q : q = [r EXCEPT !.pc = "offset", !.count = count]
    OBVIOUS
  <2>4. /\ q \in Calls /\ q.pc = "offset" /\ q.head = r.head /\ q.owed = r.owed
        /\ q.left = r.left
    BY <2>2, <2>3 DEF Calls
  <2>5. r.head \in Linked
    BY <1>1, <1>2, <1>9 DEF UpdateCount, CallRight
  <2>6. CallRight(q, t)
    BY <1>2, <1>7, <2>4, <2>5 DEF CallRight, TokenRight
  <2>7. call' = [call EXCEPT ![c] = q]
    BY <1>1, <1>9, <2>2, <2>3 DEF UpdateCount, Only
  <2>8. q \in Calls /\ q.pc \in {"count", "offset", "current"} /\ q.owed = r.owed
    BY <2>4
  <2>9. /\ OwedAhead(q, t, i) /\ i = items'
        /\ q.owed # NoCall.owed => call[c].owed # NoCall.owed
    BY <1>6, <2>8
  <2>10. QED
    BY <1>3, <2>1, <2>6, <2>7, <2>9, CallMoves
<1>10. CASE UpdateOffset(c)
  <2>1. PICK offset \in Nat, delta \in Nat :
          /\ offset = GlobalExplicitConsumerOffset
          /\ delta = (GlobalExplicitConsumerOffset - t.LastKnownGlobalOffset) % Width
    <3>1. ASSUME NEW x \in Nat, NEW y \in Nat PROVE (x - y) % Width \in Nat
      <4>1. Width \in Nat /\ Width > 0
        BY ConcurrentQueueAssumption
      <4>2. x - y \in Int
        OBVIOUS
      <4>3. QED
        BY <4>1, <4>2
    <3>2. GlobalExplicitConsumerOffset \in Nat /\ t.LastKnownGlobalOffset \in Nat
      BY DEF AnswerInv, Tokens
    <3>3. QED
      BY <3>1, <3>2
  <2>2. /\ r.pc = "offset" /\ r.head \in Linked /\ r.count \in Nat /\ r.count > 0
    BY <1>1, <1>2, <1>10 DEF UpdateOffset, CallRight, Calls
  <2>3. PICK by \in Nat : by = IF delta >= r.count THEN delta % r.count ELSE delta
    BY <2>1, <2>2
  <2>4. PICK first \in Linked :
          first = IF t.DesiredProducer = nullptr
                  THEN Further(r.head, t.InitialOffset % r.count, r.head)
                  ELSE t.DesiredProducer
    <3>1. t.InitialOffset % r.count \in Nat
      BY <2>2 DEF Tokens
    <3>2. Further(r.head, t.InitialOffset % r.count, r.head) \in Linked
      BY <1>5, <2>2, <3>1, FurtherIsLinked
    <3>3. QED
      BY <1>2, <3>2 DEF TokenRight
  <2>5. PICK desired \in Linked : desired = Further(first, by, r.head)
    BY <1>5, <2>2, FurtherIsLinked
  <2>6. PICK u : u = [t EXCEPT !.DesiredProducer = desired, !.CurrentProducer = desired,
                               !.ItemsConsumed = 0, !.LastKnownGlobalOffset = offset]
    OBVIOUS
  <2>7. u \in Tokens /\ u.DesiredProducer = desired /\ u.CurrentProducer = desired
    BY <2>1, <2>5, <2>6, LinkedAreNodes DEF Tokens
  <2>8. consumer' = [consumer EXCEPT ![c] = u]
    <3>1. consumer' = [consumer EXCEPT ![c].DesiredProducer = desired,
           ![c].CurrentProducer = desired, ![c].ItemsConsumed = 0,
           ![c].LastKnownGlobalOffset = GlobalExplicitConsumerOffset]
      BY <1>1, <1>10, <2>1, <2>3, <2>4, <2>5 DEF UpdateOffset
    <3>2. QED
      BY <1>1, <2>1, <2>6, <3>1
  <2>9. consumer'[c] = u /\ \A d \in Consumers \ {c} : consumer'[d] = consumer[d]
    BY <2>8 DEF AnswerInv, ListInv, Shapes
  <2>10. PICK q : q = [r EXCEPT !.pc = "current", !.head = nullptr, !.count = 0]
    OBVIOUS
  <2>11. q \in Calls /\ q.pc = "current" /\ q.owed = r.owed /\ q.left = r.left
    <3>1. nullptr \in NodeOrNull
      BY ConcurrentQueueAssumption DEF NodeOrNull, nullptr
    <3>2. QED
      BY <2>10, <3>1 DEF Calls
  <2>12. CallRight(q, u)
    BY <1>7, <2>5, <2>7, <2>11 DEF CallRight
  <2>13. call' = [call EXCEPT ![c] = q]
    BY <1>1, <1>10, <2>10 DEF UpdateOffset, Only
  <2>14. q \in Calls /\ q.pc \in {"count", "offset", "current"} /\ q.owed = r.owed
    BY <2>11
  <2>15. /\ OwedAhead(q, u, i) /\ i = items'
         /\ q.owed # NoCall.owed => call[c].owed # NoCall.owed
    BY <1>6, <2>14
  <2>16. QED
    BY <1>3, <2>9, <2>12, <2>13, <2>15, CallMoves
<1>11. QED
  BY <1>8, <1>9, <1>10

\* A round that goes on to the next node, or that has come back and owes nothing.
LEMMA RingKeeps ==
  ASSUME AnswerInv, ListInv', NEW c \in Consumers, call[c].pc # "idle",
         NEW g \in Calls, g.left > 0, NEW u, TokenRight(u), u.CurrentProducer \in Linked,
         NEW n \in Linked, NEW head \in Linked, RingFrom(c, g, n, head, u.CurrentProducer),
         consumer'[c] = u, \A d \in Consumers \ {c} : consumer'[d] = consumer[d],
         UNCHANGED <<list, producing>>,
         GlobalExplicitConsumerOffset' \in Nat, NextExplicitConsumerId' \in Nat,
         \A m \in Nodes : g.owed[m] > 0 =>
           /\ m \in Linked /\ g.owed[m] <= items'[m] /\ call[c].owed[m] > 0
           /\ After(n, head) # u.CurrentProducer
           /\ m \in Round(After(n, head), head, u.CurrentProducer)
  PROVE  AnswerInv'
<1>1. PICK next \in Linked : next = After(n, head)
  BY AfterIsLinked DEF AnswerInv, ListInv
<1>2. /\ next = u.CurrentProducer => Finish(c, g)
      /\ next # u.CurrentProducer =>
           Only(c, [g EXCEPT !.pc = "others", !.head = head, !.node = next])
  BY <1>1 DEF RingFrom, After
<1>3. CASE next = u.CurrentProducer
  <2>1. \A m \in Nodes : ~(g.owed[m] > 0)
    BY <1>1, <1>3
  <2>2. \A m \in Nodes : g.owed[m] = 0
    BY <2>1 DEF Calls
  <2>3. QED
    BY <1>2, <1>3, <2>2, CallFinishes
<1>4. CASE next # u.CurrentProducer
  <2>1. PICK q : q = [g EXCEPT !.pc = "others", !.head = head, !.node = next]
    OBVIOUS
  <2>2. /\ q \in Calls /\ q.pc = "others" /\ q.head = head /\ q.node = next
        /\ q.owed = g.owed /\ q.left = g.left
    BY <2>1, LinkedAreNodes DEF Calls
  <2>3. CallRight(q, u)
    BY <2>2 DEF CallRight, TokenRight
  <2>4. PICK now : now = items'
    OBVIOUS
  <2>5. OwedAhead(q, u, now)
    BY <1>1, <2>2, <2>4 DEF OwedAhead
  <2>6. call' = [call EXCEPT ![c] = q]
    BY <1>2, <1>4, <2>1 DEF Only
  <2>7. q.owed # NoCall.owed => call[c].owed # NoCall.owed
    <3>1. call[c] \in Calls
      BY DEF AnswerInv, CallRight
    <3>2. PICK r \in Calls : r = call[c]
      BY <3>1
    <3>3. QED
      BY <2>2, <3>2, OwesSome
  <2>8. QED
    BY <2>3, <2>4, <2>5, <2>6, <2>7, CallMoves
<1>5. QED
  BY <1>3, <1>4

\* A consumer with a token takes from its current producer, and if it wants more has all
\* the others to go round.
LEMMA CurrentKeeps ==
  ASSUME AnswerInv, ListInv', NEW c \in Consumers, TakeCurrent(c)
  PROVE  AnswerInv'
<1>1. PICK r \in Calls, t \in Tokens, n \in NodeOrNull :
        r = call[c] /\ t = consumer[c] /\ n = t.CurrentProducer
  <2>1. call[c] \in Calls /\ consumer[c] \in Tokens
    BY DEF AnswerInv, CallRight
  <2>2. consumer[c].CurrentProducer \in NodeOrNull
    BY <2>1 DEF Tokens
  <2>3. QED
    BY <2>1, <2>2
<1>2. /\ r.pc = "current" /\ n \in Linked /\ TokenRight(t)
      /\ r.left \in Nat /\ r.left > 0 /\ call[c].pc # "idle"
  BY <1>1 DEF TakeCurrent, AnswerInv, CallRight, TokenRight, Calls
<1>3. /\ UNCHANGED <<list, producing>>
      /\ GlobalExplicitConsumerOffset' \in Nat /\ NextExplicitConsumerId' \in Nat
  BY DEF TakeCurrent, offsets, AnswerInv
<1>4. PICK k \in 0..r.left :
        /\ Yields(c, n, r.left, k) /\ Take(n, k)
        /\ consumer' = [consumer EXCEPT ![c].ItemsConsumed = @ + k]
        /\ IF k = r.left /\ ~QuotaReached(c, consumer[c].ItemsConsumed + k)
           THEN Finish(c, Got(c, n, k))
           ELSE Only(c, [Got(c, n, k) EXCEPT !.pc = IF k < r.left THEN "ring" ELSE "rotate"])
  BY <1>1 DEF TakeCurrent
<1>5. PICK g : g = Got(c, n, k)
  OBVIOUS
<1>6. PICK at \in {"ring", "rotate"} : at = IF k < r.left THEN "ring" ELSE "rotate"
  OBVIOUS
<1>7. (Finish(c, g) /\ k = r.left) \/ Only(c, [g EXCEPT !.pc = at])
  BY <1>4, <1>5, <1>6
<1>8. /\ Yields(c, n, r.left, k) /\ Take(n, k) /\ g = Got(c, n, k)
      /\ consumer' = [consumer EXCEPT ![c].ItemsConsumed = @ + k]
      /\ at = IF k < r.left THEN "ring" ELSE "rotate"
      /\ (Finish(c, g) /\ k = r.left) \/ Only(c, [g EXCEPT !.pc = at])
  BY <1>4, <1>5, <1>6, <1>7
<1>9. PICK u : u = [t EXCEPT !.ItemsConsumed = @ + k]
  OBVIOUS
<1>10. k \in Nat /\ k <= r.left
  BY <1>2
<1>11. u \in Tokens /\ u.DesiredProducer = t.DesiredProducer /\ u.CurrentProducer = n
  BY <1>1, <1>9, <1>10 DEF Tokens
<1>12. consumer'[c] = u /\ \A d \in Consumers \ {c} : consumer'[d] = consumer[d]
  <2>1. consumer' = [consumer EXCEPT ![c] = u]
    BY <1>1, <1>8, <1>9
  <2>2. QED
    BY <2>1 DEF AnswerInv, ListInv, Shapes
<1>13. TokenRight(u)
  BY <1>1, <1>2, <1>11 DEF TokenRight
<1>14. /\ g \in Calls /\ g.left = r.left - k
       /\ \A m \in Nodes : g.owed[m] > 0 =>
            r.owed[m] > 0 /\ m \in Linked /\ g.owed[m] <= items'[m]
       /\ k < r.left => g.owed[n] = 0
  <2>1. /\ k \in 0..call[c].left /\ Yields(c, n, call[c].left, k)
        /\ n \in Linked /\ Take(n, k) /\ g = Got(c, n, k)
    BY <1>1, <1>2, <1>8
  <2>2. /\ g \in Calls /\ g.left = call[c].left - k
        /\ \A m \in Nodes : g.owed[m] > 0 =>
             call[c].owed[m] > 0 /\ m \in Linked /\ g.owed[m] <= items'[m]
        /\ k < call[c].left => g.owed[n] = 0
    BY <1>2, <2>1, Taken
  <2>3. QED
    BY <1>1, <2>2
<1>15. CASE Finish(c, g) /\ k = r.left
  <2>1. g.left = 0
    BY <1>2, <1>14, <1>15
  <2>2. QED
    BY <1>2, <1>3, <1>12, <1>13, <1>14, <1>15, <2>1, CallFinishes
<1>16. CASE Only(c, [g EXCEPT !.pc = at])
  <2>1. PICK q : q = [g EXCEPT !.pc = at]
    OBVIOUS
  <2>2. q \in Calls /\ q.pc = at /\ q.owed = g.owed /\ q.left = g.left
    BY <1>14, <2>1 DEF Calls
  <2>3. /\ at = "ring" => k < r.left /\ q.left > 0
        /\ at = "rotate" => q.left = 0
    BY <1>2, <1>8, <1>10, <1>14, <2>2
  <2>4. CallRight(q, u)
    BY <1>2, <1>11, <1>13, <2>2, <2>3 DEF CallRight, TokenRight
  <2>5. PICK now : now = items'
    OBVIOUS
  <2>6. OwedAhead(q, u, now)
    <3>1. ASSUME NEW m \in Nodes, q.owed[m] > 0
          PROVE  m \in Linked /\ q.owed[m] <= now[m] /\ (at = "ring" => m # u.CurrentProducer)
      BY <1>11, <1>14, <2>2, <2>3, <2>5, <3>1
    <3>2. QED
      BY <2>2, <3>1 DEF OwedAhead
  <2>7. call' = [call EXCEPT ![c] = q]
    BY <1>16, <2>1 DEF Only
  <2>8. q.owed # NoCall.owed => call[c].owed # NoCall.owed
    BY <1>1, <1>14, <2>2, OwesSome
  <2>9. QED
    BY <1>2, <1>3, <1>12, <2>4, <2>5, <2>6, <2>7, <2>8, CallMoves
<1>17. QED
  BY <1>8, <1>15, <1>16

\* The end of the quota, the start of a round, and a call that returns.
LEMMA OthersKeep ==
  ASSUME AnswerInv, ListInv', NEW c \in Consumers, Rotate(c) \/ BeginRing(c) \/ Return(c)
  PROVE  AnswerInv'
<1>1. PICK r \in Calls, t \in Tokens : r = call[c] /\ t = consumer[c]
  BY DEF AnswerInv, CallRight
<1>2. CallRight(r, t) /\ TokenRight(t)
  BY <1>1 DEF AnswerInv, CallRight, TokenRight
<1>3. /\ consumer'[c] = t /\ \A d \in Consumers \ {c} : consumer'[d] = consumer[d]
      /\ UNCHANGED <<list, producing, items>> /\ call[c].pc # "idle"
  BY <1>1 DEF Rotate, BeginRing, Return
<1>4. GlobalExplicitConsumerOffset' \in Nat /\ NextExplicitConsumerId' \in Nat
  <2>1. ASSUME NEW x \in Nat PROVE (x + 1) % Width \in Nat
    BY ConcurrentQueueAssumption
  <2>2. QED
    BY <2>1 DEF Rotate, BeginRing, Return, offsets, AnswerInv
<1>5. PICK i \in [Nodes -> Nat] : i = items
  BY DEF AnswerInv, ListInv, Stored
<1>6. OwedAhead(r, t, i) /\ Complete /\ Ends
  BY <1>1, <1>5 DEF AnswerInv, ListInv
<1>7. CASE Rotate(c)
  <2>1. Finish(c, r) /\ r.left = 0
    BY <1>1, <1>2, <1>7 DEF Rotate, CallRight
  <2>2. QED
    BY <1>2, <1>3, <1>4, <2>1, CallFinishes
<1>8. CASE BeginRing(c)
  <2>1. PICK n \in Linked : n = t.CurrentProducer
    BY <1>1, <1>2, <1>8 DEF BeginRing, CallRight
  <2>2. PICK head \in Linked : head = ProducerListsHead
    BY <1>6, <2>1, HeadIsLinked
  <2>3. r.pc = "ring" /\ r.left > 0 /\ RingFrom(c, r, n, head, t.CurrentProducer)
    BY <1>1, <1>2, <1>8, <2>1, <2>2 DEF BeginRing, CallRight
  <2>4. ASSUME NEW m \in Nodes, r.owed[m] > 0
        PROVE  /\ m \in Linked /\ r.owed[m] <= items'[m] /\ call[c].owed[m] > 0
               /\ After(n, head) # t.CurrentProducer
               /\ m \in Round(After(n, head), head, t.CurrentProducer)
    <3>1. m \in Linked /\ r.owed[m] <= i[m] /\ m # n
      BY <1>6, <2>1, <2>3, <2>4 DEF OwedAhead
    <3>2. /\ After(n, head) # n /\ m \in Round(After(n, head), head, n)
      BY <1>6, <2>2, <3>1, RoundIsComplete
    <3>3. QED
      BY <1>1, <1>3, <1>5, <2>1, <2>4, <3>1, <3>2
  <2>5. t.CurrentProducer \in Linked
    BY <2>1
  <2>6. QED
    BY <1>2, <1>3, <1>4, <2>3, <2>4, <2>5, RingKeeps
<1>9. CASE Return(c)
  <2>1. call' = [call EXCEPT ![c] = NoCall]
    BY <1>9 DEF Return, Only
  <2>2. CallRight(NoCall, t)
    BY <1>2, NothingOwed DEF CallRight, TokenRight
  <2>3. OwedAhead(NoCall, t, i)
    BY NothingOwed DEF OwedAhead
  <2>4. PICK q : q = NoCall
    OBVIOUS
  <2>5. call' = [call EXCEPT ![c] = q] /\ CallRight(q, t) /\ OwedAhead(q, t, i) /\ i = items'
    BY <1>3, <1>5, <2>1, <2>2, <2>3, <2>4
  <2>6. q.owed # NoCall.owed => call[c].owed # NoCall.owed
    BY <2>4
  <2>7. QED
    BY <1>3, <1>4, <2>5, <2>6, CallMoves
<1>10. QED
  BY <1>7, <1>8, <1>9

\* A round goes on, from the producer that has yielded something round to it again.
LEMMA RoundKeeps ==
  ASSUME AnswerInv, ListInv', NEW c \in Consumers, RingNode(c)
  PROVE  AnswerInv'
<1>1. PICK r \in Calls, t \in Tokens, n \in NodeOrNull :
        r = call[c] /\ t = consumer[c] /\ n = r.node
  <2>1. call[c] \in Calls /\ consumer[c] \in Tokens
    BY DEF AnswerInv, CallRight
  <2>2. call[c].node \in NodeOrNull
    BY <2>1 DEF Calls
  <2>3. QED
    BY <2>1, <2>2
<1>2. /\ r.pc = "others" /\ n \in Linked /\ r.head \in Linked /\ t.CurrentProducer \in Linked
      /\ TokenRight(t) /\ r.left \in Nat /\ r.left > 0 /\ call[c].pc # "idle"
  BY <1>1 DEF RingNode, AnswerInv, CallRight, TokenRight, Calls
<1>3. /\ UNCHANGED <<list, producing>>
      /\ GlobalExplicitConsumerOffset' \in Nat /\ NextExplicitConsumerId' \in Nat
  BY DEF RingNode, offsets, AnswerInv
<1>4. PICK k, g :
        /\ k \in 0..r.left
        /\ Yields(c, n, r.left, k) /\ Take(n, k) /\ g = Got(c, n, k)
        /\ consumer' = IF k = 0 THEN consumer
                       ELSE [consumer EXCEPT ![c].CurrentProducer = n, ![c].ItemsConsumed = k]
        /\ IF k = r.left THEN Finish(c, g)
           ELSE RingFrom(c, g, n, r.head, consumer'[c].CurrentProducer)
  BY <1>1 DEF RingNode
<1>5. k \in Nat /\ k <= r.left /\ n \in Nodes
  BY <1>2, <1>4, LinkedAreNodes DEF Calls
<1>6. PICK u : u = IF k = 0 THEN t ELSE [t EXCEPT !.CurrentProducer = n, !.ItemsConsumed = k]
  OBVIOUS
<1>7. /\ u \in Tokens /\ u.DesiredProducer = t.DesiredProducer
      /\ u.CurrentProducer = IF k = 0 THEN t.CurrentProducer ELSE n
  BY <1>2, <1>5, <1>6, LinkedAreNodes DEF Tokens
<1>8. consumer'[c] = u /\ \A d \in Consumers \ {c} : consumer'[d] = consumer[d]
  <2>1. CASE k = 0
    BY <1>1, <1>4, <1>6, <2>1
  <2>2. CASE k # 0
    <3>1. consumer' = [consumer EXCEPT ![c] = u]
      BY <1>1, <1>4, <1>6, <2>2
    <3>2. QED
      BY <3>1 DEF AnswerInv, ListInv, Shapes
  <2>3. QED
    BY <2>1, <2>2
<1>9. TokenRight(u) /\ u.CurrentProducer \in Linked
  BY <1>2, <1>7 DEF TokenRight
<1>10. /\ g \in Calls /\ g.left = r.left - k
       /\ \A m \in Nodes : g.owed[m] > 0 =>
            r.owed[m] > 0 /\ m \in Linked /\ g.owed[m] <= items'[m]
       /\ k < r.left => g.owed[n] = 0
  <2>1. /\ k \in 0..call[c].left /\ Yields(c, n, call[c].left, k)
        /\ n \in Linked /\ Take(n, k) /\ g = Got(c, n, k)
    BY <1>1, <1>2, <1>4
  <2>2. /\ g \in Calls /\ g.left = call[c].left - k
        /\ \A m \in Nodes : g.owed[m] > 0 =>
             call[c].owed[m] > 0 /\ m \in Linked /\ g.owed[m] <= items'[m]
        /\ k < call[c].left => g.owed[n] = 0
    BY <1>2, <2>1, Taken
  <2>3. QED
    BY <1>1, <2>2
<1>11. CASE k = r.left
  <2>1. Finish(c, g) /\ g.left = 0
    BY <1>2, <1>4, <1>10, <1>11
  <2>2. QED
    BY <1>2, <1>3, <1>8, <1>9, <1>10, <2>1, CallFinishes
<1>12. CASE k # r.left
  <2>1. PICK head \in Linked : head = r.head
    BY <1>2
  <2>2. RingFrom(c, g, n, head, u.CurrentProducer)
    BY <1>4, <1>8, <1>12, <2>1
  <2>3. k < r.left /\ g.left > 0
    BY <1>2, <1>5, <1>10, <1>12
  <2>4. ASSUME NEW m \in Nodes, g.owed[m] > 0
        PROVE  /\ m \in Linked /\ g.owed[m] <= items'[m] /\ call[c].owed[m] > 0
               /\ After(n, head) # u.CurrentProducer
               /\ m \in Round(After(n, head), head, u.CurrentProducer)
    <3>1. r.owed[m] > 0 /\ m \in Linked /\ g.owed[m] <= items'[m] /\ m # n
      BY <1>10, <2>3, <2>4
    <3>2. m \in Round(n, head, t.CurrentProducer)
      BY <1>1, <1>2, <2>1, <3>1 DEF AnswerInv, OwedAhead
    <3>3. CASE k = 0
      <4>1. /\ After(n, head) # t.CurrentProducer
            /\ m \in Round(After(n, head), head, t.CurrentProducer)
        BY <1>5, <3>1, <3>2, RoundGoesOn
      <4>2. QED
        BY <1>1, <1>7, <3>1, <3>3, <4>1
    <3>4. CASE k # 0
      <4>1. After(n, head) # n /\ m \in Round(After(n, head), head, n)
        BY <1>5, <3>1, <3>2, RoundStartsAnew
      <4>2. QED
        BY <1>1, <1>7, <3>1, <3>4, <4>1
    <3>5. QED
      BY <3>3, <3>4
  <2>5. QED
    BY <1>2, <1>3, <1>8, <1>9, <1>10, <2>2, <2>3, <2>4, RingKeeps
<1>13. QED
  BY <1>11, <1>12

\* Every step of the queue keeps what is owed.
LEMMA AnswerInvNext == AnswerInv /\ [Next]_cqVars => AnswerInv'
<1> SUFFICES ASSUME AnswerInv, [Next]_cqVars PROVE AnswerInv'
  OBVIOUS
<1>1. ListInv'
  BY ListInvNext DEF AnswerInv
<1>2. ASSUME NEW p \in Producers, ProducerStep(p) PROVE AnswerInv'
  BY <1>1, <1>2, ProducerKeepsAnswer
<1>3. ProducerListsHead \in NodeOrNull /\ nullptr \in NodeOrNull
  BY ConcurrentQueueAssumption
  DEF AnswerInv, ListInv, OwnerInv, ProducerTypes, NodeOrNull, nullptr
<1>4. ASSUME NEW c \in Consumers, ConsumerStep(c) PROVE AnswerInv'
  <2>1. ASSUME NEW kind \in Kinds, BeginWalk(c, kind) PROVE AnswerInv'
    <3>1. PICK at \in {"return", "walk"} :
            at = IF ProducerListsHead = nullptr THEN "return" ELSE "walk"
      OBVIOUS
    <3>2. PICK head \in NodeOrNull : head = ProducerListsHead
      BY <1>3
    <3>3. Begin(c, kind, at, head)
      BY <2>1, <3>1, <3>2 DEF BeginWalk
    <3>4. /\ consumer' = [consumer EXCEPT ![c].calls = @ + 1]
          /\ UNCHANGED <<list, producing, items, offsets>>
      BY <2>1 DEF BeginWalk
    <3>5. QED
      BY <1>1, <3>1, <3>2, <3>3, <3>4, CallStarts
  <2>2. CASE BeginBest(c)
    <3>1. PICK at \in {"return", "size"} :
            at = IF ProducerListsHead = nullptr THEN "return" ELSE "size"
      OBVIOUS
    <3>2. PICK head \in NodeOrNull, kind \in Kinds : head = ProducerListsHead /\ kind = "best"
      BY <1>3 DEF Kinds
    <3>3. Begin(c, kind, at, head)
      BY <2>2, <3>1, <3>2 DEF BeginBest
    <3>4. /\ consumer' = [consumer EXCEPT ![c].calls = @ + 1]
          /\ UNCHANGED <<list, producing, items, offsets>>
      BY <2>2 DEF BeginBest
    <3>5. QED
      BY <1>1, <3>1, <3>2, <3>3, <3>4, CallStarts
  <2>3. ASSUME NEW kind \in Kinds, BeginToken(c, kind) PROVE AnswerInv'
    <3>1. PICK at \in {"update", "current"} :
            at = IF \/ consumer[c].DesiredProducer = nullptr
                    \/ consumer[c].LastKnownGlobalOffset # GlobalExplicitConsumerOffset
                 THEN "update" ELSE "current"
      OBVIOUS
    <3>2. PICK head \in NodeOrNull : head = nullptr
      BY <1>3
    <3>3. Begin(c, kind, at, head)
      BY <2>3, <3>1, <3>2 DEF BeginToken
    <3>4. /\ consumer' = [consumer EXCEPT ![c].calls = @ + 1]
          /\ UNCHANGED <<list, producing, items, offsets>>
      BY <2>3 DEF BeginToken
    <3>5. at = "current" => consumer[c].DesiredProducer # nullptr
      BY <3>1
    <3>6. QED
      BY <1>1, <3>2, <3>3, <3>4, <3>5, CallStarts
  <2>4. QED
    BY <1>1, <1>4, <2>1, <2>2, <2>3, TokenIsMade, WalkKeeps, SizeKeeps, BestKeeps, UpdateKeeps,
       CurrentKeeps, OthersKeep, RoundKeeps
    DEF ConsumerStep
<1>5. CASE UNCHANGED cqVars
  <2>1. UNCHANGED <<list, producing, items, call, consumer, offsets>>
    BY <1>5 DEF cqVars, consuming
  <2>2. Linked' = Linked /\ Next_' = Next_ /\ NoCall' = NoCall
    BY <2>1 DEF Linked, Linking, list, producing, NoCall
  <2>3. Ends'
    BY <2>2 DEF AnswerInv, Ends
  <2>4. ASSUME NEW c \in Consumers
        PROVE  /\ CallRight(call[c], consumer[c])'
               /\ OwedAhead(call[c], consumer[c], items)'
               /\ OwesAlone(c)'
    <3>1. PICK r, t, i : r = call[c] /\ t = consumer[c] /\ i = items
      OBVIOUS
    <3>2. CallRight(r, t)' /\ OwedAhead(r, t, i)'
      BY <2>2, <3>1
      DEF AnswerInv, CallRight, OwedAhead, From, Closed, Round, Rounds, After
    <3>3. OwesAlone(c)'
      BY <2>1, <2>2 DEF AnswerInv, OwesAlone
    <3>4. QED
      BY <2>1, <3>1, <3>2, <3>3
  <2>5. QED
    BY <1>1, <2>1, <2>3, <2>4 DEF AnswerInv, offsets
<1>6. QED
  BY <1>2, <1>4, <1>5 DEF Next

\* What every call owes is ahead of it, at every moment.
THEOREM NothingPassedOver == Spec => []AnswerInv
BY AnswerInvInit, AnswerInvNext, PTL DEF Spec

\* A dequeue that nobody overlapped and that comes back with less than it was asked for
\* has taken all that was there when it began, however it looked for it.
THEOREM EmptyMeansEmpty == Spec => []EmptyAnswer
<1>1. AnswerInv => EmptyAnswer
  <2> SUFFICES ASSUME AnswerInv, NEW c \in Consumers, call[c].pc = "return"
               PROVE  call[c].owed = NoCall.owed
    BY DEF EmptyAnswer
  <2>1. PICK r \in Calls : r = call[c]
    BY DEF AnswerInv, CallRight
  <2>2. \A n \in Nodes : ~(r.owed[n] > 0)
    BY <2>1 DEF AnswerInv, OwedAhead
  <2>3. QED
    BY <2>1, <2>2, OwesSome
<1>2. QED
  BY <1>1, NothingPassedOver, PTL

-----------------------------------------------------------------------------
(* Rotation: a token that has had its quota. *)

\* A token that dequeues one item at a time counts them one by one up to the quota; it
\* has moved the offset on, or is about to, once it gets there.
Rotating(r, t, offset) ==
  /\ r.pc \in {"update", "count", "offset", "current", "ring", "others", "rotate"} =>
       r.kind = "token" /\ r.left <= 1
  /\ r.pc \in {"current", "ring", "others"} => t.ItemsConsumed < QUOTA
  /\ r.pc \in {"current", "ring", "others", "rotate"} => t.DesiredProducer # nullptr
  /\ t.DesiredProducer # nullptr => t.LastKnownGlobalOffset <= offset
  /\ t.ItemsConsumed >= QUOTA =>
       /\ t.DesiredProducer # nullptr
       /\ r.pc = "rotate" \/ t.LastKnownGlobalOffset < offset

RotationInv ==
  /\ AnswerInv
  /\ \A c \in Consumers : "tokenBulk" \notin plan.kinds[c] =>
       Rotating(call[c], consumer[c], GlobalExplicitConsumerOffset)

\* The offset has not come to the end of its 32 bits.
OffsetHasRoom == GlobalExplicitConsumerOffset < Width - 1

\* At first no token has consumed anything.
LEMMA RotationInvInit == Init => RotationInv
<1> SUFFICES ASSUME Init PROVE RotationInv
  OBVIOUS
<1>1. ASSUME NEW c \in Consumers
      PROVE  Rotating(call[c], consumer[c], GlobalExplicitConsumerOffset)
  <2>1. call[c] = NoCall /\ consumer[c] = NewConsumerToken
    BY DEF Init
  <2>2. NoCall.pc = "idle" /\ NewConsumerToken.DesiredProducer = nullptr
    BY NothingOwed
  <2>3. NewConsumerToken.ItemsConsumed = 0
    BY DEF NewConsumerToken
  <2>4. ~(0 >= QUOTA)
    BY ConcurrentQueueAssumption
  <2>5. QED
    BY <2>1, <2>2, <2>3, <2>4 DEF Rotating
<1>2. QED
  BY <1>1, AnswerInvInit DEF RotationInv

\* A step of one consumer.
LEMMA OneRotates ==
  ASSUME RotationInv, AnswerInv', NEW c \in Consumers, UNCHANGED plan,
         GlobalExplicitConsumerOffset' >= GlobalExplicitConsumerOffset,
         \A d \in Consumers \ {c} :
           /\ consumer'[d] = consumer[d] /\ call'[d].pc = call[d].pc
           /\ call'[d].kind = call[d].kind /\ call'[d].left = call[d].left,
         "tokenBulk" \notin plan.kinds[c] =>
           Rotating(call'[c], consumer'[c], GlobalExplicitConsumerOffset')
  PROVE  RotationInv'
<1>1. ASSUME NEW d \in Consumers \ {c}, "tokenBulk" \notin plan.kinds[d]
      PROVE  Rotating(call'[d], consumer'[d], GlobalExplicitConsumerOffset')
  <2>1. PICK r, t, q : r = call[d] /\ t = consumer[d] /\ q = call'[d] /\ t \in Tokens
    BY DEF RotationInv, AnswerInv, CallRight
  <2>2. PICK i \in Nat, j \in Nat : /\ i = GlobalExplicitConsumerOffset
                                   /\ j = GlobalExplicitConsumerOffset' /\ i <= j
    BY DEF RotationInv, AnswerInv
  <2>3. Rotating(r, t, i)
    BY <1>1, <2>1, <2>2 DEF RotationInv
  <2>4. q.pc = r.pc /\ q.kind = r.kind /\ q.left = r.left /\ consumer'[d] = t
    BY <2>1
  <2>5. t.LastKnownGlobalOffset \in Nat
    BY <2>1 DEF Tokens
  <2>6. Rotating(q, t, j)
    BY <2>2, <2>3, <2>4, <2>5 DEF Rotating
  <2>7. QED
    BY <2>1, <2>2, <2>4, <2>6
<1>2. QED
  BY <1>1 DEF RotationInv

\* What a call is like when it ends.
LEMMA Finished ==
  ASSUME AnswerInv, NEW c \in Consumers, NEW r, Finish(c, r)
  PROVE  /\ call'[c].pc \in {"idle", "return"}
         /\ \A d \in Consumers \ {c} : call'[d] = call[d]
<1>1. PICK q : q = IF r.left = 0 THEN NoCall
                   ELSE [NoCall EXCEPT !.pc = "return", !.left = r.left, !.owed = r.owed]
  OBVIOUS
<1>2. q.pc \in {"idle", "return"}
  BY <1>1 DEF NoCall
<1>3. call' = [call EXCEPT ![c] = q]
  BY <1>1 DEF Finish, Only
<1>4. QED
  BY <1>2, <1>3 DEF AnswerInv, ListInv, Shapes

\* What a call is like when it goes on.
LEMMA GoesOn ==
  ASSUME AnswerInv, NEW c \in Consumers, NEW q, Only(c, q)
  PROVE  call'[c] = q /\ \A d \in Consumers \ {c} : call'[d] = call[d]
BY DEF Only, AnswerInv, ListInv, Shapes

\* What a consumer does until it takes something.
LEMMA BeginRotates ==
  ASSUME AnswerInv, NEW c \in Consumers, NEW kind \in Kinds, NEW at, NEW node,
         Begin(c, kind, at, node), consumer' = [consumer EXCEPT ![c].calls = @ + 1],
         Rotating(call[c], consumer[c], GlobalExplicitConsumerOffset),
         at \in {"update", "count", "offset", "current", "ring", "others", "rotate"} =>
           kind = "token" /\ at \in {"update", "current"},
         at = "current" =>
           /\ consumer[c].DesiredProducer # nullptr
           /\ consumer[c].LastKnownGlobalOffset = GlobalExplicitConsumerOffset
  PROVE  Rotating(call'[c], consumer'[c], GlobalExplicitConsumerOffset)
<1>1. PICK t \in Tokens, i \in Nat : t = consumer[c] /\ i = GlobalExplicitConsumerOffset
  BY DEF AnswerInv, CallRight
<1>2. PICK u : u = [t EXCEPT !.calls = @ + 1]
  OBVIOUS
<1>3. consumer'[c] = u
  BY <1>1, <1>2 DEF AnswerInv, ListInv, Shapes
<1>4. /\ u.DesiredProducer = t.DesiredProducer /\ u.ItemsConsumed = t.ItemsConsumed
      /\ u.LastKnownGlobalOffset = t.LastKnownGlobalOffset
  BY <1>2 DEF Tokens
<1>5. PICK q : q = [NoCall EXCEPT !.pc = at, !.kind = kind, !.node = node,
           !.left = IF kind \in {"walkBulk", "tokenBulk"} THEN BulkCount ELSE 1,
           !.owed = IF Busy = {} THEN items ELSE @]
  OBVIOUS
<1>6. call'[c] = q
  BY <1>5 DEF Begin
<1>7. q.pc = at /\ q.kind = kind /\ (kind = "token" => q.left = 1)
  BY <1>5 DEF NoCall
<1>8. call[c].pc = "idle"
  BY DEF Begin
<1>9. /\ t.DesiredProducer # nullptr => t.LastKnownGlobalOffset <= i
      /\ t.ItemsConsumed >= QUOTA =>
           t.DesiredProducer # nullptr /\ t.LastKnownGlobalOffset < i
  BY <1>1, <1>8 DEF Rotating
<1>10. at = "current" => t.ItemsConsumed < QUOTA /\ t.DesiredProducer # nullptr
  <2>1. t.ItemsConsumed \in Nat /\ t.LastKnownGlobalOffset \in Nat /\ QUOTA \in Nat
    BY ConcurrentQueueAssumption DEF Tokens
  <2>2. QED
    BY <1>1, <1>9, <2>1
<1>11. Rotating(q, u, i)
  BY <1>4, <1>7, <1>9, <1>10 DEF Rotating
<1>12. QED
  BY <1>1, <1>3, <1>6, <1>11

\* Until it gets something, or without a token, a call leaves the counting alone.
LEMMA SearchRotates ==
  ASSUME AnswerInv, NEW c \in Consumers, Rotating(call[c], consumer[c], GlobalExplicitConsumerOffset),
         WalkNode(c) \/ SizeNode(c) \/ TakeBest(c) \/ UpdateHead(c) \/ UpdateCount(c)
           \/ BeginRing(c) \/ Return(c)
  PROVE  /\ Rotating(call'[c], consumer'[c], GlobalExplicitConsumerOffset)
         /\ \A d \in Consumers \ {c} : call'[d] = call[d]
<1>1. PICK r \in Calls, t \in Tokens, i \in Nat :
        r = call[c] /\ t = consumer[c] /\ i = GlobalExplicitConsumerOffset
  BY DEF AnswerInv, CallRight
<1>2. Rotating(r, t, i) /\ consumer' = consumer
  BY <1>1 DEF WalkNode, SizeNode, TakeBest, UpdateHead, UpdateCount, BeginRing, Return
<1>3. r.pc # "rotate"
  BY <1>1 DEF WalkNode, SizeNode, TakeBest, UpdateHead, UpdateCount, BeginRing, Return
<1>4. ASSUME NEW q,
             q.pc \in {"idle", "return", "walk", "size", "best"}
               \/ (/\ q.pc \in {"count", "offset", "others"}
                   /\ r.pc \in {"update", "count", "ring"} /\ (q.pc = "others" => r.pc = "ring")
                   /\ q.kind = r.kind /\ q.left = r.left),
             call'[c] = q, \A d \in Consumers \ {c} : call'[d] = call[d]
      PROVE  /\ Rotating(call'[c], consumer'[c], GlobalExplicitConsumerOffset)
             /\ \A d \in Consumers \ {c} : call'[d] = call[d]
  <2>1. Rotating(q, t, i)
    BY <1>2, <1>3, <1>4 DEF Rotating
  <2>2. QED
    BY <1>1, <1>2, <1>4, <2>1
<1>5. ASSUME NEW g, Finish(c, g)
      PROVE  /\ Rotating(call'[c], consumer'[c], GlobalExplicitConsumerOffset)
             /\ \A d \in Consumers \ {c} : call'[d] = call[d]
  <2>1. call'[c].pc \in {"idle", "return"} /\ \A d \in Consumers \ {c} : call'[d] = call[d]
    BY <1>5, Finished
  <2>2. PICK q : q = call'[c]
    OBVIOUS
  <2>3. QED
    BY <1>4, <2>1, <2>2
<1>6. CASE UpdateHead(c)
  <2>1. r.pc = "update"
    BY <1>1, <1>6 DEF UpdateHead
  <2>2. CASE Finish(c, r)
    BY <1>5, <2>2
  <2>3. CASE ~Finish(c, r)
    <3>1. PICK h, q : q = [r EXCEPT !.pc = "count", !.head = h] /\ Only(c, q)
      BY <1>1, <1>6, <2>3 DEF UpdateHead
    <3>2. q.pc = "count" /\ q.kind = r.kind /\ q.left = r.left
      BY <3>1 DEF Calls
    <3>3. QED
      BY <1>4, <2>1, <3>1, <3>2, GoesOn
  <2>4. QED
    BY <2>2, <2>3
<1>7. CASE UpdateCount(c)
  <2>1. PICK h, q : q = [r EXCEPT !.pc = "offset", !.count = h] /\ Only(c, q)
    BY <1>1, <1>7 DEF UpdateCount
  <2>2. q.pc = "offset" /\ q.kind = r.kind /\ q.left = r.left /\ r.pc = "count"
    BY <1>1, <1>7, <2>1 DEF Calls, UpdateCount
  <2>3. QED
    BY <1>4, <2>1, <2>2, GoesOn
<1>8. CASE BeginRing(c)
  <2>1. r.pc = "ring"
    BY <1>1, <1>8 DEF BeginRing
  <2>2. CASE Finish(c, r)
    BY <1>5, <2>2
  <2>3. CASE ~Finish(c, r)
    <3>1. PICK h, n, q : q = [r EXCEPT !.pc = "others", !.head = h, !.node = n] /\ Only(c, q)
      BY <1>1, <1>8, <2>3 DEF BeginRing, RingFrom
    <3>2. q.pc = "others" /\ q.kind = r.kind /\ q.left = r.left
      BY <3>1 DEF Calls
    <3>3. QED
      BY <1>4, <2>1, <3>1, <3>2, GoesOn
  <2>4. QED
    BY <2>2, <2>3
<1>9. CASE Return(c)
  <2>1. Only(c, NoCall) /\ NoCall.pc = "idle"
    BY <1>9, NothingOwed DEF Return
  <2>2. PICK q : q = NoCall
    OBVIOUS
  <2>3. QED
    BY <1>4, <2>1, <2>2, GoesOn
<1>10. CASE WalkNode(c)
  <2>1. PICK k \in 0..r.left :
          \/ Finish(c, Got(c, r.node, k))
          \/ Only(c, [Got(c, r.node, k) EXCEPT !.node = Next_[r.node]])
    BY <1>1, <1>10 DEF WalkNode
  <2>2. PICK g : g = Got(c, r.node, k)
    OBVIOUS
  <2>3. IsCall(g) /\ g.pc = "walk"
    BY <1>1, <1>10, <2>2, GotIsCall DEF WalkNode, AnswerInv, ListInv
  <2>4. PICK q : q = [g EXCEPT !.node = Next_[r.node]]
    OBVIOUS
  <2>5. q.pc = "walk"
    BY <2>3, <2>4 DEF IsCall, NoCall
  <2>6. Finish(c, g) \/ Only(c, q)
    BY <2>1, <2>2, <2>4
  <2>7. QED
    BY <1>4, <1>5, <2>5, <2>6, GoesOn
<1>11. CASE SizeNode(c)
  <2> DEFINE n == call[c].node
             counted(size) == call[c].NonEmptyCount + (IF size > 0 THEN 1 ELSE 0)
             seen(size) == [call[c] EXCEPT !.NonEmptyCount = counted(size),
                              !.Best = IF size > call[c].BestSize THEN n ELSE @,
                              !.BestSize = IF size > call[c].BestSize THEN size ELSE @]
  <2>1. PICK size \in Sizes(c, n) :
          Only(c, IF counted(size) < 3 /\ Next_[n] # nullptr
                  THEN [seen(size) EXCEPT !.node = Next_[n]]
                  ELSE [seen(size) EXCEPT !.pc = IF counted(size) > 0 THEN "best" ELSE "return",
                          !.node = nullptr, !.NonEmptyCount = 0, !.BestSize = 0])
    BY <1>11 DEF SizeNode
  <2>2. DOMAIN seen(size) = DOMAIN NoCall /\ seen(size).pc = "size"
    BY <1>1, <1>11 DEF SizeNode, Calls, NoCall
  <2> HIDE DEF seen, counted
  <2>3. PICK q : /\ q = IF counted(size) < 3 /\ Next_[n] # nullptr
                        THEN [seen(size) EXCEPT !.node = Next_[n]]
                        ELSE [seen(size) EXCEPT !.pc = IF counted(size) > 0 THEN "best" ELSE "return",
                                !.node = nullptr, !.NonEmptyCount = 0, !.BestSize = 0]
                 /\ Only(c, q)
    BY <2>1
  <2>4. q.pc \in {"size", "best", "return"}
    BY <2>2, <2>3 DEF NoCall
  <2>5. QED
    BY ZenonT(60), <1>4, <2>3, <2>4, GoesOn
<1>12. CASE TakeBest(c)
  <2>1. CASE \E g : Finish(c, g)
    BY <1>5, <2>1
  <2>2. CASE ~\E g : Finish(c, g)
    <3>1. PICK h, q : q = [r EXCEPT !.pc = "walk", !.node = h] /\ Only(c, q)
      BY <1>1, <1>12, <2>2 DEF TakeBest, WalkFrom
    <3>2. q.pc = "walk"
      BY <3>1 DEF Calls
    <3>3. QED
      BY <1>4, <3>1, <3>2, GoesOn
  <2>3. QED
    BY <2>1, <2>2
<1>13. QED
  BY <1>6, <1>7, <1>8, <1>9, <1>10, <1>11, <1>12

\* The steps of a token: it starts to count anew, counts, and at the quota moves on.
LEMMA TokenRotates ==
  ASSUME AnswerInv, AnswerInv', OffsetHasRoom, NEW c \in Consumers,
         Rotating(call[c], consumer[c], GlobalExplicitConsumerOffset),
         UpdateOffset(c) \/ TakeCurrent(c) \/ Rotate(c) \/ RingNode(c)
  PROVE  /\ Rotating(call'[c], consumer'[c], GlobalExplicitConsumerOffset')
         /\ \A d \in Consumers \ {c} : call'[d] = call[d] /\ consumer'[d] = consumer[d]
         /\ GlobalExplicitConsumerOffset' >= GlobalExplicitConsumerOffset
<1>1. PICK r \in Calls, t \in Tokens, i \in Nat :
        r = call[c] /\ t = consumer[c] /\ i = GlobalExplicitConsumerOffset
  BY DEF AnswerInv, CallRight
<1>2. Rotating(r, t, i) /\ i < Width - 1 /\ QUOTA \in Nat /\ QUOTA >= 2 /\ Width \in Nat
  BY <1>1, ConcurrentQueueAssumption DEF OffsetHasRoom
<1>3. t.ItemsConsumed \in Nat /\ t.LastKnownGlobalOffset \in Nat /\ r.left \in Nat
  BY DEF Tokens, Calls
<1>4. DOMAIN consumer = Consumers /\ Shapes
  BY DEF AnswerInv, ListInv, Shapes
<1>5. CASE UpdateOffset(c)
  <2>1. PICK n : consumer' = [consumer EXCEPT ![c].DesiredProducer = n,
          ![c].CurrentProducer = n, ![c].ItemsConsumed = 0,
          ![c].LastKnownGlobalOffset = GlobalExplicitConsumerOffset]
    BY <1>5 DEF UpdateOffset
  <2>2. PICK u : u = [t EXCEPT !.DesiredProducer = n, !.CurrentProducer = n,
                            !.ItemsConsumed = 0, !.LastKnownGlobalOffset = i]
    OBVIOUS
  <2>3. consumer' = [consumer EXCEPT ![c] = u]
    BY <1>1, <2>1, <2>2
  <2>4. consumer'[c] = u /\ \A d \in Consumers \ {c} : consumer'[d] = consumer[d]
    BY <1>4, <2>3
  <2>5. /\ u.DesiredProducer = n /\ u.CurrentProducer = n /\ u.ItemsConsumed = 0
        /\ u.LastKnownGlobalOffset = i
    BY <2>2 DEF Tokens
  <2>6. PICK q : q = [r EXCEPT !.pc = "current", !.head = nullptr, !.count = 0] /\ Only(c, q)
    BY <1>1, <1>5 DEF UpdateOffset
  <2>7. q.pc = "current" /\ q.kind = r.kind /\ q.left = r.left /\ r.pc = "offset"
    BY <1>1, <1>5, <2>6 DEF UpdateOffset, Calls
  <2>8. call'[c] = q /\ \A d \in Consumers \ {c} : call'[d] = call[d]
    BY <2>6, GoesOn
  <2>9. n # nullptr
    <3>1. CallRight(q, u)'
      BY <2>4, <2>8 DEF AnswerInv
    <3>2. u.CurrentProducer \in Linked'
      BY <2>7, <3>1 DEF CallRight
    <3>3. QED
      BY <2>5, <3>2, ConcurrentQueueAssumption DEF Linked, Nodes, nullptr
  <2>10. ~(0 >= QUOTA)
    BY <1>2
  <2>11. Rotating(q, u, i)
    BY <1>2, <2>5, <2>7, <2>9, <2>10 DEF Rotating
  <2>12. UNCHANGED GlobalExplicitConsumerOffset
    BY <1>5 DEF UpdateOffset, offsets
  <2>13. QED
    BY <1>1, <2>4, <2>8, <2>11, <2>12
<1>6. CASE Rotate(c)
  <2>1. Finish(c, r) /\ consumer' = consumer /\ r.pc = "rotate"
    BY <1>1, <1>6 DEF Rotate
  <2>2. GlobalExplicitConsumerOffset' = i + 1
    <3>1. GlobalExplicitConsumerOffset' = (i + 1) % Width
      BY <1>1, <1>6 DEF Rotate
    <3>2. i + 1 < Width /\ i + 1 \in Nat
      BY <1>2
    <3>3. (i + 1) % Width = i + 1
      BY <1>2, <3>2
    <3>4. QED
      BY <3>1, <3>3
  <2>3. PICK q : q = call'[c]
    OBVIOUS
  <2>4. q.pc \in {"idle", "return"} /\ \A d \in Consumers \ {c} : call'[d] = call[d]
    BY <2>1, <2>3, Finished
  <2>5. t.DesiredProducer # nullptr /\ t.LastKnownGlobalOffset < i + 1
    BY <1>2, <1>3, <2>1 DEF Rotating
  <2>6. Rotating(q, t, i + 1)
    BY <1>3, <2>4, <2>5 DEF Rotating
  <2>7. QED
    BY <1>1, <2>1, <2>2, <2>3, <2>4, <2>6
<1>7. CASE TakeCurrent(c)
  <2>1. PICK k \in 0..r.left :
          /\ consumer' = [consumer EXCEPT ![c].ItemsConsumed = @ + k]
          /\ IF k = r.left /\ ~QuotaReached(c, t.ItemsConsumed + k)
             THEN Finish(c, Got(c, t.CurrentProducer, k))
             ELSE Only(c, [Got(c, t.CurrentProducer, k) EXCEPT !.pc = IF k < r.left THEN "ring" ELSE "rotate"])
    BY <1>1, <1>7 DEF TakeCurrent
  <2>2. /\ r.pc = "current" /\ UNCHANGED GlobalExplicitConsumerOffset
    BY <1>1, <1>7 DEF TakeCurrent, offsets
  <2>3. /\ r.kind = "token" /\ r.left <= 1 /\ t.ItemsConsumed < QUOTA
        /\ t.DesiredProducer # nullptr /\ t.LastKnownGlobalOffset <= i
    BY <1>2, <2>2 DEF Rotating
  <2>4. k \in Nat /\ k <= r.left /\ t.ItemsConsumed + k \in Nat
    BY <1>3, <2>1
  <2>5. PICK u : u = [t EXCEPT !.ItemsConsumed = @ + k]
    OBVIOUS
  <2>6. /\ u.ItemsConsumed = t.ItemsConsumed + k /\ u.DesiredProducer = t.DesiredProducer
        /\ u.LastKnownGlobalOffset = t.LastKnownGlobalOffset
    BY <2>5 DEF Tokens
  <2>7. consumer' = [consumer EXCEPT ![c] = u]
    BY <1>1, <2>1, <2>5
  <2>8. consumer'[c] = u /\ \A d \in Consumers \ {c} : consumer'[d] = consumer[d]
    BY <1>4, <2>7
  <2>9. PICK g : g = Got(c, t.CurrentProducer, k)
    OBVIOUS
  <2>10. DOMAIN g = DOMAIN NoCall /\ g.left = r.left - k /\ g.kind = r.kind
    BY <1>1, <2>9 DEF Got, Calls, NoCall
  <2>11. QuotaReached(c, t.ItemsConsumed + k) <=> t.ItemsConsumed + k = QUOTA
    BY <1>1, <2>3 DEF QuotaReached
  <2>12. CASE k = r.left /\ t.ItemsConsumed + k # QUOTA
    <3>1. Finish(c, g)
      BY <2>1, <2>9, <2>11, <2>12
    <3>2. PICK q : q = call'[c]
      OBVIOUS
    <3>3. q.pc \in {"idle", "return"} /\ \A d \in Consumers \ {c} : call'[d] = call[d]
      BY <3>1, <3>2, Finished
    <3>4. ~(u.ItemsConsumed >= QUOTA)
      BY <1>2, <1>3, <2>3, <2>4, <2>6, <2>12
    <3>5. Rotating(q, u, i)
      BY <2>3, <2>6, <3>3, <3>4 DEF Rotating
    <3>6. QED
      BY <1>1, <2>2, <2>8, <3>2, <3>3, <3>5
  <2>13. CASE ~(k = r.left /\ t.ItemsConsumed + k # QUOTA)
    <3>1. PICK at \in {"ring", "rotate"} : at = IF k < r.left THEN "ring" ELSE "rotate"
      OBVIOUS
    <3>2. PICK q : q = [g EXCEPT !.pc = at]
      OBVIOUS
    <3>3. Only(c, q)
      BY <2>1, <2>9, <2>11, <2>13, <3>1, <3>2
    <3>4. q.pc = at /\ q.kind = "token" /\ q.left = r.left - k
      BY <2>3, <2>10, <3>2 DEF NoCall
    <3>5. call'[c] = q /\ \A d \in Consumers \ {c} : call'[d] = call[d]
      BY <3>3, GoesOn
    <3>6. at = "ring" => u.ItemsConsumed < QUOTA
      BY <1>2, <1>3, <2>3, <2>4, <2>6, <3>1
    <3>7. q.left <= 1
      BY <1>3, <2>3, <2>4, <3>4
    <3>8. u.ItemsConsumed >= QUOTA => at = "rotate"
      BY <1>2, <1>3, <2>4, <2>6, <3>6
    <3>9. Rotating(q, u, i)
      BY <2>3, <2>6, <3>4, <3>6, <3>7, <3>8 DEF Rotating
    <3>10. QED
      BY <1>1, <2>2, <2>8, <3>5, <3>9
  <2>14. QED
    BY <2>12, <2>13
<1>8. CASE RingNode(c)
  <2>1. PICK k, current :
          /\ k \in 0..r.left
          /\ consumer' = IF k = 0 THEN consumer
                         ELSE [consumer EXCEPT ![c].CurrentProducer = r.node, ![c].ItemsConsumed = k]
          /\ IF k = r.left THEN Finish(c, Got(c, r.node, k))
             ELSE RingFrom(c, Got(c, r.node, k), r.node, r.head, current)
    <3>1. PICK k \in 0..r.left :
            /\ consumer' = IF k = 0 THEN consumer
                           ELSE [consumer EXCEPT ![c].CurrentProducer = r.node, ![c].ItemsConsumed = k]
            /\ IF k = r.left THEN Finish(c, Got(c, r.node, k))
               ELSE RingFrom(c, Got(c, r.node, k), r.node, r.head, consumer'[c].CurrentProducer)
      BY <1>1, <1>8 DEF RingNode
    <3>2. PICK current : current = consumer'[c].CurrentProducer
      OBVIOUS
    <3>3. IF k = r.left THEN Finish(c, Got(c, r.node, k))
          ELSE RingFrom(c, Got(c, r.node, k), r.node, r.head, current)
      BY <3>1, <3>2
    <3>4. QED
      BY <3>1, <3>3
  <2>2. r.pc = "others" /\ UNCHANGED GlobalExplicitConsumerOffset
    BY <1>1, <1>8 DEF RingNode, offsets
  <2>3. /\ r.kind = "token" /\ r.left <= 1 /\ t.ItemsConsumed < QUOTA
        /\ t.DesiredProducer # nullptr /\ t.LastKnownGlobalOffset <= i
    BY <1>2, <2>2 DEF Rotating
  <2>4. k \in Nat /\ k <= r.left
    BY <1>3, <2>1
  <2>5. PICK u : u = IF k = 0 THEN t ELSE [t EXCEPT !.CurrentProducer = r.node, !.ItemsConsumed = k]
    OBVIOUS
  <2>6. /\ u.ItemsConsumed = IF k = 0 THEN t.ItemsConsumed ELSE k
        /\ u.DesiredProducer = t.DesiredProducer
        /\ u.LastKnownGlobalOffset = t.LastKnownGlobalOffset
    BY <2>5 DEF Tokens
  <2>7. consumer'[c] = u /\ \A d \in Consumers \ {c} : consumer'[d] = consumer[d]
    <3>1. CASE k = 0
      BY <1>1, <2>1, <2>5, <3>1
    <3>2. CASE k # 0
      <4>1. consumer' = [consumer EXCEPT ![c] = u]
        BY <1>1, <2>1, <2>5, <3>2
      <4>2. QED
        BY <1>4, <4>1
    <3>3. QED
      BY <3>1, <3>2
  <2>8. u.ItemsConsumed < QUOTA /\ u.ItemsConsumed \in Nat
    BY <1>2, <1>3, <2>3, <2>4, <2>6
  <2>9. PICK g : g = Got(c, r.node, k)
    OBVIOUS
  <2>10. DOMAIN g = DOMAIN NoCall /\ g.left = r.left - k /\ g.kind = r.kind
    BY <1>1, <2>9 DEF Got, Calls, NoCall
  <2>11. CASE Finish(c, g)
    <3>1. PICK q : q = call'[c]
      OBVIOUS
    <3>2. q.pc \in {"idle", "return"} /\ \A d \in Consumers \ {c} : call'[d] = call[d]
      BY <2>11, <3>1, Finished
    <3>3. Rotating(q, u, i)
      BY <1>2, <2>3, <2>6, <2>8, <3>2 DEF Rotating
    <3>4. QED
      BY <1>1, <2>2, <2>7, <3>1, <3>2, <3>3
  <2>12. CASE ~Finish(c, g)
    <3>1. PICK h, n, q : q = [g EXCEPT !.pc = "others", !.head = h, !.node = n] /\ Only(c, q)
      BY <2>1, <2>9, <2>12 DEF RingFrom
    <3>2. q.pc = "others" /\ q.kind = "token" /\ q.left = r.left - k
      BY <2>3, <2>10, <3>1 DEF NoCall
    <3>3. q.left <= 1
      BY <1>3, <2>3, <2>4, <3>2
    <3>4. call'[c] = q /\ \A d \in Consumers \ {c} : call'[d] = call[d]
      BY <3>1, GoesOn
    <3>5. Rotating(q, u, i)
      BY <1>2, <2>3, <2>6, <2>8, <3>2, <3>3 DEF Rotating
    <3>6. QED
      BY <1>1, <2>2, <2>7, <3>4, <3>5
  <2>13. QED
    BY <2>11, <2>12
<1>9. QED
  BY <1>5, <1>6, <1>7, <1>8

\* While the offset has room, every step keeps the counting right.
LEMMA RotationInvNext ==
  ASSUME RotationInv, OffsetHasRoom, [Next]_cqVars
  PROVE  RotationInv'
<1>1. AnswerInv /\ AnswerInv'
  BY AnswerInvNext DEF RotationInv
<1>2. GlobalExplicitConsumerOffset \in Nat
  BY <1>1 DEF AnswerInv
<1>3. ASSUME UNCHANGED <<plan, call, consumer, GlobalExplicitConsumerOffset>>
      PROVE  RotationInv'
  BY <1>1, <1>3 DEF RotationInv
<1>4. ASSUME NEW p \in Producers, ProducerStep(p) PROVE RotationInv'
  <2>1. UNCHANGED <<plan, call, consumer, GlobalExplicitConsumerOffset>>
    BY <1>4
    DEF ProducerStep, ConstructToken, ConstructImplicit, ScanNode, Recycle, CountProducer, Link,
        DestroyToken, Enqueue, EnqueueWithToken, MoveToken, consuming, offsets
  <2>2. QED
    BY <1>3, <2>1
<1>5. ASSUME NEW c \in Consumers, ConsumerStep(c) PROVE RotationInv'
  <2>1. UNCHANGED plan
    BY <1>5, ConsumersLeaveProducers
  <2>2. ASSUME NEW kind \in Kinds, NEW at, NEW node,
               Begin(c, kind, at, node), consumer' = [consumer EXCEPT ![c].calls = @ + 1],
               UNCHANGED GlobalExplicitConsumerOffset,
               at \in {"return", "walk", "size"}
                 \/ (/\ kind \in {"token", "tokenBulk"} /\ at \in {"update", "current"}
                     /\ at = "current" =>
                          /\ consumer[c].DesiredProducer # nullptr
                          /\ consumer[c].LastKnownGlobalOffset = GlobalExplicitConsumerOffset)
        PROVE  RotationInv'
    <3>1. kind \in plan.kinds[c]
      BY <2>2 DEF Begin
    <3>2. ASSUME NEW d \in Consumers \ {c}
          PROVE  /\ consumer'[d] = consumer[d] /\ call'[d].pc = call[d].pc
                 /\ call'[d].kind = call[d].kind /\ call'[d].left = call[d].left
      <4>1. PICK r \in Calls : r = call[d]
        BY <1>1 DEF AnswerInv, CallRight
      <4>2. call'[d] = [r EXCEPT !.owed = NoCall.owed]
        BY <2>2, <4>1 DEF Begin
      <4>3. consumer'[d] = consumer[d]
        BY <1>1, <2>2 DEF AnswerInv, ListInv, Shapes
      <4>4. QED
        BY <4>1, <4>2, <4>3 DEF Calls
    <3>3. ASSUME "tokenBulk" \notin plan.kinds[c]
          PROVE  Rotating(call'[c], consumer'[c], GlobalExplicitConsumerOffset')
      <4>1. Rotating(call[c], consumer[c], GlobalExplicitConsumerOffset)
        BY <3>3 DEF RotationInv
      <4>2. /\ at \in {"update", "count", "offset", "current", "ring", "others", "rotate"} =>
                 kind = "token" /\ at \in {"update", "current"}
            /\ at = "current" =>
                 /\ consumer[c].DesiredProducer # nullptr
                 /\ consumer[c].LastKnownGlobalOffset = GlobalExplicitConsumerOffset
        BY <2>2, <3>1, <3>3
      <4>3. Rotating(call'[c], consumer'[c], GlobalExplicitConsumerOffset)
        BY <1>1, <2>2, <4>1, <4>2, BeginRotates
      <4>4. QED
        BY <2>2, <4>3
    <3>4. GlobalExplicitConsumerOffset' >= GlobalExplicitConsumerOffset
      BY <1>2, <2>2
    <3>5. QED
      BY <1>1, <2>1, <3>2, <3>3, <3>4, OneRotates
  <2>3. ASSUME NEW kind \in Kinds, BeginWalk(c, kind) PROVE RotationInv'
    <3>1. PICK at : at = IF ProducerListsHead = nullptr THEN "return" ELSE "walk"
      OBVIOUS
    <3>2. PICK head : head = ProducerListsHead
      OBVIOUS
    <3>3. Begin(c, kind, at, head) /\ at \in {"return", "walk", "size"}
      BY <2>3, <3>1, <3>2 DEF BeginWalk
    <3>4. consumer' = [consumer EXCEPT ![c].calls = @ + 1] /\ UNCHANGED GlobalExplicitConsumerOffset
      BY <2>3 DEF BeginWalk, offsets
    <3>5. QED
      BY <2>2, <3>3, <3>4
  <2>4. CASE BeginBest(c)
    <3>1. PICK at : at = IF ProducerListsHead = nullptr THEN "return" ELSE "size"
      OBVIOUS
    <3>2. PICK head : head = ProducerListsHead
      OBVIOUS
    <3>3. PICK kind \in Kinds : kind = "best"
      BY DEF Kinds
    <3>4. Begin(c, kind, at, head) /\ at \in {"return", "walk", "size"}
      BY <2>4, <3>1, <3>2, <3>3 DEF BeginBest
    <3>5. consumer' = [consumer EXCEPT ![c].calls = @ + 1] /\ UNCHANGED GlobalExplicitConsumerOffset
      BY <2>4 DEF BeginBest, offsets
    <3>6. QED
      BY <2>2, <3>4, <3>5
  <2>5. ASSUME NEW kind \in Kinds, BeginToken(c, kind) PROVE RotationInv'
    <3>1. PICK at :
            at = IF \/ consumer[c].DesiredProducer = nullptr
                    \/ consumer[c].LastKnownGlobalOffset # GlobalExplicitConsumerOffset
                 THEN "update" ELSE "current"
      OBVIOUS
    <3>2. PICK head : head = nullptr
      OBVIOUS
    <3>3. Begin(c, kind, at, head) /\ kind \in {"token", "tokenBulk"}
      BY <2>5, <3>1, <3>2 DEF BeginToken
    <3>4. /\ at \in {"update", "current"}
          /\ at = "current" =>
               /\ consumer[c].DesiredProducer # nullptr
               /\ consumer[c].LastKnownGlobalOffset = GlobalExplicitConsumerOffset
      BY <3>1
    <3>5. consumer' = [consumer EXCEPT ![c].calls = @ + 1] /\ UNCHANGED GlobalExplicitConsumerOffset
      BY <2>5 DEF BeginToken, offsets
    <3>6. QED
      BY <2>2, <3>3, <3>4, <3>5
  <2>6. CASE ConstructConsumerToken(c)
    <3>1. PICK t \in Tokens, i \in Nat : t = consumer[c] /\ i = GlobalExplicitConsumerOffset
      BY <1>1 DEF AnswerInv, CallRight
    <3>2. PICK u : u = [t EXCEPT !.made = TRUE, !.InitialOffset = NextExplicitConsumerId]
      OBVIOUS
    <3>3. /\ u.DesiredProducer = t.DesiredProducer /\ u.ItemsConsumed = t.ItemsConsumed
          /\ u.LastKnownGlobalOffset = t.LastKnownGlobalOffset
      BY <3>2 DEF Tokens
    <3>4. /\ consumer'[c] = u /\ \A d \in Consumers \ {c} : consumer'[d] = consumer[d]
          /\ UNCHANGED <<call, GlobalExplicitConsumerOffset>>
      BY <1>1, <2>6, <3>1, <3>2 DEF ConstructConsumerToken, AnswerInv, ListInv, Shapes
    <3>5. ASSUME "tokenBulk" \notin plan.kinds[c]
          PROVE  Rotating(call'[c], consumer'[c], GlobalExplicitConsumerOffset')
      <4>1. PICK r : r = call[c] /\ Rotating(r, t, i)
        BY <3>1, <3>5 DEF RotationInv
      <4>2. Rotating(r, u, i)
        BY <3>3, <4>1 DEF Rotating
      <4>3. QED
        BY <3>1, <3>4, <4>1, <4>2
    <3>6. GlobalExplicitConsumerOffset' >= GlobalExplicitConsumerOffset
      BY <1>2, <3>4
    <3>7. \A d \in Consumers \ {c} :
            /\ consumer'[d] = consumer[d] /\ call'[d].pc = call[d].pc
            /\ call'[d].kind = call[d].kind /\ call'[d].left = call[d].left
      BY <3>4
    <3>8. QED
      BY <1>1, <2>1, <3>5, <3>6, <3>7, OneRotates
  <2>7. CASE WalkNode(c) \/ SizeNode(c) \/ TakeBest(c) \/ UpdateHead(c) \/ UpdateCount(c)
               \/ BeginRing(c) \/ Return(c)
    <3>1. UNCHANGED <<consumer, GlobalExplicitConsumerOffset>>
      BY <2>7 DEF WalkNode, SizeNode, TakeBest, UpdateHead, UpdateCount, BeginRing, Return, offsets
    <3>2. GlobalExplicitConsumerOffset' >= GlobalExplicitConsumerOffset
      BY <1>2, <3>1
    <3>3. CASE "tokenBulk" \in plan.kinds[c]
      <4>1. \A d \in Consumers \ {c} : call'[d] = call[d]
        <5>1. ASSUME NEW g, Finish(c, g) PROVE \A d \in Consumers \ {c} : call'[d] = call[d]
          BY <1>1, <5>1, Finished
        <5>2. ASSUME NEW q, Only(c, q) PROVE \A d \in Consumers \ {c} : call'[d] = call[d]
          BY <1>1, <5>2, GoesOn
        <5>3. (\E g : Finish(c, g)) \/ (\E q : Only(c, q))
          BY <2>7 DEF WalkNode, SizeNode, TakeBest, WalkFrom, UpdateHead, UpdateCount, BeginRing,
                      RingFrom, Return
        <5>4. QED
          BY <5>1, <5>2, <5>3
      <4>2. QED
        BY <1>1, <2>1, <3>1, <3>2, <3>3, <4>1, OneRotates
    <3>4. CASE "tokenBulk" \notin plan.kinds[c]
      <4>1. Rotating(call[c], consumer[c], GlobalExplicitConsumerOffset)
        BY <3>4 DEF RotationInv
      <4>2. /\ Rotating(call'[c], consumer'[c], GlobalExplicitConsumerOffset)
            /\ \A d \in Consumers \ {c} : call'[d] = call[d]
        BY <1>1, <2>7, <4>1, SearchRotates
      <4>3. QED
        BY <1>1, <2>1, <3>1, <3>2, <4>2, OneRotates
    <3>5. QED
      BY <3>3, <3>4
  <2>8. CASE UpdateOffset(c) \/ TakeCurrent(c) \/ Rotate(c) \/ RingNode(c)
    <3>1. CASE "tokenBulk" \in plan.kinds[c]
      <4>1. \A d \in Consumers \ {c} : call'[d] = call[d]
        <5>1. ASSUME NEW g, Finish(c, g) PROVE \A d \in Consumers \ {c} : call'[d] = call[d]
          BY <1>1, <5>1, Finished
        <5>2. ASSUME NEW q, Only(c, q) PROVE \A d \in Consumers \ {c} : call'[d] = call[d]
          BY <1>1, <5>2, GoesOn
        <5>3. (\E g : Finish(c, g)) \/ (\E q : Only(c, q))
          BY <2>8 DEF UpdateOffset, TakeCurrent, Rotate, RingNode, RingFrom
        <5>4. QED
          BY <5>1, <5>2, <5>3
      <4>2. \A d \in Consumers \ {c} : consumer'[d] = consumer[d]
        BY <1>1, <2>8 DEF UpdateOffset, TakeCurrent, Rotate, RingNode, AnswerInv, ListInv, Shapes
      <4>3. GlobalExplicitConsumerOffset' >= GlobalExplicitConsumerOffset
        <5>1. CASE UNCHANGED GlobalExplicitConsumerOffset
          BY <1>2, <5>1
        <5>2. CASE Rotate(c)
          <6>1. PICK i \in Nat : i = GlobalExplicitConsumerOffset
            BY <1>2
          <6>2. GlobalExplicitConsumerOffset' = (i + 1) % Width
            BY <5>2, <6>1 DEF Rotate
          <6>3. i + 1 < Width /\ i + 1 \in Nat /\ Width \in Nat
            BY <6>1, ConcurrentQueueAssumption DEF OffsetHasRoom
          <6>4. (i + 1) % Width = i + 1
            BY <6>3
          <6>5. QED
            BY <6>1, <6>2, <6>4
        <5>3. QED
          BY <2>8, <5>1, <5>2 DEF UpdateOffset, TakeCurrent, RingNode, offsets
      <4>4. QED
        BY <1>1, <2>1, <3>1, <4>1, <4>2, <4>3, OneRotates
    <3>2. CASE "tokenBulk" \notin plan.kinds[c]
      <4>1. Rotating(call[c], consumer[c], GlobalExplicitConsumerOffset)
        BY <3>2 DEF RotationInv
      <4>2. /\ Rotating(call'[c], consumer'[c], GlobalExplicitConsumerOffset')
            /\ \A d \in Consumers \ {c} : call'[d] = call[d] /\ consumer'[d] = consumer[d]
            /\ GlobalExplicitConsumerOffset' >= GlobalExplicitConsumerOffset
        BY <1>1, <2>8, <4>1, TokenRotates
      <4>3. QED
        BY <1>1, <2>1, <4>2, OneRotates
    <3>3. QED
      BY <3>1, <3>2
  <2>9. QED
    BY <1>5, <2>3, <2>4, <2>5, <2>6, <2>7, <2>8 DEF ConsumerStep
<1>6. CASE UNCHANGED cqVars
  BY <1>3, <1>6 DEF cqVars, consuming, offsets
<1>7. QED
  BY <1>4, <1>5, <1>6 DEF Next

\* A token that dequeues one item at a time and has had its quota of one producer knows
\* it at its next call, as long as the offset has not gone through all its 32 bits.
THEOREM RotationIsDue == Spec /\ []OffsetHasRoom => []RotationDue
<1>1. RotationInv => RotationDue
  <2> SUFFICES ASSUME RotationInv, NEW c \in Consumers, call[c].pc = "idle",
                      "tokenBulk" \notin plan.kinds[c], consumer[c].ItemsConsumed >= QUOTA
               PROVE  consumer[c].LastKnownGlobalOffset # GlobalExplicitConsumerOffset
    BY DEF RotationDue
  <2>1. PICK t \in Tokens, i \in Nat : t = consumer[c] /\ i = GlobalExplicitConsumerOffset
    BY DEF RotationInv, AnswerInv, CallRight
  <2>2. Rotating(call[c], consumer[c], GlobalExplicitConsumerOffset)
    BY DEF RotationInv
  <2>3. t.LastKnownGlobalOffset < i
    BY <2>1, <2>2 DEF Rotating
  <2>4. t.LastKnownGlobalOffset \in Nat
    BY DEF Tokens
  <2>5. QED
    BY <2>1, <2>3, <2>4
<1>2. RotationInv /\ OffsetHasRoom /\ [Next]_cqVars => RotationInv'
  BY RotationInvNext
<1>3. QED
  BY <1>1, <1>2, RotationInvInit, PTL DEF Spec
=============================================================================
