--------------------------- MODULE ConcurrentQueue ---------------------------
(***************************************************************************)
(* The queue over its producers: a list of nodes that only grows, each     *)
(* with a sub-queue of its own; explicit producers, which a ProducerToken  *)
(* owns and leaves to be recycled; implicit producers, one per enqueueing  *)
(* thread; and the ways to dequeue, with and without a ConsumerToken.      *)
(*                                                                         *)
(* A sub-queue is the number of items in it: those published and not yet   *)
(* acquired (ClaimQueue).  What QueueBase shows of it is used here: a      *)
(* consumer that nobody overlaps gets as many items as there are, one that *)
(* is overlapped may get fewer.  The map from threads to their producers   *)
(* is what HashTable shows: a thread finds what it added.                  *)
(*                                                                         *)
(* Every load and read-modify-write of ProducerListsHead, ProducerCount,   *)
(* the offset and the Inactive flags is an action.  Next does not change   *)
(* once a node is in the list, so reading it is part of the step before.   *)
(***************************************************************************)
EXTENDS Integers, FiniteSets, FiniteSetsExt

CONSTANTS
  Producers, Consumers,
  QUOTA,       \* EXPLICIT_CONSUMER_CONSUMPTION_QUOTA_BEFORE_ROTATE, 256
  Width,       \* 2^32 in the code: the offsets and the count are uint32_t
  BulkCount,   \* what a bulk dequeue asks for
  MaxNodes,    \* bound of the model: nodes
  Plans        \* and what the threads may do, see Plan

Types == {"Explicit", "Implicit"}
Kinds == {"best", "walk", "walkBulk", "token", "tokenBulk"}

\* What a program may ask of the queue: the types of producers it has, which
\* dequeues each consumer uses and how often; and the most nodes and the most
\* items in the queue at a time.
Plan == [types : SUBSET Types, kinds : [Consumers -> SUBSET Kinds], calls : [Consumers -> Nat],
         nodes : 0..MaxNodes, items : Nat]

ASSUME ConcurrentQueueAssumption ==
  /\ IsFiniteSet(Producers)
  /\ QUOTA \in Nat /\ QUOTA >= 2
  /\ MaxNodes \in Nat /\ Width \in Nat /\ Width > MaxNodes
  /\ BulkCount \in Nat \ {0}
  /\ Plans \subseteq Plan

VARIABLES
  plan,                            \* one of Plans; it never changes
  ProducerListsHead, ProducerCount,
  Next_, Type, Inactive,           \* fields of the nodes
  items,                           \* in the sub-queue of each node
  GlobalExplicitConsumerOffset, NextExplicitConsumerId,
  prod,                            \* producer threads: what each one is doing
  Token, Implicit,                 \* and the nodes it has
  call,                            \* consumers: the call each one is in
  consumer                         \* and its ConsumerToken

list == <<ProducerListsHead, ProducerCount, Next_, Type, Inactive>>
offsets == <<plan, GlobalExplicitConsumerOffset, NextExplicitConsumerId>>
producing == <<prod, Token, Implicit>>
consuming == <<call, consumer>>
cqVars == <<list, items, offsets, producing, consuming>>

Nodes == 1..MaxNodes
nullptr == 0
NodeOrNull == 0..MaxNodes

\* Is S closed under what a walk from node n does?
Closed(n, S) ==
  /\ n \in S \cup {nullptr}
  /\ \A m \in S : Next_[m] \in S \cup {nullptr}

\* The nodes from n on, following Next: those in every closed set.
From(n) == {m \in Nodes : \A S \in SUBSET Nodes : Closed(n, S) => m \in S}

Listed == From(ProducerListsHead)

-----------------------------------------------------------------------------
Idle == [pc |-> "idle", want |-> "Explicit", node |-> nullptr, head |-> nullptr]
NoCall == [pc |-> "idle", kind |-> "best", node |-> nullptr, left |-> 0,
           head |-> nullptr, count |-> 0,
           Best |-> nullptr, BestSize |-> 0, NonEmptyCount |-> 0,
           owed |-> [n \in Nodes |-> 0]]
NewConsumerToken == [InitialOffset |-> 0, LastKnownGlobalOffset |-> Width - 1,
                     ItemsConsumed |-> 0, CurrentProducer |-> nullptr,
                     DesiredProducer |-> nullptr, made |-> FALSE, calls |-> 0]

Init ==
  /\ plan \in Plans
  /\ ProducerListsHead = nullptr /\ ProducerCount = 0
  /\ Next_ = [n \in Nodes |-> nullptr] /\ Type = [n \in Nodes |-> "none"]
  /\ Inactive = [n \in Nodes |-> FALSE]
  /\ items = [n \in Nodes |-> 0]
  /\ GlobalExplicitConsumerOffset = 0 /\ NextExplicitConsumerId = 0
  /\ prod = [p \in Producers |-> Idle]
  /\ Token = [p \in Producers |-> nullptr] /\ Implicit = [p \in Producers |-> nullptr]
  /\ call = [c \in Consumers |-> NoCall]
  /\ consumer = [c \in Consumers |-> NewConsumerToken]

-----------------------------------------------------------------------------
(* Producers: GetProducerListNode and AddProducer                           *)

\* GetProducerListNode begins: load ProducerListsHead.  (Bound: there is a node
\* left for every thread that may come to create one.)
Acquire(p, type) ==
  /\ type \in plan.types
  /\ plan.nodes - Cardinality({n \in Nodes : Type[n] # "none"})
       > Cardinality({q \in Producers : prod[q].pc \in {"scan", "recycle"}})
  /\ prod' = [prod EXCEPT ![p] = [Idle EXCEPT !.pc = "scan", !.want = type,
                                              !.node = ProducerListsHead]]

\* GetProducerToken, ProducerToken(queue).
ConstructToken(p) ==
  /\ prod[p].pc = "idle" /\ Token[p] = nullptr
  /\ Acquire(p, "Explicit")
  /\ UNCHANGED <<list, items, offsets, Token, Implicit, consuming>>

\* The first enqueue of a thread without a token: the map has no producer for it
\* and calls GetProducerListNode.
ConstructImplicit(p) ==
  /\ prod[p].pc = "idle" /\ Implicit[p] = nullptr
  /\ Acquire(p, "Implicit")
  /\ UNCHANGED <<list, items, offsets, Token, Implicit, consuming>>

\* The thread has its producer.
Own(p, n) ==
  /\ prod' = [prod EXCEPT ![p] = Idle]
  /\ IF prod[p].want = "Explicit"
     THEN Token' = [Token EXCEPT ![p] = n] /\ UNCHANGED Implicit
     ELSE Implicit' = [Implicit EXCEPT ![p] = n] /\ UNCHANGED Token

\* Look at the next node of the scan for an inactive one of the type.
ScanNode(p) ==
  LET n == prod[p].node
  IN  /\ prod[p].pc = "scan" /\ n # nullptr
      /\ prod' = IF Inactive[n] /\ Type[n] = prod[p].want
                 THEN [prod EXCEPT ![p].pc = "recycle"]
                 ELSE [prod EXCEPT ![p].node = Next_[n]]
      /\ UNCHANGED <<list, items, offsets, Token, Implicit, consuming>>

\* Mutant: the flag is cleared without a test.
RecycleStore(p) ==
  LET n == prod[p].node
  IN  /\ prod[p].pc = "recycle"
      /\ Inactive' = [Inactive EXCEPT ![n] = FALSE]
      /\ Own(p, n)
      /\ UNCHANGED <<ProducerListsHead, ProducerCount, Next_, Type, items, offsets, consuming>>

\* compare_exchange_strong on Inactive: one thread gets the node, the others go on.
Recycle(p) ==
  LET n == prod[p].node
  IN  /\ prod[p].pc = "recycle"
      /\ Inactive' = [Inactive EXCEPT ![n] = FALSE]
      /\ IF Inactive[n] THEN Own(p, n)
         ELSE /\ prod' = [prod EXCEPT ![p].pc = "scan", ![p].node = Next_[n]]
              /\ UNCHANGED <<Token, Implicit>>
      /\ UNCHANGED <<ProducerListsHead, ProducerCount, Next_, Type, items, offsets, consuming>>

\* Head = ProducerListsHead.load(), Node->Next = Head.
SetNext(p, n) ==
  /\ Next_' = [Next_ EXCEPT ![n] = ProducerListsHead]
  /\ prod' = [prod EXCEPT ![p].pc = "link", ![p].node = n, ![p].head = ProducerListsHead]
  /\ UNCHANGED <<Token, Implicit>>

\* CreateProducerListNode: a node nobody has used.
Fresh == CHOOSE n \in Nodes : Type[n] = "none"

\* Mutant: the count is that of the nodes already in the list.
CountLinked(p) ==
  /\ prod[p].pc = "scan" /\ prod[p].node = nullptr
  /\ Type' = [Type EXCEPT ![Fresh] = prod[p].want]
  /\ ProducerCount' = Cardinality(Listed)
  /\ SetNext(p, Fresh)
  /\ UNCHANGED <<ProducerListsHead, Inactive, items, offsets, consuming>>

\* No node to recycle: create one and count it before it is linked.  The load of
\* the head that follows is part of the step: an older value makes Link fail,
\* which loads it again.
CountProducer(p) ==
  /\ prod[p].pc = "scan" /\ prod[p].node = nullptr
  /\ Type' = [Type EXCEPT ![Fresh] = prod[p].want]
  /\ ProducerCount' = (ProducerCount + 1) % Width
  /\ SetNext(p, Fresh)
  /\ UNCHANGED <<ProducerListsHead, Inactive, items, offsets, consuming>>

\* Mutant: the head is stored without a test.
LinkStore(p) ==
  /\ prod[p].pc = "link"
  /\ ProducerListsHead' = prod[p].node
  /\ Own(p, prod[p].node)
  /\ UNCHANGED <<ProducerCount, Next_, Type, Inactive, items, offsets, consuming>>

\* compare_exchange_weak on the head: it may fail for no reason.
Link(p) ==
  /\ prod[p].pc = "link"
  /\ \/ /\ ProducerListsHead = prod[p].head
        /\ ProducerListsHead' = prod[p].node
        /\ Own(p, prod[p].node)
        /\ UNCHANGED Next_
     \/ SetNext(p, prod[p].node) /\ UNCHANGED ProducerListsHead
  /\ UNCHANGED <<ProducerCount, Type, Inactive, items, offsets, consuming>>

-----------------------------------------------------------------------------
(* Producers: enqueueing, and the life of a token                           *)

\* Enqueue and EnqueueBulk publish all their items in one step; what fails
\* publishes none.
Publish(n, k) ==
  /\ MapThenSumSet(LAMBDA m : items[m], Nodes) + k <= plan.items
  /\ items' = [items EXCEPT ![n] = @ + k]

Enqueue(p, k) ==
  /\ prod[p].pc = "idle" /\ Implicit[p] # nullptr
  /\ Publish(Implicit[p], k)
  /\ UNCHANGED <<list, offsets, producing, consuming>>

EnqueueWithToken(p, k) ==
  /\ prod[p].pc = "idle" /\ Token[p] # nullptr
  /\ Publish(Token[p], k)
  /\ UNCHANGED <<list, offsets, producing, consuming>>

\* ~ProducerToken: the producer stays in the list, with its items, to be recycled.
DestroyToken(p) ==
  /\ prod[p].pc = "idle" /\ Token[p] # nullptr
  /\ Inactive' = [Inactive EXCEPT ![Token[p]] = TRUE]
  /\ Token' = [Token EXCEPT ![p] = nullptr]
  /\ UNCHANGED <<ProducerListsHead, ProducerCount, Next_, Type, items, offsets,
                 prod, Implicit, consuming>>

\* ProducerToken(ProducerToken&&): the token goes to another thread.
MoveToken(p, q) ==
  /\ prod[p].pc = "idle" /\ prod[q].pc = "idle"
  /\ Token[p] # nullptr /\ Token[q] = nullptr
  /\ Token' = [Token EXCEPT ![q] = Token[p], ![p] = nullptr]
  /\ UNCHANGED <<list, items, offsets, prod, Implicit, consuming>>

-----------------------------------------------------------------------------
(* Consumers: taking from one producer                                      *)

Busy == {c \in Consumers : call[c].pc # "idle"}

\* Dequeue or DequeueBulk of at most `max' items of node n yields k: as many as
\* there are, or any number fewer while another consumer is inside a call.
Yields(c, n, max, k) ==
  LET most == IF max <= items[n] THEN max ELSE items[n]
  IN  IF Busy = {c} THEN k = most ELSE k \in 0..most

\* k items of node n are taken; they are the oldest.
Take(n, k) == items' = [items EXCEPT ![n] = @ - k]
Got(c, n, k) == [call[c] EXCEPT !.left = @ - k, !.owed[n] = IF k <= @ THEN @ - k ELSE 0]

Only(c, r) == call' = [call EXCEPT ![c] = r]
Finish(c, r) ==
  Only(c, IF r.left = 0 THEN NoCall
          ELSE [NoCall EXCEPT !.pc = "return", !.left = r.left, !.owed = r.owed])

\* A call begins, with where it starts.  What is there now it owes its caller,
\* unless another consumer is, or comes to be, inside a call as well.
Begin(c, kind, pc, node) ==
  /\ call[c].pc = "idle" /\ kind \in plan.kinds[c]
  /\ consumer[c].calls < plan.calls[c]
  /\ call' = [d \in Consumers |->
       IF d = c
       THEN [NoCall EXCEPT !.pc = pc, !.kind = kind, !.node = node,
               !.left = IF kind \in {"walkBulk", "tokenBulk"} THEN BulkCount ELSE 1,
               !.owed = IF Busy = {} THEN items ELSE @]
       ELSE [call[d] EXCEPT !.owed = NoCall.owed]]

\* The call returns with less than it was asked for.
Return(c) ==
  /\ call[c].pc = "return"
  /\ Only(c, NoCall)
  /\ UNCHANGED <<list, items, offsets, producing, consumer>>

-----------------------------------------------------------------------------
(* Consumers: TryDequeue, TryDequeueNonInterleaved and TryDequeueBulk       *)

\* From node to node: the walk of ForEachProducerWithReturn and ...WithBreak.
WalkFrom(c, n) ==
  IF n = nullptr THEN Finish(c, call[c])
  ELSE Only(c, [call[c] EXCEPT !.pc = "walk", !.node = n])

BeginWalk(c, kind) ==
  /\ kind \in {"walk", "walkBulk"}
  /\ Begin(c, kind, IF ProducerListsHead = nullptr THEN "return" ELSE "walk", ProducerListsHead)
  /\ consumer' = [consumer EXCEPT ![c].calls = @ + 1]
  /\ UNCHANGED <<list, items, offsets, producing>>

\* Dequeue what is still asked for from this node; TryDequeue passes over Best,
\* which it has tried.
WalkNode(c) ==
  LET n == call[c].node
  IN  /\ call[c].pc = "walk"
      /\ \E k \in 0..call[c].left :
           /\ IF n = call[c].Best THEN k = 0 ELSE Yields(c, n, call[c].left, k)
           /\ Take(n, k)
           /\ IF k = call[c].left \/ Next_[n] = nullptr
              THEN Finish(c, Got(c, n, k))
              ELSE Only(c, [Got(c, n, k) EXCEPT !.node = Next_[n]])
      /\ UNCHANGED <<list, offsets, producing, consumer>>

BeginBest(c) ==
  /\ Begin(c, "best", IF ProducerListsHead = nullptr THEN "return" ELSE "size",
           ProducerListsHead)
  /\ consumer' = [consumer EXCEPT ![c].calls = @ + 1]
  /\ UNCHANGED <<list, items, offsets, producing>>

\* GetProducerSize: Size loads TailIndex, then HeadIndex, which others may have
\* moved on in between.
Sizes(c, n) ==
  {size \in 0..items[n] : Busy = {c} => size = items[n]}

\* Mutant: the first producer that looks empty ends the scan.
SizeNodeStops(c) ==
  LET n == call[c].node
  IN  /\ call[c].pc = "size"
      /\ \E size \in Sizes(c, n) :
           IF size > 0 THEN Only(c, [call[c] EXCEPT !.pc = "best", !.Best = n])
           ELSE Finish(c, call[c])
      /\ UNCHANGED <<list, items, offsets, producing, consumer>>

\* Look for the largest of the first three producers that are not empty.
SizeNode(c) ==
  LET n == call[c].node
  IN  /\ call[c].pc = "size"
      /\ \E size \in Sizes(c, n) :
           LET better == size > call[c].BestSize
               count == call[c].NonEmptyCount + (IF size > 0 THEN 1 ELSE 0)
               r == [call[c] EXCEPT !.NonEmptyCount = count,
                      !.Best = IF better THEN n ELSE @, !.BestSize = IF better THEN size ELSE @]
           IN  Only(c, IF count < 3 /\ Next_[n] # nullptr THEN [r EXCEPT !.node = Next_[n]]
                       ELSE [r EXCEPT !.pc = IF count > 0 THEN "best" ELSE "return",
                               !.node = nullptr, !.NonEmptyCount = 0, !.BestSize = 0])
      /\ UNCHANGED <<list, items, offsets, producing, consumer>>

\* Dequeue from Best; if it has become empty, from any other, the list's head
\* loaded again.
TakeBest(c) ==
  /\ call[c].pc = "best"
  /\ \E k \in 0..1 :
       /\ Yields(c, call[c].Best, 1, k)
       /\ Take(call[c].Best, k)
       /\ IF k = 1 THEN Finish(c, Got(c, call[c].Best, 1)) ELSE WalkFrom(c, ProducerListsHead)
  /\ UNCHANGED <<list, offsets, producing, consumer>>

-----------------------------------------------------------------------------
(* Consumers: TryDequeue and TryDequeueBulk with a ConsumerToken            *)

\* GetConsumerToken: fetch_add on NextExplicitConsumerId.
ConstructConsumerToken(c) ==
  /\ ~consumer[c].made /\ plan.kinds[c] \cap {"token", "tokenBulk"} # {}
  /\ consumer' = [consumer EXCEPT ![c].made = TRUE,
                                  ![c].InitialOffset = NextExplicitConsumerId]
  /\ NextExplicitConsumerId' = (NextExplicitConsumerId + 1) % Width
  /\ UNCHANGED <<list, items, plan, GlobalExplicitConsumerOffset, producing, call>>

\* Load the offset, if the token has a producer, and see whether it moved on.
BeginToken(c, kind) ==
  LET t == consumer[c]
  IN  /\ kind \in {"token", "tokenBulk"} /\ t.made
      /\ Begin(c, kind, IF \/ t.DesiredProducer = nullptr
                           \/ t.LastKnownGlobalOffset # GlobalExplicitConsumerOffset
                        THEN "update" ELSE "current", nullptr)
      /\ consumer' = [consumer EXCEPT ![c].calls = @ + 1]
      /\ UNCHANGED <<list, items, offsets, producing>>

\* UpdateProducerForConsumer: load the head, then the count, then the offset.
UpdateHead(c) ==
  /\ call[c].pc = "update"
  /\ IF consumer[c].DesiredProducer = nullptr /\ ProducerListsHead = nullptr
     THEN Finish(c, call[c])
     ELSE Only(c, [call[c] EXCEPT !.pc = "count", !.head = ProducerListsHead])
  /\ UNCHANGED <<list, items, offsets, producing, consumer>>

UpdateCount(c) ==
  /\ call[c].pc = "count"
  /\ Only(c, [call[c] EXCEPT !.pc = "offset", !.count = ProducerCount])
  /\ UNCHANGED <<list, items, offsets, producing, consumer>>

\* The node i further than n, round from the last one to the head.
Further(n, i, head) ==
  LET step[j \in 0..i] ==
        IF j = 0 THEN n
        ELSE IF Next_[step[j - 1]] = nullptr THEN head ELSE Next_[step[j - 1]]
  IN  step[i]

\* Choose the first producer by the token's number, later ones by how often the
\* offset was moved since.
UpdateOffset(c) ==
  LET t == consumer[c]
      r == call[c]
      first == IF t.DesiredProducer = nullptr
               THEN Further(r.head, t.InitialOffset % r.count, r.head)
               ELSE t.DesiredProducer
      delta == (GlobalExplicitConsumerOffset - t.LastKnownGlobalOffset) % Width
      desired == Further(first, IF delta >= r.count THEN delta % r.count ELSE delta, r.head)
  IN  /\ r.pc = "offset" /\ r.count > 0
      /\ consumer' = [consumer EXCEPT ![c].DesiredProducer = desired,
           ![c].CurrentProducer = desired, ![c].ItemsConsumed = 0,
           ![c].LastKnownGlobalOffset = GlobalExplicitConsumerOffset]
      /\ Only(c, [r EXCEPT !.pc = "current", !.head = nullptr, !.count = 0])
      /\ UNCHANGED <<list, items, offsets, producing>>

\* Mutant: the quota is reached one item late.
QuotaPassed(c, n) == n > QUOTA

\* Has the token consumed its quota?  TryDequeue tests for the very number.
QuotaReached(c, n) ==
  IF call[c].kind = "token" THEN n = QUOTA ELSE n >= QUOTA

\* Dequeue from the current producer: all that was asked for, and perhaps the
\* quota with it, or go round the others.
TakeCurrent(c) ==
  LET n == consumer[c].CurrentProducer
      left == call[c].left
  IN  /\ call[c].pc = "current"
      /\ \E k \in 0..left :
           /\ Yields(c, n, left, k)
           /\ Take(n, k)
           /\ consumer' = [consumer EXCEPT ![c].ItemsConsumed = @ + k]
           /\ IF k = left /\ ~QuotaReached(c, consumer[c].ItemsConsumed + k)
              THEN Finish(c, Got(c, n, k))
              ELSE Only(c, [Got(c, n, k) EXCEPT !.pc = IF k < left THEN "ring" ELSE "rotate"])
      /\ UNCHANGED <<list, offsets, producing>>

\* Move everybody on: fetch_add on the offset.
Rotate(c) ==
  /\ call[c].pc = "rotate"
  /\ GlobalExplicitConsumerOffset' = (GlobalExplicitConsumerOffset + 1) % Width
  /\ Finish(c, call[c])
  /\ UNCHANGED <<list, items, plan, NextExplicitConsumerId, producing, consumer>>

\* Node->Next, or Head after the last node; back at the current producer, give up.
RingFrom(c, r, n, head, current) ==
  LET next == IF Next_[n] = nullptr THEN head ELSE Next_[n]
  IN  IF next = current
      THEN Finish(c, r)
      ELSE Only(c, [r EXCEPT !.pc = "others", !.head = head, !.node = next])

BeginRing(c) ==
  /\ call[c].pc = "ring"
  /\ RingFrom(c, call[c], consumer[c].CurrentProducer, ProducerListsHead,
              consumer[c].CurrentProducer)
  /\ UNCHANGED <<list, items, offsets, producing, consumer>>

\* Mutant: a bulk dequeue that got something from a node stops there.
RingNodeStops(c) ==
  LET r == call[c]
      n == r.node
  IN  /\ r.pc = "others"
      /\ \E k \in 0..r.left :
           /\ Yields(c, n, r.left, k)
           /\ Take(n, k)
           /\ IF k = 0
              THEN /\ UNCHANGED consumer
                   /\ RingFrom(c, r, n, r.head, consumer[c].CurrentProducer)
              ELSE /\ consumer' = [consumer EXCEPT ![c].CurrentProducer = n,
                                                   ![c].ItemsConsumed = k]
                   /\ Finish(c, Got(c, n, k))
      /\ UNCHANGED <<list, offsets, producing>>

\* A producer that yields something becomes the current one, where the round of
\* a bulk dequeue that still wants more now ends.
RingNode(c) ==
  LET r == call[c]
      n == r.node
  IN  /\ r.pc = "others"
      /\ \E k \in 0..r.left :
           /\ Yields(c, n, r.left, k)
           /\ Take(n, k)
           /\ consumer' = IF k = 0 THEN consumer
                          ELSE [consumer EXCEPT ![c].CurrentProducer = n,
                                                ![c].ItemsConsumed = k]
           /\ IF k = r.left
              THEN Finish(c, Got(c, n, k))
              ELSE RingFrom(c, Got(c, n, k), n, r.head,
                            consumer'[c].CurrentProducer)
      /\ UNCHANGED <<list, offsets, producing>>

-----------------------------------------------------------------------------
ProducerStep(p) ==
  \/ ConstructToken(p) \/ ConstructImplicit(p) \/ ScanNode(p) \/ Recycle(p)
  \/ CountProducer(p) \/ Link(p) \/ DestroyToken(p)
  \/ \E k \in 1..2 : Enqueue(p, k) \/ EnqueueWithToken(p, k)
  \/ \E q \in Producers : MoveToken(p, q)

ConsumerStep(c) ==
  \/ \E kind \in Kinds : BeginWalk(c, kind) \/ BeginToken(c, kind)
  \/ BeginBest(c) \/ WalkNode(c) \/ SizeNode(c) \/ TakeBest(c)
  \/ ConstructConsumerToken(c) \/ UpdateHead(c) \/ UpdateCount(c) \/ UpdateOffset(c)
  \/ TakeCurrent(c) \/ Rotate(c) \/ BeginRing(c) \/ RingNode(c) \/ Return(c)

\* Nobody is inside a call.
Quiet ==
  /\ \A p \in Producers : prod[p].pc = "idle"
  /\ \A c \in Consumers : call[c].pc = "idle"

Next ==
  \/ \E p \in Producers : ProducerStep(p)
  \/ \E c \in Consumers : ConsumerStep(c)
  \/ Quiet /\ UNCHANGED cqVars

Spec == Init /\ [][Next]_cqVars

-----------------------------------------------------------------------------
(* Properties *)

\* A producer belongs to one live token or to one thread at most, and is not
\* inactive meanwhile: two threads never enqueue to one sub-queue, which is for
\* a single producer (GetProducerListNode, ~ProducerToken).
OneOwner ==
  \A n \in Nodes :
    LET owners == {p \in Producers : Token[p] = n} \cup
                  {<<p>> : p \in {p \in Producers : Implicit[p] = n}}
    IN  Cardinality(owners) <= 1 /\ (Inactive[n] => owners = {})

\* Every producer that was ever handed out stays in the list, where consumers
\* find its items (AddProducer).
ListComplete ==
  \A n \in Nodes :
    items[n] > 0 \/ Inactive[n] \/ n \in {Token[p] : p \in Producers}
      \/ n \in {Implicit[p] : p \in Producers} => n \in Listed

\* The count a consumer divides by is never zero and never less than the number
\* of producers it can see, so it reaches all of them (AddProducer counts before
\* it links, UpdateProducerForConsumer loads the head before the count).
CountCoversList ==
  \A c \in Consumers :
    call[c].pc = "offset" => call[c].count >= Cardinality(From(call[c].head)) /\ call[c].count > 0

\* A dequeue that nobody overlapped and that returns less than it was asked for
\* leaves nothing behind of what was there when it began, whichever way it
\* looked for it (TryDequeue, TryDequeueBulk, with and without a token).
EmptyAnswer ==
  \A c \in Consumers : call[c].pc = "return" /\ call[c].left > 0 =>
    call[c].owed = NoCall.owed

\* A token that dequeues one item at a time and has had its quota knows an
\* offset that is out of date: its next call moves on to another producer.
RotationDue ==
  \A c \in Consumers :
    /\ call[c].pc = "idle" /\ "tokenBulk" \notin plan.kinds[c]
    /\ consumer[c].ItemsConsumed >= QUOTA
    => consumer[c].LastKnownGlobalOffset # GlobalExplicitConsumerOffset
=============================================================================
