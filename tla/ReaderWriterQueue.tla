-------------------------- MODULE ReaderWriterQueue --------------------------
(***************************************************************************)
(* ReaderWriterQueue: one producer, one consumer, a ring of circular       *)
(* buffers that grows when the buffer the producer is at and all the rest  *)
(* of the ring are in use.  Each side keeps its own copy of the other's    *)
(* index (LocalFront, LocalTail) and reloads it when the copy says there   *)
(* is no room, or no item.                                                 *)
(*                                                                         *)
(* Fields that only one thread writes are read by it at no cost; every     *)
(* access to a field of the other side is an action.  All atomics are      *)
(* relaxed and fences order them, so accesses with no fence between them   *)
(* may happen in either order: that is so of an item taken from the next   *)
(* block, or stored in it, and the index.  The first two loads of a        *)
(* dequeue, which no fence parts either, are taken in program order.       *)
(***************************************************************************)
EXTENDS Integers, FiniteSets, Sequences

CONSTANTS
  ReservedSize, EXPECTED_BLOCK_SIZE,
  MaxBlocks,     \* bound: blocks made in a behaviour
  MaxItems,      \* bound: items enqueued in a behaviour
  NULL, Raw, Bad \* no block; a slot without an object; a slot misused

ASSUME ReaderWriterQueueAssumption ==
  /\ EXPECTED_BLOCK_SIZE \in {2, 4, 8, 16, 32, 64, 128, 256, 512}
  /\ ReservedSize \in Nat /\ MaxBlocks \in Nat /\ MaxItems \in Nat
  /\ Raw \notin Nat /\ Bad \notin Nat /\ Raw # Bad

VARIABLES
  FrontBlock, TailBlock, BlockSize,
  block,         \* the blocks, in the order in which they were made
  ppc, enq,      \* the producer: its place in InnerEnqueue, its locals
  cpc, deq,      \* the consumer: its place in TryDequeue, Peek or Pop, its locals
  enqueued,      \* history: items published; an item is its number
  dequeued       \* history: items taken out

producer == <<TailBlock, BlockSize, ppc, enq, enqueued>>
consumer == <<FrontBlock, cpc, deq, dequeued>>
vars == <<block, producer, consumer>>

made == DOMAIN block

-----------------------------------------------------------------------------
(* Construction. *)

Powers == {1, 2, 4, 8, 16, 32, 64, 128, 256, 512}

\* A result above every EXPECTED_BLOCK_SIZE is compared with that, and not used.
CeilToPow2(n) ==
  IF n > 512 THEN n
  ELSE CHOOSE p \in Powers : p >= n /\ \A q \in Powers : q >= n => p <= q

MakeBlock(size, next) ==
  [Front |-> 0, LocalTail |-> 0, Tail |-> 0, LocalFront |-> 0,
   Next |-> next, Size |-> size, Data |-> [i \in 0..(size - 1) |-> Raw]]

\* Mutant: no block to spare for the one the consumer is at.
InitialCountShort ==
  IF CeilToPow2(ReservedSize + 1) > EXPECTED_BLOCK_SIZE
  THEN (ReservedSize + EXPECTED_BLOCK_SIZE - 2) \div (EXPECTED_BLOCK_SIZE - 1)
  ELSE 1

InitialCount ==
  IF CeilToPow2(ReservedSize + 1) > EXPECTED_BLOCK_SIZE
  THEN (ReservedSize + 2 * EXPECTED_BLOCK_SIZE - 3) \div (EXPECTED_BLOCK_SIZE - 1)
  ELSE 1

NoEnq == [Block |-> NULL, Tail |-> 0, Mode |-> "CanAlloc", waiting |-> 0]
NoDeq == [op |-> "dequeue", Block |-> NULL, Front |-> 0, Tail |-> 0, begun |-> 0,
          item |-> 0]

Init ==
  /\ BlockSize = IF InitialCount = 1 THEN CeilToPow2(ReservedSize + 1) ELSE EXPECTED_BLOCK_SIZE
  /\ block = [b \in 1..InitialCount |-> MakeBlock(BlockSize, (b % InitialCount) + 1)]
  /\ FrontBlock = 1 /\ TailBlock = 1
  /\ ppc = "idle" /\ enq = NoEnq
  /\ cpc = "idle" /\ deq = NoDeq
  /\ enqueued = 0 /\ dequeued = 0

Following(b, i) == (i + 1) % block[b].Size

\* The item the consumer has taken and not returned yet.
Held == IF cpc = "store" \/ (cpc = "return" /\ deq.op # "peek") THEN {deq.item} ELSE {}

-----------------------------------------------------------------------------
(* The producer: TryEnqueue (CannotAlloc) and Enqueue (CanAlloc). *)

Modes == {"CanAlloc", "CannotAlloc"}

Produce(label) == ppc' = label /\ UNCHANGED <<TailBlock, BlockSize, enq, enqueued>>

BeginEnqueue(mode) ==
  /\ ppc = "idle" /\ enqueued < MaxItems
  /\ mode = "CanAlloc" => Len(block) < MaxBlocks
  /\ enq' = [Block |-> TailBlock, Tail |-> block[TailBlock].Tail, Mode |-> mode,
             waiting |-> enqueued - dequeued + Cardinality(Held)]
  /\ ppc' = IF Following(TailBlock, block[TailBlock].Tail) # block[TailBlock].LocalFront
            THEN "construct" ELSE "front"
  /\ UNCHANGED <<block, TailBlock, BlockSize, enqueued, consumer>>

\* Mutant: a full buffer is not told from one with a slot left.
LoadFrontNotFull ==
  /\ ppc = "front"
  /\ block' = [block EXCEPT ![enq.Block].LocalFront = block[enq.Block].Front]
  /\ Produce(IF enq.Tail # block[enq.Block].Front THEN "construct" ELSE "next")
  /\ UNCHANGED consumer

LoadFront ==
  /\ ppc = "front"
  /\ block' = [block EXCEPT ![enq.Block].LocalFront = block[enq.Block].Front]
  /\ Produce(IF Following(enq.Block, enq.Tail) # block[enq.Block].Front
             THEN "construct" ELSE "next")
  /\ UNCHANGED consumer

\* Mutant: the producer goes on to the consumer's block.
LoadFrontBlockAny ==
  /\ ppc = "next"
  /\ Produce(CASE block[enq.Block].Next # enq.Block -> "nextFront"
               [] block[enq.Block].Next = enq.Block /\ enq.Mode = "CanAlloc"    -> "new"
               [] block[enq.Block].Next = enq.Block /\ enq.Mode = "CannotAlloc" -> "full")
  /\ UNCHANGED <<block, consumer>>

\* The buffer is full.  Is the next one the consumer's?
LoadFrontBlock ==
  /\ ppc = "next"
  /\ Produce(CASE block[enq.Block].Next # FrontBlock -> "nextFront"
               [] block[enq.Block].Next = FrontBlock /\ enq.Mode = "CanAlloc"    -> "new"
               [] block[enq.Block].Next = FrontBlock /\ enq.Mode = "CannotAlloc" -> "full")
  /\ UNCHANGED <<block, consumer>>

LoadNextFront ==
  /\ ppc = "nextFront"
  /\ LET next == block[enq.Block].Next
     IN  /\ enq' = [enq EXCEPT !.Block = next, !.Tail = block[next].Tail]
         /\ block' = [block EXCEPT ![next].LocalFront = block[next].Front]
  /\ ppc' = "constructNext"
  /\ UNCHANGED <<TailBlock, BlockSize, enqueued, consumer>>

\* In the next block no fence parts the item from the index behind it.
Construct ==
  /\ ppc \in {"construct", "constructNext", "constructLast"}
  /\ block' = [block EXCEPT ![enq.Block].Data[enq.Tail] = IF @ = Raw THEN enqueued ELSE Bad]
  /\ Produce(CASE ppc = "construct"     -> "store"
               [] ppc = "constructNext" -> "storeNext"
               [] ppc = "constructLast" -> "publish")
  /\ UNCHANGED consumer

StoreTail ==
  /\ ppc = "store"
  /\ block' = [block EXCEPT ![enq.Block].Tail = Following(enq.Block, enq.Tail)]
  /\ enqueued' = enqueued + 1
  /\ ppc' = "idle" /\ enq' = NoEnq
  /\ UNCHANGED <<TailBlock, BlockSize, consumer>>

StoreNextTail ==
  /\ ppc \in {"constructNext", "storeNext"}
  /\ block' = [block EXCEPT ![enq.Block].Tail = Following(enq.Block, enq.Tail)]
  /\ Produce(IF ppc = "storeNext" THEN "publish" ELSE "constructLast")
  /\ UNCHANGED consumer

NewBlockSize == IF BlockSize < EXPECTED_BLOCK_SIZE THEN 2 * BlockSize ELSE BlockSize

\* A new block, with the item in it.
NewBlock ==
  /\ ppc = "new"
  /\ block' = Append(block, [MakeBlock(NewBlockSize, block[enq.Block].Next)
                               EXCEPT !.Data[0] = enqueued, !.Tail = 1, !.LocalTail = 1])
  /\ enq' = [enq EXCEPT !.Tail = Len(block) + 1]   \* the local NewBlock
  /\ BlockSize' = NewBlockSize
  /\ ppc' = "link"
  /\ UNCHANGED <<TailBlock, enqueued, consumer>>

Link ==
  /\ ppc = "link"
  /\ block' = [block EXCEPT ![enq.Block].Next = enq.Tail]
  /\ enq' = [enq EXCEPT !.Block = enq.Tail]
  /\ ppc' = "publish"
  /\ UNCHANGED <<TailBlock, BlockSize, enqueued, consumer>>

StoreTailBlock ==
  /\ ppc = "publish"
  /\ TailBlock' = enq.Block
  /\ enqueued' = enqueued + 1
  /\ ppc' = "idle" /\ enq' = NoEnq
  /\ UNCHANGED <<block, BlockSize, consumer>>

\* T's constructor throws.  A new block is leaked, and BlockSize has grown.
ConstructThrows ==
  /\ ppc \in {"construct", "constructNext", "new"}
  /\ BlockSize' = IF ppc = "new" THEN NewBlockSize ELSE BlockSize
  /\ ppc' = "idle" /\ enq' = NoEnq
  /\ UNCHANGED <<block, TailBlock, enqueued, consumer>>

\* return false.
Full ==
  /\ ppc = "full"
  /\ ppc' = "idle" /\ enq' = NoEnq
  /\ UNCHANGED <<block, TailBlock, BlockSize, enqueued, consumer>>

EnqueueStep ==
  \/ LoadFront \/ LoadFrontBlock \/ LoadNextFront \/ Construct \/ StoreTail
  \/ StoreNextTail \/ NewBlock \/ Link \/ StoreTailBlock \/ ConstructThrows \/ Full

-----------------------------------------------------------------------------
(* The consumer: TryDequeue, Peek and Pop. *)

Consume(label) == cpc' = label /\ UNCHANGED <<FrontBlock, deq, dequeued>>

BeginDequeue(op) ==
  /\ cpc = "idle"
  /\ deq' = [op |-> op, Block |-> FrontBlock, Front |-> block[FrontBlock].Front,
             Tail |-> block[FrontBlock].LocalTail, begun |-> enqueued, item |-> 0]
  /\ cpc' = "tailBlock"
  /\ UNCHANGED <<block, producer, FrontBlock, dequeued>>

\* Peek and Pop look at the tail only if the copy says the buffer is empty.
LooksAtTail == deq.op = "dequeue" \/ deq.Front = deq.Tail

\* Mutant: the producer's block is not told from the others.
LoadTailBlockUntested ==
  /\ cpc = "tailBlock"
  /\ Consume(IF LooksAtTail THEN "tail" ELSE "item")
  /\ UNCHANGED <<block, producer>>

LoadTailBlock ==
  /\ cpc = "tailBlock"
  /\ Consume(IF deq.Block # TailBlock /\ LooksAtTail THEN "tail" ELSE "item")
  /\ UNCHANGED <<block, producer>>

\* The producer is at another block.  Is there an item left in this one?
LoadTail ==
  /\ cpc = "tail"
  /\ LET tail == block[deq.Block].Tail
     IN  /\ block' = [block EXCEPT ![deq.Block].LocalTail = tail]
         /\ cpc' = IF deq.Front = tail THEN "next" ELSE "item"
         /\ deq' = [deq EXCEPT !.Tail = IF deq.op = "dequeue" THEN tail ELSE @]
  /\ UNCHANGED <<producer, FrontBlock, dequeued>>

\* An item in this block, by the copy of the tail or by the tail itself?
HaveItem ==
  /\ cpc = "item" /\ deq.Front # deq.Tail
  /\ Consume(IF deq.op = "peek" THEN "return" ELSE "take")
  /\ UNCHANGED <<block, producer>>

\* Mutant: an old copy of the tail is trusted.
ReloadTailNever ==
  /\ cpc = "item" /\ deq.Front = deq.Tail
  /\ Consume("empty")
  /\ UNCHANGED <<block, producer>>

ReloadTail ==
  /\ cpc = "item" /\ deq.Front = deq.Tail
  /\ block' = [block EXCEPT ![deq.Block].LocalTail = block[deq.Block].Tail]
  /\ Consume(CASE deq.Front = block[deq.Block].Tail                      -> "empty"
               [] deq.Front # block[deq.Block].Tail /\ deq.op = "peek" -> "return"
               [] deq.Front # block[deq.Block].Tail /\ deq.op # "peek" -> "take")
  /\ UNCHANGED producer

LoadNext ==
  /\ cpc = "next"
  /\ LET next == block[deq.Block].Next
     IN  /\ deq' = [deq EXCEPT !.Block = next, !.Front = block[next].Front,
                               !.Tail = block[next].Tail]
         /\ block' = [block EXCEPT ![next].LocalTail = block[next].Tail]
  /\ cpc' = IF deq.op = "peek" THEN "return" ELSE "advance"
  /\ UNCHANGED <<producer, FrontBlock, dequeued>>

\* From here on the producer may use the block behind.
StoreFrontBlock ==
  /\ cpc = "advance"
  /\ FrontBlock' = deq.Block
  /\ cpc' = "takeNext"
  /\ UNCHANGED <<block, producer, deq, dequeued>>

\* In the next block no fence parts the item from the index behind it.
MoveOut ==
  /\ cpc \in {"take", "takeNext", "takeLast"}
  /\ block' = [block EXCEPT ![deq.Block].Data[deq.Front] = IF @ \in {Raw, Bad} THEN Bad ELSE Raw]
  /\ deq' = [deq EXCEPT !.item = block[deq.Block].Data[deq.Front]]
  /\ dequeued' = dequeued + 1
  /\ cpc' = IF cpc = "takeLast" THEN "return" ELSE "store"
  /\ UNCHANGED <<producer, FrontBlock>>

StoreFront ==
  /\ cpc \in {"takeNext", "store"}
  /\ block' = [block EXCEPT ![deq.Block].Front = Following(deq.Block, deq.Front)]
  /\ Consume(IF cpc = "store" THEN "return" ELSE "takeLast")
  /\ UNCHANGED producer

\* return true, or the item's address; return false, or nullptr.
Return ==
  /\ cpc \in {"return", "empty"}
  /\ cpc' = "idle" /\ deq' = NoDeq
  /\ UNCHANGED <<block, producer, FrontBlock, dequeued>>

DequeueStep ==
  \/ LoadTailBlock \/ LoadTail \/ HaveItem \/ ReloadTail \/ LoadNext
  \/ StoreFrontBlock \/ MoveOut \/ StoreFront \/ Return

-----------------------------------------------------------------------------
(* Destruction, when both threads are gone. *)

\* The slots that ~Block destroys: from Front up to Tail, round the ring.
Remaining(b) ==
  {i \in DOMAIN block[b].Data :
     (i - block[b].Front) % block[b].Size < (block[b].Tail - block[b].Front) % block[b].Size}

Clear ==
  /\ ppc = "idle" /\ cpc = "idle"
  /\ block' = [b \in made |->
       [block[b] EXCEPT !.Data = [i \in DOMAIN @ |->
         IF i \notin Remaining(b) THEN @[i]
         ELSE IF @[i] \in {Raw, Bad} THEN Bad ELSE Raw]]]
  /\ ppc' = "cleared" /\ cpc' = "cleared"
  /\ UNCHANGED <<TailBlock, BlockSize, enq, enqueued, FrontBlock, deq, dequeued>>

\* Nothing is left to do.
Cleared == ppc = "cleared" /\ UNCHANGED vars

Next ==
  \/ \E mode \in Modes : BeginEnqueue(mode)
  \/ EnqueueStep
  \/ \E op \in {"dequeue", "peek", "pop"} : BeginDequeue(op)
  \/ DequeueStep
  \/ Clear \/ Cleared

Spec == Init /\ [][Next]_vars

-----------------------------------------------------------------------------
(* Properties. *)

\* Every variable holds a value of its kind.
TypeOK ==
  /\ made # {} /\ FrontBlock \in made /\ TailBlock \in made
  /\ BlockSize \in 1..EXPECTED_BLOCK_SIZE
  /\ \A b \in made :
       /\ block[b].Next \in made
       /\ {block[b].Front, block[b].Tail, block[b].LocalFront, block[b].LocalTail}
            \subseteq 0..(block[b].Size - 1)
       /\ \A i \in DOMAIN block[b].Data : block[b].Data[i] \in 0..(MaxItems - 1) \union {Raw, Bad}
  /\ enqueued \in 0..MaxItems /\ dequeued \in 0..enqueued

\* Each item is made in a free slot and destroyed once, also by the destructor,
\* though each side works with a stale index of the other, and though in the
\* next block an index may become visible before the slot is ready.
LifetimesRight ==
  \A b \in made : \A i \in DOMAIN block[b].Data :
    /\ block[b].Data[i] # Bad
    /\ ppc = "cleared" => block[b].Data[i] = Raw

\* A call that returns false found the queue empty at some time: every item
\* published when the call began has been taken.
EmptyIsEmpty == cpc = "empty" => dequeued >= deq.begun

\* The assertions: the block the producer goes on to is empty; the block the
\* consumer goes on to is not.
NextBlockEmpty == ppc = "constructNext" => enq.Tail = block[enq.Block].LocalFront
NextBlockNotEmpty == cpc = "advance" => deq.Front # deq.Tail
NextBlockAsserted == NextBlockEmpty /\ NextBlockNotEmpty

\* TryEnqueue succeeds while fewer than ReservedSize items were in the queue
\* when it began: the ring has a block to spare for the one being emptied.
ReservedHeld == ppc = "full" => enq.waiting >= ReservedSize

\* The queue is one abstract queue of items, claimed one by one.
Fifo == INSTANCE ClaimQueue WITH
  Consumers <- {"consumer"},
  published <- enqueued,
  acquired  <- dequeued,
  holding   <- [c \in {"consumer"} |-> Held]
ImplementsFifo == Fifo!Spec
=============================================================================
