------------------- MODULE BlockingReaderWriterQueue_proofs ------------------
(***************************************************************************)
(* What the ring of ReaderWriterQueue and the blocking queue built on it   *)
(* do for every reserved size, block size and number of items: the ring    *)
(* keeps its items, in order, and what was reserved; the blocking queue    *)
(* uses it as one producer and one consumer may, and a wait that was       *)
(* granted finds its item.                                                 *)
(***************************************************************************)
EXTENDS BlockingReaderWriterQueue, SequenceTheorems, FiniteSetTheorems, WellFoundedInduction,
        NaturalsInduction, TLAPS

(* The ring: its invariant. *)

\* The block a call fills and has not made the TailBlock yet.
Filling == {"constructNext", "storeNext", "constructLast", "publish"}
InTransit(b) == ppc \in Filling /\ b = enq.Block

\* The blocks, but for a new one that is not linked yet.
Ring == IF ppc = "link" THEN made \ {enq.Tail} ELSE made
NextOf(b) == block[b].Next

\* The slot after i; the steps from i forward to j.
After(b, i) == IF i + 1 = block[b].Size THEN 0 ELSE i + 1
Ahead(b, i, j) == IF i <= j THEN j - i ELSE j - i + block[b].Size

\* The consumer has taken an item and its index not moved, or the other way round.
Taken(b) == b = FrontBlock /\ cpc = "store"
Exposed(b) == b = FrontBlock /\ cpc = "takeLast"

\* The slots that the indexes give for used, and those of published items.
Used(b) == Ahead(b, block[b].Front, block[b].Tail)
InUse(b) == IF InTransit(b) THEN 0 ELSE Used(b)
Start(b) == IF Exposed(b) THEN deq.Front
            ELSE IF Taken(b) THEN After(b, block[b].Front) ELSE block[b].Front
Length(b) == IF Exposed(b) THEN InUse(b) + 1 ELSE IF Taken(b) THEN InUse(b) - 1 ELSE InUse(b)
First(b) == IF b = FrontBlock THEN dequeued ELSE block[b].Data[block[b].Front]
Place(b, i) == Ahead(b, Start(b), i)
Written(b) == ppc \in {"store", "storeNext", "publish"} /\ b = enq.Block

\* The blocks from the consumer's to the producer's.
Active(b) == b = FrontBlock \/ InUse(b) > 0

Fields == {"Front", "LocalTail", "Tail", "LocalFront", "Next", "Size", "Data"}

\* A block's indexes; each side's copy of the other's is an old one.
IsBlock(r) ==
  /\ DOMAIN r = Fields /\ DOMAIN r.Data = 0..(r.Size - 1)
  /\ r.Size \in Nat /\ r.Size >= 2
  /\ r.Front \in 0..(r.Size - 1) /\ r.Tail \in 0..(r.Size - 1)
  /\ r.LocalFront \in 0..(r.Size - 1) /\ r.LocalTail \in 0..(r.Size - 1)

CopiesOld(b) ==
  /\ Ahead(b, block[b].Front, block[b].LocalTail) <= Used(b)
  /\ Used(b) <= Ahead(b, block[b].LocalFront, block[b].Tail)

BlocksInv ==
  /\ BlockSize \in Powers /\ BlockSize >= 2 /\ BlockSize <= EXPECTED_BLOCK_SIZE
  /\ block = [b \in made |-> block[b]] /\ \E n \in Nat : made = 1..n
  /\ \A b \in made : IsBlock(block[b]) /\ CopiesOld(b) /\ NextOf(b) \in Ring

\* The active blocks are those from FrontBlock up to TailBlock.
RingInv ==
  /\ FrontBlock \in Ring /\ TailBlock \in Ring /\ Active(TailBlock)
  /\ \A p, q \in Ring : NextOf(p) = NextOf(q) => p = q
  /\ \A p \in Ring : (Active(p) /\ p # TailBlock)
                       <=> (Active(NextOf(p)) /\ NextOf(p) # FrontBlock)

Content(b, i) ==
  IF Place(b, i) < Length(b) THEN First(b) + Place(b, i)
  ELSE IF Written(b) /\ Place(b, i) = Length(b) THEN enqueued ELSE Raw

\* The items lie in the slots in the order of their numbers.
ItemsInv ==
  /\ enqueued \in Nat /\ dequeued \in Nat
  /\ \A b \in Ring :
       /\ Length(b) > 0 => First(b) \in Nat
       /\ \A i \in DOMAIN block[b].Data : block[b].Data[i] = Content(b, i)
       /\ Active(b) => First(b) + Length(b) <= enqueued
       /\ Active(b) /\ b # TailBlock => First(NextOf(b)) = First(b) + Length(b)
  /\ First(TailBlock) + Length(TailBlock) = enqueued

AtTail == {"construct", "store", "front"}

ProducerInv ==
  /\ DOMAIN enq = {"Block", "Tail", "Mode", "waiting"} /\ enq.Mode \in Modes
  /\ ppc \in AtTail \union {"idle", "next", "nextFront", "new", "link", "full"} \union Filling
  /\ ppc \in AtTail \union {"next", "nextFront", "new", "link"} => enq.Block = TailBlock
  /\ ppc \in AtTail => enq.Tail = block[TailBlock].Tail
  /\ ppc \in {"construct", "store"} =>
       After(TailBlock, block[TailBlock].Tail) # block[TailBlock].LocalFront
  /\ ppc = "nextFront" => NextOf(TailBlock) # FrontBlock
  /\ ppc \in Filling =>
       /\ enq.Block = NextOf(TailBlock) /\ enq.Block # FrontBlock
       /\ block[enq.Block].LocalFront = block[enq.Block].Front
       /\ block[enq.Block].Tail = IF ppc \in {"constructNext", "storeNext"}
                                  THEN block[enq.Block].Front
                                  ELSE After(enq.Block, block[enq.Block].Front)
  /\ ppc \in Filling \ {"publish"} => enq.Tail = block[enq.Block].Front
  /\ ppc = "link" =>
       /\ enq.Tail \in made
       /\ block[enq.Tail].Front = 0 /\ block[enq.Tail].Tail = 1
       /\ block[enq.Tail].LocalFront = 0
       /\ NextOf(enq.Tail) = NextOf(TailBlock)
       /\ \A i \in DOMAIN block[enq.Tail].Data :
            block[enq.Tail].Data[i] = IF i = 0 THEN enqueued ELSE Raw

AtFront == {"tailBlock", "tail", "item", "take", "takeNext", "store", "next"}

ConsumerInv ==
  /\ DOMAIN deq = {"op", "Block", "Front", "Tail", "begun", "item"}
  /\ deq.begun \in Nat /\ deq.begun <= enqueued
  /\ cpc \in AtFront \union {"idle", "takeLast", "advance", "return", "empty"}
  /\ cpc \in AtFront \union {"takeLast"} => deq.Block = FrontBlock
  /\ cpc \in AtFront => deq.Front = block[FrontBlock].Front
  /\ cpc = "tailBlock" => deq.Tail = block[FrontBlock].LocalTail
  /\ cpc = "tail" /\ deq.op # "dequeue" => deq.Tail = deq.Front
  /\ cpc = "item" => deq.Tail \in {deq.Front, block[FrontBlock].LocalTail}
  /\ cpc = "item" /\ deq.Tail = deq.Front =>
       block[FrontBlock].Front # block[FrontBlock].Tail \/ deq.begun <= dequeued + Length(FrontBlock)
  /\ cpc \in {"tail", "next", "advance"} => FrontBlock # TailBlock
  /\ cpc \in {"next", "advance"} => block[FrontBlock].Front = block[FrontBlock].Tail
  /\ cpc \in {"take", "takeNext", "store"} =>
       block[FrontBlock].LocalTail # block[FrontBlock].Front
  /\ cpc = "takeLast" =>
       /\ deq.Front \in DOMAIN block[FrontBlock].Data
       /\ block[FrontBlock].Front = After(FrontBlock, deq.Front)
  /\ cpc = "advance" =>
       /\ deq.Block = NextOf(FrontBlock)
       /\ deq.Front = block[deq.Block].Front
       /\ deq.Tail = block[deq.Block].LocalTail /\ deq.Tail # deq.Front
  /\ cpc \in {"take", "takeNext", "takeLast", "store", "advance"} => deq.op # "peek"
  /\ cpc = "store" \/ (cpc = "return" /\ deq.op # "peek") => deq.item = dequeued - 1
  /\ cpc = "empty" => deq.begun <= dequeued

Core == BlocksInv /\ RingInv /\ ItemsInv /\ ProducerInv /\ ConsumerInv

QueueInv ==
  /\ (ppc = "cleared") <=> (cpc = "cleared")
  /\ ppc # "cleared" => Core
  /\ ppc = "cleared" => LifetimesRight

-----------------------------------------------------------------------------
(* Operators. *)

\* The slot after another, as the model computes it.
LEMMA AfterIs ==
  ASSUME NEW b, IsBlock(block[b]), NEW i \in 0..(block[b].Size - 1)
  PROVE  Following(b, i) = After(b, i) /\ After(b, i) \in 0..(block[b].Size - 1)
<1> DEFINE S == block[b].Size
<1>1. S \in Nat /\ S >= 2
  BY DEF IsBlock
<1>2. CASE i + 1 = S
  BY <1>1, <1>2 DEF Following, After
<1>3. CASE i + 1 # S
  BY <1>1, <1>3 DEF Following, After
<1>4. QED
  BY <1>2, <1>3

\* A reserved size has a block, and no ring begins without one.
LEMMA CeilIs ==
  ASSUME NEW n \in Nat, n >= 2, n <= 512
  PROVE  CeilToPow2(n) \in Powers /\ CeilToPow2(n) >= n
<1>1. \E p \in Powers : p >= n /\ \A q \in Powers : q >= n => p <= q
  BY DEF Powers
<1>2. QED
  BY <1>1 DEF CeilToPow2

LEMMA InitialBlocks ==
  ASSUME ReservedSize > 0
  PROVE  /\ InitialCount \in Nat /\ InitialCount >= 1
         /\ LET size == IF InitialCount = 1 THEN CeilToPow2(ReservedSize + 1) ELSE EXPECTED_BLOCK_SIZE
            IN  size \in Powers /\ size >= 2 /\ size <= EXPECTED_BLOCK_SIZE
<1> DEFINE C == CeilToPow2(ReservedSize + 1)
           N == (ReservedSize + 2 * EXPECTED_BLOCK_SIZE - 3) \div (EXPECTED_BLOCK_SIZE - 1)
<1> USE ReaderWriterQueueAssumption
<1>1. EXPECTED_BLOCK_SIZE \in Powers /\ EXPECTED_BLOCK_SIZE >= 2 /\ EXPECTED_BLOCK_SIZE <= 512
  BY DEF Powers
<1>2. C > EXPECTED_BLOCK_SIZE => ReservedSize >= 2
  <2>1. CASE ReservedSize = 1
    <3>1. C = 2
      BY <2>1 DEF CeilToPow2, Powers
    <3>2. QED
      BY <1>1, <3>1
  <2>2. QED
    BY <2>1
<1>3. C \in Nat
  BY CeilIs DEF Powers, CeilToPow2
<1>4. ReservedSize >= 2 => N \in Nat /\ N >= 2
  OBVIOUS
<1>5. CASE C > EXPECTED_BLOCK_SIZE
  BY <1>1, <1>2, <1>4, <1>5 DEF InitialCount
<1>6. CASE ~(C > EXPECTED_BLOCK_SIZE)
  <2>1. ReservedSize + 1 <= 512
    BY <1>1, <1>3, <1>6 DEF CeilToPow2
  <2>2. C \in Powers /\ C >= 2
    BY <2>1, CeilIs DEF Powers
  <2>3. InitialCount = 1
    BY <1>6 DEF InitialCount
  <2>4. QED
    BY <1>1, <1>3, <1>6, <2>2, <2>3
<1>7. QED
  BY <1>5, <1>6

-----------------------------------------------------------------------------
(* The initial state. *)

LEMMA InitBlocks ==
  ASSUME ReservedSize > 0, Init
  PROVE  /\ InitialCount \in Nat /\ InitialCount >= 1
         /\ BlockSize \in Powers /\ BlockSize >= 2 /\ BlockSize <= EXPECTED_BLOCK_SIZE
         /\ made = 1..InitialCount
         /\ \A b \in made :
              block[b] = MakeBlock(BlockSize, IF b = InitialCount THEN 1 ELSE b + 1)
<1> DEFINE n == InitialCount
<1>1. n \in Nat /\ n >= 1
  BY InitialBlocks
<1>2. \A b \in 1..n : (b % n) + 1 = IF b = n THEN 1 ELSE b + 1
  <2> HIDE DEF n
  <2> TAKE b \in 1..n
  <2>1. CASE b = n
    BY <1>1, <2>1
  <2>2. CASE b # n
    BY <1>1, <2>2
  <2>3. QED
    BY <2>1, <2>2
<1>3. made = 1..n
  BY DEF Init, made
<1>4. QED
  BY <1>1, <1>2, <1>3, InitialBlocks DEF Init

LEMMA InitInv ==
  ASSUME ReservedSize > 0, Init
  PROVE  QueueInv
<1> DEFINE n == InitialCount
<1>1. /\ n \in Nat /\ n >= 1 /\ made = 1..n
      /\ BlockSize \in Powers /\ BlockSize >= 2 /\ BlockSize <= EXPECTED_BLOCK_SIZE
  BY InitBlocks
<1>2. ASSUME NEW b \in made
      PROVE  block[b] = MakeBlock(BlockSize, IF b = n THEN 1 ELSE b + 1)
  BY InitBlocks
<1> HIDE DEF n
<1>3. /\ FrontBlock = 1 /\ TailBlock = 1 /\ enqueued = 0 /\ dequeued = 0
      /\ ppc = "idle" /\ cpc = "idle" /\ enq = NoEnq /\ deq = NoDeq
  BY DEF Init
<1>4. Ring = made
  BY <1>3 DEF Ring
<1>5. BlockSize \in Nat
  BY <1>1 DEF Powers
<1>6. ASSUME NEW b \in made
      PROVE  /\ IsBlock(block[b]) /\ InUse(b) = 0 /\ Used(b) = 0 /\ Length(b) = 0
             /\ CopiesOld(b) /\ ~Written(b) /\ Start(b) = 0
             /\ NextOf(b) = IF b = n THEN 1 ELSE b + 1
             /\ block[b].Front = 0 /\ block[b].Tail = 0
             /\ \A i \in DOMAIN block[b].Data : block[b].Data[i] = Raw
  <2>1. block[b] = MakeBlock(BlockSize, IF b = n THEN 1 ELSE b + 1)
    BY <1>2
  <2>2. /\ block[b].Front = 0 /\ block[b].Tail = 0 /\ block[b].LocalFront = 0
        /\ block[b].LocalTail = 0 /\ block[b].Size = BlockSize
        /\ block[b].Data = [i \in 0..(BlockSize - 1) |-> Raw]
        /\ block[b].Next = IF b = n THEN 1 ELSE b + 1
        /\ DOMAIN block[b] = Fields
    BY <2>1 DEF MakeBlock, Fields
  <2>3. Used(b) = 0 /\ CopiesOld(b) /\ IsBlock(block[b])
    BY <1>1, <1>5, <2>2 DEF Used, CopiesOld, Ahead, IsBlock
  <2>4. QED
    BY <1>3, <2>2, <2>3
    DEF InUse, Length, InTransit, Exposed, Taken, Start, NextOf, Written, Filling
<1>7. BlocksInv
  <2>1. block = [b \in made |-> block[b]]
    BY DEF Init, made
  <2>2. ASSUME NEW b \in made PROVE NextOf(b) \in Ring
    BY <1>1, <1>4, <1>6
  <2>3. QED
    BY <1>1, <1>6, <2>1, <2>2 DEF BlocksInv
<1>8. RingInv
  <2>1. \A b \in Ring : Active(b) <=> b = 1
    BY <1>3, <1>4, <1>6 DEF Active
  <2>2. 1 \in Ring
    BY <1>1, <1>4
  <2>3. ASSUME NEW p \in Ring, NEW q \in Ring, NextOf(p) = NextOf(q)
        PROVE  p = q
    <3>1. p \in 1..n /\ q \in 1..n
      BY <1>1, <1>4
    <3>2. QED
      BY <1>1, <1>4, <1>6, <2>3, <3>1
  <2>4. ASSUME NEW p \in Ring
        PROVE  (Active(p) /\ p # TailBlock)
                 <=> (Active(NextOf(p)) /\ NextOf(p) # FrontBlock)
    <3>1. NextOf(p) \in Ring
      BY <1>1, <1>4, <1>6
    <3>2. QED
      BY <1>3, <2>1, <3>1
  <2>5. QED
    BY <1>3, <2>1, <2>2, <2>3, <2>4 DEF RingInv
<1>9. ItemsInv
  <2>1. \A b \in Ring : Active(b) => b = 1
    BY <1>3, <1>4, <1>6 DEF Active
  <2>2. ASSUME NEW b \in Ring, NEW i \in DOMAIN block[b].Data
        PROVE  block[b].Data[i] = Content(b, i)
    <3>1. i \in 0..(block[b].Size - 1) /\ block[b].Size \in Nat
      BY <1>4, <1>6 DEF IsBlock
    <3>2. ~(Place(b, i) < 0)
      BY <1>4, <1>6, <3>1 DEF Place, Ahead
    <3>3. QED
      BY <1>4, <1>6, <3>2 DEF Content
  <2>3. QED
    BY <1>1, <1>3, <1>4, <1>6, <2>1, <2>2 DEF ItemsInv, First
<1>10. ProducerInv
  BY <1>3 DEF ProducerInv, NoEnq, Modes, AtTail, Filling
<1>11. ConsumerInv
  BY <1>3 DEF ConsumerInv, NoDeq, AtFront
<1>12. QED
  BY <1>3, <1>7, <1>8, <1>9, <1>10, <1>11 DEF QueueInv, Core

-----------------------------------------------------------------------------
(* Steps that leave the items where they are. *)

LEMMA AheadIs ==
  ASSUME NEW b, IsBlock(block[b]), NEW i \in 0..(block[b].Size - 1),
         NEW j \in 0..(block[b].Size - 1)
  PROVE  /\ Ahead(b, i, j) \in 0..(block[b].Size - 1)
         /\ Ahead(b, i, j) = 0 <=> i = j
BY SMTT(60) DEF Ahead, IsBlock

\* What the invariant says of a block's slots depends on few of its fields.
LEMMA SameItems ==
  ASSUME RingInv, ItemsInv, Ring' = Ring,
         UNCHANGED <<FrontBlock, TailBlock, enqueued, dequeued>>,
         \A b \in Ring :
           /\ NextOf(b) \in Ring
           /\ block'[b].Size = block[b].Size
           /\ block'[b].Next = block[b].Next /\ block'[b].Data = block[b].Data
           /\ Length(b)' = Length(b) /\ Start(b)' = Start(b)
           /\ b = FrontBlock \/ (block'[b].Front = block[b].Front /\ InUse(b)' = InUse(b))
           /\ Written(b)' <=> Written(b)
  PROVE  RingInv' /\ ItemsInv'
<1>1. \A b \in Ring : Active(b)' <=> Active(b)
  BY DEF Active
<1>2. \A b \in Ring : NextOf(b)' = NextOf(b)
  BY DEF NextOf
<1>3. \A b \in Ring : First(b)' = First(b)
  BY DEF First
<1>4. ASSUME NEW b \in Ring, NEW i \in DOMAIN block[b].Data
      PROVE  Content(b, i)' = Content(b, i)
  <2>1. Place(b, i)' = Place(b, i)
    BY DEF Place, Ahead
  <2>2. QED
    BY <1>3, <2>1 DEF Content
<1>5. RingInv'
  <2>1. \A p, q \in Ring : NextOf(p)' = NextOf(q)' => p = q
    BY <1>2 DEF RingInv
  <2>2. ASSUME NEW p \in Ring
        PROVE  ((Active(p) /\ p # TailBlock)
                 <=> (Active(NextOf(p)) /\ NextOf(p) # FrontBlock))'
    <3>1. PICK q : q = NextOf(p)
      OBVIOUS
    <3>2. q \in Ring /\ q = NextOf(p)'
      BY <1>2, <3>1
    <3>3. (Active(p)' /\ p # TailBlock') <=> (Active(q)' /\ q # FrontBlock')
      BY <1>1, <3>1, <3>2 DEF RingInv
    <3>4. QED
      BY <3>2, <3>3
  <2>3. QED
    BY <1>1, <2>1, <2>2 DEF RingInv
<1>6. ItemsInv'
  <2>1. ASSUME NEW b \in Ring, Active(b), b # TailBlock
        PROVE  First(NextOf(b))' = First(b)' + Length(b)'
    <3>1. PICK q : q = NextOf(b)
      OBVIOUS
    <3>2. q \in Ring /\ q = NextOf(b)'
      BY <1>2, <3>1
    <3>3. First(q)' = First(b)' + Length(b)'
      BY <1>3, <2>1, <3>1, <3>2 DEF ItemsInv
    <3>4. QED
      BY <3>2, <3>3
  <2>2. First(TailBlock)' + Length(TailBlock)' = enqueued'
    <3>1. PICK t : t = TailBlock
      OBVIOUS
    <3>2. First(t)' + Length(t)' = enqueued'
      BY <1>3, <3>1 DEF ItemsInv, RingInv
    <3>3. QED
      BY <3>1, <3>2
  <2>3. ASSUME NEW b \in Ring, NEW i \in DOMAIN (block[b].Data)'
        PROVE  (block[b].Data[i])' = Content(b, i)'
    BY <1>4 DEF ItemsInv
  <2>4. \A b \in Ring : /\ Length(b)' > 0 => First(b)' \in Nat
                        /\ Active(b)' => First(b)' + Length(b)' <= enqueued'
    BY <1>1, <1>3 DEF ItemsInv
  <2>5. QED
    BY <1>1, <2>1, <2>2, <2>3, <2>4 DEF ItemsInv
<1>7. QED
  BY <1>5, <1>6

\* A step that moves no index and no item.
LEMMA Quiet ==
  ASSUME Core, Ring' = Ring,
         UNCHANGED <<FrontBlock, TailBlock, enqueued, dequeued>>,
         \A b \in made :
           /\ block'[b].Size = block[b].Size /\ block'[b].Front = block[b].Front
           /\ block'[b].Tail = block[b].Tail
           /\ block'[b].Next = block[b].Next /\ block'[b].Data = block[b].Data,
         \A b \in Ring : InUse(b)' = InUse(b) /\ (Written(b)' <=> Written(b)),
         cpc \in {"store", "takeLast"} \/ cpc' \in {"store", "takeLast"} =>
           cpc' = cpc /\ deq' = deq
  PROVE  RingInv' /\ ItemsInv'
<1>1. ASSUME NEW b \in Ring
      PROVE  /\ NextOf(b) \in Ring
             /\ block'[b].Size = block[b].Size /\ block'[b].Front = block[b].Front
             /\ block'[b].Next = block[b].Next /\ block'[b].Data = block[b].Data
             /\ InUse(b)' = InUse(b) /\ Length(b)' = Length(b) /\ Start(b)' = Start(b)
             /\ Written(b)' <=> Written(b)
  <2>1. b \in made
    BY DEF Ring
  <2>3. InUse(b)' = InUse(b)
    OBVIOUS
  <2>4. (Taken(b)' <=> Taken(b)) /\ (Exposed(b)' <=> Exposed(b)) /\ (Exposed(b) => deq' = deq)
    BY DEF Taken, Exposed
  <2>5. Length(b)' = Length(b)
    BY <2>3, <2>4 DEF Length
  <2>6. Start(b)' = Start(b)
    BY <2>1, <2>4 DEF Start, After
  <2>7. QED
    BY <2>1, <2>3, <2>5, <2>6 DEF Core, BlocksInv
<1>2. QED
  BY <1>1, SameItems DEF Core

\* A step that changes one block.
LEMMA OneBlock ==
  ASSUME BlocksInv, NEW b \in made, NEW r, block' = [block EXCEPT ![b] = r],
         IsBlock(r), r.Next \in Ring, CopiesOld(b)', Ring' = Ring, BlockSize' = BlockSize
  PROVE  BlocksInv'
<1>1. made' = made /\ block' = [d \in made |-> block'[d]]
  BY DEF BlocksInv, made
<1>2. ASSUME NEW d \in made
      PROVE  IsBlock(block'[d]) /\ CopiesOld(d)' /\ NextOf(d)' \in Ring
  <2>1. CASE d = b
    BY <2>1 DEF made, NextOf
  <2>2. CASE d # b
    <3>1. block'[d] = block[d]
      BY <2>2 DEF made
    <3>2. QED
      BY <3>1 DEF BlocksInv, CopiesOld, Used, Ahead, NextOf
  <2>3. QED
    BY <2>1, <2>2
<1>3. QED
  BY <1>1, <1>2 DEF BlocksInv

\* What the consumer counts on stays so in a step of the producer.
LEMMA ConsumerKept ==
  ASSUME Core, UNCHANGED consumer, enqueued' \in Nat, enqueued' >= enqueued,
         TailBlock' = TailBlock \/ TailBlock' # FrontBlock,
         NEW f, f = FrontBlock,
         /\ block'[f].Size = block[f].Size /\ block'[f].Front = block[f].Front
         /\ block'[f].LocalTail = block[f].LocalTail
         /\ DOMAIN block'[f].Data = DOMAIN block[f].Data,
         f # TailBlock => block'[f].Tail = block[f].Tail /\ block'[f].Next = block[f].Next,
         block[f].Front # block[f].Tail => block'[f].Front # block'[f].Tail,
         Length(f) \in Int, Length(f)' \in Int, Length(f)' >= Length(f),
         f # TailBlock => LET n == block[f].Next
                          IN  block'[n].Front = block[n].Front /\ block'[n].LocalTail = block[n].LocalTail
  PROVE  ConsumerInv'
<1>1. dequeued \in Nat /\ deq' = deq /\ cpc' = cpc /\ dequeued' = dequeued /\ FrontBlock' = f
  BY DEF consumer, Core, ItemsInv
<1>2. f # TailBlock => f # TailBlock'
  OBVIOUS
<1>3. Length(FrontBlock)' = Length(f)'
  BY <1>1
<1>4. After(FrontBlock, deq.Front)' = After(FrontBlock, deq.Front)
  BY <1>1 DEF After
<1>5. cpc = "item" /\ deq.Tail = deq.Front =>
        block'[f].Front # block'[f].Tail \/ deq.begun <= dequeued + Length(f)'
  BY <1>1 DEF Core, ConsumerInv
<1>6. enqueued \in Nat
  BY DEF Core, ItemsInv
<1>7. cpc = "advance" => /\ block'[deq.Block].Front = block[deq.Block].Front
                         /\ block'[deq.Block].LocalTail = block[deq.Block].LocalTail
                         /\ deq.Block = block'[f].Next
  BY DEF Core, ConsumerInv, NextOf
<1>8. QED
  BY <1>1, <1>2, <1>3, <1>4, <1>5, <1>6, <1>7 DEF Core, ConsumerInv, NextOf

\* What the producer counts on stays so in a step of the consumer.
LEMMA ProducerKept ==
  ASSUME Core, UNCHANGED producer, made' = made,
         \A b \in made :
           /\ block'[b].Size = block[b].Size /\ block'[b].Tail = block[b].Tail
           /\ block'[b].LocalFront = block[b].LocalFront /\ block'[b].Next = block[b].Next
           /\ DOMAIN block'[b].Data = DOMAIN block[b].Data
           /\ b # FrontBlock => block'[b].Front = block[b].Front
                               /\ block'[b].Data = block[b].Data,
         ppc = "nextFront" \/ ppc \in Filling => FrontBlock' # NextOf(TailBlock)
  PROVE  ProducerInv'
<1>1. /\ ppc' = ppc /\ enq' = enq /\ TailBlock' = TailBlock /\ enqueued' = enqueued
  BY DEF producer
<1>2. TailBlock \in made /\ FrontBlock \in made /\ NextOf(TailBlock) \in made
  BY DEF Core, RingInv, Ring, BlocksInv
<1>3. /\ NextOf(TailBlock)' = NextOf(TailBlock)
      /\ block'[TailBlock].Tail = block[TailBlock].Tail
      /\ block'[TailBlock].LocalFront = block[TailBlock].LocalFront
      /\ block'[TailBlock].Size = block[TailBlock].Size
  BY <1>1, <1>2 DEF NextOf
<1>4. After(TailBlock, block[TailBlock].Tail)' = After(TailBlock, block[TailBlock].Tail)
  BY <1>1, <1>3 DEF After
<1>5. ppc \in Filling =>
        /\ enq.Block \in made /\ enq.Block # FrontBlock
        /\ block'[enq.Block].Front = block[enq.Block].Front
        /\ block'[enq.Block].Tail = block[enq.Block].Tail
        /\ block'[enq.Block].LocalFront = block[enq.Block].LocalFront
        /\ block'[enq.Block].Size = block[enq.Block].Size
  BY <1>2 DEF Core, ProducerInv
<1>6. ppc \in Filling => After(enq.Block, block[enq.Block].Front)' = After(enq.Block, block[enq.Block].Front)
  BY <1>1, <1>5 DEF After
<1>7. ppc = "link" => /\ enq.Tail \in made
                     /\ block'[enq.Tail].Front = block[enq.Tail].Front
                     /\ block'[enq.Tail].Tail = block[enq.Tail].Tail
                     /\ block'[enq.Tail].LocalFront = block[enq.Tail].LocalFront
                     /\ NextOf(enq.Tail)' = NextOf(enq.Tail)
                     /\ block'[enq.Tail].Data = block[enq.Tail].Data
  <2>1. ppc = "link" => enq.Tail \in made /\ enq.Tail # FrontBlock
    BY DEF Core, ProducerInv, RingInv, Ring
  <2>2. QED
    BY <1>1, <2>1 DEF NextOf
<1>8. ppc = "nextFront" => NextOf(TailBlock)' # FrontBlock'
  BY <1>3
<1>9. ppc \in Filling => enq.Block # FrontBlock'
  BY DEF Core, ProducerInv
<1>10. QED
  BY <1>1, <1>3, <1>4, <1>5, <1>6, <1>7, <1>8, <1>9 DEF Core, ProducerInv

-----------------------------------------------------------------------------
(* Steps of the consumer that leave the blocks alone, or set a copy of a tail. *)

\* A step of the consumer at which no item has been taken and no index moved yet.
LEMMA ConsumerQuiet ==
  ASSUME Core, UNCHANGED producer, UNCHANGED <<FrontBlock, dequeued>>,
         cpc \notin {"store", "takeLast"}, cpc' \notin {"store", "takeLast"},
         made' = made,
         \A b \in made :
           /\ block'[b].Size = block[b].Size /\ block'[b].Front = block[b].Front
           /\ block'[b].Tail = block[b].Tail /\ block'[b].LocalFront = block[b].LocalFront
           /\ block'[b].Next = block[b].Next /\ block'[b].Data = block[b].Data
  PROVE  RingInv' /\ ItemsInv' /\ ProducerInv' /\ Ring' = Ring /\ BlockSize' = BlockSize
<1>1. ppc' = ppc /\ enq' = enq /\ TailBlock' = TailBlock /\ enqueued' = enqueued
      /\ BlockSize' = BlockSize
  BY DEF producer
<1>2. Ring' = Ring
  BY <1>1 DEF Ring
<1>3. ASSUME NEW b \in Ring
      PROVE  InUse(b)' = InUse(b) /\ (Written(b)' <=> Written(b))
  <2>1. b \in made
    BY DEF Ring
  <2>2. Used(b)' = Used(b)
    BY <2>1 DEF Used, Ahead
  <2>3. QED
    BY <1>1, <2>2 DEF InUse, InTransit, Written
<1>4. RingInv' /\ ItemsInv'
  BY <1>1, <1>2, <1>3, Quiet
<1>5. ppc = "nextFront" \/ ppc \in Filling => FrontBlock' # NextOf(TailBlock)
  BY DEF Core, ProducerInv
<1>6. ProducerInv'
  BY <1>5, ProducerKept
<1>7. QED
  BY <1>1, <1>2, <1>4, <1>6

LEMMA BlocksSame ==
  ASSUME BlocksInv, block' = block, Ring' = Ring, BlockSize' = BlockSize
  PROVE  BlocksInv'
BY DEF BlocksInv, made, CopiesOld, Used, Ahead, NextOf

LEMMA ConsumerLooks ==
  ASSUME Core,
         \/ \E o \in {"dequeue", "peek", "pop"} : BeginDequeue(o)
         \/ LoadTailBlock \/ HaveItem \/ Return
  PROVE  Core'
<1>1. /\ block' = block /\ UNCHANGED producer /\ UNCHANGED <<FrontBlock, dequeued>>
      /\ cpc \in {"idle", "tailBlock", "item", "return", "empty"}
      /\ cpc' \in {"idle", "tailBlock", "tail", "item", "take", "return"}
  BY DEF BeginDequeue, LoadTailBlock, HaveItem, Return, Consume
<1>2. made' = made
  BY <1>1 DEF made
<1>3. RingInv' /\ ItemsInv' /\ ProducerInv' /\ Ring' = Ring /\ BlockSize' = BlockSize
  BY <1>1, <1>2, ConsumerQuiet
<1>4. BlocksInv'
  BY <1>1, <1>3, BlocksSame DEF Core
<1>5. enqueued \in Nat /\ enqueued' = enqueued /\ TailBlock' = TailBlock
  BY <1>1 DEF Core, ItemsInv, producer
<1>6. Length(FrontBlock)' = Length(FrontBlock)
  <2>1. (InTransit(FrontBlock)' <=> InTransit(FrontBlock)) /\ Used(FrontBlock)' = Used(FrontBlock)
    BY <1>1 DEF InTransit, Used, Ahead, producer
  <2>2. QED
    BY <1>1, <2>1 DEF Length, InUse, Exposed, Taken
<1>7. ConsumerInv'
  <2>1. CASE \E o \in {"dequeue", "peek", "pop"} : BeginDequeue(o)
    BY <1>1, <1>5, <2>1 DEF BeginDequeue, Core, ConsumerInv, AtFront
  <2>2. CASE LoadTailBlock
    <3>1. cpc' \in {"tail", "item"} /\ deq' = deq /\ cpc = "tailBlock"
      BY <2>2 DEF LoadTailBlock, Consume
    <3>2. cpc' = "tail" => deq.Block # TailBlock /\ LooksAtTail
      BY <2>2 DEF LoadTailBlock, Consume
    <3>3. cpc' = "item" /\ deq.Tail = deq.Front => dequeued + Length(FrontBlock) = enqueued
      <4>1. cpc' = "item" /\ deq.Tail = deq.Front => FrontBlock = TailBlock
        BY <2>2 DEF LoadTailBlock, Consume, LooksAtTail, Core, ConsumerInv, AtFront
      <4>2. QED
        BY <4>1 DEF Core, ItemsInv, First
    <3>4. QED
      BY <1>1, <1>5, <1>6, <3>1, <3>2, <3>3 DEF Core, ConsumerInv, AtFront, LooksAtTail
  <2>3. CASE HaveItem
    BY <1>1, <1>5, <2>3 DEF HaveItem, Consume, Core, ConsumerInv, AtFront
  <2>4. CASE Return
    BY <1>1, <1>5, <2>4 DEF Return, NoDeq, Core, ConsumerInv, AtFront
  <2>5. QED
    BY <2>1, <2>2, <2>3, <2>4
<1>8. QED
  BY <1>3, <1>4, <1>7 DEF Core

LEMMA UsedIs ==
  ASSUME NEW b, IsBlock(block[b])
  PROVE  Used(b) \in 0..(block[b].Size - 1) /\ (Used(b) = 0 <=> block[b].Front = block[b].Tail)
<1> DEFINE i == block[b].Front
           j == block[b].Tail
<1>1. i \in 0..(block[b].Size - 1) /\ j \in 0..(block[b].Size - 1)
  BY DEF IsBlock
<1> HIDE DEF i, j
<1>2. /\ Ahead(b, i, j) \in 0..(block[b].Size - 1)
      /\ Ahead(b, i, j) = 0 <=> i = j
  BY <1>1, AheadIs
<1>3. QED
  BY <1>2 DEF Used, i, j

\* The consumer's block, and the one behind it when the producer is past it.
LEMMA FrontIs ==
  ASSUME Core
  PROVE  /\ FrontBlock \in made /\ FrontBlock \in Ring /\ IsBlock(block[FrontBlock])
         /\ ~InTransit(FrontBlock) /\ InUse(FrontBlock) = Used(FrontBlock)
         /\ CopiesOld(FrontBlock) /\ First(FrontBlock) = dequeued
<1>1. ~InTransit(FrontBlock)
  BY DEF Core, ProducerInv, InTransit
<1>2. FrontBlock \in made /\ FrontBlock \in Ring
  BY DEF Core, RingInv, Ring
<1>3. QED
  BY <1>1, <1>2 DEF Core, BlocksInv, InUse, First

LEMMA NextIs ==
  ASSUME Core, FrontBlock # TailBlock, NEW n, n = NextOf(FrontBlock)
  PROVE  /\ n \in made /\ n \in Ring /\ n # FrontBlock /\ IsBlock(block[n])
         /\ InUse(n) > 0 /\ ~InTransit(n) /\ InUse(n) = Used(n)
         /\ block[n].Front # block[n].Tail
         /\ First(n) = dequeued + Length(FrontBlock)
<1>1. Active(FrontBlock) /\ FrontBlock \in Ring
  BY DEF Active, Core, RingInv
<1>2. Active(n) /\ n # FrontBlock
  BY <1>1 DEF Core, RingInv
<1>3. InUse(n) > 0
  BY <1>2 DEF Active
<1>4. ~InTransit(n) /\ InUse(n) = Used(n)
  BY <1>3 DEF InUse
<1>5. n \in made /\ n \in Ring /\ IsBlock(block[n])
  BY <1>1 DEF Core, BlocksInv, Ring
<1>6. block[n].Front # block[n].Tail
  BY <1>3, <1>4, <1>5, UsedIs
<1>7. First(n) = dequeued + Length(FrontBlock)
  BY <1>1 DEF Core, ItemsInv, First
<1>8. QED
  BY <1>2, <1>3, <1>4, <1>5, <1>6, <1>7

\* The copy of a tail is set to the tail.
LEMMA SetLocalTail ==
  ASSUME Core, NEW b \in made,
         block' = [block EXCEPT ![b].LocalTail = block[b].Tail],
         UNCHANGED producer, UNCHANGED <<FrontBlock, dequeued>>,
         cpc \notin {"store", "takeLast"}, cpc' \notin {"store", "takeLast"}
  PROVE  /\ BlocksInv' /\ RingInv' /\ ItemsInv' /\ ProducerInv'
         /\ \A d \in made :
              /\ block'[d].Size = block[d].Size /\ block'[d].Front = block[d].Front
              /\ block'[d].Tail = block[d].Tail /\ block'[d].Next = block[d].Next
         /\ block'[b].LocalTail = block[b].Tail
<1>1. IsBlock(block[b]) /\ CopiesOld(b) /\ block[b].Next \in Ring
  BY DEF Core, BlocksInv, NextOf
<1> DEFINE r == [block[b] EXCEPT !.LocalTail = block[b].Tail]
<1>2. IsBlock(r) /\ r.Next = block[b].Next /\ r.Size = block[b].Size /\ r.Front = block[b].Front
      /\ r.Tail = block[b].Tail /\ r.LocalFront = block[b].LocalFront /\ r.Data = block[b].Data
      /\ r.LocalTail = block[b].Tail
  BY <1>1 DEF IsBlock, Fields
<1>3. block' = [block EXCEPT ![b] = r] /\ made' = made
  BY DEF made
<1> HIDE DEF r
<1>4. block'[b] = r /\ \A d \in made : d # b => block'[d] = block[d]
  BY <1>3 DEF made
<1>5. \A d \in made :
        /\ block'[d].Size = block[d].Size /\ block'[d].Front = block[d].Front
        /\ block'[d].Tail = block[d].Tail /\ block'[d].LocalFront = block[d].LocalFront
        /\ block'[d].Next = block[d].Next /\ block'[d].Data = block[d].Data
  BY <1>2, <1>4
<1>6. RingInv' /\ ItemsInv' /\ ProducerInv' /\ Ring' = Ring /\ BlockSize' = BlockSize
  BY <1>3, <1>5, ConsumerQuiet
<1>7. CopiesOld(b)'
  <2>1. Used(b)' = Used(b) /\ Ahead(b, block[b].LocalFront, block[b].Tail)'
                              = Ahead(b, block[b].LocalFront, block[b].Tail)
    BY <1>2, <1>4 DEF Used, Ahead
  <2>2. Ahead(b, block[b].Front, block[b].LocalTail)' = Used(b)
    BY <1>2, <1>4 DEF Used, Ahead
  <2>3. Used(b) \in Nat
    BY <1>1, UsedIs
  <2>4. QED
    BY <1>1, <2>1, <2>2, <2>3 DEF CopiesOld
<1>8. BlocksInv'
  BY <1>1, <1>2, <1>3, <1>6, <1>7, OneBlock DEF Core
<1>9. QED
  BY <1>2, <1>4, <1>5, <1>6, <1>8

LEMMA LoadTailKeeps ==
  ASSUME Core, LoadTail
  PROVE  Core'
<1> DEFINE f == FrontBlock
<1>1. /\ cpc = "tail" /\ deq.Block = f /\ deq.Front = block[f].Front /\ f # TailBlock
      /\ deq.op # "dequeue" => deq.Tail = deq.Front
  BY DEF LoadTail, Core, ConsumerInv, AtFront
<1>2. f \in made
  BY FrontIs
<1>3. /\ block' = [block EXCEPT ![f].LocalTail = block[f].Tail]
      /\ cpc' = IF deq.Front = block[f].Tail THEN "next" ELSE "item"
      /\ deq' = [deq EXCEPT !.Tail = IF deq.op = "dequeue" THEN block[f].Tail ELSE @]
      /\ UNCHANGED producer /\ UNCHANGED <<FrontBlock, dequeued>>
  BY <1>1 DEF LoadTail
<1>4. /\ BlocksInv' /\ RingInv' /\ ItemsInv' /\ ProducerInv'
      /\ block'[f].Size = block[f].Size /\ block'[f].Front = block[f].Front
      /\ block'[f].Tail = block[f].Tail /\ block'[f].Next = block[f].Next
      /\ block'[f].LocalTail = block[f].Tail
  BY <1>1, <1>2, <1>3, SetLocalTail
<1>5. /\ TailBlock' = TailBlock /\ enqueued' = enqueued /\ FrontBlock' = f
      /\ deq'.Tail = IF deq.op = "dequeue" THEN block[f].Tail ELSE deq.Tail
      /\ deq'.Front = deq.Front /\ deq'.op = deq.op /\ deq'.Block = deq.Block
      /\ deq'.begun = deq.begun /\ DOMAIN deq' = DOMAIN deq
  BY <1>3 DEF Core, ConsumerInv, producer
<1>6. ConsumerInv'
  <2> HIDE DEF f
  <2>1. CASE deq.Front = block[f].Tail
    BY <1>1, <1>3, <1>4, <1>5, <2>1 DEF Core, ConsumerInv, AtFront
  <2>2. CASE deq.Front # block[f].Tail
    BY <1>1, <1>3, <1>4, <1>5, <2>2 DEF Core, ConsumerInv, AtFront
  <2>3. QED
    BY <2>1, <2>2
<1>7. QED
  BY <1>4, <1>6 DEF Core

LEMMA ReloadTailKeeps ==
  ASSUME Core, ReloadTail
  PROVE  Core'
<1> DEFINE f == FrontBlock
<1>1. /\ cpc = "item" /\ deq.Block = f /\ deq.Front = block[f].Front /\ deq.Front = deq.Tail
      /\ block[f].Front # block[f].Tail \/ deq.begun <= dequeued + Length(f)
  BY DEF ReloadTail, Core, ConsumerInv, AtFront
<1>2. f \in made /\ IsBlock(block[f])
  BY FrontIs
<1>3. /\ block' = [block EXCEPT ![f].LocalTail = block[f].Tail]
      /\ cpc' \in {"empty", "return", "take"}
      /\ cpc' = "empty" => deq.Front = block[f].Tail
      /\ cpc' # "empty" => deq.Front # block[f].Tail
      /\ cpc' = "take" => deq.op # "peek"
      /\ cpc' = "return" => deq.op = "peek"
      /\ UNCHANGED producer /\ UNCHANGED <<FrontBlock, deq, dequeued>>
  BY <1>1 DEF ReloadTail, Consume
<1>4. /\ BlocksInv' /\ RingInv' /\ ItemsInv' /\ ProducerInv'
      /\ block'[f].Size = block[f].Size /\ block'[f].Front = block[f].Front
      /\ block'[f].Tail = block[f].Tail /\ block'[f].Next = block[f].Next
      /\ block'[f].LocalTail = block[f].Tail
  BY <1>1, <1>2, <1>3, SetLocalTail
<1>5. cpc' = "empty" => deq.begun <= dequeued
  <2>1. cpc' = "empty" => Used(f) = 0
    BY <1>1, <1>2, <1>3, UsedIs
  <2>2. cpc' = "empty" => Length(f) = 0
    BY <1>1, <2>1, FrontIs DEF Length, Exposed, Taken
  <2>3. dequeued \in Nat
    BY DEF Core, ItemsInv
  <2>4. QED
    BY <1>1, <1>3, <2>2, <2>3
<1>6. TailBlock' = TailBlock /\ enqueued' = enqueued /\ FrontBlock' = f
  BY <1>3 DEF producer
<1>7. ConsumerInv'
  <2> HIDE DEF f
  <2>1. QED
    BY <1>1, <1>3, <1>4, <1>5, <1>6 DEF Core, ConsumerInv, AtFront
<1>8. QED
  BY <1>4, <1>7 DEF Core

LEMMA LoadNextKeeps ==
  ASSUME Core, LoadNext
  PROVE  Core'
<1> DEFINE f == FrontBlock
           n == block[f].Next
<1>1. /\ cpc = "next" /\ deq.Block = f /\ deq.Front = block[f].Front /\ f # TailBlock
      /\ block[f].Front = block[f].Tail
  BY DEF LoadNext, Core, ConsumerInv, AtFront
<1>2. n \in made /\ n # f /\ IsBlock(block[n]) /\ block[n].Front # block[n].Tail
  BY <1>1, NextIs DEF NextOf
<1>3. /\ block' = [block EXCEPT ![n].LocalTail = block[n].Tail]
      /\ cpc' = IF deq.op = "peek" THEN "return" ELSE "advance"
      /\ deq' = [deq EXCEPT !.Block = n, !.Front = block[n].Front, !.Tail = block[n].Tail]
      /\ UNCHANGED producer /\ UNCHANGED <<FrontBlock, dequeued>>
  BY <1>1 DEF LoadNext
<1> HIDE DEF n
<1>4. /\ BlocksInv' /\ RingInv' /\ ItemsInv' /\ ProducerInv'
      /\ \A d \in made :
              /\ block'[d].Size = block[d].Size /\ block'[d].Front = block[d].Front
              /\ block'[d].Tail = block[d].Tail /\ block'[d].Next = block[d].Next
      /\ block'[n].LocalTail = block[n].Tail
  BY <1>1, <1>2, <1>3, SetLocalTail
<1>5. /\ TailBlock' = TailBlock /\ enqueued' = enqueued /\ FrontBlock' = f
      /\ deq'.Tail = block[n].Tail /\ deq'.Front = block[n].Front /\ deq'.Block = n
      /\ deq'.op = deq.op /\ deq'.begun = deq.begun /\ DOMAIN deq' = DOMAIN deq
  BY <1>3 DEF Core, ConsumerInv, producer
<1>6. f \in made /\ n = block'[f].Next
  BY <1>4, FrontIs DEF n
<1>7. ConsumerInv'
  <2> HIDE DEF f
  <2>1. /\ DOMAIN deq' = {"op", "Block", "Front", "Tail", "begun", "item"}
        /\ deq'.begun \in Nat /\ deq'.begun <= enqueued'
    BY <1>5 DEF Core, ConsumerInv
  <2>2. \/ cpc' = "return" /\ deq'.op = "peek"
        \/ cpc' = "advance" /\ deq'.op # "peek"
    BY <1>3, <1>5
  <2>3. /\ FrontBlock' # TailBlock' /\ block'[FrontBlock'].Front = block'[FrontBlock'].Tail
        /\ deq'.Block = NextOf(FrontBlock)' /\ deq'.Front = block'[deq'.Block].Front
        /\ deq'.Tail = block'[deq'.Block].LocalTail /\ deq'.Tail # deq'.Front
    BY <1>1, <1>2, <1>4, <1>5, <1>6 DEF NextOf
  <2>4. QED
    BY <2>1, <2>2, <2>3 DEF ConsumerInv, AtFront
<1>8. QED
  BY <1>4, <1>7 DEF Core

-----------------------------------------------------------------------------
(* Steps of the consumer that take an item or move on. *)

LEMMA StoreFrontBlockKeeps ==
  ASSUME Core, StoreFrontBlock
  PROVE  Core'
<1>0. PICK f, n : f = FrontBlock /\ n = NextOf(f)
  OBVIOUS
<1>1. /\ cpc = "advance" /\ deq.Block = n /\ f # TailBlock /\ deq.op # "peek"
      /\ block[f].Front = block[f].Tail /\ block[n].LocalTail # block[n].Front
      /\ deq.Front = block[n].Front
  BY <1>0 DEF StoreFrontBlock, Core, ConsumerInv
<1>2. /\ FrontBlock' = n /\ cpc' = "takeNext" /\ block' = block /\ deq' = deq
      /\ dequeued' = dequeued /\ UNCHANGED producer
  BY <1>1 DEF StoreFrontBlock
<1>3. ppc' = ppc /\ enq' = enq /\ TailBlock' = TailBlock /\ enqueued' = enqueued
      /\ BlockSize' = BlockSize /\ made' = made /\ Ring' = Ring
  BY <1>2 DEF producer, made, Ring
<1>4. f \in made /\ f \in Ring /\ Length(f) = 0
  <2>1. Used(f) = 0
    BY <1>0, <1>1, FrontIs, UsedIs
  <2>2. QED
    BY <1>0, <1>1, <2>1, FrontIs DEF Length, Exposed, Taken
<1>5. enqueued \in Nat /\ dequeued \in Nat
  BY DEF Core, ItemsInv
<1>6. n \in made /\ n \in Ring /\ n # f /\ InUse(n) > 0 /\ First(n) = dequeued
  BY <1>0, <1>1, <1>4, <1>5, NextIs
<1>7. ASSUME NEW b \in Ring
      PROVE  /\ InUse(b)' = InUse(b) /\ Length(b)' = Length(b) /\ Start(b)' = Start(b)
             /\ Written(b)' <=> Written(b)
             /\ Length(b) = InUse(b)
             /\ NextOf(b) \in Ring /\ NextOf(b)' = NextOf(b)
             /\ b # f => First(b)' = First(b) /\ (Active(b)' <=> Active(b))
  <2>1. InUse(b)' = InUse(b) /\ (Written(b)' <=> Written(b))
    BY <1>2, <1>3 DEF InUse, InTransit, Used, Ahead, Written
  <2>2. ~Exposed(b) /\ ~Taken(b) /\ ~Exposed(b)' /\ ~Taken(b)'
    BY <1>1, <1>2 DEF Exposed, Taken
  <2>3. Length(b)' = Length(b) /\ Start(b)' = Start(b) /\ Length(b) = InUse(b)
    BY <1>2, <2>1, <2>2 DEF Length, Start
  <2>4. b # f => First(b)' = First(b) /\ (Active(b)' <=> Active(b))
    BY <1>0, <1>2, <1>6, <2>1 DEF First, Active
  <2>5. QED
    BY <1>2, <2>1, <2>3, <2>4 DEF Core, BlocksInv, Ring, NextOf
<1>8. ~Active(f)' /\ Active(f) /\ Active(n) /\ Active(n)'
  BY <1>0, <1>2, <1>4, <1>6, <1>7 DEF Active
<1>9. \A p, q \in Ring : NextOf(p) = NextOf(q) => p = q
  BY DEF Core, RingInv
<1>10. \A p \in Ring : (Active(p) /\ p # TailBlock)
                           <=> (Active(NextOf(p)) /\ NextOf(p) # f)
  BY <1>0 DEF Core, RingInv
<1>11. TailBlock \in Ring /\ Active(TailBlock)
  BY DEF Core, RingInv
<1>12. RingInv'
  <2>1. ASSUME NEW p \in Ring
        PROVE  ((Active(p) /\ p # TailBlock)
                 <=> (Active(NextOf(p)) /\ NextOf(p) # FrontBlock))'
    <3>1. PICK q : q = NextOf(p)
      OBVIOUS
    <3>2. q \in Ring /\ q = NextOf(p)'
      BY <1>7, <3>1
    <3>3. (Active(p)' /\ p # TailBlock) <=> (Active(q)' /\ q # n)
      <4>1. CASE p = f
        BY <1>0, <1>6, <1>8, <3>1, <4>1
      <4>2. CASE p # f /\ q = f
        BY <1>7, <1>8, <1>10, <3>1, <4>2
      <4>3. CASE p # f /\ q # f
        <5>1. q # n
          BY <1>0, <1>4, <1>9, <3>1, <4>3
        <5>2. QED
          BY <1>7, <1>10, <3>1, <3>2, <4>3, <5>1
      <4>4. QED
        BY <4>1, <4>2, <4>3
    <3>4. QED
      BY <1>2, <1>3, <3>2, <3>3
  <2>2. \A p, q \in Ring : NextOf(p)' = NextOf(q)' => p = q
    BY <1>7, <1>9
  <2>3. Active(TailBlock)'
    <3>1. PICK t : t = TailBlock
      OBVIOUS
    <3>2. Active(t)'
      BY <1>1, <1>7, <1>11, <3>1
    <3>3. QED
      BY <1>3, <3>1, <3>2
  <2>4. QED
    BY <1>2, <1>3, <1>6, <1>11, <2>1, <2>2, <2>3 DEF RingInv
<1>13. ItemsInv'
  <2>1. ASSUME NEW b \in Ring, NEW i \in DOMAIN (block[b].Data)'
        PROVE  (block[b].Data[i])' = Content(b, i)'
    <3>1. block[b].Data[i] = Content(b, i)
      BY <1>2 DEF Core, ItemsInv
    <3>2. Place(b, i)' = Place(b, i)
      BY <1>2, <1>7 DEF Place, Ahead
    <3>3. CASE b # f
      BY <1>2, <1>3, <1>7, <3>1, <3>2, <3>3 DEF Content
    <3>4. CASE b = f
      <4>1. ~(Place(b, i) < 0)
        <5>1. IsBlock(block[f]) /\ i \in 0..(block[f].Size - 1)
          BY <1>2, <1>4, <3>4 DEF Core, BlocksInv, IsBlock
        <5>2. Start(f) = block[f].Front
          BY <1>1 DEF Start, Exposed, Taken
        <5>3. QED
          BY <3>4, <5>1, <5>2 DEF Place, Ahead, IsBlock
      <4>2. QED
        BY <1>2, <1>3, <1>4, <1>7, <3>1, <3>2, <3>4, <4>1 DEF Content
    <3>5. QED
      BY <3>3, <3>4
  <2>2. ASSUME NEW b \in Ring
        PROVE  /\ Length(b)' > 0 => First(b)' \in Nat
               /\ Active(b)' => First(b)' + Length(b)' <= enqueued'
    BY <1>3, <1>4, <1>7, <1>8 DEF Core, ItemsInv
  <2>3. ASSUME NEW b \in Ring, Active(b)', b # TailBlock
        PROVE  First(NextOf(b))' = First(b)' + Length(b)'
    <3>1. PICK q : q = NextOf(b)
      OBVIOUS
    <3>2. q \in Ring /\ q = NextOf(b)' /\ b # f
      BY <1>7, <1>8, <2>3, <3>1
    <3>3. Active(b) /\ q # f
      BY <1>7, <1>10, <2>3, <3>1, <3>2
    <3>4. First(q)' = First(b)' + Length(b)'
      BY <1>7, <2>3, <3>1, <3>2, <3>3 DEF Core, ItemsInv
    <3>5. QED
      BY <3>2, <3>4
  <2>4. (First(TailBlock) + Length(TailBlock) = enqueued)'
    <3>1. PICK t : t = TailBlock
      OBVIOUS
    <3>2. First(t)' + Length(t)' = enqueued'
      BY <1>1, <1>3, <1>7, <1>11, <3>1 DEF Core, ItemsInv
    <3>3. QED
      BY <1>3, <3>1, <3>2
  <2>5. QED
    BY <1>2, <1>3, <1>5, <2>1, <2>2, <2>3, <2>4 DEF ItemsInv
<1>14. BlocksInv'
  BY <1>2, <1>3, BlocksSame DEF Core
<1>15. ProducerInv'
  <2>1. NextOf(TailBlock) # FrontBlock'
    BY <1>0, <1>1, <1>2, <1>4, <1>9, <1>11
  <2>2. QED
    BY <1>2, <1>3, <2>1, ProducerKept
<1>16. ConsumerInv'
  BY <1>0, <1>1, <1>2, <1>3 DEF Core, ConsumerInv, AtFront
<1>17. QED
  BY <1>12, <1>13, <1>14, <1>15, <1>16 DEF Core

\* One slot further, every slot but the one left behind is one step nearer.
LEMMA AheadAfter ==
  ASSUME NEW b, IsBlock(block[b]), NEW i \in 0..(block[b].Size - 1),
         NEW j \in 0..(block[b].Size - 1)
  PROVE  Ahead(b, After(b, i), j) = IF i = j THEN block[b].Size - 1 ELSE Ahead(b, i, j) - 1
BY SMTT(60) DEF Ahead, After, IsBlock

LEMMA AfterAhead ==
  ASSUME NEW b, IsBlock(block[b]), NEW i \in 0..(block[b].Size - 1),
         NEW j \in 0..(block[b].Size - 1), After(b, j) # i
  PROVE  /\ Ahead(b, i, After(b, j)) = Ahead(b, i, j) + 1
         /\ Ahead(b, i, j) < block[b].Size - 1
BY SMTT(60) DEF Ahead, After, IsBlock

\* The consumer's block has an item where the consumer takes one.
LEMMA FrontHasItem ==
  ASSUME Core, cpc \in {"take", "takeNext", "takeLast"}, NEW f, f = FrontBlock
  PROVE  /\ deq.Block = f /\ deq.Front = Start(f) /\ deq.Front \in 0..(block[f].Size - 1)
         /\ Length(f) \in 1..block[f].Size
         /\ Written(f) => Length(f) < block[f].Size
         /\ block[f].Data[deq.Front] = dequeued
         /\ After(f, deq.Front) = IF cpc = "takeLast" THEN block[f].Front
                                  ELSE After(f, block[f].Front)
         /\ InUse(f) \in Nat /\ Length(f) = IF cpc = "takeLast" THEN InUse(f) + 1 ELSE InUse(f)
<1>1. /\ f \in made /\ f \in Ring /\ IsBlock(block[f]) /\ InUse(f) = Used(f)
      /\ CopiesOld(f) /\ First(f) = dequeued /\ ~InTransit(f)
  BY FrontIs
<1>2. Used(f) \in 0..(block[f].Size - 1)
  BY <1>1, UsedIs
<1>3. /\ deq.Block = f /\ deq.Front = Start(f) /\ deq.Front \in 0..(block[f].Size - 1)
      /\ After(f, deq.Front) = IF cpc = "takeLast" THEN block[f].Front
                               ELSE After(f, block[f].Front)
  BY <1>1 DEF Core, ConsumerInv, AtFront, Start, Exposed, Taken, IsBlock
<1>4. Length(f) = IF cpc = "takeLast" THEN InUse(f) + 1 ELSE InUse(f)
  BY DEF Length, Exposed, Taken
<1>5. cpc # "takeLast" => Used(f) >= 1
  <2>1. cpc # "takeLast" => block[f].LocalTail # block[f].Front
    BY DEF Core, ConsumerInv
  <2>2. /\ Ahead(f, block[f].Front, block[f].LocalTail) \in Nat
        /\ Ahead(f, block[f].Front, block[f].LocalTail) = 0
             => block[f].Front = block[f].LocalTail
    <3>1. /\ IsBlock(block[f]) /\ block[f].Front \in 0..(block[f].Size - 1)
          /\ block[f].LocalTail \in 0..(block[f].Size - 1) /\ block[f].Size \in Nat
      BY <1>1 DEF IsBlock
    <3>2. /\ Ahead(f, block[f].Front, block[f].LocalTail) \in 0..(block[f].Size - 1)
          /\ Ahead(f, block[f].Front, block[f].LocalTail) = 0
               <=> block[f].Front = block[f].LocalTail
      BY <3>1, AheadIs
    <3>3. QED
      BY <3>1, <3>2
  <2>3. QED
    BY <1>1, <1>2, <2>1, <2>2 DEF CopiesOld
<1>6. block[f].Size \in Nat /\ block[f].Size >= 2
  BY <1>1 DEF IsBlock
<1>7. Length(f) \in 1..block[f].Size
  BY <1>1, <1>2, <1>4, <1>5, <1>6
<1>8. Written(f) => Length(f) < block[f].Size
  <2>1. Written(f) => /\ f = TailBlock
                     /\ After(f, block[f].Tail) # block[f].LocalFront
    BY DEF Written, Core, ProducerInv, Filling, AtTail
  <2>2. Written(f) => Ahead(f, block[f].LocalFront, block[f].Tail) < block[f].Size - 1
    BY <1>1, <2>1, AfterAhead DEF IsBlock
  <2>3. Written(f) => Used(f) < block[f].Size - 1
    <3>1. Ahead(f, block[f].LocalFront, block[f].Tail) \in Int
      BY <1>1 DEF Ahead, IsBlock
    <3>2. QED
      BY <1>1, <1>2, <1>6, <2>2, <3>1 DEF CopiesOld
  <2>4. QED
    BY <1>1, <1>2, <1>4, <1>6, <2>3
<1>9. block[f].Data[deq.Front] = dequeued
  <2>1. Place(f, deq.Front) = 0
    BY <1>1, <1>3 DEF Place, Ahead, IsBlock
  <2>2. block[f].Data[deq.Front] = Content(f, deq.Front)
    BY <1>1, <1>3 DEF Core, ItemsInv, IsBlock
  <2>3. dequeued \in Nat
    BY DEF Core, ItemsInv
  <2>4. QED
    BY <1>1, <1>7, <2>1, <2>2, <2>3 DEF Content
<1>10. QED
  BY <1>1, <1>2, <1>3, <1>4, <1>7, <1>8, <1>9

LEMMA MoveOutKeeps ==
  ASSUME Core, MoveOut
  PROVE  Core'
<1>0. PICK f, i : f = FrontBlock /\ i = deq.Front
  OBVIOUS
<1>1. cpc \in {"take", "takeNext", "takeLast"} /\ deq.op # "peek"
  BY DEF MoveOut, Core, ConsumerInv
<1>2. /\ deq.Block = f /\ i = Start(f) /\ i \in 0..(block[f].Size - 1)
      /\ Length(f) \in 1..block[f].Size
      /\ Written(f) => Length(f) < block[f].Size
      /\ block[f].Data[i] = dequeued
      /\ After(f, i) = IF cpc = "takeLast" THEN block[f].Front
                       ELSE After(f, block[f].Front)
      /\ InUse(f) \in Nat /\ Length(f) = IF cpc = "takeLast" THEN InUse(f) + 1 ELSE InUse(f)
  BY <1>0, <1>1, FrontHasItem
<1>3. /\ f \in made /\ f \in Ring /\ IsBlock(block[f]) /\ First(f) = dequeued
      /\ CopiesOld(f) /\ block[f].Next \in Ring
  BY <1>0, FrontIs DEF Core, BlocksInv, NextOf
<1>4. dequeued \in Nat /\ enqueued \in Nat
  BY DEF Core, ItemsInv
<1> DEFINE r == [block[f] EXCEPT !.Data[i] = Raw]
<1>5. /\ block' = [block EXCEPT ![f] = r]
      /\ deq' = [deq EXCEPT !.item = dequeued] /\ dequeued' = dequeued + 1
      /\ cpc' = IF cpc = "takeLast" THEN "return" ELSE "store"
      /\ FrontBlock' = f /\ UNCHANGED producer
  <2>1. block[f].Data[i] \notin {Raw, Bad}
    BY <1>2, <1>4, ReaderWriterQueueAssumption
  <2>2. block' = [block EXCEPT ![f].Data[i] = Raw]
    BY <1>0, <1>2, <2>1 DEF MoveOut
  <2>3. QED
    BY <1>0, <1>2, <2>2 DEF MoveOut
<1>6. /\ r.Front = block[f].Front /\ r.Tail = block[f].Tail /\ r.Next = block[f].Next
      /\ r.LocalFront = block[f].LocalFront /\ r.LocalTail = block[f].LocalTail
      /\ r.Size = block[f].Size /\ DOMAIN r.Data = DOMAIN block[f].Data
      /\ \A j \in DOMAIN block[f].Data :
           r.Data[j] = IF j = i THEN Raw ELSE block[f].Data[j]
      /\ IsBlock(r)
  BY <1>2, <1>3 DEF IsBlock, Fields
<1> HIDE DEF r
<1>7. block'[f] = r /\ made' = made /\ \A b \in made : b # f => block'[b] = block[b]
  BY <1>3, <1>5 DEF made
<1>8. /\ ppc' = ppc /\ enq' = enq /\ TailBlock' = TailBlock /\ enqueued' = enqueued
      /\ BlockSize' = BlockSize
  BY <1>5 DEF producer
<1>9. Ring' = Ring /\ Ring \subseteq made
  BY <1>7, <1>8 DEF Ring
<1>10. BlocksInv'
  <2>1. CopiesOld(f)'
    BY <1>3, <1>6, <1>7 DEF CopiesOld, Used, Ahead
  <2>2. QED
    BY <1>3, <1>5, <1>6, <1>8, <1>9, <2>1, OneBlock DEF Core
<1>11. ProducerInv'
  <2>1. ppc = "nextFront" \/ ppc \in Filling => FrontBlock' # NextOf(TailBlock)
    BY <1>0, <1>5 DEF Core, ProducerInv
  <2>2. QED
    BY <1>0, <1>5, <1>6, <1>7, <2>1, ProducerKept
<1>12. ASSUME NEW b \in Ring
       PROVE  /\ block'[b].Next = block[b].Next /\ block'[b].Size = block[b].Size
              /\ InUse(b)' = InUse(b) /\ (Written(b)' <=> Written(b))
              /\ b # f => /\ Length(b)' = Length(b) /\ Start(b)' = Start(b)
                          /\ First(b)' = First(b) /\ block'[b] = block[b]
              /\ Active(b)' <=> Active(b)
              /\ NextOf(b) \in Ring /\ NextOf(b)' = NextOf(b)
  <2>1. /\ block'[b].Next = block[b].Next /\ block'[b].Size = block[b].Size
        /\ block'[b].Front = block[b].Front /\ block'[b].Tail = block[b].Tail
        /\ b # f => block'[b] = block[b]
    BY <1>6, <1>7, <1>9
  <2>2. InUse(b)' = InUse(b) /\ (Written(b)' <=> Written(b))
    BY <1>8, <2>1 DEF InUse, InTransit, Used, Ahead, Written
  <2>3. b # f => Length(b)' = Length(b) /\ Start(b)' = Start(b)
    BY <1>0, <1>5, <2>1, <2>2 DEF Length, Start, Exposed, Taken
  <2>4. /\ b # f => First(b)' = First(b)
        /\ Active(b)' <=> Active(b)
    BY <1>0, <1>5, <2>1, <2>2 DEF First, Active
  <2>5. NextOf(b) \in Ring /\ NextOf(b)' = NextOf(b)
    BY <1>9, <2>1 DEF Core, BlocksInv, NextOf
  <2>6. QED
    BY <2>1, <2>2, <2>3, <2>4, <2>5
<1>13. /\ Length(f)' = Length(f) - 1 /\ Start(f)' = After(f, i) /\ First(f)' = First(f) + 1
       /\ First(f)' = dequeued + 1
  <2>1. /\ Exposed(f) <=> cpc = "takeLast"
        /\ ~Taken(f) /\ ~Exposed(f)' /\ (Taken(f)' <=> cpc # "takeLast")
    BY <1>0, <1>1, <1>5 DEF Exposed, Taken
  <2>2. Length(f)' = Length(f) - 1
    BY <1>2, <1>3, <1>12, <2>1 DEF Length
  <2>3. Start(f)' = After(f, i)
    BY <1>2, <1>6, <1>7, <2>1 DEF Start, After
  <2>4. First(f)' = dequeued + 1
    BY <1>5 DEF First
  <2>5. QED
    BY <1>3, <2>2, <2>3, <2>4
<1>14. RingInv'
  <2>1. ASSUME NEW p \in Ring
        PROVE  ((Active(p) /\ p # TailBlock)
                 <=> (Active(NextOf(p)) /\ NextOf(p) # FrontBlock))'
    <3>1. PICK q : q = NextOf(p)
      OBVIOUS
    <3>2. q \in Ring /\ q = NextOf(p)'
      BY <1>12, <3>1
    <3>3. (Active(p)' /\ p # TailBlock') <=> (Active(q)' /\ q # FrontBlock')
      BY <1>0, <1>5, <1>8, <1>12, <3>1, <3>2 DEF Core, RingInv
    <3>4. QED
      BY <3>2, <3>3
  <2>2. \A p, q \in Ring : NextOf(p)' = NextOf(q)' => p = q
    BY <1>12 DEF Core, RingInv
  <2>3. FrontBlock' \in Ring' /\ TailBlock' \in Ring'
    BY <1>0, <1>5, <1>8, <1>9 DEF Core, RingInv
  <2>4. Active(TailBlock)'
    <3>1. PICK t : t = TailBlock
      OBVIOUS
    <3>2. Active(t)'
      BY <1>12, <3>1 DEF Core, RingInv
    <3>3. QED
      BY <1>8, <3>1, <3>2
  <2>5. QED
    BY <1>9, <2>1, <2>2, <2>3, <2>4 DEF RingInv
<1>15. ItemsInv'
  <2>1. ASSUME NEW b \in Ring, NEW j \in DOMAIN (block[b].Data)'
        PROVE  (block[b].Data[j])' = Content(b, j)'
    <3>1. CASE b # f
      <4>1. Place(b, j)' = Place(b, j)
        BY <1>12, <3>1 DEF Place, Ahead
      <4>2. j \in DOMAIN block[b].Data
        BY <1>12, <3>1
      <4>3. block[b].Data[j] = Content(b, j)
        BY <4>2 DEF Core, ItemsInv
      <4>4. QED
        BY <1>8, <1>12, <3>1, <4>1, <4>3 DEF Content
    <3>2. CASE b = f
      <4>1. j \in 0..(block[f].Size - 1) /\ j \in DOMAIN block[f].Data
        BY <1>3, <1>6, <1>7, <3>2 DEF IsBlock
      <4>2. Place(f, j)' = Ahead(f, After(f, i), j)
        BY <1>6, <1>7, <1>13 DEF Place, Ahead
      <4>3. Place(f, j)' = IF i = j THEN block[f].Size - 1 ELSE Place(f, j) - 1
        BY <1>2, <1>3, <4>1, <4>2, AheadAfter DEF Place
      <4>4. Place(f, j) \in 0..(block[f].Size - 1)
        BY <1>2, <1>3, <4>1, AheadIs DEF Place
      <4>5. block[f].Data[j] = Content(f, j)
        BY <1>3, <4>1 DEF Core, ItemsInv
      <4>6. block[f].Size \in Nat
        BY <1>3 DEF IsBlock
      <4>7. CASE i = j
        <5>1. block'[f].Data[j] = Raw
          BY <1>6, <1>7, <4>1, <4>7
        <5>2. ~(Place(f, j)' < Length(f)')
          BY <1>2, <1>13, <4>3, <4>6, <4>7
        <5>3. ~(Written(f)' /\ Place(f, j)' = Length(f)')
          BY <1>2, <1>3, <1>12, <1>13, <4>3, <4>6, <4>7
        <5>4. QED
          BY <3>2, <5>1, <5>2, <5>3 DEF Content
      <4>8. CASE i # j
        <5>1. block'[f].Data[j] = block[f].Data[j]
          BY <1>6, <1>7, <4>1, <4>8
        <5>2. /\ Place(f, j)' = Place(f, j) - 1
              /\ Place(f, j)' < Length(f)' <=> Place(f, j) < Length(f)
              /\ Place(f, j)' = Length(f)' <=> Place(f, j) = Length(f)
              /\ First(f)' + Place(f, j)' = First(f) + Place(f, j)
          BY <1>2, <1>3, <1>4, <1>13, <4>3, <4>4, <4>8
        <5>3. QED
          BY <1>3, <1>8, <1>12, <3>2, <4>5, <5>1, <5>2 DEF Content
      <4>9. QED
        BY <4>7, <4>8
    <3>3. QED
      BY <3>1, <3>2
  <2>2. ASSUME NEW b \in Ring
        PROVE  /\ Length(b)' > 0 => First(b)' \in Nat
               /\ Active(b)' => First(b)' + Length(b)' <= enqueued'
    <3>1. CASE b = f
      <4>1. First(f)' + Length(f)' = First(f) + Length(f)
        BY <1>2, <1>3, <1>4, <1>13
      <4>2. Active(f)
        BY <1>0 DEF Active
      <4>3. QED
        BY <1>3, <1>4, <1>8, <1>13, <3>1, <4>1, <4>2 DEF Core, ItemsInv
    <3>2. CASE b # f
      BY <1>8, <1>12, <3>2 DEF Core, ItemsInv
    <3>3. QED
      BY <3>1, <3>2
  <2>3. ASSUME NEW b \in Ring, Active(b)', b # TailBlock
        PROVE  First(NextOf(b))' = First(b)' + Length(b)'
    <3>1. PICK q : q = NextOf(b)
      OBVIOUS
    <3>2. q \in Ring /\ q = NextOf(b)' /\ Active(b)
      BY <1>12, <2>3, <3>1
    <3>3. q # f /\ First(q) = First(b) + Length(b)
      BY <1>0, <2>3, <3>1, <3>2 DEF Core, RingInv, ItemsInv
    <3>4. First(b)' + Length(b)' = First(b) + Length(b)
      BY <1>2, <1>3, <1>4, <1>12, <1>13
    <3>5. QED
      BY <1>12, <3>2, <3>3, <3>4
  <2>4. (First(TailBlock) + Length(TailBlock) = enqueued)'
    <3>1. PICK t : t = TailBlock
      OBVIOUS
    <3>2. t \in Ring /\ First(t) + Length(t) = enqueued
      BY <3>1 DEF Core, ItemsInv, RingInv
    <3>3. First(t)' + Length(t)' = First(t) + Length(t)
      BY <1>2, <1>3, <1>4, <1>12, <1>13, <3>2
    <3>4. First(t)' + Length(t)' = enqueued'
      BY <1>8, <3>2, <3>3
    <3>5. QED
      BY <1>8, <3>1, <3>4
  <2>5. QED
    BY <1>4, <1>5, <1>8, <1>9, <2>1, <2>2, <2>3, <2>4 DEF ItemsInv
<1>16. ConsumerInv'
  <2>1. /\ DOMAIN deq' = DOMAIN deq /\ deq'.op = deq.op /\ deq'.Block = deq.Block
        /\ deq'.Front = deq.Front /\ deq'.begun = deq.begun /\ deq'.item = dequeued
    BY <1>5 DEF Core, ConsumerInv
  <2>2. /\ block'[f].Front = block[f].Front /\ block'[f].LocalTail = block[f].LocalTail
    BY <1>6, <1>7
  <2>3. deq'.item = dequeued' - 1
    BY <1>4, <1>5, <2>1
  <2>4. CASE cpc = "takeLast"
    BY <1>0, <1>1, <1>5, <1>8, <2>1, <2>2, <2>3, <2>4 DEF Core, ConsumerInv, AtFront
  <2>5. CASE cpc # "takeLast"
    BY <1>0, <1>1, <1>5, <1>8, <2>1, <2>2, <2>3, <2>5 DEF Core, ConsumerInv, AtFront
  <2>6. QED
    BY <2>4, <2>5
<1>17. QED
  BY <1>10, <1>11, <1>14, <1>15, <1>16 DEF Core

LEMMA StoreFrontKeeps ==
  ASSUME Core, StoreFront
  PROVE  Core'
<1>0. PICK f : f = FrontBlock
  OBVIOUS
<1>1. /\ cpc \in {"takeNext", "store"} /\ deq.op # "peek" /\ deq.Block = f
      /\ deq.Front = block[f].Front /\ block[f].LocalTail # block[f].Front
      /\ cpc = "store" => deq.item = dequeued - 1
  BY <1>0 DEF StoreFront, Core, ConsumerInv, AtFront
<1>2. /\ f \in made /\ f \in Ring /\ IsBlock(block[f]) /\ InUse(f) = Used(f)
      /\ CopiesOld(f) /\ ~InTransit(f) /\ block[f].Next \in Ring
  BY <1>0, FrontIs DEF Core, BlocksInv, NextOf
<1>3. block[f].Front \in 0..(block[f].Size - 1) /\ block[f].Tail \in 0..(block[f].Size - 1)
      /\ block[f].LocalTail \in 0..(block[f].Size - 1)
      /\ block[f].Size \in Nat
  BY <1>2 DEF IsBlock
<1> DEFINE F == After(f, block[f].Front)
           r == [block[f] EXCEPT !.Front = F]
<1>4. F \in 0..(block[f].Size - 1) /\ Following(f, deq.Front) = F
  BY <1>1, <1>2, <1>3, AfterIs
<1>5. /\ block' = [block EXCEPT ![f] = r] /\ deq' = deq /\ dequeued' = dequeued
      /\ cpc' = IF cpc = "store" THEN "return" ELSE "takeLast"
      /\ FrontBlock' = f /\ UNCHANGED producer
  BY <1>0, <1>1, <1>4 DEF StoreFront, Consume
<1>6. PICK G : G = F
  OBVIOUS
<1>7. /\ r.Front = G /\ r.Tail = block[f].Tail /\ r.Next = block[f].Next
      /\ r.LocalFront = block[f].LocalFront /\ r.LocalTail = block[f].LocalTail
      /\ r.Size = block[f].Size /\ r.Data = block[f].Data
      /\ IsBlock(r)
  BY <1>2, <1>4, <1>6 DEF IsBlock, Fields
<1> HIDE DEF r
<1>8. block'[f] = r /\ made' = made /\ \A b \in made : b # f => block'[b] = block[b]
  BY <1>2, <1>5 DEF made
<1>9. /\ ppc' = ppc /\ enq' = enq /\ TailBlock' = TailBlock /\ enqueued' = enqueued
      /\ BlockSize' = BlockSize /\ Ring' = Ring /\ Ring \subseteq made
  BY <1>5, <1>8 DEF producer, Ring
<1>10. block[f].Front # block[f].Tail
  <2>1. /\ Ahead(f, block[f].Front, block[f].LocalTail) \in Nat
        /\ Ahead(f, block[f].Front, block[f].LocalTail) # 0
    <3> DEFINE i == block[f].Front
               j == block[f].LocalTail
    <3>1. i \in 0..(block[f].Size - 1) /\ j \in 0..(block[f].Size - 1) /\ j # i
      BY <1>1, <1>3
    <3> HIDE DEF i, j
    <3>2. Ahead(f, i, j) \in 0..(block[f].Size - 1) /\ Ahead(f, i, j) # 0
      BY <1>2, <3>1, AheadIs
    <3>3. QED
      BY <1>3, <3>2 DEF i, j
  <2>2. Used(f) \in Nat /\ (Used(f) = 0 <=> block[f].Front = block[f].Tail)
    BY <1>2, UsedIs
  <2>3. QED
    BY <1>2, <2>1, <2>2 DEF CopiesOld
<1>11. /\ Used(f)' = Used(f) - 1
       /\ Ahead(f, block[f].Front, block[f].LocalTail)'
             = Ahead(f, block[f].Front, block[f].LocalTail) - 1
  <2>1. /\ Used(f)' = Ahead(f, F, block[f].Tail)
        /\ Ahead(f, block[f].Front, block[f].LocalTail)' = Ahead(f, F, block[f].LocalTail)
    BY <1>6, <1>7, <1>8 DEF Used, Ahead
  <2>2. QED
    BY <1>1, <1>2, <1>3, <1>10, <2>1, AheadAfter DEF Used
<1>12. BlocksInv'
  <2>1. Ahead(f, block[f].LocalFront, block[f].Tail)' = Ahead(f, block[f].LocalFront, block[f].Tail)
    BY <1>7, <1>8 DEF Ahead
  <2>2. /\ Used(f) \in Int /\ Ahead(f, block[f].Front, block[f].LocalTail) \in Int
        /\ Ahead(f, block[f].LocalFront, block[f].Tail) \in Int
    <3>1. block[f].LocalFront \in 0..(block[f].Size - 1)
      BY <1>2 DEF IsBlock
    <3>2. QED
      BY <1>3, <3>1 DEF Used, Ahead
  <2>3. CopiesOld(f)'
    BY <1>2, <1>11, <2>1, <2>2 DEF CopiesOld
  <2>4. QED
    BY <1>2, <1>5, <1>7, <1>9, <2>3, OneBlock DEF Core
<1>13. ProducerInv'
  <2>1. ppc = "nextFront" \/ ppc \in Filling => FrontBlock' # NextOf(TailBlock)
    BY <1>0, <1>5 DEF Core, ProducerInv
  <2>2. QED
    BY <1>0, <1>5, <1>7, <1>8, <2>1, ProducerKept
<1>14. InUse(f) \in Int /\ InUse(f)' = InUse(f) - 1
  <2>1. Used(f) \in Int
    BY <1>2 DEF Used, Ahead, IsBlock
  <2>2. QED
    BY <1>2, <1>9, <1>11, <2>1 DEF InUse, InTransit
<1>15. Length(f)' = Length(f) /\ Start(f)' = Start(f)
  <2>1. ~Exposed(f) /\ (Taken(f) <=> cpc = "store") /\ ~Taken(f)'
        /\ (Exposed(f)' <=> cpc = "takeNext")
    BY <1>0, <1>1, <1>5 DEF Exposed, Taken
  <2>2. Length(f)' = Length(f)
    BY <1>1, <1>14, <2>1 DEF Length
  <2>3. Start(f)' = Start(f)
    BY <1>1, <1>5, <1>6, <1>7, <1>8, <2>1 DEF Start
  <2>4. QED
    BY <2>2, <2>3
<1>16. RingInv' /\ ItemsInv'
  <2>1. ASSUME NEW b \in Ring
        PROVE  /\ NextOf(b) \in Ring
               /\ block'[b].Size = block[b].Size
               /\ block'[b].Next = block[b].Next /\ block'[b].Data = block[b].Data
               /\ Length(b)' = Length(b) /\ Start(b)' = Start(b)
               /\ b = FrontBlock \/ (block'[b].Front = block[b].Front /\ InUse(b)' = InUse(b))
               /\ Written(b)' <=> Written(b)
    <3>1. NextOf(b) \in Ring /\ (Written(b)' <=> Written(b))
      BY <1>9 DEF Core, BlocksInv, Written
    <3>2. CASE b = f
      BY <1>0, <1>7, <1>8, <1>15, <3>1, <3>2
    <3>3. CASE b # f
      <4>1. block'[b] = block[b]
        BY <1>8, <1>9, <3>3
      <4>2. InUse(b)' = InUse(b)
        BY <1>9, <4>1 DEF InUse, InTransit, Used, Ahead
      <4>3. Length(b)' = Length(b) /\ Start(b)' = Start(b)
        BY <1>0, <1>5, <3>3, <4>1, <4>2 DEF Length, Start, Exposed, Taken
      <4>4. QED
        BY <3>1, <4>1, <4>2, <4>3
    <3>4. QED
      BY <3>2, <3>3
  <2>2. UNCHANGED <<FrontBlock, TailBlock, enqueued, dequeued>> /\ Ring' = Ring
    BY <1>0, <1>5, <1>9
  <2>3. QED
    BY <2>1, <2>2, SameItems DEF Core
<1>17. ConsumerInv'
  <2>1. cpc = "takeNext" => /\ deq.Front \in DOMAIN block'[f].Data
                           /\ block'[f].Front = After(f, deq.Front)'
    BY <1>1, <1>2, <1>3, <1>5, <1>6, <1>7, <1>8 DEF IsBlock, After
  <2>2. After(FrontBlock, deq.Front)' = After(f, deq.Front)'
    BY <1>5
  <2>3. CASE cpc = "takeNext"
    BY <1>1, <1>5, <1>9, <2>1, <2>2, <2>3 DEF Core, ConsumerInv, AtFront
  <2>4. CASE cpc = "store"
    BY <1>1, <1>5, <1>9, <2>4 DEF Core, ConsumerInv, AtFront
  <2>5. QED
    BY <1>1, <2>3, <2>4
<1>18. QED
  BY <1>12, <1>13, <1>16, <1>17 DEF Core

-----------------------------------------------------------------------------
(* Steps of the producer that leave the blocks alone, or set a copy of a front. *)

\* A step of the producer that moves no tail and publishes nothing.
LEMMA ProducerQuiet ==
  ASSUME Core, UNCHANGED consumer, UNCHANGED <<TailBlock, enqueued>>, Ring' = Ring,
         made' = made,
         \A b \in made :
           /\ block'[b].Size = block[b].Size /\ block'[b].Front = block[b].Front
           /\ block'[b].Tail = block[b].Tail /\ block'[b].LocalTail = block[b].LocalTail
           /\ block'[b].Next = block[b].Next /\ block'[b].Data = block[b].Data,
         \A b \in Ring : InUse(b)' = InUse(b) /\ (Written(b)' <=> Written(b))
  PROVE  RingInv' /\ ItemsInv' /\ ConsumerInv'
<1>1. /\ FrontBlock' = FrontBlock /\ dequeued' = dequeued /\ cpc' = cpc /\ deq' = deq
  BY DEF consumer
<1>2. RingInv' /\ ItemsInv'
  BY <1>1, Quiet
<1>3. PICK f : f = FrontBlock
  OBVIOUS
<1>4. /\ f \in made /\ f \in Ring /\ InUse(f) = Used(f) /\ IsBlock(block[f])
  BY <1>3, FrontIs
<1>5. Length(f) \in Int /\ Length(f)' = Length(f)
  <2>1. Used(f) \in Int
    BY <1>4, UsedIs DEF IsBlock
  <2>2. QED
    BY <1>1, <1>4, <2>1 DEF Length, Exposed, Taken
<1>6. f # TailBlock => LET n == block[f].Next
                        IN  block'[n].Front = block[n].Front /\ block'[n].LocalTail = block[n].LocalTail
  BY <1>3, NextIs DEF NextOf
<1>7. enqueued' \in Nat /\ enqueued' >= enqueued
  BY DEF Core, ItemsInv
<1>8. ConsumerInv'
  BY <1>3, <1>4, <1>5, <1>6, <1>7, ConsumerKept
<1>9. QED
  BY <1>2, <1>8

\* The producer's block.
LEMMA TailIs ==
  ASSUME Core
  PROVE  /\ TailBlock \in made /\ TailBlock \in Ring /\ IsBlock(block[TailBlock])
         /\ CopiesOld(TailBlock) /\ block[TailBlock].Next \in Ring
         /\ ~InTransit(TailBlock) /\ InUse(TailBlock) = Used(TailBlock)
         /\ \A i \in DOMAIN block[TailBlock].Data : Following(TailBlock, i) = After(TailBlock, i)
<1>1. TailBlock \in made /\ TailBlock \in Ring /\ Active(TailBlock)
  BY DEF Core, RingInv, Ring
<1>2. /\ IsBlock(block[TailBlock]) /\ CopiesOld(TailBlock) /\ block[TailBlock].Next \in Ring
  BY <1>1 DEF Core, BlocksInv, NextOf
<1>3. ~InTransit(TailBlock)
  BY <1>1 DEF Active, InUse, InTransit, Core, ProducerInv
<1>4. \A i \in DOMAIN block[TailBlock].Data : Following(TailBlock, i) = After(TailBlock, i)
  BY <1>2, AfterIs DEF IsBlock
<1>5. QED
  BY <1>1, <1>2, <1>3, <1>4 DEF InUse

\* The next block is empty, if it is not the consumer's.
LEMMA BehindTailIs ==
  ASSUME Core, NEW n, n = NextOf(TailBlock), n # FrontBlock
  PROVE  /\ n \in made /\ n \in Ring /\ n # TailBlock /\ InUse(n) = 0 /\ Length(n) = 0
         /\ IsBlock(block[n]) /\ CopiesOld(n) /\ block[n].Next \in Ring
         /\ Start(n) = block[n].Front
<1>1. n \in made /\ n \in Ring /\ IsBlock(block[n]) /\ CopiesOld(n) /\ block[n].Next \in Ring
  BY TailIs DEF Core, BlocksInv, Ring, NextOf
<1>2. ~Active(n) /\ Active(TailBlock)
  BY TailIs DEF Core, RingInv
<1>3. Used(n) \in Nat
  BY <1>1, UsedIs DEF IsBlock
<1>4. InUse(n) = 0
  BY <1>2, <1>3 DEF Active, InUse
<1>5. QED
  BY <1>1, <1>2, <1>4 DEF Length, Exposed, Taken, Start

LEMMA NewBlockSizeIs ==
  ASSUME BlocksInv
  PROVE  /\ NewBlockSize \in Powers /\ NewBlockSize >= 2 /\ NewBlockSize \in Nat
         /\ NewBlockSize <= EXPECTED_BLOCK_SIZE
BY SMTT(60), ReaderWriterQueueAssumption DEF BlocksInv, NewBlockSize, Powers

LEMMA ProducerLooks ==
  ASSUME Core,
         \/ \E mode \in Modes : BeginEnqueue(mode)
         \/ LoadFrontBlock \/ ConstructThrows \/ Full
  PROVE  Core'
<1>1. /\ block' = block /\ UNCHANGED consumer /\ UNCHANGED <<TailBlock, enqueued>>
      /\ made' = made /\ ppc # "link" /\ ppc' # "link"
      /\ ~(ppc \in {"store", "storeNext", "publish"})
      /\ ~(ppc' \in {"store", "storeNext", "publish"}) /\ ppc' \notin Filling
  <2>1. CASE LoadFrontBlock
    <3>1. enq.Mode \in {"CanAlloc", "CannotAlloc"}
      BY DEF Core, ProducerInv, Modes
    <3>2. ppc = "next" /\ ppc' \in {"nextFront", "new", "full"}
      BY <2>1, <3>1 DEF LoadFrontBlock, Produce
    <3>3. QED
      BY <2>1, <3>2 DEF LoadFrontBlock, Produce, made, Filling
  <2>2. QED
    BY <2>1 DEF BeginEnqueue, ConstructThrows, Full, made, Filling
<1>2. Ring' = Ring
  BY <1>1 DEF Ring
<1>3. ASSUME NEW b \in Ring
      PROVE  InUse(b)' = InUse(b) /\ (Written(b)' <=> Written(b))
  <2>1. ~InTransit(b)' /\ ~Written(b)' /\ ~Written(b)
    BY <1>1 DEF InTransit, Written
  <2>2. Used(b)' = Used(b)
    BY <1>1 DEF Used, Ahead
  <2>3. CASE InTransit(b)
    <3>1. ppc = "constructNext" /\ b = enq.Block
      BY <1>1, <2>3 DEF InTransit, Filling, BeginEnqueue, LoadFrontBlock, ConstructThrows, Full
    <3>2. block[b].Front = block[b].Tail /\ b \in made
      BY <3>1 DEF Core, ProducerInv, Filling, Ring
    <3>3. Used(b) = 0
      BY <3>2, UsedIs DEF Core, BlocksInv
    <3>4. QED
      BY <2>1, <2>2, <2>3, <3>3 DEF InUse
  <2>4. CASE ~InTransit(b)
    BY <2>1, <2>2, <2>4 DEF InUse
  <2>5. QED
    BY <2>1, <2>3, <2>4
<1>4. RingInv' /\ ItemsInv' /\ ConsumerInv'
  BY <1>1, <1>2, <1>3, ProducerQuiet
<1>5. BlocksInv'
  <2>1. BlockSize' \in Powers /\ BlockSize' >= 2 /\ BlockSize' <= EXPECTED_BLOCK_SIZE
    BY NewBlockSizeIs
    DEF Core, BlocksInv, BeginEnqueue, LoadFrontBlock, ConstructThrows, Full, Produce
  <2>2. QED
    BY <1>1, <1>2, <2>1 DEF Core, BlocksInv, CopiesOld, Used, Ahead, NextOf
<1>6. ProducerInv'
  <2>1. After(TailBlock, block[TailBlock].Tail)' = After(TailBlock, block[TailBlock].Tail)
    BY <1>1 DEF After
  <2>2. CASE \E mode \in Modes : BeginEnqueue(mode)
    <3>1. Following(TailBlock, block[TailBlock].Tail) = After(TailBlock, block[TailBlock].Tail)
      BY TailIs DEF IsBlock
    <3>2. QED
      BY <1>1, <2>1, <2>2, <3>1
      DEF BeginEnqueue, Core, ProducerInv, AtTail, Filling
  <2>3. CASE LoadFrontBlock
    BY <1>1, <2>3
    DEF LoadFrontBlock, Produce, consumer, Core, ProducerInv, AtTail, Filling, NextOf, Modes
  <2>4. CASE ConstructThrows \/ Full
    BY <1>1, <2>4
    DEF ConstructThrows, Full, NoEnq, Modes, Core, ProducerInv, AtTail, Filling
  <2>5. QED
    BY <2>2, <2>3, <2>4
<1>7. QED
  BY <1>4, <1>5, <1>6 DEF Core

\* The copy of a front is set to the front.
LEMMA SetLocalFront ==
  ASSUME Core, NEW b \in made,
         block' = [block EXCEPT ![b].LocalFront = block[b].Front],
         Ring' = Ring, BlockSize' = BlockSize
  PROVE  /\ BlocksInv' /\ made' = made
         /\ \A d \in made :
              /\ block'[d].Size = block[d].Size /\ block'[d].Front = block[d].Front
              /\ block'[d].Tail = block[d].Tail /\ block'[d].LocalTail = block[d].LocalTail
              /\ block'[d].Next = block[d].Next /\ block'[d].Data = block[d].Data
         /\ block'[b].LocalFront = block[b].Front
<1>1. IsBlock(block[b]) /\ CopiesOld(b) /\ block[b].Next \in Ring
  BY DEF Core, BlocksInv, NextOf
<1> DEFINE r == [block[b] EXCEPT !.LocalFront = block[b].Front]
<1>2. IsBlock(r) /\ r.Next = block[b].Next /\ r.Size = block[b].Size /\ r.Front = block[b].Front
      /\ r.Tail = block[b].Tail /\ r.LocalTail = block[b].LocalTail /\ r.Data = block[b].Data
      /\ r.LocalFront = block[b].Front
  BY <1>1 DEF IsBlock, Fields
<1>3. block' = [block EXCEPT ![b] = r] /\ made' = made
  BY DEF made
<1> HIDE DEF r
<1>4. block'[b] = r /\ \A d \in made : d # b => block'[d] = block[d]
  BY <1>3 DEF made
<1>5. CopiesOld(b)'
  <2>1. /\ Used(b)' = Used(b)
        /\ Ahead(b, block[b].Front, block[b].LocalTail)'
             = Ahead(b, block[b].Front, block[b].LocalTail)
    BY <1>2, <1>4 DEF Used, Ahead
  <2>2. Ahead(b, block[b].LocalFront, block[b].Tail)' = Used(b)
    BY <1>2, <1>4 DEF Used, Ahead
  <2>3. Used(b) \in Nat
    BY <1>1, UsedIs DEF IsBlock
  <2>4. QED
    BY <1>1, <2>1, <2>2, <2>3 DEF CopiesOld
<1>6. BlocksInv'
  BY <1>1, <1>2, <1>3, <1>5, OneBlock DEF Core
<1>7. QED
  BY <1>2, <1>3, <1>4, <1>6

LEMMA LoadFrontKeeps ==
  ASSUME Core, LoadFront
  PROVE  Core'
<1>0. PICK t : t = TailBlock
  OBVIOUS
<1>1. ppc = "front" /\ enq.Block = t /\ enq.Tail = block[t].Tail
  BY <1>0 DEF LoadFront, Core, ProducerInv, AtTail
<1>2. t \in made /\ IsBlock(block[t]) /\ Following(t, block[t].Tail) = After(t, block[t].Tail)
  BY <1>0, TailIs DEF IsBlock
<1>3. /\ block' = [block EXCEPT ![t].LocalFront = block[t].Front]
      /\ ppc' = IF After(t, block[t].Tail) # block[t].Front THEN "construct" ELSE "next"
      /\ UNCHANGED consumer /\ UNCHANGED <<TailBlock, BlockSize, enq, enqueued>>
  BY <1>1, <1>2 DEF LoadFront, Produce
<1>4. Ring' = Ring
  BY <1>1, <1>3 DEF Ring, made
<1>5. /\ BlocksInv' /\ made' = made
      /\ \A d \in made :
              /\ block'[d].Size = block[d].Size /\ block'[d].Front = block[d].Front
              /\ block'[d].Tail = block[d].Tail /\ block'[d].LocalTail = block[d].LocalTail
              /\ block'[d].Next = block[d].Next /\ block'[d].Data = block[d].Data
      /\ block'[t].LocalFront = block[t].Front
  BY <1>2, <1>3, <1>4, SetLocalFront
<1>6. ASSUME NEW b \in Ring
      PROVE  InUse(b)' = InUse(b) /\ (Written(b)' <=> Written(b))
  <2>1. Used(b)' = Used(b)
    BY <1>5 DEF Used, Ahead, Ring
  <2>2. QED
    BY <1>1, <1>3, <2>1 DEF InUse, InTransit, Written, Filling
<1>7. RingInv' /\ ItemsInv' /\ ConsumerInv'
  BY <1>3, <1>4, <1>5, <1>6, ProducerQuiet
<1>8. ProducerInv'
  <2>1. After(TailBlock, block[TailBlock].Tail)' = After(t, block[t].Tail)
    BY <1>0, <1>2, <1>3, <1>5 DEF After
  <2>2. block'[t].Tail = block[t].Tail
    BY <1>2, <1>5
  <2>3. QED
    BY <1>0, <1>1, <1>3, <1>5, <2>1, <2>2 DEF Core, ProducerInv, AtTail, Filling
<1>9. QED
  BY <1>5, <1>7, <1>8 DEF Core

LEMMA LoadNextFrontKeeps ==
  ASSUME Core, LoadNextFront
  PROVE  Core'
<1>0. PICK t, n : t = TailBlock /\ n = NextOf(TailBlock)
  OBVIOUS
<1>1. ppc = "nextFront" /\ enq.Block = t /\ n # FrontBlock /\ n = block[t].Next
  BY <1>0 DEF LoadNextFront, Core, ProducerInv, AtTail, NextOf
<1>2. /\ n \in made /\ n \in Ring /\ n # t /\ InUse(n) = 0 /\ IsBlock(block[n])
  BY <1>0, <1>1, BehindTailIs
<1>3. /\ block' = [block EXCEPT ![n].LocalFront = block[n].Front]
      /\ ppc' = "constructNext" /\ enq' = [enq EXCEPT !.Block = n, !.Tail = block[n].Tail]
      /\ UNCHANGED consumer /\ UNCHANGED <<TailBlock, BlockSize, enqueued>>
  BY <1>1 DEF LoadNextFront
<1>4. Ring' = Ring /\ Ring \subseteq made
  BY <1>1, <1>3 DEF Ring, made
<1>5. /\ BlocksInv' /\ made' = made
      /\ \A d \in made :
              /\ block'[d].Size = block[d].Size /\ block'[d].Front = block[d].Front
              /\ block'[d].Tail = block[d].Tail /\ block'[d].LocalTail = block[d].LocalTail
              /\ block'[d].Next = block[d].Next /\ block'[d].Data = block[d].Data
      /\ block'[n].LocalFront = block[n].Front
  BY <1>2, <1>3, <1>4, SetLocalFront
<1>6. /\ DOMAIN enq' = DOMAIN enq /\ enq'.Block = n /\ enq'.Tail = block[n].Tail
      /\ enq'.Mode = enq.Mode
  BY <1>3 DEF Core, ProducerInv
<1>7. ASSUME NEW b \in Ring
      PROVE  InUse(b)' = InUse(b) /\ (Written(b)' <=> Written(b))
  <2>1. Used(b)' = Used(b)
    BY <1>4, <1>5 DEF Used, Ahead
  <2>2. QED
    BY <1>1, <1>2, <1>3, <1>6, <2>1 DEF InUse, InTransit, Written, Filling
<1>8. RingInv' /\ ItemsInv' /\ ConsumerInv'
  BY <1>3, <1>4, <1>5, <1>7, ProducerQuiet
<1>9. block[n].Tail = block[n].Front
  BY <1>1, <1>2, UsedIs DEF InUse, InTransit, Filling
<1>10. TailBlock' = t /\ NextOf(t)' = n /\ FrontBlock' = FrontBlock
  BY <1>0, <1>1, <1>3, <1>5, TailIs DEF NextOf, consumer
<1>11. ProducerInv'
  BY <1>1, <1>2, <1>3, <1>5, <1>6, <1>9, <1>10 DEF Core, ProducerInv, AtTail, Filling
<1>12. QED
  BY <1>5, <1>8, <1>11 DEF Core

-----------------------------------------------------------------------------
(* The producer puts its item in a slot. *)

LEMMA AheadInjective ==
  ASSUME NEW b, IsBlock(block[b]), NEW s \in 0..(block[b].Size - 1),
         NEW i \in 0..(block[b].Size - 1), NEW j \in 0..(block[b].Size - 1),
         Ahead(b, s, i) = Ahead(b, s, j)
  PROVE  i = j
BY DEF Ahead, IsBlock

LEMMA StartIs ==
  ASSUME Core, NEW b \in Ring
  PROVE  Start(b) \in 0..(block[b].Size - 1)
<1>1. IsBlock(block[b])
  BY DEF Core, BlocksInv, Ring
<1>2. block[b].Front \in 0..(block[b].Size - 1)
  BY <1>1 DEF IsBlock
<1>3. Exposed(b) => deq.Front \in 0..(block[b].Size - 1)
  BY <1>1 DEF Core, ConsumerInv, Exposed, IsBlock
<1>4. After(b, block[b].Front) \in 0..(block[b].Size - 1)
  BY <1>1, <1>2, AfterIs
<1>5. QED
  BY <1>2, <1>3, <1>4 DEF Start

\* The slot at the tail is the first one without an item, and not the last one.
LEMMA TailPlace ==
  ASSUME Core, ppc \in {"construct", "store"}, NEW t, t = TailBlock
  PROVE  /\ Used(t) \in Nat /\ Used(t) < block[t].Size - 1
         /\ Length(t) \in 0..(block[t].Size - 1)
         /\ Place(t, block[t].Tail) = Length(t)
         /\ Ahead(t, block[t].LocalFront, block[t].Tail) < block[t].Size - 1
<1>1. /\ t \in made /\ t \in Ring /\ IsBlock(block[t]) /\ CopiesOld(t)
      /\ InUse(t) = Used(t)
  BY TailIs
<1>2. /\ block[t].Front \in 0..(block[t].Size - 1) /\ block[t].Tail \in 0..(block[t].Size - 1)
      /\ block[t].LocalFront \in 0..(block[t].Size - 1)
      /\ block[t].Size \in Nat /\ block[t].Size >= 2
  BY <1>1 DEF IsBlock
<1>3. Ahead(t, block[t].LocalFront, block[t].Tail) < block[t].Size - 1
  <2>1. After(t, block[t].Tail) # block[t].LocalFront
    BY DEF Core, ProducerInv
  <2>2. QED
    BY <1>1, <1>2, <2>1, AfterAhead
<1>4. Used(t) \in Nat /\ Used(t) < block[t].Size - 1
  <2>1. Used(t) \in 0..(block[t].Size - 1)
    BY <1>1, UsedIs
  <2>2. Ahead(t, block[t].LocalFront, block[t].Tail) \in Int
    BY <1>2 DEF Ahead
  <2>3. QED
    BY <1>1, <1>2, <1>3, <2>1, <2>2 DEF CopiesOld
<1>5. CASE Taken(t)
  <2>1. cpc = "store" /\ t = FrontBlock /\ ~Exposed(t)
    BY <1>5 DEF Taken, Exposed
  <2>2. Used(t) >= 1
    <3>1. block[t].LocalTail # block[t].Front
      BY <2>1 DEF Core, ConsumerInv
    <3>2. block[t].LocalTail \in 0..(block[t].Size - 1)
      BY <1>1 DEF IsBlock
    <3>3. Ahead(t, block[t].Front, block[t].LocalTail) \in Nat
          /\ Ahead(t, block[t].Front, block[t].LocalTail) > 0
      BY <1>2, <3>1, <3>2 DEF Ahead
    <3>4. QED
      BY <1>1, <1>4, <3>3 DEF CopiesOld
  <2>3. Used(t) = Ahead(t, block[t].Front, block[t].Tail) /\ block[t].Front # block[t].Tail
    BY <1>2, <2>2 DEF Used, Ahead
  <2>4. Place(t, block[t].Tail) = Used(t) - 1
    BY <1>1, <1>2, <1>5, <2>1, <2>3, AheadAfter DEF Place, Start
  <2>5. Length(t) = Used(t) - 1
    BY <1>1, <1>5, <2>1 DEF Length
  <2>6. QED
    BY <1>2, <1>3, <1>4, <2>2, <2>4, <2>5
<1>6. CASE Exposed(t)
  <2>1. /\ deq.Front \in 0..(block[t].Size - 1)
        /\ block[t].Front = After(t, deq.Front)
    BY <1>1, <1>6 DEF Exposed, Core, ConsumerInv, IsBlock
  <2>2. Used(t) = IF deq.Front = block[t].Tail THEN block[t].Size - 1
                  ELSE Ahead(t, deq.Front, block[t].Tail) - 1
    BY <1>1, <1>2, <2>1, AheadAfter DEF Used
  <2>3. Ahead(t, deq.Front, block[t].Tail) = Used(t) + 1
    <3>1. Ahead(t, deq.Front, block[t].Tail) \in Int
      BY <1>2, <2>1 DEF Ahead
    <3>2. QED
      BY <1>2, <1>4, <2>2, <3>1
  <2>4. Place(t, block[t].Tail) = Used(t) + 1 /\ Length(t) = Used(t) + 1
    BY <1>1, <1>6, <2>3 DEF Place, Start, Length
  <2>5. QED
    BY <1>2, <1>3, <1>4, <2>4
<1>7. CASE ~Taken(t) /\ ~Exposed(t)
  <2>1. Place(t, block[t].Tail) = Used(t) /\ Length(t) = Used(t)
    BY <1>1, <1>7 DEF Place, Start, Length, Used
  <2>2. QED
    BY <1>2, <1>3, <1>4, <2>1
<1>8. QED
  BY <1>5, <1>6, <1>7

LEMMA ConstructKeeps ==
  ASSUME Core, Construct
  PROVE  Core'
<1>0. PICK b, i : b = enq.Block /\ i = enq.Tail
  OBVIOUS
<1>1. ppc \in {"construct", "constructNext", "constructLast"}
  BY DEF Construct
<1>2. /\ b \in made /\ b \in Ring /\ IsBlock(block[b]) /\ CopiesOld(b) /\ block[b].Next \in Ring
      /\ i \in 0..(block[b].Size - 1) /\ i \in DOMAIN block[b].Data
      /\ Place(b, i) = Length(b) /\ Length(b) \in Nat
      /\ b # FrontBlock => Length(b) = InUse(b) /\ (InUse(b) = 0 \/ i # block[b].Front)
  <2>1. CASE ppc = "construct"
    <3>1. b = TailBlock /\ i = block[b].Tail
      BY <1>0, <2>1 DEF Core, ProducerInv, AtTail
    <3>2. /\ b \in made /\ b \in Ring /\ IsBlock(block[b]) /\ CopiesOld(b)
          /\ block[b].Next \in Ring /\ InUse(b) = Used(b)
      BY <3>1, TailIs
    <3>3. i \in 0..(block[b].Size - 1) /\ i \in DOMAIN block[b].Data
      BY <3>1, <3>2 DEF IsBlock
    <3>4. Place(b, i) = Length(b) /\ Length(b) \in Nat
      BY <2>1, <3>1, <3>2, TailPlace DEF IsBlock
    <3>5. b # FrontBlock => Length(b) = InUse(b)
      BY DEF Length, Taken, Exposed
    <3>6. i = block[b].Front => Used(b) = 0
      BY <3>1, <3>2, UsedIs
    <3>7. QED
      BY <3>2, <3>3, <3>4, <3>5, <3>6
  <2>2. CASE ppc \in {"constructNext", "constructLast"}
    <3>1. b = NextOf(TailBlock) /\ b # FrontBlock /\ i = block[b].Front
      BY <1>0, <2>2 DEF Core, ProducerInv, Filling
    <3>2. /\ b \in made /\ b \in Ring /\ InUse(b) = 0 /\ Length(b) = 0
          /\ IsBlock(block[b]) /\ CopiesOld(b) /\ block[b].Next \in Ring
          /\ Start(b) = block[b].Front
      BY <3>1, BehindTailIs
    <3>3. i \in 0..(block[b].Size - 1) /\ i \in DOMAIN block[b].Data
      BY <3>1, <3>2 DEF IsBlock
    <3>4. Place(b, i) = 0
      BY <3>1, <3>2, <3>3 DEF Place, Ahead
    <3>5. QED
      BY <3>1, <3>2, <3>3, <3>4
  <2>3. QED
    BY <1>1, <2>1, <2>2
<1>3. block[b].Data[i] = Raw
  <2>1. ~Written(b)
    BY <1>1 DEF Written
  <2>2. block[b].Data[i] = Content(b, i)
    BY <1>2 DEF Core, ItemsInv
  <2>3. QED
    BY <1>2, <2>1, <2>2 DEF Content
<1> DEFINE r == [block[b] EXCEPT !.Data[i] = enqueued]
<1>4. /\ block' = [block EXCEPT ![b] = r]
      /\ ppc' = CASE ppc = "construct" -> "store" [] ppc = "constructNext" -> "storeNext"
                   [] ppc = "constructLast" -> "publish"
      /\ UNCHANGED consumer /\ UNCHANGED <<TailBlock, BlockSize, enq, enqueued>>
  BY <1>0, <1>3 DEF Construct, Produce
<1>5. /\ r.Front = block[b].Front /\ r.Tail = block[b].Tail /\ r.Next = block[b].Next
      /\ r.LocalFront = block[b].LocalFront /\ r.LocalTail = block[b].LocalTail
      /\ r.Size = block[b].Size /\ DOMAIN r.Data = DOMAIN block[b].Data
      /\ \A j \in DOMAIN block[b].Data :
           r.Data[j] = IF j = i THEN enqueued ELSE block[b].Data[j]
      /\ IsBlock(r)
  BY <1>2 DEF IsBlock, Fields
<1> HIDE DEF r
<1>6. block'[b] = r /\ made' = made /\ \A d \in made : d # b => block'[d] = block[d]
  BY <1>2, <1>4 DEF made
<1>7. /\ Ring' = Ring /\ Ring \subseteq made
      /\ FrontBlock' = FrontBlock /\ dequeued' = dequeued /\ cpc' = cpc /\ deq' = deq
      /\ ppc' \in {"store", "storeNext", "publish"}
      /\ ppc' \in Filling <=> ppc \in Filling
  BY <1>1, <1>4, <1>6 DEF Ring, consumer, Filling
<1>8. \A d \in made :
        /\ block'[d].Size = block[d].Size /\ block'[d].Front = block[d].Front
        /\ block'[d].Tail = block[d].Tail /\ block'[d].LocalTail = block[d].LocalTail
        /\ block'[d].LocalFront = block[d].LocalFront /\ block'[d].Next = block[d].Next
        /\ DOMAIN block'[d].Data = DOMAIN block[d].Data
  BY <1>5, <1>6
<1>9. BlocksInv'
  <2>1. CopiesOld(b)'
    BY <1>2, <1>8 DEF CopiesOld, Used, Ahead
  <2>2. QED
    BY <1>2, <1>4, <1>5, <1>7, <2>1, OneBlock DEF Core
<1>10. ASSUME NEW d \in Ring
       PROVE  /\ InUse(d)' = InUse(d) /\ Length(d)' = Length(d) /\ Start(d)' = Start(d)
              /\ Written(d)' <=> d = b
              /\ ~Written(d)
              /\ Active(d)' <=> Active(d)
              /\ NextOf(d) \in Ring /\ NextOf(d)' = NextOf(d)
              /\ Active(d) => First(d)' = First(d)
  <2>1. Used(d)' = Used(d)
    BY <1>7, <1>8 DEF Used, Ahead
  <2>2. InUse(d)' = InUse(d)
    BY <1>4, <1>7, <2>1 DEF InUse, InTransit
  <2>3. Length(d)' = Length(d) /\ Start(d)' = Start(d)
    BY <1>7, <1>8, <2>2 DEF Length, Start, Exposed, Taken, After
  <2>4. (Written(d)' <=> d = b) /\ ~Written(d)
    BY <1>0, <1>1, <1>4, <1>7 DEF Written
  <2>5. Active(d)' <=> Active(d)
    BY <1>7, <2>2 DEF Active
  <2>6. NextOf(d) \in Ring /\ NextOf(d)' = NextOf(d)
    BY <1>7, <1>8 DEF Core, BlocksInv, NextOf
  <2>7. ASSUME Active(d) PROVE First(d)' = First(d)
    <3>1. CASE d = FrontBlock
      BY <1>7, <3>1 DEF First
    <3>2. CASE d # FrontBlock
      <4>1. block'[d].Data[block[d].Front] = block[d].Data[block[d].Front]
        <5>1. CASE d = b
          <6>1. i # block[d].Front
            BY <1>2, <2>7, <3>2, <5>1 DEF Active
          <6>2. block[d].Front \in DOMAIN block[d].Data
            BY <1>2, <5>1 DEF IsBlock
          <6>3. QED
            BY <1>5, <1>6, <5>1, <6>1, <6>2
        <5>2. CASE d # b
          BY <1>6, <1>7, <5>2
        <5>3. QED
          BY <5>1, <5>2
      <4>2. QED
        BY <1>7, <1>8, <3>2, <4>1 DEF First
    <3>3. QED
      BY <3>1, <3>2
  <2>8. QED
    BY <2>2, <2>3, <2>4, <2>5, <2>6, <2>7
<1>11. RingInv'
  <2>1. ASSUME NEW p \in Ring
        PROVE  ((Active(p) /\ p # TailBlock)
                 <=> (Active(NextOf(p)) /\ NextOf(p) # FrontBlock))'
    <3>1. PICK q : q = NextOf(p)
      OBVIOUS
    <3>2. q \in Ring /\ q = NextOf(p)'
      BY <1>10, <3>1
    <3>3. (Active(p)' /\ p # TailBlock') <=> (Active(q)' /\ q # FrontBlock')
      BY <1>4, <1>7, <1>10, <3>1, <3>2 DEF Core, RingInv
    <3>4. QED
      BY <3>2, <3>3
  <2>2. \A p, q \in Ring : NextOf(p)' = NextOf(q)' => p = q
    BY <1>10 DEF Core, RingInv
  <2>3. FrontBlock' \in Ring' /\ TailBlock' \in Ring'
    BY <1>4, <1>7 DEF Core, RingInv
  <2>4. Active(TailBlock)'
    <3>1. PICK t : t = TailBlock
      OBVIOUS
    <3>2. Active(t)'
      BY <1>10, <3>1 DEF Core, RingInv
    <3>3. QED
      BY <1>4, <3>1, <3>2
  <2>5. QED
    BY <1>7, <2>1, <2>2, <2>3, <2>4 DEF RingInv
<1>12. ItemsInv'
  <2>0. enqueued \in Nat /\ dequeued \in Nat
    BY DEF Core, ItemsInv
  <2>1. ASSUME NEW d \in Ring, NEW j \in DOMAIN (block[d].Data)'
        PROVE  (block[d].Data[j])' = Content(d, j)'
    <3>1. j \in DOMAIN block[d].Data /\ block[d].Data[j] = Content(d, j)
      BY <1>7, <1>8 DEF Core, ItemsInv
    <3>2. Place(d, j)' = Place(d, j)
      BY <1>7, <1>8, <1>10 DEF Place, Ahead
    <3>3. Place(d, j) < Length(d) => First(d)' = First(d)
      <4>1. IsBlock(block[d]) /\ j \in 0..(block[d].Size - 1)
        BY <1>7, <3>1 DEF Core, BlocksInv, IsBlock
      <4>2. Place(d, j) >= 0
        BY <4>1, StartIs, AheadIs DEF Place, IsBlock
      <4>3. Place(d, j) < Length(d) => Active(d)
        <5>1. Used(d) \in Int
          BY <4>1, UsedIs DEF IsBlock
        <5>2. Place(d, j) \in Int
          BY <4>1, StartIs, AheadIs DEF Place, IsBlock
        <5>3. QED
          BY <4>2, <5>1, <5>2 DEF Active, Length, InUse, Exposed, Taken
      <4>4. QED
        BY <1>10, <4>3
    <3>4. CASE d # b
      BY <1>6, <1>7, <1>10, <3>1, <3>2, <3>3, <3>4 DEF Content
    <3>5. CASE d = b /\ j # i
      <4>1. Place(b, j) # Length(b)
        <5>1. j \in 0..(block[b].Size - 1)
          BY <1>2, <3>1, <3>5 DEF IsBlock
        <5>2. QED
          BY <1>2, <3>5, <5>1, StartIs, AheadInjective DEF Place
      <4>2. block'[b].Data[j] = block[b].Data[j]
        BY <1>5, <1>6, <3>1, <3>5
      <4>3. QED
        BY <1>10, <3>1, <3>2, <3>3, <3>5, <4>1, <4>2 DEF Content
    <3>6. CASE d = b /\ j = i
      <4>1. block'[b].Data[i] = enqueued /\ enqueued' = enqueued
        BY <1>2, <1>4, <1>5, <1>6
      <4>2. ~(Place(b, i) < Length(b))
        BY <1>2
      <4>3. QED
        BY <1>2, <1>10, <3>2, <3>6, <4>1, <4>2 DEF Content
    <3>7. QED
      BY <3>4, <3>5, <3>6
  <2>2. ASSUME NEW d \in Ring
        PROVE  /\ Length(d)' > 0 => First(d)' \in Nat
               /\ Active(d)' => First(d)' + Length(d)' <= enqueued'
    <3>1. Length(d) > 0 => Active(d)
      BY <1>7 DEF Active, Length, InUse, Exposed, Taken
    <3>2. QED
      BY <1>4, <1>10, <3>1 DEF Core, ItemsInv
  <2>3. ASSUME NEW d \in Ring, Active(d)', d # TailBlock
        PROVE  First(NextOf(d))' = First(d)' + Length(d)'
    <3>1. PICK q : q = NextOf(d)
      OBVIOUS
    <3>2. q \in Ring /\ q = NextOf(d)' /\ Active(d)
      BY <1>10, <2>3, <3>1
    <3>3. Active(q) /\ First(q) = First(d) + Length(d)
      BY <2>3, <3>1, <3>2 DEF Core, RingInv, ItemsInv
    <3>4. QED
      BY <1>10, <3>2, <3>3
  <2>4. (First(TailBlock) + Length(TailBlock) = enqueued)'
    <3>1. PICK t : t = TailBlock
      OBVIOUS
    <3>2. t \in Ring /\ Active(t) /\ First(t) + Length(t) = enqueued
      BY <3>1 DEF Core, ItemsInv, RingInv
    <3>3. First(t)' + Length(t)' = enqueued'
      BY <1>4, <1>10, <3>2
    <3>4. QED
      BY <1>4, <3>1, <3>3
  <2>5. QED
    BY <1>4, <1>7, <2>0, <2>1, <2>2, <2>3, <2>4 DEF ItemsInv
<1>13. ConsumerInv'
  <2>1. PICK f : f = FrontBlock
    OBVIOUS
  <2>2. f \in made /\ f \in Ring /\ InUse(f) = Used(f) /\ IsBlock(block[f])
    BY <2>1, FrontIs
  <2>3. Length(f) \in Int /\ Length(f)' = Length(f)
    <3>1. Used(f) \in Int
      BY <2>2, UsedIs DEF IsBlock
    <3>2. QED
      BY <1>10, <2>2, <3>1 DEF Length
  <2>4. f # TailBlock => LET n == block[f].Next
                         IN  block'[n].Front = block[n].Front /\ block'[n].LocalTail = block[n].LocalTail
    BY <1>8, <2>1, NextIs DEF NextOf
  <2>5. enqueued' \in Nat /\ enqueued' >= enqueued
    BY <1>4 DEF Core, ItemsInv
  <2>6. QED
    BY <1>4, <1>8, <2>1, <2>2, <2>3, <2>4, <2>5, ConsumerKept
<1>14. ProducerInv'
  <2>1. TailBlock \in made /\ NextOf(TailBlock)' = NextOf(TailBlock)
    BY <1>4, <1>8, TailIs DEF NextOf
  <2>2. After(TailBlock, block[TailBlock].Tail)' = After(TailBlock, block[TailBlock].Tail)
    BY <1>4, <1>8, <2>1 DEF After
  <2>3. After(b, block[b].Front)' = After(b, block[b].Front)
    BY <1>2, <1>8 DEF After
  <2>4. After(enq.Block, block[enq.Block].Front)' = After(b, block[b].Front)
    BY <1>0, <1>4, <2>3 DEF After
  <2>5. CASE ppc = "construct"
    BY <1>4, <1>8, <2>1, <2>2, <2>5 DEF Core, ProducerInv, AtTail, Filling
  <2>6. CASE ppc = "constructNext"
    BY <1>0, <1>2, <1>4, <1>7, <1>8, <2>1, <2>4, <2>6 DEF Core, ProducerInv, AtTail, Filling
  <2>7. CASE ppc = "constructLast"
    BY <1>0, <1>2, <1>4, <1>7, <1>8, <2>1, <2>4, <2>7 DEF Core, ProducerInv, AtTail, Filling
  <2>8. QED
    BY <1>1, <2>5, <2>6, <2>7
<1>15. QED
  BY <1>9, <1>11, <1>12, <1>13, <1>14 DEF Core

-----------------------------------------------------------------------------
(* The producer moves a tail. *)

\* The ring has its order from the links, the active blocks and the two ends.
LEMMA SameRing ==
  ASSUME RingInv, Ring' = Ring, UNCHANGED <<FrontBlock, TailBlock>>,
         \A b \in Ring : /\ Active(b)' <=> Active(b)
                         /\ NextOf(b) \in Ring /\ NextOf(b)' = NextOf(b)
  PROVE  RingInv'
<1>1. ASSUME NEW p \in Ring
      PROVE  ((Active(p) /\ p # TailBlock)
               <=> (Active(NextOf(p)) /\ NextOf(p) # FrontBlock))'
  <2>1. PICK q : q = NextOf(p)
    OBVIOUS
  <2>2. q \in Ring /\ q = NextOf(p)'
    BY <2>1
  <2>3. (Active(p)' /\ p # TailBlock') <=> (Active(q)' /\ q # FrontBlock')
    BY <2>1, <2>2 DEF RingInv
  <2>4. QED
    BY <2>2, <2>3
<1>2. \A p, q \in Ring : NextOf(p)' = NextOf(q)' => p = q
  BY DEF RingInv
<1>3. Active(TailBlock)'
  <2>1. PICK t : t = TailBlock
    OBVIOUS
  <2>2. Active(t)'
    BY <2>1 DEF RingInv
  <2>3. QED
    BY <2>1, <2>2
<1>4. QED
  BY <1>1, <1>2, <1>3 DEF RingInv

LEMMA StoreTailKeeps ==
  ASSUME Core, StoreTail
  PROVE  Core'
<1>0. PICK t, i : t = TailBlock /\ i = block[TailBlock].Tail
  OBVIOUS
<1>1. ppc = "store" /\ enq.Block = t /\ enq.Tail = i
  BY <1>0 DEF StoreTail, Core, ProducerInv, AtTail
<1>2. /\ t \in made /\ t \in Ring /\ IsBlock(block[t]) /\ CopiesOld(t) /\ block[t].Next \in Ring
      /\ InUse(t) = Used(t) /\ i = block[t].Tail
  BY <1>0, TailIs
<1>3. /\ i \in 0..(block[t].Size - 1) /\ block[t].Front \in 0..(block[t].Size - 1)
      /\ block[t].LocalFront \in 0..(block[t].Size - 1)
      /\ block[t].LocalTail \in 0..(block[t].Size - 1)
      /\ block[t].Size \in Nat /\ block[t].Size >= 2
  BY <1>2 DEF IsBlock
<1>4. /\ Used(t) \in Nat /\ Used(t) < block[t].Size - 1
      /\ Length(t) \in 0..(block[t].Size - 1) /\ Place(t, i) = Length(t)
      /\ After(t, i) # block[t].LocalFront
  BY <1>0, <1>1, TailPlace DEF Core, ProducerInv
<1>5. After(t, i) # block[t].Front
  BY <1>2, <1>3, <1>4 DEF Used, Ahead, After
<1>6. After(t, i) \in 0..(block[t].Size - 1) /\ Following(t, i) = After(t, i)
  BY <1>2, <1>3, AfterIs
<1>7. PICK j : j = After(t, i)
  OBVIOUS
<1> DEFINE r == [block[t] EXCEPT !.Tail = j]
<1>8. /\ block' = [block EXCEPT ![t] = r] /\ enqueued' = enqueued + 1
      /\ ppc' = "idle" /\ enq' = NoEnq
      /\ UNCHANGED consumer /\ UNCHANGED <<TailBlock, BlockSize>>
  BY <1>1, <1>6, <1>7 DEF StoreTail
<1>9. /\ r.Front = block[t].Front /\ r.Tail = j /\ r.Next = block[t].Next
      /\ r.LocalFront = block[t].LocalFront /\ r.LocalTail = block[t].LocalTail
      /\ r.Size = block[t].Size /\ r.Data = block[t].Data /\ IsBlock(r)
  BY <1>2, <1>6, <1>7 DEF IsBlock, Fields
<1> HIDE DEF r
<1>10. block'[t] = r /\ made' = made /\ \A d \in made : d # t => block'[d] = block[d]
  BY <1>2, <1>8 DEF made
<1>11. /\ Ring' = Ring /\ Ring \subseteq made
       /\ FrontBlock' = FrontBlock /\ dequeued' = dequeued /\ cpc' = cpc /\ deq' = deq
  BY <1>1, <1>8, <1>10 DEF Ring, consumer
<1>12. \A d \in made :
         /\ block'[d].Size = block[d].Size /\ block'[d].Front = block[d].Front
         /\ block'[d].LocalTail = block[d].LocalTail
         /\ block'[d].LocalFront = block[d].LocalFront /\ block'[d].Next = block[d].Next
         /\ block'[d].Data = block[d].Data
         /\ d # t => block'[d].Tail = block[d].Tail
  BY <1>9, <1>10
<1>13. Used(t)' = Used(t) + 1
  <2>1. Used(t)' = Ahead(t, block[t].Front, j)
    BY <1>9, <1>10 DEF Used, Ahead
  <2>2. QED
    BY <1>2, <1>3, <1>5, <1>7, <2>1, AfterAhead DEF Used
<1>14. BlocksInv'
  <2>1. Ahead(t, block[t].LocalFront, block[t].Tail)' = Ahead(t, block[t].LocalFront, i) + 1
    <3>1. Ahead(t, block[t].LocalFront, block[t].Tail)' = Ahead(t, block[t].LocalFront, j)
      BY <1>9, <1>10 DEF Ahead
    <3>2. QED
      BY <1>2, <1>3, <1>4, <1>7, <3>1, AfterAhead
  <2>2. Ahead(t, block[t].Front, block[t].LocalTail)' = Ahead(t, block[t].Front, block[t].LocalTail)
    BY <1>9, <1>10 DEF Ahead
  <2>3. /\ Ahead(t, block[t].LocalFront, i) \in Int
        /\ Ahead(t, block[t].Front, block[t].LocalTail) \in Int
    BY <1>3 DEF Ahead
  <2>4. CopiesOld(t)'
    BY <1>2, <1>4, <1>13, <2>1, <2>2, <2>3 DEF CopiesOld
  <2>5. QED
    BY <1>2, <1>8, <1>9, <1>11, <2>4, OneBlock DEF Core
<1>15. enqueued \in Nat /\ dequeued \in Nat
  BY DEF Core, ItemsInv
<1>16. ASSUME NEW d \in Ring
       PROVE  /\ Start(d)' = Start(d) /\ First(d)' = First(d)
              /\ d # t => InUse(d)' = InUse(d) /\ Length(d)' = Length(d)
              /\ NextOf(d) \in Ring /\ NextOf(d)' = NextOf(d)
              /\ ~Written(d)'
              /\ Written(d) <=> d = t
  <2>1. Start(d)' = Start(d) /\ First(d)' = First(d)
    BY <1>11, <1>12 DEF Start, First, Exposed, Taken, After
  <2>2. NextOf(d) \in Ring /\ NextOf(d)' = NextOf(d)
    BY <1>11, <1>12 DEF Core, BlocksInv, NextOf
  <2>3. ~InTransit(d) /\ ~InTransit(d)' /\ ~Written(d)' /\ (Written(d) <=> d = t)
    BY <1>1, <1>8 DEF InTransit, Written, Filling
  <2>4. ASSUME d # t PROVE InUse(d)' = InUse(d) /\ Length(d)' = Length(d)
    <3>1. Used(d)' = Used(d)
      BY <1>11, <1>12, <2>4 DEF Used, Ahead
    <3>2. InUse(d)' = InUse(d)
      BY <2>3, <3>1 DEF InUse
    <3>3. QED
      BY <1>11, <3>2 DEF Length, Exposed, Taken
  <2>5. QED
    BY <2>1, <2>2, <2>3, <2>4
<1>17. InUse(t)' = InUse(t) + 1 /\ Length(t)' = Length(t) + 1 /\ Active(t) /\ Active(t)'
  <2>1. ~InTransit(t)'
    BY <1>8 DEF InTransit, Filling
  <2>2. InUse(t)' = InUse(t) + 1
    BY <1>2, <1>13, <2>1 DEF InUse
  <2>3. Length(t)' = Length(t) + 1
    BY <1>2, <1>4, <1>11, <2>2 DEF Length, Exposed, Taken
  <2>4. Active(t)
    BY <1>0 DEF Core, RingInv
  <2>5. QED
    BY <1>2, <1>4, <1>11, <2>2, <2>3, <2>4 DEF Active
<1>18. \A d \in Ring : Active(d)' <=> Active(d)
  BY <1>11, <1>16, <1>17 DEF Active
<1>19. RingInv'
  BY <1>8, <1>11, <1>16, <1>18, SameRing DEF Core
<1>20. First(t) \in Int /\ First(t) + Length(t) = enqueued
  <2>1. First(t) + Length(t) = enqueued
    BY <1>0 DEF Core, ItemsInv
  <2>2. CASE Length(t) > 0
    BY <1>2, <2>1, <2>2 DEF Core, ItemsInv
  <2>3. CASE t = FrontBlock
    BY <1>15, <2>1, <2>3 DEF First
  <2>4. Length(t) > 0 \/ t = FrontBlock
    BY <1>17 DEF Active, Length, Taken, Exposed
  <2>5. QED
    BY <2>1, <2>2, <2>3, <2>4
<1>21. ItemsInv'
  <2>1. ASSUME NEW d \in Ring, NEW k \in DOMAIN (block[d].Data)'
        PROVE  (block[d].Data[k])' = Content(d, k)'
    <3>1. /\ k \in DOMAIN block[d].Data /\ block[d].Data[k] = Content(d, k)
          /\ block'[d].Data[k] = block[d].Data[k]
      BY <1>11, <1>12 DEF Core, ItemsInv
    <3>2. Place(d, k)' = Place(d, k)
      BY <1>11, <1>12, <1>16 DEF Place, Ahead
    <3>3. CASE d # t
      BY <1>16, <3>1, <3>2, <3>3 DEF Content
    <3>4. CASE d = t
      <4>1. k \in 0..(block[t].Size - 1)
        BY <1>2, <3>1, <3>4 DEF IsBlock
      <4>2. Place(t, k) \in Int
        BY <1>2, <4>1, StartIs, AheadIs DEF Place, IsBlock
      <4>3. Place(t, k)' < Length(t)' <=> Place(t, k) < Length(t) \/ Place(t, k) = Length(t)
        BY <1>4, <1>17, <3>2, <3>4, <4>2
      <4>4. Place(t, k) = Length(t) => First(t) + Place(t, k) = enqueued
        BY <1>20
      <4>5. /\ Written(t) /\ ~Written(t)' /\ First(t)' = First(t) /\ Place(t, k)' = Place(t, k)
            /\ block'[t].Data[k] = Content(t, k)
        BY <1>2, <1>16, <3>1, <3>2, <3>4
      <4>6. Place(t, k) = Length(t) => ~(Place(t, k) < Length(t))
        BY <1>4
      <4>7. block'[t].Data[k] = Content(t, k)'
        BY <4>3, <4>4, <4>5, <4>6 DEF Content
      <4>8. QED
        BY <3>4, <4>7
    <3>5. QED
      BY <3>3, <3>4
  <2>2. ASSUME NEW d \in Ring
        PROVE  /\ Length(d)' > 0 => First(d)' \in Nat
               /\ Active(d)' => First(d)' + Length(d)' <= enqueued'
    <3>1. CASE d = t
      <4>1. First(t)' \in Nat
        <5>1. CASE t = FrontBlock
          BY <1>15, <1>16, <1>2, <5>1 DEF First
        <5>2. CASE t # FrontBlock
          <6>1. Length(t) > 0
            BY <1>17, <5>2 DEF Active, Length, Taken, Exposed
          <6>2. QED
            BY <1>2, <1>16, <6>1 DEF Core, ItemsInv
        <5>3. QED
          BY <5>1, <5>2
      <4>2. First(t)' + Length(t)' <= enqueued'
        BY <1>2, <1>4, <1>8, <1>15, <1>16, <1>17, <1>20
      <4>3. QED
        BY <3>1, <4>1, <4>2
    <3>2. CASE d # t
      <4>1. (Length(d) > 0 => First(d) \in Nat) /\ (Active(d) => First(d) + Length(d) <= enqueued)
        BY DEF Core, ItemsInv
      <4>2. Active(d) => First(d) + Length(d) \in Int
        <5>1. IsBlock(block[d])
          BY <1>11 DEF Core, BlocksInv
        <5>2. Used(d) \in Int
          BY <5>1, UsedIs DEF IsBlock
        <5>3. Length(d) \in Int
          BY <5>2 DEF Length, InUse
        <5>4. Active(d) => First(d) \in Int
          BY <1>15, <4>1 DEF Active, First, Length, Taken, Exposed
        <5>5. QED
          BY <5>3, <5>4
      <4>3. Active(d) => First(d) + Length(d) <= enqueued + 1
        BY <1>15, <4>1, <4>2
      <4>4. QED
        BY <1>8, <1>16, <1>18, <3>2, <4>1, <4>3
    <3>3. QED
      BY <3>1, <3>2
  <2>3. ASSUME NEW d \in Ring, Active(d)', d # TailBlock
        PROVE  First(NextOf(d))' = First(d)' + Length(d)'
    <3>1. PICK q : q = NextOf(d)
      OBVIOUS
    <3>2. q \in Ring /\ q = NextOf(d)' /\ Active(d)
      BY <1>16, <1>18, <2>3, <3>1
    <3>3. First(q) = First(d) + Length(d)
      BY <2>3, <3>1, <3>2 DEF Core, ItemsInv
    <3>4. QED
      BY <1>0, <1>16, <2>3, <3>2, <3>3
  <2>4. (First(TailBlock) + Length(TailBlock) = enqueued)'
    <3>1. First(t)' + Length(t)' = enqueued'
      BY <1>2, <1>4, <1>8, <1>15, <1>16, <1>17, <1>20
    <3>2. QED
      BY <1>0, <1>8, <3>1
  <2>5. enqueued' \in Nat /\ dequeued' \in Nat
    BY <1>8, <1>11, <1>15
  <2>6. QED
    BY <1>8, <1>11, <2>1, <2>2, <2>3, <2>4, <2>5 DEF ItemsInv
<1>22. ConsumerInv'
  <2>1. PICK f : f = FrontBlock
    OBVIOUS
  <2>2. f \in made /\ f \in Ring /\ InUse(f) = Used(f) /\ IsBlock(block[f])
    BY <2>1, FrontIs
  <2>3. Length(f) \in Int /\ Length(f)' \in Int /\ Length(f)' >= Length(f)
    <3>1. Used(f) \in Int
      BY <2>2, UsedIs DEF IsBlock
    <3>2. Length(f) \in Int
      BY <2>2, <3>1 DEF Length
    <3>3. QED
      BY <1>16, <1>17, <2>2, <3>2
  <2>4. f # TailBlock => LET n == block[f].Next
                         IN  block'[n].Front = block[n].Front /\ block'[n].LocalTail = block[n].LocalTail
    BY <1>12, <2>1, NextIs DEF NextOf
  <2>5. enqueued' \in Nat /\ enqueued' >= enqueued
    BY <1>8, <1>15
  <2>6. block[f].Front # block[f].Tail => block'[f].Front # block'[f].Tail
    BY <1>5, <1>7, <1>9, <1>10, <1>12, <2>2
  <2>7. f # TailBlock => block'[f].Tail = block[f].Tail /\ block'[f].Next = block[f].Next
    BY <1>0, <1>12, <2>2
  <2>8. QED
    BY <1>8, <1>12, <2>1, <2>2, <2>3, <2>4, <2>5, <2>6, <2>7, ConsumerKept
<1>23. ProducerInv'
  BY <1>8 DEF NoEnq, Modes, ProducerInv, AtTail, Filling
<1>24. QED
  BY <1>14, <1>19, <1>21, <1>22, <1>23 DEF Core

\* The tail of the block after the producer's moves before the block is in use.
LEMMA StoreNextTailKeeps ==
  ASSUME Core, StoreNextTail
  PROVE  Core'
<1>0. PICK n : n = enq.Block
  OBVIOUS
<1>1. /\ ppc \in {"constructNext", "storeNext"} /\ ppc \in Filling /\ n = NextOf(TailBlock)
      /\ n # FrontBlock /\ enq.Tail = block[n].Front /\ block[n].LocalFront = block[n].Front
      /\ block[n].Tail = block[n].Front
  BY <1>0 DEF StoreNextTail, Core, ProducerInv, Filling
<1>2. /\ n \in made /\ n \in Ring /\ n # TailBlock /\ InUse(n) = 0 /\ Length(n) = 0
      /\ IsBlock(block[n]) /\ CopiesOld(n) /\ block[n].Next \in Ring
      /\ Start(n) = block[n].Front
  BY <1>1, BehindTailIs
<1>3. PICK i : i = block[n].Front
  OBVIOUS
<1>4. /\ i \in 0..(block[n].Size - 1) /\ block[n].LocalTail \in 0..(block[n].Size - 1)
      /\ block[n].Size \in Nat /\ block[n].Size >= 2
  BY <1>2, <1>3 DEF IsBlock
<1>5. After(n, i) \in 0..(block[n].Size - 1) /\ Following(n, i) = After(n, i) /\ After(n, i) # i
  BY <1>2, <1>4, AfterIs DEF After
<1>6. PICK j : j = After(n, i)
  OBVIOUS
<1> DEFINE r == [block[n] EXCEPT !.Tail = j]
<1>7. /\ block' = [block EXCEPT ![n] = r]
      /\ ppc' = IF ppc = "storeNext" THEN "publish" ELSE "constructLast"
      /\ UNCHANGED consumer /\ UNCHANGED <<TailBlock, BlockSize, enq, enqueued>>
  BY <1>0, <1>1, <1>3, <1>5, <1>6 DEF StoreNextTail, Produce
<1>8. /\ r.Front = i /\ r.Tail = j /\ r.Next = block[n].Next
      /\ r.LocalFront = block[n].LocalFront /\ r.LocalTail = block[n].LocalTail
      /\ r.Size = block[n].Size /\ r.Data = block[n].Data /\ IsBlock(r)
  BY <1>2, <1>3, <1>5, <1>6 DEF IsBlock, Fields
<1> HIDE DEF r
<1>9. block'[n] = r /\ made' = made /\ \A d \in made : d # n => block'[d] = block[d]
  BY <1>2, <1>7 DEF made
<1>10. /\ Ring' = Ring /\ Ring \subseteq made /\ ppc' \in Filling /\ ppc' # "link"
       /\ FrontBlock' = FrontBlock /\ dequeued' = dequeued /\ cpc' = cpc /\ deq' = deq
  BY <1>1, <1>7, <1>9 DEF Ring, consumer, Filling
<1>11. \A d \in made :
         /\ block'[d].Size = block[d].Size /\ block'[d].Front = block[d].Front
         /\ block'[d].LocalTail = block[d].LocalTail
         /\ block'[d].LocalFront = block[d].LocalFront /\ block'[d].Next = block[d].Next
         /\ block'[d].Data = block[d].Data
         /\ d # n => block'[d].Tail = block[d].Tail
  BY <1>3, <1>8, <1>9
<1>12. CopiesOld(n)'
  <2>1. Used(n) = 0 /\ Ahead(n, i, j) = 1
    BY <1>1, <1>3, <1>4, <1>6 DEF Used, Ahead, After
  <2>2. /\ Used(n)' = Ahead(n, i, j)
        /\ Ahead(n, block[n].LocalFront, block[n].Tail)' = Ahead(n, i, j)
        /\ Ahead(n, block[n].Front, block[n].LocalTail)' = Ahead(n, block[n].Front, block[n].LocalTail)
    BY <1>1, <1>3, <1>8, <1>9 DEF Used, Ahead
  <2>3. Ahead(n, block[n].Front, block[n].LocalTail) \in Int
    BY <1>3, <1>4 DEF Ahead
  <2>4. QED
    BY <1>2, <2>1, <2>2, <2>3 DEF CopiesOld
<1>13. BlocksInv'
  BY <1>2, <1>7, <1>8, <1>10, <1>12, OneBlock DEF Core
<1>14. ASSUME NEW d \in Ring
       PROVE  /\ NextOf(d) \in Ring
              /\ block'[d].Size = block[d].Size
              /\ block'[d].Next = block[d].Next /\ block'[d].Data = block[d].Data
              /\ Length(d)' = Length(d) /\ Start(d)' = Start(d)
              /\ block'[d].Front = block[d].Front /\ InUse(d)' = InUse(d)
              /\ Written(d)' <=> Written(d)
  <2>1. NextOf(d) \in Ring
    BY <1>10 DEF Core, BlocksInv
  <2>2. Written(d)' <=> Written(d)
    BY <1>1, <1>7 DEF Written
  <2>3. InUse(d)' = InUse(d)
    <3>1. (InTransit(d) <=> d = n) /\ (InTransit(d)' <=> d = n)
      BY <1>0, <1>1, <1>7, <1>10 DEF InTransit
    <3>2. d # n => Used(d)' = Used(d)
      BY <1>10, <1>11 DEF Used, Ahead
    <3>3. QED
      BY <3>1, <3>2 DEF InUse
  <2>4. Length(d)' = Length(d) /\ Start(d)' = Start(d)
    BY <1>10, <1>11, <2>3 DEF Length, Start, Exposed, Taken, After
  <2>5. QED
    BY <1>10, <1>11, <2>1, <2>2, <2>3, <2>4
<1>15. RingInv' /\ ItemsInv'
  BY <1>7, <1>10, <1>14, SameItems DEF Core
<1>16. ConsumerInv'
  <2>1. PICK f : f = FrontBlock
    OBVIOUS
  <2>2. f \in made /\ f \in Ring /\ f # n /\ InUse(f) = Used(f) /\ IsBlock(block[f])
    BY <1>1, <2>1, FrontIs
  <2>3. Length(f) \in Int /\ Length(f)' = Length(f)
    <3>1. Used(f) \in Int
      BY <2>2, UsedIs DEF IsBlock
    <3>2. QED
      BY <1>14, <2>2, <3>1 DEF Length
  <2>4. f # TailBlock => LET m == block[f].Next
                         IN  block'[m].Front = block[m].Front /\ block'[m].LocalTail = block[m].LocalTail
    BY <1>11, <2>1, NextIs DEF NextOf
  <2>5. enqueued' \in Nat /\ enqueued' >= enqueued
    BY <1>7 DEF Core, ItemsInv
  <2>6. QED
    BY <1>7, <1>11, <2>1, <2>2, <2>3, <2>4, <2>5, ConsumerKept
<1>17. ProducerInv'
  <2>1. /\ TailBlock' = TailBlock /\ NextOf(TailBlock)' = n /\ enq' = enq
    BY <1>1, <1>7, <1>11, TailIs DEF NextOf
  <2>2. After(n, block[n].Front)' = j
    BY <1>3, <1>6, <1>8, <1>9 DEF After
  <2>3. After(enq.Block, block[enq.Block].Front)' = After(n, block[n].Front)'
    BY <1>0, <2>1
  <2>4. enq.Block = n /\ enq.Tail = i
    BY <1>0, <1>1, <1>3
  <2>5. ppc' \in {"publish", "constructLast"}
    BY <1>7
  <2>6. QED
    BY <1>1, <1>3, <1>8, <1>9, <1>10, <2>1, <2>2, <2>3, <2>4, <2>5
    DEF Core, ProducerInv, AtTail, Filling
<1>18. QED
  BY <1>13, <1>15, <1>16, <1>17 DEF Core

-----------------------------------------------------------------------------
(* The producer makes a block and links it. *)

\* A block is added behind the others in the sequence, not in the ring.
LEMMA AppendIs ==
  ASSUME BlocksInv, NEW x
  PROVE  LET e == Len(block) + 1
             longer == Append(block, x)
         IN  /\ e \notin made /\ DOMAIN longer = made \union {e}
             /\ longer[e] = x /\ \A d \in made : longer[d] = block[d]
             /\ longer = [d \in DOMAIN longer |-> longer[d]]
             /\ \E n \in Nat : DOMAIN longer = 1..n
<1> DEFINE S == {block[d] : d \in made} \union {x}
<1>1. PICK n \in Nat : made = 1..n
  BY DEF BlocksInv
<1>2. block \in [1..n -> S]
  BY <1>1 DEF BlocksInv
<1>3. block \in Seq(S) /\ x \in S
  BY <1>2, SeqDef
<1> HIDE DEF S
<1>4. Len(block) = n
  BY <1>2, <1>3, LenProperties, <1>1
<1>5. PICK q : q = Append(block, x)
  OBVIOUS
<1>6. /\ q \in Seq(S) /\ Len(q) = n + 1
      /\ \A i \in 1..n : q[i] = block[i]
      /\ q[n + 1] = x
  BY <1>3, <1>4, <1>5, AppendProperties
<1>7. q \in [1..Len(q) -> S]
  BY <1>6, LenProperties
<1>8. q \in [1..(n + 1) -> S]
  BY <1>6, <1>7
<1>9. /\ DOMAIN q = made \union {n + 1} /\ n + 1 \notin made
      /\ q = [d \in DOMAIN q |-> q[d]] /\ DOMAIN q = 1..(n + 1)
  BY <1>1, <1>8
<1>10. QED
  BY <1>1, <1>4, <1>5, <1>6, <1>9

LEMMA NewBlockKeeps ==
  ASSUME Core, NewBlock
  PROVE  Core'
<1>0. PICK t, e : t = TailBlock /\ e = Len(block) + 1
  OBVIOUS
<1>1. ppc = "new" /\ enq.Block = t
  BY <1>0 DEF NewBlock, Core, ProducerInv
<1>2. t \in made /\ block[t].Next \in Ring
  BY <1>0, TailIs
<1>3. NewBlockSize \in Powers /\ NewBlockSize >= 2 /\ NewBlockSize \in Nat
      /\ NewBlockSize <= EXPECTED_BLOCK_SIZE
  BY NewBlockSizeIs DEF Core
<1>4. PICK s : s = NewBlockSize
  OBVIOUS
<1> DEFINE x == [MakeBlock(s, block[t].Next) EXCEPT !.Data[0] = enqueued, !.Tail = 1, !.LocalTail = 1]
<1>5. /\ block' = Append(block, x) /\ enq' = [enq EXCEPT !.Tail = e]
      /\ BlockSize' = s /\ ppc' = "link"
      /\ UNCHANGED consumer /\ UNCHANGED <<TailBlock, enqueued>>
  BY <1>0, <1>1, <1>4 DEF NewBlock
<1>6. /\ x.Front = 0 /\ x.Tail = 1 /\ x.LocalFront = 0 /\ x.LocalTail = 1
      /\ x.Next = block[t].Next /\ x.Size = s
      /\ x.Data = [i \in 0..(s - 1) |-> IF i = 0 THEN enqueued ELSE Raw]
      /\ IsBlock(x)
  BY <1>3, <1>4 DEF MakeBlock, IsBlock, Fields
<1> HIDE DEF x
<1>7. /\ e \notin made /\ made' = made \union {e} /\ block'[e] = x
      /\ \A d \in made : block'[d] = block[d]
      /\ block' = [d \in made' |-> block'[d]] /\ \E n \in Nat : made' = 1..n
  BY <1>0, <1>5, AppendIs DEF Core, made
<1>8. /\ DOMAIN enq' = DOMAIN enq /\ enq'.Block = t /\ enq'.Tail = e /\ enq'.Mode = enq.Mode
  BY <1>1, <1>5 DEF Core, ProducerInv
<1>9. Ring = made /\ Ring' = made
  BY <1>1, <1>5, <1>7, <1>8 DEF Ring
<1>10. /\ FrontBlock' = FrontBlock /\ dequeued' = dequeued /\ cpc' = cpc /\ deq' = deq
  BY <1>5 DEF consumer
<1>11. BlocksInv'
  <2>1. CopiesOld(e)'
    BY <1>3, <1>4, <1>6, <1>7 DEF CopiesOld, Used, Ahead
  <2>2. ASSUME NEW d \in made'
        PROVE  IsBlock(block'[d]) /\ CopiesOld(d)' /\ NextOf(d)' \in Ring'
    <3>1. CASE d = e
      BY <1>2, <1>6, <1>7, <1>9, <2>1, <3>1 DEF NextOf
    <3>2. CASE d # e
      <4>1. d \in made /\ block'[d] = block[d]
        BY <1>7, <3>2
      <4>2. QED
        BY <1>9, <4>1 DEF Core, BlocksInv, CopiesOld, Used, Ahead, NextOf
    <3>3. QED
      BY <3>1, <3>2
  <2>3. QED
    BY <1>3, <1>4, <1>5, <1>7, <2>2 DEF BlocksInv
<1>12. ASSUME NEW d \in Ring
       PROVE  /\ NextOf(d) \in Ring /\ block'[d] = block[d]
              /\ Length(d)' = Length(d) /\ Start(d)' = Start(d)
              /\ InUse(d)' = InUse(d)
              /\ Written(d)' <=> Written(d)
  <2>1. block'[d] = block[d] /\ NextOf(d) \in Ring
    BY <1>7, <1>9 DEF Core, BlocksInv
  <2>2. ~Written(d)' /\ ~Written(d) /\ ~InTransit(d) /\ ~InTransit(d)'
    BY <1>1, <1>5 DEF Written, InTransit, Filling
  <2>3. InUse(d)' = InUse(d)
    BY <2>1, <2>2 DEF InUse, Used, Ahead
  <2>4. Length(d)' = Length(d) /\ Start(d)' = Start(d)
    BY <1>10, <2>1, <2>3 DEF Length, Start, Exposed, Taken, After
  <2>5. QED
    BY <2>1, <2>2, <2>3, <2>4
<1>13. RingInv' /\ ItemsInv'
  BY <1>5, <1>9, <1>10, <1>12, SameItems DEF Core
<1>14. ConsumerInv'
  <2>1. PICK f : f = FrontBlock
    OBVIOUS
  <2>2. f \in made /\ f \in Ring /\ InUse(f) = Used(f) /\ IsBlock(block[f])
    BY <2>1, FrontIs
  <2>3. Length(f) \in Int /\ Length(f)' = Length(f)
    <3>1. Used(f) \in Int
      BY <2>2, UsedIs DEF IsBlock
    <3>2. QED
      BY <1>12, <2>2, <3>1 DEF Length
  <2>4. f # TailBlock => LET m == block[f].Next
                         IN  block'[m].Front = block[m].Front /\ block'[m].LocalTail = block[m].LocalTail
    BY <1>12, <2>1, NextIs DEF NextOf
  <2>5. enqueued' \in Nat /\ enqueued' >= enqueued
    BY <1>5 DEF Core, ItemsInv
  <2>6. /\ block'[f].Size = block[f].Size /\ block'[f].Front = block[f].Front
        /\ block'[f].LocalTail = block[f].LocalTail
        /\ DOMAIN block'[f].Data = DOMAIN block[f].Data
        /\ block'[f].Tail = block[f].Tail /\ block'[f].Next = block[f].Next
    BY <1>12, <2>2
  <2>7. Length(f)' \in Int /\ Length(f)' >= Length(f)
    BY <2>3
  <2>8. QED
    BY <1>5, <2>1, <2>2, <2>3, <2>4, <2>5, <2>6, <2>7, ConsumerKept
<1>15. ProducerInv'
  <2>1. TailBlock' = t /\ NextOf(t)' = block[t].Next /\ NextOf(e)' = block[t].Next
    BY <1>0, <1>2, <1>5, <1>6, <1>7 DEF NextOf
  <2>2. NextOf(TailBlock)' = NextOf(t)' /\ NextOf(enq.Tail)' = NextOf(e)'
    BY <1>8, <2>1
  <2>3. e \in made' /\ enqueued' = enqueued
    BY <1>5, <1>7
  <2>4. \A i \in DOMAIN block'[e].Data :
          block'[e].Data[i] = IF i = 0 THEN enqueued' ELSE Raw
    BY <1>6, <1>7, <2>3
  <2>5. QED
    BY <1>5, <1>6, <1>7, <1>8, <2>1, <2>2, <2>3, <2>4
    DEF Core, ProducerInv, AtTail, Filling
<1>16. QED
  BY <1>11, <1>13, <1>14, <1>15 DEF Core

LEMMA LinkKeeps ==
  ASSUME Core, Link
  PROVE  Core'
<1>0. PICK t, e, n : t = TailBlock /\ e = enq.Tail /\ n = block[TailBlock].Next
  OBVIOUS
<1>1. /\ ppc = "link" /\ enq.Block = t /\ e \in made /\ NextOf(e) = n
      /\ block[e].Front = 0 /\ block[e].Tail = 1 /\ block[e].LocalFront = 0
      /\ \A i \in DOMAIN block[e].Data :
            block[e].Data[i] = IF i = 0 THEN enqueued ELSE Raw
  BY <1>0 DEF Link, Core, ProducerInv, NextOf
<1>2. Ring = made \ {e}
  BY <1>0, <1>1 DEF Ring
<1>3. /\ t \in made /\ t \in Ring /\ t # e /\ n \in Ring /\ FrontBlock \in Ring
      /\ IsBlock(block[t]) /\ IsBlock(block[e]) /\ CopiesOld(e)
  BY <1>0, <1>1, <1>2, TailIs, FrontIs DEF Core, BlocksInv
<1> DEFINE r == [block[t] EXCEPT !.Next = e]
<1>4. /\ block' = [block EXCEPT ![t] = r] /\ enq' = [enq EXCEPT !.Block = e] /\ ppc' = "publish"
      /\ UNCHANGED consumer /\ UNCHANGED <<TailBlock, BlockSize, enqueued>>
  BY <1>0, <1>1 DEF Link
<1>5. /\ r.Front = block[t].Front /\ r.Tail = block[t].Tail /\ r.Next = e
      /\ r.LocalFront = block[t].LocalFront /\ r.LocalTail = block[t].LocalTail
      /\ r.Size = block[t].Size /\ r.Data = block[t].Data
      /\ IsBlock(r)
  BY <1>3 DEF IsBlock, Fields
<1> HIDE DEF r
<1>6. /\ block'[t] = r /\ made' = made /\ \A d \in made : d # t => block'[d] = block[d]
      /\ block' = [d \in made |-> block'[d]]
  BY <1>3, <1>4 DEF made, Core, BlocksInv
<1>7. /\ DOMAIN enq' = DOMAIN enq /\ enq'.Block = e /\ enq'.Tail = e /\ enq'.Mode = enq.Mode
  BY <1>0, <1>4 DEF Core, ProducerInv
<1>8. /\ Ring' = made
      /\ FrontBlock' = FrontBlock /\ dequeued' = dequeued /\ cpc' = cpc /\ deq' = deq
  BY <1>4, <1>6 DEF Ring, consumer
<1>9. \A d \in made :
        /\ block'[d].Size = block[d].Size /\ block'[d].Front = block[d].Front
        /\ block'[d].Tail = block[d].Tail /\ block'[d].LocalTail = block[d].LocalTail
        /\ block'[d].LocalFront = block[d].LocalFront /\ block'[d].Data = block[d].Data
        /\ NextOf(d)' = IF d = t THEN e ELSE NextOf(d)
        /\ d # t => block'[d].Next = block[d].Next
  BY <1>5, <1>6 DEF NextOf
<1>10. ASSUME NEW d \in made
       PROVE  /\ InUse(d)' = (IF d = e THEN 0 ELSE InUse(d))
              /\ d # e => Length(d)' = Length(d)
              /\ Start(d)' = Start(d)
              /\ Written(d)' <=> d = e
              /\ ~Written(d)
              /\ First(d)' = First(d)
              /\ NextOf(d) \in Ring
              /\ Used(d)' = Used(d)
              /\ \A i : Place(d, i)' = Place(d, i)
  <2>1. Used(d)' = Used(d)
    BY <1>9 DEF Used, Ahead
  <2>2. InUse(d)' = IF d = e THEN 0 ELSE InUse(d)
    BY <1>1, <1>4, <1>7, <2>1 DEF InUse, InTransit, Filling
  <2>3. d # e => Length(d)' = Length(d)
    BY <1>8, <2>2 DEF Length, Exposed, Taken
  <2>4. Start(d)' = Start(d) /\ First(d)' = First(d)
    BY <1>8, <1>9 DEF Start, First, Exposed, Taken, After
  <2>5. (Written(d)' <=> d = e) /\ ~Written(d)
    BY <1>1, <1>4, <1>7 DEF Written
  <2>6. \A i : Place(d, i)' = Place(d, i)
    BY <1>9, <2>4 DEF Place, Ahead
  <2>7. QED
    BY <2>1, <2>2, <2>3, <2>4, <2>5, <2>6 DEF Core, BlocksInv
<1>11. /\ Length(e)' = 0 /\ ~Active(e)' /\ Start(e) = 0
       /\ \A d \in Ring : Active(d)' <=> Active(d)
  <2>1. e # FrontBlock
    BY <1>2, <1>3
  <2>2. Length(e)' = 0 /\ ~Active(e)' /\ Start(e) = 0
    BY <1>1, <1>8, <1>10, <2>1 DEF Length, Active, Start, Exposed, Taken
  <2>3. QED
    BY <1>2, <1>8, <1>10, <2>2 DEF Active
<1>12. BlocksInv'
  <2>1. ASSUME NEW d \in made
        PROVE  IsBlock(block'[d]) /\ CopiesOld(d)' /\ NextOf(d)' \in Ring'
    <3>1. CopiesOld(d)'
      BY <1>9, <1>10 DEF CopiesOld, Ahead, Core, BlocksInv
    <3>2. IsBlock(block'[d])
      BY <1>5, <1>6 DEF Core, BlocksInv
    <3>3. NextOf(d)' \in Ring'
      BY <1>1, <1>2, <1>8, <1>9, <1>10
    <3>4. QED
      BY <3>1, <3>2, <3>3
  <2>2. QED
    BY <1>4, <1>6, <2>1 DEF Core, BlocksInv
<1>13. /\ \A p, q \in Ring : NextOf(p) = NextOf(q) => p = q
       /\ \A p \in Ring : (Active(p) /\ p # t)
                            <=> (Active(NextOf(p)) /\ NextOf(p) # FrontBlock)
       /\ NextOf(t) = n /\ Active(t)
  BY <1>0 DEF Core, RingInv, NextOf
<1>14. RingInv'
  <2>1. ASSUME NEW p \in made
        PROVE  ((Active(p) /\ p # TailBlock)
                 <=> (Active(NextOf(p)) /\ NextOf(p) # FrontBlock))'
    <3>1. PICK q : q = NextOf(p)'
      OBVIOUS
    <3>2. (Active(p)' /\ p # t) <=> (Active(q)' /\ q # FrontBlock)
      <4>1. CASE p = t
        <5>1. q = e
          BY <1>3, <1>9, <3>1, <4>1
        <5>2. QED
          BY <1>11, <4>1, <5>1
      <4>2. CASE p = e
        <5>1. q = n /\ ~(Active(n) /\ n # FrontBlock)
          BY <1>1, <1>3, <1>9, <1>13, <3>1, <4>2
        <5>2. QED
          BY <1>3, <1>11, <4>2, <5>1
      <4>3. CASE p # t /\ p # e
        <5>1. p \in Ring /\ q = NextOf(p) /\ q \in Ring
          BY <1>2, <1>9, <1>10, <3>1, <4>3
        <5>2. QED
          BY <1>11, <1>13, <5>1
      <4>4. QED
        BY <4>1, <4>2, <4>3
    <3>3. QED
      BY <1>0, <1>4, <1>8, <3>1, <3>2
  <2>2. ASSUME NEW p \in made, NEW q \in made, NextOf(p)' = NextOf(q)'
        PROVE  p = q
    <3>1. ASSUME NEW c \in made, c # t, c # e
          PROVE  c \in Ring /\ NextOf(c)' = NextOf(c) /\ NextOf(c) # e
                 /\ NextOf(c) # n
      BY <1>2, <1>3, <1>9, <1>10, <1>13, <3>1
    <3>2. NextOf(t)' = e /\ NextOf(e)' = n /\ n # e
      BY <1>1, <1>2, <1>3, <1>9
    <3>3. CASE p \in {t, e} \/ q \in {t, e}
      BY <2>2, <3>1, <3>2, <3>3
    <3>4. CASE p \notin {t, e} /\ q \notin {t, e}
      BY <1>13, <2>2, <3>1, <3>4
    <3>5. QED
      BY <3>3, <3>4
  <2>3. Active(TailBlock)'
    <3>1. Active(t)'
      BY <1>3, <1>11, <1>13
    <3>2. QED
      BY <1>0, <1>4, <3>1
  <2>4. FrontBlock' \in Ring' /\ TailBlock' \in Ring'
    BY <1>0, <1>2, <1>3, <1>4, <1>8
  <2>5. QED
    BY <1>8, <2>1, <2>2, <2>3, <2>4 DEF RingInv
<1>15. ItemsInv'
  <2>1. ASSUME NEW d \in made, NEW i \in DOMAIN (block[d].Data)'
        PROVE  (block[d].Data[i])' = Content(d, i)'
    <3>1. i \in DOMAIN block[d].Data /\ block'[d].Data[i] = block[d].Data[i]
      BY <1>9
    <3>2. CASE d = e
      <4>1. i \in 0..(block[e].Size - 1) /\ block[e].Size \in Nat
        BY <1>3, <3>1, <3>2 DEF IsBlock
      <4>2. Place(e, i) = i
        BY <1>11, <4>1 DEF Place, Ahead
      <4>3. Place(e, i)' = i /\ Length(e)' = 0 /\ Written(e)' /\ enqueued' = enqueued
        BY <1>4, <1>10, <1>11, <3>2, <4>2
      <4>4. Content(e, i)' = IF i = 0 THEN enqueued ELSE Raw
        BY <4>1, <4>3 DEF Content
      <4>5. QED
        BY <1>1, <3>1, <3>2, <4>4
    <3>3. CASE d # e
      <4>1. d \in Ring /\ block[d].Data[i] = Content(d, i)
        BY <1>2, <3>1, <3>3 DEF Core, ItemsInv
      <4>2. QED
        BY <1>10, <3>1, <3>3, <4>1 DEF Content
    <3>4. QED
      BY <3>2, <3>3
  <2>2. ASSUME NEW d \in made
        PROVE  /\ Length(d)' > 0 => First(d)' \in Nat
               /\ Active(d)' => First(d)' + Length(d)' <= enqueued'
    <3>1. CASE d = e
      BY <1>11, <3>1
    <3>2. CASE d # e
      BY <1>2, <1>4, <1>10, <1>11, <3>2 DEF Core, ItemsInv
    <3>3. QED
      BY <3>1, <3>2
  <2>3. ASSUME NEW d \in made, Active(d)', d # t
        PROVE  First(NextOf(d))' = First(d)' + Length(d)'
    <3>1. PICK q : q = NextOf(d)
      OBVIOUS
    <3>2. d # e /\ d \in Ring /\ q = NextOf(d)' /\ q \in made /\ Active(d)
      BY <1>2, <1>9, <1>10, <1>11, <2>3, <3>1
    <3>3. First(q) = First(d) + Length(d)
      BY <1>0, <2>3, <3>1, <3>2 DEF Core, ItemsInv
    <3>4. First(q)' = First(d)' + Length(d)'
      BY <1>10, <3>2, <3>3
    <3>5. QED
      BY <3>2, <3>4
  <2>4. (First(TailBlock) + Length(TailBlock) = enqueued)'
    <3>1. First(t) + Length(t) = enqueued
      BY <1>0 DEF Core, ItemsInv
    <3>2. First(t)' + Length(t)' = enqueued'
      BY <1>3, <1>4, <1>10, <3>1
    <3>3. QED
      BY <1>0, <1>4, <3>2
  <2>5. enqueued' \in Nat /\ dequeued' \in Nat /\ TailBlock' = t
    BY <1>0, <1>4, <1>8 DEF Core, ItemsInv
  <2>6. QED
    BY <1>8, <2>1, <2>2, <2>3, <2>4, <2>5 DEF ItemsInv
<1>16. ConsumerInv'
  <2>1. PICK f : f = FrontBlock
    OBVIOUS
  <2>2. f \in made /\ f \in Ring /\ f # e /\ InUse(f) = Used(f) /\ IsBlock(block[f])
    BY <1>2, <2>1, FrontIs
  <2>3. Length(f) \in Int /\ Length(f)' = Length(f)
    <3>1. Used(f) \in Int
      BY <2>2, UsedIs DEF IsBlock
    <3>2. QED
      BY <1>10, <2>2, <3>1 DEF Length
  <2>4. f # TailBlock => LET m == block[f].Next
                         IN  block'[m].Front = block[m].Front /\ block'[m].LocalTail = block[m].LocalTail
    BY <1>9, <2>1, NextIs DEF NextOf
  <2>5. enqueued' \in Nat /\ enqueued' >= enqueued
    BY <1>4 DEF Core, ItemsInv
  <2>6. /\ block'[f].Size = block[f].Size /\ block'[f].Front = block[f].Front
        /\ block'[f].LocalTail = block[f].LocalTail
        /\ DOMAIN block'[f].Data = DOMAIN block[f].Data
        /\ block'[f].Tail = block[f].Tail
        /\ f # TailBlock => block'[f].Next = block[f].Next
    BY <1>0, <1>9, <2>2
  <2>7. Length(f)' \in Int /\ Length(f)' >= Length(f)
    BY <2>3
  <2>8. QED
    BY <1>4, <2>1, <2>2, <2>3, <2>4, <2>5, <2>6, <2>7, ConsumerKept
<1>17. ProducerInv'
  <2>1. TailBlock' = t /\ NextOf(t)' = e /\ e # FrontBlock'
    BY <1>0, <1>2, <1>3, <1>4, <1>8, <1>9
  <2>2. NextOf(TailBlock)' = NextOf(t)'
    BY <2>1
  <2>3. After(e, block[e].Front)' = 1
    BY <1>1, <1>3, <1>9 DEF After, IsBlock
  <2>4. After(enq.Block, block[enq.Block].Front)' = After(e, block[e].Front)'
    BY <1>7
  <2>5. block'[e].Front = 0 /\ block'[e].Tail = 1 /\ block'[e].LocalFront = 0
    BY <1>1, <1>9
  <2>6. QED
    BY <1>4, <1>7, <2>1, <2>2, <2>3, <2>4, <2>5
    DEF Core, ProducerInv, AtTail, Filling
<1>18. QED
  BY <1>12, <1>14, <1>15, <1>16, <1>17 DEF Core

\* The block filled becomes the producer's: its item is published.
LEMMA StoreTailBlockKeeps ==
  ASSUME Core, StoreTailBlock
  PROVE  Core'
<1>0. PICK t, n : t = TailBlock /\ n = enq.Block
  OBVIOUS
<1>1. /\ ppc = "publish" /\ ppc \in Filling /\ n = NextOf(t) /\ n # FrontBlock
      /\ block[n].LocalFront = block[n].Front /\ block[n].Tail = After(n, block[n].Front)
  BY <1>0 DEF StoreTailBlock, Core, ProducerInv, Filling
<1>2. /\ n \in made /\ n \in Ring /\ n # t /\ InUse(n) = 0 /\ Length(n) = 0
      /\ IsBlock(block[n]) /\ CopiesOld(n) /\ Start(n) = block[n].Front
  BY <1>0, <1>1, BehindTailIs
<1>3. t \in made /\ t \in Ring /\ Active(t)
  BY <1>0, TailIs DEF Core, RingInv
<1>4. /\ block[n].Front \in 0..(block[n].Size - 1)
      /\ block[n].Size \in Nat /\ block[n].Size >= 2
  BY <1>2 DEF IsBlock
<1>5. Used(n) = 1
  BY <1>1, <1>4 DEF Used, Ahead, After
<1>6. /\ TailBlock' = n /\ enqueued' = enqueued + 1 /\ ppc' = "idle" /\ enq' = NoEnq
      /\ block' = block /\ BlockSize' = BlockSize /\ UNCHANGED consumer
  BY <1>0 DEF StoreTailBlock
<1>7. /\ made' = made /\ Ring' = Ring /\ Ring \subseteq made
      /\ FrontBlock' = FrontBlock /\ dequeued' = dequeued /\ cpc' = cpc /\ deq' = deq
  BY <1>1, <1>6 DEF made, Ring, consumer, Filling
<1>8. enqueued \in Nat /\ dequeued \in Nat
  BY DEF Core, ItemsInv
<1>9. BlocksInv'
  BY <1>6, <1>7, BlocksSame DEF Core
<1>10. ASSUME NEW d \in Ring
       PROVE  /\ Start(d)' = Start(d) /\ First(d)' = First(d)
              /\ d # n => InUse(d)' = InUse(d) /\ Length(d)' = Length(d)
              /\ NextOf(d) \in Ring /\ NextOf(d)' = NextOf(d)
              /\ ~Written(d)'
              /\ Written(d) <=> d = n
              /\ \A i : Place(d, i)' = Place(d, i)
  <2>1. Start(d)' = Start(d) /\ First(d)' = First(d)
    BY <1>6, <1>7 DEF Start, First, Exposed, Taken, After
  <2>2. NextOf(d) \in Ring /\ NextOf(d)' = NextOf(d)
    BY <1>6, <1>7 DEF Core, BlocksInv, NextOf
  <2>3. /\ InTransit(d) <=> d = n
        /\ ~InTransit(d)' /\ ~Written(d)' /\ (Written(d) <=> d = n)
    BY <1>0, <1>1, <1>6 DEF InTransit, Written, Filling
  <2>4. ASSUME d # n PROVE InUse(d)' = InUse(d) /\ Length(d)' = Length(d)
    <3>1. Used(d)' = Used(d)
      BY <1>6 DEF Used, Ahead
    <3>2. InUse(d)' = InUse(d)
      BY <2>3, <2>4, <3>1 DEF InUse
    <3>3. QED
      BY <1>7, <3>2 DEF Length, Exposed, Taken
  <2>5. \A i : Place(d, i)' = Place(d, i)
    BY <1>6, <2>1 DEF Place, Ahead
  <2>6. QED
    BY <2>1, <2>2, <2>3, <2>4, <2>5
<1>11. InUse(n)' = 1 /\ Length(n)' = 1 /\ Active(n)' /\ ~Active(n)
  <2>1. ~InTransit(n)' /\ Used(n)' = Used(n)
    BY <1>6 DEF InTransit, Filling, Used, Ahead
  <2>2. InUse(n)' = 1
    BY <1>5, <2>1 DEF InUse
  <2>3. Length(n)' = 1
    BY <1>1, <1>7, <2>2 DEF Length, Exposed, Taken
  <2>4. QED
    BY <1>1, <1>2, <2>2, <2>3 DEF Active
<1>12. \A d \in Ring : d # n => (Active(d)' <=> Active(d))
  BY <1>7, <1>10 DEF Active
<1>13. /\ \A p, q \in Ring : NextOf(p) = NextOf(q) => p = q
       /\ \A p \in Ring : (Active(p) /\ p # t)
                            <=> (Active(NextOf(p)) /\ NextOf(p) # FrontBlock)
       /\ FrontBlock \in Ring
  BY <1>0 DEF Core, RingInv
<1>14. RingInv'
  <2>1. ASSUME NEW p \in Ring
        PROVE  ((Active(p) /\ p # TailBlock)
                 <=> (Active(NextOf(p)) /\ NextOf(p) # FrontBlock))'
    <3>1. PICK q : q = NextOf(p)
      OBVIOUS
    <3>2. q \in Ring /\ q = NextOf(p)'
      BY <1>10, <3>1
    <3>3. (Active(p)' /\ p # n) <=> (Active(q)' /\ q # FrontBlock)
      <4>1. CASE p = t
        BY <1>1, <1>2, <1>3, <1>11, <1>12, <3>1, <4>1
      <4>2. CASE p = n
        <5>1. q # n
          BY <1>1, <1>2, <1>3, <1>13, <3>1, <4>2
        <5>2. ~(Active(q) /\ q # FrontBlock)
          BY <1>2, <1>11, <1>13, <3>1, <4>2
        <5>3. QED
          BY <1>12, <3>2, <4>2, <5>1, <5>2
      <4>3. CASE p # t /\ p # n
        <5>1. q # n
          BY <1>1, <1>3, <1>13, <3>1, <4>3
        <5>2. QED
          BY <1>12, <1>13, <3>1, <3>2, <4>3, <5>1
      <4>4. QED
        BY <4>1, <4>2, <4>3
    <3>4. QED
      BY <1>6, <1>7, <3>2, <3>3
  <2>2. \A p, q \in Ring : NextOf(p)' = NextOf(q)' => p = q
    BY <1>10, <1>13
  <2>3. Active(TailBlock)'
    BY <1>6, <1>11
  <2>4. QED
    BY <1>2, <1>6, <1>7, <1>13, <2>1, <2>2, <2>3 DEF RingInv
<1>15. First(n)' = enqueued
  <2>1. block[n].Front \in DOMAIN block[n].Data /\ Place(n, block[n].Front) = 0
    BY <1>2, <1>4 DEF IsBlock, Place, Ahead
  <2>2. block[n].Data[block[n].Front] = Content(n, block[n].Front)
    BY <1>2, <2>1 DEF Core, ItemsInv
  <2>3. block[n].Data[block[n].Front] = enqueued
    BY <1>2, <1>10, <2>1, <2>2 DEF Content
  <2>4. QED
    BY <1>1, <1>2, <1>10, <2>3 DEF First
<1>16. ItemsInv'
  <2>1. ASSUME NEW d \in Ring, NEW k \in DOMAIN (block[d].Data)'
        PROVE  (block[d].Data[k])' = Content(d, k)'
    <3>1. /\ k \in DOMAIN block[d].Data /\ block[d].Data[k] = Content(d, k)
          /\ block'[d].Data[k] = block[d].Data[k]
      BY <1>6 DEF Core, ItemsInv
    <3>2. CASE d # n
      BY <1>10, <3>1, <3>2 DEF Content
    <3>3. CASE d = n
      <4>1. k \in 0..(block[n].Size - 1)
        BY <1>2, <3>1, <3>3 DEF IsBlock
      <4>2. Place(n, k) \in Nat
        BY <1>2, <1>4, <4>1 DEF Place, Ahead
      <4>3. Content(n, k) = IF Place(n, k) = 0 THEN enqueued ELSE Raw
        BY <1>2, <1>10, <4>2 DEF Content
      <4>4. Place(n, k)' = Place(n, k) /\ ~Written(n)'
        BY <1>2, <1>10
      <4>5. Content(n, k)' = IF Place(n, k) = 0 THEN enqueued + Place(n, k) ELSE Raw
        BY <1>11, <1>15, <4>2, <4>4 DEF Content
      <4>6. QED
        BY <1>8, <3>1, <3>3, <4>3, <4>5
    <3>4. QED
      BY <3>2, <3>3
  <2>2. ASSUME NEW d \in Ring
        PROVE  /\ Length(d)' > 0 => First(d)' \in Nat
               /\ Active(d)' => First(d)' + Length(d)' <= enqueued'
    <3>1. CASE d = n
      BY <1>6, <1>8, <1>11, <1>15, <3>1
    <3>2. CASE d # n
      <4>1. (Length(d) > 0 => First(d) \in Nat) /\ (Active(d) => First(d) + Length(d) <= enqueued)
        BY DEF Core, ItemsInv
      <4>2. Active(d) => First(d) + Length(d) \in Int
        <5>1. IsBlock(block[d])
          BY <1>7 DEF Core, BlocksInv
        <5>2. Used(d) \in Int
          BY <5>1, UsedIs DEF IsBlock
        <5>3. Length(d) \in Int
          BY <5>2 DEF Length, InUse
        <5>4. Active(d) => First(d) \in Int
          BY <1>8, <4>1 DEF Active, First, Length, Taken, Exposed
        <5>5. QED
          BY <5>3, <5>4
      <4>3. Active(d) => First(d) + Length(d) <= enqueued + 1
        BY <1>8, <4>1, <4>2
      <4>4. QED
        BY <1>6, <1>10, <1>12, <3>2, <4>1, <4>3
    <3>3. QED
      BY <3>1, <3>2
  <2>3. ASSUME NEW d \in Ring, Active(d)', d # n
        PROVE  First(NextOf(d))' = First(d)' + Length(d)'
    <3>1. PICK q : q = NextOf(d)
      OBVIOUS
    <3>2. q \in Ring /\ q = NextOf(d)' /\ Active(d)
      BY <1>10, <1>12, <2>3, <3>1
    <3>3. First(q)' = First(d)' + Length(d)'
      <4>1. CASE d = t
        <5>1. q = n /\ First(t) + Length(t) = enqueued
          BY <1>0, <1>1, <3>1, <4>1 DEF Core, ItemsInv
        <5>2. QED
          BY <1>2, <1>3, <1>10, <1>15, <4>1, <5>1
      <4>2. CASE d # t
        <5>1. First(q) = First(d) + Length(d)
          BY <1>0, <3>1, <3>2, <4>2 DEF Core, ItemsInv
        <5>2. QED
          BY <1>10, <2>3, <3>2, <5>1
      <4>3. QED
        BY <4>1, <4>2
    <3>4. QED
      BY <3>2, <3>3
  <2>4. (First(TailBlock) + Length(TailBlock) = enqueued)'
    BY <1>6, <1>8, <1>11, <1>15
  <2>5. enqueued' \in Nat /\ dequeued' \in Nat
    BY <1>6, <1>7, <1>8
  <2>6. QED
    BY <1>6, <1>7, <2>1, <2>2, <2>3, <2>4, <2>5 DEF ItemsInv
<1>17. ConsumerInv'
  <2>1. PICK f : f = FrontBlock
    OBVIOUS
  <2>2. f \in made /\ f \in Ring /\ f # n /\ InUse(f) = Used(f) /\ IsBlock(block[f])
    BY <1>1, <2>1, FrontIs
  <2>3. Length(f) \in Int /\ Length(f)' = Length(f)
    <3>1. Used(f) \in Int
      BY <2>2, UsedIs DEF IsBlock
    <3>2. QED
      BY <1>10, <2>2, <3>1 DEF Length
  <2>4. enqueued' \in Nat /\ enqueued' >= enqueued
    BY <1>6, <1>8
  <2>5. Length(f)' \in Int /\ Length(f)' >= Length(f)
    BY <2>3
  <2>6. TailBlock' # FrontBlock
    BY <1>1, <1>6
  <2>7. QED
    BY <1>6, <2>1, <2>2, <2>3, <2>4, <2>5, <2>6, ConsumerKept
<1>18. ProducerInv'
  BY <1>6 DEF NoEnq, Modes, ProducerInv, AtTail, Filling
<1>19. QED
  BY <1>9, <1>14, <1>16, <1>17, <1>18 DEF Core

-----------------------------------------------------------------------------
(* Destruction. *)

LEMMA ModIs ==
  ASSUME NEW b, IsBlock(block[b]), NEW i \in 0..(block[b].Size - 1),
         NEW j \in 0..(block[b].Size - 1)
  PROVE  (j - i) % block[b].Size = Ahead(b, i, j)
<1> DEFINE S == block[b].Size
<1>1. S \in Nat /\ S >= 2
  BY DEF IsBlock
<1> HIDE DEF S
<1>2. CASE i <= j
  BY <1>1, <1>2 DEF Ahead, S
<1>3. CASE ~(i <= j)
  BY <1>1, <1>3 DEF Ahead, S
<1>4. QED
  BY <1>2, <1>3

\* A slot has a published item, the item the producer is at, or none.
LEMMA ContentIs ==
  ASSUME Core, NEW b \in Ring, NEW i \in DOMAIN block[b].Data
  PROVE  /\ block[b].Data[i] = Content(b, i)
         /\ Place(b, i) < Length(b) => Content(b, i) \in Nat
         /\ Content(b, i) \in Nat \union {Raw}
<1>1. IsBlock(block[b]) /\ i \in 0..(block[b].Size - 1)
  BY DEF Core, BlocksInv, Ring, IsBlock
<1>2. Place(b, i) \in Nat /\ Length(b) \in Int
  <2>1. Place(b, i) \in Nat
    BY <1>1, StartIs, AheadIs DEF Place, IsBlock
  <2>2. Used(b) \in Int
    BY <1>1, UsedIs DEF IsBlock
  <2>3. QED
    BY <2>1, <2>2 DEF Length, InUse
<1>3. Length(b) > 0 => First(b) \in Nat
  BY DEF Core, ItemsInv
<1>4. block[b].Data[i] = Content(b, i) /\ enqueued \in Nat
  BY DEF Core, ItemsInv
<1>5. QED
  BY <1>2, <1>3, <1>4 DEF Content

\* The slots between the indexes are those with an item.
LEMMA ClearKeeps ==
  ASSUME Core, Clear
  PROVE  QueueInv'
<1>1. ppc = "idle" /\ cpc = "idle" /\ ppc' = "cleared" /\ cpc' = "cleared"
  BY DEF Clear
<1>2. Ring = made /\ made' = made
  BY <1>1 DEF Ring, Clear, made
<1>3. ASSUME NEW b \in made, NEW i \in DOMAIN block'[b].Data
      PROVE  block'[b].Data[i] = Raw
  <2>1. IsBlock(block[b]) /\ DOMAIN block'[b].Data = DOMAIN block[b].Data
    BY DEF Core, BlocksInv, Clear, IsBlock, Fields
  <2>2. i \in DOMAIN block[b].Data /\ i \in 0..(block[b].Size - 1)
    BY <2>1 DEF IsBlock
  <2>3. block'[b].Data[i] = IF i \notin Remaining(b) THEN block[b].Data[i]
                            ELSE IF block[b].Data[i] \in {Raw, Bad} THEN Bad ELSE Raw
    BY <2>1, <2>2 DEF Clear, IsBlock, Fields
  <2>4. Start(b) = block[b].Front /\ Length(b) = Used(b) /\ ~Written(b)
    BY <1>1 DEF Start, Length, InUse, Taken, Exposed, InTransit, Written, Filling
  <2>5. i \in Remaining(b) <=> Place(b, i) < Length(b)
    <3>1. (i - block[b].Front) % block[b].Size = Place(b, i)
      BY <2>1, <2>2, <2>4, ModIs DEF IsBlock, Place
    <3>2. (block[b].Tail - block[b].Front) % block[b].Size = Length(b)
      BY <2>1, <2>4, ModIs DEF IsBlock, Used
    <3>3. QED
      BY <2>2, <3>1, <3>2 DEF Remaining
  <2>6. /\ block[b].Data[i] = Content(b, i)
        /\ Place(b, i) < Length(b) => Content(b, i) \in Nat
    BY <1>2, <2>2, ContentIs
  <2>7. CASE i \in Remaining(b)
    BY <2>3, <2>5, <2>6, <2>7, ReaderWriterQueueAssumption
  <2>8. CASE i \notin Remaining(b)
    BY <2>3, <2>4, <2>5, <2>6, <2>8 DEF Content
  <2>9. QED
    BY <2>7, <2>8
<1>4. LifetimesRight'
  BY <1>2, <1>3, ReaderWriterQueueAssumption DEF LifetimesRight
<1>5. QED
  BY <1>1, <1>4 DEF QueueInv

-----------------------------------------------------------------------------
(* Every step. *)

LEMMA CoreRuns ==
  ASSUME Core
  PROVE  ppc # "cleared" /\ cpc # "cleared" /\ QueueInv
BY DEF Core, ProducerInv, ConsumerInv, AtTail, AtFront, Filling, QueueInv

LEMMA CoreNext ==
  ASSUME Core, Next
  PROVE  QueueInv'
<1>1. ASSUME \/ \E mode \in Modes : BeginEnqueue(mode)
             \/ EnqueueStep
      PROVE  Core'
  <2>1. CASE \/ \E mode \in Modes : BeginEnqueue(mode)
             \/ LoadFrontBlock \/ ConstructThrows \/ Full
    BY <2>1, ProducerLooks
  <2>2. CASE LoadFront
    BY <2>2, LoadFrontKeeps
  <2>3. CASE LoadNextFront
    BY <2>3, LoadNextFrontKeeps
  <2>4. CASE Construct
    BY <2>4, ConstructKeeps
  <2>5. CASE StoreTail
    BY <2>5, StoreTailKeeps
  <2>6. CASE StoreNextTail
    BY <2>6, StoreNextTailKeeps
  <2>7. CASE NewBlock
    BY <2>7, NewBlockKeeps
  <2>8. CASE Link
    BY <2>8, LinkKeeps
  <2>9. CASE StoreTailBlock
    BY <2>9, StoreTailBlockKeeps
  <2>10. QED
    BY <1>1, <2>1, <2>2, <2>3, <2>4, <2>5, <2>6, <2>7, <2>8, <2>9 DEF EnqueueStep
<1>2. ASSUME \/ \E o \in {"dequeue", "peek", "pop"} : BeginDequeue(o)
             \/ DequeueStep
      PROVE  Core'
  <2>1. CASE \/ \E o \in {"dequeue", "peek", "pop"} : BeginDequeue(o)
             \/ LoadTailBlock \/ HaveItem \/ Return
    BY <2>1, ConsumerLooks
  <2>2. CASE LoadTail
    BY <2>2, LoadTailKeeps
  <2>3. CASE ReloadTail
    BY <2>3, ReloadTailKeeps
  <2>4. CASE LoadNext
    BY <2>4, LoadNextKeeps
  <2>5. CASE StoreFrontBlock
    BY <2>5, StoreFrontBlockKeeps
  <2>6. CASE MoveOut
    BY <2>6, MoveOutKeeps
  <2>7. CASE StoreFront
    BY <2>7, StoreFrontKeeps
  <2>8. QED
    BY <1>2, <2>1, <2>2, <2>3, <2>4, <2>5, <2>6, <2>7 DEF DequeueStep
<1>3. Core' => QueueInv'
  BY DEF Core, ProducerInv, ConsumerInv, AtTail, AtFront, Filling, QueueInv
<1>4. CASE Clear
  BY <1>4, ClearKeeps
<1>5. ~Cleared
  BY CoreRuns DEF Cleared
<1>6. QED
  BY <1>1, <1>2, <1>3, <1>4, <1>5 DEF Next

\* Nothing is done to a queue that is gone.
LEMMA ClearedNext ==
  ASSUME ppc = "cleared", cpc = "cleared", Next
  PROVE  UNCHANGED vars
<1>1. ~EnqueueStep /\ ~\E mode \in Modes : BeginEnqueue(mode)
  BY DEF EnqueueStep, BeginEnqueue, LoadFront, LoadFrontBlock, LoadNextFront, Construct, StoreTail,
         StoreNextTail, NewBlock, Link, StoreTailBlock, ConstructThrows, Full
<1>2. ~DequeueStep /\ ~\E o \in {"dequeue", "peek", "pop"} : BeginDequeue(o)
  BY DEF DequeueStep, BeginDequeue, LoadTailBlock, LoadTail, HaveItem, ReloadTail, LoadNext,
         StoreFrontBlock, MoveOut, StoreFront, Return
<1>3. QED
  BY <1>1, <1>2 DEF Next, Clear, Cleared

LEMMA QueueStays ==
  ASSUME QueueInv, UNCHANGED vars
  PROVE  QueueInv'
<1>1. /\ block' = block /\ FrontBlock' = FrontBlock /\ TailBlock' = TailBlock
      /\ BlockSize' = BlockSize /\ ppc' = ppc /\ enq' = enq /\ cpc' = cpc /\ deq' = deq
      /\ enqueued' = enqueued /\ dequeued' = dequeued
      /\ UNCHANGED producer /\ UNCHANGED consumer
  BY DEF vars, producer, consumer
<1>2. CASE ppc = "cleared"
  BY <1>1, <1>2 DEF QueueInv, LifetimesRight, made
<1>3. CASE ppc # "cleared"
  <2>1. Core /\ made' = made /\ Ring' = Ring
    BY <1>1, <1>3 DEF QueueInv, made, Ring
  <2>2. ASSUME NEW b \in Ring
        PROVE  InUse(b)' = InUse(b) /\ (Written(b)' <=> Written(b))
    BY <1>1 DEF InUse, InTransit, Used, Ahead, Written
  <2>3. RingInv' /\ ItemsInv' /\ ConsumerInv'
    BY <1>1, <2>1, <2>2, ProducerQuiet
  <2>4. BlocksInv'
    BY <1>1, <2>1, BlocksSame DEF Core
  <2>5. ppc = "nextFront" \/ ppc \in Filling => FrontBlock' # NextOf(TailBlock)
    BY <1>1, <2>1 DEF Core, ProducerInv
  <2>6. ProducerInv'
    BY <1>1, <2>1, <2>5, ProducerKept
  <2>7. QED
    BY <1>1, <1>3, <2>1, <2>3, <2>4, <2>6 DEF QueueInv, Core
<1>4. QED
  BY <1>2, <1>3

-----------------------------------------------------------------------------
(* Theorems. *)

\* The indexes, their copies, the ring and the items in it are as they should be
\* after every step of InnerEnqueue, TryDequeue, Peek and Pop.
THEOREM QueueCorrect ==
  ASSUME ReservedSize > 0
  PROVE  Spec => []QueueInv
<1>1. Init => QueueInv
  BY InitInv
<1>2. QueueInv /\ [Next]_vars => QueueInv'
  <2>1. ASSUME QueueInv, Next, ppc # "cleared"
        PROVE  QueueInv'
    BY <2>1, CoreNext DEF QueueInv
  <2>2. ASSUME QueueInv, Next, ppc = "cleared"
        PROVE  QueueInv'
    BY <2>2, ClearedNext, QueueStays DEF QueueInv
  <2>3. QED
    BY <2>1, <2>2, QueueStays
<1>3. QED
  BY <1>1, <1>2, PTL DEF Spec

\* No slot is used while it has an object in it, none is emptied that has none, and
\* the destructors of the blocks leave no object behind.
THEOREM LifetimesCorrect ==
  ASSUME ReservedSize > 0
  PROVE  Spec => []LifetimesRight
<1>1. QueueInv => LifetimesRight
  <2> SUFFICES ASSUME Core
               PROVE  LifetimesRight
    BY DEF QueueInv
  <2>1. ASSUME NEW b \in made, NEW i \in DOMAIN block[b].Data
        PROVE  block[b].Data[i] # Bad
    <3>1. CASE b \in Ring
      BY <3>1, ContentIs, ReaderWriterQueueAssumption
    <3>2. CASE b \notin Ring
      BY <3>2, ReaderWriterQueueAssumption DEF Ring, Core, ProducerInv, ItemsInv
    <3>3. QED
      BY <3>1, <3>2
  <2>2. QED
    BY <2>1, CoreRuns DEF LifetimesRight
<1>2. QED
  BY <1>1, QueueCorrect, PTL

\* TryDequeue, Peek and Pop say that the queue is empty only if every item that was
\* published when they began has been taken, though they read an old copy of the tail.
THEOREM EmptyAnswersRight ==
  ASSUME ReservedSize > 0
  PROVE  Spec => []EmptyIsEmpty
<1>1. QueueInv => EmptyIsEmpty
  BY DEF QueueInv, Core, ConsumerInv, ItemsInv, EmptyIsEmpty
<1>2. QED
  BY <1>1, QueueCorrect, PTL

\* The asserts of InnerEnqueue and TryDequeue about the block they go on to hold.
THEOREM AssertionsHold ==
  ASSUME ReservedSize > 0
  PROVE  Spec => []NextBlockAsserted
<1>1. QueueInv => NextBlockAsserted
  BY DEF QueueInv, Core, ProducerInv, ConsumerInv, Filling, NextBlockAsserted, NextBlockEmpty,
         NextBlockNotEmpty
<1>2. QED
  BY <1>1, QueueCorrect, PTL

-----------------------------------------------------------------------------
(* The abstract queue. *)

LEMMA FifoInit ==
  ASSUME Init
  PROVE  Fifo!Init
BY DEF Init, Fifo!Init, Held

LEMMA FifoProduces ==
  ASSUME QueueInv, EnqueueStep \/ \E mode \in Modes : BeginEnqueue(mode)
  PROVE  [Fifo!Next]_(Fifo!vars)
<1>1. UNCHANGED consumer /\ Held' = Held
  BY DEF EnqueueStep, BeginEnqueue, LoadFront, LoadFrontBlock, LoadNextFront, Construct, StoreTail,
         StoreNextTail, NewBlock, Link, StoreTailBlock, ConstructThrows, Full, consumer, Held
<1>2. dequeued' = dequeued /\ [c \in {"consumer"} |-> Held]' = [c \in {"consumer"} |-> Held]
  BY <1>1 DEF consumer
<1>3. CASE StoreTail \/ StoreTailBlock
  <2>1. enqueued' = enqueued + 1 /\ enqueued \in Nat
    <3>1. ppc # "cleared"
      BY <1>3 DEF StoreTail, StoreTailBlock
    <3>2. QED
      BY <1>3, <3>1 DEF StoreTail, StoreTailBlock, QueueInv, Core, ItemsInv
  <2>2. QED
    BY <1>2, <2>1 DEF Fifo!Next, Fifo!Publish
<1>4. CASE ~(StoreTail \/ StoreTailBlock)
  <2>1. enqueued' = enqueued
    BY <1>4 DEF EnqueueStep, BeginEnqueue, LoadFront, LoadFrontBlock, LoadNextFront, Construct,
                StoreNextTail, NewBlock, Link, ConstructThrows, Full, Produce
  <2>2. QED
    BY <1>2, <2>1 DEF Fifo!vars
<1>5. QED
  BY <1>3, <1>4

LEMMA FifoConsumes ==
  ASSUME QueueInv, DequeueStep \/ \E o \in {"dequeue", "peek", "pop"} : BeginDequeue(o)
  PROVE  [Fifo!Next]_(Fifo!vars)
<1>0. Core /\ enqueued' = enqueued
  <2>1. cpc # "cleared" /\ UNCHANGED producer
    BY DEF DequeueStep, BeginDequeue, LoadTailBlock, LoadTail, HaveItem, ReloadTail, LoadNext,
           StoreFrontBlock, MoveOut, StoreFront, Return
  <2>2. QED
    BY <2>1 DEF QueueInv, producer
<1>1. CASE MoveOut
  <2>1. cpc \in {"take", "takeNext", "takeLast"} /\ dequeued' = dequeued + 1 /\ deq.op # "peek"
    BY <1>0, <1>1 DEF MoveOut, Core, ConsumerInv
  <2>2. PICK f : f = FrontBlock
    OBVIOUS
  <2>3. /\ block[deq.Block].Data[deq.Front] = dequeued /\ Length(f) \in Nat /\ Length(f) >= 1
    <3>1. deq.Block = f /\ Length(f) \in 1..block[f].Size /\ block[f].Data[deq.Front] = dequeued
      BY <1>0, <2>1, <2>2, FrontHasItem
    <3>2. QED
      BY <3>1
  <2>4. Held = {} /\ Held' = {dequeued}
    <3>1. /\ cpc' \in {"store", "return"} /\ deq'.item = dequeued /\ deq'.op = deq.op
      BY <1>0, <1>1, <2>1, <2>3 DEF MoveOut, Core, ConsumerInv
    <3>2. QED
      BY <2>1, <3>1 DEF Held
  <2>5. dequeued \in Nat /\ enqueued \in Nat /\ dequeued < enqueued
    <3>1. First(f) + Length(f) <= enqueued /\ First(f) = dequeued
      BY <1>0, <2>2 DEF Core, ItemsInv, RingInv, Active, First
    <3>2. QED
      BY <1>0, <2>3, <3>1 DEF Core, ItemsInv
  <2>6. Fifo!Acquire("consumer")
    <3>1. 1 \in 0..(enqueued - dequeued) /\ dequeued..(dequeued + 1 - 1) = {dequeued}
      BY <2>5
    <3>2. [c \in {"consumer"} |-> Held]' =
            [[c \in {"consumer"} |-> Held] EXCEPT !["consumer"] = dequeued..(dequeued + 1 - 1)]
      BY <2>4, <3>1
    <3>3. [c \in {"consumer"} |-> Held]["consumer"] = {}
      BY <2>4
    <3>4. QED
      BY <1>0, <2>1, <3>1, <3>2, <3>3 DEF Fifo!Acquire
  <2>7. QED
    BY <2>6 DEF Fifo!Next
<1>2. CASE Return
  <2>1. Held' = {} /\ dequeued' = dequeued
    BY <1>2 DEF Return, Held
  <2>2. [c \in {"consumer"} |-> Held]' = [[c \in {"consumer"} |-> Held] EXCEPT !["consumer"] = {}]
    BY <2>1
  <2>3. Fifo!Release("consumer")
    BY <1>0, <2>1, <2>2 DEF Fifo!Release
  <2>4. QED
    BY <2>3 DEF Fifo!Next
<1>3. CASE ~(MoveOut \/ Return)
  <2>1. dequeued' = dequeued
    BY <1>3 DEF DequeueStep, BeginDequeue, LoadTailBlock, LoadTail, HaveItem, ReloadTail, LoadNext,
                StoreFrontBlock, StoreFront, Consume
  <2>2. Held' = Held
    <3>1. CASE StoreFront
      BY <1>0, <3>1 DEF StoreFront, Consume, Held, Core, ConsumerInv
    <3>2. CASE ReloadTail \/ HaveItem
      BY <3>2 DEF ReloadTail, HaveItem, Consume, Held
    <3>3. CASE LoadNext \/ LoadTail
      BY <1>0, <3>3 DEF LoadNext, LoadTail, Held, Core, ConsumerInv
    <3>4. CASE LoadTailBlock \/ StoreFrontBlock \/ \E o \in {"dequeue", "peek", "pop"} : BeginDequeue(o)
      BY <3>4 DEF LoadTailBlock, StoreFrontBlock, BeginDequeue, Consume, Held
    <3>5. QED
      BY <1>3, <3>1, <3>2, <3>3, <3>4 DEF DequeueStep
  <2>3. QED
    BY <1>0, <2>1, <2>2 DEF Fifo!vars
<1>4. QED
  BY <1>1, <1>2, <1>3

\* The ring is a first-in first-out queue: the consumer takes the items one by one,
\* each one once, in the order in which the producer published them.
THEOREM FifoImplemented ==
  ASSUME ReservedSize > 0
  PROVE  Spec => ImplementsFifo
<1>1. QueueInv /\ [Next]_vars => [Fifo!Next]_(Fifo!vars)
  <2> SUFFICES ASSUME QueueInv, [Next]_vars
               PROVE  [Fifo!Next]_(Fifo!vars)
    OBVIOUS
  <2>1. CASE EnqueueStep \/ \E mode \in Modes : BeginEnqueue(mode)
    BY <2>1, FifoProduces
  <2>2. CASE DequeueStep \/ \E o \in {"dequeue", "peek", "pop"} : BeginDequeue(o)
    BY <2>2, FifoConsumes
  <2>3. CASE Clear \/ UNCHANGED vars
    <3>1. Held' = Held /\ enqueued' = enqueued /\ dequeued' = dequeued
      BY <2>3 DEF Clear, vars, producer, consumer, Held
    <3>2. QED
      BY <3>1 DEF Fifo!vars
  <2>4. QED
    BY <2>1, <2>2, <2>3 DEF Next, Cleared
<1>2. QED
  BY <1>1, FifoInit, QueueCorrect, PTL DEF Spec, Fifo!Spec, ImplementsFifo

-----------------------------------------------------------------------------
(* What the reserved size is for. *)

\* The slots of a block that is full; the blocks hang together in one ring.
IsFull(b) == After(b, block[b].Tail) = block[b].Front
OneRing == \A S \in SUBSET Ring : S # {} /\ (\A b \in S : NextOf(b) \in S) => S = Ring

\* The blocks have room for what is reserved: one alone, or all but one of them.
RoomInv ==
  /\ Len(block) >= InitialCount
  /\ \A b \in made : IF InitialCount = 1 THEN block[b].Size > ReservedSize
                     ELSE block[b].Size = EXPECTED_BLOCK_SIZE
  /\ IF InitialCount = 1 THEN BlockSize > ReservedSize ELSE BlockSize = EXPECTED_BLOCK_SIZE

\* The producer leaves a block full, and the consumer leaves it empty.
Leaving == {"next", "nextFront", "new", "link"} \union Filling
FullInv ==
  /\ \A b \in Ring \ {FrontBlock, TailBlock} :
       InTransit(b) \/ block[b].Front = block[b].Tail \/ IsFull(b)
  /\ ppc \in Leaving /\ FrontBlock # TailBlock => IsFull(TailBlock)

\* The items not returned yet; no more than when the call began.
Waiting == enqueued - dequeued + Cardinality(Held)
WaitingInv ==
  /\ ppc \in {"front", "next", "full"} => enq.waiting \in Int /\ enq.waiting >= Waiting
  /\ ppc = "next" /\ InitialCount = 1 => enq.waiting >= ReservedSize
  /\ ppc = "full" => enq.waiting >= ReservedSize

ReserveInv ==
  /\ QueueInv
  /\ ppc # "cleared" => OneRing /\ RoomInv /\ FullInv /\ WaitingInv

-----------------------------------------------------------------------------
\* The natural numbers are well-founded, so that induction over them needs no operator.
LEMMA NatWF == IsWellFoundedOn({ss \in Nat \X Nat : ss[1] < ss[2]}, Nat)
  BY NatLessThanWellFounded DEF OpToRel

\* A set of natural numbers that is not empty has a least element.
LEMMA Least ==
  ASSUME NEW T, T \subseteq Nat, T # {}
  PROVE  \E x \in T : \A y \in T : x <= y
<1> DEFINE R == {ss \in Nat \X Nat : ss[1] < ss[2]}
<1>1. IsWellFoundedOn(R, Nat)
  BY NatWF
<1>2. \E x \in T : \A y \in T : ~ (<<y, x>> \in R)
  <2> HIDE DEF R
  <2> QED BY <1>1, WFMin
<1>3. PICK x \in T : \A y \in T : ~ (<<y, x>> \in R)
  BY <1>2
<1>4. ASSUME NEW y \in T PROVE x <= y
  <2>1. x \in Nat /\ y \in Nat
    OBVIOUS
  <2>2. ~(y < x)
    BY <1>3, <2>1
  <2> QED BY <2>1, <2>2
<1> QED BY <1>3, <1>4

\* Blocks one after the other whose items follow each other, D in each, have items of
\* their own: none has the number of another's.
LEMMA Apart ==
  ASSUME NEW R, NEW tail \in R, NEW next \in [R -> R], NEW first \in [R -> Int],
         NEW Rest \in SUBSET R, tail \in Rest,
         NEW D \in Nat, NEW hi \in Int,
         \A b, c \in R : next[b] = next[c] => b = c,
         \A b \in Rest \ {tail} : next[b] \in Rest /\ first[next[b]] = first[b] + D,
         \A b \in Rest : first[b] + D <= hi,
         first[tail] + D = hi, D > 0,
         NEW b \in Rest, NEW c \in Rest, b # c
  PROVE  first[b] + D <= first[c] \/ first[c] + D <= first[b]
<1> DEFINE Meet(x, y) == x # y /\ first[x] < first[y] + D /\ first[y] < first[x] + D
           T == {m \in Nat : \E x, y \in Rest : Meet(x, y) /\ m = hi - first[x]}
<1>1. SUFFICES ASSUME Meet(b, c) PROVE FALSE
  <2>1. first[b] \in Int /\ first[c] \in Int
    OBVIOUS
  <2> QED BY <2>1
<1>2. hi - first[b] \in T
  <2>1. first[b] \in Int /\ first[b] + D <= hi
    OBVIOUS
  <2>2. hi - first[b] \in Nat
    BY <2>1
  <2> QED BY <1>1, <2>2
<1>3. PICK m \in T : \A k \in T : m <= k
  <2>1. T \subseteq Nat /\ T # {}
    BY <1>2
  <2> HIDE DEF T
  <2> QED BY <2>1, Least
<1>4. PICK x \in Rest, y \in Rest : Meet(x, y) /\ m = hi - first[x]
  BY <1>3
<1>5. first[x] \in Int /\ first[y] \in Int /\ first[x] + D <= hi /\ first[y] + D <= hi
  OBVIOUS
<1>6. x # tail
  <2> SUFFICES ASSUME x = tail PROVE FALSE
    OBVIOUS
  <2>1. y # tail
    BY <1>4
  <2>2. next[y] \in Rest /\ first[next[y]] = first[y] + D /\ first[next[y]] + D <= hi
    BY <2>1
  <2>3. first[x] + D = hi
    OBVIOUS
  <2> QED BY <1>4, <1>5, <2>2, <2>3
<1>7. y # tail
  <2> SUFFICES ASSUME y = tail PROVE FALSE
    OBVIOUS
  <2>2. next[x] \in Rest /\ first[next[x]] = first[x] + D /\ first[next[x]] + D <= hi
    BY <1>6
  <2>3. first[y] + D = hi
    OBVIOUS
  <2> QED BY <1>4, <1>5, <2>2, <2>3
<1>8. PICK u \in Rest, v \in Rest : u = next[x] /\ v = next[y]
  BY <1>6, <1>7
<1>9. first[u] = first[x] + D /\ first[v] = first[y] + D /\ u # v /\ first[u] + D <= hi
  BY <1>4, <1>6, <1>7, <1>8
<1>10. Meet(u, v)
  BY <1>4, <1>5, <1>9
<1>11. hi - first[u] \in Nat /\ hi - first[u] < m
  BY <1>4, <1>5, <1>9
<1>12. hi - first[u] \in T
  BY <1>10, <1>11
<1>13. m \in Nat
  BY <1>3
<1> QED BY <1>3, <1>11, <1>12, <1>13

\* So they have as many items as there are numbers in between.
LEMMA RoomCounts ==
  ASSUME NEW Rest, IsFiniteSet(Rest), NEW first \in [Rest -> Int],
         NEW D \in Nat, D > 0, NEW lo \in Int, NEW hi \in Int, lo <= hi,
         \A b \in Rest : lo <= first[b] /\ first[b] + D <= hi,
         \A b, c \in Rest : b # c => first[b] + D <= first[c] \/ first[c] + D <= first[b]
  PROVE  Cardinality(Rest) * D <= hi - lo
<1> DEFINE P == Rest \X (0..(D - 1))
           Q == lo..(hi - 1)
           f == [p \in P |-> first[p[1]] + p[2]]
<1>1. IsFiniteSet(0..(D - 1)) /\ Cardinality(0..(D - 1)) = D
  <2>1. D - 1 \in Int /\ D - 1 >= 0
    OBVIOUS
  <2> QED BY <2>1, FS_Interval
<1>2. IsFiniteSet(P) /\ Cardinality(P) = Cardinality(Rest) * D
  BY <1>1, FS_Product
<1>3. IsFiniteSet(Q) /\ Cardinality(Q) = hi - lo
  <2>1. hi - 1 \in Int
    OBVIOUS
  <2> QED BY <2>1, FS_Interval
<1>4. ASSUME NEW b \in Rest, NEW i \in 0..(D - 1)
      PROVE  first[b] + i \in Q /\ first[b] \in Int
  <2>1. first[b] \in Int /\ lo <= first[b] /\ first[b] + D <= hi
    OBVIOUS
  <2> QED BY <2>1
<1>5. ASSUME NEW b \in Rest, NEW i \in 0..(D - 1), NEW c \in Rest, NEW j \in 0..(D - 1),
             first[b] + i = first[c] + j
      PROVE  b = c /\ i = j
  <2>1. first[b] \in Int /\ first[c] \in Int
    OBVIOUS
  <2>2. b = c
    BY <1>5, <2>1
  <2> QED BY <1>5, <2>1, <2>2
<1>6. f \in Injection(P, Q)
  <2>1. f \in [P -> Q]
    BY <1>4
  <2>2. \A p, q \in P : f[p] = f[q] => p = q
    <3> SUFFICES ASSUME NEW p \in P, NEW q \in P, f[p] = f[q] PROVE p = q
      OBVIOUS
    <3>1. p = <<p[1], p[2]>> /\ q = <<q[1], q[2]>> /\ p[1] \in Rest /\ q[1] \in Rest
          /\ p[2] \in 0..(D - 1) /\ q[2] \in 0..(D - 1)
      OBVIOUS
    <3>2. first[p[1]] + p[2] = first[q[1]] + q[2]
      OBVIOUS
    <3>3. p[1] = q[1] /\ p[2] = q[2]
      BY <1>5, <3>1, <3>2
    <3> QED BY <3>1, <3>3
  <2> HIDE DEF P, Q, f
  <2> QED BY <2>1, <2>2 DEF Injection, IsInjective
<1>7. Cardinality(P) <= Cardinality(Q)
  <2> HIDE DEF P, Q, f
  <2> QED BY <1>3, <1>6, FS_Injection
<1> QED BY <1>2, <1>3, <1>7

\* One item at most is on its way to the consumer's caller.
LEMMA HeldIs ==
  /\ Cardinality(Held) = IF cpc = "store" \/ (cpc = "return" /\ deq.op # "peek") THEN 1 ELSE 0
  /\ Cardinality(Held)' = IF cpc' = "store" \/ (cpc' = "return" /\ deq'.op # "peek") THEN 1 ELSE 0
BY FS_Singleton, FS_EmptySet DEF Held

\* The consumer leaves no more waiting than there were.
LEMMA WaitingFalls ==
  ASSUME Core, (\E o \in {"dequeue", "peek", "pop"} : BeginDequeue(o)) \/ DequeueStep
  PROVE  Waiting' \in Int /\ Waiting' <= Waiting
<1>1. enqueued \in Nat /\ dequeued \in Nat
  BY DEF Core, ItemsInv
<1>2. enqueued' = enqueued
  BY DEF BeginDequeue, DequeueStep, LoadTailBlock, LoadTail, HaveItem, ReloadTail, LoadNext,
         StoreFrontBlock, MoveOut, StoreFront, Return, producer
<1>3. PICK h \in {0, 1} : h = Cardinality(Held)
  BY HeldIs
<1>4. PICK k \in {0, 1} : k = Cardinality(Held)'
  BY HeldIs
<1>5. CASE MoveOut
  <2>1. dequeued' = dequeued + 1
    BY <1>5 DEF MoveOut
  <2> QED BY <1>1, <1>2, <1>3, <1>4, <2>1 DEF Waiting
<1>6. CASE ~MoveOut
  <2>1. dequeued' = dequeued
    BY <1>6 DEF BeginDequeue, DequeueStep, LoadTailBlock, LoadTail, HaveItem, ReloadTail, LoadNext,
         StoreFrontBlock, StoreFront, Return, Consume
  <2>2. k <= h
    <3>1. CASE \E o \in {"dequeue", "peek", "pop"} : BeginDequeue(o)
      BY <1>3, <1>4, <3>1, HeldIs DEF BeginDequeue
    <3>2. CASE LoadTailBlock
      BY <1>3, <1>4, <3>2, HeldIs DEF LoadTailBlock, Consume
    <3>3. CASE LoadTail
      BY <1>3, <1>4, <3>3, HeldIs DEF LoadTail
    <3>4. CASE HaveItem
      BY <1>3, <1>4, <3>4, HeldIs DEF HaveItem, Consume
    <3>5. CASE ReloadTail
      <4>1. cpc' \in {"empty", "take"} \/ (cpc' = "return" /\ deq'.op = "peek")
        BY <3>5 DEF ReloadTail, Consume
      <4> QED BY <1>3, <1>4, <4>1, HeldIs
    <3>6. CASE LoadNext
      <4>1. deq'.op = deq.op /\ cpc' = IF deq.op = "peek" THEN "return" ELSE "advance"
        BY <3>6 DEF LoadNext, Core, ConsumerInv
      <4> QED BY <1>3, <1>4, <4>1, HeldIs
    <3>7. CASE StoreFrontBlock
      BY <1>3, <1>4, <3>7, HeldIs DEF StoreFrontBlock
    <3>8. CASE StoreFront
      <4>1. \/ cpc = "store"
            \/ cpc' = "takeLast"
        BY <3>8 DEF StoreFront, Consume
      <4> QED BY <1>3, <1>4, <4>1, HeldIs
    <3>9. CASE Return
      BY <1>3, <1>4, <3>9, HeldIs DEF Return
    <3> QED BY <1>6, <3>1, <3>2, <3>3, <3>4, <3>5, <3>6, <3>7, <3>8, <3>9 DEF DequeueStep
  <2> QED BY <1>1, <1>2, <1>3, <1>4, <2>1, <2>2 DEF Waiting
<1> QED BY <1>5, <1>6

\* The items of every block in use are still in the queue.
LEMMA StoredAfter ==
  ASSUME Core, OneRing, NEW b \in Ring, Active(b)
  PROVE  First(b) \in Nat /\ First(b) >= dequeued
<1> DEFINE S == {c \in Ring : Active(c) => First(c) \in Nat /\ First(c) >= dequeued}
<1>1. FrontBlock \in S /\ dequeued \in Nat
  BY FrontIs DEF Core, ItemsInv
<1>2. ASSUME NEW c \in S PROVE NextOf(c) \in S
  <2>1. PICK n \in Ring : n = NextOf(c)
    BY DEF Core, BlocksInv, Ring
  <2>2. CASE n = FrontBlock
    BY <1>1, <2>1, <2>2
  <2>3. CASE ~Active(n)
    BY <2>1, <2>3
  <2>4. CASE n # FrontBlock /\ Active(n)
    <3>1. Active(c) /\ c # TailBlock
      BY <2>1, <2>4 DEF Core, RingInv
    <3>2. First(n) = First(c) + Length(c)
      BY <2>1, <3>1 DEF Core, ItemsInv
    <3>3. Length(c) \in Nat
      <4>1. c \in made /\ IsBlock(block[c])
        BY DEF Core, BlocksInv, Ring
      <4>2. InUse(c) \in Nat
        BY <4>1, UsedIs DEF InUse
      <4>3. CASE c # FrontBlock
        BY <4>2, <4>3 DEF Length, Exposed, Taken
      <4>4. CASE c = FrontBlock
        <5>1. First(n) = dequeued + Length(FrontBlock) /\ InUse(n) > 0 /\ n \in made
          BY <2>1, <3>1, <4>4, NextIs
        <5>2. Taken(c) => InUse(c) > 0
          <6>1. Taken(c) => block[c].Front # block[c].LocalTail
            BY <4>4 DEF Taken, Core, ConsumerInv
          <6>2. Ahead(c, block[c].Front, block[c].LocalTail) <= Used(c)
            BY <4>1 DEF Core, BlocksInv, CopiesOld
          <6>3. PICK i \in 0..(block[c].Size - 1), j \in 0..(block[c].Size - 1) :
                  i = block[c].Front /\ j = block[c].LocalTail
            BY <4>1 DEF IsBlock
          <6>4. Ahead(c, i, j) \in 0..(block[c].Size - 1) /\ (Ahead(c, i, j) = 0 <=> i = j)
            BY <4>1, AheadIs
          <6>5. Used(c) \in Nat /\ (Taken(c) => Used(c) > 0)
            BY <4>1, <6>1, <6>2, <6>3, <6>4, UsedIs
          <6>6. InUse(c) = Used(c)
            BY <4>4, FrontIs
          <6> QED BY <6>5, <6>6
        <5> QED BY <4>2, <5>2 DEF Length
      <4> QED BY <4>3, <4>4
    <3>4. First(c) \in Nat /\ First(c) >= dequeued
      BY <3>1
    <3>5. PICK x \in Nat, y \in Nat : x = First(c) /\ y = Length(c)
      BY <3>3, <3>4
    <3>6. First(n) \in Nat /\ First(n) >= dequeued
      BY <1>1, <3>2, <3>4, <3>5
    <3> QED BY <2>1, <3>6
  <2> QED BY <2>2, <2>3, <2>4
<1>3. S = Ring
  <2>1. S \in SUBSET Ring /\ S # {}
    BY <1>1
  <2> HIDE DEF S
  <2> QED BY <1>2, <2>1 DEF OneRing
<1> QED BY <1>3

\* A step that links no block leaves the ring whole.
LEMMA OneRingKept ==
  ASSUME Core, OneRing, Ring' = Ring, \A b \in Ring : block'[b].Next = block[b].Next
  PROVE  OneRing'
<1> SUFFICES ASSUME NEW S \in SUBSET Ring, S # {}, \A b \in S : block'[b].Next \in S
             PROVE  S = Ring
  BY DEF OneRing, NextOf
<1>1. \A b \in S : NextOf(b) \in S
  BY DEF NextOf
<1> QED BY <1>1 DEF OneRing

\* The blocks keep their sizes.
LEMMA RoomKept ==
  ASSUME RoomInv, BlockSize' = BlockSize, made' = made, Len(block') = Len(block),
         \A b \in made : block'[b].Size = block[b].Size
  PROVE  RoomInv'
BY DEF RoomInv

\* The blocks between the consumer's and the producer's stay full, the others empty.
LEMMA FullKept ==
  ASSUME FullInv,
         \A b \in Ring' \ {FrontBlock', TailBlock'} :
           \/ InTransit(b)'
           \/ block'[b].Front = block'[b].Tail
           \/ After(b, block[b].Tail) = block[b].Front /\ block'[b].Size = block[b].Size
              /\ block'[b].Tail = block[b].Tail /\ block'[b].Front = block[b].Front
           \/ /\ b \in Ring \ {FrontBlock, TailBlock} /\ ~InTransit(b)
              /\ block'[b].Size = block[b].Size /\ block'[b].Tail = block[b].Tail
              /\ block'[b].Front = block[b].Front,
         ppc' \in Leaving /\ FrontBlock' # TailBlock' =>
           /\ block'[TailBlock].Size = block[TailBlock].Size
           /\ block'[TailBlock].Tail = block[TailBlock].Tail
           /\ block'[TailBlock].Front = block[TailBlock].Front
           /\ TailBlock' = TailBlock
           /\ IsFull(TailBlock) \/ (ppc \in Leaving /\ FrontBlock # TailBlock)
  PROVE  FullInv'
<1>1. ASSUME NEW b, block'[b].Size = block[b].Size, block'[b].Tail = block[b].Tail,
             block'[b].Front = block[b].Front, IsFull(b)
      PROVE  IsFull(b)'
  BY <1>1 DEF IsFull, After
<1>2. ASSUME NEW b \in Ring' \ {FrontBlock', TailBlock'}
      PROVE  InTransit(b)' \/ block'[b].Front = block'[b].Tail \/ IsFull(b)'
  <2>1. CASE InTransit(b)' \/ block'[b].Front = block'[b].Tail
    BY <2>1
  <2>2. CASE After(b, block[b].Tail) = block[b].Front /\ block'[b].Size = block[b].Size
              /\ block'[b].Tail = block[b].Tail /\ block'[b].Front = block[b].Front
    BY <1>1, <2>2 DEF IsFull
  <2>3. CASE /\ b \in Ring \ {FrontBlock, TailBlock} /\ ~InTransit(b)
             /\ block'[b].Size = block[b].Size /\ block'[b].Tail = block[b].Tail
             /\ block'[b].Front = block[b].Front
    <3>1. block[b].Front = block[b].Tail \/ IsFull(b)
      BY <2>3 DEF FullInv
    <3> QED BY <1>1, <2>3, <3>1
  <2> QED BY <2>1, <2>2, <2>3
<1>3. ASSUME ppc' \in Leaving, FrontBlock' # TailBlock' PROVE IsFull(TailBlock)'
  <2>1. PICK t : t = TailBlock
    OBVIOUS
  <2>2. IsFull(t)
    BY <1>3, <2>1 DEF FullInv
  <2>3. IsFull(t)'
    BY <1>1, <1>3, <2>1, <2>2
  <2> QED BY <1>3, <2>1, <2>3
<1> QED BY <1>2, <1>3 DEF FullInv, Leaving, Filling

\* A step of the consumer.
LEMMA ConsumerReserves ==
  ASSUME Core, Core', OneRing, RoomInv, FullInv, WaitingInv,
         (\E o \in {"dequeue", "peek", "pop"} : BeginDequeue(o)) \/ DequeueStep
  PROVE  OneRing' /\ RoomInv' /\ FullInv' /\ WaitingInv'
<1>1. UNCHANGED producer
  BY DEF BeginDequeue, DequeueStep, LoadTailBlock, LoadTail, HaveItem, ReloadTail, LoadNext,
         StoreFrontBlock, MoveOut, StoreFront, Return
<1>2. /\ ppc' = ppc /\ enq' = enq /\ TailBlock' = TailBlock /\ BlockSize' = BlockSize
  BY <1>1 DEF producer
<1>3. /\ made' = made /\ Len(block') = Len(block)
      /\ \A b \in made : /\ block'[b].Size = block[b].Size /\ block'[b].Tail = block[b].Tail
                         /\ block'[b].Next = block[b].Next
                         /\ b # FrontBlock => block'[b].Front = block[b].Front
  <2>1. CASE block' = block
    BY <2>1 DEF made
  <2>2. ASSUME NEW r, block' = [block EXCEPT ![FrontBlock] = r],
               r.Size = block[FrontBlock].Size, r.Tail = block[FrontBlock].Tail,
               r.Next = block[FrontBlock].Next
        PROVE  <1>3
    <3>1. made' = made /\ \A b \in made : block'[b] = IF b = FrontBlock THEN r ELSE block[b]
      BY <2>2 DEF made
    <3>2. Len(block') = Len(block)
      BY <2>2
    <3> QED BY <2>2, <3>1, <3>2
  <2>3. FrontBlock \in made /\ DOMAIN block[FrontBlock] = Fields
    BY FrontIs DEF IsBlock
  <2>4. CASE LoadTail \/ ReloadTail \/ MoveOut \/ StoreFront
    <3>1. deq.Block = FrontBlock
      BY <2>4 DEF LoadTail, ReloadTail, MoveOut, StoreFront, Core, ConsumerInv, AtFront
    <3>2. CASE LoadTail
      BY <2>2, <2>3, <3>1, <3>2 DEF LoadTail, Fields
    <3>3. CASE ReloadTail
      BY <2>2, <2>3, <3>1, <3>3 DEF ReloadTail, Fields
    <3>4. CASE MoveOut
      BY <2>2, <2>3, <3>1, <3>4 DEF MoveOut, Fields
    <3>5. CASE StoreFront
      BY <2>2, <2>3, <3>1, <3>5 DEF StoreFront, Fields
    <3> QED BY <2>4, <3>2, <3>3, <3>4, <3>5
  <2>5. CASE LoadNext
    <3>1. PICK n : n = block[deq.Block].Next
      OBVIOUS
    <3>2. deq.Block = FrontBlock /\ FrontBlock \in Ring
      BY <2>5, FrontIs DEF LoadNext, Core, ConsumerInv, AtFront
    <3>3. n \in made /\ DOMAIN block[n] = Fields
      BY <3>1, <3>2 DEF Core, BlocksInv, Ring, NextOf, IsBlock
    <3>4. PICK r : r = [block[n] EXCEPT !.LocalTail = block[n].Tail]
      OBVIOUS
    <3>5. r.Size = block[n].Size /\ r.Tail = block[n].Tail /\ r.Next = block[n].Next
          /\ r.Front = block[n].Front
      BY <3>3, <3>4 DEF Fields
    <3>6. block' = [block EXCEPT ![n] = r]
      BY <2>5, <3>1, <3>4 DEF LoadNext
    <3>7. made' = made /\ \A b \in made : block'[b] = IF b = n THEN r ELSE block[b]
      BY <3>6 DEF made
    <3>8. Len(block') = Len(block)
      BY <3>6
    <3> QED BY <3>5, <3>7, <3>8
  <2> QED BY <2>1, <2>4, <2>5
          DEF BeginDequeue, DequeueStep, LoadTailBlock, HaveItem, StoreFrontBlock, Return
<1>4. Ring' = Ring
  BY <1>2, <1>3 DEF Ring
<1>5. OneRing'
  BY <1>3, <1>4, OneRingKept DEF Ring
<1>6. RoomInv'
  BY <1>2, <1>3, RoomKept
<1>7. FullInv'
  <2>1. TailBlock \in made
    BY DEF Core, RingInv, Ring
  <2>2. \A b : InTransit(b)' <=> InTransit(b)
    BY <1>2 DEF InTransit
  <2>3. CASE FrontBlock' = FrontBlock
    <3>1. ASSUME NEW b \in Ring \ {FrontBlock, TailBlock}
          PROVE  \/ InTransit(b)
                 \/ /\ b \in Ring \ {FrontBlock, TailBlock} /\ ~InTransit(b)
                    /\ block'[b].Size = block[b].Size /\ block'[b].Tail = block[b].Tail
                    /\ block'[b].Front = block[b].Front
      BY <1>3 DEF Ring
    <3> QED BY <1>2, <1>3, <1>4, <2>1, <2>2, <2>3, <3>1, FullKept
  <2>4. CASE StoreFrontBlock
    <3>1. block' = block /\ FrontBlock # TailBlock /\ block[FrontBlock].Front = block[FrontBlock].Tail
      BY <2>4 DEF StoreFrontBlock, Core, ConsumerInv
    <3> QED BY <1>2, <1>4, <2>2, <3>1, FullKept
  <2> QED BY <2>3, <2>4
          DEF BeginDequeue, DequeueStep, LoadTailBlock, LoadTail, HaveItem, ReloadTail, LoadNext,
              MoveOut, StoreFront, Return, Consume
<1>8. WaitingInv'
  <2>1. Waiting' \in Int /\ Waiting' <= Waiting
    BY WaitingFalls
  <2>2. Waiting \in Int
    <3>1. PICK h \in {0, 1} : h = Cardinality(Held)
      BY HeldIs
    <3> QED BY <3>1 DEF Waiting, Core, ItemsInv
  <2>3. ppc \in {"front", "next", "full"} => enq.waiting \in Int
    BY DEF WaitingInv
  <2> QED BY <1>2, <2>1, <2>2, <2>3 DEF WaitingInv
<1> QED BY <1>5, <1>6, <1>7, <1>8

\* A ring of several blocks has one more than it takes for what is reserved.
LEMMA CountIs ==
  ASSUME ReservedSize > 0, InitialCount # 1
  PROVE  /\ InitialCount \in Nat /\ InitialCount >= 2
         /\ \A n \in Nat : n >= InitialCount => (n - 1) * (EXPECTED_BLOCK_SIZE - 1) >= ReservedSize
<1>1. InitialCount \in Nat /\ InitialCount >= 1
  BY InitialBlocks
<1>2. InitialCount = (ReservedSize + 2 * EXPECTED_BLOCK_SIZE - 3) \div (EXPECTED_BLOCK_SIZE - 1)
  BY DEF InitialCount
<1>3. ASSUME NEW n \in Nat, n >= InitialCount
      PROVE  (n - 1) * (EXPECTED_BLOCK_SIZE - 1) >= ReservedSize
  <2>1. PICK k \in Nat : k = InitialCount
    BY <1>1
  <2>2. PICK R \in Nat, E \in {2, 4, 8, 16, 32, 64, 128, 256, 512} :
          R = ReservedSize /\ E = EXPECTED_BLOCK_SIZE
    BY ReaderWriterQueueAssumption
  <2>3. k = (R + 2 * E - 3) \div (E - 1)
    BY <1>2, <2>1, <2>2
  <2>4. n >= k
    BY <1>3, <2>1
  <2>5. (n - 1) * (E - 1) >= R
    <3>1. CASE E = 2
      BY <2>3, <2>4, <3>1
    <3>2. CASE E = 4
      BY <2>3, <2>4, <3>2
    <3>3. CASE E = 8
      BY <2>3, <2>4, <3>3
    <3>4. CASE E = 16
      BY <2>3, <2>4, <3>4
    <3>5. CASE E = 32
      BY <2>3, <2>4, <3>5
    <3>6. CASE E = 64
      BY <2>3, <2>4, <3>6
    <3>7. CASE E = 128
      BY <2>3, <2>4, <3>7
    <3>8. CASE E = 256
      BY <2>3, <2>4, <3>8
    <3>9. CASE E = 512
      BY <2>3, <2>4, <3>9
    <3> QED BY <3>1, <3>2, <3>3, <3>4, <3>5, <3>6, <3>7, <3>8, <3>9
  <2> QED BY <2>2, <2>5
<1> QED BY <1>1, <1>3

\* A full block has items in all slots but one.
LEMMA FullUses ==
  ASSUME NEW b, IsBlock(block[b]), IsFull(b)
  PROVE  Used(b) = block[b].Size - 1
<1>1. PICK i \in Int, j \in Int, s \in Nat :
        i = block[b].Front /\ j = block[b].Tail /\ s = block[b].Size
  BY DEF IsBlock
<1>2. i >= 0 /\ i < s /\ j >= 0 /\ j < s
  BY <1>1 DEF IsBlock
<1>3. i = IF j + 1 = s THEN 0 ELSE j + 1
  BY <1>1 DEF IsFull, After
<1>4. Used(b) = IF i <= j THEN j - i ELSE j - i + s
  BY <1>1 DEF Used, Ahead
<1>5. CASE j + 1 = s
  BY <1>1, <1>2, <1>3, <1>4, <1>5
<1>6. CASE j + 1 # s
  BY <1>1, <1>2, <1>3, <1>4, <1>6
<1> QED BY <1>5, <1>6

\* Whoever finds the producer's block full has found as many items waiting.
LEMMA TailFullWaits ==
  ASSUME Core, OneRing, IsFull(TailBlock)
  PROVE  Waiting \in Int /\ Waiting >= block[TailBlock].Size - 1
<1>1. PICK t \in Ring : t = TailBlock
  BY TailIs
<1>2. IsBlock(block[t]) /\ InUse(t) = Used(t) /\ Active(t)
  BY <1>1, TailIs DEF Core, RingInv
<1>3. PICK s \in Nat : s = block[t].Size /\ InUse(t) = s - 1
  BY <1>1, <1>2, FullUses DEF IsBlock
<1>4. First(t) \in Nat /\ First(t) >= dequeued
  BY <1>1, <1>2, StoredAfter
<1>5. First(t) + Length(t) = enqueued /\ enqueued \in Nat /\ dequeued \in Nat
  BY <1>1 DEF Core, ItemsInv
<1>6. PICK h \in {0, 1} : h = Cardinality(Held)
  BY HeldIs
<1>7. Taken(t) => h = 1
  BY <1>6, HeldIs DEF Taken
<1>8. PICK x \in Int : x = Length(t) /\ x >= s - 1 - h
  <2>1. CASE Exposed(t)
    BY <1>3, <2>1 DEF Length
  <2>2. CASE ~Exposed(t) /\ Taken(t)
    BY <1>3, <1>7, <2>2 DEF Length
  <2>3. CASE ~Exposed(t) /\ ~Taken(t)
    BY <1>3, <2>3 DEF Length
  <2> QED BY <2>1, <2>2, <2>3
<1>9. PICK y \in Nat : y = First(t) /\ y >= dequeued /\ y + x = enqueued
  BY <1>4, <1>5, <1>8
<1>10. enqueued - dequeued + h >= s - 1
  BY <1>5, <1>6, <1>8, <1>9
<1> QED BY <1>1, <1>3, <1>5, <1>6, <1>10 DEF Waiting

\* Where the producer has come round to the consumer's block, all others are full.
LEMMA RingFullWaits ==
  ASSUME Core, OneRing, RoomInv, FullInv, ReservedSize > 0, InitialCount # 1,
         ppc = "next", NextOf(TailBlock) = FrontBlock
  PROVE  enqueued - dequeued >= ReservedSize
<1>1. PICK f \in Ring, t \in Ring : f = FrontBlock /\ t = TailBlock
  BY FrontIs, TailIs
<1>2. Ring = made /\ \E n \in Nat : made = 1..n
  BY DEF Ring, Core, BlocksInv
<1>3. PICK n \in Nat : Ring = 1..n /\ n = Len(block) /\ n >= InitialCount
  <2>1. PICK n \in Nat : made = 1..n
    BY <1>2
  <2>2. Len(block) = n
    <3>1. block = [b \in 1..n |-> block[b]]
      BY <2>1 DEF Core, BlocksInv
    <3>2. \E m \in Nat : DOMAIN block = 1..m
      BY <2>1 DEF made
    <3>3. block \in Seq({block[b] : b \in 1..n})
      BY <3>1
    <3>4. Len(block) \in Nat /\ DOMAIN block = 1..Len(block)
      BY <3>3, LenProperties
    <3> QED BY <2>1, <3>4 DEF made
  <2> QED BY <1>2, <2>1, <2>2 DEF RoomInv
<1>4. n >= 2 /\ (n - 1) * (EXPECTED_BLOCK_SIZE - 1) >= ReservedSize
  BY <1>3, CountIs
<1>5. f # t
  <2> SUFFICES ASSUME f = t PROVE FALSE
    OBVIOUS
  <2>1. {t} = Ring
    <3>1. {t} \in SUBSET Ring /\ {t} # {} /\ \A b \in {t} : NextOf(b) \in {t}
      BY <1>1
    <3> QED BY <3>1 DEF OneRing
  <2>2. 1 \in Ring /\ 2 \in Ring
    BY <1>3, <1>4
  <2> QED BY <2>1, <2>2
<1>6. \A b \in Ring : Active(b)
  <2> DEFINE S == {b \in Ring : ~Active(b)}
  <2>1. ASSUME NEW b \in S PROVE NextOf(b) \in S
    <3>1. NextOf(b) \in Ring
      BY DEF Core, BlocksInv, Ring
    <3>2. b # t /\ Active(t)
      BY <1>1 DEF Core, RingInv
    <3>3. NextOf(b) # f
      BY <1>1, <3>2 DEF Core, RingInv
    <3>4. ~Active(NextOf(b))
      BY <1>1, <3>3 DEF Core, RingInv
    <3> QED BY <3>1, <3>4
  <2>2. t \notin S
    BY <1>1 DEF Core, RingInv
  <2>3. S \in SUBSET Ring /\ S # Ring
    BY <1>1, <2>2
  <2>4. S = {}
    <3> HIDE DEF S
    <3> QED BY <2>1, <2>3 DEF OneRing
  <2> QED BY <2>4
<1>7. PICK D \in Nat : D = EXPECTED_BLOCK_SIZE - 1 /\ D > 0
  BY ReaderWriterQueueAssumption
<1>8. ASSUME NEW b \in Ring, b # f PROVE Length(b) = D
  <2>1. InUse(b) > 0 /\ ~InTransit(b)
    BY <1>1, <1>6, <1>8 DEF Active, InTransit, Filling
  <2>2. IsBlock(block[b]) /\ block[b].Size = EXPECTED_BLOCK_SIZE
    BY <1>2 DEF Core, BlocksInv, RoomInv
  <2>3. block[b].Front # block[b].Tail
    BY <2>1, <2>2, UsedIs DEF InUse
  <2>4. IsFull(b)
    <3>1. CASE b = t
      BY <1>1, <1>5, <3>1 DEF FullInv, Leaving
    <3>2. CASE b # t
      BY <1>1, <1>8, <2>1, <2>3, <3>2 DEF FullInv
    <3> QED BY <3>1, <3>2
  <2>5. InUse(b) = D
    BY <1>7, <2>1, <2>2, <2>4, FullUses DEF InUse
  <2> QED BY <1>1, <1>8, <2>5 DEF Length, Exposed, Taken
<1>9. enqueued \in Nat /\ dequeued \in Nat
  BY DEF Core, ItemsInv
<1>10. ASSUME NEW b \in Ring
       PROVE  First(b) \in Nat /\ First(b) >= dequeued /\ NextOf(b) \in Ring
  BY <1>6, StoredAfter DEF Core, BlocksInv, Ring
<1>11. ASSUME NEW b \in Ring, b # f PROVE First(b) + D <= enqueued
  BY <1>6, <1>8, <1>11 DEF Core, ItemsInv
<1>12. ASSUME NEW b \in Ring, b # f, b # t
       PROVE  NextOf(b) # f /\ First(NextOf(b)) = First(b) + D
  <2>1. First(NextOf(b)) = First(b) + Length(b)
    BY <1>1, <1>6, <1>12 DEF Core, ItemsInv
  <2>2. NextOf(b) # f
    BY <1>1, <1>12 DEF Core, RingInv
  <2> QED BY <1>8, <1>12, <2>1, <2>2
<1>13. First(t) + D = enqueued
  BY <1>1, <1>5, <1>8 DEF Core, ItemsInv
<1> DEFINE Rest == Ring \ {f}
           next == [b \in Ring |-> NextOf(b)]
           first == [b \in Ring |-> First(b)]
<1>14. ASSUME NEW b \in Rest, NEW c \in Rest, b # c
       PROVE  First(b) + D <= First(c) \/ First(c) + D <= First(b)
  <2>1. /\ next \in [Ring -> Ring] /\ first \in [Ring -> Int]
        /\ Rest \in SUBSET Ring /\ t \in Rest
        /\ \A x, y \in Ring : next[x] = next[y] => x = y
        /\ \A x \in Rest \ {t} : next[x] \in Rest /\ first[next[x]] = first[x] + D
        /\ \A x \in Rest : first[x] + D <= enqueued
        /\ first[t] + D = enqueued
    <3>1. next \in [Ring -> Ring] /\ first \in [Ring -> Int]
      BY <1>10
    <3>2. \A x, y \in Ring : next[x] = next[y] => x = y
      BY DEF Core, RingInv
    <3>3. \A x \in Rest \ {t} : next[x] \in Rest /\ first[next[x]] = first[x] + D
      BY <1>10, <1>12
    <3> QED BY <1>5, <1>11, <1>13, <3>1, <3>2, <3>3
  <2>2. b \in Ring /\ c \in Ring /\ first[b] = First(b) /\ first[c] = First(c)
    OBVIOUS
  <2>3. first[b] + D <= first[c] \/ first[c] + D <= first[b]
    <3>1. PICK F, N : F = first /\ N = next
      OBVIOUS
    <3>2. enqueued \in Int /\ D \in Nat /\ D > 0 /\ b \in Rest /\ c \in Rest /\ b # c
      BY <1>7, <1>9, <1>14
    <3> HIDE DEF next, first, Rest
    <3>3. F[b] + D <= F[c] \/ F[c] + D <= F[b]
      <4>1. PICK hi, R, W : hi \in Int /\ hi = enqueued /\ R = Ring /\ W = Rest
        BY <3>2
      <4>2. /\ t \in R /\ N \in [R -> R] /\ F \in [R -> Int] /\ W \in SUBSET R /\ t \in W
            /\ D \in Nat /\ hi \in Int
        BY <2>1, <3>1, <3>2, <4>1
      <4>3. \A x, y \in R : N[x] = N[y] => x = y
        BY <2>1, <3>1, <4>1
      <4>4. \A x \in W \ {t} : N[x] \in W /\ F[N[x]] = F[x] + D
        BY <2>1, <3>1, <4>1
      <4>5. \A x \in W : F[x] + D <= hi
        BY <2>1, <3>1, <4>1
      <4>6. F[t] + D = hi /\ D > 0
        BY <2>1, <3>1, <3>2, <4>1
      <4>7. b \in W /\ c \in W /\ b # c
        BY <3>2, <4>1
      <4> QED BY ONLY SMTT(60), <4>2, <4>3, <4>4, <4>5, <4>6, <4>7, Apart
    <3> QED BY <3>1, <3>3
  <2> QED BY <2>2, <2>3
<1>15. IsFiniteSet(Rest) /\ Cardinality(Rest) = n - 1
  <2>1. IsFiniteSet(Ring) /\ Cardinality(Ring) = n
    <3>1. 1 \in Int /\ n \in Int /\ ~(1 > n) /\ n - 1 + 1 = n
      BY <1>3, <1>4
    <3>2. IsFiniteSet(1..n) /\ Cardinality(1..n) = n
      BY <3>1, FS_Interval
    <3> QED BY <1>3, <3>2
  <2> QED BY <1>1, <2>1, FS_RemoveElement
<1>16. Cardinality(Rest) * D <= enqueued - dequeued
  <2> DEFINE g == [b \in Rest |-> First(b)]
  <2>1. g \in [Rest -> Int]
    BY <1>10
  <2>2. \A b \in Rest : dequeued <= g[b] /\ g[b] + D <= enqueued
    BY <1>10, <1>11
  <2>3. \A b, c \in Rest : b # c => g[b] + D <= g[c] \/ g[c] + D <= g[b]
    BY <1>14
  <2>4. dequeued <= enqueued
    BY <1>1, <1>5, <1>7, <1>9, <1>10, <1>13
  <2> HIDE DEF g, Rest
  <2> QED BY SMTT(60), <1>7, <1>9, <1>15, <2>1, <2>2, <2>3, <2>4, RoomCounts
<1>17. (n - 1) * D >= ReservedSize /\ (n - 1) * D <= enqueued - dequeued
  BY <1>4, <1>7, <1>15, <1>16
<1>18. PICK z \in Int : z = (n - 1) * D
  BY <1>3, <1>7
<1> QED BY <1>9, <1>17, <1>18, ReaderWriterQueueAssumption

\* The length of a sequence of blocks.
LEMMA LengthIs ==
  ASSUME NEW x, x = [b \in DOMAIN x |-> x[b]], \E n \in Nat : DOMAIN x = 1..n
  PROVE  Len(x) \in Nat /\ DOMAIN x = 1..Len(x)
<1>1. PICK n \in Nat : DOMAIN x = 1..n
  OBVIOUS
<1>2. x \in Seq({x[b] : b \in 1..n})
  BY <1>1, SeqDef
<1> QED BY <1>2, LenProperties

\* Steps of the producer that change neither Front nor Tail of a block in the ring.
LEMMA LookingReserves ==
  ASSUME Core, Core', OneRing, RoomInv, FullInv,
         \/ \E mode \in Modes : BeginEnqueue(mode)
         \/ LoadFront \/ LoadFrontBlock \/ LoadNextFront \/ Construct \/ ConstructThrows \/ Full
  PROVE  OneRing' /\ RoomInv' /\ FullInv'
<1>1. /\ TailBlock' = TailBlock /\ FrontBlock' = FrontBlock /\ UNCHANGED consumer
      /\ ppc # "link" /\ ppc' # "link"
  <2>1. CASE \E mode \in Modes : BeginEnqueue(mode)
    BY <2>1 DEF BeginEnqueue, consumer
  <2>2. CASE LoadFront
    BY <2>2 DEF LoadFront, Produce, consumer
  <2>6. CASE LoadFrontBlock
    BY <2>6 DEF LoadFrontBlock, Produce, consumer, Core, ProducerInv, Modes
  <2>3. CASE LoadNextFront
    BY <2>3 DEF LoadNextFront, consumer
  <2>4. CASE Construct
    BY <2>4 DEF Construct, Produce, consumer
  <2>5. CASE ConstructThrows \/ Full
    BY <2>5 DEF ConstructThrows, Full, consumer
  <2> QED BY <2>1, <2>2, <2>3, <2>4, <2>5, <2>6
<1>2. /\ made' = made /\ Len(block') = Len(block)
      /\ \A b \in made : /\ block'[b].Size = block[b].Size /\ block'[b].Tail = block[b].Tail
                         /\ block'[b].Next = block[b].Next /\ block'[b].Front = block[b].Front
  <2>1. CASE block' = block
    BY <2>1 DEF made
  <2>2. ASSUME NEW b \in made, NEW r, block' = [block EXCEPT ![b] = r],
               r.Size = block[b].Size, r.Tail = block[b].Tail,
               r.Next = block[b].Next, r.Front = block[b].Front
        PROVE  <1>2
    <3>1. made' = made /\ \A d \in made : block'[d] = IF d = b THEN r ELSE block[d]
      BY <2>2 DEF made
    <3>2. Len(block') = Len(block)
      BY <2>2
    <3> QED BY <2>2, <3>1, <3>2
  <2>3. ASSUME NEW b \in made PROVE DOMAIN block[b] = Fields
    BY DEF Core, BlocksInv, IsBlock
  <2>4. CASE LoadFront
    <3>1. enq.Block \in made
      BY <2>4, TailIs DEF LoadFront, Core, ProducerInv, AtTail
    <3> QED BY <2>2, <2>3, <2>4, <3>1 DEF LoadFront, Fields
  <2>5. CASE LoadNextFront
    <3>1. block[enq.Block].Next \in made
      BY <2>5, TailIs DEF LoadNextFront, Core, ProducerInv, Ring
    <3> QED BY <2>2, <2>3, <2>5, <3>1 DEF LoadNextFront, Fields
  <2>6. CASE Construct
    <3>1. enq.Block \in made
      BY <2>6, TailIs DEF Construct, Core, ProducerInv, AtTail, Filling, NextOf, Ring
    <3> QED BY <2>2, <2>3, <2>6, <3>1 DEF Construct, Fields
  <2> QED BY <2>1, <2>4, <2>5, <2>6 DEF BeginEnqueue, LoadFrontBlock, ConstructThrows, Full
<1>3. Ring' = Ring
  BY <1>1, <1>2 DEF Ring
<1>4. OneRing'
  BY <1>2, <1>3, OneRingKept DEF Ring
<1>5. RoomInv'
  <2>1. CASE BlockSize' = BlockSize
    BY <1>2, <2>1, RoomKept
  <2>2. CASE BlockSize' = NewBlockSize
    <3>1. IF InitialCount = 1 THEN BlockSize' > ReservedSize ELSE BlockSize' = EXPECTED_BLOCK_SIZE
      BY <2>2, ReaderWriterQueueAssumption DEF RoomInv, NewBlockSize, Core, BlocksInv, Powers
    <3> QED BY <1>2, <3>1 DEF RoomInv
  <2> QED BY <2>1, <2>2
          DEF BeginEnqueue, LoadFront, LoadFrontBlock, LoadNextFront, Construct, ConstructThrows,
              Full, Produce
<1>6. FullInv'
  <2>1. TailBlock \in made
    BY TailIs
  <2>2. ASSUME NEW b \in Ring, InTransit(b)
        PROVE  InTransit(b)' \/ block'[b].Front = block'[b].Tail
    <3>1. CASE Construct
      BY <2>2, <3>1 DEF Construct, Produce, InTransit, Filling
    <3>2. CASE ConstructThrows
      <4>1. ppc = "constructNext" /\ b = enq.Block
        BY <2>2, <3>2 DEF ConstructThrows, InTransit, Filling
      <4> QED BY <1>2, <2>2, <4>1 DEF Core, ProducerInv, Filling, Ring
    <3>3. CASE ~Construct /\ ~ConstructThrows
      BY <2>2, <3>3
         DEF BeginEnqueue, LoadFront, LoadFrontBlock, LoadNextFront, Full, InTransit, Filling
    <3> QED BY <3>1, <3>2, <3>3
  <2>3. ppc' \in Leaving => IsFull(TailBlock) \/ ppc \in Leaving
    <3>1. CASE LoadFront /\ ppc' \in Leaving
      <4>1. enq.Block = TailBlock /\ enq.Tail = block[TailBlock].Tail
        BY <3>1 DEF LoadFront, Core, ProducerInv, AtTail
      <4>2. Following(TailBlock, block[TailBlock].Tail) = block[TailBlock].Front
        BY <3>1, <4>1 DEF LoadFront, Produce, Leaving, Filling
      <4>3. IsFull(TailBlock)
        BY <4>2, TailIs DEF IsFull, IsBlock
      <4> QED BY <4>3
    <3>2. CASE ~LoadFront /\ ppc' \in Leaving
      BY <3>2 DEF BeginEnqueue, LoadFrontBlock, LoadNextFront, Construct, ConstructThrows, Full,
                  Produce, Leaving, Filling
    <3> QED BY <3>1, <3>2
  <2>4. ASSUME NEW b \in Ring' \ {FrontBlock', TailBlock'}
        PROVE  \/ InTransit(b)'
               \/ block'[b].Front = block'[b].Tail
               \/ /\ b \in Ring \ {FrontBlock, TailBlock} /\ ~InTransit(b)
                  /\ block'[b].Size = block[b].Size /\ block'[b].Tail = block[b].Tail
                  /\ block'[b].Front = block[b].Front
    BY <1>1, <1>2, <1>3, <2>2 DEF Ring
  <2> QED BY <1>1, <1>2, <2>1, <2>3, <2>4, FullKept
<1> QED BY <1>4, <1>5, <1>6

\* Steps of the producer that fill a block.
LEMMA FillingReserves ==
  ASSUME Core, Core', OneRing, RoomInv, FullInv, StoreTail \/ StoreNextTail \/ StoreTailBlock
  PROVE  OneRing' /\ RoomInv' /\ FullInv'
<1>1. FrontBlock' = FrontBlock /\ ppc # "link" /\ ppc' # "link" /\ BlockSize' = BlockSize
  BY DEF StoreTail, StoreNextTail, StoreTailBlock, Produce, consumer
<1>2. /\ made' = made /\ Len(block') = Len(block)
      /\ \A b \in made : /\ block'[b].Size = block[b].Size /\ block'[b].Next = block[b].Next
                         /\ block'[b].Front = block[b].Front
                         /\ b # enq.Block \/ StoreTailBlock => block'[b].Tail = block[b].Tail
  <2>1. CASE StoreTailBlock
    BY <2>1 DEF StoreTailBlock, made
  <2>2. CASE StoreTail \/ StoreNextTail
    <3>1. PICK b, r : b = enq.Block /\ r = [block[b] EXCEPT !.Tail = Following(enq.Block, enq.Tail)]
      OBVIOUS
    <3>2. b \in made /\ DOMAIN block[b] = Fields
      BY <2>2, <3>1, TailIs DEF StoreTail, StoreNextTail, Core, ProducerInv, AtTail, Filling, NextOf,
         Ring, BlocksInv, IsBlock
    <3>3. r.Size = block[b].Size /\ r.Next = block[b].Next /\ r.Front = block[b].Front
      BY <3>1, <3>2 DEF Fields
    <3>4. block' = [block EXCEPT ![b] = r] /\ ~StoreTailBlock
      BY <2>2, <3>1 DEF StoreTail, StoreNextTail, StoreTailBlock
    <3>5. made' = made /\ \A d \in made : block'[d] = IF d = b THEN r ELSE block[d]
      BY <3>4 DEF made
    <3>6. Len(block') = Len(block)
      BY <3>4
    <3> QED BY <3>1, <3>3, <3>4, <3>5, <3>6
  <2> QED BY <2>1, <2>2
<1>3. Ring' = Ring
  BY <1>1, <1>2 DEF Ring
<1>4. OneRing'
  BY <1>2, <1>3, OneRingKept DEF Ring
<1>5. RoomInv'
  BY <1>1, <1>2, RoomKept
<1>6. FullInv'
  <2>1. CASE StoreTail
    <3>1. enq.Block = TailBlock /\ TailBlock' = TailBlock /\ ppc' = "idle" /\ ppc \notin Filling
      BY <2>1 DEF StoreTail, Core, ProducerInv, AtTail, Filling
    <3>2. ppc' \notin Leaving
      BY <3>1 DEF Leaving, Filling
    <3>3. ASSUME NEW b \in Ring' \ {FrontBlock', TailBlock'}
          PROVE  /\ b \in Ring \ {FrontBlock, TailBlock} /\ ~InTransit(b)
                 /\ block'[b].Size = block[b].Size /\ block'[b].Tail = block[b].Tail
                 /\ block'[b].Front = block[b].Front
      BY <1>1, <1>2, <1>3, <3>1 DEF Ring, InTransit
    <3> QED BY <3>2, <3>3, FullKept
  <2>2. CASE StoreNextTail
    <3>1. /\ TailBlock' = TailBlock /\ enq' = enq /\ ppc \in Filling /\ ppc' \in Filling
          /\ TailBlock # enq.Block /\ TailBlock \in made
      BY <2>2, TailIs DEF StoreNextTail, Produce, Filling, InTransit
    <3>2. ASSUME NEW b \in Ring' \ {FrontBlock', TailBlock'}
          PROVE  \/ InTransit(b)'
                 \/ /\ b \in Ring \ {FrontBlock, TailBlock} /\ ~InTransit(b)
                    /\ block'[b].Size = block[b].Size /\ block'[b].Tail = block[b].Tail
                    /\ block'[b].Front = block[b].Front
      BY <1>1, <1>2, <1>3, <3>1 DEF Ring, InTransit
    <3>3. ppc \in Leaving
      BY <3>1 DEF Leaving
    <3>4. /\ block'[TailBlock].Size = block[TailBlock].Size
          /\ block'[TailBlock].Tail = block[TailBlock].Tail
          /\ block'[TailBlock].Front = block[TailBlock].Front
      BY <1>2, <3>1
    <3> QED BY <1>1, <3>1, <3>2, <3>3, <3>4, FullKept
  <2>3. CASE StoreTailBlock
    <3>1. TailBlock' = enq.Block /\ ppc = "publish" /\ ppc' = "idle" /\ TailBlock \in made
      BY <2>3, TailIs DEF StoreTailBlock
    <3>2. ppc' \notin Leaving /\ ppc \in Leaving
      BY <3>1 DEF Leaving, Filling
    <3>3. ASSUME NEW b \in Ring' \ {FrontBlock', TailBlock'}
          PROVE  \/ After(b, block[b].Tail) = block[b].Front /\ block'[b].Size = block[b].Size
                    /\ block'[b].Tail = block[b].Tail /\ block'[b].Front = block[b].Front
                 \/ /\ b \in Ring \ {FrontBlock, TailBlock} /\ ~InTransit(b)
                    /\ block'[b].Size = block[b].Size /\ block'[b].Tail = block[b].Tail
                    /\ block'[b].Front = block[b].Front
      <4>1. b \in Ring /\ b # FrontBlock /\ b # enq.Block /\ b \in made
        BY <1>1, <1>3, <3>1 DEF Ring
      <4>2. b = TailBlock => After(b, block[b].Tail) = block[b].Front
        BY <3>2, <4>1 DEF FullInv, IsFull
      <4> QED BY <1>2, <2>3, <4>1, <4>2 DEF InTransit
    <3> QED BY <3>2, <3>3, FullKept
  <2> QED BY <2>1, <2>2, <2>3
<1> QED BY <1>4, <1>5, <1>6

\* A new block is big enough, and not yet in the ring.
LEMMA NewBlockReserves ==
  ASSUME Core, OneRing, RoomInv, FullInv, ReservedSize > 0, NewBlock
  PROVE  OneRing' /\ RoomInv' /\ FullInv'
<1>1. PICK t, e, s, x :
        /\ t = TailBlock /\ e = Len(block) + 1 /\ s = NewBlockSize
        /\ x = [MakeBlock(s, block[t].Next) EXCEPT !.Data[0] = enqueued, !.Tail = 1, !.LocalTail = 1]
  OBVIOUS
<1>2. /\ block' = Append(block, x) /\ enq' = [enq EXCEPT !.Tail = e]
      /\ BlockSize' = s /\ ppc = "new" /\ ppc' = "link"
      /\ TailBlock' = TailBlock /\ FrontBlock' = FrontBlock
  BY <1>1 DEF NewBlock, Core, ProducerInv, consumer
<1>3. x.Size = s
  BY <1>1 DEF MakeBlock
<1>4. /\ e \notin made /\ made' = made \union {e} /\ block'[e] = x
      /\ \A d \in made : block'[d] = block[d]
      /\ block' = [d \in made' |-> block'[d]] /\ \E n \in Nat : made' = 1..n
  BY <1>1, <1>2, AppendIs DEF Core, made
<1>5. enq'.Tail = e
  BY <1>2 DEF Core, ProducerInv
<1>6. Ring = made /\ Ring' = made
  BY <1>2, <1>4, <1>5 DEF Ring
<1>7. OneRing'
  BY <1>4, <1>6, OneRingKept
<1>8. RoomInv'
  <2>1. Len(block') >= InitialCount
    <3>1. PICK p, q : p = block /\ q = block'
      OBVIOUS
    <3>2. p = [d \in DOMAIN p |-> p[d]] /\ \E n \in Nat : DOMAIN p = 1..n
      BY <3>1 DEF Core, BlocksInv, made
    <3>3. Len(p) \in Nat /\ DOMAIN p = 1..Len(p)
      BY <3>2, LengthIs
    <3>4. q = [d \in DOMAIN q |-> q[d]] /\ \E n \in Nat : DOMAIN q = 1..n
      BY <1>4, <3>1 DEF made
    <3>5. Len(q) \in Nat /\ DOMAIN q = 1..Len(q)
      BY <3>4, LengthIs
    <3>6. Len(q) = Len(p) + 1
      <4>1. DOMAIN q = DOMAIN p \union {Len(p) + 1}
        BY <1>1, <1>4, <3>1 DEF made
      <4>2. PICK k \in Nat, m \in Nat : k = Len(p) /\ m = Len(q)
        BY <3>3, <3>5
      <4>3. 1..m = 1..k \union {k + 1}
        BY <3>3, <3>5, <4>1, <4>2
      <4>4. k + 1 \in 1..m
        BY <4>3
      <4>5. m >= k + 1
        BY <4>4
      <4>6. m \in 1..k \union {k + 1}
        <5>1. m \in 1..m
          BY <4>5
        <5> QED BY ONLY <4>3, <5>1
      <4> QED BY <4>2, <4>5, <4>6
    <3>7. Len(p) >= InitialCount /\ InitialCount \in Int
      BY <3>1, InitialBlocks DEF RoomInv
    <3>8. Len(q) >= InitialCount
      BY <3>3, <3>6, <3>7
    <3> QED BY <3>1, <3>8
  <2>2. IF InitialCount = 1 THEN s > ReservedSize ELSE s = EXPECTED_BLOCK_SIZE
    BY <1>1, ReaderWriterQueueAssumption DEF RoomInv, NewBlockSize, Core, BlocksInv, Powers
  <2> QED BY <1>2, <1>3, <1>4, <2>1, <2>2 DEF RoomInv
<1>9. FullInv'
  <2>1. TailBlock \in made /\ ppc \in Leaving
    BY <1>2, TailIs DEF Leaving
  <2>2. ASSUME NEW b \in Ring' \ {FrontBlock', TailBlock'}
        PROVE  /\ b \in Ring \ {FrontBlock, TailBlock} /\ ~InTransit(b)
               /\ block'[b].Size = block[b].Size /\ block'[b].Tail = block[b].Tail
               /\ block'[b].Front = block[b].Front
    BY <1>2, <1>4, <1>6 DEF InTransit, Filling
  <2> QED BY <1>2, <1>4, <2>1, <2>2, FullKept
<1> QED BY <1>7, <1>8, <1>9

\* The new block comes behind the producer's.
LEMMA LinkReserves ==
  ASSUME Core, OneRing, RoomInv, FullInv, Link
  PROVE  OneRing' /\ RoomInv' /\ FullInv'
<1>0. PICK t, e, n : t = TailBlock /\ e = enq.Tail /\ n = block[TailBlock].Next
  OBVIOUS
<1>1. ppc = "link" /\ enq.Block = t /\ e \in made /\ NextOf(e) = n
  BY <1>0 DEF Link, Core, ProducerInv, NextOf
<1>2. Ring = made \ {e}
  BY <1>0, <1>1 DEF Ring
<1>3. t \in made /\ t \in Ring /\ t # e /\ n \in Ring /\ DOMAIN block[t] = Fields
  BY <1>0, <1>1, <1>2, TailIs DEF IsBlock
<1>4. PICK r : r = [block[t] EXCEPT !.Next = e]
  OBVIOUS
<1>5. /\ block' = [block EXCEPT ![t] = r] /\ enq' = [enq EXCEPT !.Block = e] /\ ppc' = "publish"
      /\ TailBlock' = TailBlock /\ FrontBlock' = FrontBlock /\ BlockSize' = BlockSize
  BY <1>0, <1>1, <1>4 DEF Link, consumer
<1>6. r.Front = block[t].Front /\ r.Tail = block[t].Tail /\ r.Next = e /\ r.Size = block[t].Size
  BY <1>3, <1>4 DEF Fields
<1>7. /\ made' = made /\ Len(block') = Len(block)
      /\ \A d \in made : block'[d] = IF d = t THEN r ELSE block[d]
  BY <1>3, <1>5 DEF made
<1>8. enq'.Block = e
  BY <1>5 DEF Core, ProducerInv
<1>9. Ring' = made
  BY <1>5, <1>7 DEF Ring
<1>10. OneRing'
  <2> SUFFICES ASSUME NEW S \in SUBSET made, S # {}, \A b \in S : block'[b].Next \in S
               PROVE  S = made
    BY <1>9 DEF OneRing, NextOf
  <2>1. \A d \in made : block'[d].Next = IF d = t THEN e ELSE block[d].Next
    BY <1>6, <1>7
  <2>2. e \in S => n \in S
    BY <1>1, <1>3, <2>1 DEF NextOf
  <2>3. t \in S => e \in S
    BY <2>1
  <2>4. S \ {e} \in SUBSET Ring /\ S \ {e} # {}
    BY <1>2, <1>3, <2>2
  <2>5. ASSUME NEW b \in S \ {e} PROVE NextOf(b) \in S \ {e}
    <3>1. CASE b = t
      BY <1>0, <1>2, <1>3, <2>2, <2>3, <2>5, <3>1 DEF NextOf
    <3>2. CASE b # t
      <4>1. NextOf(b) = block'[b].Next
        BY <2>1, <2>5, <3>2 DEF NextOf
      <4>2. NextOf(b) \in Ring
        BY <2>5 DEF Core, BlocksInv
      <4> QED BY <1>2, <2>5, <4>1, <4>2
    <3> QED BY <3>1, <3>2
  <2>6. S \ {e} = Ring
    <3>1. PICK T : T = S \ {e}
      OBVIOUS
    <3>2. T \in SUBSET Ring /\ T # {} /\ \A b \in T : NextOf(b) \in T
      BY <2>4, <2>5, <3>1
    <3> QED BY <3>1, <3>2 DEF OneRing
  <2>7. e \in S
    BY <1>3, <2>3, <2>6
  <2> QED BY <1>1, <1>2, <2>6, <2>7
<1>11. RoomInv'
  BY <1>5, <1>6, <1>7, RoomKept
<1>12. FullInv'
  <2>1. TailBlock \in made /\ ppc \in Leaving
    BY <1>0, <1>1, <1>3 DEF Leaving
  <2>2. ASSUME NEW d \in made
        PROVE  /\ block'[d].Size = block[d].Size /\ block'[d].Tail = block[d].Tail
               /\ block'[d].Front = block[d].Front
    BY <1>6, <1>7
  <2>3. ASSUME NEW b \in Ring' \ {FrontBlock', TailBlock'}
        PROVE  \/ InTransit(b)'
               \/ /\ b \in Ring \ {FrontBlock, TailBlock} /\ ~InTransit(b)
                  /\ block'[b].Size = block[b].Size /\ block'[b].Tail = block[b].Tail
                  /\ block'[b].Front = block[b].Front
    BY <1>1, <1>2, <1>5, <1>8, <1>9, <2>2 DEF InTransit, Filling
  <2> QED BY <1>5, <2>1, <2>2, <2>3, FullKept
<1> QED BY <1>10, <1>11, <1>12

\* What the producer has found waiting.
LEMMA ProducerWaits ==
  ASSUME Core, OneRing, RoomInv, FullInv, WaitingInv, ReservedSize > 0,
         EnqueueStep \/ \E mode \in Modes : BeginEnqueue(mode)
  PROVE  WaitingInv'
<1>1. UNCHANGED consumer
  <2>1. CASE LoadFront \/ LoadFrontBlock \/ LoadNextFront \/ Construct \/ StoreTail \/ StoreNextTail
    BY <2>1 DEF LoadFront, LoadFrontBlock, LoadNextFront, Construct, StoreTail, StoreNextTail
  <2>2. CASE NewBlock \/ Link \/ StoreTailBlock \/ ConstructThrows \/ Full
    BY <2>2 DEF NewBlock, Link, StoreTailBlock, ConstructThrows, Full
  <2> QED BY <2>1, <2>2 DEF EnqueueStep, BeginEnqueue
<1>2. dequeued' = dequeued /\ Cardinality(Held)' = Cardinality(Held)
  BY <1>1, HeldIs DEF consumer
<1>3. Waiting \in Int /\ Waiting >= enqueued - dequeued
      /\ enqueued \in Nat /\ dequeued \in Nat
  <2>1. PICK h \in {0, 1} : h = Cardinality(Held)
    BY HeldIs
  <2>2. enqueued \in Nat /\ dequeued \in Nat
    BY DEF Core, ItemsInv
  <2> QED BY <2>1, <2>2 DEF Waiting
<1>4. CASE \E mode \in Modes : BeginEnqueue(mode)
  <2>1. ppc' \in {"construct", "front"} /\ enq'.waiting = Waiting /\ enqueued' = enqueued
    BY <1>4 DEF BeginEnqueue, Waiting
  <2>2. Waiting' = Waiting
    BY <1>2, <2>1 DEF Waiting
  <2> QED BY <1>3, <2>1, <2>2 DEF WaitingInv
<1>5. CASE LoadFront
  <2>1. ppc = "front" /\ ppc' \in {"construct", "next"} /\ enq' = enq /\ enqueued' = enqueued
    BY <1>5 DEF LoadFront, Produce
  <2>2. Waiting' = Waiting /\ enq.waiting \in Int /\ enq.waiting >= Waiting
    BY <1>2, <2>1 DEF Waiting, WaitingInv
  <2>3. ASSUME ppc' = "next", InitialCount = 1
        PROVE  enq.waiting >= ReservedSize
    <3>1. enq.Block = TailBlock /\ enq.Tail = block[TailBlock].Tail
      BY <2>1 DEF Core, ProducerInv, AtTail
    <3>2. IsFull(TailBlock)
      <4>1. Following(TailBlock, block[TailBlock].Tail) = block[TailBlock].Front
        BY <1>5, <2>3, <3>1 DEF LoadFront, Produce
      <4> QED BY <4>1, TailIs DEF IsFull, IsBlock
    <3>3. Waiting >= block[TailBlock].Size - 1
      BY <3>2, TailFullWaits
    <3>4. PICK s \in Nat : s = block[TailBlock].Size
      BY TailIs DEF IsBlock
    <3>5. s > ReservedSize
      BY <2>3, <3>4, TailIs DEF RoomInv
    <3> QED BY <1>3, <2>2, <3>3, <3>4, <3>5, ReaderWriterQueueAssumption
  <2> QED BY <2>1, <2>2, <2>3 DEF WaitingInv
<1>6. CASE LoadFrontBlock
  <2>1. /\ ppc = "next" /\ ppc' \in {"nextFront", "new", "full"}
        /\ enq' = enq /\ enqueued' = enqueued
        /\ ppc' = "full" => block[enq.Block].Next = FrontBlock
    BY <1>6 DEF LoadFrontBlock, Produce, Core, ProducerInv, Modes
  <2>2. Waiting' = Waiting /\ enq.waiting \in Int /\ enq.waiting >= Waiting
    BY <1>2, <2>1 DEF Waiting, WaitingInv
  <2>3. ASSUME ppc' = "full"
        PROVE  enq.waiting >= ReservedSize
    <3>1. CASE InitialCount = 1
      BY <2>1, <3>1 DEF WaitingInv
    <3>2. CASE InitialCount # 1
      <4>1. NextOf(TailBlock) = FrontBlock
        BY <2>1, <2>3 DEF NextOf, Core, ProducerInv
      <4>2. enqueued - dequeued >= ReservedSize
        BY <2>1, <3>2, <4>1, RingFullWaits
      <4> QED BY <1>3, <2>2, <4>2, ReaderWriterQueueAssumption
    <3> QED BY <3>1, <3>2
  <2> QED BY <2>1, <2>2, <2>3 DEF WaitingInv
<1>7. CASE ~LoadFront /\ ~LoadFrontBlock /\ EnqueueStep
  <2>1. ppc' \notin {"front", "next", "full"}
    <3>1. CASE Construct
      BY <3>1 DEF Construct, Produce
    <3>2. CASE ~Construct
      BY <1>7, <3>2 DEF EnqueueStep, LoadNextFront, StoreTail, StoreNextTail, NewBlock, Link,
                        StoreTailBlock, ConstructThrows, Full, Produce
    <3> QED BY <3>1, <3>2
  <2> QED BY <2>1 DEF WaitingInv
<1> QED BY <1>4, <1>5, <1>6, <1>7

\* The first blocks.
LEMMA ReserveInit ==
  ASSUME ReservedSize > 0, Init
  PROVE  ReserveInv
<1>1. PICK n \in Nat : n = InitialCount /\ n >= 1
  BY InitBlocks
<1>2. /\ made = 1..n /\ BlockSize \in Powers
      /\ \A b \in made : block[b] = MakeBlock(BlockSize, IF b = n THEN 1 ELSE b + 1)
  BY <1>1, InitBlocks
<1>3. ASSUME NEW b \in made
      PROVE  /\ NextOf(b) = IF b = n THEN 1 ELSE b + 1
             /\ block[b].Size = BlockSize
             /\ block[b].Front = block[b].Tail
  <2>1. PICK m : m = MakeBlock(BlockSize, IF b = n THEN 1 ELSE b + 1)
    OBVIOUS
  <2>2. m.Next = (IF b = n THEN 1 ELSE b + 1) /\ m.Size = BlockSize /\ m.Front = 0 /\ m.Tail = 0
    BY <2>1 DEF MakeBlock
  <2>3. block[b] = m
    BY <1>2, <2>1
  <2> QED BY <2>2, <2>3 DEF NextOf
<1>4. FrontBlock = 1 /\ TailBlock = 1 /\ ppc = "idle" /\ Ring = made
  BY DEF Init, Ring
<1>5. OneRing
  <2> SUFFICES ASSUME NEW S \in SUBSET made, S # {}, \A b \in S : NextOf(b) \in S
               PROVE  S = made
    BY <1>4 DEF OneRing
  <2>1. \A b \in S : b \in 1..n /\ (IF b = n THEN 1 ELSE b + 1) \in S
    BY <1>2, <1>3
  <2>2. n \in S
    <3> DEFINE T == {k \in Nat : n - k \in S /\ k < n}
    <3>1. T \subseteq Nat /\ T # {}
      <4>1. PICK b \in S : b \in 1..n
        BY <2>1
      <4>2. n - b \in T
        BY <1>1, <4>1
      <4> QED BY <4>2
    <3>2. PICK k \in T : \A j \in T : k <= j
      <4> HIDE DEF T
      <4> QED BY <3>1, Least
    <3>3. k = 0
      <4> SUFFICES ASSUME k # 0 PROVE FALSE
        OBVIOUS
      <4>1. PICK b \in 1..n : b = n - k /\ b \in S
        BY <2>1
      <4>2. b # n /\ b + 1 \in S
        BY <1>1, <2>1, <4>1
      <4>3. k - 1 \in T
        BY <1>1, <4>1, <4>2
      <4> QED BY <3>2, <4>3
    <3> QED BY <1>1, <3>2, <3>3
  <2>3. ASSUME NEW c \in 1..n PROVE c \in S
    <3> SUFFICES ASSUME c \notin S PROVE FALSE
      OBVIOUS
    <3> DEFINE U == {d \in 1..n : d \notin S}
    <3>1. U \subseteq Nat /\ U # {}
      OBVIOUS
    <3>2. PICK d \in U : \A f \in U : d <= f
      <4> HIDE DEF U
      <4> QED BY <3>1, Least
    <3>3. 1 \in S
      BY <2>1, <2>2
    <3>4. d # 1 /\ d - 1 \in 1..n /\ d - 1 \notin U
      BY <3>2, <3>3
    <3>5. d - 1 \in S /\ d - 1 # n /\ d - 1 + 1 = d
      BY <1>1, <3>4
    <3> QED BY <2>1, <3>2, <3>5
  <2> QED BY <1>2, <2>3
<1>6. RoomInv
  <2>1. Len(block) = n
    <3>1. PICK p : p = block
      OBVIOUS
    <3>2. p = [b \in DOMAIN p |-> p[b]] /\ DOMAIN p = 1..n
      BY <1>2, <3>1 DEF Init, made
    <3>3. Len(p) \in Nat /\ DOMAIN p = 1..Len(p)
      BY <3>2, LengthIs
    <3>4. Len(p) = n
      <4>1. PICK m \in Nat : m = Len(p) /\ 1..m = 1..n
        BY <3>2, <3>3
      <4>2. n \in 1..m
        BY <1>1, <4>1
      <4>3. m >= n
        BY <4>2
      <4>4. m \in 1..n
        <5>1. m \in 1..m
          BY <1>1, <4>3
        <5> QED BY ONLY <4>1, <5>1
      <4> QED BY <4>1, <4>3, <4>4
    <3> QED BY <3>1, <3>4
  <2>2. IF InitialCount = 1 THEN BlockSize > ReservedSize ELSE BlockSize = EXPECTED_BLOCK_SIZE
    <3>1. CASE InitialCount # 1
      BY <3>1 DEF Init
    <3>2. CASE InitialCount = 1
      <4>1. BlockSize = CeilToPow2(ReservedSize + 1) /\ BlockSize <= EXPECTED_BLOCK_SIZE
        BY <3>2, InitBlocks DEF Init
      <4>2. ReservedSize + 1 \in Nat /\ ReservedSize + 1 >= 2 /\ EXPECTED_BLOCK_SIZE <= 512
            /\ EXPECTED_BLOCK_SIZE \in Nat
        BY ReaderWriterQueueAssumption
      <4>3. ReservedSize + 1 <= 512
        BY <4>1, <4>2 DEF CeilToPow2
      <4>4. BlockSize >= ReservedSize + 1
        BY <4>1, <4>2, <4>3, CeilIs
      <4> QED BY <1>2, <3>2, <4>2, <4>4, ReaderWriterQueueAssumption DEF Powers
    <3> QED BY <3>1, <3>2
  <2> QED BY <1>1, <1>3, <2>1, <2>2 DEF RoomInv
<1>7. FullInv
  BY <1>3, <1>4 DEF FullInv, Leaving, Filling
<1>8. WaitingInv
  BY <1>4 DEF WaitingInv
<1> QED BY <1>5, <1>6, <1>7, <1>8, InitInv DEF ReserveInv

\* A step of a queue that is there.
LEMMA ReserveRuns ==
  ASSUME Core, OneRing, RoomInv, FullInv, WaitingInv, ReservedSize > 0, Next, ppc' # "cleared"
  PROVE  ReserveInv'
<1>1. QueueInv' /\ Core'
  BY CoreNext DEF QueueInv
<1>2. CASE EnqueueStep \/ \E mode \in Modes : BeginEnqueue(mode)
  <2>1. WaitingInv'
    BY <1>2, ProducerWaits
  <2>2. CASE \/ \E mode \in Modes : BeginEnqueue(mode)
             \/ LoadFront \/ LoadFrontBlock \/ LoadNextFront \/ Construct \/ ConstructThrows \/ Full
    BY <1>1, <2>1, <2>2, LookingReserves DEF ReserveInv
  <2>3. CASE StoreTail \/ StoreNextTail \/ StoreTailBlock
    BY <1>1, <2>1, <2>3, FillingReserves DEF ReserveInv
  <2>4. CASE NewBlock
    BY <1>1, <2>1, <2>4, NewBlockReserves DEF ReserveInv
  <2>5. CASE Link
    BY <1>1, <2>1, <2>5, LinkReserves DEF ReserveInv
  <2> QED BY <1>2, <2>2, <2>3, <2>4, <2>5 DEF EnqueueStep
<1>3. CASE DequeueStep \/ \E o \in {"dequeue", "peek", "pop"} : BeginDequeue(o)
  BY <1>1, <1>3, ConsumerReserves DEF ReserveInv
<1>4. ~Clear /\ ~Cleared
  BY CoreRuns DEF Clear, Cleared
<1> QED BY <1>2, <1>3, <1>4 DEF Next

LEMMA ReserveStays ==
  ASSUME ReserveInv, UNCHANGED vars
  PROVE  ReserveInv'
<1>1. /\ block' = block /\ FrontBlock' = FrontBlock /\ TailBlock' = TailBlock
      /\ BlockSize' = BlockSize /\ ppc' = ppc /\ enq' = enq /\ cpc' = cpc /\ deq' = deq
      /\ enqueued' = enqueued /\ dequeued' = dequeued
  BY DEF vars, producer, consumer
<1>2. QueueInv'
  BY QueueStays DEF ReserveInv
<1>3. made' = made /\ Ring' = Ring /\ Cardinality(Held)' = Cardinality(Held)
  BY <1>1, HeldIs DEF made, Ring
<1>4. ASSUME ppc # "cleared" PROVE OneRing' /\ RoomInv'
  BY <1>1, <1>3, <1>4 DEF ReserveInv, OneRing, RoomInv, NextOf
<1>5. ASSUME ppc # "cleared" PROVE FullInv'
  <2>1. FullInv
    BY <1>5 DEF ReserveInv
  <2>2. \A b : (InTransit(b)' <=> InTransit(b)) /\ (IsFull(b)' <=> IsFull(b))
    BY <1>1 DEF InTransit, IsFull, After
  <2>3. IsFull(TailBlock)' <=> IsFull(TailBlock)
    BY <1>1 DEF IsFull, After
  <2> QED BY <1>1, <1>3, <2>1, <2>2, <2>3 DEF FullInv
<1>6. ASSUME ppc # "cleared" PROVE WaitingInv'
  BY <1>1, <1>3, <1>6 DEF ReserveInv, WaitingInv, Waiting
<1> QED BY <1>1, <1>2, <1>4, <1>5, <1>6 DEF ReserveInv

\* TryEnqueue says that the queue is full only if ReservedSize items were waiting when
\* it began, an item on its way out counted: what is reserved has room without the block
\* that the consumer empties.
THEOREM ReservedIsHeld ==
  ASSUME ReservedSize > 0
  PROVE  Spec => []ReservedHeld
<1>1. Init => ReserveInv
  BY ReserveInit
<1>2. ReserveInv /\ [Next]_vars => ReserveInv'
  <2>1. ASSUME ReserveInv, Next, ppc # "cleared", ppc' # "cleared"
        PROVE  ReserveInv'
    BY <2>1, ReserveRuns DEF ReserveInv, QueueInv
  <2>2. ASSUME ReserveInv, Next, ppc # "cleared", ppc' = "cleared"
        PROVE  ReserveInv'
    BY <2>2, CoreNext DEF ReserveInv, QueueInv
  <2>3. ASSUME ReserveInv, Next, ppc = "cleared"
        PROVE  ReserveInv'
    BY <2>3, ClearedNext, ReserveStays DEF ReserveInv, QueueInv
  <2> QED BY <2>1, <2>2, <2>3, ReserveStays
<1>3. ReserveInv => ReservedHeld
  BY DEF ReserveInv, WaitingInv, ReservedHeld
<1> QED BY <1>1, <1>2, <1>3, PTL DEF Spec

-----------------------------------------------------------------------------
(* The blocking queue: its invariant. *)

\* Tokens the kernel has, or is about to get from a signaller under way.
Tokens == Sem + (IF spc = "release" THEN 1 ELSE 0)

\* Without timeouts the count is exact.
SemaphoreInv ==
  /\ Count \in Int /\ Sem \in Nat /\ signalled \in Nat /\ granted \in Nat
  /\ Timeout \in {"try", "none"} /\ spc \in {"idle", "release"}
  /\ wpc \in {"idle", "try", "spin", "take", "subtract", "acquire", "true", "false"}
  /\ Count + (IF wpc = "acquire" THEN 1 ELSE 0) = signalled - granted
  /\ wpc = "acquire" => \/ Count = -1 /\ Tokens = 0
                        \/ Count >= 0 /\ Tokens = 1
  /\ wpc # "acquire" => Count >= 0 /\ Tokens = 0
  /\ wpc = "take" => Count > 0
  /\ wpc \in {"spin", "subtract"} => Timeout # "try"

\* The consumer has been granted an item and not taken it yet.
Due == wpc = "true" /\ cpc \notin {"store", "return"}

CallsInv ==
  /\ op \in {"dequeue", "pop"} /\ cpc # "cleared"
  /\ signalled <= enqueued
  /\ granted = dequeued + (IF Due THEN 1 ELSE 0)
  /\ cpc # "idle" => IF wpc = "true" THEN deq.op # "peek" ELSE deq.op = "peek" /\ wpc = "idle"
  /\ Due /\ cpc # "idle" => deq.begun >= granted

BlockingInv == QueueInv /\ SemaphoreInv /\ CallsInv

-----------------------------------------------------------------------------
(* The semaphore. *)

\* No wait is granted without a signal.
LEMMA GrantsSignalled ==
  ASSUME SemaphoreInv
  PROVE  granted <= signalled
BY DEF SemaphoreInv

\* A step of the waiter grants a wait or leaves the grants alone.
LEMMA WaiterKeeps ==
  ASSUME SemaphoreInv, Timeouts \subseteq {"none"},
         \/ \E timeout \in Timeouts \union {"try"} : Semaphore!BeginWait(timeout)
         \/ Semaphore!WaitStep
         \/ Semaphore!WaitReturn
  PROVE  /\ SemaphoreInv' /\ signalled' = signalled
         /\ granted' = granted + (IF wpc' = "true" THEN 1 ELSE 0)
         /\ Semaphore!WaitStep => wpc \in {"try", "spin", "take", "subtract", "acquire"}
<1> USE DEF SemaphoreInv, Tokens
<1>1. CASE \E timeout \in Timeouts \union {"try"} : Semaphore!BeginWait(timeout)
  BY <1>1 DEF Semaphore!BeginWait, Semaphore!signaller, Semaphore!WaitStep, Semaphore!LoadPositive,
     Semaphore!LoadOther, Semaphore!Take, Semaphore!Subtract, Semaphore!Acquire, Semaphore!Expire,
     Semaphore!Restore
<1>2. CASE Semaphore!WaitReturn
  BY <1>2 DEF Semaphore!WaitReturn, Semaphore!signaller, Semaphore!WaitStep, Semaphore!LoadPositive,
     Semaphore!LoadOther, Semaphore!Take, Semaphore!Subtract, Semaphore!Acquire, Semaphore!Expire,
     Semaphore!Restore
<1>3. CASE Semaphore!LoadPositive
  BY <1>3 DEF Semaphore!LoadPositive, Semaphore!signaller
<1>4. CASE Semaphore!LoadOther
  BY <1>4 DEF Semaphore!LoadOther, Semaphore!signaller
<1>5. CASE Semaphore!Take
  BY <1>5 DEF Semaphore!Take, Semaphore!Grant, Semaphore!signaller
<1>6. CASE Semaphore!Subtract
  <2>1. CASE Count > 0
    BY <1>6, <2>1 DEF Semaphore!Subtract, Semaphore!Grant, Semaphore!signaller
  <2>2. CASE Count = 0
    <3>1. /\ wpc' = "acquire" /\ wpc = "subtract" /\ Count' = -1
          /\ UNCHANGED <<Sem, Timeout, spc, signalled, granted>>
      BY <1>6, <2>2 DEF Semaphore!Subtract, Semaphore!signaller
    <3>2. QED
      BY <2>2, <3>1
  <2>3. QED
    BY <1>6, <2>1, <2>2 DEF Semaphore!Subtract
<1>7. CASE Semaphore!Acquire
  BY <1>7 DEF Semaphore!Acquire, Semaphore!Grant, Semaphore!signaller
<1>8. ~Semaphore!Expire /\ ~Semaphore!Restore
  BY DEF Semaphore!Expire, Semaphore!Restore
<1>9. QED
  BY <1>1, <1>2, <1>3, <1>4, <1>5, <1>6, <1>7, <1>8 DEF Semaphore!WaitStep

\* A step of the signaller leaves the grants alone.
LEMMA SignallerKeeps ==
  ASSUME SemaphoreInv, Semaphore!Signal \/ Semaphore!Release
  PROVE  /\ SemaphoreInv' /\ wpc' = wpc /\ granted' = granted
         /\ Semaphore!Signal => signalled' = signalled + 1
         /\ ~Semaphore!Signal => signalled' = signalled
<1> USE DEF SemaphoreInv, Tokens
<1>1. CASE Semaphore!Signal
  BY <1>1 DEF Semaphore!Signal, Semaphore!waiter
<1>2. CASE Semaphore!Release
  BY <1>2 DEF Semaphore!Release, Semaphore!Signal, Semaphore!waiter
<1>3. QED
  BY <1>1, <1>2

LEMMA SemaphoreStays ==
  ASSUME SemaphoreInv, UNCHANGED <<Count, Sem, wpc, Timeout, spc, signalled, granted>>
  PROVE  SemaphoreInv'
BY DEF SemaphoreInv, Tokens

-----------------------------------------------------------------------------
(* The calls. *)

LEMMA RingStep ==
  ASSUME QueueInv, cpc # "cleared", [Next]_vars
  PROVE  QueueInv'
BY CoreNext, QueueStays DEF QueueInv

LEMMA ProducerCalls ==
  ASSUME BlockingInv,
         (\E mode \in Modes : BlockingEnqueue(mode)) \/ EnqueueCall
  PROVE  BlockingInv'
<1>1. enqueued \in Nat /\ signalled \in Nat
  BY DEF BlockingInv, QueueInv, Core, ItemsInv, CallsInv, SemaphoreInv
<1>2. CASE (\E mode \in Modes : BlockingEnqueue(mode)) \/ InnerEnqueueStep
  <2>1. (\E mode \in Modes : BeginEnqueue(mode)) \/ EnqueueStep
    BY <1>2 DEF BlockingEnqueue, InnerEnqueueStep
  <2>2. UNCHANGED waiting
    BY <1>2 DEF BlockingEnqueue, InnerEnqueueStep
  <2>3. QueueInv'
    BY <2>1, RingStep DEF Next, BlockingInv, CallsInv
  <2>4. SemaphoreInv'
    BY <2>2, SemaphoreStays DEF waiting, BlockingInv
  <2>5. UNCHANGED consumer /\ enqueued' \in {enqueued, enqueued + 1}
    BY <2>1 DEF BeginEnqueue, EnqueueStep, LoadFront, LoadFrontBlock, LoadNextFront, Construct,
       StoreTail, StoreNextTail, NewBlock, Link, StoreTailBlock, ConstructThrows, Full, Produce
  <2>6. signalled <= enqueued'
    BY <1>1, <2>5 DEF BlockingInv, CallsInv
  <2>7. CallsInv'
    BY <2>2, <2>5, <2>6 DEF BlockingInv, CallsInv, Due, consumer, waiting
  <2>8. QED
    BY <2>3, <2>4, <2>7 DEF BlockingInv
<1>3. CASE SignalItem \/ ReleaseWaiter
  <2>1. UNCHANGED vars /\ op' = op
    BY <1>3 DEF SignalItem, ReleaseWaiter
  <2>2. /\ SemaphoreInv' /\ wpc' = wpc /\ granted' = granted
        /\ signalled' <= enqueued
    <3>1. CASE SignalItem
      <4>1. SemaphoreInv' /\ wpc' = wpc /\ granted' = granted /\ signalled' = signalled + 1
        BY <3>1, SignallerKeeps DEF SignalItem, BlockingInv
      <4>2. QED
        BY <1>1, <3>1, <4>1 DEF SignalItem
    <3>2. CASE ReleaseWaiter
      <4>1. SemaphoreInv' /\ wpc' = wpc /\ granted' = granted
        BY <3>2, SignallerKeeps DEF ReleaseWaiter, BlockingInv
      <4>2. signalled' = signalled
        BY <3>2 DEF ReleaseWaiter, Semaphore!Release
      <4>3. QED
        BY <4>1, <4>2 DEF BlockingInv, CallsInv
    <3>3. QED
      BY <1>3, <3>1, <3>2
  <2>3. QueueInv'
    BY <2>1, RingStep DEF BlockingInv, CallsInv
  <2>4. CallsInv'
    BY <2>1, <2>2 DEF BlockingInv, CallsInv, Due, vars, producer, consumer
  <2>5. QED
    BY <2>2, <2>3, <2>4 DEF BlockingInv
<1>4. QED
  BY <1>2, <1>3 DEF EnqueueCall

LEMMA ConsumerWaits ==
  ASSUME BlockingInv, Timeouts \subseteq {"none"},
         \/ \E timeout \in Timeouts \union {"try"}, o \in {"dequeue", "pop"} : BeginWait(timeout, o)
         \/ WaitStep \/ WaitFalse
  PROVE  BlockingInv'
<1>1. UNCHANGED vars /\ cpc = "idle" /\ op' \in {"dequeue", "pop"}
  <2>1. CASE \E timeout \in Timeouts \union {"try"}, o \in {"dequeue", "pop"} : BeginWait(timeout, o)
    BY <2>1 DEF BeginWait
  <2>2. CASE WaitStep
    BY <2>2, WaiterKeeps DEF WaitStep, BlockingInv, CallsInv
  <2>3. CASE WaitFalse
    BY <2>3 DEF WaitFalse, BlockingInv, CallsInv
  <2>4. QED
    BY <2>1, <2>2, <2>3
<1>2. \/ \E timeout \in Timeouts \union {"try"} : Semaphore!BeginWait(timeout)
      \/ Semaphore!WaitStep
      \/ Semaphore!WaitReturn
  BY DEF BeginWait, WaitStep, WaitFalse
<1>3. /\ SemaphoreInv' /\ signalled' = signalled
      /\ granted' = granted + (IF wpc' = "true" THEN 1 ELSE 0)
  BY <1>2, WaiterKeeps DEF BlockingInv
<1>4. wpc # "true"
  BY WaiterKeeps
  DEF BeginWait, WaitStep, WaitFalse, BlockingInv, Semaphore!BeginWait, Semaphore!WaitReturn
<1>5. QueueInv'
  BY <1>1, RingStep DEF BlockingInv, CallsInv
<1>6. dequeued \in Nat /\ granted \in Nat
  BY DEF BlockingInv, SemaphoreInv, CallsInv, QueueInv, Core, ItemsInv
<1>7. CallsInv'
  BY <1>1, <1>3, <1>4, <1>6 DEF BlockingInv, CallsInv, Due, vars, producer, consumer
<1>8. QED
  BY <1>3, <1>5, <1>7 DEF BlockingInv

\* A dequeue that was granted an item takes one before it returns.
LEMMA ConsumerTakes ==
  ASSUME BlockingInv, InnerDequeue \/ InnerDequeueStep \/ Peek
  PROVE  BlockingInv'
<1>1. UNCHANGED waiting /\ enqueued' = enqueued
  BY DEF InnerDequeue, InnerDequeueStep, Peek, BeginDequeue, DequeueStep, LoadTailBlock, LoadTail,
     HaveItem, ReloadTail, LoadNext, StoreFrontBlock, MoveOut, StoreFront, Return, producer
<1>2. SemaphoreInv'
  BY <1>1, SemaphoreStays DEF waiting, BlockingInv
<1>3. Core /\ op \in {"dequeue", "pop"}
  BY DEF BlockingInv, CallsInv, QueueInv
<1>4. QueueInv'
  <2>1. Next
    BY <1>3 DEF InnerDequeue, InnerDequeueStep, Peek, Next
  <2>2. QED
    BY <2>1, RingStep DEF BlockingInv, CallsInv
<1>5. /\ wpc' = wpc /\ op' = op /\ signalled' = signalled /\ granted' = granted
      /\ dequeued \in Nat /\ signalled \in Nat /\ granted \in Nat /\ enqueued \in Nat
      /\ signalled <= enqueued /\ granted <= signalled
      /\ granted = dequeued + (IF Due THEN 1 ELSE 0)
  BY <1>1, <1>3, GrantsSignalled DEF waiting, BlockingInv, CallsInv, SemaphoreInv, Core, ItemsInv
<1>6. CASE InnerDequeue \/ Peek
  <2>1. /\ cpc = "idle" /\ cpc' = "tailBlock" /\ dequeued' = dequeued
        /\ deq'.begun = enqueued
        /\ IF wpc = "true" THEN deq'.op # "peek" ELSE deq'.op = "peek" /\ wpc = "idle"
    BY <1>3, <1>6 DEF InnerDequeue, Peek, BeginDequeue
  <2>2. CallsInv'
    BY <1>1, <1>3, <1>5, <2>1 DEF CallsInv, Due
  <2>3. QED
    BY <1>2, <1>4, <2>2 DEF BlockingInv
<1>7. CASE InnerDequeueStep
  <2>1. /\ DequeueStep /\ ~Return /\ cpc # "idle"
    BY <1>7 DEF InnerDequeueStep, DequeueStep, LoadTailBlock, LoadTail,
       HaveItem, ReloadTail, LoadNext, StoreFrontBlock, MoveOut, StoreFront
  <2>2. /\ IF wpc = "true" THEN deq.op # "peek" ELSE deq.op = "peek" /\ wpc = "idle"
        /\ Due => deq.begun >= granted
    BY <2>1 DEF BlockingInv, CallsInv
  <2>3. cpc' # "idle" /\ cpc' # "cleared" /\ deq'.op = deq.op /\ deq'.begun = deq.begun
    BY <1>3, <2>1 DEF DequeueStep, LoadTailBlock, LoadTail, HaveItem, ReloadTail, LoadNext,
       StoreFrontBlock, MoveOut, StoreFront, Consume, Core, ConsumerInv
  <2>4. granted = dequeued' + (IF Due' THEN 1 ELSE 0) /\ (Due' => Due)
    <3>1. CASE MoveOut
      <4>1. /\ dequeued' = dequeued + 1 /\ cpc' \in {"store", "return"}
            /\ cpc \in {"take", "takeNext", "takeLast"} /\ deq.op # "peek"
        BY <1>3, <3>1 DEF MoveOut, Core, ConsumerInv
      <4>2. QED
        BY <1>5, <2>2, <4>1 DEF Due
    <3>2. CASE StoreFront
      <4>1. /\ dequeued' = dequeued
            /\ \/ cpc = "store" /\ cpc' = "return"
               \/ cpc = "takeNext" /\ cpc' = "takeLast"
        BY <3>2 DEF StoreFront, Consume
      <4>2. QED
        BY <1>5, <4>1 DEF Due
    <3>3. CASE ~MoveOut /\ ~StoreFront
      <4>1. /\ dequeued' = dequeued /\ cpc \notin {"store", "return"} /\ cpc' # "store"
            /\ cpc' = "return" => deq.op = "peek"
        BY <2>1, <3>3 DEF DequeueStep, LoadTailBlock, LoadTail, HaveItem, ReloadTail, LoadNext,
           StoreFrontBlock, Consume
      <4>2. QED
        BY <1>5, <2>2, <4>1 DEF Due
    <3>4. QED
      BY <3>1, <3>2, <3>3
  <2>5. CallsInv'
    BY <1>1, <1>3, <1>5, <2>2, <2>3, <2>4 DEF CallsInv, Due
  <2>6. QED
    BY <1>2, <1>4, <2>5 DEF BlockingInv
<1>8. QED
  BY <1>6, <1>7

LEMMA GrantedFinds ==
  ASSUME BlockingInv
  PROVE  DequeueSucceeds
<1>1. Core
  BY DEF BlockingInv, CallsInv, QueueInv
<1>2. granted \in Nat /\ dequeued \in Nat
  BY <1>1 DEF BlockingInv, SemaphoreInv, Core, ItemsInv
<1>3. cpc = "empty" => deq.begun \in Nat /\ deq.begun <= dequeued
  BY <1>1 DEF Core, ConsumerInv
<1>4. QED
  BY <1>2, <1>3 DEF BlockingInv, CallsInv, Due, DequeueSucceeds

LEMMA ConsumerReturns ==
  ASSUME BlockingInv, Timeouts \subseteq {"none"}, DequeueReturn \/ PeekReturn
  PROVE  BlockingInv'
<1>1. /\ Return /\ op' = op /\ enqueued' = enqueued /\ dequeued' = dequeued
      /\ cpc \in {"return", "empty"} /\ cpc' = "idle"
  BY DEF DequeueReturn, PeekReturn, Return, waiting, producer
<1>2. QueueInv'
  <2>1. Next
    BY <1>1 DEF Next, DequeueStep
  <2>2. QED
    BY <2>1, RingStep DEF BlockingInv, CallsInv
<1>3. SemaphoreInv' /\ granted' = granted /\ signalled' = signalled /\ wpc' = "idle"
  <2>1. CASE DequeueReturn
    <3>1. Semaphore!WaitReturn /\ wpc' = "idle"
      BY <2>1 DEF DequeueReturn, Semaphore!WaitReturn
    <3>2. QED
      BY <3>1, WaiterKeeps DEF BlockingInv, SemaphoreInv
  <2>2. CASE PeekReturn
    BY <2>2, SemaphoreStays DEF PeekReturn, waiting, BlockingInv
  <2>3. QED
    BY <2>1, <2>2
<1>4. ~Due
  <2>1. wpc = "true" => cpc = "return"
    BY <1>1, GrantedFinds DEF DequeueSucceeds
  <2>2. QED
    BY <2>1 DEF Due
<1>5. CallsInv'
  BY <1>1, <1>3, <1>4 DEF BlockingInv, CallsInv, Due
<1>6. QED
  BY <1>2, <1>3, <1>5 DEF BlockingInv

-----------------------------------------------------------------------------
(* Theorems. *)

\* The blocking queue does to its ring what one producer and one consumer do, also
\* with timeouts: all that is proved of the ring holds in it.
THEOREM BlockingUsesRing == BlockingSpec => Spec
<1> DEFINE Dequeues == op \in {"dequeue", "pop"}
<1>1. BlockingInit => Init /\ Dequeues
  BY DEF BlockingInit
<1>2. Dequeues /\ [BlockingNext]_blockingVars => Dequeues' /\ [Next]_vars
  <2> SUFFICES ASSUME Dequeues, [BlockingNext]_blockingVars
               PROVE  Dequeues' /\ [Next]_vars
    OBVIOUS
  <2>1. CASE UNCHANGED blockingVars
    BY <2>1 DEF blockingVars, waiting
  <2>2. ASSUME NEW mode \in Modes, BlockingEnqueue(mode)
        PROVE  Dequeues' /\ [Next]_vars
    BY <2>2 DEF BlockingEnqueue, waiting, Next
  <2>3. CASE EnqueueCall
    <3>1. CASE InnerEnqueueStep
      BY <3>1 DEF InnerEnqueueStep, waiting, Next
    <3>2. CASE SignalItem \/ ReleaseWaiter
      BY <3>2 DEF SignalItem, ReleaseWaiter
    <3>3. QED
      BY <2>3, <3>1, <3>2 DEF EnqueueCall
  <2>4. ASSUME NEW timeout \in Timeouts \union {"try"}, NEW o \in {"dequeue", "pop"},
               BeginWait(timeout, o)
        PROVE  Dequeues' /\ [Next]_vars
    BY <2>4 DEF BeginWait
  <2>5. CASE DequeueCall
    <3>1. CASE WaitStep \/ WaitFalse
      BY <3>1 DEF WaitStep, WaitFalse
    <3>2. CASE InnerDequeue
      BY <3>2 DEF InnerDequeue, waiting, Next
    <3>3. CASE InnerDequeueStep
      BY <3>3 DEF InnerDequeueStep, waiting, Next
    <3>4. CASE DequeueReturn \/ PeekReturn
      <4>1. Return /\ op' = op
        BY <3>4 DEF DequeueReturn, PeekReturn, waiting
      <4>2. QED
        BY <4>1 DEF Next, DequeueStep
    <3>5. QED
      BY <2>5, <3>1, <3>2, <3>3, <3>4 DEF DequeueCall
  <2>6. CASE Peek
    BY <2>6 DEF Peek, waiting, Next
  <2>7. QED
    BY <2>1, <2>2, <2>3, <2>4, <2>5, <2>6 DEF BlockingNext
<1>3. QED
  BY <1>1, <1>2, PTL DEF BlockingSpec, Spec

\* So the blocking queue delivers the items in order and each once, whatever the
\* timeouts: it too implements the abstract queue.
THEOREM BlockingFifo ==
  ASSUME ReservedSize > 0
  PROVE  BlockingSpec => ImplementsFifo
BY BlockingUsesRing, FifoImplemented, PTL

\* So too what the ring has reserved: TryEnqueue of the blocking queue fails only if
\* ReservedSize items were waiting.
THEOREM BlockingReserves ==
  ASSUME ReservedSize > 0
  PROVE  BlockingSpec => []ReservedHeld
BY BlockingUsesRing, ReservedIsHeld, PTL

\* Waits, signals and dequeues keep in step: the items granted to the consumer are
\* those it has taken and the one that is due to it, and they are published.
THEOREM BlockingCorrect ==
  ASSUME ReservedSize > 0, Timeouts \subseteq {"none"}
  PROVE  BlockingSpec => []BlockingInv
<1>1. BlockingInit => BlockingInv
  <2> SUFFICES ASSUME BlockingInit
               PROVE  BlockingInv
    OBVIOUS
  <2>1. QueueInv
    BY InitInv DEF BlockingInit
  <2>2. SemaphoreInv
    BY DEF BlockingInit, Semaphore!Init, SemaphoreInv, Tokens
  <2>3. CallsInv
    BY DEF BlockingInit, Init, Semaphore!Init, CallsInv, Due
  <2>4. QED
    BY <2>1, <2>2, <2>3 DEF BlockingInv
<1>2. BlockingInv /\ [BlockingNext]_blockingVars => BlockingInv'
  <2> SUFFICES ASSUME BlockingInv, [BlockingNext]_blockingVars
               PROVE  BlockingInv'
    OBVIOUS
  <2>1. CASE UNCHANGED blockingVars
    <3>1. UNCHANGED vars /\ UNCHANGED waiting
      BY <2>1 DEF blockingVars
    <3>2. QueueInv' /\ SemaphoreInv'
      BY <3>1, RingStep, SemaphoreStays DEF BlockingInv, CallsInv, waiting
    <3>3. CallsInv'
      BY <3>1 DEF vars, producer, consumer, waiting, BlockingInv, CallsInv, Due
    <3>4. QED
      BY <3>2, <3>3 DEF BlockingInv
  <2>2. CASE BlockingNext
    BY <2>2, ProducerCalls, ConsumerWaits, ConsumerTakes, ConsumerReturns
    DEF BlockingNext, DequeueCall
  <2>3. QED
    BY <2>1, <2>2
<1>3. QED
  BY <1>1, <1>2, PTL DEF BlockingSpec

\* A dequeue without a timeout, which waits until the semaphore grants it an item,
\* finds one in the ring: the asserts of Dequeue and Pop hold.
THEOREM WaitsFindItems ==
  ASSUME ReservedSize > 0, Timeouts \subseteq {"none"}
  PROVE  BlockingSpec => []DequeueSucceeds
BY GrantedFinds, BlockingCorrect, PTL
=============================================================================
