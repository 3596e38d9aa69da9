-------------------------- MODULE FastQueue_proofs --------------------------
(***************************************************************************)
(* What FastQueue does for every number of consumers, blocks and items,    *)
(* every block size and every size of the first index: consumers find      *)
(* their items, no block is reused under an item, objects are made and     *)
(* destroyed once, and Clear leaves nothing.                               *)
(*                                                                         *)
(* The argument numbers the blocks in the order of their items: B[m] is    *)
(* the block of the items with number m, and D[a] is where array a has the *)
(* entry of block 0, so that the entry of block m is at D[a] + m, modulo   *)
(* the array's size.  The numbers of the blocks in use are a window, that  *)
(* moves on when the producer takes a block.                               *)
(***************************************************************************)
EXTENDS FastQueue, FiniteSetTheorems, SequenceTheorems, TLAPS

-----------------------------------------------------------------------------
(* Calls that do not fail half-way. *)

\* Only a call for one item can fail, and that before it has taken a block.
NoBulkFails ==
  /\ Throws = {} /\ ~AssignThrows /\ 0 \notin Batches
  /\ \A f \in Failures : f[2] = 1
  /\ "CannotAlloc" \in Modes => Batches \subseteq {1}

\* The history variable, apart from the rest: nothing depends on it.
HarmKnown == harm \in {"none", "shifted", "done"}

\* It keeps a value of its kind, whatever fails.
LEMMA HarmAlways == Spec => []HarmKnown
<1>1. Init => HarmKnown
  BY DEF Init, HarmKnown
<1>2. ASSUME HarmKnown, EnqueueStep PROVE HarmKnown'
  BY <1>2 DEF HarmKnown, EnqueueStep, ReuseBlock, NothingToReuse, GrowIndex, RequisitionBlock,
              EnqueueFails, RequisitionThrows, Construct, ConstructThrows, StoreIndexTail, Publish
<1>3. ASSUME HarmKnown, NEW op, NEW n, NEW mode, BeginEnqueue(op, n, mode) PROVE HarmKnown'
  BY <1>3 DEF HarmKnown, BeginEnqueue
<1>4. ASSUME NEW c \in Consumers, DequeueStep(c) \/ \E max \in Requests : Claim(c, max)
      PROVE  harm' = harm
  BY <1>4 DEF DequeueStep, LoadArray, LoadTail, ReadBase, ReadBlock, MoveOut, SetEmpty, DropItems,
              SetDroppedEmpty, NextDropped, MarkEmpty, Claim, producer
<1>5. ASSUME Clear \/ Cleared \/ UNCHANGED vars PROVE harm' = harm
  BY <1>5 DEF Clear, Cleared, vars, producer
<1>6. HarmKnown /\ [NextStep]_vars => HarmKnown'
  BY <1>2, <1>3, <1>4, <1>5 DEF NextStep, HarmKnown
<1>7. QED
  BY <1>1, <1>6, PTL DEF Spec

-----------------------------------------------------------------------------
(* Blocks are numbered in the order of their items, and get another number when *)
(* they are used again.                                                        *)

\* The number of the block an index belongs to, and the indexes of a block.
Num(i) == i \div BlockSize
Items(m) == (m * BlockSize)..(m * BlockSize + BlockSize - 1)

\* The last block with published items; the last that the producer has taken, the
\* tail block; and the first that is not used again yet.
Last == Num(TailIndex - 1)
Top == IF enq.op = "none" THEN Last ELSE enq.Base \div BlockSize
Low == Top - PO_IndexEntriesUsed + 1
Window == Low..Top

\* The items c has still to see to, from the first of the block it is at, and those it
\* has not moved out.
From(c) == deq[c].First + deq[c].Count - deq[c].Need
Pending(c) == From(c)..(deq[c].First + deq[c].Count - 1)
Unmoved(c) == {i \in Pending(c) : pc[c] = "mark" => Num(i) # Num(From(c))}

Done(i) == i < HeadIndex /\ \A c \in Consumers : i \notin Pending(c)
Stored(i) ==
  \/ i < TailIndex /\ (i >= HeadIndex \/ \E c \in Consumers : i \in Unmoved(c))
  \/ ppc \in {"entry", "publish"} /\ i >= TailIndex /\ i < TailIndex + enq.Count

-----------------------------------------------------------------------------
(* The inductive invariant. *)

IndexEntries == [Base : Int \union Junk, InnerBlock : Blocks \union {NULL}]
IndexEntryArrays ==
  [Size : Nat, Tail : Int, Entries : UNION {[0..(n - 1) -> IndexEntries] : n \in Nat}]
Enqs == [op : {"none", "one", "bulk"}, Mode : {"CanAlloc", "CannotAlloc"}, Count : Nat,
         Need : Int, Base : Int,
         StartBlock : Blocks \union {NULL}, FirstAllocatedBlock : Blocks \union {NULL},
         OriginNext : Int, OriginUsed : Int]
Deqs == [First : Nat, Count : Nat, Need : Nat, Array : Nat, Tail : Int,
         Base : Int \union Junk,
         Block : Blocks \union {NULL}, NextBlock : Blocks \union {NULL}]
EnqueuePlaces == {"idle", "block", "new", "fill", "entry", "publish", "cleared"}
DequeuePlaces == {"idle", "array", "tail", "base", "block", "move", "mark"}

Types ==
  /\ HeadIndex \in Nat /\ TailIndex \in Nat /\ HeadIndex <= TailIndex /\ TailIndex <= MaxTail
  /\ TailBlock \in Blocks \union {NULL}
  /\ PO_NextIndexEntry \in Nat /\ PO_IndexEntriesUsed \in Nat
  /\ arrays \in Seq(IndexEntryArrays)
  /\ Next \in [Blocks -> Blocks \union {NULL}]
  /\ Flags \in [Blocks -> SUBSET Places]
  /\ Slots \in [Blocks -> [Places -> 0..(MaxTail - 1) \union {Raw, Bad}]]
  /\ free \subseteq Blocks
  /\ ppc \in EnqueuePlaces /\ enq \in Enqs
  /\ pc \in [Consumers -> DequeuePlaces] /\ deq \in [Consumers -> Deqs]

\* What the consumers have claimed.
ClaimsRight ==
  \A c \in Consumers :
    /\ IF pc[c] = "idle" THEN deq[c] = NoDeq ELSE 1 <= deq[c].Need /\ deq[c].Need <= deq[c].Count
    /\ deq[c].First + deq[c].Count <= HeadIndex
    /\ \A d \in Consumers \ {c} : Pending(c) \intersect Pending(d) = {}
    /\ pc[c] \in {"array", "tail", "base", "block"} => deq[c].Need = deq[c].Count

\* The running call: what it has taken and what it still needs.
CallRight(B) ==
  IF ppc = "idle" THEN enq = NoEnq
  ELSE /\ enq.op \in {"one", "bulk"} /\ enq.Count >= 1 /\ TailIndex + enq.Count <= MaxTail
       /\ enq.Mode \in Modes
       /\ enq.op = "one" => enq.Count = 1
       /\ enq.op = "bulk" => enq.Count \in Batches
       /\ enq.Base = Top * BlockSize /\ Top >= Last
       /\ enq.Need = Num(TailIndex + enq.Count - 1) - Top
       /\ IF ppc \in {"block", "new"} THEN enq.Need >= 1 ELSE enq.Need = 0
       /\ ppc = "entry" => Top > Last
       /\ enq.StartBlock = IF TailIndex = 0 THEN NULL ELSE B[Last]
       /\ enq.FirstAllocatedBlock = IF Top = Last THEN NULL ELSE B[Last + 1]
       /\ 0 <= enq.OriginUsed /\ enq.OriginUsed <= PO_IndexEntriesUsed
       /\ TailIndex > 0 => enq.OriginUsed >= 1
       /\ Top = Last /\ ppc \in {"block", "new"} =>
            enq.OriginNext = PO_NextIndexEntry /\ enq.OriginUsed = PO_IndexEntriesUsed

\* Every block is at the manager or in the ring, where B[m] comes before B[m + 1]; a
\* block that was used again had no items left.
AllDone(m) == \A i \in Items(m) : Done(i)
RingRight(B) ==
  /\ 0 <= Low /\ (Top >= 0 => PO_IndexEntriesUsed >= 1)
  /\ TailBlock = IF Top < 0 THEN NULL ELSE B[Top]
  /\ \A m \in Window : B[m] \in Blocks \ free
  /\ \A m, n \in Window : B[m] = B[n] => m = n
  /\ \A b \in Blocks \ free : \E m \in Window : B[m] = b
  /\ \A m \in Low..(Top - 1) : Next[B[m]] = B[m + 1]
  /\ Top >= 0 => Next[B[Top]] = B[Low]
  /\ \A m \in 0..(Low - 1) : AllDone(m)

\* Array a has the entry of block m at this place.
At0(a) == 0..(arrays[a].Size - 1)
At(D, a, m) == (D[a] + m) % arrays[a].Size
Written(a, s) == arrays[a].Entries[s].InnerBlock # NULL

\* An entry that was written has the base of a block whose place that is.
ArrayRight(D, a) ==
  /\ arrays[a].Size >= 2 /\ -1 <= arrays[a].Tail /\ arrays[a].Tail < arrays[a].Size
  /\ arrays[a].Entries \in [At0(a) -> IndexEntries]
  /\ \A s \in At0(a) : Written(a, s) =>
       \E m \in Nat : arrays[a].Entries[s].Base = m * BlockSize /\ s = At(D, a, m)
TailRight(a) == arrays[a].Tail >= 0 /\ Written(a, arrays[a].Tail)

\* Enqueue writes the entry of a new block when it makes the item, and moves on after that.
Unstored(m) == enq.op = "one" /\ ppc = "fill" /\ m > Last
NextNumber == IF enq.op = "one" /\ ppc \in {"fill", "entry"} /\ Top > Last THEN Top ELSE Top + 1

\* The current array has the entries of the blocks in the ring.
IndexRight(B, D) ==
  /\ Len(arrays) >= 1
  /\ \A a \in 1..Len(arrays) : ArrayRight(D, a)
  /\ PO_IndexEntriesUsed <= Current.Size
  /\ \A m \in Window : ~Unstored(m) =>
       Current.Entries[At(D, Len(arrays), m)] = Entry(m * BlockSize, B[m])
  /\ PO_NextIndexEntry = At(D, Len(arrays), NextNumber)
  /\ TailIndex > 0 \/ ppc = "publish" => TailRight(Len(arrays))

\* A block has the flags of the items that are done, and holds those that are stored.
FlagsRight(B) ==
  \A m \in Window : Flags[B[m]] = {Inner(i) : i \in {n \in Items(m) : Done(n)}}
SlotsRight(B) ==
  /\ \A b \in free, j \in Places : Slots[b][j] = Raw
  /\ \A m \in Window : \A i \in Items(m) :
       Slots[B[m]][Inner(i)] = IF Stored(i) THEN i ELSE Raw

\* A consumer on its way to its block: the array it has loaded has it.
LookupRight(B, D, c) ==
  /\ pc[c] \in {"tail", "base", "block"} =>
       /\ deq[c].Array \in 1..Len(arrays)
       /\ arrays[deq[c].Array].Entries[At(D, deq[c].Array, Num(From(c)))].InnerBlock = B[Num(From(c))]
  /\ pc[c] = "tail" => TailRight(deq[c].Array)
  /\ pc[c] \in {"base", "block"} => deq[c].Tail \in At0(deq[c].Array)
  /\ pc[c] = "base" => Written(deq[c].Array, deq[c].Tail)
  /\ pc[c] = "block" =>
       \E n \in Nat : deq[c].Base = n * BlockSize /\ deq[c].Tail = At(D, deq[c].Array, n)
  /\ pc[c] \in {"move", "mark"} => deq[c].Block = B[Num(From(c))]
  /\ pc[c] = "mark" /\ (\E i \in Pending(c) : Num(i) # Num(From(c))) =>
       deq[c].NextBlock = B[Num(From(c)) + 1]
LookupsRight(B, D) == \A c \in Consumers : LookupRight(B, D, c)

Numbering(B, D) ==
  /\ CallRight(B) /\ RingRight(B) /\ IndexRight(B, D) /\ FlagsRight(B) /\ SlotsRight(B)
  /\ LookupsRight(B, D)

FastInv ==
  /\ Types /\ ClaimsRight /\ ppc # "cleared"
  /\ \E B \in [Nat -> Blocks \union {NULL}], D \in [Nat -> Int] : Numbering(B, D)

\* Once it is cleared, the queue does not change any more.
ClearedInv ==
  /\ ppc = "cleared" /\ \A c \in Consumers : pc[c] = "idle"
  /\ free = Blocks /\ \A b \in Blocks, j \in Places : Slots[b][j] = Raw
  /\ TypeOK

\* The natural numbers are well-founded, so that induction over them needs no operator.
LEMMA NatWF == IsWellFoundedOn({ss \in Nat \X Nat : ss[1] < ss[2]}, Nat)
  BY NatLessThanWellFounded DEF OpToRel

\* A set of natural numbers that is not empty has a least element: induction over numbers.
LEMMA Least ==
  ASSUME NEW T, T \subseteq Nat, T # {}
  PROVE  \E x \in T : \A y \in T : x <= y
<1> DEFINE R == {ss \in Nat \X Nat : ss[1] < ss[2]}
<1>1. IsWellFoundedOn(R, Nat)
  BY NatWF
<1>2. \E x \in T : \A y \in T : ~ (<<y, x>> \in R)
  <2> HIDE DEF R
  <2> QED BY <1>1, WFMin
<1>3. PICK x \in T : \A y \in T : ~ (<<y, x>> \in R)
  BY <1>2
<1>4. ASSUME NEW y \in T PROVE x <= y
  <2>1. x \in Nat /\ y \in Nat
    OBVIOUS
  <2>2. ~(y < x)
    BY <1>3, <2>1
  <2> QED BY <2>1, <2>2
<1> QED  BY <1>4

\* A remainder is less than the divisor.
LEMMA ModType == ASSUME NEW x \in Int, NEW S \in Nat \ {0} PROVE x % S \in 0..(S - 1)
OBVIOUS

\* Division with remainder.
LEMMA ModQuotient == ASSUME NEW x \in Int, NEW S \in Nat \ {0} PROVE \E q \in Int : x = q * S + (x % S)
<1>1. x = (x \div S) * S + (x % S) /\ x \div S \in Int
  OBVIOUS
<1> QED BY <1>1

\* Products of sums.
LEMMA Distribute ==
  ASSUME NEW q \in Int, NEW p \in Int, NEW S \in Int
  PROVE  (q + p) * S = q * S + p * S /\ q * S \in Int /\ p * S \in Int
OBVIOUS

\* Quotient and remainder are unique.
LEMMA ModUnique ==
  ASSUME NEW S \in Nat \ {0}, NEW x \in Int, NEW q \in Int, NEW r \in 0..(S - 1), x = q * S + r
  PROVE  x % S = r /\ x \div S = q
<1>1. x = (x \div S) * S + (x % S) /\ x \div S \in Int /\ x % S \in 0..(S-1)
  OBVIOUS
<1> DEFINE p == x \div S  t == x % S
<1>2. p \in Int /\ t \in 0..(S-1) /\ q * S + r = p * S + t
  BY <1>1
<1> HIDE DEF p, t
<1>3. (q - p) * S = t - r
  BY <1>2
<1>4. q - p = 0
  <2>1. CASE q - p >= 1
    <3>1. (q - p) * S >= S BY <2>1, <1>2
    <3> QED BY <3>1, <1>3, <1>2
  <2>2. CASE q - p <= -1
    <3>1. (q - p) * S <= -S BY <2>2, <1>2
    <3> QED BY <3>1, <1>3, <1>2
  <2> QED BY <2>1, <2>2, <1>2
<1>5. t = r /\ p = q BY <1>3, <1>4, <1>2
<1> QED BY <1>5 DEF p, t

\* Whole turns of a ring do not count.
LEMMA ModShift ==
  ASSUME NEW S \in Nat \ {0}, NEW q \in Int, NEW y \in Int
  PROVE  (q * S + y) % S = y % S
<1>1. PICK p \in Int : y = p * S + (y % S) BY ModQuotient
<1> DEFINE r == y % S  u == q * S  v == p * S
<1>2. r \in 0..(S - 1) BY ModType
<1>3. (q + p) * S = u + v /\ u \in Int /\ v \in Int BY Distribute
<1>4. y = v + r BY <1>1
<1> HIDE DEF r, u, v
<1>5. u + y = (q + p) * S + r BY <1>2, <1>3, <1>4
<1>6. u + y \in Int /\ q + p \in Int BY <1>3
<1>7. (u + y) % S = r BY <1>2, <1>5, <1>6, ModUnique
<1> QED BY <1>7 DEF u, r

\* A remainder may be taken before an addition.
LEMMA ModPlus ==
  ASSUME NEW S \in Nat \ {0}, NEW x \in Int, NEW y \in Int
  PROVE  ((x % S) + y) % S = (x + y) % S
<1>1. PICK q \in Int : x = q * S + (x % S) BY ModQuotient
<1> DEFINE z == (x % S) + y  u == q * S
<1>2. z \in Int BY ModType
<1>3. x + y = u + z
  <2>1. x % S \in Int /\ u \in Int BY ModType
  <2> QED BY <2>1, <1>1
<1>4. (u + z) % S = z % S BY <1>2, ModShift
<1> QED BY <1>3, <1>4

\* A slot of a ring is its own remainder.
LEMMA ModSmall == ASSUME NEW S \in Nat \ {0}, NEW x \in 0..(S - 1) PROVE x % S = x
<1>1. x = 0 * S + x /\ x \in Int OBVIOUS
<1> QED BY <1>1, ModUnique

\* Within one turn, different numbers have different slots.
LEMMA ModEqual ==
  ASSUME NEW S \in Nat \ {0}, NEW x \in Int, NEW y \in Int,
         x % S = y % S, x - y < S, y - x < S
  PROVE  x = y
<1>1. PICK q \in Int : x = q * S + (x % S) BY ModQuotient
<1>2. PICK p \in Int : y = p * S + (y % S) BY ModQuotient
<1>3. x % S \in 0..(S - 1) BY ModType
<1>4. x - y = (q - p) * S BY <1>1, <1>2, <1>3
<1>5. ~(q - p >= 1)
  <2>1. SUFFICES ASSUME q - p >= 1 PROVE FALSE OBVIOUS
  <2>2. (q - p) * S >= S BY <2>1
  <2> QED BY <2>2, <1>4
<1>6. ~(q - p <= -1)
  <2>1. SUFFICES ASSUME q - p <= -1 PROVE FALSE OBVIOUS
  <2>2. (q - p) * S <= -S BY <2>1
  <2> QED BY <2>2, <1>4
<1>7. q - p = 0 BY <1>5, <1>6
<1> QED BY <1>4, <1>7


\* BLOCK_SIZE is a power of two, so the shifts and masks of the code divide by it.
LEMMA BlockSizeIs == BlockSize \in Nat \ {0, 1} /\ BlockSize \in {2, 4, 8, 16, 32, 64}
<1>1. BlockSize \in {2, 4, 8, 16, 32, 64}
  BY FastQueueAssumption DEF FastQueueAssumption
<1> QED BY <1>1

\* An index is the number of its block and its place in it.
LEMMA NumType ==
  ASSUME NEW i \in Int
  PROVE  /\ Num(i) \in Int /\ Inner(i) \in Places /\ i = Num(i) * BlockSize + Inner(i)
         /\ i >= 0 => Num(i) >= 0
         /\ i < 0 => Num(i) < 0
BY BlockSizeIs DEF Num, Inner, Places

\* The number and place of an index that is given by them.
LEMMA NumUnique ==
  ASSUME NEW m \in Int, NEW j \in Places
  PROVE  Num(m * BlockSize + j) = m /\ Inner(m * BlockSize + j) = j
BY BlockSizeIs DEF Num, Inner, Places

\* The items of a block are those with its number.
LEMMA NumItems ==
  ASSUME NEW m \in Int, NEW i \in Int
  PROVE  i \in Items(m) <=> Num(i) = m
BY BlockSizeIs DEF Num, Items

\* Later items are in later blocks.
LEMMA NumMono ==
  ASSUME NEW i \in Int, NEW j \in Int, i <= j
  PROVE  Num(i) <= Num(j)
BY BlockSizeIs DEF Num

\* The block of the item before.
LEMMA NumBefore ==
  ASSUME NEW i \in Int
  PROVE  /\ Inner(i) = 0 => Num(i - 1) = Num(i) - 1
         /\ Inner(i) # 0 => Num(i - 1) = Num(i)
BY BlockSizeIs DEF Num, Inner

\* How many blocks on the item k after i is.
LEMMA NumAhead ==
  ASSUME NEW i \in Int, NEW k \in Int
  PROVE  (Inner(i) + k) \div BlockSize = Num(i + k) - Num(i)
BY BlockSizeIs DEF Num, Inner

\* GetBlockIndexIndexForIndex: the difference of the bases, in blocks.
LEMMA NumDistance ==
  ASSUME NEW i \in Int, NEW n \in Int
  PROVE  ((i - Inner(i)) - n * BlockSize) \div BlockSize = Num(i) - n
BY BlockSizeIs DEF Num, Inner

\* A block has BLOCK_SIZE items.
LEMMA ItemsFinite ==
  ASSUME NEW m \in Int
  PROVE  /\ IsFiniteSet(Items(m)) /\ Cardinality(Items(m)) = BlockSize
         /\ m * BlockSize \in Items(m) /\ Items(m) \subseteq Int
         /\ m >= 0 => Items(m) \subseteq Nat
<1>1. m * BlockSize \in Int /\ m * BlockSize + BlockSize - 1 \in Int /\ BlockSize >= 2 
      /\ (m >= 0 => m * BlockSize >= 0)
  BY BlockSizeIs
<1> DEFINE lo == m * BlockSize  hi == lo + BlockSize - 1
<1>3. Items(m) = lo..hi BY DEF Items
<1>6. lo \in Int BY <1>1
<1> HIDE DEF lo
<1>2. lo \in Int /\ hi \in Int /\ hi - lo + 1 = BlockSize /\ lo <= hi BY <1>6, BlockSizeIs
<1> HIDE DEF hi
<1>4. IsFiniteSet(lo..hi) /\ Cardinality(lo..hi) = hi - lo + 1 BY <1>2, FS_Interval
<1>5. lo \in lo..hi /\ lo..hi \subseteq Int /\ (lo >= 0 => lo..hi \subseteq Nat) BY <1>2
<1> QED BY <1>1, <1>2, <1>3, <1>4, <1>5 DEF lo

\* DequeueBulk stops at the end of the items or of the block: the items of one block.
LEMMA SegEnd ==
  ASSUME NEW f \in Int, NEW n \in Nat, n >= 1
  PROVE  f..(f + Lesser(n, BlockSize - Inner(f)) - 1) = {i \in f..(f + n - 1) : Num(i) = Num(f)}
BY BlockSizeIs DEF Num, Inner, Lesser

\* Along a path p of h steps from b, Hop comes to its last block.
LEMMA HopPath ==
  ASSUME NEW h \in Nat, NEW b, NEW p, p = [k \in 0..h |-> p[k]], p[0] = b,
         \A k \in 1..h : p[k] = Next[p[k - 1]]
  PROVE  Hop(b, h) = p[h]
<1> DEFINE IsHop(f) == f = [k \in 0..h |-> IF k = 0 THEN b ELSE Next[f[k - 1]]]
<1>1. Hop(b, h) = (CHOOSE f : IsHop(f))[h]
  BY DEF Hop
<1>2. IsHop(p)
  OBVIOUS
<1>3. ASSUME NEW f, IsHop(f) PROVE f = p
  <2> DEFINE T == {k \in 0..h : f[k] # p[k]}
  <2>1. CASE T = {}
    <3>1. f = [k \in 0..h |-> f[k]] BY <1>3
    <3> QED BY <3>1, <2>1
  <2>2. CASE T # {}
    <3>1. PICK k \in T : \A y \in T : k <= y
      BY <2>2, Least, T \subseteq Nat
    <3>2. f[k] = IF k = 0 THEN b ELSE Next[f[k - 1]]
      BY <1>3
    <3>3. k # 0 /\ k \in Nat /\ k <= h BY <3>2
    <3>4. k - 1 \in 0..h /\ k - 1 \notin T /\ k \in 1..h BY <3>1, <3>3
    <3>5. f[k - 1] = p[k - 1] BY <3>4
    <3>6. p[k] = Next[p[k - 1]] BY <3>4
    <3> QED BY <3>1, <3>2, <3>3, <3>5, <3>6
  <2> QED BY <2>1, <2>2
<1> HIDE DEF IsHop
<1>4. IsHop(CHOOSE f : IsHop(f)) BY <1>2
<1> QED BY <1>1, <1>3, <1>4

-----------------------------------------------------------------------------
(* What the invariant says of blocks and items. *)

\* The invariant with its numbers.
Inv(B, D) == Types /\ ClaimsRight /\ ppc # "cleared" /\ Numbering(B, D)
Numbers == [Nat -> Blocks \union {NULL}]
Offsets == [Nat -> Int]

\* The items of a consumer are published.
LEMMA PendingTypes ==
  ASSUME Types, ClaimsRight, NEW c \in Consumers
  PROVE  /\ From(c) \in Nat /\ Pending(c) \subseteq Nat
         /\ \A i \in Pending(c) : i < HeadIndex /\ i < TailIndex /\ From(c) <= i
         /\ pc[c] = "idle" => Pending(c) = {}
         /\ pc[c] # "idle" => From(c) \in Pending(c)
         /\ Unmoved(c) \subseteq Pending(c)
         /\ Num(From(c)) \in Nat
<1>1. /\ deq[c].First \in Nat /\ deq[c].Count \in Nat /\ deq[c].Need \in Nat
      /\ HeadIndex \in Nat /\ TailIndex \in Nat /\ HeadIndex <= TailIndex
      /\ deq[c].First + deq[c].Count <= HeadIndex
  BY DEF Types, Deqs, ClaimsRight
<1>2. CASE pc[c] = "idle"
  <2>1. deq[c] = NoDeq
    BY <1>2 DEF ClaimsRight
  <2>2. From(c) = 0 /\ Pending(c) = {}
    BY <2>1 DEF From, Pending, NoDeq
  <2>3. QED
    BY <1>2, <2>2, NumType DEF Unmoved
<1>3. CASE pc[c] # "idle"
  <2>1. 1 <= deq[c].Need /\ deq[c].Need <= deq[c].Count
    BY <1>3 DEF ClaimsRight
  <2>2. /\ From(c) \in Nat /\ Pending(c) \subseteq Nat
        /\ \A i \in Pending(c) : i < HeadIndex /\ i < TailIndex /\ From(c) <= i
        /\ From(c) \in Pending(c)
    BY <1>1, <2>1 DEF From, Pending
  <2>3. Num(From(c)) \in Nat
    BY <2>2, NumType
  <2>4. QED
    BY <1>3, <2>2, <2>3 DEF Unmoved
<1>4. QED
  BY <1>2, <1>3

\* The numbers are integers, and the window ends with the last block.
LEMMA TopType ==
  ASSUME Types, NEW B, CallRight(B)
  PROVE  /\ Last \in Int /\ Last >= -1 /\ Top \in Int /\ Top >= Last /\ Low \in Int
         /\ TailIndex = 0 => Last = -1
         /\ TailIndex > 0 => Last >= 0
         /\ ppc = "idle" => Top = Last
         /\ Low = Top - PO_IndexEntriesUsed + 1 /\ Window = Low..Top
<1>1. TailIndex \in Nat /\ PO_IndexEntriesUsed \in Nat /\ enq.Base \in Int
  BY DEF Types, Enqs
<1>2. TailIndex - 1 \in Int
  BY <1>1
<1>3. Last \in Int /\ Last >= -1 /\ (TailIndex = 0 => Last = -1) /\ (TailIndex > 0 => Last >= 0)
  <2>1. CASE TailIndex = 0
    BY <2>1, BlockSizeIs DEF Last, Num
  <2>2. CASE TailIndex > 0
    BY <1>1, <1>2, <2>2, NumType DEF Last
  <2>3. QED
    BY <1>1, <2>1, <2>2
<1>4. Top \in Int /\ Top >= Last /\ (ppc = "idle" => Top = Last)
  <2>1. CASE ppc = "idle"
    BY <1>3, <2>1 DEF CallRight, NoEnq, Top
  <2>2. CASE ppc # "idle"
    <3>1. enq.op # "none" /\ Top >= Last
      BY <2>2 DEF CallRight
    <3>2. QED
      BY <1>1, <2>2, <3>1, BlockSizeIs DEF Top
  <2>3. QED
    BY <2>1, <2>2
<1>5. Low \in Int
  BY <1>1, <1>4 DEF Low
<1>6. QED
  BY <1>3, <1>4, <1>5 DEF Low, Window

\* Items that are not done are in blocks of the window.
LEMMA InWindow ==
  ASSUME Types, NEW B, CallRight(B), RingRight(B), NEW i \in Nat, ~Done(i), Num(i) <= Top
  PROVE  Num(i) \in Window
<1>1. Num(i) \in Nat /\ i \in Items(Num(i))
  BY NumType, NumItems
<1>2. ~(Num(i) < Low)
  <2>1. SUFFICES ASSUME Num(i) < Low PROVE FALSE
    OBVIOUS
  <2>2. Num(i) \in 0..(Low - 1)
    BY <1>1, <2>1, TopType
  <2>3. QED
    BY <1>1, <2>2 DEF RingRight, AllDone
<1>3. QED
  BY <1>1, <1>2, TopType

\* And so are those that consumers have claimed.
LEMMA PendingInWindow ==
  ASSUME Types, ClaimsRight, NEW B, CallRight(B), RingRight(B), NEW c \in Consumers,
         NEW i \in Pending(c)
  PROVE  Num(i) \in Window /\ Num(i) \in Nat /\ Num(i) <= Last
<1>1. i \in Nat /\ i < TailIndex /\ TailIndex \in Nat
  BY PendingTypes DEF Types
<1>2. Num(i) \in Nat /\ Num(i) <= Last
  BY <1>1, NumType, NumMono DEF Last
<1>3. ~Done(i)
  BY DEF Done
<1>4. Num(i) <= Top
  BY <1>2, TopType
<1>5. QED
  BY <1>1, <1>2, <1>3, <1>4, InWindow

\* A published item that nobody has claimed is not done either.
LEMMA UnclaimedInWindow ==
  ASSUME Types, NEW B, CallRight(B), RingRight(B), NEW i \in Nat, i >= HeadIndex, Num(i) <= Top
  PROVE  Num(i) \in Window
<1>1. HeadIndex \in Nat
  BY DEF Types
<1>2. ~Done(i)
  BY <1>1 DEF Done
<1>3. QED
  BY <1>2, InWindow

-----------------------------------------------------------------------------
(* Steps of a consumer. *)

\* What such a step leaves alone.
ProducerStays == UNCHANGED <<TailIndex, producer, Next, free>>
Others(c) == \A d \in Consumers \ {c} : pc'[d] = pc[d] /\ deq'[d] = deq[d]

\* The numbers and the index are the producer's.
LEMMA NumbersStay ==
  ASSUME ProducerStays
  PROVE  /\ Last' = Last /\ Top' = Top /\ Low' = Low /\ Window' = Window
         /\ \A m : Unstored(m)' = Unstored(m)
         /\ NextNumber' = NextNumber
         /\ \A D, a, m : At(D, a, m)' = At(D, a, m)
         /\ \A a : At0(a)' = At0(a) /\ TailRight(a)' = TailRight(a)
         /\ \A a, s : Written(a, s)' = Written(a, s)
BY DEF ProducerStays, producer, indexVars, Last, Top, Low, Window, Unstored, NextNumber, At, At0,
       TailRight, Written

\* Nor does it touch the call that is running,
LEMMA CallStays == ASSUME ProducerStays, NEW B PROVE CallRight(B)' = CallRight(B)
BY DEF ProducerStays, producer, indexVars, CallRight, Top, Last

\* or the index.
LEMMA IndexStays == ASSUME ProducerStays, NEW B, NEW D PROVE IndexRight(B, D)' = IndexRight(B, D)
BY DEF ProducerStays, producer, indexVars, IndexRight, ArrayRight, At0, At, Written, TailRight,
       Current, Window, Low, Top, Last, Unstored, NextNumber

\* The ring stays right when more items are done.
LEMMA RingStays ==
  ASSUME ProducerStays, NEW B, RingRight(B), \A i \in Nat : Done(i) => Done(i)', Low \in Int
  PROVE  RingRight(B)'
<1>1. Low' = Low /\ Top' = Top /\ Window' = Window
  BY NumbersStay
<1>2. UNCHANGED <<TailBlock, PO_IndexEntriesUsed, free, Next>>
  BY DEF ProducerStays, producer, indexVars
<1>3. ASSUME NEW m \in 0..(Low - 1) PROVE AllDone(m)'
  <2>1. AllDone(m) /\ m \in Int /\ m >= 0
    BY <1>3 DEF RingRight
  <2>2. Items(m) \subseteq Nat
    BY <2>1, ItemsFinite
  <2>3. QED
    BY <2>1, <2>2 DEF AllDone
<1>4. QED
  BY <1>1, <1>2, <1>3 DEF RingRight

\* A step of a consumer that only reads: the lookup of its block.
LEMMA LoadStep ==
  ASSUME NEW B \in Numbers, NEW D \in Offsets, Inv(B, D), NEW c \in Consumers,
         UNCHANGED <<HeadIndex, TailIndex, producer, blockVars>>, Others(c),
         pc[c] \in {"array", "tail", "base", "block"},
         pc'[c] \in {"tail", "base", "block", "move"},
         deq'[c].First = deq[c].First, deq'[c].Count = deq[c].Count, deq'[c].Need = deq[c].Need,
         Types', LookupRight(B, D, c)'
  PROVE  Inv(B, D)'
<1>0. Types /\ ClaimsRight /\ Numbering(B, D) /\ ppc # "cleared"
  BY DEF Inv
<1>1. ProducerStays /\ UNCHANGED <<HeadIndex, Slots, Flags, ppc, TailIndex, enq, arrays>>
  BY DEF ProducerStays, blockVars, producer, indexVars
<1>2. ASSUME NEW d \in Consumers
      PROVE  From(d)' = From(d) /\ Pending(d)' = Pending(d) /\ Unmoved(d)' = Unmoved(d)
  <2>1. deq'[d].First = deq[d].First /\ deq'[d].Count = deq[d].Count /\ deq'[d].Need = deq[d].Need
        /\ (pc'[d] = "mark" <=> pc[d] = "mark")
    BY DEF Others
  <2>2. QED
    BY <2>1 DEF From, Pending, Unmoved
<1>3. \A i : Done(i)' = Done(i) /\ Stored(i)' = Stored(i)
  BY <1>1, <1>2 DEF Done, Stored
<1>4. ClaimsRight'
  <2>1. ASSUME NEW d \in Consumers
        PROVE  /\ (IF pc[d] = "idle" THEN deq[d] = NoDeq
                   ELSE 1 <= deq[d].Need /\ deq[d].Need <= deq[d].Count)'
               /\ (deq[d].First + deq[d].Count <= HeadIndex)'
               /\ (pc[d] \in {"array", "tail", "base", "block"} => deq[d].Need = deq[d].Count)'
    <3>1. CASE d = c
      BY <1>0, <1>1, <3>1 DEF ClaimsRight
    <3>2. CASE d # c
      BY <1>0, <1>1, <3>2 DEF ClaimsRight, Others
    <3>3. QED
      BY <3>1, <3>2
  <2>2. \A d \in Consumers : \A e \in Consumers \ {d} : (Pending(d) \intersect Pending(e))' = {}
    BY <1>0, <1>2 DEF ClaimsRight
  <2>3. QED
    BY <2>1, <2>2 DEF ClaimsRight
<1>5. CallRight(B)' /\ IndexRight(B, D)'
  BY <1>0, <1>1, CallStays, IndexStays DEF Numbering
<1>6. RingRight(B)'
  BY <1>0, <1>1, <1>3, RingStays, TopType DEF Numbering
<1>7. FlagsRight(B)' /\ SlotsRight(B)'
  <2>1. Window' = Window /\ free' = free
    BY <1>1, NumbersStay DEF ProducerStays
  <2>2. QED
    BY <1>0, <1>1, <1>3, <2>1 DEF Numbering, FlagsRight, SlotsRight
<1>8. LookupsRight(B, D)'
  <2>1. ASSUME NEW d \in Consumers \ {c} PROVE LookupRight(B, D, d)'
    <3>1. LookupRight(B, D, d) /\ pc'[d] = pc[d] /\ deq'[d] = deq[d]
      BY <1>0 DEF Numbering, LookupsRight, Others
    <3>2. QED
      BY <1>1, <1>2, <3>1, NumbersStay DEF LookupRight
  <2>2. QED
    BY <2>1 DEF LookupsRight
<1>9. QED
  BY <1>0, <1>1, <1>4, <1>5, <1>6, <1>7, <1>8 DEF Inv, Numbering

\* What the types say of an array.
LEMMA ArrayIs ==
  ASSUME Types, NEW B, NEW D, IndexRight(B, D)
  PROVE  /\ Len(arrays) \in Nat /\ Len(arrays) \in 1..Len(arrays) /\ Current = arrays[Len(arrays)]
         /\ \A a \in 1..Len(arrays) :
              /\ arrays[a] \in IndexEntryArrays
              /\ arrays[a].Size \in Nat \ {0, 1}
              /\ arrays[a].Entries \in [At0(a) -> IndexEntries]
              /\ TailRight(a) => arrays[a].Tail \in At0(a)
<1>1. Len(arrays) \in Nat /\ Len(arrays) \in 1..Len(arrays)
  BY DEF Types, IndexRight
<1>2. ASSUME NEW a \in 1..Len(arrays)
      PROVE  /\ arrays[a] \in IndexEntryArrays
             /\ arrays[a].Size \in Nat \ {0, 1}
             /\ arrays[a].Entries \in [At0(a) -> IndexEntries]
             /\ TailRight(a) => arrays[a].Tail \in At0(a)
  <2>1. arrays[a] \in IndexEntryArrays
    BY DEF Types
  <2>2. ArrayRight(D, a)
    BY DEF IndexRight
  <2>3. arrays[a].Size \in Nat /\ arrays[a].Tail \in Int
    BY <2>1 DEF IndexEntryArrays
  <2>4. QED
    BY <2>1, <2>2, <2>3 DEF ArrayRight, TailRight, At0
<1>3. QED
  BY <1>1, <1>2 DEF Current

\* A place is in the array.
LEMMA AtType ==
  ASSUME Types, NEW B, NEW D \in Offsets, IndexRight(B, D), NEW a \in 1..Len(arrays), NEW m \in Int
  PROVE  At(D, a, m) \in At0(a)
<1>1. arrays[a].Size \in Nat \ {0} /\ a \in Nat
  BY ArrayIs
<1>2. D[a] + m \in Int
  BY <1>1 DEF Offsets
<1>3. QED
  BY <1>1, <1>2, ModType DEF At, At0

\* The array a consumer loads is the current one, which has its block.
LEMMA LoadArrayStep ==
  ASSUME NEW B \in Numbers, NEW D \in Offsets, Inv(B, D), NEW c \in Consumers, LoadArray(c)
  PROVE  Inv(B, D)'
<1>0. /\ Types /\ ClaimsRight /\ CallRight(B) /\ RingRight(B) /\ IndexRight(B, D)
      /\ pc[c] = "array" /\ deq \in [Consumers -> Deqs] /\ pc \in [Consumers -> DequeuePlaces]
  BY DEF Inv, Numbering, LoadArray, Types
<1>1. UNCHANGED <<HeadIndex, TailIndex, producer, blockVars>>
  BY DEF LoadArray
<1>2. /\ Others(c) /\ pc'[c] = "tail" /\ deq'[c] = [deq[c] EXCEPT !.Array = Len(arrays)]
      /\ pc' \in [Consumers -> DequeuePlaces]
  BY <1>0 DEF LoadArray, Goto, Others, DequeuePlaces
<1>3. Len(arrays) \in Nat /\ deq[c] \in Deqs
  BY <1>0, ArrayIs
<1>4. deq'[c] \in Deqs /\ deq' \in [Consumers -> Deqs]
  <2>1. deq'[c] \in Deqs
    BY <1>2, <1>3 DEF Deqs
  <2>2. deq' = [deq EXCEPT ![c] = deq'[c]]
    BY <1>0, <1>2 DEF LoadArray
  <2>3. QED
    BY <1>0, <2>1, <2>2
<1>5. Types'
  BY <1>0, <1>1, <1>2, <1>4 DEF Types, producer, indexVars, blockVars
<1>6. /\ deq'[c].First = deq[c].First /\ deq'[c].Count = deq[c].Count /\ deq'[c].Need = deq[c].Need
      /\ deq'[c].Array = Len(arrays)
  BY <1>2, <1>3 DEF Deqs
<1>7. From(c)' = From(c) /\ From(c) \in Pending(c)
  BY <1>0, <1>6, PendingTypes DEF From
<1>8. Num(From(c)) \in Window /\ Num(From(c)) \in Nat /\ Num(From(c)) <= Last
  BY <1>0, <1>7, PendingInWindow
<1>9. Current.Entries[At(D, Len(arrays), Num(From(c)))].InnerBlock = B[Num(From(c))]
  <2>1. ~Unstored(Num(From(c)))
    BY <1>0, <1>8, TopType DEF Unstored
  <2>2. Current.Entries[At(D, Len(arrays), Num(From(c)))]
          = Entry(Num(From(c)) * BlockSize, B[Num(From(c))])
    BY <1>0, <1>8, <2>1 DEF IndexRight
  <2>3. QED
    BY <2>2 DEF Entry
<1>10. TailRight(Len(arrays))
  <2>1. TailIndex > 0
    BY <1>0, <1>7, PendingTypes DEF Types
  <2>2. QED
    BY <1>0, <2>1 DEF IndexRight
<1>11. arrays' = arrays
  BY <1>1 DEF producer, indexVars
<1>12. LookupRight(B, D, c)'
  <2>1. pc'[c] = "tail"
    BY <1>2
  <2>2. deq'[c].Array \in 1..Len(arrays')
    BY <1>0, <1>6, <1>11, ArrayIs
  <2>3. TailRight(deq[c].Array)'
    BY <1>6, <1>10, <1>11 DEF TailRight, Written
  <2>4. (arrays[deq[c].Array].Entries[At(D, deq[c].Array, Num(From(c)))].InnerBlock = B[Num(From(c))])'
    BY <1>6, <1>7, <1>9, <1>11 DEF At, Current
  <2>5. QED
    BY <2>1, <2>2, <2>3, <2>4 DEF LookupRight
<1>13. QED
  BY <1>0, <1>1, <1>2, <1>5, <1>6, <1>12, LoadStep

\* The array a consumer has loaded has its block, whatever it reads there.
LEMMA ArrayStays ==
  ASSUME NEW B, NEW D, NEW c, UNCHANGED arrays, From(c)' = From(c),
         deq'[c].Array = deq[c].Array, LookupRight(B, D, c), pc[c] \in {"tail", "base", "block"}
  PROVE  /\ deq'[c].Array \in 1..Len(arrays')
         /\ (arrays[deq[c].Array].Entries[At(D, deq[c].Array, Num(From(c)))].InnerBlock
               = B[Num(From(c))])'
BY DEF LookupRight, At

\* The Tail it reads is that of an entry that was written.
LEMMA LoadTailStep ==
  ASSUME NEW B \in Numbers, NEW D \in Offsets, Inv(B, D), NEW c \in Consumers, LoadTail(c)
  PROVE  Inv(B, D)'
<1>0. /\ Types /\ ClaimsRight /\ IndexRight(B, D) /\ LookupRight(B, D, c)
      /\ pc[c] = "tail" /\ deq \in [Consumers -> Deqs] /\ pc \in [Consumers -> DequeuePlaces]
  BY DEF Inv, Numbering, LookupsRight, LoadTail, Types
<1>1. UNCHANGED <<HeadIndex, TailIndex, producer, blockVars>> /\ arrays' = arrays
  BY DEF LoadTail, producer, indexVars
<1>2. PICK a \in 1..Len(arrays) : a = deq[c].Array
  BY <1>0 DEF LookupRight
<1>3. PICK t \in At0(a) : t = arrays[a].Tail /\ Written(a, t) /\ t \in Int
  <2>1. TailRight(a)
    BY <1>0, <1>2 DEF LookupRight
  <2>2. QED
    BY <1>0, <2>1, ArrayIs DEF TailRight, At0
<1>4. /\ Others(c) /\ pc'[c] = "base" /\ deq'[c] = [deq[c] EXCEPT !.Tail = t]
      /\ pc' \in [Consumers -> DequeuePlaces]
  BY <1>0, <1>2, <1>3 DEF LoadTail, Goto, Others, DequeuePlaces
<1>5. deq[c] \in Deqs
  BY <1>0
<1>6. deq'[c] \in Deqs /\ deq' \in [Consumers -> Deqs]
  <2>1. deq'[c] \in Deqs
    BY <1>3, <1>4, <1>5 DEF Deqs
  <2>2. deq' = [deq EXCEPT ![c] = deq'[c]]
    BY <1>0, <1>4 DEF LoadTail
  <2>3. QED
    BY <1>0, <2>1, <2>2
<1>7. Types'
  BY <1>0, <1>1, <1>4, <1>6 DEF Types, producer, indexVars, blockVars
<1>8. /\ deq'[c].First = deq[c].First /\ deq'[c].Count = deq[c].Count /\ deq'[c].Need = deq[c].Need
      /\ deq'[c].Array = deq[c].Array /\ deq'[c].Tail = t
  BY <1>4, <1>5 DEF Deqs
<1>9. From(c)' = From(c)
  BY <1>8 DEF From
<1>10. LookupRight(B, D, c)'
  <2>1. /\ deq'[c].Array \in 1..Len(arrays')
        /\ (arrays[deq[c].Array].Entries[At(D, deq[c].Array, Num(From(c)))].InnerBlock
              = B[Num(From(c))])'
    BY <1>0, <1>1, <1>8, <1>9, ArrayStays
  <2>2. pc'[c] = "base"
    BY <1>4
  <2>3. (deq[c].Tail \in At0(deq[c].Array))' /\ Written(deq[c].Array, deq[c].Tail)'
    BY <1>1, <1>2, <1>3, <1>8 DEF At0, Written
  <2>4. QED
    BY <2>1, <2>2, <2>3 DEF LookupRight
<1>11. QED
  BY <1>0, <1>1, <1>4, <1>7, <1>8, <1>10, LoadStep

\* The base it reads says which block that entry is for.
LEMMA ReadBaseStep ==
  ASSUME NEW B \in Numbers, NEW D \in Offsets, Inv(B, D), NEW c \in Consumers, ReadBase(c)
  PROVE  Inv(B, D)'
<1>0. /\ Types /\ ClaimsRight /\ IndexRight(B, D) /\ LookupRight(B, D, c)
      /\ pc[c] = "base" /\ deq \in [Consumers -> Deqs] /\ pc \in [Consumers -> DequeuePlaces]
  BY DEF Inv, Numbering, LookupsRight, ReadBase, Types
<1>1. UNCHANGED <<HeadIndex, TailIndex, producer, blockVars>> /\ arrays' = arrays
  BY DEF ReadBase, producer, indexVars
<1>2. PICK a \in 1..Len(arrays) : a = deq[c].Array
  BY <1>0 DEF LookupRight
<1>3. PICK t \in At0(a) : t = deq[c].Tail /\ Written(a, t)
  BY <1>0, <1>2 DEF LookupRight
<1>4. PICK n \in Nat : arrays[a].Entries[t].Base = n * BlockSize /\ t = At(D, a, n)
  BY <1>0, <1>3 DEF IndexRight, ArrayRight
<1>5. n * BlockSize \in Int
  BY BlockSizeIs
<1>6. /\ Others(c) /\ pc'[c] = "block" /\ deq'[c] = [deq[c] EXCEPT !.Base = n * BlockSize]
      /\ pc' \in [Consumers -> DequeuePlaces]
  BY <1>0, <1>2, <1>3, <1>4 DEF ReadBase, Goto, Others, DequeuePlaces
<1>7. deq[c] \in Deqs
  BY <1>0
<1>8. deq'[c] \in Deqs /\ deq' \in [Consumers -> Deqs]
  <2>1. deq'[c] \in Deqs
    BY <1>5, <1>6, <1>7 DEF Deqs
  <2>2. deq' = [deq EXCEPT ![c] = deq'[c]]
    BY <1>0, <1>6 DEF ReadBase
  <2>3. QED
    BY <1>0, <2>1, <2>2
<1>9. Types'
  BY <1>0, <1>1, <1>6, <1>8 DEF Types, producer, indexVars, blockVars
<1>10. /\ deq'[c].First = deq[c].First /\ deq'[c].Count = deq[c].Count /\ deq'[c].Need = deq[c].Need
       /\ deq'[c].Array = deq[c].Array /\ deq'[c].Tail = t /\ deq'[c].Base = n * BlockSize
  BY <1>3, <1>6, <1>7 DEF Deqs
<1>11. From(c)' = From(c)
  BY <1>10 DEF From
<1>12. LookupRight(B, D, c)'
  <2>1. /\ deq'[c].Array \in 1..Len(arrays')
        /\ (arrays[deq[c].Array].Entries[At(D, deq[c].Array, Num(From(c)))].InnerBlock
              = B[Num(From(c))])'
    BY <1>0, <1>1, <1>10, <1>11, ArrayStays
  <2>2. pc'[c] = "block"
    BY <1>6
  <2>3. (deq[c].Tail \in At0(deq[c].Array))' /\ (deq[c].Tail = At(D, deq[c].Array, n))'
    BY <1>1, <1>2, <1>3, <1>4, <1>10 DEF At0, At
  <2>4. QED
    BY <1>10, <2>1, <2>2, <2>3 DEF LookupRight
<1>13. QED
  BY <1>0, <1>1, <1>6, <1>9, <1>10, <1>12, LoadStep

\* The block it computes from them is the block of its first item.
LEMMA ReadBlockStep ==
  ASSUME NEW B \in Numbers, NEW D \in Offsets, Inv(B, D), NEW c \in Consumers, ReadBlock(c)
  PROVE  Inv(B, D)'
<1>0. /\ Types /\ ClaimsRight /\ IndexRight(B, D) /\ LookupRight(B, D, c)
      /\ pc[c] = "block" /\ deq \in [Consumers -> Deqs] /\ pc \in [Consumers -> DequeuePlaces]
  BY DEF Inv, Numbering, LookupsRight, ReadBlock, Types
<1>1. UNCHANGED <<HeadIndex, TailIndex, producer, blockVars>> /\ arrays' = arrays
  BY DEF ReadBlock, producer, indexVars
<1>2. PICK a \in 1..Len(arrays) : a = deq[c].Array
  BY <1>0 DEF LookupRight
<1>3. PICK n \in Nat : deq[c].Base = n * BlockSize /\ deq[c].Tail = At(D, a, n)
  BY <1>0, <1>2 DEF LookupRight
<1>4. PICK f \in Nat : f = deq[c].First /\ f = From(c)
  <2>1. deq[c] \in Deqs /\ deq[c].Need = deq[c].Count
    BY <1>0 DEF ClaimsRight
  <2>2. QED
    BY <2>1 DEF Deqs, From
<1>5. PICK q \in Nat : q = Num(f)
  BY NumType
<1>6. ((f - Inner(f)) - deq[c].Base) \div BlockSize = q - n
  BY <1>3, <1>5, NumDistance
<1>7. (deq[c].Tail + (q - n)) % arrays[a].Size = At(D, a, q)
  <2>1. PICK S \in Nat \ {0} : S = arrays[a].Size
    BY <1>0, ArrayIs
  <2>2. PICK x \in Int : x = D[a]
    BY DEF Offsets
  <2>6. PICK y \in Int, z \in Int : y = x + n /\ z = q - n
    OBVIOUS
  <2>3. ((y % S) + z) % S = (y + z) % S
    BY ModPlus
  <2>4. y + z = x + q
    BY <2>6
  <2>5. QED
    BY <1>3, <2>1, <2>2, <2>3, <2>4, <2>6 DEF At
<1>8. PICK b \in Blocks \union {NULL} : b = B[q]
  BY DEF Numbers
<1>9. arrays[a].Entries[At(D, a, q)].InnerBlock = b
  BY <1>0, <1>2, <1>4, <1>5, <1>8 DEF LookupRight
<1>10. /\ Others(c) /\ pc'[c] = "move" /\ deq'[c] = [deq[c] EXCEPT !.Block = b]
       /\ pc' \in [Consumers -> DequeuePlaces]
  <2>1. deq' = [deq EXCEPT ![c].Block = b]
    BY <1>2, <1>4, <1>6, <1>7, <1>9 DEF ReadBlock
  <2>2. QED
    BY <1>0, <2>1 DEF ReadBlock, Goto, Others, DequeuePlaces
<1>11. deq[c] \in Deqs
  BY <1>0
<1>12. deq'[c] \in Deqs /\ deq' \in [Consumers -> Deqs]
  <2>1. deq'[c] \in Deqs
    BY <1>10, <1>11 DEF Deqs
  <2>2. deq' = [deq EXCEPT ![c] = deq'[c]]
    BY <1>0, <1>10 DEF ReadBlock
  <2>3. QED
    BY <1>0, <2>1, <2>2
<1>13. Types'
  BY <1>0, <1>1, <1>10, <1>12 DEF Types, producer, indexVars, blockVars
<1>14. /\ deq'[c].First = deq[c].First /\ deq'[c].Count = deq[c].Count /\ deq'[c].Need = deq[c].Need
       /\ deq'[c].Block = b
  BY <1>10, <1>11 DEF Deqs
<1>15. From(c)' = From(c)
  BY <1>14 DEF From
<1>16. LookupRight(B, D, c)'
  BY <1>4, <1>5, <1>8, <1>10, <1>14, <1>15 DEF LookupRight
<1>17. QED
  BY <1>0, <1>1, <1>10, <1>13, <1>14, <1>16, LoadStep

\* What a step of c does not change for another consumer.
LEMMA OthersStay ==
  ASSUME NEW c \in Consumers, Others(c), NEW d \in Consumers \ {c}
  PROVE  /\ pc'[d] = pc[d] /\ deq'[d] = deq[d] /\ From(d)' = From(d)
         /\ Pending(d)' = Pending(d) /\ Unmoved(d)' = Unmoved(d)
BY DEF Others, From, Pending, Unmoved

\* The claims stay right when c's own is.
LEMMA ClaimsStep ==
  ASSUME Types, ClaimsRight, NEW c \in Consumers, Others(c),
         HeadIndex' \in Nat, HeadIndex' >= HeadIndex,
         IF pc'[c] = "idle" THEN deq'[c] = NoDeq ELSE 1 <= deq'[c].Need /\ deq'[c].Need <= deq'[c].Count,
         deq'[c].First + deq'[c].Count <= HeadIndex',
         pc'[c] \in {"array", "tail", "base", "block"} => deq'[c].Need = deq'[c].Count,
         \A d \in Consumers \ {c} : Pending(c)' \intersect Pending(d) = {}
  PROVE  ClaimsRight'
<1>1. ASSUME NEW d \in Consumers
      PROVE  /\ (IF pc[d] = "idle" THEN deq[d] = NoDeq
                 ELSE 1 <= deq[d].Need /\ deq[d].Need <= deq[d].Count)'
             /\ (deq[d].First + deq[d].Count <= HeadIndex)'
             /\ (pc[d] \in {"array", "tail", "base", "block"} => deq[d].Need = deq[d].Count)'
  <2>1. CASE d = c
    BY <2>1
  <2>2. CASE d # c
    <3>1. pc'[d] = pc[d] /\ deq'[d] = deq[d]
      BY <2>2, OthersStay
    <3>2. deq[d].First + deq[d].Count <= HeadIndex /\ HeadIndex \in Nat
          /\ deq[d].First \in Nat /\ deq[d].Count \in Nat
      BY DEF ClaimsRight, Types, Deqs
    <3>3. deq[d].First + deq[d].Count <= HeadIndex'
      BY <3>2
    <3>4. QED
      BY <3>1, <3>3 DEF ClaimsRight
  <2>3. QED
    BY <2>1, <2>2
<1>2. ASSUME NEW d \in Consumers, NEW e \in Consumers \ {d}
      PROVE  (Pending(d) \intersect Pending(e))' = {}
  <2>1. CASE d = c
    <3>1. Pending(e)' = Pending(e)
      BY <2>1, OthersStay
    <3>2. QED
      BY <2>1, <3>1
  <2>2. CASE e = c
    <3>1. Pending(d)' = Pending(d) /\ d \in Consumers \ {c}
      BY <2>2, OthersStay
    <3>2. QED
      BY <2>2, <3>1
  <2>3. CASE d # c /\ e # c
    <3>1. Pending(d)' = Pending(d) /\ Pending(e)' = Pending(e)
      BY <2>3, OthersStay
    <3>2. QED
      BY <3>1 DEF ClaimsRight
  <2>4. QED
    BY <2>1, <2>2, <2>3
<1>3. QED
  BY <1>1, <1>2 DEF ClaimsRight

\* A step of c, given what it does to c and to the blocks.
LEMMA ConsumerStep ==
  ASSUME NEW B, NEW D, Inv(B, D), NEW c \in Consumers, ProducerStays, Others(c),
         Types', ClaimsRight', \A i \in Nat : Done(i) => Done(i)',
         FlagsRight(B)', SlotsRight(B)', LookupRight(B, D, c)'
  PROVE  Inv(B, D)'
<1>0. Types /\ ClaimsRight /\ Numbering(B, D) /\ ppc' # "cleared"
  BY DEF Inv, ProducerStays, producer
<1>1. CallRight(B)' /\ IndexRight(B, D)'
  BY <1>0, CallStays, IndexStays DEF Numbering
<1>2. RingRight(B)'
  BY <1>0, RingStays, TopType DEF Numbering
<1>3. LookupsRight(B, D)'
  <2>1. ASSUME NEW d \in Consumers \ {c} PROVE LookupRight(B, D, d)'
    <3>1. LookupRight(B, D, d)
      BY <1>0 DEF Numbering, LookupsRight
    <3>2. arrays' = arrays
      BY DEF ProducerStays, producer, indexVars
    <3>3. QED
      BY <3>1, <3>2, NumbersStay, OthersStay DEF LookupRight
  <2>2. QED
    BY <2>1 DEF LookupsRight
<1>4. QED
  BY <1>0, <1>1, <1>2, <1>3 DEF Inv, Numbering

\* A consumer with items is at a block of the ring; its items there are a segment.
LEMMA SegmentIs ==
  ASSUME Types, ClaimsRight, NEW B \in Numbers, CallRight(B), RingRight(B), NEW c \in Consumers, pc[c] # "idle"
  PROVE  /\ Num(From(c)) \in Window /\ Num(From(c)) \in Nat
         /\ B[Num(From(c))] \in Blocks \ free
         /\ Segment(c) = {i \in Pending(c) : Num(i) = Num(From(c))}
         /\ Segment(c) = From(c)..(From(c) + Lesser(deq[c].Need, BlockSize - Inner(From(c))) - 1)
         /\ Segment(c) \subseteq Items(Num(From(c)))
         /\ \A i \in Segment(c) : i \in Nat /\ i < HeadIndex /\ i < TailIndex
                                  /\ Inner(i) \in Places /\ i \in Items(Num(From(c)))
<1>1. From(c) \in Pending(c) /\ From(c) \in Nat
  BY PendingTypes
<1>2. /\ Num(From(c)) \in Window /\ Num(From(c)) \in Nat
      /\ B[Num(From(c))] \in Blocks \ free
  BY <1>1, PendingInWindow DEF RingRight
<1>3. PICK n \in Nat, f \in Nat : n = deq[c].Need /\ f = From(c) /\ n >= 1
                                  /\ f + n - 1 = deq[c].First + deq[c].Count - 1
  <2>1. deq[c] \in Deqs /\ 1 <= deq[c].Need
    BY DEF Types, ClaimsRight
  <2>2. QED
    BY <1>1, <2>1 DEF Deqs, From
<1>4. f..(f + Lesser(n, BlockSize - Inner(f)) - 1) = {i \in f..(f + n - 1) : Num(i) = Num(f)}
  BY <1>3, SegEnd
<1>5. Segment(c) = {i \in Pending(c) : Num(i) = Num(From(c))}
      /\ Segment(c) = From(c)..(From(c) + Lesser(deq[c].Need, BlockSize - Inner(From(c))) - 1)
  BY <1>3, <1>4 DEF Segment, Pending, From
<1>6. ASSUME NEW i \in Segment(c)
      PROVE  i \in Nat /\ i < HeadIndex /\ i < TailIndex
             /\ Inner(i) \in Places /\ i \in Items(Num(From(c)))
  <2>1. i \in Pending(c) /\ Num(i) = Num(From(c))
    BY <1>5
  <2>2. i \in Nat /\ i < HeadIndex /\ i < TailIndex
    BY <2>1, PendingTypes
  <2>3. QED
    BY <1>2, <2>1, <2>2, NumType, NumItems
<1>7. QED
  BY <1>2, <1>5, <1>6

\* Items of one block differ in their places.
LEMMA InnerEqual ==
  ASSUME NEW i \in Int, NEW j \in Int, Num(i) = Num(j), Inner(i) = Inner(j)
  PROVE  i = j
BY NumType

\* No block is in the ring twice.
LEMMA RingOne ==
  ASSUME NEW B, RingRight(B), NEW m \in Window, NEW n \in Window, B[m] = B[n]
  PROVE  m = n
BY DEF RingRight

\* The items a consumer moves out are stored in its block.
LEMMA MoveOutStep ==
  ASSUME NEW B \in Numbers, NEW D \in Offsets, Inv(B, D), NEW c \in Consumers, MoveOut(c)
  PROVE  Inv(B, D)'
<1>0. /\ Types /\ ClaimsRight /\ CallRight(B) /\ RingRight(B) /\ IndexRight(B, D)
      /\ LookupRight(B, D, c) /\ FlagsRight(B) /\ SlotsRight(B)
      /\ pc[c] = "move" /\ deq \in [Consumers -> Deqs] /\ pc \in [Consumers -> DequeuePlaces]
  BY DEF Inv, Numbering, LookupsRight, MoveOut, Types
<1>1. /\ ProducerStays /\ UNCHANGED <<HeadIndex, TailIndex, Flags, free, Next, producer, ppc, enq>>
  BY DEF MoveOut, ProducerStays, producer
<1>2. PICK m \in Nat : m = Num(From(c)) /\ m \in Window
  BY <1>0, SegmentIs
<1>3. PICK b \in Blocks \ free : b = B[m] /\ deq[c].Block = b
  BY <1>0, <1>2, SegmentIs DEF LookupRight
<1>4. PICK nb \in Blocks \union {NULL} : nb = Next[b]
  BY <1>0 DEF Types
<1>5. /\ Others(c) /\ pc'[c] = "mark" /\ deq'[c] = [deq[c] EXCEPT !.NextBlock = nb]
      /\ pc' \in [Consumers -> DequeuePlaces] /\ deq' = [deq EXCEPT ![c] = deq'[c]]
  <2>1. deq' = [deq EXCEPT ![c].NextBlock = nb]
    BY <1>3, <1>4 DEF MoveOut
  <2>2. QED
    BY <1>0, <2>1 DEF MoveOut, Goto, Others, DequeuePlaces
<1>6. deq[c] \in Deqs
  BY <1>0
<1>7. deq'[c] \in Deqs /\ deq' \in [Consumers -> Deqs]
  <2>1. deq'[c] \in Deqs
    BY <1>5, <1>6 DEF Deqs
  <2>2. QED
    BY <1>0, <1>5, <2>1
<1>8. /\ deq'[c].First = deq[c].First /\ deq'[c].Count = deq[c].Count /\ deq'[c].Need = deq[c].Need
      /\ deq'[c].Block = b /\ deq'[c].NextBlock = nb
  BY <1>3, <1>5, <1>6 DEF Deqs
<1>9. From(c)' = From(c) /\ Pending(c)' = Pending(c)
  BY <1>8 DEF From, Pending
<1>10. Unmoved(c) = Pending(c) /\ Unmoved(c)' = Pending(c) \ Segment(c)
  <2>1. Segment(c) = {i \in Pending(c) : Num(i) = Num(From(c))}
    BY <1>0, SegmentIs
  <2>2. QED
    BY <1>0, <1>5, <1>9, <2>1 DEF Unmoved
<1>11. ClaimsRight'
  <2>1. HeadIndex' \in Nat /\ HeadIndex' >= HeadIndex
    BY <1>0, <1>1 DEF Types
  <2>2. IF pc'[c] = "idle" THEN deq'[c] = NoDeq ELSE 1 <= deq'[c].Need /\ deq'[c].Need <= deq'[c].Count
    BY <1>0, <1>5, <1>8 DEF ClaimsRight
  <2>3. deq'[c].First + deq'[c].Count <= HeadIndex'
    BY <1>0, <1>1, <1>8 DEF ClaimsRight
  <2>4. pc'[c] \in {"array", "tail", "base", "block"} => deq'[c].Need = deq'[c].Count
    BY <1>5
  <2>5. \A d \in Consumers \ {c} : Pending(c)' \intersect Pending(d) = {}
    BY <1>0, <1>9 DEF ClaimsRight
  <2>6. QED
    BY <1>0, <1>5, <2>1, <2>2, <2>3, <2>4, <2>5, ClaimsStep
<1>12. \A d \in Consumers : Pending(d)' = Pending(d)
  BY <1>5, <1>9, OthersStay
<1>13. \A i : Done(i)' = Done(i)
  BY <1>1, <1>12 DEF Done
<1>14. \A i \in Segment(c) : Stored(i) /\ ~Stored(i)'
  <2>1. TAKE i \in Segment(c)
  <2>2. i \in Pending(c) /\ i \in Nat /\ i < HeadIndex /\ i < TailIndex
    BY <1>0, SegmentIs
  <2>3. Stored(i)
    BY <1>10, <2>2 DEF Stored
  <2>4. \A d \in Consumers : i \notin Unmoved(d)'
    <3>1. i \notin Unmoved(c)'
      BY <1>10
    <3>2. ASSUME NEW d \in Consumers \ {c} PROVE i \notin Unmoved(d)'
      <4>1. Unmoved(d)' = Unmoved(d) /\ Unmoved(d) \subseteq Pending(d)
        BY <1>0, <1>5, OthersStay, PendingTypes
      <4>2. i \notin Pending(d)
        BY <1>0, <2>2 DEF ClaimsRight
      <4>3. QED
        BY <4>1, <4>2
    <3>3. QED
      BY <3>1, <3>2
  <2>5. TailIndex \in Nat /\ HeadIndex \in Nat
    BY <1>0 DEF Types
  <2>6. QED
    BY <1>1, <2>2, <2>3, <2>4, <2>5 DEF Stored
<1>15. ASSUME NEW i, i \notin Segment(c) PROVE Stored(i)' = Stored(i)
  <2>1. \A d \in Consumers : i \in Unmoved(d)' <=> i \in Unmoved(d)
    BY <1>5, <1>10, <1>15, OthersStay
  <2>2. QED
    BY <1>1, <2>1 DEF Stored
<1>16. FlagsRight(B)'
  <2>1. Window' = Window
    BY <1>1, NumbersStay
  <2>2. QED
    BY <1>0, <1>1, <1>13, <2>1 DEF FlagsRight
<1> DEFINE places == {<<b, Inner(i)>> : i \in Segment(c)}
<1>17. Slots' = [x \in Blocks |-> [j \in Places |->
                  IF <<x, j>> \in places THEN Destroyed(x, j) ELSE Slots[x][j]]]
  BY <1>3 DEF MoveOut, Destroy
<1> HIDE DEF places
<1>18. ASSUME NEW x \in Blocks, NEW j \in Places, <<x, j>> \in places
       PROVE  x = b /\ Slots'[x][j] = Raw
  <2>1. PICK i \in Segment(c) : x = b /\ j = Inner(i)
    BY <1>18 DEF places
  <2>2. i \in Nat /\ i \in Items(m) /\ Stored(i)
    BY <1>0, <1>2, <1>14, SegmentIs
  <2>3. Slots[b][j] = i
    BY <1>0, <1>2, <1>3, <2>1, <2>2 DEF SlotsRight
  <2>4. i # Raw /\ i # Bad
    BY <2>2, FastQueueAssumption DEF FastQueueAssumption
  <2>5. Destroyed(x, j) = Raw
    BY <2>1, <2>3, <2>4 DEF Destroyed
  <2>6. QED
    BY <1>17, <1>18, <2>1, <2>5
<1>19. \A x \in Blocks, j \in Places : <<x, j>> \notin places => Slots'[x][j] = Slots[x][j]
  BY <1>17
<1>20. SlotsRight(B)'
  <2>1. Window' = Window
    BY <1>1, NumbersStay
  <2>2. ASSUME NEW x \in free, NEW j \in Places PROVE Slots'[x][j] = Raw
    <3>1. x \in Blocks /\ x # b
      BY <1>0, <1>3 DEF Types
    <3>2. <<x, j>> \notin places
      BY <1>18, <3>1
    <3>3. QED
      BY <1>0, <1>19, <3>1, <3>2 DEF SlotsRight
  <2>3. ASSUME NEW n \in Window, NEW i \in Items(n)
        PROVE  Slots'[B[n]][Inner(i)] = IF Stored(i)' THEN i ELSE Raw
    <3>0. PICK x \in Blocks \ free : x = B[n]
      BY <1>0 DEF RingRight
    <3>1. n \in Int
      BY <1>0, TopType
    <3>2. i \in Int /\ Num(i) = n /\ Inner(i) \in Places
      BY <3>1, ItemsFinite, NumItems, NumType
    <3>3. CASE i \in Segment(c)
      <4>1. Num(i) = m
        BY <1>0, <1>2, <3>3, SegmentIs
      <4>2. <<x, Inner(i)>> \in places
        BY <1>3, <3>0, <3>2, <3>3, <4>1 DEF places
      <4>3. QED
        BY <1>14, <1>18, <3>0, <3>2, <3>3, <4>2
    <3>4. CASE i \notin Segment(c)
      <4>1. <<x, Inner(i)>> \notin places
        <5>1. SUFFICES ASSUME NEW k \in Segment(c), x = b, Inner(i) = Inner(k) PROVE FALSE
          BY DEF places
        <5>2. n = m
          <6>1. B[n] = B[m] /\ m \in Window
            BY <1>2, <1>3, <3>0, <5>1
          <6>2. QED
            BY <1>0, <6>1, RingOne
        <5>3. k \in Int /\ Num(k) = m
          BY <1>0, <1>2, SegmentIs
        <5>4. i = k
          BY <3>2, <5>1, <5>2, <5>3, InnerEqual
        <5>5. QED
          BY <3>4, <5>4
      <4>2. Slots'[x][Inner(i)] = Slots[x][Inner(i)]
        BY <1>19, <3>2, <4>1
      <4>3. Slots[x][Inner(i)] = IF Stored(i) THEN i ELSE Raw
        BY <1>0, <3>0 DEF SlotsRight
      <4>4. QED
        BY <1>15, <3>0, <3>4, <4>2, <4>3
    <3>5. QED
      BY <3>3, <3>4
  <2>4. QED
    BY <1>1, <2>1, <2>2, <2>3 DEF SlotsRight
<1>21. Slots' \in [Blocks -> [Places -> 0..(MaxTail - 1) \union {Raw, Bad}]]
  <2>1. ASSUME NEW x \in Blocks, NEW j \in Places
        PROVE  Slots'[x][j] \in 0..(MaxTail - 1) \union {Raw, Bad}
    <3>1. Slots \in [Blocks -> [Places -> 0..(MaxTail - 1) \union {Raw, Bad}]]
      BY <1>0 DEF Types
    <3>2. Slots[x][j] \in 0..(MaxTail - 1) \union {Raw, Bad}
      BY <3>1
    <3>3. Slots'[x][j] \in {Raw, Slots[x][j]}
      <4>1. CASE <<x, j>> \in places
        BY <1>18, <4>1
      <4>2. CASE <<x, j>> \notin places
        BY <1>19, <4>2
      <4>3. QED
        BY <4>1, <4>2
    <3>4. QED
      BY <3>2, <3>3
  <2>2. Slots' = [x \in Blocks |-> [j \in Places |-> Slots'[x][j]]]
    BY <1>17
  <2>3. QED
    BY <2>1, <2>2
<1>22. Types'
  BY <1>0, <1>1, <1>5, <1>7, <1>21 DEF Types, producer, indexVars
<1>23. LookupRight(B, D, c)'
  <2>1. ASSUME NEW i \in Pending(c), Num(i) # Num(From(c))
        PROVE  nb = B[m + 1]
    <3>1. i \in Nat /\ From(c) \in Nat /\ From(c) <= i
      BY <1>0, PendingTypes
    <3>2. Num(From(c)) <= Num(i) /\ Num(i) \in Nat
      BY <3>1, NumMono, NumType
    <3>3. Num(i) \in Window
      BY <1>0, PendingInWindow
    <3>4. m \in Low..(Top - 1)
      BY <1>0, <1>2, <2>1, <3>2, <3>3, TopType
    <3>5. QED
      BY <1>0, <1>3, <1>4, <3>4 DEF RingRight
  <2>2. pc'[c] = "mark" /\ Num(From(c))' = m
    BY <1>2, <1>5, <1>9
  <2>3. deq'[c].Block = B[m]
    BY <1>3, <1>8
  <2>4. (\E i \in Pending(c) : Num(i) # Num(From(c)))' => deq'[c].NextBlock = B[m + 1]
    BY <1>8, <1>9, <2>1
  <2>5. QED
    BY <2>2, <2>3, <2>4 DEF LookupRight
<1>24. QED
  BY <1>1, <1>5, <1>11, <1>13, <1>16, <1>20, <1>22, <1>23, ConsumerStep

\* The flags a consumer sets are those of its items, which are then done.
LEMMA SetEmptyStep ==
  ASSUME NEW B \in Numbers, NEW D \in Offsets, Inv(B, D), NEW c \in Consumers, SetEmpty(c)
  PROVE  Inv(B, D)'
<1>0. /\ Types /\ ClaimsRight /\ CallRight(B) /\ RingRight(B) /\ IndexRight(B, D)
      /\ LookupRight(B, D, c) /\ FlagsRight(B) /\ SlotsRight(B)
      /\ pc[c] = "mark" /\ deq \in [Consumers -> Deqs] /\ pc \in [Consumers -> DequeuePlaces]
  BY DEF Inv, Numbering, LookupsRight, SetEmpty, Types
<1>1. /\ ProducerStays /\ UNCHANGED <<HeadIndex, TailIndex, Slots, free, Next, producer, ppc, enq>>
  BY DEF SetEmpty, MarkEmpty, ProducerStays, producer
<1>2. PICK m \in Nat : m = Num(From(c)) /\ m \in Window
  BY <1>0, SegmentIs
<1>3. PICK b \in Blocks \ free : b = B[m] /\ deq[c].Block = b
  BY <1>0, <1>2, SegmentIs DEF LookupRight
<1>4. deq[c] \in Deqs
  BY <1>0
<1>5. PICK f \in Nat, n \in Nat : /\ f = From(c) /\ n = Lesser(deq[c].Need, BlockSize - Inner(f))
                                  /\ n >= 1 /\ n <= deq[c].Need /\ n <= BlockSize - Inner(f)
                                  /\ (n # deq[c].Need => n = BlockSize - Inner(f))
  <2>1. From(c) \in Nat
    BY <1>0, PendingTypes
  <2>2. deq[c].Need \in Nat /\ deq[c].Need >= 1
    BY <1>0, <1>4 DEF ClaimsRight, Deqs
  <2>3. Inner(From(c)) \in 0..(BlockSize - 1) /\ BlockSize \in Nat
    BY <2>1, NumType, BlockSizeIs DEF Places
  <2>4. QED
    BY <2>1, <2>2, <2>3 DEF Lesser
<1>6. Segment(c) = f..(f + n - 1) /\ Cardinality(Segment(c)) = n
  <2>1. Segment(c) = f..(f + n - 1)
    BY <1>0, <1>5, SegmentIs
  <2>2. f \in Int /\ f + n - 1 \in Int /\ f <= f + n - 1 /\ (f + n - 1) - f + 1 = n
    BY <1>5
  <2>3. Cardinality(f..(f + n - 1)) = n
    BY <2>2, FS_Interval
  <2>4. QED
    BY <2>1, <2>3
<1>7. PICK need \in Nat : need = deq[c].Need - n
  BY <1>4, <1>5 DEF Deqs
<1>8. PICK w \in Blocks \union {NULL} : w = IF deq[c].NextBlock # NULL THEN deq[c].NextBlock ELSE b
  BY <1>3, <1>4 DEF Deqs
<1>9. /\ Others(c) /\ pc' \in [Consumers -> DequeuePlaces] /\ deq' = [deq EXCEPT ![c] = deq'[c]]
      /\ need = 0 => pc'[c] = "idle" /\ deq'[c] = NoDeq
      /\ need # 0 => pc'[c] = "move"
                     /\ deq'[c] = [deq[c] EXCEPT !.Need = need, !.NextBlock = NULL, !.Block = w]
  <2>1. IF need = 0
        THEN Goto(c, "idle") /\ deq' = [deq EXCEPT ![c] = NoDeq]
        ELSE /\ Goto(c, "move")
             /\ deq' = [deq EXCEPT ![c].Need = need, ![c].NextBlock = NULL, ![c].Block = w]
    BY <1>3, <1>6, <1>7, <1>8 DEF SetEmpty, MarkEmpty
  <2>2. CASE need = 0
    BY <1>0, <2>1, <2>2 DEF Goto, Others, DequeuePlaces
  <2>3. CASE need # 0
    <3>1. Goto(c, "move")
          /\ deq' = [deq EXCEPT ![c].Need = need, ![c].NextBlock = NULL, ![c].Block = w]
      BY <2>1, <2>3
    <3>2. Others(c) /\ pc'[c] = "move" /\ pc' \in [Consumers -> DequeuePlaces]
      BY <1>0, <3>1 DEF Goto, Others, DequeuePlaces
    <3>3. deq'[c] = [deq[c] EXCEPT !.Need = need, !.NextBlock = NULL, !.Block = w]
      BY <1>0, <3>1
    <3>4. deq' = [deq EXCEPT ![c] = deq'[c]]
      BY <1>0, <3>1
    <3>5. QED
      BY <2>3, <3>2, <3>3, <3>4
  <2>4. QED
    BY <2>2, <2>3
<1>10. /\ need # 0 => /\ deq'[c].First = deq[c].First /\ deq'[c].Count = deq[c].Count
                      /\ deq'[c].Need = need /\ deq'[c].Block = w /\ deq'[c].NextBlock = NULL
       /\ deq' \in [Consumers -> Deqs]
  <2>1. CASE need = 0
    <3>1. NoDeq \in Deqs
      BY DEF NoDeq, Deqs
    <3>2. QED
      BY <1>0, <1>9, <2>1, <3>1
  <2>2. CASE need # 0
    <3>1. deq'[c] \in Deqs /\ deq'[c].First = deq[c].First /\ deq'[c].Count = deq[c].Count
          /\ deq'[c].Need = need /\ deq'[c].Block = w /\ deq'[c].NextBlock = NULL
      BY <1>4, <1>7, <1>8, <1>9, <2>2 DEF Deqs
    <3>2. QED
      BY <1>0, <1>9, <2>2, <3>1
  <2>3. QED
    BY <2>1, <2>2
<1>11. /\ need # 0 => From(c)' = f + n /\ deq'[c].First + deq'[c].Count = f + n + need
       /\ Pending(c) = f..(f + n + need - 1)
       /\ Pending(c)' = (f + n)..(f + n + need - 1)
  <2>1. deq[c].First \in Nat /\ deq[c].Count \in Nat /\ deq[c].Need \in Nat
    BY <1>4 DEF Deqs
  <2>2. deq[c].First + deq[c].Count = f + n + need
    BY <1>5, <1>7, <2>1 DEF From
  <2>7. PICK x \in Nat, y \in Nat : x = deq[c].First /\ y = deq[c].Count
    BY <2>1
  <2>8. PICK e \in Int : e = x + y - 1
    OBVIOUS
  <2>6. e = deq[c].First + deq[c].Count - 1
    BY <2>7, <2>8
  <2>9. x + y = f + n + need
    BY <2>2, <2>7
  <2>10. e = f + n + need - 1
    BY <2>8, <2>9
  <2>3. Pending(c) = f..(f + n + need - 1)
    <3>1. Pending(c) = f..e
      BY <1>5, <2>6 DEF Pending
    <3>2. QED
      BY <2>10, <3>1
  <2>4. CASE need = 0
    <3>1. Pending(c)' = {}
      BY <1>9, <2>4 DEF Pending, From, NoDeq
    <3>2. (f + n)..(f + n + need - 1) = {}
      BY <2>4
    <3>3. QED
      BY <2>3, <2>4, <3>1, <3>2
  <2>5. CASE need # 0
    <3>1. From(c)' = f + n
      BY <1>10, <2>1, <2>2, <2>5 DEF From
    <3>2. deq'[c].First + deq'[c].Count = f + n + need
      BY <1>10, <2>2, <2>5
    <3>3. deq'[c].First + deq'[c].Count - 1 = e
      BY <1>10, <2>5, <2>6
    <3>4. Pending(c)' = (f + n)..(f + n + need - 1)
      <4>1. Pending(c)' = (f + n)..e
        BY <3>1, <3>3 DEF Pending
      <4>2. QED
        BY <2>10, <4>1
    <3>5. QED
      BY <2>3, <3>1, <3>2, <3>4
  <2>11. QED
    BY <2>4, <2>5
<1>12. Pending(c)' = Pending(c) \ Segment(c) /\ Segment(c) \subseteq Pending(c)
  <2>1. \A i : i \in (f + n)..(f + n + need - 1) <=> i \in f..(f + n + need - 1) /\ i \notin f..(f + n - 1)
    BY <1>5, <1>7
  <2>2. \A i : i \in f..(f + n - 1) => i \in f..(f + n + need - 1)
    BY <1>5, <1>7
  <2>3. QED
    BY <1>6, <1>11, <2>1, <2>2
<1>13. Unmoved(c) = Pending(c)' /\ Unmoved(c)' = Pending(c)'
  <2>1. Segment(c) = {i \in Pending(c) : Num(i) = Num(From(c))}
    BY <1>0, SegmentIs
  <2>2. Unmoved(c) = Pending(c) \ Segment(c)
    BY <1>0, <2>1 DEF Unmoved
  <2>3. pc'[c] # "mark"
    BY <1>9
  <2>4. QED
    BY <1>12, <2>2, <2>3 DEF Unmoved
<1>14. ClaimsRight'
  <2>1. HeadIndex' \in Nat /\ HeadIndex' >= HeadIndex
    BY <1>0, <1>1 DEF Types
  <2>2. IF pc'[c] = "idle" THEN deq'[c] = NoDeq ELSE 1 <= deq'[c].Need /\ deq'[c].Need <= deq'[c].Count
    <3>1. CASE need = 0
      BY <1>9, <3>1
    <3>2. CASE need # 0
      <4>1. deq[c].Need <= deq[c].Count /\ deq[c].Need \in Nat /\ deq[c].Count \in Nat
        BY <1>0, <1>4 DEF ClaimsRight, Deqs
      <4>2. QED
        BY <1>5, <1>7, <1>9, <1>10, <3>2, <4>1
    <3>3. QED
      BY <3>1, <3>2
  <2>3. deq'[c].First + deq'[c].Count <= HeadIndex'
    <3>1. CASE need = 0
      BY <1>9, <2>1, <3>1 DEF NoDeq
    <3>2. CASE need # 0
      BY <1>0, <1>1, <1>10, <3>2 DEF ClaimsRight
    <3>3. QED
      BY <3>1, <3>2
  <2>4. pc'[c] \in {"array", "tail", "base", "block"} => deq'[c].Need = deq'[c].Count
    BY <1>9
  <2>5. \A d \in Consumers \ {c} : Pending(c)' \intersect Pending(d) = {}
    BY <1>0, <1>12 DEF ClaimsRight
  <2>6. QED
    BY <1>0, <1>9, <2>1, <2>2, <2>3, <2>4, <2>5, ClaimsStep
<1>15. ASSUME NEW i PROVE Done(i)' <=> Done(i) \/ i \in Segment(c)
  <2>1. CASE i \in Segment(c)
    <3>1. i \in Pending(c) /\ i < HeadIndex
      BY <1>0, <2>1, SegmentIs
    <3>2. i \notin Pending(c)'
      BY <1>12, <2>1
    <3>3. ASSUME NEW d \in Consumers \ {c} PROVE i \notin Pending(d)'
      <4>1. Pending(d)' = Pending(d)
        BY <1>9, OthersStay
      <4>2. Pending(c) \intersect Pending(d) = {}
        BY <1>0 DEF ClaimsRight
      <4>3. QED
        BY <3>1, <4>1, <4>2
    <3>4. QED
      BY <1>1, <2>1, <3>1, <3>2, <3>3 DEF Done
  <2>2. CASE i \notin Segment(c)
    <3>1. \A d \in Consumers : i \in Pending(d)' <=> i \in Pending(d)
      BY <1>9, <1>12, <2>2, OthersStay
    <3>2. QED
      BY <1>1, <2>2, <3>1 DEF Done
  <2>3. QED
    BY <2>1, <2>2
<1>16. \A i : Stored(i)' = Stored(i)
  <2>1. \A d \in Consumers : Unmoved(d)' = Unmoved(d)
    BY <1>9, <1>13, OthersStay
  <2>2. QED
    BY <1>1, <2>1 DEF Stored
<1>17. SlotsRight(B)'
  <2>1. Window' = Window
    BY <1>1, NumbersStay
  <2>2. QED
    BY <1>0, <1>1, <1>16, <2>1 DEF SlotsRight
<1>18. Flags' = [Flags EXCEPT ![b] = @ \union {Inner(i) : i \in Segment(c)}]
  BY <1>3 DEF SetEmpty, MarkEmpty
<1>19. {Inner(i) : i \in Segment(c)} \subseteq Places
  BY <1>0, SegmentIs
<1>20. Flags' \in [Blocks -> SUBSET Places]
  BY <1>0, <1>18, <1>19 DEF Types
<1>21. FlagsRight(B)'
  <2>1. Window' = Window
    BY <1>1, NumbersStay
  <2>2. ASSUME NEW k \in Window
        PROVE  Flags'[B[k]] = {Inner(i) : i \in {j \in Items(k) : Done(j)'}}
    <3>0. PICK x \in Blocks \ free : x = B[k]
      BY <1>0 DEF RingRight
    <3>1. Flags[x] = {Inner(i) : i \in {j \in Items(k) : Done(j)}}
      BY <1>0, <3>0 DEF FlagsRight
    <3>2. CASE k = m
      <4>1. x = b
        BY <1>3, <3>0, <3>2
      <4>2. Flags'[b] = Flags[b] \union {Inner(i) : i \in Segment(c)}
        BY <1>0, <1>18 DEF Types
      <4>3. \A i \in Segment(c) : i \in Items(k)
        BY <1>0, <1>2, <3>2, SegmentIs
      <4>4. QED
        BY <1>15, <3>0, <3>1, <4>1, <4>2, <4>3
    <3>3. CASE k # m
      <4>1. x # b
        BY <1>0, <1>2, <1>3, <3>0, <3>3, RingOne
      <4>2. Flags'[x] = Flags[x]
        BY <1>0, <1>18, <4>1 DEF Types
      <4>3. k \in Int
        BY <1>0, TopType
      <4>4. \A j \in Items(k) : j \notin Segment(c)
        <5>1. SUFFICES ASSUME NEW j \in Items(k), j \in Segment(c) PROVE FALSE
          OBVIOUS
        <5>2. j \in Items(m) /\ j \in Int
          BY <1>0, <1>2, <5>1, SegmentIs
        <5>3. Num(j) = m /\ Num(j) = k
          BY <4>3, <5>1, <5>2, NumItems
        <5>4. QED
          BY <3>3, <5>3
      <4>5. QED
        BY <1>15, <3>0, <3>1, <4>2, <4>4
    <3>4. QED
      BY <3>2, <3>3
  <2>3. QED
    BY <2>1, <2>2 DEF FlagsRight
<1>22. Types'
  BY <1>0, <1>1, <1>9, <1>10, <1>20 DEF Types, producer, indexVars
<1>23. LookupRight(B, D, c)'
  <2>1. CASE need = 0
    BY <1>9, <2>1 DEF LookupRight
  <2>2. CASE need # 0
    <3>0. f + n \in f..(f + n + need - 1)
      BY <1>5, <1>7, <2>2
    <3>1. From(c)' = f + n /\ f + n \in Pending(c)
      BY <1>11, <2>2, <3>0
    <3>2. n = BlockSize - Inner(f)
      BY <1>5, <1>7, <1>4, <2>2 DEF Deqs
    <3>3. Num(f + n) = m + 1
      <4>1. f = m * BlockSize + Inner(f) /\ Inner(f) \in Places
        BY <1>2, <1>5, NumType
      <4>2. f + n = (m + 1) * BlockSize + 0
        BY <3>2, <4>1, BlockSizeIs DEF Places
      <4>3. 0 \in Places /\ m + 1 \in Int
        BY BlockSizeIs DEF Places
      <4>4. QED
        BY <4>2, <4>3, NumUnique
    <3>4. B[m + 1] \in Blocks
      <4>1. Num(f + n) \in Window
        BY <1>0, <3>1, PendingInWindow
      <4>2. QED
        BY <1>0, <3>3, <4>1 DEF RingRight
    <3>5. deq[c].NextBlock = B[m + 1]
      <4>1. Num(f + n) # Num(From(c))
        BY <1>2, <3>3
      <4>2. QED
        BY <1>0, <1>2, <3>1, <4>1 DEF LookupRight
    <3>6. NULL \notin Blocks
      BY FastQueueAssumption DEF FastQueueAssumption
    <3>7. w = B[m + 1]
      BY <1>8, <3>4, <3>5, <3>6
    <3>8. pc'[c] = "move" /\ deq'[c].Block = B[Num(From(c)')]
      BY <1>9, <1>10, <2>2, <3>1, <3>3, <3>7
    <3>9. QED
      BY <3>8 DEF LookupRight
  <2>3. QED
    BY <2>1, <2>2
<1>24. QED
  BY <1>1, <1>9, <1>14, <1>15, <1>17, <1>21, <1>22, <1>23, ConsumerStep

\* What a consumer claims nobody else has.
LEMMA ClaimStep ==
  ASSUME NEW B \in Numbers, NEW D \in Offsets, Inv(B, D), NEW c \in Consumers, NEW max \in Requests,
         Claim(c, max)
  PROVE  Inv(B, D)'
<1>0. /\ Types /\ ClaimsRight /\ CallRight(B) /\ RingRight(B) /\ IndexRight(B, D)
      /\ FlagsRight(B) /\ SlotsRight(B)
      /\ pc[c] = "idle" /\ deq \in [Consumers -> Deqs] /\ pc \in [Consumers -> DequeuePlaces]
      /\ HeadIndex \in Nat /\ TailIndex \in Nat
  BY DEF Inv, Numbering, Claim, Types
<1>1. /\ ProducerStays /\ UNCHANGED <<TailIndex, Slots, Flags, free, Next, producer, ppc, enq>>
  BY DEF Claim, ProducerStays, producer, blockVars
<1>2. PICK n \in Nat : /\ n >= 1 /\ n <= TailIndex - HeadIndex /\ HeadIndex' = HeadIndex + n
                       /\ deq' = [deq EXCEPT ![c].First = HeadIndex, ![c].Count = n, ![c].Need = n]
  <2>1. PICK n \in 1..Lesser(max, TailIndex - HeadIndex) :
              /\ HeadIndex' = HeadIndex + n
              /\ deq' = [deq EXCEPT ![c].First = HeadIndex, ![c].Count = n, ![c].Need = n]
    BY DEF Claim
  <2>2. max \in Nat /\ TailIndex - HeadIndex \in Int
    BY <1>0, FastQueueAssumption DEF FastQueueAssumption
  <2>3. n \in Nat /\ n >= 1 /\ n <= TailIndex - HeadIndex
    BY <2>2 DEF Lesser
  <2>4. QED
    BY <2>1, <2>3
<1>3. /\ Others(c) /\ pc'[c] = "array" /\ deq' = [deq EXCEPT ![c] = deq'[c]]
      /\ deq'[c] = [deq[c] EXCEPT !.First = HeadIndex, !.Count = n, !.Need = n]
      /\ pc' \in [Consumers -> DequeuePlaces]
  <2>1. pc' = [pc EXCEPT ![c] = "array"]
    BY DEF Claim, Goto
  <2>2. QED
    BY <1>0, <1>2, <2>1 DEF Others, DequeuePlaces
<1>4. deq[c] \in Deqs
  BY <1>0
<1>5. deq'[c] \in Deqs /\ deq'[c].First = HeadIndex /\ deq'[c].Count = n /\ deq'[c].Need = n
  BY <1>0, <1>2, <1>3, <1>4 DEF Deqs
<1>6. deq' \in [Consumers -> Deqs]
  BY <1>0, <1>3, <1>5
<1>7. From(c)' = HeadIndex /\ Pending(c)' = HeadIndex..(HeadIndex + n - 1) /\ Pending(c) = {}
      /\ Unmoved(c) = {} /\ Unmoved(c)' = Pending(c)'
  <2>1. From(c)' = HeadIndex
    BY <1>0, <1>5 DEF From
  <2>2. Pending(c)' = HeadIndex..(HeadIndex + n - 1)
    BY <1>5, <2>1 DEF Pending
  <2>3. Pending(c) = {}
    BY <1>0, PendingTypes
  <2>4. Unmoved(c) = {} /\ Unmoved(c)' = Pending(c)'
    BY <1>3, <2>3 DEF Unmoved
  <2>5. QED
    BY <2>1, <2>2, <2>3, <2>4
<1>8. ClaimsRight'
  <2>1. HeadIndex' \in Nat /\ HeadIndex' >= HeadIndex
    BY <1>0, <1>2
  <2>2. IF pc'[c] = "idle" THEN deq'[c] = NoDeq ELSE 1 <= deq'[c].Need /\ deq'[c].Need <= deq'[c].Count
    BY <1>2, <1>3, <1>5
  <2>3. deq'[c].First + deq'[c].Count <= HeadIndex'
    BY <1>2, <1>5, <2>1
  <2>4. pc'[c] \in {"array", "tail", "base", "block"} => deq'[c].Need = deq'[c].Count
    BY <1>5
  <2>5. ASSUME NEW d \in Consumers \ {c} PROVE Pending(c)' \intersect Pending(d) = {}
    <3>1. \A i \in Pending(d) : i \in Nat /\ i < HeadIndex
      BY <1>0, PendingTypes
    <3>2. \A i \in Pending(c)' : i >= HeadIndex
      BY <1>0, <1>7
    <3>3. QED
      BY <1>0, <3>1, <3>2
  <2>6. QED
    BY <1>0, <1>3, <2>1, <2>2, <2>3, <2>4, <2>5, ClaimsStep
<1>9. ASSUME NEW i \in Int PROVE Done(i)' = Done(i)
  <2>1. \A d \in Consumers \ {c} : Pending(d)' = Pending(d)
    BY <1>3, OthersStay
  <2>2. i \in Pending(c)' <=> i >= HeadIndex /\ i < HeadIndex + n
    BY <1>0, <1>2, <1>7
  <2>3. CASE i < HeadIndex
    <3>1. i < HeadIndex' /\ i \notin Pending(c)' /\ i \notin Pending(c)
      BY <1>0, <1>2, <1>7, <2>2, <2>3
    <3>2. QED
      BY <2>1, <2>3, <3>1 DEF Done
  <2>4. CASE i >= HeadIndex
    <3>1. i < HeadIndex' => i \in Pending(c)'
      BY <1>2, <2>2, <2>4
    <3>2. ~Done(i)' /\ ~Done(i)
      BY <1>0, <2>4, <3>1 DEF Done
    <3>3. QED
      BY Zenon, <3>2 DEF Done
  <2>5. QED
    BY <1>0, <2>3, <2>4
<1>10. ASSUME NEW i \in Int PROVE Stored(i)' = Stored(i)
  <2>1. \A d \in Consumers \ {c} : Unmoved(d)' = Unmoved(d)
    BY <1>3, OthersStay
  <2>2. i \in Unmoved(c)' <=> i >= HeadIndex /\ i < HeadIndex + n
    BY <1>0, <1>2, <1>7
  <2>3. (i >= HeadIndex' \/ i \in Unmoved(c)') <=> i >= HeadIndex
    BY <1>0, <1>2, <2>2
  <2>4. (i >= HeadIndex' \/ \E d \in Consumers : i \in Unmoved(d)')
          <=> (i >= HeadIndex \/ \E d \in Consumers : i \in Unmoved(d))
    BY <1>7, <2>1, <2>3
  <2>5. QED
    BY <1>1, <2>4 DEF Stored
<1>11. Window' = Window /\ \A m \in Window : Items(m) \subseteq Int
  BY <1>0, <1>1, NumbersStay, TopType, ItemsFinite
<1>12. FlagsRight(B)' /\ SlotsRight(B)'
  <2>1. ASSUME NEW m \in Window
        PROVE {j \in Items(m) : Done(j)'} = {j \in Items(m) : Done(j)}
    BY <1>9, <1>11
  <2>2. FlagsRight(B)'
    BY <1>0, <1>1, <1>11, <2>1 DEF FlagsRight
  <2>3. SlotsRight(B)'
    BY <1>0, <1>1, <1>10, <1>11 DEF SlotsRight
  <2>4. QED
    BY <2>2, <2>3
<1>13. Types'
  <2>1. HeadIndex' \in Nat /\ HeadIndex' <= TailIndex
    BY <1>0, <1>2
  <2>2. QED
    BY <1>0, <1>1, <1>3, <1>6, <2>1 DEF Types, producer, indexVars
<1>14. LookupRight(B, D, c)'
  BY <1>3 DEF LookupRight
<1>15. QED
  BY <1>1, <1>3, <1>8, <1>9, <1>12, <1>13, <1>14, ConsumerStep

-----------------------------------------------------------------------------
(* Steps of the producer. *)

\* What such a step leaves alone.
ConsumersStay == UNCHANGED <<HeadIndex, consumers>>

\* The claims are the consumers'.
LEMMA ClaimsStay ==
  ASSUME ConsumersStay
  PROVE  /\ \A c : From(c)' = From(c) /\ Pending(c)' = Pending(c) /\ Unmoved(c)' = Unmoved(c)
         /\ \A i : Done(i)' = Done(i)
         /\ \A m : AllDone(m)' = AllDone(m)
         /\ ClaimsRight' = ClaimsRight
<1>1. HeadIndex' = HeadIndex /\ pc' = pc /\ deq' = deq
  BY DEF ConsumersStay, consumers
<1>2. \A c : From(c)' = From(c) /\ Pending(c)' = Pending(c) /\ Unmoved(c)' = Unmoved(c)
  BY <1>1 DEF From, Pending, Unmoved
<1>3. \A i : Done(i)' = Done(i)
  BY <1>1, <1>2 DEF Done
<1>4. \A m : AllDone(m)' = AllDone(m)
  BY <1>3 DEF AllDone, Items
<1>5. ClaimsRight' = ClaimsRight
  BY <1>1, <1>2 DEF ClaimsRight
<1>6. QED
  BY <1>2, <1>3, <1>4, <1>5

\* Items that are done are published, and gone.
LEMMA DoneGone ==
  ASSUME Types, ClaimsRight, NEW i \in Nat, Done(i)
  PROVE  i < TailIndex /\ Num(i) <= Last /\ ~Stored(i)
<1>1. HeadIndex \in Nat /\ TailIndex \in Nat /\ HeadIndex <= TailIndex
  BY DEF Types
<1>2. i < HeadIndex /\ \A c \in Consumers : i \notin Pending(c)
  BY DEF Done
<1>3. i < TailIndex /\ ~(i >= HeadIndex) /\ ~(i >= TailIndex)
  BY <1>1, <1>2
<1>4. \A c \in Consumers : i \notin Unmoved(c)
  BY <1>2, PendingTypes
<1>5. Num(i) <= Last
  BY <1>1, <1>3, NumMono DEF Last
<1>6. QED
  BY <1>3, <1>4, <1>5 DEF Stored

\* The ring has every block after the last with published items.
LEMMA LowBound ==
  ASSUME Types, ClaimsRight, NEW B, CallRight(B), RingRight(B)
  PROVE  /\ Low <= Last + 1 /\ 0 <= Low
         /\ \A m \in Last + 1..Top : m \in Window /\ m \in Nat
         /\ enq.op # "none" => (enq.FirstAllocatedBlock = NULL <=> Top = Last)
<1>1. Last \in Int /\ Low \in Int /\ Top \in Int /\ Last >= -1 /\ Top >= Last /\ Window = Low..Top
  BY TopType
<1>2. 0 <= Low
  BY DEF RingRight
<1>3. Low <= Last + 1
  <2>1. SUFFICES ASSUME Last + 1 < Low PROVE FALSE
    BY <1>1
  <2>2. PICK n \in Nat : n = Last + 1
    BY <1>1
  <2>3. AllDone(n)
    BY <1>1, <2>1, <2>2 DEF RingRight
  <2>4. PICK i \in Nat : i \in Items(n)
    BY <2>2, ItemsFinite
  <2>5. Done(i) /\ Num(i) = n
    BY <2>3, <2>4, NumItems DEF AllDone
  <2>6. QED
    BY <1>1, <2>2, <2>5, DoneGone
<1>4. \A m \in Last + 1..Top : m \in Window /\ m \in Nat
  BY <1>1, <1>2, <1>3
<1>5. ASSUME enq.op # "none" PROVE enq.FirstAllocatedBlock = NULL <=> Top = Last
  <2>1. enq.FirstAllocatedBlock = IF Top = Last THEN NULL ELSE B[Last + 1]
    BY <1>5 DEF CallRight, NoEnq
  <2>2. ASSUME Top # Last PROVE B[Last + 1] # NULL
    <3>1. Last + 1 \in Window
      BY <1>1, <1>4, <2>2
    <3>2. B[Last + 1] \in Blocks
      BY <3>1 DEF RingRight
    <3>3. QED
      BY <3>2, FastQueueAssumption DEF FastQueueAssumption
  <2>3. QED
    BY <2>1, <2>2
<1>6. QED
  BY <1>2, <1>3, <1>4, <1>5

\* A call for one item takes at most one block.
LEMMA OneBlock ==
  ASSUME Types, NEW B, CallRight(B), ppc # "idle", enq.Count = 1
  PROVE  /\ Top + enq.Need <= Last + 1
         /\ ppc \in {"block", "new"} => Top = Last /\ enq.Need = 1
<1>1. Last \in Int /\ Top \in Int /\ Top >= Last /\ TailIndex \in Nat /\ enq.Need \in Int
  BY TopType DEF Types, Enqs
<1>2. enq.Need = Num(TailIndex + 1 - 1) - Top /\ (ppc \in {"block", "new"} => enq.Need >= 1)
  BY DEF CallRight
<1>3. TailIndex + 1 - 1 = TailIndex
  BY <1>1
<1>4. Num(TailIndex) <= Last + 1 /\ Num(TailIndex) \in Int
  BY <1>1, NumBefore, NumType DEF Last
<1>5. QED
  BY <1>1, <1>2, <1>3, <1>4

\* A step that leaves the blocks and the index alone.
LEMMA QuietStep ==
  ASSUME NEW B, NEW D, Inv(B, D), ConsumersStay, UNCHANGED <<TailBlock, indexVars, blockVars>>,
         Types', CallRight(B)', ppc' # "cleared", Top' = Top, NextNumber' = NextNumber,
         \A m \in Window : ~Unstored(m), \A i \in Int : Stored(i)' = Stored(i),
         TailIndex' > 0 \/ ppc' = "publish" => TailIndex > 0 \/ ppc = "publish"
  PROVE  Inv(B, D)'
<1>0. Types /\ ClaimsRight /\ CallRight(B) /\ RingRight(B) /\ IndexRight(B, D)
      /\ FlagsRight(B) /\ SlotsRight(B) /\ LookupsRight(B, D)
  BY DEF Inv, Numbering
<1>1. UNCHANGED <<TailBlock, PO_NextIndexEntry, PO_IndexEntriesUsed, arrays, Next, Flags, Slots, free,
                  HeadIndex, pc, deq>>
  BY DEF indexVars, blockVars, ConsumersStay, consumers
<1>2. Low' = Low /\ Window' = Window
  BY <1>1 DEF Low, Window
<1>3. RingRight(B)'
  BY <1>0, <1>1, <1>2, ClaimsStay DEF RingRight
<1>4. IndexRight(B, D)'
  <2>1. /\ \A a : ArrayRight(D, a)' = ArrayRight(D, a) /\ TailRight(a)' = TailRight(a)
        /\ \A a, m : At(D, a, m)' = At(D, a, m)
        /\ Current' = Current
    BY <1>1 DEF ArrayRight, TailRight, At, At0, Written, Current
  <2>2. QED
    BY <1>0, <1>1, <1>2, <2>1 DEF IndexRight
<1>5. FlagsRight(B)'
  BY <1>0, <1>1, <1>2, ClaimsStay DEF FlagsRight, Items
<1>6. SlotsRight(B)'
  <2>1. \A m \in Window : Items(m) \subseteq Int
    BY <1>0, TopType, ItemsFinite
  <2>2. QED
    BY <1>0, <1>1, <1>2, <2>1 DEF SlotsRight, Items
<1>7. LookupsRight(B, D)'
  BY <1>0, <1>1, ClaimsStay DEF LookupsRight, LookupRight, At, At0, Written, TailRight
<1>8. QED
  BY <1>0, <1>3, <1>4, <1>5, <1>6, <1>7, ClaimsStay DEF Inv, Numbering

\* The call that starts is for a block at least, and one that takes no block is for the
\* tail block.
LEMMA BeginEnqueueStep ==
  ASSUME NEW B \in Numbers, NEW D \in Offsets, Inv(B, D), NEW op \in {"one", "bulk"}, NEW count \in Nat,
         count >= 1, NEW mode \in Modes, op = "one" => count = 1, op = "bulk" => count \in Batches,
         BeginEnqueue(op, count, mode)
  PROVE  Inv(B, D)'
<1>0. /\ Types /\ ClaimsRight /\ CallRight(B) /\ RingRight(B) /\ IndexRight(B, D)
      /\ ppc = "idle" /\ enq = NoEnq
      /\ HeadIndex \in Nat /\ TailIndex \in Nat /\ PO_IndexEntriesUsed \in Nat
      /\ PO_NextIndexEntry \in Nat /\ TailBlock \in Blocks \union {NULL}
      /\ mode \in {"CanAlloc", "CannotAlloc"}
  BY FastQueueAssumption DEF Inv, Numbering, BeginEnqueue, Types, CallRight, FastQueueAssumption
<1>1. /\ ConsumersStay /\ UNCHANGED <<TailBlock, indexVars, blockVars>>
      /\ UNCHANGED <<HeadIndex, TailIndex, PO_NextIndexEntry, PO_IndexEntriesUsed>>
      /\ TailIndex + count <= MaxTail
  BY DEF BeginEnqueue, ConsumersStay, indexVars
<1>2. PICK L \in Int : L = Last /\ L = Top /\ L >= -1 /\ (TailIndex = 0 => L = -1)
                       /\ (TailIndex > 0 => L >= 0)
  BY <1>0, TopType
<1>3. PICK need \in Int : need = BlockCountNeed(count) /\ need = Num(TailIndex + count - 1) - L
                          /\ need >= 0
  <2>1. PICK x \in Nat : x = TailIndex + count - 1 /\ x = count + TailIndex - 1 /\ TailIndex - 1 <= x
                         /\ count + TailIndex # 0
    BY <1>0
  <2>2. Num(x) \in Int /\ Num(TailIndex - 1) <= Num(x)
    BY <1>0, <2>1, NumType, NumMono
  <2>3. BlockCountNeed(count) = Num(x) - L
    BY <1>2, <2>1 DEF BlockCountNeed, Num, Last
  <2>4. QED
    BY <1>2, <2>1, <2>2, <2>3 DEF Last
<1>4. PICK base \in Int : base = L * BlockSize /\ base \div BlockSize = L
                          /\ base = ((TailIndex - 1) \div BlockSize) * BlockSize
  <2>1. L = (TailIndex - 1) \div BlockSize
    BY <1>2 DEF Last, Num
  <2>2. PICK base \in Int : base = L * BlockSize
    BY <1>2, BlockSizeIs
  <2>3. base \div BlockSize = L
    BY <2>2, BlockSizeIs
  <2>4. QED
    BY <2>1, <2>2, <2>3
<1>5. /\ enq' = [op |-> op, Mode |-> mode, Count |-> count, Need |-> need, Base |-> base,
                 StartBlock |-> TailBlock, FirstAllocatedBlock |-> NULL,
                 OriginNext |-> PO_NextIndexEntry, OriginUsed |-> PO_IndexEntriesUsed]
      /\ ppc' = IF need > 0 THEN "block" ELSE "fill"
  BY <1>3, <1>4 DEF BeginEnqueue
<1>6. enq' \in Enqs /\ ppc' \in EnqueuePlaces
  BY <1>0, <1>5 DEF Enqs, EnqueuePlaces
<1>7. Types'
  <2>1. UNCHANGED <<HeadIndex, TailIndex, TailBlock, PO_NextIndexEntry, PO_IndexEntriesUsed, arrays,
                    Next, Flags, Slots, free, pc, deq>>
    BY DEF BeginEnqueue, indexVars, blockVars, consumers
  <2>2. QED
    BY <1>0, <1>6, <2>1 DEF Types
<1>8. Top' = L /\ Last' = L
  BY <1>1, <1>2, <1>4, <1>5 DEF Top, Last
<1>9. NextNumber' = NextNumber
  BY <1>0, <1>2, <1>5, <1>8 DEF NextNumber
<1>10. CallRight(B)'
  <2>1. enq'.StartBlock = IF TailIndex = 0 THEN NULL ELSE B[L]
    BY <1>0, <1>2, <1>5 DEF RingRight
  <2>2. TailIndex > 0 => PO_IndexEntriesUsed >= 1
    BY <1>0, <1>2 DEF RingRight
  <2>3. (TailIndex + enq.Count <= MaxTail)'
    BY <1>1, <1>5
  <2>4. (enq.Base = Top * BlockSize)'
    BY <1>4, <1>5, <1>8
  <2>5. (enq.Need = Num(TailIndex + enq.Count - 1) - Top)'
    BY <1>1, <1>3, <1>5, <1>8
  <2>6. IF ppc' \in {"block", "new"} THEN enq'.Need >= 1 ELSE enq'.Need = 0
    BY <1>3, <1>5
  <2>7. ppc' \notin {"idle", "entry"}
    BY <1>5
  <2>8. QED
    BY <1>0, <1>1, <1>2, <1>5, <1>8, <2>1, <2>2, <2>3, <2>4, <2>5, <2>6, <2>7 DEF CallRight
<1>11. \A i \in Int : Stored(i)' = Stored(i)
  BY <1>0, <1>1, <1>5, ClaimsStay DEF Stored
<1>12. \A m \in Window : ~Unstored(m)
  BY <1>0 DEF Unstored
<1>13. TailIndex' > 0 \/ ppc' = "publish" => TailIndex > 0 \/ ppc = "publish"
  BY <1>1, <1>5
<1>14. ppc' # "cleared"
  BY <1>5
<1>15. QED
  BY <1>1, <1>2, <1>7, <1>8, <1>9, <1>10, <1>11, <1>12, <1>13, <1>14, QuietStep

\* The tail block is the last of the ring: the next is not empty.
LEMMA NothingToReuseStep ==
  ASSUME NEW B \in Numbers, NEW D \in Offsets, Inv(B, D), NothingToReuse
  PROVE  Inv(B, D)'
<1>0. /\ Types /\ ClaimsRight /\ CallRight(B) /\ IndexRight(B, D) /\ ppc = "block"
  BY DEF Inv, Numbering, NothingToReuse
<1>1. /\ ConsumersStay /\ UNCHANGED <<TailBlock, indexVars, blockVars, enq>>
      /\ UNCHANGED <<HeadIndex, TailIndex, PO_NextIndexEntry, PO_IndexEntriesUsed>>
      /\ ppc' = "new"
  BY DEF NothingToReuse, ConsumersStay, indexVars
<1>2. Types'
  BY <1>0, <1>1 DEF Types, ConsumersStay, consumers, indexVars, blockVars, EnqueuePlaces
<1>3. Top' = Top /\ Last' = Last /\ NextNumber' = NextNumber
  BY <1>0, <1>1 DEF Top, Last, NextNumber
<1>4. CallRight(B)'
  BY <1>0, <1>1, <1>3 DEF CallRight
<1>5. \A i \in Int : Stored(i)' = Stored(i)
  BY <1>0, <1>1, ClaimsStay DEF Stored
<1>6. \A m \in Window : ~Unstored(m)
  BY <1>0 DEF Unstored
<1>7. QED
  BY <1>0, <1>1, <1>2, <1>3, <1>4, <1>5, <1>6, QuietStep

\* A call that ends without an item leaves everything as it was.
LEMMA GiveUpStep ==
  ASSUME NEW B \in Numbers, NEW D \in Offsets, Inv(B, D), ppc = "new", enq.Count = 1,
         ConsumersStay, UNCHANGED <<TailIndex, TailBlock, indexVars, blockVars>>,
         ppc' = "idle", enq' = NoEnq
  PROVE  Inv(B, D)'
<1>0. /\ Types /\ ClaimsRight /\ CallRight(B) /\ IndexRight(B, D)
  BY DEF Inv, Numbering
<1>1. UNCHANGED <<HeadIndex, TailIndex, PO_NextIndexEntry, PO_IndexEntriesUsed, arrays, TailBlock,
                  Next, Flags, Slots, free, pc, deq>>
  BY DEF ConsumersStay, consumers, indexVars, blockVars
<1>2. NoEnq \in Enqs
  BY DEF NoEnq, Enqs
<1>3. Types'
  BY <1>0, <1>1, <1>2 DEF Types, EnqueuePlaces
<1>4. Top = Last
  BY <1>0, OneBlock
<1>5. Last' = Last /\ Top' = Top /\ NextNumber' = NextNumber
  BY <1>1, <1>4 DEF Last, Top, NoEnq, NextNumber
<1>6. CallRight(B)'
  BY DEF CallRight
<1>7. \A i \in Int : Stored(i)' = Stored(i)
  BY <1>1, ClaimsStay DEF Stored
<1>8. \A m \in Window : ~Unstored(m)
  BY DEF Unstored
<1>9. QED
  BY <1>1, <1>3, <1>5, <1>6, <1>7, <1>8, QuietStep

\* A call that may not allocate, or whose new index cannot be made, had taken no block.
LEMMA EnqueueFailsStep ==
  ASSUME NoBulkFails, NEW B \in Numbers, NEW D \in Offsets, Inv(B, D), EnqueueFails
  PROVE  Inv(B, D)'
<1>0. /\ Types /\ ClaimsRight /\ CallRight(B) /\ RingRight(B) /\ ppc = "new"
  BY DEF Inv, Numbering, EnqueueFails
<1>1. enq.op \in {"one", "bulk"} /\ (enq.op = "one" => enq.Count = 1)
      /\ (enq.op = "bulk" => enq.Count \in Batches) /\ enq.Mode \in Modes
  BY <1>0 DEF CallRight
<1>2. enq.Count = 1
  <2>1. CASE enq.Mode = "CannotAlloc"
    BY <1>1, <2>1 DEF NoBulkFails
  <2>2. CASE <<"index", enq.Count>> \in Failures
    BY <2>2 DEF NoBulkFails
  <2>3. QED
    BY <2>1, <2>2 DEF EnqueueFails
<1>3. Top = Last
  BY <1>0, <1>2, OneBlock
<1>4. enq.OriginNext = PO_NextIndexEntry
  BY <1>0, <1>3 DEF CallRight
<1>5. enq.StartBlock = TailBlock
  <2>1. TailIndex \in Nat /\ (TailIndex = 0 => Last = -1) /\ (TailIndex > 0 => Last >= 0) /\ Last \in Int
    BY <1>0, TopType DEF Types
  <2>2. enq.StartBlock = IF TailIndex = 0 THEN NULL ELSE B[Last]
    BY <1>0 DEF CallRight
  <2>3. TailBlock = IF Top < 0 THEN NULL ELSE B[Top]
    BY <1>0 DEF RingRight
  <2>4. QED
    BY <1>3, <2>1, <2>2, <2>3
<1>6. UNCHANGED <<PO_NextIndexEntry, TailBlock>>
  BY <1>4, <1>5 DEF EnqueueFails, RollBack
<1>7. /\ ConsumersStay /\ UNCHANGED <<TailIndex, TailBlock, indexVars, blockVars>>
      /\ ppc' = "idle" /\ enq' = NoEnq
  BY <1>6 DEF EnqueueFails, ConsumersStay, indexVars
<1>8. QED
  BY <1>0, <1>2, <1>7, GiveUpStep

\* Nor had one that gets no block of the manager.
LEMMA RequisitionThrowsStep ==
  ASSUME NoBulkFails, NEW B \in Numbers, NEW D \in Offsets, Inv(B, D), RequisitionThrows
  PROVE  Inv(B, D)'
<1>1. enq.Count = 1
  BY DEF RequisitionThrows, NoBulkFails
<1>2. /\ ConsumersStay /\ UNCHANGED <<TailIndex, TailBlock, indexVars, blockVars>>
      /\ ppc = "new" /\ ppc' = "idle" /\ enq' = NoEnq
  BY DEF RequisitionThrows, ConsumersStay
<1>3. QED
  BY <1>1, <1>2, GiveUpStep

\* The items of the call are stored before TailIndex says so.
LEMMA PublishStep ==
  ASSUME NEW B \in Numbers, NEW D \in Offsets, Inv(B, D), Publish
  PROVE  Inv(B, D)'
<1>0. /\ Types /\ ClaimsRight /\ CallRight(B) /\ RingRight(B) /\ IndexRight(B, D) /\ ppc = "publish"
  BY DEF Inv, Numbering, Publish
<1>1. /\ ConsumersStay
      /\ UNCHANGED <<HeadIndex, PO_NextIndexEntry, PO_IndexEntriesUsed, arrays, TailBlock,
                     Next, Flags, Slots, free, pc, deq>>
      /\ ppc' = "idle" /\ enq' = NoEnq
  BY DEF Publish, ConsumersStay, consumers, indexVars, blockVars
<1>2. PICK T \in Nat, n \in Nat : T = TailIndex /\ n = enq.Count /\ n >= 1 /\ T + n <= MaxTail
                                  /\ TailIndex' = T + n /\ HeadIndex <= T /\ HeadIndex \in Nat
  BY <1>0 DEF Types, Enqs, CallRight, Publish
<1>3. NoEnq \in Enqs
  BY DEF NoEnq, Enqs
<1>4. Types'
  <2>1. TailIndex' \in Nat /\ HeadIndex <= TailIndex' /\ TailIndex' <= MaxTail
    BY <1>2
  <2>2. QED
    BY <1>0, <1>1, <1>3, <2>1 DEF Types, EnqueuePlaces
<1>5. Last' = Top /\ Top' = Top
  <2>1. enq.Need = Num(T + n - 1) - Top /\ enq.Need = 0
    BY <1>0, <1>2 DEF CallRight
  <2>4. T + n - 1 \in Int
    BY <1>2
  <2>5. Num(T + n - 1) \in Int
    BY <2>4, NumType
  <2>2. Top \in Int /\ Num(T + n - 1) \in Int
    BY <1>0, <2>5, TopType
  <2>3. Num(T + n - 1) = Top
    BY <2>1, <2>2
  <2>6. QED
    BY <1>1, <1>2, <2>3 DEF Last, Top, NoEnq
<1>6. NextNumber' = NextNumber
  BY <1>0, <1>1, <1>5 DEF NextNumber
<1>7. CallRight(B)'
  BY <1>1 DEF CallRight
<1>8. ASSUME NEW i \in Int PROVE Stored(i)' = Stored(i)
  <2>1. \A c \in Consumers : \A j \in Unmoved(c) : j < T
    BY <1>0, <1>2, PendingTypes
  <2>2. Stored(i) <=> i < T + n /\ (i >= HeadIndex \/ \E c \in Consumers : i \in Unmoved(c))
    <3>1. Stored(i) <=> \/ i < T /\ (i >= HeadIndex \/ \E c \in Consumers : i \in Unmoved(c))
                        \/ i >= T /\ i < T + n
      BY <1>0, <1>2 DEF Stored
    <3>2. QED
      BY <1>2, <2>1, <3>1
  <2>3. Stored(i)' <=> i < T + n /\ (i >= HeadIndex \/ \E c \in Consumers : i \in Unmoved(c))
    BY <1>1, <1>2, ClaimsStay DEF Stored
  <2>4. QED
    BY Zenon, <2>2, <2>3 DEF Stored
<1>9. \A m \in Window : ~Unstored(m)
  BY <1>0 DEF Unstored
<1>10. UNCHANGED <<TailBlock, indexVars, blockVars>>
  BY DEF Publish
<1>11. QED
  BY <1>0, <1>1, <1>4, <1>5, <1>6, <1>7, <1>8, <1>9, <1>10, QuietStep

-----------------------------------------------------------------------------
(* The index. *)

\* The place of the block k further on.
LEMMA AtPlus ==
  ASSUME Types, NEW B, NEW D \in Offsets, IndexRight(B, D), NEW a \in 1..Len(arrays), NEW m \in Int,
         NEW k \in Int, At(D, a, m) \in Int, arrays[a].Size \in Nat
  PROVE  (At(D, a, m) + k) % arrays[a].Size = At(D, a, m + k)
<1>1. PICK S \in Nat \ {0} : S = arrays[a].Size
  BY ArrayIs
<1>2. PICK x \in Int : x = D[a]
  BY ArrayIs DEF Offsets
<1>3. PICK y \in Int : y = x + m
  OBVIOUS
<1>4. ((y % S) + k) % S = (y + k) % S
  BY ModPlus
<1>5. y + k = x + (m + k)
  BY <1>3
<1>6. (y + k) % S = At(D, a, m + k)
  BY <1>1, <1>2, <1>5 DEF At
<1>7. At(D, a, m) = y % S
  BY <1>1, <1>2, <1>3 DEF At
<1>8. QED
  BY <1>1, <1>4, <1>6, <1>7

\* Blocks that are less than a turn apart have different places.
LEMMA AtEqual ==
  ASSUME Types, NEW B, NEW D \in Offsets, IndexRight(B, D), NEW a \in 1..Len(arrays), NEW m \in Int,
         NEW n \in Int, m - n < arrays[a].Size, n - m < arrays[a].Size, At(D, a, m) = At(D, a, n)
  PROVE  m = n
<1>1. PICK S \in Nat \ {0} : S = arrays[a].Size
  BY ArrayIs
<1>2. PICK x \in Int : x = D[a]
  BY ArrayIs DEF Offsets
<1>3. PICK y \in Int, z \in Int : y = x + m /\ z = x + n
  OBVIOUS
<1>4. y % S = z % S
  BY <1>1, <1>2, <1>3 DEF At
<1>5. y - z < S /\ z - y < S
  BY <1>1, <1>3
<1>6. y = z
  BY <1>4, <1>5, ModEqual
<1>7. QED
  BY <1>3, <1>6

\* A new entry for block k is written where block k has its place.
LEMMA WriteEntryStep ==
  ASSUME Types, NEW B, NEW D \in Offsets, IndexRight(B, D), NEW k \in Nat, NEW x \in Blocks,
         PO_NextIndexEntry = At(D, Len(arrays), k), WriteEntry(k * BlockSize, x)
  PROVE  /\ arrays' \in Seq(IndexEntryArrays) /\ Len(arrays') = Len(arrays)
         /\ \A a \in 1..Len(arrays) :
              /\ arrays'[a].Size = arrays[a].Size /\ arrays'[a].Tail = arrays[a].Tail
              /\ ArrayRight(D, a)' /\ (TailRight(a) => TailRight(a)')
              /\ \A s \in At0(a) : Written(a, s) => Written(a, s)'
              /\ \A s \in At0(a) : a # Len(arrays) \/ s # At(D, a, k)
                                     => arrays'[a].Entries[s] = arrays[a].Entries[s]
         /\ arrays'[Len(arrays)].Entries[At(D, Len(arrays), k)] = Entry(k * BlockSize, x)
<1>1. PICK L \in Nat : L = Len(arrays) /\ L \in 1..Len(arrays)
  BY ArrayIs
<1>2. PICK p : p = At(D, L, k) /\ p \in At0(L)
  BY <1>1, AtType
<1>3. PICK e \in IndexEntries : e = Entry(k * BlockSize, x) /\ e.InnerBlock = x /\ e.Base = k * BlockSize
  <2>1. PICK y \in Int : y = k * BlockSize
    BY BlockSizeIs
  <2>2. PICK e : e = Entry(y, x)
    OBVIOUS
  <2>3. e \in IndexEntries /\ e.InnerBlock = x /\ e.Base = y
    BY <2>2 DEF IndexEntries, Entry
  <2>4. QED
    BY <2>1, <2>2, <2>3
<1>4. arrays[L] \in IndexEntryArrays /\ arrays \in Seq(IndexEntryArrays)
  BY <1>1, ArrayIs DEF Types
<1>5. arrays[L].Entries \in [At0(L) -> IndexEntries] /\ arrays[L].Size \in Nat /\ arrays[L].Tail \in Int
  BY <1>1, <1>4, ArrayIs DEF IndexEntryArrays
<1>6. PICK es : es = [arrays[L].Entries EXCEPT ![p] = e]
  OBVIOUS
<1>7. es \in [At0(L) -> IndexEntries]
  BY <1>5, <1>6
<1>8. PICK r : r = [arrays[L] EXCEPT !.Entries = es]
  OBVIOUS
<1>9. arrays' = [arrays EXCEPT ![L] = r]
  BY <1>1, <1>2, <1>3, <1>6, <1>8 DEF WriteEntry
<1>10. r.Size = arrays[L].Size /\ r.Tail = arrays[L].Tail /\ r.Entries = es /\ r \in IndexEntryArrays
  <2>1. es \in UNION {[0..(n - 1) -> IndexEntries] : n \in Nat}
    BY <1>5, <1>7 DEF At0
  <2>2. QED
    BY <1>4, <1>5, <1>8, <2>1 DEF IndexEntryArrays
<1>11. arrays' \in Seq(IndexEntryArrays) /\ Len(arrays') = Len(arrays) /\ arrays'[L] = r
       /\ \A a \in 1..Len(arrays) : a # L => arrays'[a] = arrays[a]
  BY <1>1, <1>4, <1>9, <1>10
<1>12. x # NULL
  BY FastQueueAssumption DEF FastQueueAssumption
<1>13. /\ es[p] = e
       /\ \A s \in At0(L) : s # p => es[s] = arrays[L].Entries[s]
  BY <1>2, <1>5, <1>6
<1>14. ASSUME NEW a \in 1..Len(arrays)
       PROVE  /\ arrays'[a].Size = arrays[a].Size /\ arrays'[a].Tail = arrays[a].Tail
              /\ At0(a)' = At0(a) /\ \A m : At(D, a, m)' = At(D, a, m)
  <2>1. arrays'[a].Size = arrays[a].Size /\ arrays'[a].Tail = arrays[a].Tail
    BY <1>10, <1>11
  <2>2. QED
    BY <2>1 DEF At0, At
<1>15. ASSUME NEW a \in 1..Len(arrays)
       PROVE  /\ \A s \in At0(a) : Written(a, s) => Written(a, s)'
              /\ \A s \in At0(a) : a # L \/ s # p => arrays'[a].Entries[s] = arrays[a].Entries[s]
  <2>1. CASE a # L
    BY <1>11, <2>1 DEF Written
  <2>2. CASE a = L
    BY <1>3, <1>10, <1>11, <1>12, <1>13, <2>2 DEF Written
  <2>3. QED
    BY <2>1, <2>2
<1>16. ASSUME NEW a \in 1..Len(arrays), TailRight(a) PROVE TailRight(a)'
  <2>1. arrays[a].Tail \in At0(a) /\ arrays[a].Tail >= 0 /\ Written(a, arrays[a].Tail)
    BY <1>16, ArrayIs DEF TailRight
  <2>2. Written(a, arrays[a].Tail)'
    BY <1>11, <1>14, <1>15, <2>1 DEF Written
  <2>3. QED
    BY <1>14, <2>1, <2>2 DEF TailRight
<1>17. ASSUME NEW a \in 1..Len(arrays) PROVE ArrayRight(D, a)'
  <2>1. ArrayRight(D, a)
    BY DEF IndexRight
  <2>2. CASE a # L
    <3>1. arrays'[a] = arrays[a]
      BY <1>11, <2>2
    <3>2. QED
      BY <2>1, <3>1 DEF ArrayRight, At0, At, Written
  <2>3. CASE a = L
    <3>1. (arrays[L].Size >= 2 /\ -1 <= arrays[L].Tail /\ arrays[L].Tail < arrays[L].Size)'
      BY <1>10, <1>11, <2>1, <2>3 DEF ArrayRight
    <3>2. (arrays[L].Entries \in [At0(L) -> IndexEntries])'
      BY <1>1, <1>7, <1>10, <1>11, <1>14
    <3>3. ASSUME NEW s \in At0(L), Written(L, s)'
          PROVE \E m \in Nat : arrays'[L].Entries[s].Base = m * BlockSize /\ s = At(D, L, m)
      <4>1. CASE s = p
        BY <1>2, <1>3, <1>10, <1>11, <1>13, <4>1
      <4>2. CASE s # p
        <5>1. arrays'[L].Entries[s] = arrays[L].Entries[s]
          BY <1>10, <1>11, <1>13, <4>2
        <5>2. Written(L, s)
          BY <3>3, <5>1 DEF Written
        <5>3. QED
          BY <2>1, <2>3, <5>1, <5>2 DEF ArrayRight
      <4>3. QED
        BY <4>1, <4>2
    <3>4. QED
      BY <1>1, <1>14, <2>3, <3>1, <3>2, <3>3 DEF ArrayRight
  <2>4. QED
    BY <2>2, <2>3
<1>18. arrays'[L].Entries[p] = e
  BY <1>10, <1>11, <1>13
<1>19. QED
  BY <1>1, <1>2, <1>3, <1>11, <1>14, <1>15, <1>16, <1>17, <1>18

\* Consumers keep to their blocks while the arrays keep the entries that matter to them.
LEMMA LookupsStay ==
  ASSUME NEW B, NEW D \in Offsets, NEW E, NEW F, Inv(B, D), ConsumersStay,
         Len(arrays') \in Nat, Len(arrays') >= Len(arrays),
         \A m \in Window : m <= Last => E[m] = B[m],
         \A a \in 1..Len(arrays) :
           /\ F[a] = D[a] /\ arrays'[a].Size = arrays[a].Size /\ (TailRight(a) => TailRight(a)')
           /\ \A s \in At0(a) : Written(a, s) => Written(a, s)',
         \A a \in 1..Len(arrays), m \in Window : m <= Last /\ ~AllDone(m)
           => arrays'[a].Entries[At(D, a, m)] = arrays[a].Entries[At(D, a, m)]
  PROVE  LookupsRight(E, F)'
<1>0. /\ Types /\ ClaimsRight /\ CallRight(B) /\ RingRight(B) /\ IndexRight(B, D) /\ LookupsRight(B, D)
  BY DEF Inv, Numbering
<1>1. pc' = pc /\ deq' = deq
  BY DEF ConsumersStay, consumers
<1>2. ASSUME NEW c \in Consumers PROVE LookupRight(E, F, c)'
  <2>1. LookupRight(B, D, c)
    BY <1>0 DEF LookupsRight
  <2>2. From(c)' = From(c) /\ Pending(c)' = Pending(c)
    BY ClaimsStay
  <2>3. ASSUME pc[c] # "idle"
        PROVE  Num(From(c)) \in Window /\ Num(From(c)) \in Nat /\ Num(From(c)) <= Last
               /\ ~AllDone(Num(From(c))) /\ E[Num(From(c))] = B[Num(From(c))]
    <3>1. From(c) \in Pending(c) /\ From(c) \in Nat
      BY <1>0, <2>3, PendingTypes
    <3>2. Num(From(c)) \in Window /\ Num(From(c)) \in Nat /\ Num(From(c)) <= Last
      BY <1>0, <3>1, PendingInWindow
    <3>3. ~Done(From(c)) /\ From(c) \in Items(Num(From(c)))
      BY <3>1, <3>2, NumItems DEF Done
    <3>4. QED
      BY <3>2, <3>3 DEF AllDone
  <2>4. CASE pc[c] \in {"tail", "base", "block"}
    <3>1. PICK a \in 1..Len(arrays) : a = deq[c].Array
      BY <2>1, <2>4 DEF LookupRight
    <3>2. arrays[a].Entries[At(D, a, Num(From(c)))].InnerBlock = B[Num(From(c))]
      BY <2>1, <2>4, <3>1 DEF LookupRight
    <3>3. arrays'[a].Entries[At(D, a, Num(From(c)))].InnerBlock = E[Num(From(c))]
      BY <2>3, <2>4, <3>2
    <3>4. F[a] = D[a] /\ arrays'[a].Size = arrays[a].Size /\ a \in 1..Len(arrays')
      BY <1>0, ArrayIs
    <3>5. At0(a)' = At0(a) /\ \A m : At(F, a, m)' = At(D, a, m)
      BY <3>4 DEF At0, At
    <3>6. pc[c] = "tail" => TailRight(a)'
      BY <2>1, <3>1 DEF LookupRight
    <3>7. pc[c] \in {"base", "block"} => deq[c].Tail \in At0(a)'
      BY <2>1, <3>1, <3>5 DEF LookupRight
    <3>8. ASSUME pc[c] = "base" PROVE Written(a, deq[c].Tail)'
      <4>1. deq[c].Tail \in At0(a) /\ Written(a, deq[c].Tail)
        BY <2>1, <3>1, <3>8 DEF LookupRight
      <4>2. \A s \in At0(a) : Written(a, s) => Written(a, s)'
        OBVIOUS
      <4>3. PICK t \in At0(a) : t = deq[c].Tail
        BY <4>1
      <4>4. Written(a, t)'
        BY <4>1, <4>2, <4>3
      <4>5. QED
        BY <1>1, <4>3, <4>4 DEF Written
    <3>9. pc[c] = "block" => \E n \in Nat : deq[c].Base = n * BlockSize /\ deq[c].Tail = At(F, a, n)'
      BY <2>1, <3>1, <3>5 DEF LookupRight
    <3>10. deq'[c] = deq[c] /\ pc'[c] = pc[c]
      BY <1>1
    <3>12. /\ (pc[c] = "tail" => TailRight(deq[c].Array))'
           /\ (pc[c] = "base" => Written(deq[c].Array, deq[c].Tail))'
      BY <1>1, <3>1, <3>6, <3>8 DEF TailRight, Written
    <3>13. /\ (pc[c] \in {"base", "block"} => deq[c].Tail \in At0(deq[c].Array))'
           /\ (pc[c] = "block" => \E n \in Nat : deq[c].Base = n * BlockSize
                                                 /\ deq[c].Tail = At(F, deq[c].Array, n))'
      BY <1>1, <3>1, <3>7, <3>9 DEF At0, At
    <3>14. (arrays[deq[c].Array].Entries[At(F, deq[c].Array, Num(From(c)))].InnerBlock = E[Num(From(c))])'
      BY <1>1, <2>2, <3>1, <3>3, <3>5 DEF At
    <3>15. deq'[c].Array \in 1..Len(arrays')
      BY <3>1, <3>4, <3>10
    <3>16. QED
      BY <2>4, <3>10, <3>12, <3>13, <3>14, <3>15 DEF LookupRight
  <2>5. CASE pc[c] \in {"move", "mark"}
    <3>1. deq[c].Block = B[Num(From(c))] /\ E[Num(From(c))] = B[Num(From(c))]
      BY <2>1, <2>3, <2>5 DEF LookupRight
    <3>2. ASSUME pc[c] = "mark", NEW i \in Pending(c), Num(i) # Num(From(c))
          PROVE  deq[c].NextBlock = E[Num(From(c)) + 1]
      <4>1. deq[c].NextBlock = B[Num(From(c)) + 1]
        BY <2>1, <3>2 DEF LookupRight
      <4>2. i \in Nat /\ From(c) \in Nat /\ From(c) <= i
        BY <1>0, <3>2, PendingTypes
      <4>3. Num(From(c)) <= Num(i) /\ Num(i) \in Window /\ Num(i) <= Last /\ Num(i) \in Nat
        BY <1>0, <3>2, <4>2, NumMono, PendingInWindow
      <4>4. Num(From(c)) + 1 \in Window /\ Num(From(c)) + 1 <= Last
        BY <1>0, <2>3, <2>5, <3>2, <4>3, TopType
      <4>5. QED
        BY <4>1, <4>4
    <3>3. QED
      BY <1>1, <2>2, <2>5, <3>1, <3>2 DEF LookupRight
  <2>6. CASE pc[c] \in {"idle", "array"}
    BY <1>1, <2>6 DEF LookupRight
  <2>7. pc[c] \in DequeuePlaces
    BY <1>0 DEF Types
  <2>8. QED
    BY <2>4, <2>5, <2>6, <2>7 DEF DequeuePlaces
<1>3. QED
  BY <1>2 DEF LookupsRight

-----------------------------------------------------------------------------
(* Blocks for the items of a call. *)

\* The numbering with the block that is taken.
Taken(B, b) == [B EXCEPT ![Top + 1] = b]

\* The numbers with a block that is taken.
LEMMA TakenIs ==
  ASSUME Types, ClaimsRight, NEW B \in Numbers, CallRight(B), RingRight(B), NEW b \in Blocks
  PROVE  /\ Taken(B, b) \in Numbers /\ Top + 1 \in Nat /\ Taken(B, b)[Top + 1] = b
         /\ \A m \in Window : m \in Nat /\ m # Top + 1 /\ Taken(B, b)[m] = B[m]
         /\ \A m \in Nat : m # Top + 1 => Taken(B, b)[m] = B[m]
<1>1. Top \in Int /\ Top >= -1 /\ Low \in Int /\ 0 <= Low /\ Window = Low..Top
  BY TopType, LowBound
<1>2. \A m \in Window : m \in Nat /\ m # Top + 1
  BY <1>1
<1>3. QED
  BY <1>1, <1>2 DEF Taken, Numbers

\* What a block does to the call.
LEMMA TakeCall ==
  ASSUME Types, ClaimsRight, NEW B \in Numbers, CallRight(B), RingRight(B), NEW b \in Blocks,
         ppc \in {"block", "new"}, NEW again \in {"block", "new"}, TakeBlock(b, again),
         TailIndex' = TailIndex, PO_IndexEntriesUsed' \in Nat, PO_IndexEntriesUsed' >= PO_IndexEntriesUsed,
         NEW E, E = Taken(B, b)
  PROVE  /\ CallRight(E)' /\ Top' = Top + 1 /\ Last' = Last
         /\ enq' \in Enqs /\ enq'.op = enq.op /\ ppc' \in {again, "fill"}
         /\ enq.op = "one" => Top = Last /\ ppc' = "fill"
         /\ enq.Base + BlockSize = (Top + 1) * BlockSize
<1>1. /\ enq \in Enqs /\ TailIndex \in Nat /\ PO_IndexEntriesUsed \in Nat
      /\ Last \in Int /\ Top \in Int /\ Top >= Last /\ Last >= -1
  BY TopType DEF Types
<1>3. /\ enq.op \in {"one", "bulk"} /\ enq.Count >= 1 /\ TailIndex + enq.Count <= MaxTail
      /\ enq.Mode \in Modes /\ (enq.op = "one" => enq.Count = 1) /\ (enq.op = "bulk" => enq.Count \in Batches)
      /\ enq.Base = Top * BlockSize
      /\ enq.Need = Num(TailIndex + enq.Count - 1) - Top /\ enq.Need >= 1
      /\ enq.StartBlock = (IF TailIndex = 0 THEN NULL ELSE B[Last])
      /\ enq.FirstAllocatedBlock = (IF Top = Last THEN NULL ELSE B[Last + 1])
      /\ 0 <= enq.OriginUsed /\ enq.OriginUsed <= PO_IndexEntriesUsed
      /\ (TailIndex > 0 => enq.OriginUsed >= 1)
  BY DEF CallRight
<1>4. PICK first \in Blocks \union {NULL} :
        first = IF enq.FirstAllocatedBlock = NULL THEN b ELSE enq.FirstAllocatedBlock
  BY <1>1 DEF Enqs
<1>5. PICK need \in Int, base \in Int : need = enq.Need - 1 /\ base = enq.Base + BlockSize
  BY <1>1, BlockSizeIs DEF Enqs
<1>6. /\ enq' = [enq EXCEPT !.Need = need, !.Base = base, !.FirstAllocatedBlock = first]
      /\ ppc' = IF need > 0 THEN again ELSE "fill"
  <2>1. enq' = [enq EXCEPT !.Need = need, !.Base = base, !.FirstAllocatedBlock = first]
    BY <1>4, <1>5 DEF TakeBlock
  <2>2. enq.Need > 1 <=> need > 0
    BY <1>1, <1>5 DEF Enqs
  <2>3. QED
    BY <2>1, <2>2 DEF TakeBlock
<1>7. enq' \in Enqs
  BY <1>1, <1>4, <1>5, <1>6 DEF Enqs
<1>8. /\ enq'.op = enq.op /\ enq'.Count = enq.Count /\ enq'.Mode = enq.Mode
      /\ enq'.Need = need /\ enq'.Base = base /\ enq'.StartBlock = enq.StartBlock
      /\ enq'.FirstAllocatedBlock = first /\ enq'.OriginUsed = enq.OriginUsed
  BY <1>1, <1>6 DEF Enqs
<1>9. base = (Top + 1) * BlockSize /\ base \div BlockSize = Top + 1
  <2>1. (Top + 1) * BlockSize = Top * BlockSize + BlockSize
    BY <1>1, BlockSizeIs
  <2>2. ((Top + 1) * BlockSize) \div BlockSize = Top + 1
    BY <1>1, BlockSizeIs
  <2>3. QED
    BY <1>3, <1>5, <2>1, <2>2
<1>10. Top' = Top + 1 /\ Last' = Last
  BY <1>3, <1>8, <1>9 DEF Top, Last
<1>11. first = E[Last + 1]
  <2>1. CASE Top = Last
    BY <1>3, <1>4, <2>1, TakenIs
  <2>2. CASE Top # Last
    <3>1. Last + 1 \in Window /\ enq.FirstAllocatedBlock # NULL
      BY <1>1, <1>3, <2>2, LowBound
    <3>2. E[Last + 1] = B[Last + 1]
      BY <3>1, TakenIs
    <3>3. QED
      BY <1>3, <1>4, <2>2, <3>1, <3>2
  <2>3. QED
    BY <2>1, <2>2
<1>12. enq.StartBlock = IF TailIndex = 0 THEN NULL ELSE E[Last]
  <2>1. TailIndex > 0 => Last \in Nat /\ Last # Top + 1
    BY <1>1, TopType
  <2>2. TailIndex > 0 => E[Last] = B[Last]
    BY <2>1, TakenIs
  <2>3. QED
    BY <1>1, <1>3, <2>2
<1>13. CallRight(E)'
  <2>1. /\ (enq.op \in {"one", "bulk"} /\ enq.Count >= 1 /\ TailIndex + enq.Count <= MaxTail)'
        /\ (enq.Mode \in Modes)'
        /\ (enq.op = "one" => enq.Count = 1)'
        /\ (enq.op = "bulk" => enq.Count \in Batches)'
    BY <1>3, <1>8
  <2>2. (enq.Base = Top * BlockSize /\ Top >= Last)'
    BY <1>1, <1>8, <1>9, <1>10
  <2>3. (enq.Need = Num(TailIndex + enq.Count - 1) - Top)'
    <3>1. TailIndex + enq.Count - 1 \in Int
      BY <1>1 DEF Enqs
    <3>2. PICK z \in Int : z = Num(TailIndex + enq.Count - 1)
      BY <3>1, NumType
    <3>3. need = z - (Top + 1)
      BY <1>1, <1>3, <1>5, <3>2
    <3>4. QED
      BY <1>8, <1>10, <3>2, <3>3
  <2>4. (IF ppc \in {"block", "new"} THEN enq.Need >= 1 ELSE enq.Need = 0)'
    <3>1. need >= 0
      BY <1>1, <1>3, <1>5 DEF Enqs
    <3>2. QED
      BY <1>6, <1>8, <3>1
  <2>5. ppc' \notin {"idle", "entry"}
    BY <1>6
  <2>6. (enq.StartBlock = IF TailIndex = 0 THEN NULL ELSE E[Last])'
    BY <1>8, <1>10, <1>12
  <2>7. (enq.FirstAllocatedBlock = IF Top = Last THEN NULL ELSE E[Last + 1])' /\ (Top # Last)'
    BY <1>1, <1>8, <1>10, <1>11
  <2>8. /\ (0 <= enq.OriginUsed /\ enq.OriginUsed <= PO_IndexEntriesUsed)'
        /\ (TailIndex > 0 => enq.OriginUsed >= 1)'
    BY <1>1, <1>3, <1>8 DEF Enqs
  <2>9. QED
    BY <2>1, <2>2, <2>3, <2>4, <2>5, <2>6, <2>7, <2>8 DEF CallRight
<1>14. enq.op = "one" => Top = Last /\ ppc' = "fill"
  <2>1. SUFFICES ASSUME enq.op = "one" PROVE Top = Last /\ ppc' = "fill"
    OBVIOUS
  <2>2. Top = Last /\ enq.Need = 1
    BY <1>3, <2>1, OneBlock
  <2>3. QED
    BY <1>5, <1>6, <2>2
<1>15. ppc' \in {again, "fill"}
  BY <1>6
<1>16. QED
  BY <1>5, <1>7, <1>8, <1>9, <1>10, <1>13, <1>14, <1>15

\* What a block does to the index: Enqueue writes its entry later.
LEMMA TakeIndex ==
  ASSUME NEW B \in Numbers, NEW D \in Offsets, Inv(B, D), NEW b \in Blocks,
         ppc \in {"block", "new"}, NEW again \in {"block", "new"}, TakeBlock(b, again),
         ConsumersStay, TailIndex' = TailIndex,
         PO_IndexEntriesUsed' \in {PO_IndexEntriesUsed, PO_IndexEntriesUsed + 1},
         PO_IndexEntriesUsed' <= Current.Size,
         \A m \in Window : m < Top + 2 - PO_IndexEntriesUsed' => AllDone(m),
         NEW E \in Numbers, E = Taken(B, b)
  PROVE  /\ IndexRight(E, D)' /\ LookupsRight(E, D)'
         /\ arrays' \in Seq(IndexEntryArrays) /\ PO_NextIndexEntry' \in Nat
         /\ Low' = Top + 2 - PO_IndexEntriesUsed' /\ Window' = Low'..(Top + 1)
         /\ Low' \in Int /\ Low' >= Low
<1>0. Types /\ ClaimsRight /\ CallRight(B) /\ RingRight(B) /\ IndexRight(B, D) /\ ppc # "idle"
      /\ PO_IndexEntriesUsed \in Nat
  BY DEF Inv, Numbering, Types
<1>1. PICK L \in Nat, S \in Nat \ {0, 1} : L = Len(arrays) /\ L \in 1..Len(arrays) /\ S = arrays[L].Size
                                           /\ Current = arrays[L]
  BY <1>0, ArrayIs
<1>2. /\ Top \in Int /\ Last \in Int /\ Low \in Int /\ Top >= Last /\ Top + 1 \in Nat
      /\ Window = Low..Top /\ Low = Top - PO_IndexEntriesUsed + 1
  BY <1>0, TopType, TakenIs
<1>3. PICK u \in Nat : u = PO_IndexEntriesUsed' /\ u \in {PO_IndexEntriesUsed, PO_IndexEntriesUsed + 1}
                       /\ u <= S
  BY <1>0, <1>1
<1>5. /\ CallRight(E)' /\ Top' = Top + 1 /\ Last' = Last
      /\ enq' \in Enqs /\ enq'.op = enq.op /\ ppc' \in {again, "fill"}
      /\ enq.op = "one" => Top = Last /\ ppc' = "fill"
      /\ enq.Base + BlockSize = (Top + 1) * BlockSize
  BY <1>0, <1>3, TakeCall
<1>6. /\ Low' = Top + 2 - u /\ Window' = Low'..(Top + 1) /\ Low' \in Int /\ Low' >= Low
      /\ Top + 1 - Low' < S
  <2>1. Low' = (Top + 1) - u + 1
    BY <1>3, <1>5 DEF Low
  <2>2. Window' = Low'..(Top + 1)
    BY <1>5 DEF Window
  <2>3. PICK t \in Int : t = Top
    BY <1>2
  <2>4. Low' = t + 2 - u /\ Low = t - PO_IndexEntriesUsed + 1
    BY <1>2, <1>3, <2>1, <2>3
  <2>7. PICK v \in Nat : v = PO_IndexEntriesUsed
    BY <1>0
  <2>9. u \in {v, v + 1} /\ u <= S
    BY <1>3, <2>7
  <2>8. t + 2 - u \in Int /\ t + 2 - u >= t - v + 1 /\ t + 1 - (t + 2 - u) < S
    BY <2>9
  <2>5. Low' \in Int /\ Low' >= Low /\ t + 1 - Low' < S
    BY <2>4, <2>7, <2>8
  <2>6. QED
    BY <2>2, <2>3, <2>4, <2>5
<1>7. enq.op \in {"one", "bulk"}
  BY <1>0 DEF CallRight
<1>8. PICK p \in Nat : p = PO_NextIndexEntry /\ p = At(D, L, Top + 1)
  <2>1. NextNumber = Top + 1
    BY DEF NextNumber
  <2>2. QED
    BY <1>0, <1>1, <2>1 DEF IndexRight, Types
<1>9. /\ E[Top + 1] = b
      /\ \A m \in Window : m \in Nat /\ m # Top + 1 /\ E[m] = B[m]
  BY <1>0, TakenIs
<1>10. \A m \in Window : Current.Entries[At(D, L, m)] = Entry(m * BlockSize, B[m])
  <2>1. \A m \in Window : ~Unstored(m)
    BY DEF Unstored
  <2>2. QED
    BY <1>0, <1>1, <2>1 DEF IndexRight
<1>11. /\ arrays' \in Seq(IndexEntryArrays) /\ Len(arrays') = Len(arrays)
       /\ \A a \in 1..Len(arrays) :
            /\ arrays'[a].Size = arrays[a].Size /\ arrays'[a].Tail = arrays[a].Tail
            /\ ArrayRight(D, a)' /\ (TailRight(a) => TailRight(a)')
            /\ \A s \in At0(a) : Written(a, s) => Written(a, s)'
            /\ \A s \in At0(a) : a # L \/ s # p => arrays'[a].Entries[s] = arrays[a].Entries[s]
       /\ enq.op = "bulk" => arrays'[L].Entries[p] = Entry((Top + 1) * BlockSize, b)
  <2>1. CASE enq.op = "one"
    <3>1. arrays' = arrays
      BY <2>1 DEF TakeBlock
    <3>2. \A a \in 1..Len(arrays) : ArrayRight(D, a)
      BY <1>0 DEF IndexRight
    <3>3. arrays \in Seq(IndexEntryArrays)
      BY <1>0 DEF Types
    <3>4. QED
      BY <2>1, <3>1, <3>2, <3>3 DEF ArrayRight, TailRight, Written, At0, At
  <2>2. CASE enq.op = "bulk"
    <3>1. WriteEntry((Top + 1) * BlockSize, b)
      BY <1>5, <2>2 DEF TakeBlock
    <3>2. PICK k \in Nat : k = Top + 1
      BY <1>2
    <3>3. QED
      BY <1>0, <1>1, <1>8, <3>1, <3>2, WriteEntryStep
  <2>3. QED
    BY <1>7, <2>1, <2>2
<1>12. \A a \in 1..Len(arrays) : \A m : At(D, a, m)' = At(D, a, m)
  BY <1>11 DEF At
<1>13. PO_NextIndexEntry' \in Nat /\ (PO_NextIndexEntry = At(D, Len(arrays), NextNumber))'
  <2>1. CASE enq.op = "one"
    <3>1. PO_NextIndexEntry' = p
      BY <1>8, <2>1 DEF TakeBlock
    <3>2. NextNumber' = Top + 1
      BY <1>2, <1>5, <2>1 DEF NextNumber
    <3>3. QED
      BY <1>1, <1>8, <1>11, <1>12, <3>1, <3>2
  <2>2. CASE enq.op = "bulk"
    <3>1. PO_NextIndexEntry' = (p + 1) % S
      BY <1>1, <1>8, <2>2 DEF TakeBlock, FollowingEntry
    <3>2. NextNumber' = Top + 2
      BY <1>2, <1>5, <2>2 DEF NextNumber
    <3>8. PICK k \in Int : k = Top + 1
      BY <1>2
    <3>9. p = At(D, L, k) /\ At(D, L, k) \in Int /\ arrays[L].Size \in Nat /\ S = arrays[L].Size
      BY <1>1, <1>8, <3>8
    <3>10. 1 \in Int
      OBVIOUS
    <3>11. (At(D, L, k) + 1) % arrays[L].Size = At(D, L, k + 1)
      BY <1>0, <1>1, <3>9, <3>10, AtPlus
    <3>3. (p + 1) % S = At(D, L, k + 1)
      BY <3>9, <3>11
    <3>4. k + 1 = Top + 2
      BY <1>2, <3>8
    <3>5. (p + 1) % S = At(D, L, Top + 2)
      BY <3>3, <3>4
    <3>6. (p + 1) % S \in Nat
      <4>1. p + 1 \in Int
        BY <1>8
      <4>2. (p + 1) % S \in 0..(S - 1)
        BY <4>1, ModType
      <4>3. QED
        BY <4>2
    <3>7. QED
      BY <1>1, <1>11, <1>12, <3>1, <3>2, <3>5, <3>6
  <2>3. QED
    BY <1>7, <2>1, <2>2
<1>14. Current' = arrays'[L] /\ Current'.Size = S
  BY <1>1, <1>11 DEF Current
<1>15. ASSUME NEW m \in Window', ~Unstored(m)'
       PROVE  arrays'[L].Entries[At(D, L, m)] = Entry(m * BlockSize, E[m])
  <2>1. m \in Int /\ Low' <= m /\ m <= Top + 1
    BY <1>6
  <2>2. CASE m = Top + 1
    <3>1. enq.op = "bulk"
      <4>1. SUFFICES ASSUME enq.op = "one" PROVE FALSE
        BY <1>7
      <4>2. m > Last
        BY <1>2, <2>2
      <4>3. QED
        BY <1>5, <1>15, <4>1, <4>2 DEF Unstored
    <3>2. QED
      BY <1>8, <1>9, <1>11, <2>2, <3>1
  <2>3. CASE m # Top + 1
    <3>1. m \in Window
      BY <1>2, <1>6, <2>1, <2>3
    <3>2. At(D, L, m) \in At0(L)
      BY <1>0, <1>1, <2>1, AtType
    <3>3. At(D, L, m) # p
      <4>1. SUFFICES ASSUME At(D, L, m) = At(D, L, Top + 1) PROVE FALSE
        BY <1>8
      <4>2. PICK k \in Int : k = Top + 1
        BY <1>2
      <4>3. m - k < S /\ k - m < S
        BY <1>1, <1>2, <1>6, <2>1, <4>2
      <4>4. m = k
        BY <1>0, <1>1, <2>1, <4>1, <4>2, <4>3, AtEqual
      <4>5. QED
        BY <2>3, <4>2, <4>4
    <3>4. arrays'[L].Entries[At(D, L, m)] = arrays[L].Entries[At(D, L, m)]
      BY <1>1, <1>11, <3>2, <3>3
    <3>5. QED
      BY <1>1, <1>9, <1>10, <3>1, <3>4
  <2>4. QED
    BY <2>2, <2>3
<1>16. IndexRight(E, D)'
  <2>1. (Len(arrays) >= 1)' /\ (\A a \in 1..Len(arrays) : ArrayRight(D, a))'
    BY <1>1, <1>11
  <2>2. (PO_IndexEntriesUsed <= Current.Size)'
    BY <1>3, <1>14
  <2>3. \A m \in Window' : ~Unstored(m)' =>
          Current'.Entries[At(D, Len(arrays), m)'] = Entry(m * BlockSize, E[m])
    BY <1>1, <1>11, <1>12, <1>14, <1>15
  <2>4. TailIndex' > 0 \/ ppc' = "publish" => TailRight(Len(arrays))'
    <3>1. TailIndex' > 0 \/ ppc' = "publish" => TailIndex > 0
      BY <1>5
    <3>2. TailIndex > 0 => TailRight(L)
      BY <1>0, <1>1 DEF IndexRight
    <3>3. TailRight(L) => TailRight(L)'
      BY <1>1, <1>11
    <3>4. TailRight(L)' => TailRight(Len(arrays))'
      BY <1>1, <1>11 DEF TailRight, Written
    <3>5. QED
      BY <3>1, <3>2, <3>3, <3>4
  <2>5. QED
    BY <1>13, <2>1, <2>2, <2>3, <2>4 DEF IndexRight
<1>17. LookupsRight(E, D)'
  <2>1. \A m \in Window : m <= Last => E[m] = B[m]
    BY <1>9
  <2>2. ASSUME NEW a \in 1..Len(arrays), NEW m \in Window, m <= Last, ~AllDone(m)
        PROVE  arrays'[a].Entries[At(D, a, m)] = arrays[a].Entries[At(D, a, m)]
    <3>1. At(D, a, m) \in At0(a) /\ m \in Nat
      BY <1>0, <1>9, AtType
    <3>2. CASE a # L
      BY <1>11, <3>1, <3>2
    <3>3. CASE a = L
      <4>1. At(D, L, m) # p
        <5>1. SUFFICES ASSUME At(D, L, m) = At(D, L, Top + 1) PROVE FALSE
          BY <1>8
        <5>2. PICK k \in Int : k = Top + 1
          BY <1>2
        <5>3. ~(m < Low')
          <6>1. SUFFICES ASSUME m < Low' PROVE FALSE
            OBVIOUS
          <6>2. m < Top + 2 - PO_IndexEntriesUsed'
            BY <1>3, <1>6, <6>1
          <6>3. QED
            BY <2>2, <6>2
        <5>4. m - k < S /\ k - m < S
          BY <1>1, <1>2, <1>6, <3>1, <5>2, <5>3
        <5>5. m = k
          BY <1>0, <1>1, <3>1, <5>1, <5>2, <5>4, AtEqual
        <5>6. QED
          BY <1>9, <5>2, <5>5
      <4>2. QED
        BY <1>11, <3>1, <3>3, <4>1
    <3>4. QED
      BY <3>2, <3>3
  <2>3. Len(arrays') \in Nat /\ Len(arrays') >= Len(arrays)
    BY <1>1, <1>11
  <2>4. \A a \in 1..Len(arrays) :
          /\ D[a] = D[a] /\ arrays'[a].Size = arrays[a].Size /\ (TailRight(a) => TailRight(a)')
          /\ \A s \in At0(a) : Written(a, s) => Written(a, s)'
    BY <1>11
  <2>5. QED
    BY <2>1, <2>2, <2>3, <2>4, LookupsStay
<1>18. QED
  BY <1>3, <1>6, <1>11, <1>13, <1>16, <1>17

\* A block that is taken, given that it fits into the ring.
LEMMA TakeStep ==
  ASSUME NEW B \in Numbers, NEW D \in Offsets, Inv(B, D), NEW b \in Blocks,
         ppc \in {"block", "new"}, NEW again \in {"block", "new"}, TakeBlock(b, again),
         ConsumersStay, TailIndex' = TailIndex, Slots' = Slots,
         PO_IndexEntriesUsed' \in {PO_IndexEntriesUsed, PO_IndexEntriesUsed + 1},
         PO_IndexEntriesUsed' <= Current.Size,
         \A m \in Window : m < Top + 2 - PO_IndexEntriesUsed' => AllDone(m),
         NEW E \in Numbers, E = Taken(B, b),
         Next' \in [Blocks -> Blocks \union {NULL}], free' \subseteq free, RingRight(E)',
         \A j \in Places : Slots[b][j] = Raw
  PROVE  Inv(E, D)'
<1>0. /\ Types /\ ClaimsRight /\ CallRight(B) /\ RingRight(B) /\ IndexRight(B, D)
      /\ FlagsRight(B) /\ SlotsRight(B)
      /\ TailIndex \in Nat /\ Flags \in [Blocks -> SUBSET Places]
  BY DEF Inv, Numbering, Types
<1>1. PO_IndexEntriesUsed' \in Nat /\ PO_IndexEntriesUsed' >= PO_IndexEntriesUsed
  BY DEF Inv, Types
<1>2. /\ CallRight(E)' /\ Top' = Top + 1 /\ Last' = Last /\ enq' \in Enqs /\ ppc' \in {again, "fill"}
  BY <1>0, <1>1, TakeCall
<1>3. /\ IndexRight(E, D)' /\ LookupsRight(E, D)'
      /\ arrays' \in Seq(IndexEntryArrays) /\ PO_NextIndexEntry' \in Nat
      /\ Window' = Low'..(Top + 1) /\ Low' \in Int /\ Low' >= Low
  BY TakeIndex
<1>4. TailBlock' = b /\ Flags' = [Flags EXCEPT ![b] = {}]
  BY DEF TakeBlock
<1>5. UNCHANGED <<HeadIndex, pc, deq>>
  BY DEF ConsumersStay, consumers
<1>6. Flags' \in [Blocks -> SUBSET Places]
  BY <1>0, <1>4
<1>7. Types'
  <2>1. ppc' \in EnqueuePlaces
    BY <1>2 DEF EnqueuePlaces
  <2>2. free' \subseteq Blocks
    BY <1>0 DEF Types
  <2>3. QED
    BY <1>0, <1>1, <1>2, <1>3, <1>4, <1>5, <1>6, <2>1, <2>2 DEF Types
<1>8. /\ Top \in Int /\ Last \in Int /\ Low \in Int /\ 0 <= Low /\ Top >= Last /\ Window = Low..Top
      /\ E[Top + 1] = b /\ \A m \in Window : m \in Nat /\ m # Top + 1 /\ E[m] = B[m]
  BY <1>0, TopType, TakenIs, LowBound
<1>9. ASSUME NEW m \in Window', m # Top + 1
      PROVE  m \in Window /\ E[m] = B[m] /\ E[m] # b /\ E[m] \in Blocks \ free' /\ E[m] \in Blocks \ free
  <2>1. m \in Window
    BY <1>3, <1>8, <1>9
  <2>2. Top + 1 \in Window'
    BY <1>3, <1>8, <1>9
  <2>3. E[m] # E[Top + 1]
    BY <1>9, <2>2 DEF RingRight
  <2>4. E[m] \in Blocks \ free'
    BY DEF RingRight
  <2>5. E[m] \in Blocks \ free
    BY <1>0, <1>8, <2>1 DEF RingRight
  <2>6. QED
    BY <1>8, <2>1, <2>3, <2>4, <2>5
<1>10. ASSUME NEW i \in Items(Top + 1)
       PROVE  i \in Nat /\ ~Done(i)' /\ ~Stored(i)' /\ Inner(i) \in Places
  <2>0. PICK t \in Nat : t = Top + 1
    BY <1>0, TakenIs
  <2>1. i \in Nat /\ Num(i) = t /\ Inner(i) \in Places
    BY <1>10, <2>0, ItemsFinite, NumItems, NumType
  <2>2. ~Done(i)
    <3>1. t > Last
      BY <1>8, <2>0
    <3>2. QED
      BY <1>0, <1>8, <2>0, <2>1, <3>1, DoneGone
  <2>3. ~(i < TailIndex)
    <3>1. SUFFICES ASSUME i <= TailIndex - 1 PROVE FALSE
      BY <1>0, <2>1
    <3>2. Num(i) <= Last
      BY <1>0, <2>1, <3>1, NumMono DEF Last
    <3>3. QED
      BY <1>8, <2>0, <2>1, <3>2
  <2>4. ~Stored(i)'
    BY <1>2, <2>3 DEF Stored
  <2>5. QED
    BY <2>1, <2>2, <2>4, ClaimsStay
<1>11. FlagsRight(E)'
  <2>1. ASSUME NEW m \in Window'
        PROVE  Flags'[E[m]] = {Inner(i) : i \in {j \in Items(m) : Done(j)'}}
    <3>1. CASE m = Top + 1
      <4>1. Flags'[b] = {}
        BY <1>0, <1>4
      <4>2. {j \in Items(Top + 1) : Done(j)'} = {}
        BY <1>10
      <4>3. QED
        BY <1>8, <3>1, <4>1, <4>2
    <3>2. CASE m # Top + 1
      <4>1. PICK x \in Blocks : x = B[m] /\ x = E[m] /\ x # b /\ m \in Window
        BY <1>9, <3>2
      <4>2. Flags'[x] = Flags[x]
        BY <1>0, <1>4, <4>1
      <4>3. Flags[x] = {Inner(i) : i \in {j \in Items(m) : Done(j)}}
        BY <1>0, <4>1 DEF FlagsRight
      <4>4. QED
        BY <4>1, <4>2, <4>3, ClaimsStay
    <3>3. QED
      BY <3>1, <3>2
  <2>2. QED
    BY <2>1 DEF FlagsRight, Items
<1>12. SlotsRight(E)'
  <2>1. \A x \in free', j \in Places : Slots'[x][j] = Raw
    BY <1>0 DEF SlotsRight
  <2>2. ASSUME NEW m \in Window', NEW i \in Items(m)
        PROVE  Slots'[E[m]][Inner(i)] = IF Stored(i)' THEN i ELSE Raw
    <3>1. CASE m = Top + 1
      BY <1>8, <1>10, <3>1
    <3>2. CASE m # Top + 1
      <4>1. m \in Window /\ E[m] = B[m]
        BY <1>9, <3>2
      <4>2. Slots[B[m]][Inner(i)] = IF Stored(i) THEN i ELSE Raw
        BY <1>0, <4>1 DEF SlotsRight
      <4>3. Stored(i)' = Stored(i)
        BY <1>2, <1>5, ClaimsStay DEF Stored
      <4>4. QED
        BY <4>1, <4>2, <4>3
    <3>3. QED
      BY <3>1, <3>2
  <2>3. QED
    BY <2>1, <2>2 DEF SlotsRight, Items
<1>13. ppc' # "cleared" /\ ClaimsRight'
  BY <1>0, <1>2, ClaimsStay
<1>14. QED
  BY <1>2, <1>3, <1>7, <1>11, <1>12, <1>13 DEF Inv, Numbering

\* A block that was emptied is the first of the ring, and is the last from now on.
LEMMA ReuseBlockStep ==
  ASSUME NEW B \in Numbers, NEW D \in Offsets, Inv(B, D), ReuseBlock
  PROVE  \E E \in Numbers : Inv(E, D)'
<1>0. /\ Types /\ ClaimsRight /\ CallRight(B) /\ RingRight(B) /\ IndexRight(B, D)
      /\ FlagsRight(B) /\ SlotsRight(B) /\ ppc = "block" /\ PO_IndexEntriesUsed \in Nat
  BY DEF Inv, Numbering, ReuseBlock, Types
<1>1. /\ ConsumersStay /\ TailIndex' = TailIndex /\ Slots' = Slots /\ Next' = Next /\ free' = free
      /\ PO_IndexEntriesUsed' = PO_IndexEntriesUsed
      /\ TailBlock # NULL /\ IsEmpty(Next[TailBlock])
      /\ TakeBlock(Next[TailBlock], "block")
  BY DEF ReuseBlock, Reusable, ConsumersStay
<1>2. PICK t \in Nat, l \in Nat : /\ t = Top /\ l = Low /\ l <= t /\ Window = l..t
                                  /\ l = t - PO_IndexEntriesUsed + 1 /\ Last \in Int /\ Last <= t
                                  /\ TailBlock = B[t] /\ t \in Window /\ l \in Window
                                  /\ PO_IndexEntriesUsed >= 1
  <2>1. Top \in Int /\ Last \in Int /\ Top >= Last /\ Low \in Int /\ 0 <= Low /\ Window = Low..Top
        /\ Low = Top - PO_IndexEntriesUsed + 1
    BY <1>0, TopType, LowBound
  <2>2. ~(Top < 0)
    BY <1>0, <1>1 DEF RingRight
  <2>3. TailBlock = B[Top] /\ PO_IndexEntriesUsed >= 1
    BY <1>0, <2>1, <2>2 DEF RingRight
  <2>4. Low <= Top
    BY <1>0, <2>1, <2>3
  <2>5. QED
    BY <2>1, <2>2, <2>3, <2>4
<1>3. PICK b \in Blocks \ free : b = B[l] /\ b = Next[TailBlock] /\ Flags[b] = Places
  <2>1. Next[TailBlock] = B[l]
    BY <1>0, <1>2 DEF RingRight
  <2>2. B[l] \in Blocks \ free
    BY <1>0, <1>2 DEF RingRight
  <2>3. QED
    BY <1>1, <2>1, <2>2 DEF IsEmpty
<1>4. AllDone(l)
  <2>1. SUFFICES ASSUME NEW i \in Items(l) PROVE Done(i)
    BY DEF AllDone
  <2>2. i \in Int /\ Num(i) = l /\ Inner(i) \in Places
    BY ItemsFinite, NumItems, NumType
  <2>3. Places = {Inner(k) : k \in {n \in Items(l) : Done(n)}}
    BY <1>0, <1>2, <1>3 DEF FlagsRight
  <2>4. PICK k \in Items(l) : Done(k) /\ Inner(k) = Inner(i)
    BY <2>2, <2>3
  <2>5. k \in Int /\ Num(k) = l
    BY ItemsFinite, NumItems
  <2>6. i = k
    BY <2>2, <2>4, <2>5, InnerEqual
  <2>7. QED
    BY <2>4, <2>6
<1>5. \A j \in Places : Slots[b][j] = Raw
  <2>1. TAKE j \in Places
  <2>2. PICK i : i = l * BlockSize + j
    OBVIOUS
  <2>3. i \in Nat
    BY <2>2, BlockSizeIs DEF Places
  <2>4. Num(i) = l /\ Inner(i) = j
    BY <2>2, NumUnique
  <2>5. i \in Items(l)
    BY <2>3, <2>4, NumItems
  <2>6. Done(i)
    BY <1>4, <2>5 DEF AllDone
  <2>7. ~Stored(i)
    BY <1>0, <2>3, <2>6, DoneGone
  <2>8. QED
    BY <1>0, <1>2, <1>3, <2>4, <2>5, <2>7 DEF SlotsRight
<1>6. PICK E \in Numbers : E = Taken(B, b)
  BY <1>0, TakenIs
<1>7. /\ E[t + 1] = b /\ \A m \in Window : m \in Nat /\ m # t + 1 /\ E[m] = B[m]
  BY <1>0, <1>2, <1>6, TakenIs
<1>8. TakeBlock(b, "block")
  BY <1>1, <1>3
<1>9. Top' = t + 1 /\ Low' = l + 1 /\ Window' = (l + 1)..(t + 1)
  <2>1. Top' = Top + 1
    BY <1>0, <1>1, <1>6, <1>8, TakeCall
  <2>2. Low' = (t + 1) - PO_IndexEntriesUsed + 1
    BY <1>1, <1>2, <2>1 DEF Low
  <2>3. Low' = l + 1
    BY <1>0, <1>2, <2>2
  <2>4. QED
    BY <1>2, <2>1, <2>3 DEF Window
<1>10. RingRight(E)'
  <2>1. TailBlock' = b
    BY <1>8 DEF TakeBlock
  <2>2. \A m \in Window' : m \in Int /\ (m # t + 1 => m \in Window /\ m # l /\ E[m] = B[m])
    BY <1>2, <1>7, <1>9
  <2>3. \A m \in Window : m # l => m \in Window' /\ E[m] = B[m]
    BY <1>2, <1>7, <1>9
  <2>4. 0 <= Low' /\ (Top' >= 0 => PO_IndexEntriesUsed' >= 1)
    BY <1>1, <1>2, <1>9
  <2>5. TailBlock' = IF Top' < 0 THEN NULL ELSE E[Top']
    BY <1>2, <1>7, <1>9, <2>1
  <2>6. \A m \in Window' : E[m] \in Blocks \ free'
    BY <1>0, <1>1, <1>3, <1>7, <2>2 DEF RingRight
  <2>7. ASSUME NEW m \in Window', NEW n \in Window', E[m] = E[n] PROVE m = n
    <3>1. ASSUME NEW k \in Window', k # t + 1 PROVE E[k] # b
      <4>1. k \in Window /\ k # l /\ E[k] = B[k]
        BY <2>2, <3>1
      <4>2. B[k] # B[l]
        BY <1>0, <1>2, <4>1, RingOne
      <4>3. QED
        BY <1>3, <4>1, <4>2
    <3>2. CASE m # t + 1 /\ n # t + 1
      BY <1>0, <2>2, <2>7, <3>2, RingOne
    <3>3. CASE m = t + 1 \/ n = t + 1
      BY <1>7, <2>7, <3>1, <3>3
    <3>4. QED
      BY <3>2, <3>3
  <2>8. ASSUME NEW x \in Blocks \ free' PROVE \E m \in Window' : E[m] = x
    <3>1. PICK m \in Window : B[m] = x
      BY <1>0, <1>1 DEF RingRight
    <3>2. CASE m = l
      <4>1. t + 1 \in Window'
        BY <1>2, <1>9
      <4>2. QED
        BY <1>3, <1>7, <3>1, <3>2, <4>1
    <3>3. CASE m # l
      BY <2>3, <3>1, <3>3
    <3>4. QED
      BY <3>2, <3>3
  <2>9. ASSUME NEW m \in Low'..(Top' - 1) PROVE Next'[E[m]] = E[m + 1]
    <3>1. m \in Window /\ m \in Int /\ m <= t
      BY <1>2, <1>9
    <3>2. CASE m = t
      BY <1>1, <1>2, <1>3, <1>7, <3>2
    <3>3. CASE m # t
      <4>1. m \in Low..(Top - 1) /\ m + 1 \in Window
        BY <1>2, <3>1, <3>3
      <4>2. Next[B[m]] = B[m + 1]
        BY <1>0, <4>1 DEF RingRight
      <4>3. QED
        BY <1>1, <1>7, <3>1, <4>1, <4>2
    <3>4. QED
      BY <3>2, <3>3
  <2>10. Next'[E[Top']] = E[Low']
    <3>1. CASE l = t
      BY <1>1, <1>2, <1>3, <1>7, <1>9, <3>1
    <3>2. CASE l # t
      <4>1. l \in Low..(Top - 1) /\ l + 1 \in Window
        BY <1>2, <3>2
      <4>2. Next[B[l]] = B[l + 1]
        BY <1>0, <4>1 DEF RingRight
      <4>3. QED
        BY <1>1, <1>3, <1>7, <1>9, <4>1, <4>2
    <3>3. QED
      BY <3>1, <3>2
  <2>11. ASSUME NEW m \in 0..(Low' - 1) PROVE AllDone(m)'
    <3>1. AllDone(m)
      <4>1. m = l \/ m \in 0..(Low - 1)
        BY <1>2, <1>9
      <4>2. QED
        BY <1>0, <1>4, <4>1 DEF RingRight
    <3>2. QED
      BY <1>1, <3>1, ClaimsStay
  <2>12. QED
    BY <2>4, <2>5, <2>6, <2>7, <2>8, <2>9, <2>10, <2>11 DEF RingRight
<1>11. \A m \in Window : m < Top + 2 - PO_IndexEntriesUsed' => AllDone(m)
  <2>1. TAKE m \in Window
  <2>2. HAVE m < Top + 2 - PO_IndexEntriesUsed'
  <2>3. m = l
    BY <1>0, <1>1, <1>2, <2>2
  <2>4. QED
    BY <1>4, <2>3
<1>12. PO_IndexEntriesUsed' <= Current.Size
  BY <1>0, <1>1 DEF IndexRight
<1>13. Next' \in [Blocks -> Blocks \union {NULL}] /\ free' \subseteq free
  BY <1>0, <1>1 DEF Types
<1>14. Inv(E, D)'
  BY <1>0, <1>1, <1>5, <1>6, <1>8, <1>10, <1>11, <1>12, <1>13, TakeStep
<1>15. QED
  BY <1>14

\* A block of the manager goes to the end of the ring.
LEMMA RequisitionBlockStep ==
  ASSUME NEW B \in Numbers, NEW D \in Offsets, Inv(B, D), RequisitionBlock
  PROVE  \E E \in Numbers : Inv(E, D)'
<1>0. /\ Types /\ ClaimsRight /\ CallRight(B) /\ RingRight(B) /\ IndexRight(B, D)
      /\ FlagsRight(B) /\ SlotsRight(B) /\ ppc = "new"
      /\ Next \in [Blocks -> Blocks \union {NULL}] /\ free \subseteq Blocks
  BY DEF Inv, Numbering, RequisitionBlock, Types
<1>1. PICK b \in free : /\ b = (CHOOSE x \in free : TRUE) /\ b \in Blocks
  BY <1>0 DEF RequisitionBlock
<1>2. /\ ConsumersStay /\ TailIndex' = TailIndex /\ Slots' = Slots
      /\ PO_IndexEntriesUsed' = PO_IndexEntriesUsed + 1
      /\ PO_IndexEntriesUsed # Current.Size
      /\ free' = free \ {b} /\ TakeBlock(b, "new")
      /\ Next' = IF TailBlock = NULL
                 THEN [Next EXCEPT ![b] = b]
                 ELSE [Next EXCEPT ![b] = Next[TailBlock], ![TailBlock] = b]
  BY <1>1 DEF RequisitionBlock, IndexFull, ConsumersStay
<1>3. PICK v \in Nat, t \in Int, l \in Nat :
        /\ v = PO_IndexEntriesUsed /\ t = Top /\ l = Low /\ t >= -1 /\ Window = l..t
        /\ l = t - v + 1 /\ (t >= 0 => v >= 1) /\ l <= t + 1
        /\ TailBlock = (IF t < 0 THEN NULL ELSE B[t])
  <2>1. Top \in Int /\ Last \in Int /\ Top >= Last /\ Last >= -1 /\ Low \in Int /\ 0 <= Low /\ Window = Low..Top
        /\ Low = Top - PO_IndexEntriesUsed + 1 /\ PO_IndexEntriesUsed \in Nat
    BY <1>0, TopType, LowBound DEF Types
  <2>2. TailBlock = (IF Top < 0 THEN NULL ELSE B[Top]) /\ (Top >= 0 => PO_IndexEntriesUsed >= 1)
    BY <1>0 DEF RingRight
  <2>3. QED
    BY <2>1, <2>2
<1>4. PICK E \in Numbers : E = Taken(B, b)
  BY <1>0, <1>1, TakenIs
<1>5. /\ t + 1 \in Nat /\ E[t + 1] = b
      /\ \A m \in Window : m \in Nat /\ m # t + 1 /\ E[m] = B[m] /\ B[m] \in Blocks \ free /\ B[m] # b
  <2>1. \A m \in Window : B[m] \in Blocks \ free /\ B[m] # b
    BY <1>0, <1>1 DEF RingRight
  <2>2. QED
    BY <1>0, <1>1, <1>3, <1>4, <2>1, TakenIs
<1>6. Top' = t + 1 /\ Low' = l /\ Window' = l..(t + 1)
  <2>1. PO_IndexEntriesUsed' \in Nat /\ PO_IndexEntriesUsed' >= PO_IndexEntriesUsed
    BY <1>2, <1>3
  <2>2. Top' = Top + 1
    BY <1>0, <1>1, <1>2, <1>4, <2>1, TakeCall
  <2>3. Low' = (t + 1) - (v + 1) + 1
    BY <1>2, <1>3, <2>2 DEF Low
  <2>4. Low' = l
    BY <1>3, <2>3
  <2>5. QED
    BY <1>3, <2>2, <2>4 DEF Window
<1>7. /\ Next' \in [Blocks -> Blocks \union {NULL}]
      /\ t < 0 => Next'[b] = b
      /\ t >= 0 => Next'[b] = B[l] /\ Next'[B[t]] = b
      /\ \A x \in Blocks : x # b /\ x # TailBlock => Next'[x] = Next[x]
  <2>1. CASE t < 0
    <3>1. Next' = [Next EXCEPT ![b] = b]
      BY <1>2, <1>3, <2>1
    <3>2. QED
      BY <1>0, <1>1, <2>1, <3>1
  <2>2. CASE t >= 0
    <3>1. t \in Window
      BY <1>3, <2>2
    <3>2. PICK tb \in Blocks : tb = B[t] /\ tb = TailBlock /\ tb # b /\ tb # NULL
      BY <1>3, <1>5, <2>2, <3>1, FastQueueAssumption DEF FastQueueAssumption
    <3>3. Next[tb] = B[l]
      BY <1>0, <1>3, <2>2, <3>2 DEF RingRight
    <3>4. PICK nt \in Blocks \union {NULL} : nt = Next[tb]
      BY <1>0
    <3>5. Next' = [Next EXCEPT ![b] = nt, ![tb] = b]
      BY <1>2, <3>2, <3>4
    <3>6. Next' \in [Blocks -> Blocks \union {NULL}] /\ Next'[b] = nt /\ Next'[tb] = b
      BY <1>0, <1>1, <3>2, <3>5
    <3>7. \A x \in Blocks : x # b /\ x # tb => Next'[x] = Next[x]
      BY <1>0, <1>1, <3>5
    <3>8. ~(t < 0)
      BY <2>2
    <3>9. QED
      BY <3>2, <3>3, <3>4, <3>6, <3>7, <3>8
  <2>3. QED
    BY <1>3, <2>1, <2>2
<1>8. RingRight(E)'
  <2>1. TailBlock' = b
    BY <1>2 DEF TakeBlock
  <2>2. 0 <= Low' /\ (Top' >= 0 => PO_IndexEntriesUsed' >= 1)
    BY <1>2, <1>3, <1>6
  <2>3. TailBlock' = IF Top' < 0 THEN NULL ELSE E[Top']
    BY <1>5, <1>6, <2>1
  <2>4. t + 1 \in Window' /\ (\A m \in Window' : m \in Int /\ (m # t + 1 => m \in Window))
        /\ Window \subseteq Window'
    BY <1>3, <1>6
  <2>5. \A m \in Window' : E[m] \in Blocks \ free'
    BY <1>1, <1>2, <1>5, <2>4
  <2>6. \A m, n \in Window' : E[m] = E[n] => m = n
    <3>1. SUFFICES ASSUME NEW m \in Window', NEW n \in Window', E[m] = E[n] PROVE m = n
      OBVIOUS
    <3>2. CASE m \in Window /\ n \in Window
      BY <1>0, <1>5, <3>1, <3>2, RingOne
    <3>3. CASE m \notin Window \/ n \notin Window
      BY <1>5, <2>4, <3>1, <3>3
    <3>4. QED
      BY <3>2, <3>3
  <2>7. ASSUME NEW x \in Blocks \ free' PROVE \E m \in Window' : E[m] = x
    <3>1. CASE x = b
      BY <1>5, <2>4, <3>1
    <3>2. CASE x # b
      <4>1. x \in Blocks \ free
        BY <1>2, <3>2
      <4>2. PICK m \in Window : B[m] = x
        BY <1>0, <4>1 DEF RingRight
      <4>3. QED
        BY <1>5, <2>4, <4>2
    <3>3. QED
      BY <3>1, <3>2
  <2>8. ASSUME NEW m \in Low'..(Top' - 1) PROVE Next'[E[m]] = E[m + 1]
    <3>1. m \in Window /\ m \in Int /\ m <= t /\ t >= 0
      BY <1>3, <1>6
    <3>2. CASE m = t
      BY <1>5, <1>7, <3>1, <3>2
    <3>3. CASE m # t
      <4>1. m \in Low..(Top - 1) /\ m + 1 \in Window /\ t \in Window
        BY <1>3, <3>1, <3>3
      <4>2. Next[B[m]] = B[m + 1]
        BY <1>0, <4>1 DEF RingRight
      <4>3. B[m] # B[t]
        BY <1>0, <3>1, <3>3, <4>1, RingOne
      <4>4. B[m] # TailBlock /\ B[m] # b /\ B[m] \in Blocks
        BY <1>3, <1>5, <3>1, <4>3
      <4>5. Next'[B[m]] = B[m + 1]
        BY <1>7, <4>2, <4>4
      <4>6. QED
        BY <1>5, <3>1, <4>1, <4>5
    <3>4. QED
      BY <3>2, <3>3
  <2>9. Next'[E[Top']] = E[Low']
    <3>1. CASE t < 0
      <4>1. l = t + 1
        BY <1>3, <3>1
      <4>2. QED
        BY <1>5, <1>6, <1>7, <3>1, <4>1
    <3>2. CASE t >= 0
      <4>1. l \in Window
        BY <1>3, <3>2
      <4>2. QED
        BY <1>5, <1>6, <1>7, <3>2, <4>1
    <3>3. QED
      BY <1>3, <3>1, <3>2
  <2>10. \A m \in 0..(Low' - 1) : AllDone(m)'
    BY <1>0, <1>2, <1>3, <1>6, ClaimsStay DEF RingRight
  <2>11. QED
    BY <2>2, <2>3, <2>5, <2>6, <2>7, <2>8, <2>9, <2>10 DEF RingRight
<1>9. \A m \in Window : m < Top + 2 - PO_IndexEntriesUsed' => AllDone(m)
  <2>1. Top + 2 - PO_IndexEntriesUsed' = l
    BY <1>2, <1>3
  <2>2. \A m \in Window : ~(m < l)
    BY <1>3
  <2>3. QED
    BY <2>1, <2>2
<1>10. PO_IndexEntriesUsed' <= Current.Size
  <2>1. PICK S \in Nat : S = Current.Size
    BY <1>0, ArrayIs
  <2>2. v <= S /\ v # S
    BY <1>0, <1>2, <1>3, <2>1 DEF IndexRight
  <2>3. v + 1 <= S
    BY <2>2
  <2>4. QED
    BY <1>2, <1>3, <2>1, <2>3
<1>11. \A j \in Places : Slots[b][j] = Raw
  BY <1>0, <1>1 DEF SlotsRight
<1>12. free' \subseteq free
  BY <1>2
<1>13. Inv(E, D)'
  BY <1>0, <1>1, <1>2, <1>4, <1>7, <1>8, <1>9, <1>10, <1>11, <1>12, TakeStep
<1>14. QED
  BY <1>13

-----------------------------------------------------------------------------
(* A new array for the index. *)

\* The entry in use at place k is that of the k-th block of the ring.
LEMMA UsedEntryIs ==
  ASSUME NEW B \in Numbers, NEW D \in Offsets, Inv(B, D), NextNumber = Top + 1,
         \A m \in Window : ~Unstored(m), NEW k \in 0..(PO_IndexEntriesUsed - 1)
  PROVE  /\ Low + k \in Window /\ Low + k \in Nat
         /\ UsedEntry(k) = Entry((Low + k) * BlockSize, B[Low + k])
<1>0. /\ Types /\ ClaimsRight /\ CallRight(B) /\ RingRight(B) /\ IndexRight(B, D)
  BY DEF Inv, Numbering
<1>1. PICK L \in Nat, S \in Nat \ {0} : L = Len(arrays) /\ L \in 1..Len(arrays) /\ S = arrays[L].Size
                                        /\ Current = arrays[L] /\ S = Current.Size
  BY <1>0, ArrayIs
<1>2. PICK v \in Nat, t \in Int, l \in Nat : v = PO_IndexEntriesUsed /\ t = Top /\ l = Low /\ Window = l..t
                                             /\ l = t - v + 1
  <2>1. Top \in Int /\ Low \in Int /\ 0 <= Low
    BY <1>0, TopType, LowBound
  <2>2. PO_IndexEntriesUsed \in Nat
    BY <1>0 DEF Types
  <2>3. Window = Low..Top /\ Low = Top - PO_IndexEntriesUsed + 1
    BY DEF Window, Low
  <2>4. Low \in Nat
    BY <2>1
  <2>5. QED
    BY <2>1, <2>2, <2>3, <2>4
<1>3. k \in 0..(v - 1)
  BY <1>2
<1>4. PICK m \in Nat : m = l + k /\ m \in Window
  BY <1>2, <1>3
<1>5. PICK x \in Int : x = D[L]
  BY <1>1 DEF Offsets
<1>6. PO_NextIndexEntry = (x + (t + 1)) % S
  BY <1>0, <1>1, <1>2, <1>5 DEF IndexRight, At
<1>7. PICK y \in Int, z \in Int : y = x + (t + 1) /\ z = k - v
  BY <1>2, <1>3, <1>5
<1>8. ((y % S) + z) % S = (y + z) % S
  BY ModPlus
<1>9. y + z = x + m
  BY <1>2, <1>3, <1>4, <1>7
<1>10. y % S \in Int /\ PO_NextIndexEntry = y % S
  BY <1>6, <1>7, ModType
<1>11. (PO_NextIndexEntry - PO_IndexEntriesUsed + k) = (y % S) + z
  BY <1>2, <1>3, <1>7, <1>10
<1>12. (PO_NextIndexEntry - PO_IndexEntriesUsed + k) % S = (x + m) % S
  BY <1>8, <1>9, <1>11
<1>13. UsedEntry(k) = Current.Entries[At(D, L, m)]
  BY <1>1, <1>5, <1>12 DEF UsedEntry, At
<1>14. Current.Entries[At(D, L, m)] = Entry(m * BlockSize, B[m])
  BY <1>0, <1>1, <1>4 DEF IndexRight
<1>15. QED
  BY <1>2, <1>4, <1>13, <1>14

\* A new array has the entries in use, from its first place on.
LEMMA GrowIndexStep ==
  ASSUME NEW B \in Numbers, NEW D \in Offsets, Inv(B, D), GrowIndex
  PROVE  \E F \in Offsets : Inv(B, F)'
<1>0. /\ Types /\ ClaimsRight /\ CallRight(B) /\ RingRight(B) /\ IndexRight(B, D)
      /\ FlagsRight(B) /\ SlotsRight(B) /\ ppc = "new"
      /\ enq \in Enqs /\ PO_IndexEntriesUsed \in Nat /\ TailIndex \in Nat
  BY DEF Inv, Numbering, GrowIndex, Types
<1>1. PICK L \in Nat, S \in Nat \ {0, 1} : L = Len(arrays) /\ L \in 1..Len(arrays) /\ S = arrays[L].Size
                                           /\ Current = arrays[L] /\ S = Current.Size
                                           /\ S = PO_IndexEntriesUsed
  BY <1>0, ArrayIs DEF GrowIndex, IndexFull
<1>2. PICK t \in Int, l \in Nat : t = Top /\ l = Low /\ Window = l..t /\ l = t - S + 1
  BY <1>0, <1>1, TopType, LowBound
<1>3. /\ ConsumersStay /\ UNCHANGED <<HeadIndex, TailIndex, TailBlock, PO_IndexEntriesUsed, ppc,
                                      Next, Flags, Slots, free, pc, deq>>
      /\ PO_NextIndexEntry' = S
      /\ enq' = [enq EXCEPT !.OriginNext = enq.OriginUsed]
  BY <1>1 DEF GrowIndex, CreateNewBlockIndexArray, ConsumersStay, consumers, blockVars
<1>4. PICK filled \in Nat : /\ filled = IF enq.op = "one" THEN PO_IndexEntriesUsed ELSE enq.OriginUsed
                            /\ filled <= S /\ (TailIndex > 0 => filled >= 1)
  <2>1. enq.OriginUsed \in Nat /\ enq.OriginUsed <= S /\ (TailIndex > 0 => enq.OriginUsed >= 1)
    BY <1>0, <1>1 DEF CallRight, Enqs
  <2>2. QED
    BY <1>1, <2>1
<1>5. PICK junk \in Junk : arrays' = Append(arrays,
        NewArray(2 * S, [k \in 0..(S - 1) |-> UsedEntry(k)], S, filled, junk))
  BY <1>1, <1>4 DEF GrowIndex, CreateNewBlockIndexArray
<1>6. PICK r : r = NewArray(2 * S, [k \in 0..(S - 1) |-> UsedEntry(k)], S, filled, junk)
  OBVIOUS
<1>7. /\ r.Size = 2 * S /\ r.Tail = filled - 1
      /\ r.Entries = [k \in 0..(2 * S - 1) |-> IF k < S THEN UsedEntry(k) ELSE Entry(junk, NULL)]
      /\ r = [Size |-> r.Size, Tail |-> r.Tail, Entries |-> r.Entries]
  <2>1. PICK es : es = [k \in 0..(S - 1) |-> UsedEntry(k)]
    OBVIOUS
  <2>2. /\ r.Size = 2 * S /\ r.Tail = filled - 1
        /\ r.Entries = [k \in 0..(2 * S - 1) |-> IF k < S THEN es[k] ELSE Entry(junk, NULL)]
        /\ r = [Size |-> r.Size, Tail |-> r.Tail, Entries |-> r.Entries]
    BY <1>6, <2>1 DEF NewArray
  <2>3. \A k \in 0..(2 * S - 1) : k < S => es[k] = UsedEntry(k)
    BY <2>1
  <2>4. QED
    BY <2>2, <2>3
<1>8. ASSUME NEW k \in 0..(2 * S - 1), k < S
      PROVE  /\ l + k \in Window /\ l + k \in Nat
             /\ r.Entries[k] = Entry((l + k) * BlockSize, B[l + k])
  <2>1. NextNumber = Top + 1 /\ \A m \in Window : ~Unstored(m)
    BY <1>0 DEF NextNumber, Unstored
  <2>2. k \in 0..(PO_IndexEntriesUsed - 1)
    BY <1>1, <1>8
  <2>3. r.Entries[k] = UsedEntry(k)
    BY <1>7, <1>8
  <2>4. QED
    BY <1>2, <2>1, <2>2, <2>3, UsedEntryIs
<1>9. ASSUME NEW k \in 0..(2 * S - 1), ~(k < S) PROVE r.Entries[k] = Entry(junk, NULL)
  BY <1>7, <1>9
<1>10. r \in IndexEntryArrays /\ r.Entries \in [0..(2 * S - 1) -> IndexEntries]
  <2>1. ASSUME NEW k \in 0..(2 * S - 1) PROVE r.Entries[k] \in IndexEntries
    <3>1. CASE k < S
      <4>1. PICK m \in Nat : m = l + k /\ m \in Window /\ r.Entries[k] = Entry(m * BlockSize, B[m])
        BY <1>8, <3>1
      <4>2. B[m] \in Blocks /\ m * BlockSize \in Int
        BY <1>0, <4>1, BlockSizeIs DEF RingRight
      <4>3. QED
        BY <4>1, <4>2 DEF Entry, IndexEntries
    <3>2. CASE ~(k < S)
      BY <1>9, <3>2 DEF Entry, IndexEntries
    <3>3. QED
      BY <3>1, <3>2
  <2>2. r.Entries \in [0..(2 * S - 1) -> IndexEntries]
    <3>1. r.Entries = [k \in 0..(2 * S - 1) |-> r.Entries[k]]
      BY <1>7
    <3>2. QED
      BY <2>1, <3>1
  <2>3. r.Size \in Nat /\ r.Tail \in Int /\ 2 * S \in Nat
    BY <1>7
  <2>4. r.Entries \in UNION {[0..(n - 1) -> IndexEntries] : n \in Nat}
    BY <2>2, <2>3
  <2>5. QED
    BY <1>7, <2>2, <2>3, <2>4 DEF IndexEntryArrays
<1>11. /\ arrays' \in Seq(IndexEntryArrays) /\ Len(arrays') = L + 1 /\ arrays'[L + 1] = r
       /\ \A a \in 1..L : arrays'[a] = arrays[a]
  <2>1. arrays \in Seq(IndexEntryArrays)
    BY <1>0 DEF Types
  <2>2. arrays' = Append(arrays, r)
    BY <1>5, <1>6
  <2>3. QED
    BY <1>1, <1>10, <2>1, <2>2
<1>12. PICK F \in Offsets : F = [D EXCEPT ![L + 1] = -l]
  <2>1. PICK z \in Int : z = -l
    BY <1>2
  <2>2. PICK F : F = [D EXCEPT ![L + 1] = z]
    OBVIOUS
  <2>3. F \in Offsets
    BY <2>2 DEF Offsets
  <2>4. QED
    BY <2>1, <2>2, <2>3
<1>13. F[L + 1] = -l /\ \A a \in 1..L : F[a] = D[a] /\ a # L + 1
  BY <1>1, <1>12 DEF Offsets
<1>14. /\ Len(arrays)' = L + 1 /\ Current' = r
       /\ \A a \in 1..L : ArrayRight(F, a)' = ArrayRight(D, a) /\ TailRight(a)' = TailRight(a)
                          /\ \A s : Written(a, s)' = Written(a, s)
  BY SMTT(60), <1>11, <1>13 DEF Current, ArrayRight, TailRight, Written, At, At0
<1>15. /\ Top' = Top /\ Last' = Last /\ Low' = Low /\ Window' = Window
       /\ NextNumber' = Top + 1 /\ \A m : ~Unstored(m)'
  <2>1. enq'.op = enq.op /\ enq'.Base = enq.Base
    BY <1>0, <1>3 DEF Enqs
  <2>2. Top' = Top /\ Last' = Last
    BY <1>3, <2>1 DEF Top, Last
  <2>3. Low' = Low /\ Window' = Window
    BY <1>3, <2>2 DEF Low, Window
  <2>4. NextNumber' = Top + 1 /\ \A m : ~Unstored(m)'
    BY <1>0, <1>3, <2>2 DEF NextNumber, Unstored
  <2>5. QED
    BY <2>2, <2>3, <2>4
<1>16. enq' \in Enqs /\ CallRight(B)'
  <2>1. enq' \in Enqs
    BY <1>0, <1>3 DEF Enqs
  <2>2. /\ enq'.op = enq.op /\ enq'.Count = enq.Count /\ enq'.Mode = enq.Mode
        /\ enq'.Need = enq.Need /\ enq'.Base = enq.Base /\ enq'.StartBlock = enq.StartBlock
        /\ enq'.FirstAllocatedBlock = enq.FirstAllocatedBlock /\ enq'.OriginUsed = enq.OriginUsed
        /\ enq'.OriginNext = enq.OriginUsed
    BY <1>0, <1>3 DEF Enqs
  <2>3. Top = Last => enq.OriginUsed = S
    BY <1>0, <1>1 DEF CallRight
  <2>4. QED
    BY <1>0, <1>1, <1>3, <1>15, <2>1, <2>2, <2>3 DEF CallRight
<1>17. ASSUME NEW m \in Int, l <= m, m <= t + 1
       PROVE  At(F, L + 1, m)' = m - l /\ m - l \in 0..(2 * S - 1) /\ (m <= t => m - l < S)
  <2>1. At(F, L + 1, m)' = (-l + m) % (2 * S)
    BY <1>7, <1>11, <1>13 DEF At
  <2>2. PICK x \in Int, y \in Nat \ {0} : x = m - l /\ x = -l + m /\ y = 2 * S
    OBVIOUS
  <2>3. x \in 0..(y - 1) /\ (m <= t => x < S)
    BY <1>2, <1>17, <2>2
  <2>4. x % y = x
    BY <2>3, ModSmall
  <2>5. QED
    BY <2>1, <2>2, <2>3, <2>4
<1>18. ArrayRight(F, L + 1)'
  <2>1. (arrays[L + 1].Size >= 2 /\ -1 <= arrays[L + 1].Tail /\ arrays[L + 1].Tail < arrays[L + 1].Size)'
    BY <1>4, <1>7, <1>11
  <2>2. At0(L + 1)' = 0..(2 * S - 1)
    BY <1>7, <1>11 DEF At0
  <2>3. (arrays[L + 1].Entries \in [At0(L + 1) -> IndexEntries])'
    BY <1>10, <1>11, <2>2
  <2>4. ASSUME NEW s \in 0..(2 * S - 1), Written(L + 1, s)'
        PROVE  \E m \in Nat : r.Entries[s].Base = m * BlockSize /\ s = At(F, L + 1, m)'
    <3>1. s < S
      <4>1. SUFFICES ASSUME ~(s < S) PROVE FALSE
        OBVIOUS
      <4>2. r.Entries[s] = Entry(junk, NULL)
        BY <1>9, <4>1
      <4>3. QED
        BY <1>11, <2>4, <4>2 DEF Written, Entry
    <3>2. PICK m \in Nat : m = l + s /\ m \in Window /\ r.Entries[s] = Entry(m * BlockSize, B[m])
      BY <1>8, <3>1
    <3>3. l <= m /\ m <= t + 1 /\ m - l = s
      BY <1>2, <3>2
    <3>4. At(F, L + 1, m)' = m - l
      BY <1>17, <3>3
    <3>5. r.Entries[s].Base = m * BlockSize
      BY <3>2 DEF Entry
    <3>6. QED
      BY <3>3, <3>4, <3>5
  <2>5. QED
    BY <1>11, <2>1, <2>2, <2>3, <2>4 DEF ArrayRight
<1>19. IndexRight(B, F)'
  <2>1. (Len(arrays) >= 1)'
    BY <1>14
  <2>2. (\A a \in 1..Len(arrays) : ArrayRight(F, a))'
    <3>1. \A a \in 1..L : ArrayRight(D, a)
      BY <1>0, <1>1 DEF IndexRight
    <3>2. \A a \in 1..(L + 1) : a \in 1..L \/ a = L + 1
      OBVIOUS
    <3>3. \A a \in 1..(L + 1) : ArrayRight(F, a)'
      BY <1>14, <1>18, <3>1, <3>2
    <3>4. QED
      BY <1>14, <3>3
  <2>3. (PO_IndexEntriesUsed <= Current.Size)'
    BY <1>1, <1>3, <1>7, <1>14
  <2>4. ASSUME NEW m \in Window
        PROVE  r.Entries[At(F, L + 1, m)'] = Entry(m * BlockSize, B[m])
    <3>1. m \in Int /\ l <= m /\ m <= t
      BY <1>2
    <3>2. PICK s \in 0..(2 * S - 1) : s = At(F, L + 1, m)' /\ s = m - l /\ s < S
      BY <1>17, <3>1
    <3>3. l + s = m
      BY <3>1, <3>2
    <3>4. QED
      BY <1>8, <3>2, <3>3
  <2>5. (PO_NextIndexEntry = At(F, Len(arrays), NextNumber))'
    <3>1. PICK k \in Int : k = t + 1 /\ l <= k /\ k <= t + 1 /\ k - l = S
      BY <1>1, <1>2
    <3>2. At(F, L + 1, k)' = S
      BY <1>17, <3>1
    <3>3. QED
      BY <1>2, <1>3, <1>14, <1>15, <3>1, <3>2
  <2>6. (TailIndex > 0 \/ ppc = "publish" => TailRight(Len(arrays)))'
    <3>1. SUFFICES ASSUME TailIndex > 0 PROVE TailRight(L + 1)'
      BY <1>0, <1>3, <1>14
    <3>2. PICK s \in 0..(2 * S - 1) : s = r.Tail /\ s < S /\ s >= 0
      BY <1>4, <1>7, <3>1
    <3>3. PICK m \in Nat : m = l + s /\ m \in Window /\ r.Entries[s] = Entry(m * BlockSize, B[m])
      BY <1>8, <3>2
    <3>4. B[m] # NULL
      <4>1. B[m] \in Blocks
        BY <1>0, <3>3 DEF RingRight
      <4>2. QED
        BY <4>1, FastQueueAssumption DEF FastQueueAssumption
    <3>5. r.Entries[s].InnerBlock # NULL
      BY <3>3, <3>4 DEF Entry
    <3>6. QED
      BY <1>11, <3>2, <3>5 DEF TailRight, Written
  <2>7. QED
    BY <1>14, <1>15, <2>1, <2>2, <2>3, <2>4, <2>5, <2>6 DEF IndexRight
<1>20. LookupsRight(B, F)'
  <2>1. Len(arrays') \in Nat /\ Len(arrays') >= Len(arrays)
    BY <1>1, <1>11
  <2>2. \A a \in 1..Len(arrays) :
          /\ F[a] = D[a] /\ arrays'[a].Size = arrays[a].Size /\ (TailRight(a) => TailRight(a)')
          /\ \A s \in At0(a) : Written(a, s) => Written(a, s)'
    BY <1>1, <1>11, <1>13, <1>14
  <2>3. \A a \in 1..Len(arrays), m \in Window : m <= Last /\ ~AllDone(m)
          => arrays'[a].Entries[At(D, a, m)] = arrays[a].Entries[At(D, a, m)]
    BY <1>1, <1>11
  <2>4. QED
    BY <1>3, <2>1, <2>2, <2>3, LookupsStay
<1>21. RingRight(B)' /\ FlagsRight(B)'
  BY <1>0, <1>3, <1>15, ClaimsStay DEF RingRight, FlagsRight, Items
<1>22. SlotsRight(B)'
  <2>1. \A i : Stored(i)' = Stored(i)
    BY <1>0, <1>3, ClaimsStay DEF Stored
  <2>2. QED
    BY <1>0, <1>3, <1>15, <2>1 DEF SlotsRight, Items
<1>23. Types'
  BY <1>0, <1>3, <1>11, <1>16 DEF Types
<1>24. Inv(B, F)'
  BY <1>0, <1>3, <1>16, <1>19, <1>20, <1>21, <1>22, <1>23, ClaimsStay DEF Inv, Numbering
<1>25. QED
  BY <1>12, <1>24

-----------------------------------------------------------------------------
(* The items of the call. *)

\* The k-th item of the call goes to the place of its index.
LEMMA FillPlaceIs ==
  ASSUME NEW B \in Numbers, NEW D \in Offsets, Inv(B, D), ppc = "fill", NEW k \in 0..(enq.Count - 1)
  PROVE  /\ TailIndex + k \in Nat /\ Num(TailIndex + k) \in Window /\ Num(TailIndex + k) \in Nat
         /\ FillPlace(k) = <<B[Num(TailIndex + k)], Inner(TailIndex + k)>>
<1>0. Types /\ ClaimsRight /\ CallRight(B) /\ RingRight(B)
  BY DEF Inv, Numbering
<1>1. PICK T \in Nat, n \in Nat : T = TailIndex /\ n = enq.Count /\ n >= 1 /\ k \in 0..(n - 1)
                                  /\ HeadIndex <= T /\ HeadIndex \in Nat
  BY <1>0 DEF Types, Enqs, CallRight
<1>2. PICK i \in Nat : i = T + k /\ i >= T /\ i <= T + n - 1 /\ i >= HeadIndex
  BY <1>1
<1>3. PICK t \in Int, l \in Int, a \in Int : t = Top /\ l = Low /\ a = Last /\ Window = l..t /\ a = Num(T - 1)
                                /\ t >= a
  BY <1>0, <1>1, TopType DEF Last
<1>4. t = Num(T + n - 1)
  <2>1. enq.Need = Num(T + n - 1) - Top /\ enq.Need = 0
    BY <1>0, <1>1 DEF CallRight
  <2>2. Num(T + n - 1) \in Int
    BY <1>1, NumType
  <2>3. QED
    BY <1>3, <2>1, <2>2
<1>5. PICK s \in Nat, m \in Nat : s = Num(T) /\ m = Num(i) /\ s <= m /\ m <= t
  BY <1>1, <1>2, <1>4, NumType, NumMono
<1>6. s \in Window /\ m \in Window
  <2>1. T >= HeadIndex /\ Num(T) <= Top /\ Num(i) <= Top
    BY <1>1, <1>3, <1>5
  <2>2. QED
    BY <1>0, <1>1, <1>2, <1>5, <2>1, UnclaimedInWindow
<1>7. (IF Inner(T) = 0 /\ enq.FirstAllocatedBlock # NULL
       THEN enq.FirstAllocatedBlock ELSE enq.StartBlock) = B[s]
  <2>1. enq.op # "none" /\ (enq.FirstAllocatedBlock = NULL <=> t = a)
    BY <1>0, <1>3, LowBound DEF CallRight
  <2>2. enq.StartBlock = (IF T = 0 THEN NULL ELSE B[a])
        /\ enq.FirstAllocatedBlock = (IF t = a THEN NULL ELSE B[a + 1])
    BY <1>0, <1>1, <1>3 DEF CallRight
  <2>3. CASE Inner(T) = 0
    <3>1. a = s - 1
      BY <1>1, <1>3, <1>5, <2>3, NumBefore
    <3>2. t # a /\ a + 1 = s
      BY <1>5, <3>1
    <3>3. QED
      BY <2>1, <2>2, <2>3, <3>2
  <2>4. CASE Inner(T) # 0
    <3>1. a = s
      BY <1>1, <1>3, <1>5, <2>4, NumBefore
    <3>2. T # 0
      BY <1>1, <1>3, <1>5, <3>1, TopType, <1>0
    <3>3. QED
      BY <2>2, <2>4, <3>1, <3>2
  <2>5. QED
    BY <2>3, <2>4
<1>8. PICK h \in Nat : h = m - s /\ (Inner(T) + k) \div BlockSize = h
  <2>1. (Inner(T) + k) \div BlockSize = Num(T + k) - Num(T)
    BY <1>1, NumAhead
  <2>2. QED
    BY <1>2, <1>5, <2>1
<1>9. Hop(B[s], h) = B[m]
  <2>1. PICK p : p = [j \in 0..h |-> B[s + j]]
    OBVIOUS
  <2>2. p = [j \in 0..h |-> p[j]]
    BY <2>1
  <2>3. p[0] = B[s] /\ p[h] = B[m]
    <3>1. s + 0 = s /\ s + h = m /\ 0 \in 0..h /\ h \in 0..h
      BY <1>5, <1>8
    <3>2. QED
      BY <2>1, <3>1
  <2>4. ASSUME NEW j \in 1..h PROVE p[j] = Next[p[j - 1]]
    <3>1. PICK x \in Int : x = s + (j - 1) /\ x \in Low..(Top - 1)
      BY SMTT(60), <1>3, <1>5, <1>6, <1>8
    <3>2. Next[B[x]] = B[x + 1]
      BY <1>0, <3>1 DEF RingRight
    <3>3. x + 1 = s + j
      BY <1>5, <3>1
    <3>4. p[j - 1] = B[x] /\ p[j] = B[s + j]
      BY <1>8, <2>1, <3>1
    <3>5. QED
      BY <3>2, <3>3, <3>4
  <2>5. \A j \in 1..h : p[j] = Next[p[j - 1]]
    BY <2>4
  <2>6. PICK b : b = B[s] /\ p[0] = b
    BY <2>3
  <2>7. h \in Nat
    BY <1>8
  <2>8. Hop(b, h) = p[h]
    BY ZenonT(60), <2>2, <2>5, <2>6, <2>7, HopPath
  <2>9. QED
    BY <2>3, <2>6, <2>8
<1>10. FillBlock(k) = B[m]
  BY <1>1, <1>7, <1>8, <1>9 DEF FillBlock
<1>11. QED
  BY <1>1, <1>2, <1>5, <1>6, <1>10 DEF FillPlace

\* The new items are stored, in slots without one.
LEMMA ConstructSlots ==
  ASSUME NEW B \in Numbers, NEW D \in Offsets, Inv(B, D), Construct
  PROVE  /\ Slots' \in [Blocks -> [Places -> 0..(MaxTail - 1) \union {Raw, Bad}]]
         /\ \A b \in free, j \in Places : Slots'[b][j] = Raw
         /\ \A m \in Window : \A i \in Items(m) :
              Slots'[B[m]][Inner(i)] = IF Stored(i)' THEN i ELSE Raw
<1>0. /\ Types /\ ClaimsRight /\ CallRight(B) /\ RingRight(B) /\ SlotsRight(B) /\ ppc = "fill"
      /\ ppc' \in {"entry", "publish"} /\ HeadIndex' = HeadIndex /\ TailIndex' = TailIndex /\ enq' = enq
      /\ ConsumersStay
  BY DEF Inv, Numbering, Construct, ConsumersStay
<1>1. PICK T \in Nat, n \in Nat : T = TailIndex /\ n = enq.Count /\ n >= 1 /\ T + n <= MaxTail
                                  /\ HeadIndex <= T /\ HeadIndex \in Nat /\ MaxTail \in Nat
  BY <1>0, FastQueueAssumption DEF Types, Enqs, CallRight, FastQueueAssumption
<1>2. Slots' = [b \in Blocks |-> [j \in Places |->
                IF \E k \in 0..(n - 1) : FillPlace(k) = <<b, j>>
                THEN Constructed(b, j, CHOOSE x \in T..(T + n - 1) : FillPlace(x - T) = <<b, j>>)
                ELSE Slots[b][j]]]
  <2>1. \A b : ~Overrun(b)
    BY <1>1 DEF Overrun
  <2>2. QED
    BY <1>1, <2>1 DEF Construct
<1>3. ASSUME NEW k \in 0..(n - 1)
      PROVE  /\ T + k \in Nat /\ Num(T + k) \in Window /\ Num(T + k) \in Nat
             /\ FillPlace(k) = <<B[Num(T + k)], Inner(T + k)>>
  BY <1>0, <1>1, FillPlaceIs
<1>4. ASSUME NEW k \in 0..(n - 1), NEW i \in Int, NEW m \in Window, i \in Items(m),
             FillPlace(k) = <<B[m], Inner(i)>>
      PROVE  i = T + k
  <2>1. B[Num(T + k)] = B[m] /\ Inner(T + k) = Inner(i)
    BY <1>3, <1>4
  <2>2. Num(T + k) = m
    BY <1>0, <1>3, <2>1, RingOne
  <2>3. m \in Int
    BY <1>0, TopType
  <2>4. Num(i) = m
    BY <1>4, <2>3, NumItems
  <2>5. T + k \in Int
    BY <1>3
  <2>6. QED
    BY <2>1, <2>2, <2>4, <2>5, InnerEqual
<1>5. ASSUME NEW k \in 0..(n - 1)
      PROVE  Slots'[B[Num(T + k)]][Inner(T + k)] = T + k
  <2>1. PICK i \in Nat, m \in Nat : i = T + k /\ m = Num(i) /\ m \in Window /\ i \in T..(T + n - 1)
                                    /\ FillPlace(k) = <<B[m], Inner(i)>>
    BY <1>1, <1>3
  <2>2. PICK b \in Blocks, j \in Places : b = B[m] /\ j = Inner(i)
    BY <1>0, <2>1, NumType DEF RingRight
  <2>3. i - T = k /\ i \in Items(m)
    BY <2>1, NumItems
  <2>4. (CHOOSE x \in T..(T + n - 1) : FillPlace(x - T) = <<b, j>>) = i
    <3>1. FillPlace(i - T) = <<b, j>>
      BY <2>1, <2>2, <2>3
    <3>2. ASSUME NEW x \in T..(T + n - 1), FillPlace(x - T) = <<b, j>> PROVE x = i
      <4>1. PICK y \in 0..(n - 1) : y = x - T /\ x = T + y
        BY <1>1
      <4>2. FillPlace(y) = <<B[m], Inner(i)>>
        BY <2>2, <3>2, <4>1
      <4>3. QED
        BY <1>4, <2>1, <2>3, <4>1, <4>2
    <3>3. QED
      BY <2>1, <3>1, <3>2
  <2>5. Slots[b][j] = Raw
    <3>1. i \in Nat /\ ~(i < TailIndex) /\ ppc \notin {"entry", "publish"}
      BY <1>0, <1>1, <2>1
    <3>2. ~Stored(i)
      BY <3>1 DEF Stored
    <3>3. QED
      BY <1>0, <2>1, <2>2, <2>3, <3>2 DEF SlotsRight
  <2>6. \E x \in 0..(n - 1) : FillPlace(x) = <<b, j>>
    BY <2>1, <2>2
  <2>7. Slots'[b][j] = i
    BY <1>2, <2>4, <2>5, <2>6 DEF Constructed
  <2>8. QED
    BY <2>1, <2>2, <2>7
<1>6. ASSUME NEW b \in Blocks, NEW j \in Places, ~\E k \in 0..(n - 1) : FillPlace(k) = <<b, j>>
      PROVE  Slots'[b][j] = Slots[b][j]
  BY <1>2, <1>6
<1>7. Slots' \in [Blocks -> [Places -> 0..(MaxTail - 1) \union {Raw, Bad}]]
  <2>1. ASSUME NEW b \in Blocks, NEW j \in Places
        PROVE  Slots'[b][j] \in 0..(MaxTail - 1) \union {Raw, Bad}
    <3>1. CASE \E k \in 0..(n - 1) : FillPlace(k) = <<b, j>>
      <4>1. PICK k \in 0..(n - 1) : FillPlace(k) = <<b, j>>
        BY <3>1
      <4>2. b = B[Num(T + k)] /\ j = Inner(T + k)
        BY <1>3, <4>1
      <4>3. Slots'[b][j] = T + k
        BY <1>5, <4>2
      <4>4. QED
        BY <1>1, <4>3
    <3>2. CASE ~\E k \in 0..(n - 1) : FillPlace(k) = <<b, j>>
      BY <1>0, <1>6, <3>2 DEF Types
    <3>3. QED
      BY <3>1, <3>2
  <2>2. Slots' = [b \in Blocks |-> [j \in Places |-> Slots'[b][j]]]
    BY <1>2
  <2>3. QED
    BY <2>1, <2>2
<1>8. ASSUME NEW b \in free, NEW j \in Places PROVE Slots'[b][j] = Raw
  <2>1. b \in Blocks
    BY <1>0 DEF Types
  <2>2. ASSUME NEW k \in 0..(n - 1) PROVE FillPlace(k) # <<b, j>>
    <3>1. B[Num(T + k)] \in Blocks \ free
      BY <1>0, <1>3 DEF RingRight
    <3>2. QED
      BY <1>3, <3>1
  <2>3. QED
    BY <1>0, <1>6, <2>1, <2>2 DEF SlotsRight
<1>9. ASSUME NEW i \in Int PROVE Stored(i)' <=> Stored(i) \/ (i >= T /\ i < T + n)
  <2>1. \A c \in Consumers : Unmoved(c)' = Unmoved(c)
    BY <1>0, ClaimsStay
  <2>2. Stored(i)' <=> \/ i < T /\ (i >= HeadIndex \/ \E c \in Consumers : i \in Unmoved(c))
                       \/ i >= T /\ i < T + n
    BY <1>0, <1>1, <2>1 DEF Stored
  <2>3. Stored(i) <=> i < T /\ (i >= HeadIndex \/ \E c \in Consumers : i \in Unmoved(c))
    BY <1>0, <1>1 DEF Stored
  <2>4. QED
    BY <2>2, <2>3
<1>10. ASSUME NEW m \in Window, NEW i \in Items(m)
       PROVE  Slots'[B[m]][Inner(i)] = IF Stored(i)' THEN i ELSE Raw
  <2>1. m \in Int /\ i \in Int /\ B[m] \in Blocks /\ Inner(i) \in Places /\ Num(i) = m
    <3>1. m \in Int
      BY <1>0, TopType
    <3>2. i \in Int
      BY <3>1, ItemsFinite
    <3>3. QED
      BY <1>0, <3>1, <3>2, NumType, NumItems DEF RingRight
  <2>2. CASE i >= T /\ i < T + n
    <3>1. PICK k \in 0..(n - 1) : i = T + k
      <4>1. i - T \in 0..(n - 1) /\ i = T + (i - T)
        BY <1>1, <2>1, <2>2
      <4>2. QED
        BY <4>1
    <3>2. Slots'[B[m]][Inner(i)] = i
      BY <1>5, <2>1, <3>1
    <3>3. Stored(i)'
      BY <1>9, <2>1, <2>2
    <3>4. QED
      BY <3>2, <3>3
  <2>3. CASE ~(i >= T /\ i < T + n)
    <3>1. ASSUME NEW k \in 0..(n - 1), FillPlace(k) = <<B[m], Inner(i)>> PROVE FALSE
      <4>1. i = T + k
        BY <1>4, <2>1, <3>1
      <4>2. QED
        BY <1>1, <2>3, <4>1
    <3>2. Slots'[B[m]][Inner(i)] = Slots[B[m]][Inner(i)]
      BY <1>6, <2>1, <3>1
    <3>3. Slots[B[m]][Inner(i)] = IF Stored(i) THEN i ELSE Raw
      BY <1>0 DEF SlotsRight
    <3>4. Stored(i)' <=> Stored(i)
      BY <1>9, <2>1, <2>3
    <3>5. QED
      BY <3>2, <3>3, <3>4
  <2>4. QED
    BY <2>2, <2>3
<1>11. QED
  BY <1>7, <1>8, <1>10

\* A place in the current array belongs to one block of the ring.
LEMMA OtherPlace ==
  ASSUME NEW B \in Numbers, NEW D \in Offsets, Inv(B, D), NEW m \in Window, NEW n \in Window, m # n
  PROVE  At(D, Len(arrays), m) # At(D, Len(arrays), n) /\ At(D, Len(arrays), m) \in At0(Len(arrays))
<1>0. Types /\ CallRight(B) /\ RingRight(B) /\ IndexRight(B, D)
  BY DEF Inv, Numbering
<1>1. PICK L \in Nat, S \in Nat \ {0} : L = Len(arrays) /\ L \in 1..Len(arrays) /\ S = arrays[L].Size
                                        /\ Current = arrays[L] /\ S = Current.Size
  BY <1>0, ArrayIs
<1>2. PICK v \in Nat, t \in Int, l \in Int : v = PO_IndexEntriesUsed /\ t = Top /\ l = Low /\ Window = l..t
                                             /\ l = t - v + 1 /\ v <= S
  <2>1. Top \in Int /\ Low \in Int /\ Window = Low..Top /\ Low = Top - PO_IndexEntriesUsed + 1
    BY <1>0, TopType
  <2>2. PO_IndexEntriesUsed \in Nat /\ PO_IndexEntriesUsed <= S
    BY <1>0, <1>1 DEF Types, IndexRight
  <2>3. QED
    BY <2>1, <2>2
<1>3. m \in Int /\ n \in Int /\ m - n < S /\ n - m < S
  BY <1>2
<1>4. QED
  BY <1>0, <1>1, <1>3, AtEqual, AtType

\* The items are made, and Enqueue writes the entry of the block it took.
LEMMA ConstructStep ==
  ASSUME NEW B \in Numbers, NEW D \in Offsets, Inv(B, D), Construct
  PROVE  Inv(B, D)'
<1>0. /\ Types /\ ClaimsRight /\ CallRight(B) /\ RingRight(B) /\ IndexRight(B, D)
      /\ FlagsRight(B) /\ SlotsRight(B) /\ ppc = "fill" /\ enq \in Enqs
  BY DEF Inv, Numbering, Construct, Types
<1>1. /\ ConsumersStay
      /\ UNCHANGED <<HeadIndex, TailIndex, TailBlock, PO_NextIndexEntry, PO_IndexEntriesUsed, enq,
                     Next, Flags, free, pc, deq>>
      /\ ppc' = IF TookBlock THEN "entry" ELSE "publish"
      /\ EnqueueEntry
  BY DEF Construct, ConsumersStay, consumers
<1>2. PICK t \in Int, a \in Int : t = Top /\ a = Last /\ t >= a /\ a >= -1
                                  /\ (TookBlock <=> t > a)
                                  /\ (\A m \in Window : m \in Int /\ m <= t)
                                  /\ (\A m \in (a + 1)..t : m \in Window /\ m \in Nat)
                                  /\ (TailIndex = 0 => a = -1) /\ (TailIndex > 0 => a >= 0)
  <2>1. /\ Top \in Int /\ Last \in Int /\ Top >= Last /\ Last >= -1 /\ Window = Low..Top /\ Low \in Int
        /\ (TailIndex = 0 => Last = -1) /\ (TailIndex > 0 => Last >= 0)
    BY <1>0, TopType
  <2>2. \A m \in Last + 1..Top : m \in Window /\ m \in Nat
    BY <1>0, LowBound
  <2>3. TookBlock <=> Top # Last
    BY <1>0, LowBound DEF TookBlock, CallRight
  <2>4. QED
    BY <2>1, <2>2, <2>3
<1>3. PICK L \in Nat : L = Len(arrays) /\ L \in 1..Len(arrays)
  BY <1>0, ArrayIs
<1>4. Top' = Top /\ Last' = Last /\ Low' = Low /\ Window' = Window
  BY <1>1 DEF Top, Last, Low, Window
<1>5. ppc' \in {"entry", "publish"} /\ (ppc' = "entry" <=> t > a)
  BY <1>1, <1>2
<1>6. CallRight(B)'
  BY <1>0, <1>1, <1>2, <1>4, <1>5 DEF CallRight
<1>7. enq.op \in {"one", "bulk"} /\ (enq.op = "one" => t <= a + 1)
  <2>1. enq.op = "one" => enq.Count = 1
    BY <1>0 DEF CallRight
  <2>2. enq.Count = 1 => Top + enq.Need <= Last + 1
    BY <1>0, OneBlock
  <2>3. enq.Need = 0
    BY <1>0 DEF CallRight
  <2>4. QED
    BY <1>0, <1>2, <2>1, <2>2, <2>3 DEF CallRight
<1>8. NextNumber' = NextNumber
  BY <1>0, <1>1, <1>2, <1>4, <1>5 DEF NextNumber
<1>9. \A m : ~Unstored(m)'
  BY <1>5 DEF Unstored
<1>10. RingRight(B)' /\ FlagsRight(B)'
  BY <1>0, <1>1, <1>4, ClaimsStay DEF RingRight, FlagsRight, Items
<1>11. SlotsRight(B)'
  <2>1. \A b \in free', j \in Places : Slots'[b][j] = Raw
    BY <1>1, ConstructSlots
  <2>2. \A m \in Window' : \A i \in Items(m) : Slots'[B[m]][Inner(i)] = IF Stored(i)' THEN i ELSE Raw
    BY <1>4, ConstructSlots
  <2>3. QED
    BY <2>1, <2>2 DEF SlotsRight, Items, Places, Inner
<1>12. ASSUME arrays' \in Seq(IndexEntryArrays) PROVE Types'
  <2>1. Slots' \in [Blocks -> [Places -> 0..(MaxTail - 1) \union {Raw, Bad}]]
    BY ConstructSlots
  <2>2. QED
    BY <1>0, <1>1, <1>5, <1>12, <2>1 DEF Types, EnqueuePlaces, Places
<1>13. CASE enq.op = "one" /\ TookBlock
  <2>1. t = a + 1 /\ t \in Window /\ t \in Nat
    BY <1>2, <1>7, <1>13
  <2>2. NextNumber = Top
    BY <1>0, <1>2, <1>13 DEF NextNumber
  <2>3. PO_NextIndexEntry = At(D, L, t)
    BY <1>0, <1>2, <1>3, <2>2 DEF IndexRight
  <2>4. PICK x \in Blocks : x = B[t] /\ x = TailBlock
    BY <1>0, <1>2, <2>1 DEF RingRight
  <2>5. WriteEntry(t * BlockSize, x)
    <3>1. enq.Base = t * BlockSize
      BY <1>0, <1>2 DEF CallRight
    <3>2. QED
      BY <1>1, <1>13, <2>4, <3>1 DEF EnqueueEntry
  <2>6. /\ arrays' \in Seq(IndexEntryArrays) /\ Len(arrays') = L
        /\ \A k \in 1..L :
             /\ arrays'[k].Size = arrays[k].Size /\ arrays'[k].Tail = arrays[k].Tail
             /\ ArrayRight(D, k)' /\ (TailRight(k) => TailRight(k)')
             /\ \A s \in At0(k) : Written(k, s) => Written(k, s)'
             /\ \A s \in At0(k) : k # L \/ s # At(D, L, t)
                                    => arrays'[k].Entries[s] = arrays[k].Entries[s]
        /\ arrays'[L].Entries[At(D, L, t)] = Entry(t * BlockSize, x)
    BY <1>0, <1>3, <2>1, <2>3, <2>4, <2>5, WriteEntryStep
  <2>7. /\ Len(arrays)' = L /\ Current'.Size = Current.Size /\ Current' = arrays'[L] /\ Current = arrays[L]
        /\ \A m : At(D, L, m)' = At(D, L, m)
    BY <1>3, <2>6 DEF Current, At
  <2>8. \A m \in Window : m # t => arrays'[L].Entries[At(D, L, m)] = arrays[L].Entries[At(D, L, m)]
    BY <1>3, <2>1, <2>6, OtherPlace
  <2>9. IndexRight(B, D)'
    <3>1. (Len(arrays) >= 1 /\ \A k \in 1..Len(arrays) : ArrayRight(D, k))'
      BY <1>3, <2>6, <2>7
    <3>2. (PO_IndexEntriesUsed <= Current.Size)'
      BY <1>0, <1>1, <2>7 DEF IndexRight
    <3>3. ASSUME NEW m \in Window PROVE arrays'[L].Entries[At(D, L, m)] = Entry(m * BlockSize, B[m])
      <4>1. CASE m = t
        BY <2>4, <2>6, <4>1
      <4>2. CASE m # t
        <5>1. ~(m > a)
          BY <1>2, <2>1, <4>2
        <5>2. ~Unstored(m)
          BY <1>2, <5>1 DEF Unstored
        <5>3. QED
          BY <1>0, <1>3, <2>7, <2>8, <4>2, <5>2 DEF IndexRight
      <4>3. QED
        BY <4>1, <4>2
    <3>4. (PO_NextIndexEntry = At(D, Len(arrays), NextNumber))'
      BY <1>1, <1>2, <1>8, <2>2, <2>3, <2>7
    <3>5. (TailIndex > 0 \/ ppc = "publish" => TailRight(Len(arrays)))'
      <4>1. SUFFICES ASSUME TailIndex > 0 PROVE TailRight(L)'
        BY <1>1, <1>2, <1>5, <1>13, <2>7
      <4>2. TailRight(L)
        BY <1>0, <1>3, <4>1 DEF IndexRight
      <4>3. QED
        BY <1>3, <2>6, <4>2
    <3>6. QED
      BY <1>4, <2>7, <3>1, <3>2, <3>3, <3>4, <3>5 DEF IndexRight
  <2>10. LookupsRight(B, D)'
    <3>1. ASSUME NEW k \in 1..L, NEW m \in Window, m <= Last
          PROVE  arrays'[k].Entries[At(D, k, m)] = arrays[k].Entries[At(D, k, m)]
      <4>1. CASE k = L
        BY <1>2, <2>1, <2>8, <3>1, <4>1
      <4>2. CASE k # L
        <5>1. At(D, k, m) \in At0(k)
          BY <1>0, <1>2, <1>3, AtType
        <5>2. QED
          BY <2>6, <4>2, <5>1
      <4>3. QED
        BY <4>1, <4>2
    <3>2. Len(arrays') \in Nat /\ Len(arrays') >= Len(arrays)
      BY <1>3, <2>6
    <3>3. \A k \in 1..Len(arrays) :
            /\ D[k] = D[k] /\ arrays'[k].Size = arrays[k].Size /\ (TailRight(k) => TailRight(k)')
            /\ \A s \in At0(k) : Written(k, s) => Written(k, s)'
      BY <1>3, <2>6
    <3>4. \A k \in 1..Len(arrays), m \in Window : m <= Last /\ ~AllDone(m)
            => arrays'[k].Entries[At(D, k, m)] = arrays[k].Entries[At(D, k, m)]
      BY <1>3, <3>1
    <3>5. QED
      BY <1>1, <3>2, <3>3, <3>4, LookupsStay
  <2>11. Types'
    BY <1>12, <2>6
  <2>12. QED
    BY <1>0, <1>1, <1>5, <1>6, <1>10, <1>11, <2>9, <2>10, <2>11, ClaimsStay DEF Inv, Numbering
<1>14. CASE ~(enq.op = "one" /\ TookBlock)
  <2>1. arrays' = arrays
    BY <1>1, <1>14 DEF EnqueueEntry
  <2>2. /\ \A k : ArrayRight(D, k)' = ArrayRight(D, k) /\ TailRight(k)' = TailRight(k) /\ At0(k)' = At0(k)
        /\ \A k, m : At(D, k, m)' = At(D, k, m)
        /\ \A k, s : Written(k, s)' = Written(k, s)
        /\ Current' = Current
    BY <2>1 DEF ArrayRight, TailRight, At, At0, Written, Current
  <2>3. \A m \in Window : ~Unstored(m)
    BY <1>2, <1>14 DEF Unstored
  <2>4. IndexRight(B, D)'
    <3>1. ppc' = "publish" => TailIndex > 0
      <4>1. SUFFICES ASSUME t = a PROVE TailIndex > 0
        BY <1>2, <1>5
      <4>2. PICK T \in Nat, n \in Nat : T = TailIndex /\ n = enq.Count /\ n >= 1
        BY <1>0 DEF Types, Enqs, CallRight
      <4>3. enq.Need = Num(T + n - 1) - Top /\ enq.Need = 0
        BY <1>0, <4>2 DEF CallRight
      <4>4. Num(T + n - 1) \in Int /\ Num(T + n - 1) >= 0
        BY <4>2, NumType
      <4>5. QED
        BY <1>2, <4>1, <4>2, <4>3, <4>4
    <3>2. QED
      BY <1>0, <1>1, <1>4, <1>8, <2>1, <2>2, <2>3, <3>1 DEF IndexRight
  <2>5. LookupsRight(B, D)'
    BY <1>1, <2>1, <2>2, ClaimsStay DEF LookupsRight, LookupRight, Inv, Numbering
  <2>6. Types'
    BY <1>0, <1>12, <2>1 DEF Types
  <2>7. QED
    BY <1>0, <1>1, <1>5, <1>6, <1>10, <1>11, <2>4, <2>5, <2>6, ClaimsStay DEF Inv, Numbering
<1>15. QED
  BY <1>13, <1>14

\* Consumers get an array whose Tail is that of an entry that was written.
LEMMA StoreIndexTailStep ==
  ASSUME NEW B \in Numbers, NEW D \in Offsets, Inv(B, D), StoreIndexTail
  PROVE  Inv(B, D)'
<1>0. /\ Types /\ ClaimsRight /\ CallRight(B) /\ RingRight(B) /\ IndexRight(B, D)
      /\ FlagsRight(B) /\ SlotsRight(B) /\ ppc = "entry" /\ enq \in Enqs
      /\ enq.op \in {"one", "bulk"} /\ PO_NextIndexEntry \in Nat
  BY DEF Inv, Numbering, StoreIndexTail, Types, CallRight
<1>1. /\ ConsumersStay /\ ppc' = "publish"
      /\ UNCHANGED <<HeadIndex, TailIndex, TailBlock, PO_IndexEntriesUsed, enq,
                     Next, Flags, Slots, free, pc, deq>>
  BY DEF StoreIndexTail, ConsumersStay, consumers, blockVars
<1>2. PICK t \in Nat, a \in Int : t = Top /\ a = Last /\ t > a /\ t \in Window
                                  /\ \A m \in Window : m \in Int
  <2>1. Top \in Int /\ Last \in Int /\ Last >= -1 /\ Window = Low..Top /\ Low \in Int /\ Top > Last
    BY <1>0, TopType DEF CallRight
  <2>2. \A m \in Last + 1..Top : m \in Window /\ m \in Nat
    BY <1>0, LowBound
  <2>3. QED
    BY <2>1, <2>2
<1>3. PICK L \in Nat, S \in Nat \ {0, 1} : L = Len(arrays) /\ L \in 1..Len(arrays) /\ S = arrays[L].Size
                                   /\ Current = arrays[L] /\ S = Current.Size
  BY <1>0, ArrayIs
<1>4. PICK s \in Nat, e \in Nat : s = At(D, L, t) /\ s \in At0(L) /\ e = At(D, L, t + 1) /\ e \in At0(L)
                                  /\ e = (s + 1) % S
  <2>1. At(D, L, t) \in At0(L) /\ At(D, L, t + 1) \in At0(L)
    BY <1>0, <1>3, AtType
  <2>2. At0(L) \subseteq Nat
    BY DEF At0
  <2>3. At(D, L, t) \in Int /\ arrays[L].Size \in Nat
    BY <1>3, <2>1, <2>2
  <2>4. (At(D, L, t) + 1) % arrays[L].Size = At(D, L, t + 1)
    BY <1>0, <1>2, <1>3, <2>3, AtPlus
  <2>5. QED
    BY <1>3, <2>1, <2>2, <2>4
<1>5. arrays[L].Entries[s] = Entry(t * BlockSize, B[t]) /\ B[t] # NULL
  <2>1. ~Unstored(t)
    BY <1>0 DEF Unstored
  <2>2. B[t] \in Blocks
    BY <1>0, <1>2 DEF RingRight
  <2>3. QED
    BY <1>0, <1>2, <1>3, <1>4, <2>1, <2>2, FastQueueAssumption DEF IndexRight, FastQueueAssumption
<1>6. Written(L, s)
  BY <1>5 DEF Written, Entry
<1>7. PO_NextIndexEntry' = e /\ arrays' = [arrays EXCEPT ![L].Tail = s]
  <2>1. CASE enq.op = "one"
    <3>1. NextNumber = t
      BY <1>0, <1>2, <2>1 DEF NextNumber
    <3>2. PO_NextIndexEntry = s
      BY <1>0, <1>2, <1>3, <1>4, <3>1 DEF IndexRight
    <3>3. QED
      BY <1>3, <1>4, <2>1, <3>2 DEF StoreIndexTail, FollowingEntry
  <2>2. CASE enq.op = "bulk"
    <3>1. NextNumber = t + 1
      BY <1>0, <1>2, <2>2 DEF NextNumber
    <3>2. PO_NextIndexEntry = e
      BY <1>0, <1>2, <1>3, <1>4, <3>1 DEF IndexRight
    <3>3. (e - 1) % S = s
      <4>1. PICK x \in Int : x = s + 1
        OBVIOUS
      <4>2. PICK y \in Int : y = -1 /\ x + y = s
        BY <4>1
      <4>3. ((x % S) + y) % S = (x + y) % S
        BY ModPlus
      <4>4. s \in 0..(S - 1)
        BY <1>3, <1>4 DEF At0
      <4>5. s % S = s
        BY <4>4, ModSmall
      <4>6. (x % S) + y = e - 1
        BY <1>4, <4>1, <4>2
      <4>7. QED
        BY <4>2, <4>3, <4>5, <4>6
    <3>4. ~(enq.op = "one")
      BY <2>2
    <3>5. arrays' = [arrays EXCEPT ![L].Tail = (PO_NextIndexEntry - 1) % S] /\ UNCHANGED PO_NextIndexEntry
      BY <1>3, <3>4 DEF StoreIndexTail
    <3>6. QED
      BY <3>2, <3>3, <3>5
  <2>3. QED
    BY <1>0, <2>1, <2>2
<1>8. PICK r : r = [arrays[L] EXCEPT !.Tail = s]
  OBVIOUS
<1>9. arrays[L] \in IndexEntryArrays /\ arrays \in Seq(IndexEntryArrays)
  BY <1>0, <1>3, ArrayIs DEF Types
<1>10. r \in IndexEntryArrays /\ r.Size = S /\ r.Tail = s /\ r.Entries = arrays[L].Entries
  <2>1. s \in Int
    BY <1>4
  <2>2. QED
    BY <1>3, <1>8, <1>9, <2>1 DEF IndexEntryArrays
<1>11. /\ arrays' \in Seq(IndexEntryArrays) /\ Len(arrays') = L /\ arrays'[L] = r
       /\ \A k \in 1..L : k # L => arrays'[k] = arrays[k]
  <2>1. arrays' = [arrays EXCEPT ![L] = r]
    BY <1>7, <1>8
  <2>2. QED
    BY <1>3, <1>9, <1>10, <2>1
<1>12. ASSUME NEW k \in 1..L
       PROVE  /\ arrays'[k].Size = arrays[k].Size /\ arrays'[k].Entries = arrays[k].Entries
              /\ At0(k)' = At0(k) /\ (\A m : At(D, k, m)' = At(D, k, m))
              /\ (\A x : Written(k, x)' = Written(k, x))
  <2>1. arrays'[k].Size = arrays[k].Size /\ arrays'[k].Entries = arrays[k].Entries
    BY <1>3, <1>10, <1>11
  <2>2. QED
    BY <2>1 DEF At0, At, Written
<1>13. TailRight(L)'
  <2>1. Written(L, s)'
    BY <1>3, <1>6, <1>12
  <2>2. QED
    BY <1>4, <1>10, <1>11, <2>1 DEF TailRight, Written
<1>14. ASSUME NEW k \in 1..L, TailRight(k) PROVE TailRight(k)'
  <2>1. CASE k = L
    BY <1>13, <2>1
  <2>2. CASE k # L
    BY <1>11, <1>14, <2>2 DEF TailRight, Written
  <2>3. QED
    BY <2>1, <2>2
<1>15. ASSUME NEW k \in 1..L PROVE ArrayRight(D, k)'
  <2>1. ArrayRight(D, k)
    BY <1>0, <1>3 DEF IndexRight
  <2>2. -1 <= arrays'[k].Tail /\ arrays'[k].Tail < arrays'[k].Size
    <3>1. CASE k = L
      <4>1. s \in 0..(S - 1)
        BY <1>3, <1>4 DEF At0
      <4>2. QED
        BY <1>10, <1>11, <3>1, <4>1
    <3>2. CASE k # L
      BY <1>11, <2>1, <3>2 DEF ArrayRight
    <3>3. QED
      BY <3>1, <3>2
  <2>3. QED
    BY <1>12, <2>1, <2>2 DEF ArrayRight
<1>16. Top' = Top /\ Last' = Last /\ Low' = Low /\ Window' = Window
  BY <1>1 DEF Top, Last, Low, Window
<1>17. NextNumber' = t + 1 /\ \A m : ~Unstored(m)'
  BY <1>1, <1>2, <1>16 DEF NextNumber, Unstored
<1>18. Len(arrays)' = L /\ Current'.Size = S /\ Current'.Entries = Current.Entries
  BY <1>3, <1>10, <1>11 DEF Current
<1>19. IndexRight(B, D)'
  <2>1. (Len(arrays) >= 1 /\ \A k \in 1..Len(arrays) : ArrayRight(D, k))'
    BY <1>3, <1>15, <1>18
  <2>2. (PO_IndexEntriesUsed <= Current.Size)'
    BY <1>0, <1>1, <1>3, <1>18 DEF IndexRight
  <2>3. ASSUME NEW m \in Window
        PROVE  Current'.Entries[At(D, L, m)'] = Entry(m * BlockSize, B[m])
    <3>1. ~Unstored(m)
      BY <1>0 DEF Unstored
    <3>2. Current.Entries[At(D, L, m)] = Entry(m * BlockSize, B[m])
      BY <1>0, <1>3, <3>1 DEF IndexRight
    <3>3. QED
      BY <1>3, <1>12, <1>18, <3>2
  <2>4. (PO_NextIndexEntry = At(D, Len(arrays), NextNumber))'
    BY <1>3, <1>4, <1>7, <1>12, <1>17, <1>18
  <2>5. QED
    BY <1>13, <1>16, <1>18, <2>1, <2>2, <2>3, <2>4 DEF IndexRight
<1>20. LookupsRight(B, D)'
  <2>1. Len(arrays') \in Nat /\ Len(arrays') >= Len(arrays)
    BY <1>3, <1>11
  <2>2. \A k \in 1..Len(arrays) :
          /\ D[k] = D[k] /\ arrays'[k].Size = arrays[k].Size /\ (TailRight(k) => TailRight(k)')
          /\ \A x \in At0(k) : Written(k, x) => Written(k, x)'
    BY <1>3, <1>12, <1>14
  <2>3. \A k \in 1..Len(arrays), m \in Window : m <= Last /\ ~AllDone(m)
          => arrays'[k].Entries[At(D, k, m)] = arrays[k].Entries[At(D, k, m)]
    BY <1>3, <1>12
  <2>4. QED
    BY <1>1, <2>1, <2>2, <2>3, LookupsStay
<1>21. RingRight(B)' /\ FlagsRight(B)'
  BY <1>0, <1>1, <1>16, ClaimsStay DEF RingRight, FlagsRight, Items
<1>22. SlotsRight(B)'
  <2>1. \A i : Stored(i)' = Stored(i)
    BY <1>0, <1>1, ClaimsStay DEF Stored
  <2>2. QED
    BY <1>0, <1>1, <1>16, <2>1 DEF SlotsRight, Items
<1>23. CallRight(B)'
  BY <1>0, <1>1, <1>16 DEF CallRight
<1>24. Types'
  BY <1>0, <1>1, <1>7, <1>11 DEF Types, EnqueuePlaces
<1>25. QED
  BY <1>0, <1>1, <1>19, <1>20, <1>21, <1>22, <1>23, <1>24, ClaimsStay DEF Inv, Numbering

-----------------------------------------------------------------------------
(* Clear. *)

\* The invariant gives every variable a value of its kind.
LEMMA TypesGive ==
  ASSUME NEW B \in Numbers, NEW D \in Offsets, Inv(B, D), HarmKnown
  PROVE  TypeOK
<1>0. Types /\ IndexRight(B, D)
  BY DEF Inv, Numbering
<1>1. PICK L \in Nat, S \in Nat \ {0, 1} : L = Len(arrays) /\ L \in 1..Len(arrays) /\ S = arrays[L].Size
                                   /\ Current = arrays[L] /\ S = Current.Size
  BY <1>0, ArrayIs
<1>2. HeadIndex \in 0..TailIndex /\ TailIndex \in 0..MaxTail
  BY <1>0, FastQueueAssumption DEF Types, FastQueueAssumption
<1>3. PO_NextIndexEntry \in 0..(S - 1)
  <2>1. NextNumber \in Int
    BY <1>0, TopType DEF NextNumber, Inv, Numbering
  <2>2. At(D, L, NextNumber) \in At0(L)
    BY <1>0, <1>1, <2>1, AtType
  <2>3. QED
    BY <1>0, <1>1, <2>2 DEF IndexRight, At0
<1>4. PO_IndexEntriesUsed \in 0..S
  BY <1>0, <1>1 DEF Types, IndexRight
<1>5. ASSUME NEW k \in 1..Len(arrays)
      PROVE  /\ arrays[k].Tail \in -1..(arrays[k].Size - 1)
             /\ DOMAIN arrays[k].Entries = 0..(arrays[k].Size - 1)
  <2>1. ArrayRight(D, k) /\ arrays[k] \in IndexEntryArrays
    BY <1>0, ArrayIs DEF IndexRight
  <2>2. arrays[k].Tail \in Int /\ arrays[k].Size \in Nat
    BY <2>1 DEF IndexEntryArrays
  <2>3. arrays[k].Entries \in [0..(arrays[k].Size - 1) -> IndexEntries]
    BY <2>1 DEF ArrayRight, At0
  <2>4. QED
    BY <2>1, <2>2, <2>3 DEF ArrayRight
<1>6. DOMAIN arrays = 1..Len(arrays)
  BY <1>0 DEF Types
<1>7. QED
  BY <1>0, <1>1, <1>2, <1>3, <1>4, <1>5, <1>6 DEF Types, HarmKnown, TypeOK

\* When nobody is in a call, every item below HeadIndex is done, and the others are stored.
LEMMA IdleIs ==
  ASSUME Types, ClaimsRight, ppc = "idle", \A c \in Consumers : pc[c] = "idle", NEW i \in Nat
  PROVE  /\ Done(i) <=> i < HeadIndex
         /\ Stored(i) <=> i >= HeadIndex /\ i < TailIndex
<1>1. \A c \in Consumers : Pending(c) = {} /\ Unmoved(c) = {}
  BY PendingTypes
<1>2. QED
  BY <1>1 DEF Done, Stored

\* The blocks in the ring are different, so that there are no more than blocks.
LEMMA RingBounded ==
  ASSUME NEW B \in Numbers, NEW D \in Offsets, Inv(B, D)
  PROVE  Cardinality(Blocks) \in Nat /\ PO_IndexEntriesUsed <= Cardinality(Blocks)
<1>0. Types /\ ClaimsRight /\ CallRight(B) /\ RingRight(B)
  BY DEF Inv, Numbering
<1>1. IsFiniteSet(Blocks) /\ Cardinality(Blocks) \in Nat
  BY FastQueueAssumption, FS_CardinalityType DEF FastQueueAssumption
<1>2. PICK v \in Nat, t \in Int, l \in Int : v = PO_IndexEntriesUsed /\ t = Top /\ l = Low
                                             /\ Window = l..t /\ l = t - v + 1
  BY <1>0, TopType DEF Types
<1>3. IsFiniteSet(l..t) /\ Cardinality(l..t) = v
  <2>1. IsFiniteSet(l..t) /\ Cardinality(l..t) = IF l > t THEN 0 ELSE t - l + 1
    BY FS_Interval
  <2>2. QED
    BY <1>2, <2>1
<1>4. SUFFICES ASSUME Cardinality(Blocks) < v PROVE FALSE
  BY <1>1, <1>2
<1>5. PICK f : f = [m \in l..t |-> B[m]]
  OBVIOUS
<1>6. f \in [l..t -> Blocks]
  BY <1>0, <1>2, <1>5 DEF RingRight
<1>7. \E x, y \in l..t : x # y /\ f[x] = f[y]
  BY <1>1, <1>3, <1>4, <1>6, FS_PigeonHole
<1>8. PICK x \in l..t, y \in l..t : x # y /\ f[x] = f[y]
  BY <1>7
<1>9. B[x] = B[y] /\ x \in Window /\ y \in Window
  BY <1>2, <1>5, <1>8
<1>10. QED
  BY <1>0, <1>8, <1>9, RingOne

\* The next place in a ring of v.
LEMMA NextPlace ==
  ASSUME NEW v \in Nat \ {0}, NEW k \in Nat
  PROVE  /\ k % v \in 0..(v - 1)
         /\ (k + 1) % v = IF k % v = v - 1 THEN 0 ELSE (k % v) + 1
<1>1. PICK r \in 0..(v - 1) : r = k % v
  BY ModType
<1>2. ((k % v) + 1) % v = (k + 1) % v
  <2>1. PICK x \in Int, y \in Int : x = k /\ y = 1
    OBVIOUS
  <2>2. ((x % v) + y) % v = (x + y) % v
    BY ModPlus
  <2>3. QED
    BY <2>1, <2>2
<1>3. PICK q \in Int : q = r + 1 /\ q % v = (k + 1) % v
  BY <1>1, <1>2
<1>4. CASE r = v - 1
  <2>1. q = 1 * v + 0 /\ 0 \in 0..(v - 1)
    BY <1>3, <1>4
  <2>2. q % v = 0
    BY <2>1, ModUnique
  <2>3. QED
    BY <1>1, <1>3, <1>4, <2>2
<1>5. CASE r # v - 1
  <2>1. q \in 0..(v - 1)
    BY <1>1, <1>3, <1>5
  <2>2. q % v = q
    BY <2>1, ModSmall
  <2>3. QED
    BY <1>1, <1>3, <1>5, <2>2
<1>6. QED
  BY <1>4, <1>5

\* Next leads once around the ring, and around again.
LEMMA RoundTheRing ==
  ASSUME NEW B \in Numbers, NEW D \in Offsets, Inv(B, D), Top >= 0, NEW h \in Nat \ {0}
  PROVE  Hop(TailBlock, h) = B[Low + ((h - 1) % PO_IndexEntriesUsed)]
<1>0. Types /\ ClaimsRight /\ CallRight(B) /\ RingRight(B)
  BY DEF Inv, Numbering
<1>1. PICK v \in Nat \ {0}, t \in Nat, l \in Nat : v = PO_IndexEntriesUsed /\ t = Top /\ l = Low
                                             /\ Window = l..t /\ l = t - v + 1 /\ TailBlock = B[t]
  <2>1. Top \in Int /\ Low \in Int /\ Window = Low..Top /\ Low = Top - PO_IndexEntriesUsed + 1
    BY <1>0, TopType
  <2>2. PO_IndexEntriesUsed \in Nat /\ PO_IndexEntriesUsed >= 1 /\ 0 <= Low /\ ~(Top < 0)
    BY <1>0, <2>1 DEF Types, RingRight
  <2>3. TailBlock = B[Top]
    BY <1>0, <2>2 DEF RingRight
  <2>4. QED
    BY <2>1, <2>2, <2>3
<1>2. PICK p : p = [k \in 0..h |-> IF k = 0 THEN B[t] ELSE B[l + ((k - 1) % v)]]
  OBVIOUS
<1>3. p = [k \in 0..h |-> p[k]] /\ p[0] = B[t] /\ \A k \in 1..h : p[k] = B[l + ((k - 1) % v)]
  BY <1>2
<1>4. ASSUME NEW k \in 1..h PROVE p[k] = Next[p[k - 1]]
  <2>1. CASE k = 1
    <3>1. 0 % v = 0
      BY <1>1, ModSmall
    <3>2. (k - 1) % v = 0 /\ l + 0 = l /\ k - 1 = 0
      BY <2>1, <3>1
    <3>3. p[k] = B[l] /\ p[k - 1] = B[t]
      BY <1>3, <3>2
    <3>4. Next[B[t]] = B[l]
      BY <1>0, <1>1 DEF RingRight
    <3>5. QED
      BY <3>3, <3>4
  <2>2. CASE k # 1
    <3>1. PICK j \in Nat : j = k - 2 /\ j + 1 = k - 1 /\ k - 1 \in 1..h /\ (k - 1) - 1 = j
      BY <2>2
    <3>2. p[k] = B[l + ((j + 1) % v)] /\ p[k - 1] = B[l + (j % v)]
      BY <1>3, <3>1
    <3>3. PICK r \in 0..(v - 1), s \in Int : r = j % v /\ s = (j + 1) % v
                                /\ s = IF r = v - 1 THEN 0 ELSE r + 1
      <4>1. j % v \in 0..(v - 1) /\ (j + 1) % v = IF j % v = v - 1 THEN 0 ELSE (j % v) + 1
        BY <3>1, NextPlace
      <4>2. PICK r \in 0..(v - 1) : r = j % v
        BY <4>1
      <4>3. QED
        BY <4>1, <4>2
    <3>4. p[k] = B[l + s] /\ p[k - 1] = B[l + r]
      BY <3>2, <3>3
    <3>5. CASE r = v - 1
      <4>1. l + r = t /\ l + s = l
        BY <1>1, <3>3, <3>5
      <4>2. Next[B[t]] = B[l]
        BY <1>0, <1>1 DEF RingRight
      <4>3. QED
        BY <3>4, <4>1, <4>2
    <3>6. CASE r # v - 1
      <4>1. PICK m \in Int : m = l + r /\ m + 1 = l + s /\ m \in Low..(Top - 1)
        BY <1>1, <3>3, <3>6
      <4>2. Next[B[m]] = B[m + 1]
        BY <1>0, <4>1 DEF RingRight
      <4>3. QED
        BY <3>4, <4>1, <4>2
    <3>7. QED
      BY <3>5, <3>6
  <2>3. QED
    BY <2>1, <2>2
<1>5. \A k \in 1..h : p[k] = Next[p[k - 1]]
  BY <1>4
<1>6. PICK b : b = B[t] /\ p[0] = b /\ b = TailBlock
  BY <1>1, <1>3
<1>7. h \in Nat
  OBVIOUS
<1>8. Hop(b, h) = p[h]
  <2>1. p = [k \in 0..h |-> p[k]]
    BY <1>3
  <2>2. QED
    BY ZenonT(60), <1>5, <1>6, <1>7, <2>1, HopPath
<1>9. p[h] = B[l + ((h - 1) % v)]
  <2>1. h \in 1..h
    OBVIOUS
  <2>2. QED
    BY <1>3, <2>1
<1>10. QED
  BY <1>1, <1>6, <1>8, <1>9

\* Clear finds every block of the queue.
LEMMA RingIs ==
  ASSUME NEW B \in Numbers, NEW D \in Offsets, Inv(B, D)
  PROVE  Ring = {B[m] : m \in Window} /\ Ring = Blocks \ free
<1>0. Types /\ ClaimsRight /\ CallRight(B) /\ RingRight(B)
  BY DEF Inv, Numbering
<1>1. {B[m] : m \in Window} = Blocks \ free
  BY <1>0 DEF RingRight
<1>2. PICK v \in Nat, t \in Int, l \in Nat : v = PO_IndexEntriesUsed /\ t = Top /\ l = Low
                                             /\ Window = l..t /\ l = t - v + 1 /\ (t >= 0 => v >= 1)
                                             /\ TailBlock = IF t < 0 THEN NULL ELSE B[t]
  <2>1. Top \in Int /\ Low \in Int /\ Window = Low..Top /\ Low = Top - PO_IndexEntriesUsed + 1
    BY <1>0, TopType
  <2>2. PO_IndexEntriesUsed \in Nat /\ (Top >= 0 => PO_IndexEntriesUsed >= 1) /\ 0 <= Low
        /\ TailBlock = IF Top < 0 THEN NULL ELSE B[Top]
    BY <1>0 DEF Types, RingRight
  <2>3. QED
    BY <2>1, <2>2
<1>3. CASE t < 0
  <2>1. Window = {}
    BY <1>2, <1>3
  <2>2. Ring = {}
    BY <1>2, <1>3 DEF Ring
  <2>3. QED
    BY <1>1, <2>1, <2>2
<1>4. CASE t >= 0
  <2>1. t \in Window
    BY <1>2, <1>4
  <2>2. TailBlock # NULL
    <3>1. B[t] \in Blocks /\ TailBlock = B[t]
      BY <1>0, <1>2, <1>4, <2>1 DEF RingRight
    <3>2. QED
      BY <3>1, FastQueueAssumption DEF FastQueueAssumption
  <2>3. PICK n \in Nat : n = Cardinality(Blocks) /\ v <= n
    BY <1>2, RingBounded
  <2>4. Ring = {Hop(TailBlock, h) : h \in 1..n}
    BY <2>2, <2>3 DEF Ring
  <2>5. \A h \in 1..n : Hop(TailBlock, h) = B[l + ((h - 1) % v)]
    <3>1. TAKE h \in 1..n
    <3>2. h \in Nat \ {0} /\ Top >= 0
      BY <1>2, <1>4
    <3>3. QED
      BY <1>2, <3>2, RoundTheRing
  <2>6. ASSUME NEW h \in 1..n PROVE B[l + ((h - 1) % v)] \in {B[m] : m \in Window}
    <3>1. PICK r \in 0..(v - 1) : r = (h - 1) % v
      <4>1. h - 1 \in Int /\ v \in Nat \ {0}
        BY <1>2, <1>4
      <4>2. QED
        BY <4>1, ModType
    <3>2. l + r \in Window
      BY <1>2, <3>1
    <3>3. QED
      BY <3>1, <3>2
  <2>7. ASSUME NEW m \in Window PROVE \E h \in 1..n : B[m] = B[l + ((h - 1) % v)]
    <3>1. PICK r \in 0..(v - 1) : m = l + r
      <4>1. m - l \in 0..(v - 1) /\ m = l + (m - l)
        BY <1>2
      <4>2. QED
        BY <4>1
    <3>2. r % v = r
      BY <1>2, <1>4, <3>1, ModSmall
    <3>3. r + 1 \in 1..n /\ (r + 1) - 1 = r
      BY <2>3, <3>1
    <3>4. QED
      BY <3>1, <3>2, <3>3
  <2>8. Ring = {B[m] : m \in Window}
    <3>1. ASSUME NEW x \in Ring PROVE x \in {B[m] : m \in Window}
      <4>1. PICK h \in 1..n : x = Hop(TailBlock, h)
        BY <2>4
      <4>2. x = B[l + ((h - 1) % v)]
        BY <2>5, <4>1
      <4>3. QED
        BY <2>6, <4>2
    <3>2. ASSUME NEW m \in Window PROVE B[m] \in Ring
      <4>1. PICK h \in 1..n : B[m] = B[l + ((h - 1) % v)]
        BY <2>7
      <4>2. B[m] = Hop(TailBlock, h)
        BY <2>5, <4>1
      <4>3. QED
        BY <2>4, <4>2
    <3>3. QED
      BY <3>1, <3>2
  <2>9. QED
    BY <1>1, <2>8
<1>5. QED
  BY <1>2, <1>3, <1>4

\* When nobody is in a call: what Clear relies on.
AtRest == ppc = "idle" /\ \A c \in Consumers : pc[c] = "idle"

\* The numbers at rest.
LEMMA RestIs ==
  ASSUME NEW B \in Numbers, NEW D \in Offsets, Inv(B, D), AtRest
  PROVE  /\ HeadIndex \in Nat /\ TailIndex \in Nat /\ HeadIndex <= TailIndex
         /\ Top = Num(TailIndex - 1) /\ Top \in Int /\ Low \in Nat /\ Window = Low..Top
         /\ PO_IndexEntriesUsed \in Nat /\ Low = Top - PO_IndexEntriesUsed + 1
         /\ TailBlock = IF Top < 0 THEN NULL ELSE B[Top]
         /\ \A m \in Window : m \in Nat /\ B[m] \in Blocks \ free
         /\ \A m \in Window : ~Unstored(m)
<1>0. Types /\ ClaimsRight /\ CallRight(B) /\ RingRight(B)
  BY DEF Inv, Numbering
<1>1. Top = Num(TailIndex - 1)
  BY <1>0, TopType DEF AtRest, Last
<1>2. Top \in Int /\ Low \in Int /\ 0 <= Low /\ Window = Low..Top
  BY <1>0, TopType DEF RingRight
<1>3. \A m \in Window : m \in Nat /\ B[m] \in Blocks \ free
  BY <1>0, <1>2 DEF RingRight
<1>4. \A m \in Window : ~Unstored(m)
  BY DEF Unstored, AtRest
<1>5. QED
  BY <1>0, <1>1, <1>2, <1>3, <1>4 DEF Types, Low, RingRight

\* The first block that HeadIndex has not left is the one it is in.
LEMMA HalfIs ==
  ASSUME NEW B \in Numbers, NEW D \in Offsets, Inv(B, D), AtRest
  PROVE  /\ Inner(HeadIndex) = 0 => HalfDequeuedBlock = NULL
         /\ Inner(HeadIndex) # 0 => Num(HeadIndex) \in Window /\ HalfDequeuedBlock = B[Num(HeadIndex)]
<1>0. /\ Types /\ ClaimsRight /\ CallRight(B) /\ RingRight(B) /\ IndexRight(B, D)
      /\ NextNumber = Top + 1 /\ \A m \in Window : ~Unstored(m)
  BY RestIs DEF Inv, Numbering, NextNumber, AtRest
<1>1. Inner(HeadIndex) = 0 => HalfDequeuedBlock = NULL
  BY DEF HalfDequeuedBlock
<1>2. ASSUME Inner(HeadIndex) # 0
      PROVE  Num(HeadIndex) \in Window /\ HalfDequeuedBlock = B[Num(HeadIndex)]
  <2>1. PICK H \in Nat, T \in Nat : H = HeadIndex /\ T = TailIndex /\ H <= T
    BY RestIs
  <2>2. PICK v \in Nat, t \in Int, l \in Nat : v = PO_IndexEntriesUsed /\ t = Top /\ l = Low
                                               /\ Window = l..t /\ l = t - v + 1 /\ t = Num(T - 1)
    BY <2>1, RestIs
  <2>3. PICK m \in Nat : m = Num(H) /\ m * BlockSize < H /\ H <= m * BlockSize + BlockSize
    BY <1>2, <2>1, NumType, BlockSizeIs DEF Num, Inner
  <2>4. m <= t
    <3>1. Num(H - 1) = m /\ Num(H - 1) <= Num(T - 1)
      BY <1>2, <2>1, <2>3, NumBefore, NumMono
    <3>2. QED
      BY <2>2, <3>1
  <2>5. m \in Window
    BY <1>0, <2>1, <2>2, <2>3, <2>4, UnclaimedInWindow
  <2>6. PICK S \in Nat : S = Current.Size /\ v <= S
    BY <1>0, <2>2, ArrayIs DEF IndexRight
  <2>7. PICK q \in 0..(v - 1) : q = m - l /\ l + q = m /\ q \in 0..(S - 1)
    <3>0. v \in Nat /\ l \in Nat /\ S \in Nat /\ v <= S
      BY <2>2, <2>6
    <3>1. m \in Nat /\ l <= m /\ m <= l + v - 1
      BY <2>2, <2>3, <2>5
    <3>2. PICK q \in Int : q = m - l
      BY <2>2, <2>3
    <3>3. q >= 0 /\ q <= v - 1 /\ l + q = m
      BY <3>0, <3>1, <3>2
    <3>5. q <= S - 1
      BY <3>0, <3>2, <3>3
    <3>6. q \in 0..(v - 1) /\ q \in 0..(S - 1)
      BY <2>2, <2>6, <3>2, <3>3, <3>5
    <3>4. QED
      BY <3>2, <3>3, <3>6
  <2>8. ASSUME NEW j \in 0..q PROVE Reached(j) <=> j = q
    <3>1. j \in 0..(PO_IndexEntriesUsed - 1)
      BY <2>2, <2>7
    <3>2. UsedEntry(j) = Entry((Low + j) * BlockSize, B[Low + j])
      BY <1>0, <3>1, UsedEntryIs
    <3>3. PICK n \in Nat : n = l + j /\ n <= m /\ (j = q <=> n = m)
      <4>1. PICK n \in Int : n = l + j
        BY <2>2
      <4>2. n \in Nat /\ n <= m /\ (j = q <=> n = m)
        BY <2>2, <2>7, <4>1
      <4>3. QED
        BY <4>1, <4>2
    <3>4. UsedEntry(j).Base = n * BlockSize
      <4>1. Low + j = n
        BY <2>2, <3>3
      <4>2. UsedEntry(j) = Entry(n * BlockSize, B[n])
        BY <3>2, <4>1
      <4>3. QED
        BY <4>2 DEF Entry
    <3>5. n * BlockSize + BlockSize < H <=> n # m
      BY <2>1, <2>3, <3>3, BlockSizeIs
    <3>6. QED
      BY <2>1, <3>3, <3>4, <3>5 DEF Reached
  <2>9. PICK k : k = (CHOOSE x \in 0..(S - 1) : Reached(x) /\ \A j \in 0..(x - 1) : ~Reached(j))
    OBVIOUS
  <2>10. Reached(q) /\ \A j \in 0..(q - 1) : ~Reached(j)
    BY <2>7, <2>8
  <2>11. k \in 0..(S - 1) /\ Reached(k) /\ \A j \in 0..(k - 1) : ~Reached(j)
    BY <2>7, <2>9, <2>10
  <2>12. k = q
    BY <2>7, <2>10, <2>11
  <2>13. HalfDequeuedBlock = UsedEntry(q).InnerBlock
    BY <1>2, <2>6, <2>9, <2>12 DEF HalfDequeuedBlock
  <2>14. UsedEntry(q).InnerBlock = B[m]
    <3>1. q \in 0..(PO_IndexEntriesUsed - 1)
      BY <2>2, <2>7
    <3>2. UsedEntry(q) = Entry((Low + q) * BlockSize, B[Low + q])
      BY <1>0, <3>1, UsedEntryIs
    <3>3. Low + q = m
      BY <2>2, <2>7
    <3>4. UsedEntry(q) = Entry(m * BlockSize, B[m])
      BY <3>2, <3>3
    <3>5. QED
      BY <3>4 DEF Entry
  <2>15. QED
    BY <2>1, <2>3, <2>5, <2>13, <2>14
<1>3. QED
  BY <1>1, <1>2

\* Clear destroys what is stored.
LEMMA RemainingIs ==
  ASSUME NEW B \in Numbers, NEW D \in Offsets, Inv(B, D), AtRest, NEW m \in Window
  PROVE  /\ Remaining(B[m]) \subseteq {B[m]} \X Places
         /\ \A i \in Items(m) : <<B[m], Inner(i)>> \in Remaining(B[m]) <=> Stored(i)
<1>0. Types /\ ClaimsRight /\ CallRight(B) /\ RingRight(B) /\ FlagsRight(B) /\ ppc = "idle"
      /\ \A c \in Consumers : pc[c] = "idle"
  BY DEF Inv, Numbering, AtRest
<1>1. PICK H \in Nat, T \in Nat : H = HeadIndex /\ T = TailIndex /\ H <= T
  BY RestIs
<1>2. PICK t \in Int : t = Top /\ t = Num(T - 1) /\ m \in Nat /\ m <= t /\ t \in Window /\ TailBlock = B[t]
  <2>1. Top = Num(T - 1) /\ Top \in Int /\ Low \in Nat /\ Window = Low..Top /\ m \in Nat
        /\ TailBlock = IF Top < 0 THEN NULL ELSE B[Top]
    BY <1>1, RestIs
  <2>2. QED
    BY <2>1
<1>3. \A i \in Items(m) : i \in Nat /\ Num(i) = m /\ Inner(i) \in Places
  BY <1>2, ItemsFinite, NumItems, NumType
<1>4. \A i \in Items(m) : (Done(i) <=> i < H) /\ (Stored(i) <=> i >= H /\ i < T)
  BY <1>0, <1>1, <1>3, IdleIs
<1>5. PICK b \in Blocks : b = B[m]
  BY RestIs
<1>6. Flags[b] = {Inner(i) : i \in {n \in Items(m) : Done(n)}}
  BY <1>0, <1>5 DEF FlagsRight
<1>7. BlockSize \in Nat \ {0, 1} /\ Places = 0..(BlockSize - 1)
  BY BlockSizeIs DEF Places
<1>8. CASE IsEmpty(b)
  <2>1. Remaining(b) = {}
    BY <1>8 DEF Remaining
  <2>2. ASSUME NEW i \in Items(m) PROVE Done(i)
    <3>1. Inner(i) \in Flags[b]
      BY <1>3, <1>8 DEF IsEmpty
    <3>2. PICK n \in Items(m) : Done(n) /\ Inner(n) = Inner(i)
      BY <1>6, <3>1
    <3>3. n = i
      BY <1>3, <3>2, InnerEqual
    <3>4. QED
      BY <3>2, <3>3
  <2>3. QED
    BY <1>1, <1>3, <1>4, <1>5, <2>1, <2>2
<1>9. CASE ~IsEmpty(b)
  <2>1. PICK x \in Items(m) : x >= H
    <3>1. SUFFICES ASSUME \A i \in Items(m) : Done(i) PROVE FALSE
      BY <1>1, <1>3, <1>4
    <3>2. ASSUME NEW j \in Places PROVE j \in Flags[b]
      <4>1. PICK i \in Int : i = m * BlockSize + j
        BY <1>2, <1>7
      <4>2. Num(i) = m /\ Inner(i) = j
        BY <1>2, <4>1, NumUnique
      <4>3. i \in Items(m)
        BY <1>2, <4>1, <4>2, NumItems
      <4>4. QED
        BY <1>6, <3>1, <4>2, <4>3
    <3>3. Flags[b] \subseteq Places
      BY <1>0 DEF Types
    <3>4. QED
      BY <1>9, <3>2, <3>3 DEF IsEmpty
  <2>2. Num(H) <= m
    BY <1>1, <1>3, <2>1, NumMono
  <2>3. PICK first \in Places : /\ first = IF b = HalfDequeuedBlock THEN Inner(HeadIndex) ELSE 0
                                /\ \A i \in Items(m) : Inner(i) >= first <=> i >= H
    <3>1. CASE b = HalfDequeuedBlock
      <4>1. Inner(H) # 0 /\ Num(H) \in Window /\ B[Num(H)] = b
        BY <1>1, <1>5, <3>1, HalfIs, FastQueueAssumption DEF FastQueueAssumption
      <4>2. Num(H) = m
        BY <1>0, <1>5, <4>1, RingOne
      <4>3. \A i \in Items(m) : Inner(i) >= Inner(H) <=> i >= H
        <5>1. TAKE i \in Items(m)
        <5>2. i \in Nat /\ Num(i) = Num(H)
          BY <1>3, <4>2
        <5>3. QED
          BY <1>1, <5>2, BlockSizeIs DEF Num, Inner
      <4>4. Inner(H) \in Places
        BY <1>1, NumType
      <4>5. QED
        BY <1>1, <3>1, <4>3, <4>4
    <3>2. CASE b # HalfDequeuedBlock
      <4>1. \A i \in Items(m) : i >= H
        <5>1. CASE Inner(H) = 0
          <6>1. TAKE i \in Items(m)
          <6>2. i \in Nat /\ Num(H) <= Num(i)
            BY <1>3, <2>2
          <6>3. QED
            BY <1>1, <5>1, <6>2, BlockSizeIs DEF Num, Inner
        <5>2. CASE Inner(H) # 0
          <6>1. Num(H) # m
            BY <1>1, <1>5, <3>2, <5>2, HalfIs
          <6>2. TAKE i \in Items(m)
          <6>3. i \in Nat /\ Num(H) < Num(i)
            BY <1>1, <1>2, <1>3, <2>2, <6>1, NumType
          <6>4. QED
            BY <1>1, <6>3, BlockSizeIs DEF Num
        <5>3. QED
          BY <5>1, <5>2
      <4>2. \A i \in Items(m) : Inner(i) >= 0
        BY <1>3, <1>7
      <4>3. 0 \in Places
        BY <1>7
      <4>4. QED
        BY <3>2, <4>1, <4>2, <4>3
    <3>3. QED
      BY <3>1, <3>2
  <2>4. PICK last \in 0..BlockSize :
          /\ last = IF b = TailBlock /\ Inner(TailIndex) # 0 THEN Inner(TailIndex) ELSE BlockSize
          /\ \A i \in Items(m) : Inner(i) < last <=> i < T
    <3>1. CASE b = TailBlock /\ Inner(T) # 0
      <4>1. m = t
        BY <1>0, <1>2, <1>5, <3>1, RingOne
      <4>2. Num(T) = m
        BY <1>1, <1>2, <3>1, <4>1, NumBefore
      <4>3. \A i \in Items(m) : Inner(i) < Inner(T) <=> i < T
        <5>1. TAKE i \in Items(m)
        <5>2. i \in Nat /\ Num(i) = Num(T)
          BY <1>3, <4>2
        <5>3. QED
          BY <1>1, <5>2, BlockSizeIs DEF Num, Inner
      <4>4. Inner(T) \in 0..BlockSize
        <5>1. Inner(T) \in Places
          BY <1>1, NumType
        <5>2. Places \subseteq 0..BlockSize
          BY <1>7
        <5>3. QED
          BY <5>1, <5>2
      <4>5. QED
        BY <1>1, <3>1, <4>3, <4>4
    <3>2. CASE ~(b = TailBlock /\ Inner(T) # 0)
      <4>1. \A i \in Items(m) : i < T
        <5>1. CASE Inner(T) = 0
          <6>1. TAKE i \in Items(m)
          <6>2. i \in Nat /\ Num(i) <= Num(T - 1)
            BY <1>2, <1>3
          <6>3. QED
            BY <1>1, <5>1, <6>2, BlockSizeIs DEF Num, Inner
        <5>2. CASE Inner(T) # 0
          <6>1. m # t
            BY <1>2, <1>5, <3>2, <5>2
          <6>2. TAKE i \in Items(m)
          <6>3. i \in Nat /\ Num(i) < Num(T - 1)
            BY <1>2, <1>3, <6>1
          <6>4. QED
            BY <1>1, <6>3, BlockSizeIs DEF Num
        <5>3. QED
          BY <5>1, <5>2
      <4>2. \A i \in Items(m) : Inner(i) < BlockSize
        BY <1>3, <1>7
      <4>3. BlockSize \in 0..BlockSize
        BY <1>7
      <4>4. QED
        BY <1>1, <3>2, <4>1, <4>2, <4>3
    <3>3. QED
      BY <3>1, <3>2
  <2>5. Remaining(b) = {<<b, j>> : j \in first..(last - 1)}
    BY <1>9, <2>3, <2>4 DEF Remaining
  <2>6. first..(last - 1) \subseteq Places
    BY <1>7, <2>3, <2>4
  <2>7. \A i \in Items(m) : Inner(i) \in first..(last - 1) <=> i >= H /\ i < T
    <3>1. TAKE i \in Items(m)
    <3>2. Inner(i) \in Int /\ first \in Int /\ last \in Int
      BY <1>3, <1>7, <2>3, <2>4
    <3>3. QED
      BY <2>3, <2>4, <3>2
  <2>8. Remaining(b) \subseteq {b} \X Places
    BY <2>5, <2>6
  <2>9. \A i \in Items(m) : <<b, Inner(i)>> \in Remaining(b) <=> Stored(i)
    BY <1>4, <2>5, <2>7
  <2>10. QED
    BY <1>5, <2>8, <2>9
<1>10. QED
  BY <1>8, <1>9

\* The destructor destroys every object and gives every block back.
LEMMA ClearStep ==
  ASSUME NEW B \in Numbers, NEW D \in Offsets, Inv(B, D), HarmKnown, Clear
  PROVE  ClearedInv'
<1>0. /\ Types /\ ClaimsRight /\ CallRight(B) /\ RingRight(B) /\ SlotsRight(B) /\ AtRest
      /\ ppc' = "cleared" /\ free' = free \union Ring
      /\ UNCHANGED <<HeadIndex, TailIndex, TailBlock, PO_NextIndexEntry, PO_IndexEntriesUsed, arrays, Next,
                     Flags, pc, harm>>
  BY DEF Inv, Numbering, Clear, AtRest, indexVars, consumers
<1>1. Ring = {B[m] : m \in Window} /\ Ring = Blocks \ free
  BY RingIs
<1>2. free' = Blocks
  BY <1>0, <1>1 DEF Types
<1> DEFINE places == UNION {Remaining(b) : b \in Ring}
<1>3. Slots' = [b \in Blocks |-> [j \in Places |->
                IF <<b, j>> \in places THEN Destroyed(b, j) ELSE Slots[b][j]]]
  BY DEF Clear, Destroy
<1>4. ASSUME NEW b \in Blocks, NEW j \in Places
      PROVE  Slots'[b][j] = Raw
  <2>1. CASE b \in free
    <3>1. <<b, j>> \notin places
      <4>1. SUFFICES ASSUME NEW x \in Ring, <<b, j>> \in Remaining(x) PROVE FALSE
        OBVIOUS
      <4>2. PICK m \in Window : x = B[m]
        BY <1>1
      <4>3. b = x
        BY <4>1, <4>2, <1>0, RemainingIs
      <4>4. QED
        BY <1>1, <2>1, <4>3
    <3>2. Slots[b][j] = Raw
      BY <1>0, <2>1 DEF SlotsRight
    <3>3. QED
      BY <1>3, <3>1, <3>2
  <2>2. CASE b \notin free
    <3>1. PICK m \in Window : b = B[m]
      BY <1>1, <2>2
    <3>2. m \in Nat
      BY <1>0, RestIs
    <3>3. PICK i \in Int : i \in Items(m) /\ Inner(i) = j /\ i \in Nat
      <4>1. PICK i \in Int : i = m * BlockSize + j
        BY <3>2, BlockSizeIs DEF Places
      <4>2. Num(i) = m /\ Inner(i) = j
        BY <3>2, <4>1, NumUnique
      <4>3. i \in Items(m)
        BY <3>2, <4>2, NumItems
      <4>4. QED
        BY <3>2, <4>2, <4>3, ItemsFinite
    <3>4. <<b, j>> \in places <=> Stored(i)
      <4>1. <<b, j>> \in Remaining(b) <=> Stored(i)
        BY <1>0, <3>1, <3>3, RemainingIs
      <4>2. ASSUME NEW x \in Ring, <<b, j>> \in Remaining(x) PROVE x = b
        <5>1. PICK n \in Window : x = B[n]
          BY <1>1
        <5>2. QED
          BY <4>2, <5>1, <1>0, RemainingIs
      <4>3. b \in Ring
        BY <1>1, <2>2
      <4>4. QED
        BY <4>1, <4>2, <4>3
    <3>5. Slots[b][j] = IF Stored(i) THEN i ELSE Raw
      BY <1>0, <3>1, <3>3 DEF SlotsRight
    <3>6. CASE Stored(i)
      <4>1. i # Raw /\ i # Bad
        BY <3>3, FastQueueAssumption DEF FastQueueAssumption
      <4>2. Destroyed(b, j) = Raw
        BY <3>5, <3>6, <4>1 DEF Destroyed
      <4>3. QED
        BY <1>3, <3>4, <3>6, <4>2
    <3>7. CASE ~Stored(i)
      BY <1>3, <3>4, <3>5, <3>7
    <3>8. QED
      BY <3>6, <3>7
  <2>3. QED
    BY <2>1, <2>2
<1>5. Slots' \in [Blocks -> [Places -> 0..(MaxTail - 1) \union {Raw, Bad}]]
  <2>1. Slots' = [b \in Blocks |-> [j \in Places |-> Slots'[b][j]]]
    BY <1>3
  <2>2. QED
    BY <1>4, <2>1
<1>6. TypeOK'
  <2>1. TypeOK
    BY TypesGive
  <2>2. Current' = Current
    BY <1>0 DEF Current
  <2>3. QED
    BY <1>0, <1>2, <1>5, <2>1, <2>2 DEF TypeOK
<1>7. QED
  BY <1>0, <1>2, <1>4, <1>6 DEF ClearedInv, AtRest

-----------------------------------------------------------------------------
(* The invariant holds throughout. *)

\* An empty queue has no blocks.
LEMMA FastInit == ASSUME Init PROVE FastInv
<1>1. PICK junk \in Junk : arrays = <<NewArray(InitialEntries, <<>>, 0, 0, junk)>>
  BY DEF Init
<1>2. PICK S \in Nat : S = InitialEntries /\ S >= 4
  BY FastQueueAssumption DEF FastQueueAssumption
<1>3. PICK r : r = NewArray(S, <<>>, 0, 0, junk)
  OBVIOUS
<1>4. /\ r.Size = S /\ r.Tail = -1 /\ r.Entries = [k \in 0..(S - 1) |-> Entry(junk, NULL)]
      /\ r = [Size |-> r.Size, Tail |-> r.Tail, Entries |-> r.Entries]
  <2>1. \A k \in 0..(S - 1) : ~(k < 0)
    BY <1>2
  <2>2. QED
    BY <1>3, <2>1 DEF NewArray
<1>5. r \in IndexEntryArrays /\ r.Entries \in [0..(S - 1) -> IndexEntries]
  <2>1. Entry(junk, NULL) \in IndexEntries
    BY DEF Entry, IndexEntries
  <2>2. r.Entries \in [0..(S - 1) -> IndexEntries]
    BY <1>4, <2>1
  <2>3. QED
    BY <1>2, <1>4, <2>2 DEF IndexEntryArrays
<1>6. arrays \in Seq(IndexEntryArrays) /\ Len(arrays) = 1 /\ arrays[1] = r /\ Current = r
  BY <1>1, <1>2, <1>3, <1>5 DEF Current
<1>7. Types
  <2>1. NoEnq \in Enqs
    BY DEF NoEnq, Enqs
  <2>2. NoDeq \in Deqs
    BY DEF NoDeq, Deqs
  <2>3. /\ HeadIndex \in Nat /\ TailIndex \in Nat /\ HeadIndex <= TailIndex /\ TailIndex <= MaxTail
    BY FastQueueAssumption DEF Init, FastQueueAssumption
  <2>4. Slots \in [Blocks -> [Places -> 0..(MaxTail - 1) \union {Raw, Bad}]]
    BY DEF Init
  <2>5. QED
    BY <1>6, <2>1, <2>2, <2>3, <2>4 DEF Init, Types, EnqueuePlaces, DequeuePlaces
<1>8. \A c \in Consumers : pc[c] = "idle" /\ deq[c] = NoDeq /\ Pending(c) = {}
  <2>1. TAKE c \in Consumers
  <2>2. pc[c] = "idle" /\ deq[c] = NoDeq
    BY DEF Init
  <2>3. Pending(c) = 0..(-1)
    BY <2>2 DEF Pending, From, NoDeq
  <2>4. QED
    BY <2>2, <2>3
<1>9. ClaimsRight
  <2>1. HeadIndex = 0
    BY DEF Init
  <2>2. QED
    BY <1>8, <2>1 DEF ClaimsRight, NoDeq
<1>10. Last = -1 /\ Top = -1 /\ Low = 0 /\ Window = {} /\ NextNumber = 0
  <2>1. Num(-1) = -1
    <3>1. Num(-1) < 0 /\ Num(-1) \in Int /\ Num(-1 + 1) - 1 <= Num(-1)
      BY BlockSizeIs DEF Num
    <3>2. Num(0) = 0
      BY BlockSizeIs DEF Num
    <3>3. QED
      BY <3>1, <3>2
  <2>2. TailIndex - 1 = -1 /\ enq.op = "none"
    BY DEF Init, NoEnq
  <2>3. Last = -1 /\ Top = -1
    BY <2>1, <2>2 DEF Last, Top
  <2>4. PO_IndexEntriesUsed = 0
    BY DEF Init
  <2>5. Low = 0
    BY <2>3, <2>4 DEF Low
  <2>6. Window = {}
    BY <2>3, <2>5 DEF Window
  <2>7. QED
    BY <2>2, <2>3, <2>5, <2>6 DEF NextNumber
<1>11. PICK B \in Numbers, D \in Offsets : \A n \in Nat : B[n] = NULL /\ D[n] = 0
  <2>1. [n \in Nat |-> NULL] \in Numbers /\ [n \in Nat |-> 0] \in Offsets
    BY DEF Numbers, Offsets
  <2>2. QED
    BY <2>1
<1>12. CallRight(B)
  BY DEF Init, CallRight
<1>13. RingRight(B)
  <2>1. 0 <= Low /\ ~(Top >= 0) /\ Top < 0 /\ Low..(Top - 1) = {} /\ 0..(Low - 1) = {}
    BY <1>10
  <2>2. TailBlock = NULL /\ free = Blocks
    BY DEF Init
  <2>3. QED
    BY <1>10, <2>1, <2>2 DEF RingRight
<1>14. IndexRight(B, D)
  <2>1. At0(1) = 0..(S - 1)
    BY <1>4, <1>6 DEF At0
  <2>2. \A s \in 0..(S - 1) : ~Written(1, s)
    BY <1>4, <1>6 DEF Written, Entry
  <2>3. ArrayRight(D, 1)
    <3>1. arrays[1].Size >= 2 /\ -1 <= arrays[1].Tail /\ arrays[1].Tail < arrays[1].Size
      BY <1>2, <1>4, <1>6
    <3>2. arrays[1].Entries \in [At0(1) -> IndexEntries]
      BY <1>5, <1>6, <2>1
    <3>3. QED
      BY <2>1, <2>2, <3>1, <3>2 DEF ArrayRight
  <2>4. At(D, 1, 0) = 0
    <3>1. 0 % S = 0
      BY <1>2, ModSmall
    <3>2. QED
      BY <1>4, <1>6, <1>11, <3>1 DEF At
  <2>5. PO_NextIndexEntry = 0 /\ PO_IndexEntriesUsed = 0 /\ TailIndex = 0 /\ ppc = "idle"
    BY DEF Init
  <2>6. \A a \in 1..Len(arrays) : ArrayRight(D, a)
    <3>1. \A a \in 1..1 : a = 1
      OBVIOUS
    <3>2. QED
      BY <1>6, <2>3, <3>1
  <2>7. PO_IndexEntriesUsed <= Current.Size
    BY <1>2, <1>4, <1>6, <2>5
  <2>8. ~(TailIndex > 0 \/ ppc = "publish")
    BY <2>5
  <2>9. QED
    BY <1>6, <1>10, <2>4, <2>5, <2>6, <2>7, <2>8 DEF IndexRight
<1>15. FlagsRight(B)
  BY <1>10 DEF FlagsRight
<1>16. SlotsRight(B)
  BY <1>10 DEF SlotsRight, Init
<1>17. LookupsRight(B, D)
  BY <1>8 DEF LookupsRight, LookupRight
<1>18. Numbering(B, D)
  BY <1>12, <1>13, <1>14, <1>15, <1>16, <1>17 DEF Numbering
<1>19. ppc # "cleared"
  BY DEF Init
<1>20. QED
  BY <1>7, <1>9, <1>11, <1>18, <1>19 DEF FastInv, Numbers, Offsets

\* The numbers of the invariant.
LEMMA InvIs ==
  /\ FastInv <=> \E B \in Numbers, D \in Offsets : Inv(B, D)
  /\ FastInv' <=> \E B \in Numbers, D \in Offsets : Inv(B, D)'
BY DEF FastInv, Inv, Numbers, Offsets

\* Steps of the producer.
LEMMA EnqueueKeeps ==
  ASSUME NoBulkFails, NEW B \in Numbers, NEW D \in Offsets, Inv(B, D), EnqueueStep
  PROVE  FastInv'
<1>1. ASSUME ReuseBlock PROVE FastInv'
  BY <1>1, ReuseBlockStep, InvIs
<1>2. ASSUME NothingToReuse PROVE FastInv'
  BY <1>2, NothingToReuseStep, InvIs
<1>3. ASSUME GrowIndex PROVE FastInv'
  BY <1>3, GrowIndexStep, InvIs
<1>4. ASSUME RequisitionBlock PROVE FastInv'
  BY <1>4, RequisitionBlockStep, InvIs
<1>5. ASSUME EnqueueFails PROVE FastInv'
  BY <1>5, EnqueueFailsStep, InvIs
<1>6. ASSUME RequisitionThrows PROVE FastInv'
  BY <1>6, RequisitionThrowsStep, InvIs
<1>7. ASSUME Construct PROVE FastInv'
  BY <1>7, ConstructStep, InvIs
<1>8. ASSUME NEW k, ConstructThrows(k) PROVE FastInv'
  BY <1>8 DEF ConstructThrows, NoBulkFails
<1>9. ASSUME StoreIndexTail PROVE FastInv'
  BY <1>9, StoreIndexTailStep, InvIs
<1>10. ASSUME Publish PROVE FastInv'
  BY <1>10, PublishStep, InvIs
<1>11. QED
  BY <1>1, <1>2, <1>3, <1>4, <1>5, <1>6, <1>7, <1>8, <1>9, <1>10 DEF EnqueueStep

\* Steps of a consumer.
LEMMA DequeueKeeps ==
  ASSUME NoBulkFails, NEW B \in Numbers, NEW D \in Offsets, Inv(B, D), NEW c \in Consumers, DequeueStep(c)
  PROVE  FastInv'
<1>0. pc[c] \in DequeuePlaces
  BY DEF Inv, Types
<1>1. ASSUME LoadArray(c) PROVE FastInv'
  BY <1>1, LoadArrayStep, InvIs
<1>2. ASSUME LoadTail(c) PROVE FastInv'
  BY <1>2, LoadTailStep, InvIs
<1>3. ASSUME ReadBase(c) PROVE FastInv'
  BY <1>3, ReadBaseStep, InvIs
<1>4. ASSUME ReadBlock(c) PROVE FastInv'
  BY <1>4, ReadBlockStep, InvIs
<1>5. ASSUME MoveOut(c) PROVE FastInv'
  BY <1>5, MoveOutStep, InvIs
<1>6. ASSUME SetEmpty(c) PROVE FastInv'
  BY <1>6, SetEmptyStep, InvIs
<1>7. ~DropItems(c) /\ ~SetDroppedEmpty(c) /\ ~NextDropped(c)
  BY <1>0 DEF DropItems, SetDroppedEmpty, NextDropped, DequeuePlaces, NoBulkFails
<1>8. QED
  BY <1>1, <1>2, <1>3, <1>4, <1>5, <1>6, <1>7 DEF DequeueStep

\* Every step keeps the invariant.
LEMMA FastNext ==
  ASSUME NoBulkFails, FastInv, HarmKnown, [NextStep]_vars
  PROVE  FastInv' \/ ClearedInv'
<1>0. PICK B \in Numbers, D \in Offsets : Inv(B, D)
  BY InvIs
<1>1. ASSUME NEW mode \in Modes, BeginEnqueue("one", 1, mode) PROVE FastInv'
  BY <1>0, <1>1, BeginEnqueueStep, InvIs
<1>2. ASSUME NEW mode \in Modes, NEW n \in Batches, BeginEnqueue("bulk", n, mode) PROVE FastInv'
  <2>1. n \in Nat /\ n >= 1
    BY FastQueueAssumption DEF FastQueueAssumption, NoBulkFails
  <2>2. QED
    BY <1>0, <1>2, <2>1, BeginEnqueueStep, InvIs
<1>3. ASSUME EnqueueStep PROVE FastInv'
  BY <1>0, <1>3, EnqueueKeeps
<1>4. ASSUME NEW c \in Consumers, DequeueStep(c) PROVE FastInv'
  BY <1>0, <1>4, DequeueKeeps
<1>5. ASSUME NEW c \in Consumers, NEW max \in Requests, Claim(c, max) PROVE FastInv'
  BY <1>0, <1>5, ClaimStep, InvIs
<1>6. ASSUME Clear PROVE ClearedInv'
  BY <1>0, <1>6, ClearStep
<1>7. ~Cleared
  BY <1>0 DEF Cleared, Inv
<1>8. ASSUME UNCHANGED vars PROVE FastInv'
  <2>1. UNCHANGED <<HeadIndex, TailIndex, TailBlock, PO_NextIndexEntry, PO_IndexEntriesUsed, arrays,
                    Next, Flags, Slots, free, ppc, enq, pc, deq, harm>>
    BY <1>8 DEF vars, producer, indexVars, blockVars, consumers
  <2>3. /\ ConsumersStay /\ UNCHANGED <<TailBlock, indexVars, blockVars>>
        /\ ProducerStays
    BY <2>1 DEF ConsumersStay, ProducerStays, producer, indexVars, blockVars, consumers
  <2>4. Types /\ ClaimsRight /\ Numbering(B, D) /\ ppc # "cleared"
    BY <1>0 DEF Inv
  <2>5. Types' /\ ClaimsRight'
    BY <2>1, <2>3, <2>4, ClaimsStay DEF Types
  <2>6. CallRight(B)' /\ IndexRight(B, D)'
    BY <2>3, <2>4, CallStays, IndexStays DEF Numbering
  <2>7. /\ \A i : Done(i)' = Done(i) /\ Stored(i)' = Stored(i)
        /\ Top' = Top /\ Low' = Low /\ Window' = Window
    BY <2>1, <2>3, ClaimsStay, NumbersStay DEF Stored
  <2>8. RingRight(B)' /\ FlagsRight(B)'
    BY <2>1, <2>3, <2>4, <2>7, ClaimsStay DEF RingRight, FlagsRight, Numbering, Items
  <2>9. SlotsRight(B)'
    BY <2>1, <2>4, <2>7 DEF SlotsRight, Numbering, Items
  <2>10. LookupsRight(B, D)'
    BY <2>1, <2>3, <2>4, ClaimsStay, NumbersStay DEF LookupsRight, LookupRight, Numbering
  <2>11. QED
    BY <1>0, <2>1, <2>4, <2>5, <2>6, <2>8, <2>9, <2>10, InvIs DEF Inv, Numbering
<1>9. QED
  BY <1>1, <1>2, <1>3, <1>4, <1>5, <1>6, <1>7, <1>8 DEF NextStep

\* Nothing happens after Clear.
LEMMA ClearedNext ==
  ASSUME ClearedInv, [NextStep]_vars
  PROVE  ClearedInv'
<1>1. ppc = "cleared" /\ \A c \in Consumers : pc[c] = "idle"
  BY DEF ClearedInv
<1>2. ~EnqueueStep
  BY <1>1 DEF EnqueueStep, ReuseBlock, NothingToReuse, GrowIndex, RequisitionBlock, EnqueueFails,
              RequisitionThrows, Construct, ConstructThrows, StoreIndexTail, Publish
<1>3. \A op, n, mode : ~BeginEnqueue(op, n, mode)
  BY <1>1 DEF BeginEnqueue
<1>4. \A c \in Consumers : ~DequeueStep(c) /\ \A max : ~Claim(c, max)
  BY <1>1 DEF DequeueStep, LoadArray, LoadTail, ReadBase, ReadBlock, MoveOut, SetEmpty, DropItems,
              SetDroppedEmpty, NextDropped, Claim
<1>5. ~Clear
  BY <1>1 DEF Clear
<1>6. UNCHANGED vars
  BY <1>2, <1>3, <1>4, <1>5 DEF NextStep, Cleared
<1>7. UNCHANGED <<HeadIndex, TailIndex, TailBlock, PO_NextIndexEntry, PO_IndexEntriesUsed, arrays,
                  Next, Flags, Slots, free, ppc, enq, pc, deq, harm>>
  BY <1>6 DEF vars, producer, indexVars, blockVars, consumers
<1>8. TypeOK'
  BY <1>7 DEF ClearedInv, TypeOK, Current
<1>9. QED
  BY <1>7, <1>8 DEF ClearedInv

\* As long as no call fails half-way, the queue is right until it is cleared, and clear after that.
THEOREM FastAlways == ASSUME NoBulkFails PROVE Spec => [](FastInv \/ ClearedInv)
<1>1. Init => FastInv \/ ClearedInv
  BY FastInit
<1>2. (FastInv \/ ClearedInv) /\ HarmKnown /\ [NextStep]_vars => (FastInv \/ ClearedInv)'
  BY FastNext, ClearedNext
<1>3. QED
  BY <1>1, <1>2, HarmAlways, PTL DEF Spec

-----------------------------------------------------------------------------
(* The properties. *)

\* What a slot of a block of the queue holds.
LEMMA SlotIs ==
  ASSUME NEW B \in Numbers, NEW D \in Offsets, Inv(B, D), NEW b \in Blocks, NEW j \in Places
  PROVE  \/ Slots[b][j] = Raw
         \/ \E m \in Window, i \in Nat :
              b = B[m] /\ i \in Items(m) /\ Num(i) = m /\ Inner(i) = j /\ Slots[b][j] = i
<1>0. Types /\ ClaimsRight /\ CallRight(B) /\ RingRight(B) /\ SlotsRight(B)
  BY DEF Inv, Numbering
<1>1. CASE b \in free
  BY <1>0, <1>1 DEF SlotsRight
<1>2. CASE b \notin free
  <2>1. PICK m \in Window : b = B[m]
    BY <1>0, <1>2 DEF RingRight
  <2>2. m \in Nat
    BY <1>0, <2>1, LowBound, TopType
  <2>3. PICK i \in Int : i = m * BlockSize + j
    BY <2>2, BlockSizeIs DEF Places
  <2>4. Num(i) = m /\ Inner(i) = j
    BY <2>2, <2>3, NumUnique
  <2>5. i \in Items(m) /\ i \in Nat
    BY <2>2, <2>3, <2>4, NumItems, ItemsFinite
  <2>6. Slots[b][j] = IF Stored(i) THEN i ELSE Raw
    BY <1>0, <2>1, <2>4, <2>5 DEF SlotsRight
  <2>7. QED
    BY <2>1, <2>4, <2>5, <2>6
<1>3. QED
  BY <1>1, <1>2

\* The invariant gives the properties.
LEMMA FastTypeOK == ASSUME FastInv, HarmKnown PROVE TypeOK
BY InvIs, TypesGive

\* A consumer that has its block has the block of its items, and they are stored.
LEMMA FastLookupFinds == ASSUME FastInv PROVE LookupFinds
<1>1. PICK B \in Numbers, D \in Offsets : Inv(B, D)
  BY InvIs
<1>2. Types /\ ClaimsRight /\ CallRight(B) /\ RingRight(B) /\ SlotsRight(B) /\ LookupsRight(B, D)
  BY <1>1 DEF Inv, Numbering
<1>3. ASSUME NEW c \in Consumers, pc[c] \in {"move", "drop"}
      PROVE  deq[c].Block \in Blocks /\ \A i \in Segment(c) : Slots[deq[c].Block][Inner(i)] = i
  <2>1. pc[c] = "move"
    BY <1>2, <1>3 DEF Types, DequeuePlaces
  <2>2. PICK m \in Nat : m = Num(From(c)) /\ m \in Window /\ B[m] \in Blocks \ free
    BY <1>2, <2>1, SegmentIs
  <2>3. deq[c].Block = B[m]
    BY <1>2, <2>1, <2>2 DEF LookupsRight, LookupRight
  <2>4. ASSUME NEW i \in Segment(c) PROVE Slots[B[m]][Inner(i)] = i
    <3>1. i \in Pending(c) /\ i \in Items(m) /\ i < TailIndex
      BY <1>2, <2>1, <2>2, SegmentIs
    <3>2. i \in Unmoved(c)
      BY <2>1, <3>1 DEF Unmoved
    <3>3. Stored(i)
      BY <3>1, <3>2 DEF Stored
    <3>4. QED
      BY <1>2, <2>2, <3>1, <3>3 DEF SlotsRight
  <2>5. QED
    BY <2>2, <2>3, <2>4
<1>4. QED
  BY <1>3 DEF LookupFinds

\* An item that nobody has claimed is stored in its block, and only there.
LEMMA FastUnclaimedStored == ASSUME FastInv PROVE UnclaimedStored
<1>1. PICK B \in Numbers, D \in Offsets : Inv(B, D)
  BY InvIs
<1>2. Types /\ ClaimsRight /\ CallRight(B) /\ RingRight(B) /\ SlotsRight(B)
  BY <1>1 DEF Inv, Numbering
<1>3. PICK H \in Nat, T \in Nat : H = HeadIndex /\ T = TailIndex
  BY <1>2 DEF Types
<1>4. ASSUME NEW i \in H..(T - 1)
      PROVE  Cardinality({p \in Blocks \X Places : Slots[p[1]][p[2]] = i}) = 1
  <2>1. i \in Nat /\ i >= H /\ i < T /\ i <= T - 1 /\ T - 1 \in Int
    BY <1>3
  <2>2. PICK m \in Nat : m = Num(i) /\ m <= Last
    BY <1>3, <2>1, NumType, NumMono DEF Last
  <2>3. m \in Window
    <3>1. Num(i) <= Top
      BY <1>2, <2>2, TopType
    <3>2. QED
      BY <1>2, <1>3, <2>1, <2>2, <3>1, UnclaimedInWindow
  <2>4. i \in Items(m) /\ Inner(i) \in Places /\ B[m] \in Blocks
    BY <1>2, <2>1, <2>2, <2>3, NumItems, NumType DEF RingRight
  <2>5. Stored(i)
    BY <1>3, <2>1 DEF Stored
  <2>6. Slots[B[m]][Inner(i)] = i
    BY <1>2, <2>3, <2>4, <2>5 DEF SlotsRight
  <2>7. ASSUME NEW b \in Blocks, NEW j \in Places, Slots[b][j] = i
        PROVE  b = B[m] /\ j = Inner(i)
    <3>1. i # Raw
      BY <2>1, FastQueueAssumption DEF FastQueueAssumption
    <3>2. PICK n \in Window, k \in Nat :
            b = B[n] /\ k \in Items(n) /\ Num(k) = n /\ Inner(k) = j /\ Slots[b][j] = k
      BY <1>1, <2>7, <3>1, SlotIs
    <3>3. QED
      BY <2>2, <2>7, <3>2
  <2>8. {p \in Blocks \X Places : Slots[p[1]][p[2]] = i} = {<<B[m], Inner(i)>>}
    BY <2>4, <2>6, <2>7
  <2>9. QED
    BY <2>8, FS_Singleton
<1>5. QED
  BY <1>3, <1>4 DEF UnclaimedStored

\* A slot holds an item or nothing.
LEMMA FastLifetimesRight == ASSUME FastInv PROVE LifetimesRight
<1>1. PICK B \in Numbers, D \in Offsets : Inv(B, D)
  BY InvIs
<1>2. ASSUME NEW b \in Blocks, NEW j \in Places PROVE Slots[b][j] # Bad
  <2>1. Raw # Bad /\ \A i \in Nat : i # Bad
    BY FastQueueAssumption DEF FastQueueAssumption
  <2>2. QED
    BY <1>1, <2>1, SlotIs
<1>3. QED
  BY <1>2 DEF LifetimesRight

\* A queue that was cleared holds nothing.
LEMMA ClearedRight ==
  ASSUME ClearedInv
  PROVE  TypeOK /\ LookupFinds /\ UnclaimedStored /\ LifetimesRight /\ ClearedComplete
<1>1. ppc = "cleared" /\ (\A c \in Consumers : pc[c] = "idle") /\ free = Blocks
      /\ (\A b \in Blocks, j \in Places : Slots[b][j] = Raw) /\ TypeOK
  BY DEF ClearedInv
<1>2. Raw # Bad
  BY FastQueueAssumption DEF FastQueueAssumption
<1>3. LookupFinds
  BY <1>1 DEF LookupFinds
<1>4. UnclaimedStored
  BY <1>1 DEF UnclaimedStored
<1>5. LifetimesRight
  BY <1>1, <1>2 DEF LifetimesRight
<1>6. ClearedComplete
  BY <1>1 DEF ClearedComplete
<1>7. QED
  BY <1>1, <1>3, <1>4, <1>5, <1>6

\* A queue that was not cleared promises nothing of the kind.
LEMMA FastClearedComplete == ASSUME FastInv PROVE ClearedComplete
BY DEF FastInv, ClearedComplete

-----------------------------------------------------------------------------
(* The theorems. *)

\* Every variable of the queue keeps a value of its kind.
THEOREM FastTypes == ASSUME NoBulkFails PROVE Spec => []TypeOK
<1>1. HarmKnown /\ (FastInv \/ ClearedInv) => TypeOK
  BY FastTypeOK, ClearedRight
<1>2. QED
  BY <1>1, FastAlways, HarmAlways, PTL

\* Whatever a consumer's Dequeue reads of the index while the producer writes it and
\* replaces it, the block it comes to has its items.
THEOREM LookupsFind == ASSUME NoBulkFails PROVE Spec => []LookupFinds
<1>1. FastInv \/ ClearedInv => LookupFinds
  BY FastLookupFinds, ClearedRight
<1>2. QED
  BY <1>1, FastAlways, PTL

\* Enqueue's reuse of blocks never takes one with an item that a Dequeue can still claim.
THEOREM UnclaimedStay == ASSUME NoBulkFails PROVE Spec => []UnclaimedStored
<1>1. FastInv \/ ClearedInv => UnclaimedStored
  BY FastUnclaimedStored, ClearedRight
<1>2. QED
  BY <1>1, FastAlways, PTL

\* Enqueue makes objects only in slots without one, Dequeue and the destructor destroy
\* only what is there.
THEOREM LifetimesStay == ASSUME NoBulkFails PROVE Spec => []LifetimesRight
<1>1. FastInv \/ ClearedInv => LifetimesRight
  BY FastLifetimesRight, ClearedRight
<1>2. QED
  BY <1>1, FastAlways, PTL

\* The destructor leaves no object and no block behind.
THEOREM ClearLeavesNothing == ASSUME NoBulkFails PROVE Spec => []ClearedComplete
<1>1. FastInv \/ ClearedInv => ClearedComplete
  BY FastClearedComplete, ClearedRight
<1>2. QED
  BY <1>1, FastAlways, PTL
=============================================================================
