--------------------------- MODULE SlowQueue_proofs --------------------------
(***************************************************************************)
(* The queue of an implicit producer is correct for every number of        *)
(* consumers, blocks and items, every block size and every size of the     *)
(* index, as long as no allocation of a block behind the first one throws. *)
(***************************************************************************)
EXTENDS SlowQueue, FiniteSetTheorems, SequenceTheorems, TLAPS

-----------------------------------------------------------------------------
(* Blocks are numbered in the order of their items.                          *)

\* The number of the block an index belongs to, and the indexes of a block.
Num(i) == i \div BlockSize
Items(m) == (m * BlockSize)..(m * BlockSize + BlockSize - 1)

\* The last block with published items, and the one the index's Tail is at.
LastNumber == Num(TailIndex - 1)
TailNumber == LastNumber + enq.Taken + (IF ppc = "block" THEN 1 ELSE 0)

\* The slot and the entry of the current array that belong to block m.
At(m) == (Current.Tail + (m - TailNumber)) % Current.Size
Home(m) == Current.Index[At(m)]

\* The items c has still to see to, from the first of the block it is at; those
\* it has not counted as emptied, and those it has not moved out.
From(c) == deq[c].First + deq[c].Count - deq[c].Need
Pending(c) == From(c)..(deq[c].First + deq[c].Count - 1)
Uncounted(c) == {i \in Pending(c) : pc[c] \in {"free", "return"} => Num(i) # Num(From(c))}
Unmoved(c) == {i \in Pending(c) : pc[c] \in {"count", "free", "return"} => Num(i) # Num(From(c))}

Done(i) == i < HeadIndex /\ \A c \in Consumers : i \notin Uncounted(c)
Stored(i) ==
  \/ i < TailIndex /\ (i >= HeadIndex \/ \E c \in Consumers : i \in Unmoved(c))
  \/ ppc = "publish" /\ i >= TailIndex /\ i < TailIndex + enq.Count

\* The blocks in the index: those with items left, or that wait for a consumer to
\* free their entry, and those the running call has taken.
AllDone(m) == \A i \in Items(m) : Done(i)
Freeing(m) == \E c \in Consumers : pc[c] = "free" /\ Num(From(c)) = m
Live == {m \in 0..LastNumber : AllDone(m) => Freeing(m)}
New == (LastNumber + 1)..(LastNumber + enq.Taken)
Numbers == Live \union New

\* Enqueue stores its block when the item is made.
Unstored(m) == enq.op = "one" /\ ppc = "fill" /\ m = LastNumber + 1
BlockOf(m) == IF Unstored(m) THEN enq.FirstAllocatedBlock ELSE entries[Home(m)].Value

-----------------------------------------------------------------------------
(* The inductive invariant. *)

IndexArrays == [Size : Nat, Tail : Nat, Index : UNION {[0..(n - 1) -> Nat] : n \in Nat}]
Kinds == {"none", "one", "bulk"}
Enqs == [op : Kinds, Mode : {"CanAlloc", "CannotAlloc"}, Count : Nat, Need : Nat, Base : Nat,
         StartBlock : Blocks \union {NULL}, FirstAllocatedBlock : Blocks \union {NULL}, Taken : Nat]
Deqs == [First : Nat, Count : Nat, Need : Nat, Array : Nat, Tail : Nat, Slot : Nat,
         Entry : Nat, Block : Blocks \union {NULL}]
EnqueuePlaces == {"idle", "insert", "tail", "block", "fill", "publish", "cleared"}
DequeuePlaces == {"idle", "array", "tail", "key", "value", "move", "count", "free", "return"}

Types ==
  /\ HeadIndex \in Nat /\ TailIndex \in Nat /\ HeadIndex <= TailIndex /\ TailIndex <= MaxTail
  /\ TailBlock \in Blocks \union {NULL}
  /\ arrays \in Seq(IndexArrays)
  /\ entries \in Seq([Key : Nat, Value : Blocks \union {NULL}])
  /\ Next \in [Blocks -> Blocks \union {NULL}]
  /\ Counter \in [Blocks -> 0..BlockSize]
  /\ Slots \in [Blocks -> [Places -> 0..(MaxTail - 1) \union {Raw, Bad}]]
  /\ free \subseteq Blocks
  /\ ppc \in EnqueuePlaces /\ enq \in Enqs
  /\ pc \in [Consumers -> DequeuePlaces] /\ deq \in [Consumers -> Deqs]

\* The slots of an array.
At0(a) == 0..(arrays[a].Size - 1)

\* Every array is a ring of different entries; the current one has them all, in
\* the order the others have theirs.
ArrayRight(a) ==
  /\ arrays[a].Size >= 2 /\ Current.Size % arrays[a].Size = 0
  /\ arrays[a].Tail \in At0(a)
  /\ arrays[a].Index \in [At0(a) -> 1..Len(entries)]
  /\ \A j, k \in At0(a) : arrays[a].Index[j] = arrays[a].Index[k] => j = k
  /\ \E d \in Nat : \A s \in At0(a), k \in At0(Len(arrays)) :
       arrays[a].Index[s] = Current.Index[k] => s = (k + d) % arrays[a].Size

ArraysRight ==
  /\ Len(arrays) >= 1
  /\ \A a \in 1..Len(arrays) : ArrayRight(a)
  /\ \A e \in 1..Len(entries) : \E k \in At0(Len(arrays)) : Current.Index[k] = e

\* The counts of the running call.
CallRight ==
  /\ ppc = "idle" => enq = NoEnq
  /\ ppc # "idle" =>
       /\ enq.op \in {"one", "bulk"} /\ enq.Count >= 1 /\ TailIndex + enq.Count <= MaxTail
       /\ enq.op = "one" => enq.Count = 1
       /\ enq.Need + enq.Taken = Num(TailIndex + enq.Count - 1) - LastNumber
       /\ enq.Base = (LastNumber + 1 + enq.Taken) * BlockSize
       /\ IF ppc \in {"fill", "publish"} THEN enq.Need = 0 ELSE enq.Need >= 1

\* What the consumers have claimed.
ClaimsRight ==
  \A c \in Consumers :
    /\ IF pc[c] = "idle" THEN deq[c] = NoDeq ELSE 1 <= deq[c].Need /\ deq[c].Need <= deq[c].Count
    /\ deq[c].First + deq[c].Count <= HeadIndex
    /\ \A d \in Consumers \ {c} :
         /\ Pending(c) \intersect Pending(d) = {}
         /\ pc[c] = "free" /\ pc[d] = "free" => Num(From(c)) # Num(From(d))

    /\ pc[c] \in {"array", "tail", "key"} => deq[c].Need = deq[c].Count
    /\ pc[c] \in {"free", "return"} => AllDone(Num(From(c)))

\* The blocks in the index fit into the ring.
WindowRight == \A m \in Numbers : TailNumber - Current.Size < m /\ m <= TailNumber

\* The entry of a block in the index has its key, and so has the one at Tail.
KeysRight ==
  /\ \A m \in Numbers : entries[Home(m)].Key = m * BlockSize
  /\ Live # {} => entries[Home(LastNumber)].Key = LastNumber * BlockSize
  /\ ppc = "tail" => entries[Home(TailNumber + 1)] = [Key |-> enq.Base, Value |-> NULL]
  /\ ppc = "block" => entries[Home(TailNumber)] = [Key |-> enq.Base, Value |-> NULL]

\* An entry has a block exactly if it is that of a block in the index.
ValuesRight ==
  /\ \A m \in Numbers : Unstored(m) <=> entries[Home(m)].Value = NULL
  /\ \A e \in 1..Len(entries) : entries[e].Value # NULL => \E m \in Numbers : e = Home(m)

\* Every block is at the manager, or in the index once, or on its way from the
\* index to the manager.
BlocksRight ==
  /\ \A m \in Numbers : BlockOf(m) \in Blocks \ free
  /\ \A m, n \in Numbers : BlockOf(m) = BlockOf(n) => m = n
  /\ \A c \in Consumers : pc[c] = "return" =>
       /\ deq[c].Block \in Blocks \ free
       /\ \A m \in Numbers : BlockOf(m) # deq[c].Block
       /\ \A d \in Consumers \ {c} : pc[d] = "return" => deq[c].Block # deq[d].Block
  /\ \A b \in Blocks \ free : \/ \E m \in Numbers : BlockOf(m) = b
                              \/ \E c \in Consumers : pc[c] = "return" /\ deq[c].Block = b

\* The blocks of the running call, chained along Next.
Start == IF ppc = "idle" THEN TailBlock ELSE enq.StartBlock
NotYetTail == enq.op = "one" /\ ppc = "fill"

ChainRight ==
  /\ IF TailIndex = 0 THEN Start = NULL ELSE Start \in Blocks
  /\ LastNumber \in Live => Start = BlockOf(LastNumber)
  /\ enq.FirstAllocatedBlock = IF enq.Taken = 0 THEN NULL ELSE BlockOf(LastNumber + 1)
  /\ TailBlock = IF enq.Taken > 0 /\ ~NotYetTail THEN BlockOf(LastNumber + enq.Taken) ELSE Start
  /\ enq.op = "bulk" /\ enq.Taken > 0 =>
       /\ \A m \in (LastNumber + 1)..(LastNumber + enq.Taken - 1) : Next[BlockOf(m)] = BlockOf(m + 1)
       /\ Inner(TailIndex) # 0 => Next[BlockOf(LastNumber)] = BlockOf(LastNumber + 1)

\* The slots of a block in the index hold what is stored of its items, all others
\* nothing.
SlotsRight ==
  /\ \A b \in Blocks : (\A m \in Numbers : b # BlockOf(m)) => \A j \in Places : Slots[b][j] = Raw
  /\ \A m \in Numbers : \A i \in Items(m) :
       Slots[BlockOf(m)][Inner(i)] = IF Stored(i) THEN i ELSE Raw

CountersRight ==
  \A m \in Numbers : Counter[BlockOf(m)] = Cardinality({i \in Items(m) : Done(i)})

\* The entry of block m is in array a; and it is where a search for it from slot t
\* of a comes to.
InArray(a, m) == \E s \in At0(a) : arrays[a].Index[s] = Home(m)
Leads(a, t, m) ==
  \E n \in Nat : /\ entries[arrays[a].Index[t]].Key = n * BlockSize
                 /\ arrays[a].Index[(t + (m - n)) % arrays[a].Size] = Home(m)

LookupRight(c) ==
  /\ pc[c] \notin {"idle", "array"} =>
       deq[c].Array \in 1..Len(arrays) /\ \A i \in Uncounted(c) : InArray(deq[c].Array, Num(i))
  /\ pc[c] = "tail" => Leads(deq[c].Array, arrays[deq[c].Array].Tail, Num(From(c)))
  /\ pc[c] = "key" => /\ deq[c].Tail \in At0(deq[c].Array)
                      /\ Leads(deq[c].Array, deq[c].Tail, Num(From(c)))
  /\ pc[c] \in {"value", "move", "count", "free", "return"} => deq[c].Slot \in At0(deq[c].Array)
  /\ pc[c] \in {"value", "move", "count", "free"} =>
       arrays[deq[c].Array].Index[deq[c].Slot] = Home(Num(From(c)))
  /\ pc[c] \in {"move", "count", "free"} =>
       deq[c].Entry = Home(Num(From(c))) /\ deq[c].Block = BlockOf(Num(From(c)))
  /\ pc[c] = "return" /\ Uncounted(c) # {} =>
       arrays[deq[c].Array].Index[(deq[c].Slot + 1) % arrays[deq[c].Array].Size]
         = Home(Num(From(c)) + 1)

LookupsRight == \A c \in Consumers : LookupRight(c)

SlowInv ==
  /\ Types /\ ArraysRight /\ CallRight /\ ClaimsRight /\ WindowRight /\ KeysRight /\ ValuesRight
  /\ BlocksRight /\ ChainRight /\ SlotsRight /\ CountersRight /\ LookupsRight

\* Once it is cleared, the queue does not change any more.
ClearedInv ==
  /\ ppc = "cleared" /\ Types /\ ArraysRight /\ \A c \in Consumers : pc[c] = "idle"
  /\ \A b \in Blocks, j \in Places : Slots[b][j] = Raw

\* The natural numbers are well-founded, so that induction over them needs no operator.
LEMMA NatWF == IsWellFoundedOn({ss \in Nat \X Nat : ss[1] < ss[2]}, Nat)
  BY NatLessThanWellFounded DEF OpToRel

\* A set of natural numbers that is not empty has a least element: induction over numbers.
LEMMA Least ==
  ASSUME NEW T, T \subseteq Nat, T # {}
  PROVE  \E x \in T : \A y \in T : x <= y
<1> DEFINE R == {ss \in Nat \X Nat : ss[1] < ss[2]}
<1>1. IsWellFoundedOn(R, Nat)
  BY NatWF
<1>2. \E x \in T : \A y \in T : ~ (<<y, x>> \in R)
  <2> HIDE DEF R
  <2> QED BY <1>1, WFMin
<1>3. PICK x \in T : \A y \in T : ~ (<<y, x>> \in R)
  BY <1>2
<1>4. ASSUME NEW y \in T PROVE x <= y
  <2>1. x \in Nat /\ y \in Nat
    OBVIOUS
  <2>2. ~(y < x)
    BY <1>3, <2>1
  <2> QED BY <2>1, <2>2
<1> QED  BY <1>4

\* A remainder is less than the divisor.
LEMMA ModType == ASSUME NEW x \in Int, NEW S \in Nat \ {0} PROVE x % S \in 0..(S - 1)
OBVIOUS

\* Division with remainder.
LEMMA ModQuotient == ASSUME NEW x \in Int, NEW S \in Nat \ {0} PROVE \E q \in Int : x = q * S + (x % S)
<1>1. x = (x \div S) * S + (x % S) /\ x \div S \in Int
  OBVIOUS
<1> QED BY <1>1

\* Products of sums.
LEMMA Distribute ==
  ASSUME NEW q \in Int, NEW p \in Int, NEW S \in Int
  PROVE  (q + p) * S = q * S + p * S /\ q * S \in Int /\ p * S \in Int
OBVIOUS

\* Quotient and remainder are unique.
LEMMA ModUnique ==
  ASSUME NEW S \in Nat \ {0}, NEW x \in Int, NEW q \in Int, NEW r \in 0..(S - 1), x = q * S + r
  PROVE  x % S = r /\ x \div S = q
<1>1. x = (x \div S) * S + (x % S) /\ x \div S \in Int /\ x % S \in 0..(S-1)
  OBVIOUS
<1> DEFINE p == x \div S  t == x % S
<1>2. p \in Int /\ t \in 0..(S-1) /\ q * S + r = p * S + t
  BY <1>1
<1> HIDE DEF p, t
<1>3. (q - p) * S = t - r
  BY <1>2
<1>4. q - p = 0
  <2>1. CASE q - p >= 1
    <3>1. (q - p) * S >= S BY <2>1, <1>2
    <3> QED BY <3>1, <1>3, <1>2
  <2>2. CASE q - p <= -1
    <3>1. (q - p) * S <= -S BY <2>2, <1>2
    <3> QED BY <3>1, <1>3, <1>2
  <2> QED BY <2>1, <2>2, <1>2
<1>5. t = r /\ p = q BY <1>3, <1>4, <1>2
<1> QED BY <1>5 DEF p, t

\* Whole turns of a ring do not count.
LEMMA ModShift ==
  ASSUME NEW S \in Nat \ {0}, NEW q \in Int, NEW y \in Int
  PROVE  (q * S + y) % S = y % S
<1>1. PICK p \in Int : y = p * S + (y % S) BY ModQuotient
<1> DEFINE r == y % S  u == q * S  v == p * S
<1>2. r \in 0..(S - 1) BY ModType
<1>3. (q + p) * S = u + v /\ u \in Int /\ v \in Int BY Distribute
<1>4. y = v + r BY <1>1
<1> HIDE DEF r, u, v
<1>5. u + y = (q + p) * S + r BY <1>2, <1>3, <1>4
<1>6. u + y \in Int /\ q + p \in Int BY <1>3
<1>7. (u + y) % S = r BY <1>2, <1>5, <1>6, ModUnique
<1> QED BY <1>7 DEF u, r

\* A remainder may be taken before an addition.
LEMMA ModPlus ==
  ASSUME NEW S \in Nat \ {0}, NEW x \in Int, NEW y \in Int
  PROVE  ((x % S) + y) % S = (x + y) % S
<1>1. PICK q \in Int : x = q * S + (x % S) BY ModQuotient
<1> DEFINE z == (x % S) + y  u == q * S
<1>2. z \in Int BY ModType
<1>3. x + y = u + z
  <2>1. x % S \in Int /\ u \in Int BY ModType
  <2> QED BY <2>1, <1>1
<1>4. (u + z) % S = z % S BY <1>2, ModShift
<1> QED BY <1>3, <1>4

\* A slot of a ring is its own remainder.
LEMMA ModSmall == ASSUME NEW S \in Nat \ {0}, NEW x \in 0..(S - 1) PROVE x % S = x
<1>1. x = 0 * S + x /\ x \in Int OBVIOUS
<1> QED BY <1>1, ModUnique

\* One turn of a ring does not count.
LEMMA ModTurn == ASSUME NEW S \in Nat \ {0}, NEW x \in Int PROVE (x + S) % S = x % S
<1>1. x + S = 1 * S + x OBVIOUS
<1>2. (1 * S + x) % S = x % S BY 1 \in Int, ModShift
<1> QED BY <1>1, <1>2

\* Within one turn, different numbers have different slots.
LEMMA ModEqual ==
  ASSUME NEW S \in Nat \ {0}, NEW x \in Int, NEW y \in Int,
         x % S = y % S, x - y < S, y - x < S
  PROVE  x = y
<1>1. PICK q \in Int : x = q * S + (x % S) BY ModQuotient
<1>2. PICK p \in Int : y = p * S + (y % S) BY ModQuotient
<1>3. x % S \in 0..(S - 1) BY ModType
<1>4. x - y = (q - p) * S BY <1>1, <1>2, <1>3
<1>5. ~(q - p >= 1)
  <2>1. SUFFICES ASSUME q - p >= 1 PROVE FALSE OBVIOUS
  <2>2. (q - p) * S >= S BY <2>1
  <2> QED BY <2>2, <1>4
<1>6. ~(q - p <= -1)
  <2>1. SUFFICES ASSUME q - p <= -1 PROVE FALSE OBVIOUS
  <2>2. (q - p) * S <= -S BY <2>1
  <2> QED BY <2>2, <1>4
<1>7. q - p = 0 BY <1>5, <1>6
<1> QED BY <1>4, <1>7

\* The slots of a ring, and those of a ring that is a multiple of its size (as an index that has grown is).
LEMMA ModMod ==
  ASSUME NEW S \in Nat \ {0}, NEW Z \in Nat \ {0}, Z % S = 0, NEW x \in Int, NEW y \in Int
  PROVE  ((x % Z) + y) % S = (x + y) % S
<1>1. PICK q \in Int : x = q * Z + (x % Z) BY ModQuotient
<1>2. PICK p \in Int : Z = p * S + (Z % S)
  <2>1. Z \in Int OBVIOUS
  <2> QED BY <2>1, ModQuotient
<1> DEFINE w == (x % Z) + y  u == q * Z
<1>3. w \in Int /\ x % Z \in Int BY ModType
<1>4. u = (q * p) * S BY <1>2
<1>5. x + y = u + w /\ q * p \in Int
  <2>1. u \in Int OBVIOUS
  <2> QED BY <2>1, <1>1, <1>3
<1>6. ((q * p) * S + w) % S = w % S BY <1>3, <1>5, ModShift
<1> QED BY <1>4, <1>5, <1>6

\* The same, as a formula.
LEMMA ModModAll ==
  \A R, Q \in Nat \ {0} : Q % R = 0 => \A x, y \in Int : ((x % Q) + y) % R = (x + y) % R
BY ModMod

\* BLOCK_SIZE is a power of two, so the shifts and masks of the code divide by it.
LEMMA BlockSizeIs == BlockSize \in Nat \ {0, 1} /\ BlockSize \in {2, 4, 8, 16, 32, 64}
<1>1. BlockSize \in {2, 4, 8, 16, 32, 64}
  BY SlowQueueAssumption DEF SlowQueueAssumption
<1> QED BY <1>1

\* An index is the number of its block and its place in it.
LEMMA NumType ==
  ASSUME NEW i \in Int
  PROVE  /\ Num(i) \in Int /\ Inner(i) \in Places /\ i = Num(i) * BlockSize + Inner(i)
         /\ i >= 0 => Num(i) >= 0
         /\ i < 0 => Num(i) < 0
BY BlockSizeIs DEF Num, Inner, Places

\* The number and place of an index that is given by them.
LEMMA NumUnique ==
  ASSUME NEW m \in Int, NEW j \in Places
  PROVE  Num(m * BlockSize + j) = m /\ Inner(m * BlockSize + j) = j
BY BlockSizeIs DEF Num, Inner, Places

\* The items of a block are those with its number.
LEMMA NumItems ==
  ASSUME NEW m \in Int, NEW i \in Int
  PROVE  i \in Items(m) <=> Num(i) = m
BY BlockSizeIs DEF Num, Items

\* Later items are in later blocks.
LEMMA NumMono ==
  ASSUME NEW i \in Int, NEW j \in Int, i <= j
  PROVE  Num(i) <= Num(j)
BY BlockSizeIs DEF Num

\* A block begins with the index it is the key of.
LEMMA NumFirst ==
  ASSUME NEW m \in Int, NEW i \in Int
  PROVE  m <= Num(i) <=> m * BlockSize <= i
BY BlockSizeIs DEF Num

\* The block of the item before.
LEMMA NumBefore ==
  ASSUME NEW i \in Int
  PROVE  /\ Inner(i) = 0 => Num(i - 1) = Num(i) - 1
         /\ Inner(i) # 0 => Num(i - 1) = Num(i)
BY BlockSizeIs DEF Num, Inner

\* How many blocks on the item k after i is.
LEMMA NumAhead ==
  ASSUME NEW i \in Int, NEW k \in Int
  PROVE  (Inner(i) + k) \div BlockSize = Num(i + k) - Num(i)
BY BlockSizeIs DEF Num, Inner

\* GetBlockIndexIndexForIndex: the difference of the bases, in blocks.
LEMMA NumDistance ==
  ASSUME NEW i \in Int, NEW n \in Int
  PROVE  ((i - Inner(i)) - n * BlockSize) \div BlockSize = Num(i) - n
BY BlockSizeIs DEF Num, Inner

\* The number of blocks that i items need.
LEMMA NumCeiling ==
  ASSUME NEW i \in Int
  PROVE  (i + BlockSize - 1) \div BlockSize = Num(i - 1) + 1
BY BlockSizeIs DEF Num, Inner

\* A block has BLOCK_SIZE items.
LEMMA ItemsFinite ==
  ASSUME NEW m \in Int
  PROVE  /\ IsFiniteSet(Items(m)) /\ Cardinality(Items(m)) = BlockSize
         /\ m * BlockSize \in Items(m) /\ Items(m) \subseteq Int
         /\ m >= 0 => Items(m) \subseteq Nat
<1>1. m * BlockSize \in Int /\ m * BlockSize + BlockSize - 1 \in Int /\ BlockSize >= 2 
      /\ (m >= 0 => m * BlockSize >= 0)
  BY BlockSizeIs
<1> DEFINE lo == m * BlockSize  hi == lo + BlockSize - 1
<1>3. Items(m) = lo..hi BY DEF Items
<1>6. lo \in Int BY <1>1
<1> HIDE DEF lo
<1>2. lo \in Int /\ hi \in Int /\ hi - lo + 1 = BlockSize /\ lo <= hi BY <1>6, BlockSizeIs
<1> HIDE DEF hi
<1>4. IsFiniteSet(lo..hi) /\ Cardinality(lo..hi) = hi - lo + 1 BY <1>2, FS_Interval
<1>5. lo \in lo..hi /\ lo..hi \subseteq Int /\ (lo >= 0 => lo..hi \subseteq Nat) BY <1>2
<1> QED BY <1>1, <1>2, <1>3, <1>4, <1>5 DEF lo

\* DequeueBulk stops at the end of the items or of the block: the items of one block.
LEMMA SegEnd ==
  ASSUME NEW f \in Int, NEW n \in Nat, n >= 1
  PROVE  f..(f + Lesser(n, BlockSize - Inner(f)) - 1) = {i \in f..(f + n - 1) : Num(i) = Num(f)}
BY BlockSizeIs DEF Num, Inner, Lesser

\* Along a path p of h steps from b, Hop comes to its last block.
LEMMA HopPath ==
  ASSUME NEW h \in Nat, NEW b, NEW p, p = [k \in 0..h |-> p[k]], p[0] = b,
         \A k \in 1..h : p[k] = Next[p[k - 1]]
  PROVE  Hop(b, h) = p[h]
<1> DEFINE IsHop(f) == f = [k \in 0..h |-> IF k = 0 THEN b ELSE Next[f[k - 1]]]
<1>1. Hop(b, h) = (CHOOSE f : IsHop(f))[h]
  BY DEF Hop
<1>2. IsHop(p)
  OBVIOUS
<1>3. ASSUME NEW f, IsHop(f) PROVE f = p
  <2> DEFINE T == {k \in 0..h : f[k] # p[k]}
  <2>1. CASE T = {}
    <3>1. f = [k \in 0..h |-> f[k]] BY <1>3
    <3> QED BY <3>1, <2>1
  <2>2. CASE T # {}
    <3>1. PICK k \in T : \A y \in T : k <= y
      BY <2>2, Least, T \subseteq Nat
    <3>2. f[k] = IF k = 0 THEN b ELSE Next[f[k - 1]]
      BY <1>3
    <3>3. k # 0 /\ k \in Nat /\ k <= h BY <3>2
    <3>4. k - 1 \in 0..h /\ k - 1 \notin T /\ k \in 1..h BY <3>1, <3>3
    <3>5. f[k - 1] = p[k - 1] BY <3>4
    <3>6. p[k] = Next[p[k - 1]] BY <3>4
    <3> QED BY <3>1, <3>2, <3>3, <3>5, <3>6
  <2> QED BY <2>1, <2>2
<1> HIDE DEF IsHop
<1>4. IsHop(CHOOSE f : IsHop(f)) BY <1>2
<1> QED BY <1>1, <1>3, <1>4

\* What the types say of the parts.
LEMMA Sizes ==
  ASSUME Types, ArraysRight
  PROVE  /\ Len(arrays) \in Nat \ {0} /\ Len(entries) \in Nat
         /\ Current = arrays[Len(arrays)]
         /\ Current.Size \in Nat \ {0, 1} /\ Current.Tail \in 0..(Current.Size - 1)
         /\ Current.Index \in [0..(Current.Size - 1) -> 1..Len(entries)]
         /\ LastNumber \in Int /\ LastNumber >= -1 /\ (TailIndex > 0 => LastNumber >= 0)
         /\ enq.Taken \in Nat /\ TailNumber \in Int
         /\ LastNumber + enq.Taken <= TailNumber
         /\ \A a \in 1..Len(arrays) : arrays[a] \in IndexArrays /\ arrays[a].Size \in Nat \ {0, 1}
         /\ \A e \in 1..Len(entries) : entries[e] \in [Key : Nat, Value : Blocks \union {NULL}]
<1>1. Len(arrays) \in Nat \ {0} /\ Len(entries) \in Nat
  BY DEF Types, ArraysRight
<1>2. \A a \in 1..Len(arrays) : arrays[a] \in IndexArrays
  BY ElementOfSeq DEF Types
<1>3. \A e \in 1..Len(entries) : entries[e] \in [Key : Nat, Value : Blocks \union {NULL}]
  BY ElementOfSeq DEF Types
<1>4. \A a \in 1..Len(arrays) : arrays[a].Size \in Nat \ {0, 1}
  <2>1. \A a \in 1..Len(arrays) : arrays[a].Size \in Nat
    BY <1>2 DEF IndexArrays
  <2>2. \A a \in 1..Len(arrays) : arrays[a].Size >= 2
    BY DEF ArraysRight, ArrayRight
  <2> QED BY <2>1, <2>2
<1>5. Len(arrays) \in 1..Len(arrays)
  BY <1>1
<1>6. /\ Current.Size \in Nat \ {0, 1} /\ Current.Tail \in 0..(Current.Size - 1)
      /\ Current.Index \in [0..(Current.Size - 1) -> 1..Len(entries)]
  BY <1>4, <1>5 DEF ArraysRight, ArrayRight, Current, At0
<1>7. TailIndex - 1 \in Int /\ TailIndex - 1 >= -1 /\ enq.Taken \in Nat
  BY DEF Types, Enqs
<1>8. LastNumber \in Int /\ LastNumber >= -1 /\ (TailIndex > 0 => LastNumber >= 0)
  <2>1. Num(-1) = -1 BY BlockSizeIs DEF Num
  <2>2. LastNumber \in Int /\ Num(-1) <= LastNumber
    BY <1>7, NumType, NumMono, -1 \in Int DEF LastNumber
  <2>3. ASSUME TailIndex > 0 PROVE LastNumber >= 0
    <3>1. TailIndex - 1 \in Int /\ TailIndex - 1 >= 0
      BY <2>3 DEF Types
    <3> QED BY <3>1, NumType DEF LastNumber
  <2> QED BY <2>1, <2>2, <2>3
<1>9. TailNumber \in Int /\ LastNumber + enq.Taken <= TailNumber
  BY <1>7, <1>8 DEF TailNumber
<1> QED BY <1>1, <1>2, <1>3, <1>4, <1>6, <1>7, <1>8, <1>9 DEF Current

\* The slots go round with the numbers.
LEMMA Slotting ==
  ASSUME Types, ArraysRight
  PROVE  /\ \A m \in Int : At(m) \in 0..(Current.Size - 1) /\ Home(m) \in 1..Len(entries)
         /\ \A m, k \in Int : (At(m) + k) % Current.Size = At(m + k)
         /\ At(TailNumber) = Current.Tail /\ At(TailNumber + 1) = NewTail
         /\ \A m, n \in Int : Home(m) = Home(n) => At(m) = At(n)
         /\ \A m, n \in Int : At(m) = At(n) /\ m - n < Current.Size /\ n - m < Current.Size => m = n
<1> DEFINE S == Current.Size  T == Current.Tail  Y == TailNumber
<1>1. /\ S \in Nat \ {0, 1} /\ T \in 0..(S - 1) /\ Y \in Int
      /\ Current.Index \in [0..(S - 1) -> 1..Len(entries)]
  BY Sizes
<1>2. \A m \in Int : At(m) = (T + (m - Y)) % S
  BY DEF At
<1>10. NewTail = (T + 1) % S
  BY DEF NewTail
<1> HIDE DEF S, T, Y
<1>3. \A m \in Int : T + (m - Y) \in Int
  BY <1>1
<1>4. \A m \in Int : At(m) \in 0..(S - 1)
  BY <1>1, <1>2, <1>3, ModType
<1>5. \A m \in Int : Home(m) \in 1..Len(entries)
  BY <1>1, <1>4 DEF Home
<1>6. ASSUME NEW m \in Int, NEW k \in Int PROVE (At(m) + k) % S = At(m + k)
  <2>1. (((T + (m - Y)) % S) + k) % S = ((T + (m - Y)) + k) % S
    BY <1>1, <1>3, ModPlus
  <2>2. (T + (m - Y)) + k = T + ((m + k) - Y)
    BY <1>1
  <2> QED BY <1>2, <2>1, <2>2
<1>7. At(Y) = T /\ At(Y + 1) = NewTail
  <2>1. T + (Y - Y) = T /\ T + ((Y + 1) - Y) = T + 1 /\ Y + 1 \in Int
    BY <1>1
  <2> QED BY <1>1, <1>2, <1>10, <2>1, ModSmall
<1>8. ASSUME NEW m \in Int, NEW n \in Int, Home(m) = Home(n) PROVE At(m) = At(n)
  <2>1. Len(arrays) \in 1..Len(arrays) BY Sizes
  <2>2. \A j, k \in 0..(S - 1) : Current.Index[j] = Current.Index[k] => j = k
    BY <2>1 DEF ArraysRight, ArrayRight, Current, At0, S
  <2> QED BY <1>4, <1>8, <2>2 DEF Home
<1>9. ASSUME NEW m \in Int, NEW n \in Int, At(m) = At(n), m - n < S, n - m < S PROVE m = n
  <2> DEFINE x == T + (m - Y)  y == T + (n - Y)
  <2>1. x \in Int /\ y \in Int /\ x - y < S /\ y - x < S
    BY <1>1, <1>9
  <2>2. x % S = y % S
    BY <1>2, <1>9
  <2>3. x = y
    <3> HIDE DEF x, y
    <3> QED BY <1>1, <2>1, <2>2, ModEqual
  <2> QED BY <1>1, <2>3
<1> QED BY <1>4, <1>5, <1>6, <1>7, <1>8, <1>9 DEF S, Y, T

\* An array has the entries of two blocks as far apart as the blocks are.
LEMMA Steering ==
  ASSUME Types, ArraysRight,
         NEW a \in 1..Len(arrays), NEW s \in At0(a), NEW t \in At0(a), NEW m \in Int, NEW n \in Int,
         arrays[a].Index[s] = Home(m), arrays[a].Index[t] = Home(n)
  PROVE  s = (t + (m - n)) % arrays[a].Size
<1> DEFINE big == Current.Size  size == arrays[a].Size
<1>1. big \in Nat \ {0} /\ size \in Nat \ {0} /\ big % size = 0
  BY Sizes DEF ArraysRight, ArrayRight
<1>2. PICK d \in Nat : \A j \in At0(a), k \in At0(Len(arrays)) :
         arrays[a].Index[j] = Current.Index[k] => j = (k + d) % size
  BY DEF ArraysRight, ArrayRight
<1>3. /\ At(m) \in At0(Len(arrays)) /\ At(n) \in At0(Len(arrays))
      /\ At(m) = (At(n) + (m - n)) % big
  <2>1. m - n \in Int /\ n + (m - n) = m OBVIOUS
  <2>2. At0(Len(arrays)) = 0..(Current.Size - 1)
    BY DEF At0, Current
  <2>3. (At(n) + (m - n)) % Current.Size = At(n + (m - n))
    BY <2>1, Slotting
  <2> QED BY <2>1, <2>2, <2>3, Slotting
<1>4. s = (At(m) + d) % size /\ t = (At(n) + d) % size
  BY <1>2, <1>3 DEF Home
<1>5. At(n) \in Int /\ d \in Int /\ m - n \in Int
  BY Slotting, Sizes
<1> HIDE DEF big, size
<1> DEFINE x == At(n) + (m - n)  y == At(n) + d
<1>6. x \in Int /\ y \in Int /\ x + d = y + (m - n)
  BY <1>5
<1> HIDE DEF x, y
<1>7. ((x % big) + d) % size = (x + d) % size
  <2>1. x \in Int BY <1>6
  <2>2. d \in Int BY <1>5
  <2> QED BY ZenonT(60), <1>1, <2>1, <2>2, ModModAll
<1>8. ((y % size) + (m - n)) % size = (y + (m - n)) % size
  BY <1>1, <1>5, <1>6, ModPlus
<1>9. s = ((x % big) + d) % size /\ t = y % size
  BY <1>3, <1>4 DEF x, y
<1> QED BY <1>6, <1>7, <1>8, <1>9 DEF size

\* The blocks in the index are numbered by natural numbers.
LEMMA NumbersType ==
  ASSUME Types, ArraysRight
  PROVE  /\ Numbers \subseteq Nat /\ Live \subseteq Numbers /\ New \subseteq Numbers
         /\ \A m \in Live : m <= LastNumber
         /\ \A m \in New : m > LastNumber
<1>1. Live \subseteq Nat /\ \A m \in Live : m <= LastNumber
  BY Sizes DEF Live
<1>2. New \subseteq Nat /\ \A m \in New : m > LastNumber
  BY Sizes DEF New
<1> QED BY <1>1, <1>2 DEF Numbers

\* The keys tell the entries of different blocks apart.
LEMMA HomesDiffer ==
  ASSUME Types, ArraysRight, KeysRight, NEW m \in Numbers, NEW n \in Numbers, Home(m) = Home(n)
  PROVE  m = n
<1>1. m \in Nat /\ n \in Nat BY NumbersType
<1>2. m * BlockSize = n * BlockSize BY DEF KeysRight
<1> QED BY <1>1, <1>2, BlockSizeIs

\* The items somebody has still to count are items of blocks in the index.
LEMMA PendingTypes ==
  ASSUME Types, ClaimsRight, NEW c \in Consumers
  PROVE  /\ From(c) \in Nat /\ Pending(c) \subseteq Nat
         /\ \A i \in Pending(c) : i < HeadIndex /\ i < TailIndex /\ From(c) <= i
         /\ pc[c] = "idle" => Pending(c) = {}
         /\ pc[c] # "idle" => From(c) \in Pending(c)
         /\ Uncounted(c) \subseteq Pending(c) /\ Unmoved(c) \subseteq Uncounted(c)
         /\ Num(From(c)) \in Nat
<1>1. /\ deq[c].First \in Nat /\ deq[c].Count \in Nat /\ deq[c].Need \in Nat
      /\ HeadIndex \in Nat /\ TailIndex \in Nat /\ HeadIndex <= TailIndex
      /\ deq[c].First + deq[c].Count <= HeadIndex
  BY DEF Types, Deqs, ClaimsRight
<1>2. CASE pc[c] = "idle"
  <2>1. deq[c] = NoDeq
    BY <1>2 DEF ClaimsRight
  <2>2. From(c) = 0 /\ Pending(c) = {}
    BY <2>1 DEF From, Pending, NoDeq
  <2> QED BY <1>2, <2>2, NumType DEF Uncounted, Unmoved
<1>3. CASE pc[c] # "idle"
  <2>1. 1 <= deq[c].Need /\ deq[c].Need <= deq[c].Count
    BY <1>3 DEF ClaimsRight
  <2>2. /\ From(c) \in Nat /\ Pending(c) \subseteq Nat
        /\ \A i \in Pending(c) : i < HeadIndex /\ i < TailIndex /\ From(c) <= i
        /\ From(c) \in Pending(c)
    BY <1>1, <2>1 DEF From, Pending
  <2>3. Num(From(c)) \in Nat
    BY <2>2, NumType
  <2> QED BY <1>3, <2>2, <2>3 DEF Uncounted, Unmoved
<1> QED BY <1>2, <1>3

\* The blocks of items that are still to be counted are in the index.
LEMMA NumbersOfItems ==
  ASSUME Types, ClaimsRight, NEW c \in Consumers
  PROVE  /\ \A i \in Uncounted(c) : Num(i) \in Live
         /\ pc[c] = "free" => Num(From(c)) \in Live
         /\ pc[c] \notin {"idle", "return"} => Num(From(c)) \in Live
<1>1. ASSUME NEW i \in Pending(c) PROVE Num(i) \in 0..LastNumber /\ i \in Items(Num(i))
  <2>1. i \in Nat /\ i <= TailIndex - 1 /\ TailIndex - 1 \in Int
    BY PendingTypes DEF Types
  <2> QED BY <2>1, NumType, NumMono, NumItems DEF LastNumber
<1>2. ASSUME NEW i \in Uncounted(c) PROVE Num(i) \in Live
  <2>1. i \in Pending(c) /\ ~Done(i)
    BY PendingTypes DEF Done
  <2> QED BY <1>1, <2>1 DEF Live, AllDone
<1>3. ASSUME pc[c] = "free" PROVE Num(From(c)) \in Live
  BY <1>1, <1>3, PendingTypes DEF Live, Freeing
<1>4. ASSUME pc[c] \notin {"idle", "return", "free"} PROVE Num(From(c)) \in Live
  <2>1. From(c) \in Uncounted(c)
    BY <1>4, PendingTypes DEF Uncounted
  <2> QED BY <2>1, <1>2
<1> QED BY <1>2, <1>3, <1>4

-----------------------------------------------------------------------------
(* What a step leaves as it is.                                              *)

\* A step that does not touch the arrays leaves slots and entries of the blocks.
LEMMA IndexSame ==
  ASSUME TailIndex' = TailIndex, arrays' = arrays, ppc' = ppc, enq' = enq
  PROVE  /\ LastNumber' = LastNumber /\ TailNumber' = TailNumber /\ New' = New
         /\ Current' = Current /\ NewTail' = NewTail
         /\ \A m : At(m)' = At(m) /\ Home(m)' = Home(m) /\ Unstored(m)' = Unstored(m)
BY DEF LastNumber, TailNumber, New, Current, NewTail, At, Home, Unstored, Num

\* A consumer that does nothing has the same items to see to.
LEMMA ConsumerSame ==
  ASSUME NEW c, pc'[c] = pc[c], deq'[c] = deq[c]
  PROVE  /\ From(c)' = From(c) /\ Pending(c)' = Pending(c)
         /\ Uncounted(c)' = Uncounted(c) /\ Unmoved(c)' = Unmoved(c)
BY DEF From, Pending, Uncounted, Unmoved, Num

\* What is done changes only when a consumer counts.
LEMMA DoneSame ==
  ASSUME HeadIndex' = HeadIndex, \A c \in Consumers : Uncounted(c)' = Uncounted(c)
  PROVE  /\ \A i : Done(i)' = Done(i)
         /\ \A m : AllDone(m)' = AllDone(m)
<1>1. \A i : Done(i)' = Done(i)
  BY DEF Done
<1>2. \A m : Items(m)' = Items(m)
  BY DEF Items
<1> QED BY <1>1, <1>2 DEF AllDone

\* What is stored changes only when a consumer moves items out, or the producer makes them.
LEMMA StoredSame ==
  ASSUME HeadIndex' = HeadIndex, TailIndex' = TailIndex, ppc' = ppc, enq' = enq,
         \A c \in Consumers : Unmoved(c)' = Unmoved(c)
  PROVE  \A i : Stored(i)' = Stored(i)
BY DEF Stored

\* The blocks in the index change only with what is done.
LEMMA NumbersSame ==
  ASSUME LastNumber' = LastNumber, New' = New,
         \A m : AllDone(m)' = AllDone(m), \A m : Freeing(m)' = Freeing(m)
  PROVE  Live' = Live /\ Numbers' = Numbers
BY DEF Live, Numbers

\* Arrays that are not changed stay right.
LEMMA ArraysStay ==
  ASSUME ArraysRight, arrays' = arrays, Len(entries') = Len(entries)
  PROVE  ArraysRight'
<1>1. Current' = Current /\ \A a : At0(a)' = At0(a)
  BY DEF Current, At0
<1>2. ASSUME NEW a, ArrayRight(a) PROVE ArrayRight(a)'
  <2>1. /\ (arrays[a].Size >= 2)' /\ (Current.Size % arrays[a].Size = 0)'
        /\ (arrays[a].Tail \in At0(a))' /\ (arrays[a].Index \in [At0(a) -> 1..Len(entries)])'
    BY <1>1, <1>2 DEF ArrayRight
  <2>2. (\A j, k \in At0(a) : arrays[a].Index[j] = arrays[a].Index[k] => j = k)'
    BY <1>1, <1>2 DEF ArrayRight
  <2>3. PICK d \in Nat : \A s \in At0(a), k \in At0(Len(arrays)) :
           arrays[a].Index[s] = Current.Index[k] => s = (k + d) % arrays[a].Size
    BY <1>2 DEF ArrayRight
  <2>4. (\A s \in At0(a), k \in At0(Len(arrays)) :
           arrays[a].Index[s] = Current.Index[k] => s = (k + d) % arrays[a].Size)'
    BY <1>1, <2>3
  <2> QED BY <2>1, <2>2, <2>4 DEF ArrayRight
<1> QED BY <1>1, <1>2 DEF ArraysRight

\* The parts of the invariant that are about the index.
LEMMA IndexRightSame ==
  ASSUME ArraysRight, WindowRight, KeysRight, ValuesRight, ChainRight,
         TailIndex' = TailIndex, arrays' = arrays, ppc' = ppc, enq' = enq, entries' = entries,
         TailBlock' = TailBlock, Next' = Next, Numbers' = Numbers, Live' = Live
  PROVE  /\ ArraysRight' /\ WindowRight' /\ KeysRight' /\ ValuesRight' /\ ChainRight'
         /\ \A m : BlockOf(m)' = BlockOf(m)
<1>1. /\ LastNumber' = LastNumber /\ TailNumber' = TailNumber
      /\ Current' = Current
      /\ \A m : Home(m)' = Home(m) /\ Unstored(m)' = Unstored(m)
  BY IndexSame
<1>2. \A m : BlockOf(m)' = BlockOf(m)
  BY <1>1 DEF BlockOf
<1>3. ArraysRight'
  BY ArraysStay
<1>4. WindowRight'
  BY <1>1 DEF WindowRight
<1>5. KeysRight'
  BY <1>1 DEF KeysRight
<1>6. ValuesRight'
  BY <1>1 DEF ValuesRight
<1>7. Start' = Start /\ NotYetTail' = NotYetTail
  BY DEF Start, NotYetTail
<1>8. ChainRight'
  BY <1>1, <1>2, <1>7 DEF ChainRight, Inner
<1> QED BY <1>2, <1>3, <1>4, <1>5, <1>6, <1>8

\* A search that leads to a block goes on to do so.
LEMMA LeadsSame ==
  ASSUME ArraysRight, NEW a \in 1..Len(arrays), NEW t \in At0(a), NEW m, Leads(a, t, m),
         arrays'[a].Index = arrays[a].Index, arrays'[a].Size = arrays[a].Size,
         Home(m)' = Home(m), \A e \in 1..Len(entries) : entries'[e].Key = entries[e].Key
  PROVE  Leads(a, t, m)'
<1>1. arrays[a].Index[t] \in 1..Len(entries)
  BY DEF ArraysRight, ArrayRight
<1> QED BY <1>1 DEF Leads

\* If c has items left to count behind those of a block it has counted, then some
\* of the next block.
LEMMA NextUncounted ==
  ASSUME Types, ClaimsRight, NEW c \in Consumers, pc[c] \in {"free", "return"}, Uncounted(c) # {}
  PROVE  /\ \E j \in Uncounted(c) : Num(j) = Num(From(c)) + 1
         /\ Num(From(c)) + 1 \in Live
         /\ \A a : (\A i \in Uncounted(c) : InArray(a, Num(i))) => InArray(a, Num(From(c)) + 1)
<1>0. PICK n : n = Num(From(c))
  OBVIOUS
<1>1. PICK i \in Uncounted(c) : TRUE
  OBVIOUS
<1>2. /\ i \in Pending(c) /\ From(c) \in Pending(c) /\ Num(i) # n
      /\ n \in Nat /\ i \in Nat /\ From(c) \in Nat /\ From(c) <= i
  BY <1>0, PendingTypes DEF Uncounted
<1>3. PICK j : j = (n + 1) * BlockSize
  OBVIOUS
<1>4. j \in Int /\ Num(j) = n + 1
  <2>1. (n + 1) * BlockSize + 0 = (n + 1) * BlockSize /\ (n + 1) * BlockSize \in Int
    BY <1>2, BlockSizeIs
  <2> QED BY <1>2, <1>3, <2>1, NumUnique, BlockSizeIs DEF Places
<1>5. j <= i
  <2>1. Num(From(c)) <= Num(i) BY <1>2, NumMono
  <2>2. Num(i) \in Int BY <1>2, NumType
  <2>3. n + 1 <= Num(i) BY <1>0, <1>2, <2>1, <2>2
  <2> QED BY <1>2, <1>3, <2>3, NumFirst, n + 1 \in Int
<1>6. From(c) <= j
  <2>1. From(c) \in Int BY <1>2
  <2>2. j < From(c) => Num(j) <= Num(From(c)) BY <1>4, <2>1, NumMono
  <2> QED BY <1>0, <1>2, <1>4, <2>1, <2>2
<1>7. j \in Uncounted(c)
  <2>1. j \in Pending(c)
    BY <1>2, <1>4, <1>5, <1>6 DEF Pending, Types, Deqs
  <2> QED BY <1>0, <1>2, <1>4, <2>1 DEF Uncounted
<1>8. n + 1 \in Live
  BY <1>4, <1>7, NumbersOfItems
<1> QED BY <1>0, <1>4, <1>7, <1>8

\* What a consumer that does not move has found.
LEMMA LookupSame ==
  ASSUME Types, ArraysRight, ClaimsRight, NEW c \in Consumers, LookupRight(c),
         pc'[c] = pc[c], deq'[c] = deq[c],
         1..Len(arrays) \subseteq 1..Len(arrays'),
         \A a \in 1..Len(arrays) : arrays'[a].Index = arrays[a].Index /\ arrays'[a].Size = arrays[a].Size,
         \A m \in Live : Home(m)' = Home(m),
         pc[c] \in {"move", "count", "free"} =>
           \A m \in Live : m = Num(From(c)) => BlockOf(m)' = BlockOf(m),
         pc[c] = "tail" => Leads(deq[c].Array, arrays[deq[c].Array].Tail, Num(From(c)))',
         pc[c] = "key" => Leads(deq[c].Array, deq[c].Tail, Num(From(c)))'
  PROVE  LookupRight(c)'
<1>0. PICK a, n : a = deq[c].Array /\ n = Num(From(c))
  OBVIOUS
<1>1. From(c)' = From(c) /\ Uncounted(c)' = Uncounted(c) /\ n = Num(From(c))' /\ a = deq'[c].Array
  BY <1>0, ConsumerSame DEF Num
<1>2. \A i \in Uncounted(c) : Num(i) \in Live
  BY NumbersOfItems
<1>3. pc[c] \notin {"idle", "return"} => n \in Live
  BY <1>0, NumbersOfItems
<1>4. pc[c] = "return" => \A i \in Uncounted(c) : Num(i) # n
  BY <1>0 DEF Uncounted
<1>5. CASE pc[c] \in {"idle", "array"}
  BY <1>5 DEF LookupRight
<1>6. CASE pc[c] \notin {"idle", "array"}
  <2>1. a \in 1..Len(arrays) /\ a \in 1..Len(arrays')
    BY <1>0, <1>6 DEF LookupRight
  <2>2. At0(a)' = At0(a)
    BY <2>1 DEF At0
  <2>3. \A i \in Uncounted(c) : \A m : m = Num(i) => Home(m)' = Home(m)
    BY <1>0, <1>2
  <2>4. ASSUME NEW i \in Uncounted(c) PROVE InArray(a, Num(i))'
    <3>1. PICK m : m = Num(i)
      OBVIOUS
    <3>2. InArray(a, m) /\ Home(m)' = Home(m)
      BY <1>0, <1>6, <2>3, <3>1 DEF LookupRight
    <3>3. InArray(a, m)'
      BY <2>1, <2>2, <3>2 DEF InArray
    <3> QED BY <3>1, <3>3 DEF Num
  <2>5. /\ pc[c] # "return" => Home(n)' = Home(n)
        /\ pc[c] \in {"move", "count", "free"} => BlockOf(n)' = BlockOf(n)
    BY <1>0, <1>3, <1>6
  <2>6. pc[c] \in {"value", "move", "count", "free"} => arrays'[a].Index[deq[c].Slot] = Home(n)'
    BY <1>0, <2>1, <2>5 DEF LookupRight
  <2>7. pc[c] \in {"move", "count", "free"} => deq[c].Entry = Home(n)' /\ deq[c].Block = BlockOf(n)'
    BY <1>0, <2>5 DEF LookupRight
  <2>8. ASSUME pc[c] = "return", Uncounted(c) # {}
        PROVE  arrays'[a].Index[(deq[c].Slot + 1) % arrays'[a].Size] = Home(n + 1)'
    <3>1. arrays[a].Index[(deq[c].Slot + 1) % arrays[a].Size] = Home(n + 1)
      BY <1>0, <2>8 DEF LookupRight
    <3>2. PICK i \in Uncounted(c) : TRUE
      BY <2>8
    <3>3. n + 1 \in Live
      BY <1>0, <2>8, NextUncounted
    <3>5. Home(n + 1)' = Home(n + 1)
      <4>1. PICK k : k = n + 1
        OBVIOUS
      <4>2. k \in Live
        BY <3>3, <4>1
      <4> QED BY <4>1, <4>2
    <3> QED BY <3>1, <3>5, <2>1
  <2>9. pc[c] = "key" => deq[c].Tail \in At0(a)'
    BY <1>0, <2>2 DEF LookupRight
  <2>10. pc[c] \in {"value", "move", "count", "free", "return"} => deq[c].Slot \in At0(a)'
    BY <1>0, <2>2 DEF LookupRight
  <2> QED BY <1>1, <1>6, <2>1, <2>4, <2>6, <2>7, <2>8, <2>9, <2>10 DEF LookupRight
<1> QED BY <1>5, <1>6

-----------------------------------------------------------------------------
(* The steps of a consumer.                                                  *)

\* Only c moves, and stays at its items.
Stays(c, to) ==
  /\ TailIndex' = TailIndex /\ arrays' = arrays /\ ppc' = ppc /\ enq' = enq
  /\ TailBlock' = TailBlock /\ Next' = Next /\ HeadIndex' = HeadIndex
  /\ pc' = [pc EXCEPT ![c] = to]
  /\ \A d \in Consumers \ {c} : deq'[d] = deq[d]
  /\ deq'[c].First = deq[c].First /\ deq'[c].Count = deq[c].Count /\ deq'[c].Need = deq[c].Need

\* A step within a segment leaves the claims right.
LEMMA StayingClaims ==
  ASSUME Types, ClaimsRight, NEW c \in Consumers, NEW to \in DequeuePlaces, Stays(c, to),
         pc[c] # "idle", to # "idle"
  PROVE  /\ \A d \in Consumers : From(d)' = From(d) /\ Pending(d)' = Pending(d)
         /\ \A d \in Consumers \ {c} : /\ pc'[d] = pc[d] /\ deq'[d] = deq[d]
                                       /\ Uncounted(d)' = Uncounted(d) /\ Unmoved(d)' = Unmoved(d)
         /\ pc'[c] = to
         /\ (to \in {"array", "tail", "key"} => deq[c].Need = deq[c].Count)
            /\ (\A m : AllDone(m) => AllDone(m)')
            /\ (to \in {"free", "return"} => AllDone(Num(From(c)))')
            /\ (to = "free" =>
                  \A d \in Consumers \ {c} : pc[d] = "free" => Num(From(c)) # Num(From(d)))
              => ClaimsRight'
<1>1. pc'[c] = to /\ \A d \in Consumers \ {c} : pc'[d] = pc[d] /\ deq'[d] = deq[d]
  BY DEF Types, Stays
<1>2. \A d \in Consumers \ {c} : /\ From(d)' = From(d) /\ Pending(d)' = Pending(d)
                                 /\ Uncounted(d)' = Uncounted(d) /\ Unmoved(d)' = Unmoved(d)
  BY <1>1, ConsumerSame
<1>3. From(c)' = From(c) /\ Pending(c)' = Pending(c)
  BY DEF Stays, From, Pending
<1>4. \A d \in Consumers : From(d)' = From(d) /\ Pending(d)' = Pending(d)
  BY <1>2, <1>3
<1>5. ASSUME to \in {"array", "tail", "key"} => deq[c].Need = deq[c].Count,
             \A m : AllDone(m) => AllDone(m)',
             to \in {"free", "return"} => AllDone(Num(From(c)))',
             to = "free" =>
               \A d \in Consumers \ {c} : pc[d] = "free" => Num(From(c)) # Num(From(d))
      PROVE  ClaimsRight'
  <2> SUFFICES ASSUME NEW d \in Consumers
               PROVE  /\ IF pc'[d] = "idle" THEN deq'[d] = NoDeq
                         ELSE 1 <= deq'[d].Need /\ deq'[d].Need <= deq'[d].Count
                      /\ deq'[d].First + deq'[d].Count <= HeadIndex'
                      /\ \A e \in Consumers \ {d} :
                           /\ Pending(d)' \intersect Pending(e)' = {}
                           /\ pc'[d] = "free" /\ pc'[e] = "free" => Num(From(d))' # Num(From(e))'
                      /\ pc'[d] \in {"array", "tail", "key"} => deq'[d].Need = deq'[d].Count
                      /\ pc'[d] \in {"free", "return"} => AllDone(Num(From(d)))'
    BY DEF ClaimsRight, NoDeq
  <2>1. \A e \in Consumers \ {d} :
          /\ Pending(d)' \intersect Pending(e)' = {}
          /\ pc'[d] = "free" /\ pc'[e] = "free" => Num(From(d))' # Num(From(e))'
    <3>1. \A e \in Consumers : Num(From(e))' = Num(From(e))
      BY <1>4 DEF Num
    <3>2. \A e \in Consumers \ {d} : Pending(d)' \intersect Pending(e)' = {}
      BY <1>4 DEF ClaimsRight
    <3>3. ASSUME NEW e \in Consumers \ {d}, pc'[d] = "free", pc'[e] = "free"
          PROVE  Num(From(d)) # Num(From(e))
      <4>1. CASE d = c
        BY <1>1, <1>5, <3>3, <4>1
      <4>2. CASE e = c
        BY <1>1, <1>5, <3>3, <4>2
      <4>3. CASE d # c /\ e # c
        BY <1>1, <3>3, <4>3 DEF ClaimsRight
      <4> QED BY <4>1, <4>2, <4>3
    <3> QED BY <3>1, <3>2, <3>3

  <2>2. CASE d = c
    BY <1>1, <1>5, <2>1, <2>2 DEF ClaimsRight, Stays
  <2>3. CASE d # c
    <3>1. pc[d] \in {"free", "return"} => AllDone(Num(From(d)))'
      <4>1. PICK m : m = Num(From(d))
        OBVIOUS
      <4>2. m = Num(From(d))'
        BY <1>4, <4>1 DEF Num
      <4>3. pc[d] \in {"free", "return"} => AllDone(m)
        BY <4>1 DEF ClaimsRight
      <4> QED BY <1>5, <4>2, <4>3
    <3> QED BY <1>1, <2>1, <2>3, <3>1 DEF ClaimsRight, Stays
  <2> QED BY <2>2, <2>3
<1> QED BY <1>1, <1>2, <1>4, <1>5

\* Up to SetSomeEmpty, a consumer changes nothing but slots and what it has found.
LEMMA EarlyStep ==
  ASSUME SlowInv, ppc # "cleared", NEW c \in Consumers,
         NEW to \in {"tail", "key", "value", "move", "count"},
         pc[c] \in {"array", "tail", "key", "value", "move"}, Stays(c, to),
         UNCHANGED <<entries, Counter, free>>,
         to \in {"tail", "key"} => pc[c] \in {"array", "tail"},
         Types',
         (/\ \A m : Home(m)' = Home(m) /\ BlockOf(m)' = BlockOf(m)
          /\ From(c)' = From(c) /\ Uncounted(c)' = Uncounted(c) /\ pc'[c] = to) => LookupRight(c)'
  PROVE  /\ \A d \in Consumers : From(d)' = From(d) /\ Pending(d)' = Pending(d)
         /\ \A d \in Consumers \ {c} : Unmoved(d)' = Unmoved(d)
         /\ pc'[c] = to
         /\ Numbers' = Numbers /\ \A m : BlockOf(m)' = BlockOf(m)
         /\ SlotsRight' => SlowInv'
<1>1. /\ \A d \in Consumers : From(d)' = From(d) /\ Pending(d)' = Pending(d)
      /\ \A d \in Consumers \ {c} : /\ pc'[d] = pc[d] /\ deq'[d] = deq[d]
                                    /\ Uncounted(d)' = Uncounted(d) /\ Unmoved(d)' = Unmoved(d)
      /\ pc'[c] = to
  BY StayingClaims DEF SlowInv, DequeuePlaces
<1>2. \A d \in Consumers : Uncounted(d)' = Uncounted(d)
  <2>1. Uncounted(c)' = Uncounted(c)
    BY <1>1 DEF Uncounted, Num
  <2> QED BY <1>1, <2>1
<1>3. /\ \A i : Done(i)' = Done(i)
      /\ \A m : AllDone(m)' = AllDone(m)
  BY <1>2, DoneSame DEF Stays
<1>4. \A m : Freeing(m)' = Freeing(m)
  BY <1>1 DEF Freeing, Num
<1>5. LastNumber' = LastNumber /\ New' = New /\ \A m : Home(m)' = Home(m)
  BY IndexSame DEF Stays
<1>6. Live' = Live /\ Numbers' = Numbers
  BY <1>3, <1>4, <1>5, NumbersSame
<1>7. /\ ArraysRight' /\ WindowRight' /\ KeysRight' /\ ValuesRight' /\ ChainRight'
      /\ \A m : BlockOf(m)' = BlockOf(m)
  BY <1>6, IndexRightSame DEF SlowInv, Stays
<1>8. CallRight'
  BY <1>5 DEF SlowInv, CallRight, Stays, Num
<1>9. ClaimsRight'
  <2>1. to \in {"array", "tail", "key"} => deq[c].Need = deq[c].Count
    BY DEF SlowInv, ClaimsRight
  <2> QED BY <1>3, <2>1, StayingClaims DEF SlowInv, DequeuePlaces
<1>10. BlocksRight'
  <2>1. \A d \in Consumers : /\ pc'[d] = "return" <=> pc[d] = "return"
                             /\ pc[d] = "return" => deq'[d].Block = deq[d].Block
    BY <1>1
  <2> QED BY <1>6, <1>7, <2>1 DEF SlowInv, BlocksRight
<1>12. CountersRight'
  BY <1>3, <1>6, <1>7 DEF SlowInv, CountersRight, Items
<1>13. LookupsRight'
  <2> SUFFICES ASSUME NEW d \in Consumers PROVE LookupRight(d)'
    BY DEF LookupsRight
  <2>1. CASE d = c
    BY <1>1, <1>2, <1>5, <1>7, <2>1
  <2>2. CASE d # c
    <3>1. pc'[d] = pc[d] /\ deq'[d] = deq[d] /\ arrays' = arrays /\ LookupRight(d)
      BY <1>1, <2>2 DEF SlowInv, LookupsRight, Stays
    <3>2. \A a, t, m : Leads(a, t, m)' = Leads(a, t, m)
      BY <1>5 DEF Leads, Stays
    <3>3. pc[d] = "tail" => Leads(deq[d].Array, arrays[deq[d].Array].Tail, Num(From(d)))'
      BY <1>1, <2>2, <3>1, <3>2 DEF LookupRight, Num
    <3>4. pc[d] = "key" => Leads(deq[d].Array, deq[d].Tail, Num(From(d)))'
      BY <1>1, <2>2, <3>1, <3>2 DEF LookupRight, Num
    <3> QED BY <1>5, <1>7, <3>1, <3>3, <3>4, LookupSame DEF SlowInv
  <2> QED BY <2>1, <2>2
<1> QED BY <1>1, <1>6, <1>7, <1>8, <1>9, <1>10, <1>12, <1>13 DEF SlowInv

\* The loads change nothing but what c has found.
LEMMA LoadStep ==
  ASSUME SlowInv, ppc # "cleared", NEW c \in Consumers, NEW to \in {"tail", "key", "value", "move"},
         pc[c] \in {"array", "tail", "key", "value"}, Stays(c, to), UNCHANGED shared,
         to \in {"tail", "key"} => pc[c] \in {"array", "tail"},
         Types',
         (/\ \A m : Home(m)' = Home(m) /\ BlockOf(m)' = BlockOf(m)
          /\ From(c)' = From(c) /\ Uncounted(c)' = Uncounted(c) /\ pc'[c] = to) => LookupRight(c)'
  PROVE  SlowInv'
<1> USE DEF shared
<1>1. /\ \A d \in Consumers : From(d)' = From(d) /\ Pending(d)' = Pending(d)
      /\ \A d \in Consumers \ {c} : Unmoved(d)' = Unmoved(d)
      /\ pc'[c] = to
      /\ Numbers' = Numbers /\ \A m : BlockOf(m)' = BlockOf(m)
      /\ SlotsRight' => SlowInv'
  BY EarlyStep
<1>2. \A d \in Consumers : Unmoved(d)' = Unmoved(d)
  <2>1. Unmoved(c)' = Unmoved(c)
    BY <1>1 DEF Unmoved, Num
  <2> QED BY <1>1, <2>1
<1>3. \A i : Stored(i)' = Stored(i)
  BY <1>2, StoredSame DEF Stays
<1>4. SlotsRight'
  BY <1>1, <1>3 DEF SlowInv, SlotsRight, Items, Inner
<1> QED BY <1>1, <1>4

\* The Tail of the current array leads to every block in the index.
LEMMA TailLeads ==
  ASSUME Types, ArraysRight, CallRight, KeysRight, NEW m \in Live
  PROVE  Leads(Len(arrays), Current.Tail, m)
<1> DEFINE n == TailNumber
<1>1. n \in Nat /\ m \in Int /\ Live # {} /\ LastNumber >= 0
  BY Sizes, NumbersType
<1>2. entries[Home(n)].Key = n * BlockSize
  <2>1. CASE ppc = "block"
    <3>1. n = LastNumber + 1 + enq.Taken
      BY <2>1, Sizes DEF TailNumber
    <3>2. enq.Base = n * BlockSize
      BY <2>1, <3>1 DEF CallRight
    <3>3. entries[Home(n)] = [Key |-> enq.Base, Value |-> NULL]
      BY <2>1 DEF KeysRight
    <3> QED BY <3>2, <3>3
  <2>2. CASE ppc # "block" /\ enq.Taken = 0
    BY <1>1, <2>2, Sizes DEF TailNumber, KeysRight
  <2>3. CASE ppc # "block" /\ enq.Taken # 0
    <3>1. n = LastNumber + enq.Taken
      BY <2>3, Sizes DEF TailNumber
    <3>2. n \in Numbers
      BY <2>3, <3>1, Sizes DEF New, Numbers
    <3> QED BY <3>2 DEF KeysRight
  <2> QED BY <2>1, <2>2, <2>3
<1>3. Current.Index[Current.Tail] = Home(n)
  BY Slotting DEF Home
<1>4. Current.Index[(Current.Tail + (m - n)) % Current.Size] = Home(m)
  BY DEF Home, At
<1> QED BY <1>1, <1>2, <1>3, <1>4 DEF Leads, Current

\* Loading CurrentIndexEntryArray.
LEMMA LoadArrayStep ==
  ASSUME SlowInv, ppc # "cleared", NEW c \in Consumers, LoadArray(c)
  PROVE  SlowInv'
<1>1. Types'
  <2>1. Len(arrays) \in Nat
    BY Sizes DEF SlowInv
  <2>2. deq' \in [Consumers -> Deqs]
    BY <2>1 DEF SlowInv, Types, LoadArray, Deqs
  <2>3. pc' \in [Consumers -> DequeuePlaces]
    BY DEF SlowInv, Types, LoadArray, Goto, DequeuePlaces
  <2> QED BY <2>2, <2>3 DEF SlowInv, Types, LoadArray, producer, shared
<1>2. Stays(c, "tail")
  BY DEF LoadArray, Goto, Stays, producer, SlowInv, Types, Deqs
<1>3. ASSUME \A m : Home(m)' = Home(m) /\ BlockOf(m)' = BlockOf(m),
             From(c)' = From(c), Uncounted(c)' = Uncounted(c), pc'[c] = "tail"
      PROVE  LookupRight(c)'
  <2>1. deq'[c].Array = Len(arrays) /\ arrays' = arrays /\ entries' = entries
    BY DEF LoadArray, producer, shared, SlowInv, Types, Deqs
  <2>2. PICK n : n = Num(From(c))
    OBVIOUS
  <2>3. n = Num(From(c))'
    BY <1>3, <2>2 DEF Num
  <2>4. n \in Live
    BY <2>2, NumbersOfItems DEF SlowInv, LoadArray
  <2>5. Leads(Len(arrays), arrays[Len(arrays)].Tail, n)
    BY <2>4, TailLeads DEF SlowInv, Current
  <2>6. Leads(deq[c].Array, arrays[deq[c].Array].Tail, Num(From(c)))'
    BY <1>3, <2>1, <2>3, <2>5 DEF Leads
  <2>7. ASSUME NEW i \in Uncounted(c) PROVE InArray(deq[c].Array, Num(i))'
    <3>1. PICK k : k = Num(i)
      OBVIOUS
    <3>2. k \in Int
      BY <3>1, NumbersOfItems, NumbersType DEF SlowInv
    <3>3. At(k) \in At0(Len(arrays)) /\ arrays[Len(arrays)].Index[At(k)] = Home(k)
      BY <3>2, Slotting DEF SlowInv, At0, Current, Home
    <3> QED BY <1>3, <2>1, <3>1, <3>3 DEF InArray, Num, At0
  <2>8. deq'[c].Array \in 1..Len(arrays')
    BY <2>1, Sizes DEF SlowInv
  <2> QED BY <1>3, <2>6, <2>7, <2>8 DEF LookupRight
<1> QED BY <1>1, <1>2, <1>3, LoadStep DEF LoadArray

\* Loading the array's Tail.
LEMMA LoadTailStep ==
  ASSUME SlowInv, ppc # "cleared", NEW c \in Consumers, LoadTail(c)
  PROVE  SlowInv'
<1>0. deq[c].Array \in 1..Len(arrays) /\ arrays[deq[c].Array].Tail \in At0(deq[c].Array)
  BY DEF SlowInv, LookupsRight, LookupRight, LoadTail, ArraysRight, ArrayRight
<1>1. Types'
  <2>1. arrays[deq[c].Array].Tail \in Nat
    BY <1>0, Sizes DEF SlowInv, IndexArrays
  <2> QED BY ZenonT(60), <2>1 DEF SlowInv, Types, LoadTail, Goto, producer, shared, Deqs, DequeuePlaces
<1>2. Stays(c, "key")
  BY DEF LoadTail, Goto, Stays, producer, SlowInv, Types, Deqs
<1>3. ASSUME \A m : Home(m)' = Home(m) /\ BlockOf(m)' = BlockOf(m),
             From(c)' = From(c), Uncounted(c)' = Uncounted(c), pc'[c] = "key"
      PROVE  LookupRight(c)'
  <2>1. /\ deq'[c].Array = deq[c].Array /\ deq'[c].Tail = arrays[deq[c].Array].Tail
        /\ arrays' = arrays /\ entries' = entries
    BY DEF LoadTail, producer, shared, SlowInv, Types, Deqs
  <2>2. Leads(deq[c].Array, arrays[deq[c].Array].Tail, Num(From(c)))
    BY DEF SlowInv, LookupsRight, LookupRight, LoadTail
  <2>3. Leads(deq[c].Array, deq[c].Tail, Num(From(c)))'
    <3>1. PICK n : n = Num(From(c))
      OBVIOUS
    <3>2. n = Num(From(c))'
      BY <1>3, <3>1 DEF Num
    <3> QED BY <1>3, <2>1, <2>2, <3>1, <3>2 DEF Leads
  <2>4. ASSUME NEW i \in Uncounted(c) PROVE InArray(deq[c].Array, Num(i))'
    <3>1. InArray(deq[c].Array, Num(i))
      BY DEF SlowInv, LookupsRight, LookupRight, LoadTail
    <3> QED BY <1>3, <2>1, <3>1 DEF InArray, At0, Num
  <2>5. deq'[c].Tail \in At0(deq[c].Array)'
    BY <1>0, <2>1 DEF At0
  <2> QED BY <1>0, <1>3, <2>1, <2>3, <2>4, <2>5 DEF LookupRight
<1> QED BY <1>1, <1>2, <1>3, LoadStep DEF LoadTail

\* Loading the key of the tail entry, which gives the distance to the item's entry.
LEMMA LoadKeyStep ==
  ASSUME SlowInv, ppc # "cleared", NEW c \in Consumers, LoadKey(c)
  PROVE  SlowInv'
<1>0. PICK a, n : a = deq[c].Array /\ n = Num(From(c))
  OBVIOUS
<1>1. a \in 1..Len(arrays) /\ deq[c].Tail \in At0(a) /\ Leads(a, deq[c].Tail, n)
  BY <1>0 DEF SlowInv, LookupsRight, LookupRight, LoadKey
<1>2. PICK k \in Nat : /\ entries[arrays[a].Index[deq[c].Tail]].Key = k * BlockSize
                       /\ arrays[a].Index[(deq[c].Tail + (n - k)) % arrays[a].Size] = Home(n)
  BY <1>1 DEF Leads
<1>3. From(c) = deq[c].First /\ deq[c].First \in Nat /\ n \in Nat
  <2>1. deq[c].First \in Nat /\ deq[c].Count \in Nat /\ deq[c].Need = deq[c].Count
    BY DEF SlowInv, LoadKey, ClaimsRight, Types, Deqs
  <2>2. From(c) = deq[c].First
    BY <2>1 DEF From
  <2> QED BY <1>0, <2>1, <2>2, NumType
<1>4. IndexIndex(arrays[a], deq[c].Tail, entries[arrays[a].Index[deq[c].Tail]].Key, deq[c].First)
        = (deq[c].Tail + (n - k)) % arrays[a].Size
  <2>1. ((deq[c].First - Inner(deq[c].First)) - k * BlockSize) \div BlockSize = n - k
    BY <1>0, <1>3, NumDistance
  <2> QED BY <1>2, <2>1 DEF IndexIndex
<1> DEFINE s == (deq[c].Tail + (n - k)) % arrays[a].Size
<1>5. s \in At0(a) /\ s \in Nat
  <2>0. arrays[a].Size \in Nat \ {0}
    BY <1>1, Sizes DEF SlowInv
  <2>1. arrays[a].Size \in Nat \ {0} /\ deq[c].Tail + (n - k) \in Int
    BY <1>1, <1>3, <2>0 DEF At0
  <2>2. s \in 0..(arrays[a].Size - 1)
    BY <2>1, ModType
  <2> QED BY <2>1, <2>2 DEF At0
<1>6. deq' = [deq EXCEPT ![c].Slot = s]
  BY <1>0, <1>4 DEF LoadKey
<1> HIDE DEF s
<1>7. Types'
  <2>2. deq' \in [Consumers -> Deqs]
    BY ZenonT(60), <1>5, <1>6 DEF SlowInv, Types, Deqs
  <2>3. pc' \in [Consumers -> DequeuePlaces]
    BY DEF SlowInv, Types, LoadKey, Goto, DequeuePlaces
  <2> QED BY <2>2, <2>3 DEF SlowInv, Types, LoadKey, producer, shared
<1>8. Stays(c, "value")
  BY <1>6 DEF LoadKey, Goto, Stays, producer, SlowInv, Types, Deqs
<1>9. ASSUME \A m : Home(m)' = Home(m) /\ BlockOf(m)' = BlockOf(m),
             From(c)' = From(c), Uncounted(c)' = Uncounted(c), pc'[c] = "value"
      PROVE  LookupRight(c)'
  <2>1. deq'[c].Array = a /\ deq'[c].Slot = s /\ arrays' = arrays /\ entries' = entries
    BY <1>0, <1>6 DEF LoadKey, producer, shared, SlowInv, Types, Deqs
  <2>2. arrays[a].Index[s] = Home(n) /\ n = Num(From(c))'
    BY <1>0, <1>2, <1>9 DEF s, Num
  <2>3. ASSUME NEW i \in Uncounted(c) PROVE InArray(deq[c].Array, Num(i))'
    <3>1. InArray(deq[c].Array, Num(i))
      BY DEF SlowInv, LookupsRight, LookupRight, LoadKey
    <3> QED BY <1>0, <1>9, <2>1, <3>1 DEF InArray, At0, Num
  <2>4. deq'[c].Slot \in At0(deq[c].Array)'
    BY <1>5, <2>1 DEF At0
  <2> QED BY <1>1, <1>9, <2>1, <2>2, <2>3, <2>4 DEF LookupRight
<1> QED BY <1>7, <1>8, <1>9, LoadStep DEF LoadKey

\* Loading the block of the entry.
LEMMA LoadValueStep ==
  ASSUME SlowInv, ppc # "cleared", NEW c \in Consumers, LoadValue(c)
  PROVE  SlowInv'
<1>0. PICK a, n : a = deq[c].Array /\ n = Num(From(c))
  OBVIOUS
<1>1. /\ a \in 1..Len(arrays) /\ deq[c].Slot \in At0(a)
      /\ arrays[a].Index[deq[c].Slot] = Home(n)
  BY <1>0 DEF SlowInv, LookupsRight, LookupRight, LoadValue
<1>2. n \in Live /\ n \in Int /\ n <= LastNumber
  BY <1>0, NumbersOfItems, NumbersType DEF SlowInv, LoadValue
<1>3. Home(n) \in 1..Len(entries)
  BY <1>2, Slotting DEF SlowInv
<1>4. ~Unstored(n)
  BY <1>2, Sizes DEF Unstored, SlowInv
<1>5. BlockOf(n) = entries[Home(n)].Value /\ BlockOf(n) \in Blocks \union {NULL}
  BY <1>3, <1>4, Sizes DEF BlockOf, SlowInv
<1>6. deq' = [deq EXCEPT ![c].Entry = Home(n), ![c].Block = BlockOf(n)]
  BY <1>0, <1>1, <1>5 DEF LoadValue
<1>7. Types'
  <2>1. Home(n) \in Nat
    BY <1>3, Sizes DEF SlowInv
  <2>2. deq' \in [Consumers -> Deqs]
    BY ZenonT(60), <1>5, <1>6, <2>1 DEF SlowInv, Types, Deqs
  <2>3. pc' \in [Consumers -> DequeuePlaces]
    BY DEF SlowInv, Types, LoadValue, Goto, DequeuePlaces
  <2> QED BY <2>2, <2>3 DEF SlowInv, Types, LoadValue, producer, shared
<1>8. Stays(c, "move")
  <2>1. /\ UNCHANGED <<TailIndex, arrays, ppc, enq, TailBlock, Next, HeadIndex>>
        /\ pc' = [pc EXCEPT ![c] = "move"]
    BY DEF LoadValue, Goto, producer, shared
  <2>2. deq \in [Consumers -> Deqs]
    BY DEF SlowInv, Types
  <2>3. /\ \A d \in Consumers \ {c} : deq'[d] = deq[d]
        /\ deq'[c].First = deq[c].First /\ deq'[c].Count = deq[c].Count /\ deq'[c].Need = deq[c].Need
    BY <1>6, <2>2 DEF Deqs
  <2> QED BY <2>1, <2>3 DEF Stays
<1>9. ASSUME \A m : Home(m)' = Home(m) /\ BlockOf(m)' = BlockOf(m),
             From(c)' = From(c), Uncounted(c)' = Uncounted(c), pc'[c] = "move"
      PROVE  LookupRight(c)'
  <2>1. /\ deq'[c].Array = a /\ deq'[c].Slot = deq[c].Slot /\ deq'[c].Entry = Home(n)
        /\ deq'[c].Block = BlockOf(n) /\ arrays' = arrays /\ entries' = entries
    <3>1. deq \in [Consumers -> Deqs] BY DEF SlowInv, Types
    <3>2. PICK h, b : h = Home(n) /\ b = BlockOf(n) OBVIOUS
    <3>3. deq' = [deq EXCEPT ![c].Entry = h, ![c].Block = b] BY <1>6, <3>2
    <3>4. deq'[c] = [deq[c] EXCEPT !.Entry = h, !.Block = b] BY <3>1, <3>3
    <3>5. deq[c] \in Deqs BY <3>1
    <3>6. deq'[c].Array = a /\ deq'[c].Slot = deq[c].Slot /\ deq'[c].Entry = h /\ deq'[c].Block = b
      BY <1>0, <3>4, <3>5 DEF Deqs
    <3>7. arrays' = arrays /\ entries' = entries
      BY DEF LoadValue, producer, shared
    <3> QED BY <3>2, <3>6, <3>7

  <2>2. n = Num(From(c))' /\ Home(n)' = Home(n) /\ BlockOf(n)' = BlockOf(n)
    BY <1>0, <1>9 DEF Num
  <2>3. ASSUME NEW i \in Uncounted(c) PROVE InArray(deq[c].Array, Num(i))'
    <3>1. InArray(deq[c].Array, Num(i))
      BY DEF SlowInv, LookupsRight, LookupRight, LoadValue
    <3> QED BY <1>0, <1>9, <2>1, <3>1 DEF InArray, At0, Num
  <2>4. deq'[c].Slot \in At0(deq[c].Array)'
    BY <1>1, <2>1 DEF At0
  <2> QED BY <1>1, <1>9, <2>1, <2>2, <2>3, <2>4 DEF LookupRight
<1> QED BY <1>7, <1>8, <1>9, LoadStep DEF LoadValue

\* The items c moves out together are those it has in the block of its next one.
LEMMA SegmentIs ==
  ASSUME Types, ClaimsRight, NEW c \in Consumers, pc[c] # "idle"
  PROVE  Segment(c) = {i \in Pending(c) : Num(i) = Num(From(c))}
<1>1. /\ deq[c].First \in Nat /\ deq[c].Count \in Nat /\ deq[c].Need \in Nat
      /\ 1 <= deq[c].Need /\ deq[c].Need <= deq[c].Count
  BY DEF Types, Deqs, ClaimsRight
<1> DEFINE f == From(c)  n == deq[c].Need
<1>2. f \in Int /\ n \in Nat /\ n >= 1 /\ f + n - 1 = deq[c].First + deq[c].Count - 1
  BY <1>1 DEF From
<1>3. Segment(c) = f..(f + Lesser(n, BlockSize - Inner(f)) - 1)
  BY DEF Segment, From
<1>4. Pending(c) = f..(f + n - 1)
  BY <1>2 DEF Pending
<1> HIDE DEF f, n
<1>5. f..(f + Lesser(n, BlockSize - Inner(f)) - 1) = {i \in f..(f + n - 1) : Num(i) = Num(f)}
  BY <1>2, SegEnd
<1> QED BY <1>3, <1>4, <1>5 DEF f

\* Different items of a block have different places.
LEMMA InnerSame ==
  ASSUME NEW i \in Int, NEW j \in Int, Num(i) = Num(j), Inner(i) = Inner(j)
  PROVE  i = j
<1>1. i = Num(i) * BlockSize + Inner(i) /\ j = Num(j) * BlockSize + Inner(j)
  BY NumType
<1> QED BY <1>1

\* Moving the items out and destroying them.
LEMMA MoveOutStep ==
  ASSUME SlowInv, ppc # "cleared", NEW c \in Consumers, MoveOut(c)
  PROVE  SlowInv'
<1>0. PICK n : n = Num(From(c))
  OBVIOUS
<1> DEFINE B == deq[c].Block  places == {<<B, Inner(i)>> : i \in Segment(c)}
<1>1. /\ B = BlockOf(n) /\ n \in Live /\ n \in Numbers /\ n \in Nat
  BY <1>0, NumbersOfItems, NumbersType DEF SlowInv, MoveOut, LookupsRight, LookupRight
<1>2. \A i : i \in Segment(c) <=> i \in Pending(c) /\ Num(i) = n
  BY <1>0, SegmentIs DEF SlowInv, MoveOut
<1>3. \A i \in Segment(c) : i \in Int /\ i < HeadIndex /\ i < TailIndex /\ i \in Unmoved(c)
  BY <1>2, PendingTypes DEF SlowInv, MoveOut, Unmoved
<1>4. \A b \in Blocks, j \in Places :
        Slots'[b][j] = IF <<b, j>> \notin places THEN Slots[b][j]
                       ELSE IF Slots[b][j] \in {Raw, Bad} THEN Bad ELSE Raw
  BY DEF MoveOut, Destroy
<1>5. \A b \in Blocks, j \in Places : <<b, j>> \in places <=> b = B /\ \E i \in Segment(c) : Inner(i) = j
  OBVIOUS
<1> HIDE DEF places
<1>6. B \in Blocks
  BY <1>1 DEF SlowInv, BlocksRight
<1>7. \A i \in Segment(c) : Slots[B][Inner(i)] = i /\ i \in Items(n)
  <2> SUFFICES ASSUME NEW i \in Segment(c) PROVE Slots[B][Inner(i)] = i /\ i \in Items(n)
    OBVIOUS
  <2>1. Stored(i)
    BY <1>3 DEF Stored
  <2>2. i \in Items(n)
    BY <1>1, <1>2, <1>3, NumItems
  <2> QED BY <1>1, <2>1, <2>2 DEF SlowInv, SlotsRight
<1>8. \A b \in Blocks, j \in Places :
        Slots'[b][j] = IF b = B /\ \E i \in Segment(c) : Inner(i) = j THEN Raw ELSE Slots[b][j]
  <2> SUFFICES ASSUME NEW b \in Blocks, NEW j \in Places
               PROVE  Slots'[b][j] = IF b = B /\ \E i \in Segment(c) : Inner(i) = j
                                     THEN Raw ELSE Slots[b][j]
    OBVIOUS
  <2>1. ASSUME NEW i \in Segment(c), Inner(i) = j, b = B PROVE Slots[b][j] \notin {Raw, Bad}
    <3>1. i \in Nat
      BY <1>2, PendingTypes DEF SlowInv
    <3>2. Raw \notin Nat /\ Bad \notin Nat
      BY SlowQueueAssumption DEF SlowQueueAssumption
    <3>3. Slots[b][j] = i
      BY <1>7, <2>1
    <3> QED BY <3>1, <3>2, <3>3
  <2> QED BY <1>4, <1>5, <2>1
<1>9. Types'
  <2>1. Slots' \in [Blocks -> [Places -> 0..(MaxTail - 1) \union {Raw, Bad}]]

    <3>2. Slots' = [b \in Blocks |-> [i \in Places |->
             IF <<b, i>> \notin places THEN Slots[b][i]
             ELSE IF Slots[b][i] \in {Raw, Bad} THEN Bad ELSE Raw]]
      BY DEF MoveOut, Destroy, places
    <3>3. \A b \in Blocks, j \in Places : Slots'[b][j] \in 0..(MaxTail - 1) \union {Raw, Bad}
      BY <1>8 DEF SlowInv, Types
    <3> DEFINE f(b, j) == IF <<b, j>> \notin places THEN Slots[b][j]
                          ELSE IF Slots[b][j] \in {Raw, Bad} THEN Bad ELSE Raw
    <3>4. Slots' = [b \in Blocks |-> [j \in Places |-> f(b, j)]]
      BY <3>2
    <3> HIDE DEF f
    <3> QED BY <3>3, <3>4
  <2>2. pc' \in [Consumers -> DequeuePlaces]
    BY DEF SlowInv, Types, MoveOut, Goto, DequeuePlaces
  <2> QED BY <2>1, <2>2 DEF SlowInv, Types, MoveOut, producer
<1>10. Stays(c, "count")
  BY DEF MoveOut, Goto, Stays, producer, SlowInv, Types
<1>11. ASSUME \A m : Home(m)' = Home(m) /\ BlockOf(m)' = BlockOf(m),
              From(c)' = From(c), Uncounted(c)' = Uncounted(c), pc'[c] = "count"
       PROVE  LookupRight(c)'
  <2>1. deq' = deq /\ arrays' = arrays /\ entries' = entries
    BY DEF MoveOut, producer
  <2>2. n = Num(From(c))' /\ Home(n)' = Home(n) /\ BlockOf(n)' = BlockOf(n)
    BY <1>0, <1>11 DEF Num
  <2>3. ASSUME NEW i \in Uncounted(c) PROVE InArray(deq[c].Array, Num(i))'
    <3>1. InArray(deq[c].Array, Num(i))
      BY DEF SlowInv, LookupsRight, LookupRight, MoveOut
    <3> QED BY <1>11, <2>1, <3>1 DEF InArray, At0, Num
  <2>4. LookupRight(c) /\ pc[c] = "move"
    BY DEF SlowInv, LookupsRight, MoveOut
  <2>5. At0(deq[c].Array)' = At0(deq[c].Array)
    BY <2>1 DEF At0
  <2> QED BY <1>0, <1>11, <2>1, <2>2, <2>3, <2>4, <2>5 DEF LookupRight
<1>12. /\ \A d \in Consumers : From(d)' = From(d) /\ Pending(d)' = Pending(d)
       /\ \A d \in Consumers \ {c} : Unmoved(d)' = Unmoved(d)
       /\ pc'[c] = "count"
       /\ Numbers' = Numbers /\ \A m : BlockOf(m)' = BlockOf(m)
       /\ SlotsRight' => SlowInv'
  BY <1>9, <1>10, <1>11, EarlyStep DEF MoveOut
<1>13. \A i : i \in Unmoved(c)' <=> i \in Unmoved(c) /\ i \notin Segment(c)
  <2>1. n = Num(From(c))'
    BY <1>0, <1>12 DEF Num
  <2>2. \A i : Num(i)' = Num(i)
    BY DEF Num
  <2> QED BY <1>0, <1>2, <1>12, <2>1, <2>2 DEF Unmoved, MoveOut
<1>14. \A d \in Consumers \ {c} : \A i \in Segment(c) : i \notin Unmoved(d)
  BY <1>2, PendingTypes DEF SlowInv, ClaimsRight
<1>15. \A i : Stored(i)' <=> Stored(i) /\ i \notin Segment(c)
  <2>1. HeadIndex' = HeadIndex /\ TailIndex' = TailIndex /\ ppc' = ppc /\ enq' = enq
    BY DEF MoveOut, producer
  <2>2. \A i \in Segment(c) : i < TailIndex /\ ~(i >= HeadIndex) /\ ~(i >= TailIndex)
    BY <1>3 DEF SlowInv, Types
  <2> QED BY <1>12, <1>13, <1>14, <2>1, <2>2 DEF Stored
<1>16. SlotsRight'
  <2>1. ASSUME NEW b \in Blocks, \A m \in Numbers : b # BlockOf(m), NEW j \in Places
        PROVE  Slots'[b][j] = Raw
    <3>1. b # B /\ Slots[b][j] = Raw
      BY <1>1, <2>1 DEF SlowInv, SlotsRight
    <3> QED BY <1>8, <3>1
  <2>2. ASSUME NEW m \in Numbers, NEW i \in Items(m)
        PROVE  Slots'[BlockOf(m)][Inner(i)] = IF Stored(i)' THEN i ELSE Raw
    <3>0. BlockOf(m) \in Blocks /\ m \in Int /\ i \in Int /\ Inner(i) \in Places /\ Num(i) = m
      BY NumbersType, ItemsFinite, NumType, NumItems DEF SlowInv, BlocksRight
    <3>1. Slots[BlockOf(m)][Inner(i)] = IF Stored(i) THEN i ELSE Raw
      BY DEF SlowInv, SlotsRight
    <3>2. CASE m = n
      <4>1. ASSUME NEW j \in Segment(c), Inner(j) = Inner(i) PROVE j = i
        <5>1. j \in Int /\ Num(j) = n
          BY <1>2, <1>3
        <5> QED BY <3>0, <3>2, <4>1, <5>1, InnerSame
      <4>2. CASE i \in Segment(c)
        BY <1>1, <1>8, <1>15, <3>0, <3>2, <4>2
      <4>3. CASE i \notin Segment(c)
        BY <1>8, <1>15, <3>0, <3>1, <4>1, <4>3
      <4> QED BY <4>2, <4>3
    <3>3. CASE m # n
      <4>1. BlockOf(m) # B
        <5>1. \A k, l \in Numbers : BlockOf(k) = BlockOf(l) => k = l
          BY DEF SlowInv, BlocksRight
        <5> QED BY <1>1, <3>3, <5>1

      <4>2. i \notin Segment(c)
        BY <1>2, <3>0, <3>3
      <4> QED BY <1>8, <1>15, <3>0, <3>1, <4>1, <4>2
    <3> QED BY <3>2, <3>3
  <2>3. Numbers' = Numbers /\ \A m : BlockOf(m)' = BlockOf(m)
    BY <1>12
  <2>4. \A b \in Blocks : (\A m \in Numbers : b # BlockOf(m)) => \A j \in Places : Slots'[b][j] = Raw
    BY <2>1
  <2> QED BY <2>2, <2>3, <2>4 DEF SlotsRight, Items, Inner, Places
<1> QED BY <1>12, <1>16

\* FollowingBlock leaves c with the items it has not seen to.
LEMMA Following ==
  ASSUME Types, ClaimsRight, NEW c \in Consumers, pc[c] \in {"count", "return"}, FollowingBlock(c)
  PROVE  /\ Pending(c)' = Pending(c) \ Segment(c)
         /\ Uncounted(c)' = Pending(c)' /\ Unmoved(c)' = Pending(c)'
         /\ pc'[c] \in {"idle", "value"}
         /\ \A d \in Consumers \ {c} : pc'[d] = pc[d] /\ deq'[d] = deq[d]
         /\ pc'[c] = "idle" => deq'[c] = NoDeq
         /\ pc'[c] = "value" =>
              /\ Pending(c)' # {}
              /\ Num(From(c))' = Num(From(c)) + 1 /\ From(c)' \in Pending(c)
              /\ 1 <= deq'[c].Need /\ deq'[c].Need <= deq'[c].Count
              /\ deq'[c].First = deq[c].First /\ deq'[c].Count = deq[c].Count
              /\ deq'[c].Array = deq[c].Array
              /\ deq'[c].Slot = (deq[c].Slot + 1) % arrays[deq[c].Array].Size
         /\ pc' \in [Consumers -> DequeuePlaces]
         /\ (deq[c].Slot + 1) % arrays[deq[c].Array].Size \in Nat => deq' \in [Consumers -> Deqs]
<1>1. /\ deq[c].First \in Nat /\ deq[c].Count \in Nat /\ deq[c].Need \in Nat
      /\ 1 <= deq[c].Need /\ deq[c].Need <= deq[c].Count
      /\ deq \in [Consumers -> Deqs] /\ pc \in [Consumers -> DequeuePlaces]
  BY DEF Types, Deqs, ClaimsRight
<1> DEFINE f == From(c)  n == deq[c].Need  k == Lesser(n, BlockSize - Inner(f))
           a == deq[c].Array  slot == (deq[c].Slot + 1) % arrays[a].Size
<1>2. f \in Nat /\ n \in Nat /\ n >= 1 /\ f = deq[c].First + deq[c].Count - n
  BY <1>1 DEF From
<1>3. Inner(f) \in 0..(BlockSize - 1)
  BY <1>2, NumType DEF Places
<1>4. k \in Nat /\ 1 <= k /\ k <= n /\ (k < n => k = BlockSize - Inner(f))
  BY <1>2, <1>3, BlockSizeIs DEF Lesser
<1>5. Segment(c) = f..(f + k - 1)
  BY DEF Segment, From
<1>6. Pending(c) = f..(f + n - 1)
  BY <1>1, <1>2 DEF Pending
<1>7. Cardinality(Segment(c)) = k
  <2> HIDE DEF k, f
  <2>1. PICK lo, hi : lo = f /\ hi = f + k - 1
    OBVIOUS
  <2>2. lo \in Int /\ hi \in Int /\ lo <= hi /\ hi - lo + 1 = k
    BY <1>2, <1>4, <2>1
  <2>3. Cardinality(lo..hi) = hi - lo + 1
    BY <2>2, FS_Interval
  <2> QED BY <1>5, <2>1, <2>2, <2>3
<1>8. IF n - k = 0 THEN Goto(c, "idle") /\ deq' = [deq EXCEPT ![c] = NoDeq]
      ELSE /\ Goto(c, "value")
           /\ deq' = [deq EXCEPT ![c].Need = n - k, ![c].Entry = 0, ![c].Block = NULL,
                                 ![c].Slot = slot]
  <2>1. (deq[c].Slot + 1) % arrays[deq[c].Array].Size = slot
    OBVIOUS
  <2> HIDE DEF slot
  <2> QED BY <1>7, <2>1 DEF FollowingBlock
<1> HIDE DEF f, k, slot
<1>9. CASE n - k = 0
  <2>1. pc' = [pc EXCEPT ![c] = "idle"] /\ deq' = [deq EXCEPT ![c] = NoDeq]
    BY <1>8, <1>9 DEF Goto
  <2>2. NoDeq \in Deqs
    BY DEF NoDeq, Deqs
  <2>3. pc'[c] = "idle" /\ deq'[c] = NoDeq
    BY <1>1, <2>1
  <2>4. From(c)' = 0 /\ Pending(c)' = {}
    BY <2>3 DEF From, Pending, NoDeq
  <2>5. Uncounted(c)' = {} /\ Unmoved(c)' = {}
    BY <2>4 DEF Uncounted, Unmoved
  <2>6. Pending(c) \ Segment(c) = {}
    BY <1>2, <1>4, <1>5, <1>6, <1>9
  <2>7. \A d \in Consumers \ {c} : pc'[d] = pc[d] /\ deq'[d] = deq[d]
    BY <1>1, <2>1
  <2>8. pc' \in [Consumers -> DequeuePlaces] /\ deq' \in [Consumers -> Deqs]
    BY <1>1, <2>1, <2>2 DEF DequeuePlaces
  <2> QED BY <2>3, <2>4, <2>5, <2>6, <2>7, <2>8
<1>10. CASE n - k # 0
  <2>1. /\ pc' = [pc EXCEPT ![c] = "value"]
        /\ deq' = [deq EXCEPT ![c].Need = n - k, ![c].Entry = 0, ![c].Block = NULL, ![c].Slot = slot]
    BY <1>8, <1>10 DEF Goto
  <2>2. deq[c] \in Deqs
    BY <1>1
  <2>20. PICK v, s : v = n - k /\ s = slot
    OBVIOUS
  <2>21. deq' = [deq EXCEPT ![c].Need = v, ![c].Entry = 0, ![c].Block = NULL, ![c].Slot = s]
    BY <2>1, <2>20
  <2>22. deq'[c] = [deq[c] EXCEPT !.Need = v, !.Entry = 0, !.Block = NULL, !.Slot = s]
    BY <1>1, <2>21
  <2>23. pc'[c] = "value"
    BY <1>1, <2>1
  <2>24. /\ deq'[c].First = deq[c].First /\ deq'[c].Count = deq[c].Count
         /\ deq'[c].Array = deq[c].Array /\ deq'[c].Slot = s /\ deq'[c].Need = v
    BY <2>2, <2>22 DEF Deqs
  <2>3. pc'[c] = "value" /\ deq'[c].First = deq[c].First /\ deq'[c].Count = deq[c].Count
    BY <2>23, <2>24
  <2>4. deq'[c].Array = deq[c].Array /\ deq'[c].Slot = slot /\ deq'[c].Need = n - k
    BY <2>20, <2>24
  <2>5. n - k \in Nat /\ 1 <= n - k /\ n - k <= deq[c].Count
    <3>1. n \in Nat /\ k \in Nat /\ 1 <= k /\ k <= n /\ n <= deq[c].Count /\ deq[c].Count \in Nat
      BY <1>1, <1>4
    <3> QED BY <1>10, <3>1
  <2>6.
 From(c)' = f + k
    BY <1>1, <1>2, <1>4, <2>3, <2>4 DEF From
  <2>7. Pending(c)' = (f + k)..(f + n - 1)
    BY <1>1, <1>2, <2>3, <2>4, <2>6 DEF Pending
  <2>8. Pending(c)' = Pending(c) \ Segment(c)
    BY <1>2, <1>4, <1>5, <1>6, <1>10, <2>7
  <2>9. f + k \in Pending(c) /\ f + k \in Pending(c)'
    BY <1>2, <1>4, <1>6, <1>10, <2>7
  <2>10. Uncounted(c)' = Pending(c)' /\ Unmoved(c)' = Pending(c)'
    BY <2>3 DEF Uncounted, Unmoved
  <2>11. Num(f + k) = Num(f) + 1
    <3>1. k = BlockSize - Inner(f)
      BY <1>2, <1>4, <1>10
    <3>2. f = Num(f) * BlockSize + Inner(f) /\ Num(f) \in Int
      BY <1>2, NumType
    <3>3. f + k = (Num(f) + 1) * BlockSize + 0
      BY <1>2, <1>3, <3>1, <3>2, BlockSizeIs
    <3>4. 0 \in Places /\ Num(f) + 1 \in Int
      BY <3>2, BlockSizeIs DEF Places
    <3> QED BY <3>3, <3>4, NumUnique
  <2>12. \A d \in Consumers \ {c} : pc'[d] = pc[d] /\ deq'[d] = deq[d]
    BY <1>1, <2>1
  <2>13. pc' \in [Consumers -> DequeuePlaces]
    BY <1>1, <2>1 DEF DequeuePlaces
  <2>14. slot \in Nat => deq' \in [Consumers -> Deqs]
    <3> SUFFICES ASSUME slot \in Nat PROVE deq' \in [Consumers -> Deqs]
      OBVIOUS
    <3>1. v \in Nat /\ s \in Nat
      BY <2>5, <2>20
    <3>2. [deq[c] EXCEPT !.Need = v, !.Entry = 0, !.Block = NULL, !.Slot = s] \in Deqs
      BY <2>2, <3>1 DEF Deqs
    <3>3. \A d \in Consumers : deq'[d] \in Deqs
      BY <1>1, <2>12, <2>22, <3>2
    <3>4. deq' = [d \in Consumers |-> deq'[d]]
      BY <1>1, <2>21
    <3> QED BY <3>3, <3>4

  <2>15.
 Num(From(c))' = Num(From(c)) + 1
    <3>1. Num(From(c))' = Num(f + k)
      BY <2>6 DEF Num
    <3> QED BY <2>11, <3>1 DEF f
  <2> QED BY <2>3, <2>4, <2>5, <2>6, <2>8, <2>9, <2>10, <2>12, <2>13, <2>14, <2>15 DEF slot
<1> QED BY <1>9, <1>10

\* Going on to the next block leaves the claims right.
LEMMA FollowingClaims ==
  ASSUME Types, ClaimsRight, NEW c \in Consumers, pc[c] \in {"count", "return"}, FollowingBlock(c),
         HeadIndex' = HeadIndex, \A m : AllDone(m) => AllDone(m)'
  PROVE  ClaimsRight'
<1>1. /\ Pending(c)' \subseteq Pending(c)
      /\ pc'[c] \in {"idle", "value"}
      /\ \A d \in Consumers \ {c} : pc'[d] = pc[d] /\ deq'[d] = deq[d]
      /\ pc'[c] = "idle" => deq'[c] = NoDeq
      /\ pc'[c] = "value" => /\ 1 <= deq'[c].Need /\ deq'[c].Need <= deq'[c].Count
                             /\ deq'[c].First = deq[c].First /\ deq'[c].Count = deq[c].Count
  BY Following
<1>2. \A d \in Consumers \ {c} : From(d)' = From(d) /\ Pending(d)' = Pending(d)
  BY <1>1, ConsumerSame
<1>3. \A d, e \in Consumers : d # e => Pending(d)' \intersect Pending(e)' = {}
  BY <1>1, <1>2 DEF ClaimsRight
<1>4. \A d \in Consumers \ {c} : Num(From(d))' = Num(From(d))
  BY <1>2 DEF Num
<1>5. \A d, e \in Consumers : d # e /\ pc'[d] = "free" /\ pc'[e] = "free" => Num(From(d))' # Num(From(e))'
  BY <1>1, <1>4 DEF ClaimsRight
<1>6. ASSUME NEW d \in Consumers \ {c}, pc[d] \in {"free", "return"} PROVE AllDone(Num(From(d)))'
  <2>1. PICK m : m = Num(From(d))
    OBVIOUS
  <2>2. m = Num(From(d))'
    BY <1>4, <2>1
  <2>3. AllDone(m)'
    BY <1>6, <2>1 DEF ClaimsRight
  <2> QED BY <2>2, <2>3
<1>7. deq'[c].First + deq'[c].Count <= HeadIndex'
  <2>1. CASE pc'[c] = "idle"
    BY <1>1, <2>1 DEF NoDeq, Types
  <2>2. CASE pc'[c] = "value"
    BY <1>1, <2>2 DEF ClaimsRight
  <2> QED BY <1>1, <2>1, <2>2
<1>8. ASSUME NEW d \in Consumers
      PROVE  /\ IF pc'[d] = "idle" THEN deq'[d] = NoDeq
                ELSE 1 <= deq'[d].Need /\ deq'[d].Need <= deq'[d].Count
             /\ deq'[d].First + deq'[d].Count <= HeadIndex'
             /\ pc'[d] \in {"array", "tail", "key"} => deq'[d].Need = deq'[d].Count
             /\ pc'[d] \in {"free", "return"} => AllDone(Num(From(d)))'
  <2>1. CASE d = c
    BY <1>1, <1>7, <2>1
  <2>2. CASE d # c
    BY <1>1, <1>6, <2>2 DEF ClaimsRight
  <2> QED BY <2>1, <2>2
<1> QED BY <1>3, <1>5, <1>8 DEF ClaimsRight, NoDeq

\* What c has found of its next block.
LEMMA FollowingLookup ==
  ASSUME SlowInv, NEW c \in Consumers, pc[c] \in {"count", "return"}, FollowingBlock(c),
         UNCHANGED <<arrays>>, \A m : Home(m)' = Home(m)
  PROVE  LookupRight(c)' /\ deq' \in [Consumers -> Deqs]
<1>1. /\ Pending(c)' = Pending(c) \ Segment(c)
      /\ Uncounted(c)' = Pending(c)'
      /\ pc'[c] \in {"idle", "value"}
      /\ pc'[c] = "value" =>
           /\ Pending(c)' # {}
           /\ Num(From(c))' = Num(From(c)) + 1 /\ From(c)' \in Pending(c) 
           /\ deq'[c].Array = deq[c].Array
           /\ deq'[c].Slot = (deq[c].Slot + 1) % arrays[deq[c].Array].Size
      /\ (deq[c].Slot + 1) % arrays[deq[c].Array].Size \in Nat => deq' \in [Consumers -> Deqs]
  BY Following DEF SlowInv
<1>2. PICK a, n : a = deq[c].Array /\ n = Num(From(c))
  OBVIOUS
<1> DEFINE slot == (deq[c].Slot + 1) % arrays[a].Size
<1>3. a \in 1..Len(arrays) /\ deq[c].Slot \in At0(a) /\ LookupRight(c)
  BY <1>2 DEF SlowInv, LookupsRight, LookupRight
<1>4. slot \in At0(a) /\ slot \in Nat
  <2>1. arrays[a].Size \in Nat \ {0}
    BY <1>3, Sizes DEF SlowInv
  <2>2. deq[c].Slot + 1 \in Int
    BY <1>3, <2>1 DEF At0
  <2>3. slot \in 0..(arrays[a].Size - 1)
    BY <2>1, <2>2, ModType
  <2> QED BY <2>1, <2>3 DEF At0
<1>5. deq' \in [Consumers -> Deqs]
  BY <1>1, <1>2, <1>4
<1>6. CASE pc'[c] = "idle"
  BY <1>5, <1>6 DEF LookupRight
<1>7. CASE pc'[c] = "value"
  <2>1. n \in Nat
    BY <1>2, PendingTypes DEF SlowInv
  <2>2. Uncounted(c)' \subseteq Uncounted(c) /\ From(c)' \in Int /\ Num(From(c)') = n + 1
    <3>1. Uncounted(c)' \subseteq Uncounted(c)
      <4>1. \A i : i \in Segment(c) <=> i \in Pending(c) /\ Num(i) = n
        BY <1>2, SegmentIs DEF SlowInv
      <4> QED BY <1>1, <1>2, <4>1 DEF Uncounted
    <3>2. From(c)' \in Int
      BY <1>1, <1>7, PendingTypes DEF SlowInv
    <3> QED BY <1>1, <1>2, <1>7, <3>1, <3>2 DEF Num
  <2>3. From(c)' \in Uncounted(c) 
    <3>1. From(c)' \in Pending(c)
      BY <1>1, <1>7
    <3>2. Num(From(c)') # n
      BY <2>1, <2>2
    <3> QED BY <1>2, <3>1, <3>2 DEF Uncounted
  <2>4. arrays[a].Index[slot] = Home(n + 1)
    <3>1. CASE pc[c] = "count"
      <4>1. arrays[a].Index[deq[c].Slot] = Home(n)
        BY <1>2, <1>3, <3>1 DEF LookupRight
      <4>2. InArray(a, n + 1)
        BY <1>2, <1>3, <2>2, <2>3, <3>1 DEF LookupRight
      <4>3. PICK s \in At0(a) : arrays[a].Index[s] = Home(n + 1)
        BY <4>2 DEF InArray
      <4>4. s = (deq[c].Slot + ((n + 1) - n)) % arrays[a].Size
        <5>1. n \in Int /\ n + 1 \in Int
          BY <2>1
        <5> QED BY <1>3, <4>1, <4>3, <5>1, Steering DEF SlowInv
      <4>5. (n + 1) - n = 1
        BY <2>1
      <4> QED BY <4>3, <4>4, <4>5
    <3>2. CASE pc[c] = "return"
      BY <1>2, <1>3, <2>3, <3>2 DEF LookupRight
    <3> QED BY <3>1, <3>2
  <2>5. ASSUME NEW i \in Uncounted(c)' PROVE InArray(deq[c].Array, Num(i))'
    <3>1. i \in Uncounted(c)
      BY <2>2
    <3>2. InArray(a, Num(i))
      BY <1>2, <1>3, <3>1 DEF LookupRight
    <3> QED BY <1>1, <1>2, <1>7, <3>2 DEF InArray, At0, Num
  <2>6. deq'[c].Slot \in At0(deq[c].Array)' /\ deq'[c].Array \in 1..Len(arrays')
    BY <1>1, <1>2, <1>3, <1>4, <1>7 DEF At0
  <2>7. arrays'[deq'[c].Array].Index[deq'[c].Slot] = Home(Num(From(c)))'
    <3>1. PICK k : k = n + 1
      OBVIOUS
    <3>2. k = Num(From(c))'
      BY <1>1, <1>2, <1>7, <3>1
    <3>3. arrays[a].Index[slot] = Home(k)'
      BY <2>4, <3>1
    <3>4. arrays' = arrays /\ deq'[c].Array = a /\ deq'[c].Slot = slot
      BY <1>1, <1>2, <1>7
    <3> QED BY <3>2, <3>3, <3>4
  <2> QED BY <1>5, <1>7, <2>5, <2>6, <2>7 DEF LookupRight
<1> QED BY <1>1, <1>5, <1>6, <1>7

\* Counting the emptied items: SetEmpty and SetSomeEmpty.
LEMMA SetSomeEmptyStep ==
  ASSUME SlowInv, ppc # "cleared", NEW c \in Consumers, SetSomeEmpty(c)
  PROVE  SlowInv'
<1>0. PICK n, B, seg : n = Num(From(c)) /\ B = deq[c].Block /\ seg = Segment(c)
  OBVIOUS
<1> DEFINE D == {i \in Items(n) : Done(i)}
<1>1. /\ Types /\ ArraysRight /\ CallRight /\ ClaimsRight /\ WindowRight /\ KeysRight /\ ValuesRight
      /\ BlocksRight /\ ChainRight /\ SlotsRight /\ CountersRight /\ LookupsRight
  BY DEF SlowInv
<1>2. /\ pc[c] = "count" /\ LookupRight(c)
      /\ HeadIndex' = HeadIndex /\ TailIndex' = TailIndex /\ arrays' = arrays /\ ppc' = ppc
      /\ enq' = enq /\ TailBlock' = TailBlock /\ Next' = Next
      /\ entries' = entries /\ Slots' = Slots /\ free' = free
      /\ Counter' = [Counter EXCEPT ![B] = Counter[B] + Cardinality(seg)]
  BY <1>0, <1>1 DEF SetSomeEmpty, producer, LookupsRight, Emptied
<1>3. n \in Live /\ n \in Numbers /\ n \in Nat /\ B = BlockOf(n) /\ B \in Blocks
  <2>1. n \in Live /\ n \in Numbers /\ n \in Nat
    BY <1>0, <1>1, <1>2, NumbersOfItems, NumbersType
  <2>2. B = BlockOf(n)
    BY <1>0, <1>2 DEF LookupRight
  <2> QED BY <1>1, <2>1, <2>2 DEF BlocksRight
<1>4. \A i : i \in seg <=> i \in Pending(c) /\ Num(i) = n
  BY <1>0, <1>1, <1>2, SegmentIs
<1>5. seg \subseteq Items(n) /\ seg \intersect D = {}
  <2>1. \A i \in seg : i \in Items(n)
    BY <1>1, <1>3, <1>4, PendingTypes, NumItems
  <2>2. \A i \in seg : ~Done(i)
    <3>1. Uncounted(c) = Pending(c)
      BY <1>2 DEF Uncounted
    <3> QED BY <1>4, <3>1 DEF Done
  <2> QED BY <2>1, <2>2
<1>6. Counter[B] + Cardinality(seg) = Cardinality(D \union seg) /\ IsFiniteSet(D \union seg)
  <2>1. IsFiniteSet(Items(n))
    BY <1>3, ItemsFinite
  <2>2. IsFiniteSet(D) /\ IsFiniteSet(seg) /\ IsFiniteSet(D \union seg)
    BY <1>5, <2>1, FS_Subset, FS_Union
  <2>3. Counter[B] = Cardinality(D)
    BY <1>1, <1>3 DEF CountersRight
  <2>4. Cardinality(D \union seg) = Cardinality(D) + Cardinality(seg) - Cardinality(D \intersect seg)
    <3> HIDE DEF D
    <3> QED BY <2>2, FS_Union
  <2>5. Cardinality(D \intersect seg) = 0
    BY <1>5, FS_EmptySet
  <2>6. Cardinality(D) \in Nat /\ Cardinality(seg) \in Nat
    BY <2>2, FS_CardinalityType
  <2> QED BY <2>2, <2>3, <2>4, <2>5, <2>6
<1>7. /\ Cardinality(D \union seg) \in 0..BlockSize
      /\ Cardinality(D \union seg) = BlockSize <=> D \union seg = Items(n)
  <2>1. IsFiniteSet(Items(n)) /\ Cardinality(Items(n)) = BlockSize
    BY <1>3, ItemsFinite
  <2>2. D \union seg \subseteq Items(n)
    BY <1>5
  <2>3. Cardinality(D \union seg) \in Nat
    BY <1>6, FS_CardinalityType
  <2> HIDE DEF D
  <2>4. Cardinality(D \union seg) <= BlockSize /\ (Cardinality(D \union seg) = BlockSize => D \union seg = Items(n))
    BY <2>1, <2>2, FS_Subset
  <2> QED BY <2>1, <2>3, <2>4, BlockSizeIs
<1>8. /\ IF D \union seg = Items(n) THEN Goto(c, "free") /\ deq' = deq ELSE FollowingBlock(c)
      /\ Counter' = [Counter EXCEPT ![B] = Cardinality(D \union seg)]
  BY <1>0, <1>2, <1>6, <1>7 DEF SetSomeEmpty, Emptied
<1> HIDE DEF D
<1>9. /\ D \union seg = Items(n) => Stays(c, "free") /\ deq' = deq
      /\ D \union seg # Items(n) => FollowingBlock(c)
  BY <1>2, <1>8 DEF Stays, Goto
<1>10. /\ Uncounted(c)' = Pending(c) \ seg /\ Unmoved(c)' = Unmoved(c)
       /\ \A d \in Consumers \ {c} : pc'[d] = pc[d] /\ deq'[d] = deq[d]
       /\ pc'[c] = "free" <=> D \union seg = Items(n)
       /\ pc'[c] \in {"free", "idle", "value"}
       /\ pc' \in [Consumers -> DequeuePlaces]
  <2>1. Unmoved(c) = Pending(c) \ seg
    BY <1>0, <1>2, <1>4 DEF Unmoved
  <2>2. CASE D \union seg = Items(n)
    <3>1. pc' = [pc EXCEPT ![c] = "free"] /\ deq' = deq /\ pc \in [Consumers -> DequeuePlaces]
      BY <1>1, <1>9, <2>2 DEF Stays, Types
    <3>2. pc'[c] = "free" /\ From(c)' = From(c) /\ Pending(c)' = Pending(c)
      BY <3>1 DEF From, Pending
    <3>3. Uncounted(c)' = Pending(c) \ seg /\ Unmoved(c)' = Pending(c) \ seg
      BY <1>0, <1>4, <3>2 DEF Uncounted, Unmoved, Num
    <3> QED BY <2>1, <2>2, <3>1, <3>2, <3>3 DEF DequeuePlaces
  <2>3. CASE D \union seg # Items(n)
    BY <1>0, <1>1, <1>2, <1>9, <2>1, <2>3, Following
  <2> QED BY <2>2, <2>3
<1>11. /\ \A d \in Consumers \ {c} : /\ From(d)' = From(d) /\ Pending(d)' = Pending(d)
                                     /\ Uncounted(d)' = Uncounted(d)
       /\ \A d \in Consumers : Unmoved(d)' = Unmoved(d)
  BY <1>10, ConsumerSame
<1>12. \A i : Done(i)' <=> Done(i) \/ i \in seg
  <2>1. Uncounted(c) = Pending(c)
    BY <1>2 DEF Uncounted
  <2>2. \A i \in seg : i < HeadIndex
    BY <1>1, <1>4, PendingTypes
  <2>3. \A i \in seg : \A d \in Consumers \ {c} : i \notin Uncounted(d)
    BY <1>1, <1>4, PendingTypes DEF ClaimsRight
  <2>4. \A i \in seg : i \in Pending(c)
    BY <1>4
  <2> QED BY <1>2, <1>10, <1>11, <2>1, <2>2, <2>3, <2>4 DEF Done
<1>13. \A i : Stored(i)' = Stored(i)
  BY <1>2, <1>11, StoredSame
<1>14. /\ \A m \in Int : m # n => AllDone(m)' = AllDone(m)
       /\ AllDone(n)' <=> D \union seg = Items(n)
       /\ \A m : AllDone(m) => AllDone(m)'
  <2>0. \A m : Items(m)' = Items(m)
    BY DEF Items
  <2>1. ASSUME NEW m \in Int, m # n PROVE AllDone(m)' = AllDone(m)
    <3>1. \A i \in Items(m) : i \notin seg
      BY <1>4, <2>1, ItemsFinite, NumItems
    <3> QED BY <1>12, <2>0, <3>1 DEF AllDone
  <2>2. AllDone(n)' <=> D \union seg = Items(n)
    BY <1>5, <1>12, <2>0 DEF AllDone, D
  <2>3. \A m : AllDone(m) => AllDone(m)'
    BY <1>12, <2>0 DEF AllDone
  <2> QED BY <2>1, <2>2, <2>3
<1>15. /\ LastNumber' = LastNumber /\ New' = New /\ Current' = Current
       /\ \A m : Home(m)' = Home(m) 
  BY <1>2, IndexSame
<1>16. /\ \A m : m # n => Freeing(m)' = Freeing(m)
       /\ Freeing(n) => Freeing(n)'
       /\ D \union seg = Items(n) => Freeing(n)'
  <2>1. \A d \in Consumers \ {c} : Num(From(d))' = Num(From(d)) /\ pc'[d] = pc[d]
    BY <1>10, <1>11 DEF Num
  <2>2. pc'[c] = "free" => Num(From(c))' = n
    <3>1. pc'[c] = "free" => deq' = deq
      BY <1>9, <1>10
    <3> QED BY <1>0, <3>1 DEF Num, From
  <2> QED BY <1>2, <1>10, <2>1, <2>2 DEF Freeing
<1>17. Live' = Live /\ Numbers' = Numbers
  <2>1. \A m \in 0..LastNumber : (AllDone(m)' => Freeing(m)') <=> (AllDone(m) => Freeing(m))
    <3> SUFFICES ASSUME NEW m \in 0..LastNumber
                 PROVE  (AllDone(m)' => Freeing(m)') <=> (AllDone(m) => Freeing(m))
      OBVIOUS
    <3>1. CASE m = n
      <4>1. AllDone(n) => Freeing(n)
        BY <1>3 DEF Live
      <4> QED BY <1>14, <1>16, <3>1, <4>1
    <3>2. CASE m # n
      BY <1>14, <1>16, <3>2, Sizes, m \in Int
    <3> QED BY <3>1, <3>2
  <2> QED BY <1>15, <2>1 DEF Live, Numbers
<1>18. /\ ArraysRight' /\ WindowRight' /\ KeysRight' /\ ValuesRight' /\ ChainRight'
       /\ \A m : BlockOf(m)' = BlockOf(m)
  BY <1>1, <1>2, <1>17, IndexRightSame
<1>19. CallRight'
  BY <1>1, <1>2, <1>15 DEF CallRight, Num
<1>20. ClaimsRight'
  <2>1. CASE D \union seg = Items(n)
    <3>1. AllDone(Num(From(c)))'
      <4>1. n = Num(From(c))'
        BY <1>0, <1>9, <2>1 DEF Num, From
      <4> QED BY <1>14, <2>1, <4>1
    <3>2. \A d \in Consumers \ {c} : pc[d] = "free" => Num(From(c)) # Num(From(d))
      <4> SUFFICES ASSUME NEW d \in Consumers \ {c}, pc[d] = "free", Num(From(d)) = n PROVE FALSE
        BY <1>0
      <4>1. AllDone(n)
        BY <1>1 DEF ClaimsRight
      <4>2. From(c) \in Uncounted(c) /\ From(c) \in Items(n)
        BY <1>0, <1>1, <1>2, <1>3, PendingTypes, NumItems DEF Uncounted
      <4> QED BY <4>1, <4>2 DEF AllDone, Done
    <3> QED BY <1>1, <1>2, <1>9, <1>14, <2>1, <3>1, <3>2, StayingClaims DEF DequeuePlaces
  <2>2. CASE D \union seg # Items(n)
    BY <1>1, <1>2, <1>9, <1>14, <2>2, FollowingClaims
  <2> QED BY <2>1, <2>2
<1>21. BlocksRight'
  <2>1. \A d \in Consumers : /\ pc'[d] = "return" <=> pc[d] = "return"
                             /\ pc[d] = "return" => deq'[d].Block = deq[d].Block
    BY <1>2, <1>10
  <2> QED BY <1>1, <1>2, <1>17, <1>18, <2>1 DEF BlocksRight
<1>22. SlotsRight'
  BY <1>1, <1>2, <1>13, <1>17, <1>18 DEF SlotsRight, Items, Inner
<1>23. CountersRight'
  <2> SUFFICES ASSUME NEW m \in Numbers
               PROVE  Counter'[BlockOf(m)] = Cardinality({i \in Items(m) : Done(i)'})
    BY <1>17, <1>18 DEF CountersRight, Items
  <2>0. BlockOf(m) \in Blocks /\ Counter \in [Blocks -> 0..BlockSize]
    BY <1>1 DEF BlocksRight, Types
  <2>1. CASE m = n
    <3>1. {i \in Items(n) : Done(i)'} = D \union seg
      BY <1>5, <1>12 DEF D
    <3> QED BY <1>3, <1>8, <2>0, <2>1, <3>1
  <2>2. CASE m # n
    <3>1. BlockOf(m) # B
      <4>1. \A k, l \in Numbers : BlockOf(k) = BlockOf(l) => k = l
        BY <1>1 DEF BlocksRight
      <4> QED BY <1>3, <2>2, <4>1
    <3>2. \A i \in Items(m) : i \notin seg
      BY <1>1, <1>4, <2>2, ItemsFinite, NumItems, NumbersType
    <3>3. {i \in Items(m) : Done(i)'} = {i \in Items(m) : Done(i)}
      BY <1>12, <3>2
    <3>4. Counter'[BlockOf(m)] = Counter[BlockOf(m)]
      BY <1>8, <2>0, <3>1
    <3> QED BY <1>1, <3>3, <3>4 DEF CountersRight
  <2> QED BY <2>1, <2>2
<1>24. LookupRight(c)' /\ deq' \in [Consumers -> Deqs]
  <2>1. CASE D \union seg = Items(n)
    <3>1. deq' = deq /\ pc'[c] = "free"
      BY <1>9, <1>10, <2>1
    <3>2. n = Num(From(c))' /\ Home(n)' = Home(n) /\ BlockOf(n)' = BlockOf(n)
      BY <1>0, <1>15, <1>18, <3>1 DEF Num, From
    <3>3. ASSUME NEW i \in Uncounted(c)' PROVE InArray(deq[c].Array, Num(i))'
      <4>1. i \in Uncounted(c)
        BY <1>2, <1>10 DEF Uncounted
      <4>2. InArray(deq[c].Array, Num(i))
        BY <1>2, <4>1 DEF LookupRight
      <4> QED BY <1>2, <1>15, <3>1, <4>2 DEF InArray, At0, Num
    <3>4. At0(deq[c].Array)' = At0(deq[c].Array)
      BY <1>2, <3>1 DEF At0
    <3>5. deq' \in [Consumers -> Deqs]
      BY <1>1, <3>1 DEF Types
    <3>6. LookupRight(c)'
      BY <1>0, <1>2, <3>1, <3>2, <3>3, <3>4 DEF LookupRight
    <3> QED BY <3>5, <3>6
  <2>2. CASE D \union seg # Items(n)
    BY <1>2, <1>9, <1>15, <2>2, FollowingLookup
  <2> QED BY <2>1, <2>2
<1>25. LookupsRight'
  <2> SUFFICES ASSUME NEW d \in Consumers, d # c PROVE LookupRight(d)'
    BY <1>24 DEF LookupsRight
  <2>1. pc'[d] = pc[d] /\ deq'[d] = deq[d] /\ LookupRight(d)
    BY <1>1, <1>10 DEF LookupsRight
  <2>2. \A a, t, m : Leads(a, t, m)' = Leads(a, t, m)
    BY <1>2, <1>15 DEF Leads
  <2>3. pc[d] = "tail" => Leads(deq[d].Array, arrays[deq[d].Array].Tail, Num(From(d)))'
    BY <1>2, <1>11, <2>1, <2>2 DEF LookupRight, Num
  <2>4. pc[d] = "key" => Leads(deq[d].Array, deq[d].Tail, Num(From(d)))'
    BY <1>2, <1>11, <2>1, <2>2 DEF LookupRight, Num
  <2> QED BY <1>1, <1>2, <1>15, <1>18, <2>1, <2>3, <2>4, LookupSame
<1>26. Types'
  <2>1. Counter' \in [Blocks -> 0..BlockSize]
    BY <1>1, <1>7, <1>8 DEF Types
  <2> QED BY <1>1, <1>2, <1>10, <1>24, <2>1 DEF Types
<1> QED BY <1>18, <1>19, <1>20, <1>21, <1>22, <1>23, <1>25, <1>26 DEF SlowInv

\* Storing nullptr to the entry of a block that is empty.
LEMMA FreeIndexEntryStep ==
  ASSUME SlowInv, ppc # "cleared", NEW c \in Consumers, FreeIndexEntry(c)
  PROVE  SlowInv'
<1>0. PICK n, B, a : n = Num(From(c)) /\ B = deq[c].Block /\ a = deq[c].Array
  OBVIOUS
<1>1. /\ Types /\ ArraysRight /\ CallRight /\ ClaimsRight /\ WindowRight /\ KeysRight /\ ValuesRight
      /\ BlocksRight /\ ChainRight /\ SlotsRight /\ CountersRight /\ LookupsRight
  BY DEF SlowInv
<1>2. /\ pc[c] = "free" /\ LookupRight(c)
      /\ HeadIndex' = HeadIndex /\ TailIndex' = TailIndex /\ arrays' = arrays /\ ppc' = ppc
      /\ enq' = enq /\ TailBlock' = TailBlock /\ Next' = Next
      /\ Counter' = Counter /\ Slots' = Slots /\ free' = free /\ deq' = deq
      /\ pc' = [pc EXCEPT ![c] = "return"]
  BY <1>1 DEF FreeIndexEntry, producer, LookupsRight, Goto
<1>3. n \in Live /\ n \in Numbers /\ n \in Nat /\ n <= LastNumber /\ B = BlockOf(n) /\ B \in Blocks \ free
  <2>1. n \in Live /\ n \in Numbers /\ n \in Nat /\ n <= LastNumber
    BY <1>0, <1>1, <1>2, NumbersOfItems, NumbersType
  <2>2. B = BlockOf(n)
    BY <1>0, <1>2 DEF LookupRight
  <2> QED BY <1>1, <2>1, <2>2 DEF BlocksRight
<1>4. entries' = [entries EXCEPT ![Home(n)].Value = NULL] /\ Home(n) \in 1..Len(entries)
  <2>1. deq[c].Entry = Home(n)
    BY <1>0, <1>2 DEF LookupRight
  <2> QED BY <1>1, <1>3, <2>1, Slotting DEF FreeIndexEntry
<1>5. AllDone(n)
  BY <1>0, <1>1, <1>2 DEF ClaimsRight
<1>6. /\ Len(entries') = Len(entries) 
      /\ \A e \in 1..Len(entries) : /\ entries'[e].Key = entries[e].Key
                                    /\ e # Home(n) => entries'[e] = entries[e]
      /\ entries'[Home(n)] = [entries[Home(n)] EXCEPT !.Value = NULL]
      /\ entries' \in Seq([Key : Nat, Value : Blocks \union {NULL}])
  <2> DEFINE E == [Key : Nat, Value : Blocks \union {NULL}]
  <2>1. entries \in Seq(E) /\ \A e \in 1..Len(entries) : entries[e] \in E
    BY <1>1, Sizes DEF Types
  <2>2. PICK h : h = Home(n)
    OBVIOUS
  <2>3. entries' = [entries EXCEPT ![h] = [entries[h] EXCEPT !.Value = NULL]] /\ h \in 1..Len(entries)
    BY <1>4, <2>2
  <2>4. [entries[h] EXCEPT !.Value = NULL] \in E /\ [entries[h] EXCEPT !.Value = NULL].Key = entries[h].Key
    BY <2>1, <2>3
  <2> HIDE DEF E
  <2>5. entries' \in Seq(E) /\ Len(entries') = Len(entries)
    BY <2>1, <2>3, <2>4
  <2>6. \A e \in 1..Len(entries) : entries'[e] = IF e = h THEN [entries[h] EXCEPT !.Value = NULL] ELSE entries[e]
    BY <2>1, <2>3, <2>4
  <2> QED BY <2>2, <2>3, <2>4, <2>5, <2>6 DEF E
<1>7. /\ pc'[c] = "return" /\ \A d \in Consumers \ {c} : pc'[d] = pc[d] /\ deq'[d] = deq[d]
      /\ pc' \in [Consumers -> DequeuePlaces]
      /\ \A d \in Consumers : /\ From(d)' = From(d) /\ Pending(d)' = Pending(d)
                              /\ Uncounted(d)' = Uncounted(d) /\ Unmoved(d)' = Unmoved(d)
  <2>1. /\ pc'[c] = "return" /\ \A d \in Consumers \ {c} : pc'[d] = pc[d] /\ deq'[d] = deq[d]
        /\ pc' \in [Consumers -> DequeuePlaces]
    BY <1>1, <1>2 DEF Types, DequeuePlaces
  <2>2. From(c)' = From(c) /\ Pending(c)' = Pending(c)
    BY <1>2 DEF From, Pending
  <2>3. Uncounted(c)' = Uncounted(c) /\ Unmoved(c)' = Unmoved(c)
    BY <1>2, <2>1, <2>2 DEF Uncounted, Unmoved, Num
  <2> QED BY <2>1, <2>2, <2>3, ConsumerSame
<1>8. /\ \A i : Done(i)' = Done(i) /\ Stored(i)' = Stored(i)
      /\ \A m : AllDone(m)' = AllDone(m)
  BY <1>2, <1>7, DoneSame, StoredSame
<1>9. /\ LastNumber' = LastNumber /\ New' = New /\ Current' = Current /\ TailNumber' = TailNumber
      /\ \A m : Home(m)' = Home(m) /\ Unstored(m)' = Unstored(m)
  BY <1>2, IndexSame
<1>10. /\ \A m : m # n => Freeing(m)' = Freeing(m)
       /\ ~Freeing(n)'
  <2>1. \A d \in Consumers : Num(From(d))' = Num(From(d))
    BY <1>7 DEF Num
  <2>2. \A d \in Consumers \ {c} : pc[d] = "free" => Num(From(d)) # n
    BY <1>0, <1>1, <1>2 DEF ClaimsRight
  <2>3. pc'[c] # "free" /\ \A m : m # n => Num(From(c)) # m
    BY <1>0, <1>7
  <2> QED BY <1>7, <2>1, <2>2, <2>3 DEF Freeing
<1>11. Live' = Live \ {n} /\ Numbers' = Numbers \ {n}
  <2>1. Live' = Live \ {n}
    <3>1. \A m \in 0..LastNumber : (AllDone(m)' => Freeing(m)') <=> (AllDone(m) => Freeing(m)) /\ m # n
      <4> SUFFICES ASSUME NEW m \in 0..LastNumber
                   PROVE  (AllDone(m)' => Freeing(m)') <=> (AllDone(m) => Freeing(m)) /\ m # n
        OBVIOUS
      <4>1. CASE m = n
        BY <1>5, <1>8, <1>10, <4>1
      <4>2. CASE m # n
        BY <1>8, <1>10, <4>2
      <4> QED BY <4>1, <4>2
    <3>2. Live' = {m \in 0..LastNumber : AllDone(m)' => Freeing(m)'}
      BY <1>9 DEF Live
    <3>3. {m \in 0..LastNumber : AllDone(m)' => Freeing(m)'} = {m \in 0..LastNumber : AllDone(m) => Freeing(m)} \ {n}
      BY <3>1
    <3> QED BY <3>2, <3>3 DEF Live

  <2>2. n \notin New
    BY <1>1, <1>3, NumbersType, Sizes

  <2> QED BY <1>9, <2>1, <2>2 DEF Numbers
<1>12. \A m \in Numbers : Home(m) \in 1..Len(entries) /\ (m # n => Home(m) # Home(n))
  BY <1>1, <1>3, HomesDiffer, NumbersType, Slotting
<1>13. \A m \in Numbers' : /\ m \in Numbers /\ m # n /\ BlockOf(m)' = BlockOf(m)
                           /\ entries'[Home(m)] = entries[Home(m)]
  BY <1>2, <1>6, <1>9, <1>11, <1>12 DEF BlockOf
<1>14. ArraysRight'
  <2>1. \A b : At0(b)' = At0(b)
    BY <1>2 DEF At0
  <2>2. \A b : ArrayRight(b)' = ArrayRight(b)
    BY <1>2, <1>6, <1>9, <2>1 DEF ArrayRight
  <2> QED BY <1>1, <1>2, <1>6, <1>9, <2>1, <2>2 DEF ArraysRight
<1>15. WindowRight'
  BY <1>1, <1>9, <1>11 DEF WindowRight
<1>16. KeysRight'
  <2>1. \A m \in Int : Home(m) \in 1..Len(entries)
    BY <1>1, Slotting
  <2>2. LastNumber \in Int /\ TailNumber \in Int /\ TailNumber + 1 \in Int
    BY <1>1, Sizes
  <2>3. \A m \in Numbers' : entries'[Home(m)].Key = m * BlockSize
    BY <1>1, <1>13 DEF KeysRight
  <2>4. Live' # {} => entries'[Home(LastNumber)].Key = LastNumber * BlockSize
    BY <1>1, <1>6, <1>11, <2>1, <2>2 DEF KeysRight
  <2>5. \A k \in Int : entries[Home(k)] = [Key |-> enq.Base, Value |-> NULL] =>
                         entries'[Home(k)] = [Key |-> enq.Base, Value |-> NULL]
    <3> SUFFICES ASSUME NEW k \in Int, entries[Home(k)] = [Key |-> enq.Base, Value |-> NULL]
                 PROVE  entries'[Home(k)] = [Key |-> enq.Base, Value |-> NULL]
      OBVIOUS
    <3>1. CASE Home(k) # Home(n)
      BY <1>6, <2>1, <3>1
    <3>2. CASE Home(k) = Home(n)
      BY <1>6, <3>2
    <3> QED BY <3>1, <3>2
  <2> QED BY <1>1, <1>2, <1>9, <2>2, <2>3, <2>4, <2>5 DEF KeysRight
<1>17. ValuesRight'
  <2>1. \A m \in Numbers' : Unstored(m)' <=> entries'[Home(m)].Value = NULL
    BY <1>1, <1>9, <1>13 DEF ValuesRight
  <2>2. ASSUME NEW e \in 1..Len(entries), entries'[e].Value # NULL PROVE \E m \in Numbers' : e = Home(m)
    <3>1. e # Home(n)
      BY <1>1, <1>4, <1>6, <2>2, Sizes
    <3>2. PICK m \in Numbers : e = Home(m)
      BY <1>1, <1>6, <2>2, <3>1 DEF ValuesRight
    <3> QED BY <1>11, <3>1, <3>2
  <2> QED BY <1>6, <1>9, <2>1, <2>2 DEF ValuesRight
<1>18. BlocksRight'
  <2>1. \A k, l \in Numbers : BlockOf(k) = BlockOf(l) => k = l
    BY <1>1 DEF BlocksRight
  <2>2. \A m \in Numbers' : BlockOf(m) \in Blocks \ free /\ BlockOf(m) # B
    BY <1>1, <1>3, <1>13, <2>1 DEF BlocksRight
  <2>3. \A d \in Consumers \ {c} : pc[d] = "return" =>
          /\ deq[d].Block \in Blocks \ free
          /\ \A m \in Numbers : BlockOf(m) # deq[d].Block
          /\ deq[d].Block # B
          /\ \A f \in Consumers \ {c, d} : pc[f] = "return" => deq[d].Block # deq[f].Block
    BY <1>1, <1>3 DEF BlocksRight
  <2>4. ASSUME NEW d \in Consumers, pc'[d] = "return"
        PROVE  /\ deq[d].Block \in Blocks \ free
               /\ \A m \in Numbers' : BlockOf(m) # deq[d].Block
               /\ \A f \in Consumers \ {d} : pc'[f] = "return" => deq[d].Block # deq[f].Block
    <3>1. CASE d = c
      BY <1>0, <1>3, <1>7, <2>2, <2>3, <3>1
    <3>2. CASE d # c
      BY <1>0, <1>7, <1>13, <2>3, <2>4, <3>2
    <3> QED BY <3>1, <3>2
  <2>5. ASSUME NEW b \in Blocks \ free
        PROVE  \/ \E m \in Numbers' : BlockOf(m) = b
               \/ \E d \in Consumers : pc'[d] = "return" /\ deq[d].Block = b
    <3>1. CASE b = B
      BY <1>0, <1>7, <3>1
    <3>2. CASE \E m \in Numbers : BlockOf(m) = b /\ b # B
      BY <1>3, <1>11, <3>2
    <3>3. CASE \E d \in Consumers : pc[d] = "return" /\ deq[d].Block = b
      BY <1>2, <1>7, <3>3
    <3> QED BY <1>1, <3>1, <3>2, <3>3 DEF BlocksRight
  <2>6. \A m \in Numbers' : BlockOf(m)' = BlockOf(m)
    BY <1>13
  <2>7. \A m, k \in Numbers' : BlockOf(m) = BlockOf(k) => m = k
    BY <1>13, <2>1
  <2> QED BY <1>2, <2>2, <2>4, <2>5, <2>6, <2>7 DEF BlocksRight
<1>19. ChainRight'
  <2>1. Start' = Start /\ NotYetTail' = NotYetTail
    BY <1>2 DEF Start, NotYetTail
  <2>2. enq.Taken \in Nat /\ LastNumber \in Int
    BY <1>1, Sizes
  <2>3. enq.Taken > 0 => \A m \in (LastNumber + 1)..(LastNumber + enq.Taken) : m \in Numbers'
    <3>1. \A m \in New : m \in Numbers /\ m # n
      BY <1>1, <1>3, NumbersType, <2>2
    <3> QED BY <1>11, <3>1 DEF New
  <2>4. LastNumber' \in Live' => Start = BlockOf(LastNumber)'
    <3> SUFFICES ASSUME LastNumber \in Live \ {n} PROVE Start = BlockOf(LastNumber)'
      BY <1>9, <1>11
    <3>1. PICK l : l = LastNumber
      OBVIOUS
    <3>2. l \in Numbers' /\ Start = BlockOf(l)
      BY <1>1, <1>11, <3>1, NumbersType DEF ChainRight
    <3>3. BlockOf(l)' = BlockOf(l) /\ l = LastNumber'
      BY <1>9, <1>13, <3>1, <3>2
    <3> QED BY <3>2, <3>3
  <2>5. \A m \in (LastNumber + 1)..(LastNumber + enq.Taken) : BlockOf(m)' = BlockOf(m)
    BY <1>13, <2>2, <2>3
  <2>6. Inner(TailIndex) # 0 => LastNumber # n
    <3> SUFFICES ASSUME Inner(TailIndex) # 0, LastNumber = n PROVE FALSE
      OBVIOUS
    <3>1. TailIndex \in Int /\ ~(TailIndex < HeadIndex)
      BY <1>1 DEF Types
    <3>2. Num(TailIndex) = n
      BY <3>1, NumBefore DEF LastNumber
    <3>3. TailIndex \in Items(n)
      BY <1>3, <3>1, <3>2, NumItems
    <3> QED BY <1>5, <3>1, <3>3 DEF AllDone, Done
  <2>7. Inner(TailIndex) # 0 /\ enq.op = "bulk" /\ enq.Taken > 0 => BlockOf(LastNumber)' = BlockOf(LastNumber)
    <3> SUFFICES ASSUME Inner(TailIndex) # 0, enq.Taken > 0 PROVE BlockOf(LastNumber)' = BlockOf(LastNumber)
      OBVIOUS
    <3>1. LastNumber \in Numbers'
      <4>1. TailIndex \in Nat /\ ~(TailIndex < HeadIndex)
        BY <1>1 DEF Types
      <4>2. Num(TailIndex) = LastNumber /\ LastNumber >= 0
        BY <4>1, NumBefore, NumType DEF LastNumber
      <4>3. TailIndex \in Items(LastNumber)
        BY <2>2, <4>1, <4>2, NumItems
      <4>4. ~AllDone(LastNumber)
        BY <4>1, <4>3 DEF AllDone, Done
      <4>5. LastNumber \in Live
        BY <2>2, <4>2, <4>4 DEF Live
      <4> QED BY <1>11, <2>6, <4>5 DEF Numbers
    <3>2. PICK l : l = LastNumber
      OBVIOUS
    <3>3. BlockOf(l)' = BlockOf(l) /\ l = LastNumber'
      BY <1>9, <1>13, <3>1, <3>2
    <3> QED BY <3>2, <3>3
  <2>8. enq.Taken > 0 => /\ BlockOf(LastNumber + 1)' = BlockOf(LastNumber + 1)
                         /\ BlockOf(LastNumber + enq.Taken)' = BlockOf(LastNumber + enq.Taken)
    <3> SUFFICES ASSUME enq.Taken > 0
                 PROVE  /\ BlockOf(LastNumber + 1)' = BlockOf(LastNumber + 1)
                        /\ BlockOf(LastNumber + enq.Taken)' = BlockOf(LastNumber + enq.Taken)
      OBVIOUS
    <3>1. PICK k, l : k = LastNumber + 1 /\ l = LastNumber + enq.Taken
      OBVIOUS
    <3>2. k = (LastNumber + 1)' /\ l = (LastNumber + enq.Taken)'
      BY <1>2, <1>9, <3>1
    <3>3. BlockOf(k)' = BlockOf(k) /\ BlockOf(l)' = BlockOf(l)
      BY <2>2, <2>5, <3>1
    <3> QED BY <3>1, <3>2, <3>3
  <2>9. \A m \in (LastNumber + 1)..(LastNumber + enq.Taken - 1) : BlockOf(m + 1)' = BlockOf(m + 1)
    <3> SUFFICES ASSUME NEW m \in (LastNumber + 1)..(LastNumber + enq.Taken - 1)
                 PROVE  BlockOf(m + 1)' = BlockOf(m + 1)
      OBVIOUS
    <3>1. m + 1 \in (LastNumber + 1)..(LastNumber + enq.Taken)
      BY <2>2
    <3> QED BY <2>5, <3>1
  <2>10. \A m \in (LastNumber + 1)..(LastNumber + enq.Taken - 1) : BlockOf(m)' = BlockOf(m)
    BY <2>2, <2>5
  <2>11. enq.FirstAllocatedBlock = IF enq.Taken = 0 THEN NULL ELSE BlockOf(LastNumber + 1)'
    BY <1>1, <2>2, <2>8 DEF ChainRight
  <2>12. TailBlock = IF enq.Taken > 0 /\ ~NotYetTail THEN BlockOf(LastNumber + enq.Taken)' ELSE Start
    BY <1>1, <2>8 DEF ChainRight
  <2>13. enq.op = "bulk" /\ enq.Taken > 0 =>
       /\ \A m \in (LastNumber + 1)..(LastNumber + enq.Taken - 1) : Next[BlockOf(m)'] = BlockOf(m + 1)'
       /\ Inner(TailIndex) # 0 => Next[BlockOf(LastNumber)'] = BlockOf(LastNumber + 1)'
    <3> SUFFICES ASSUME enq.op = "bulk", enq.Taken > 0
                 PROVE  /\ \A m \in (LastNumber + 1)..(LastNumber + enq.Taken - 1) :
                             Next[BlockOf(m)'] = BlockOf(m + 1)'
                        /\ Inner(TailIndex) # 0 => Next[BlockOf(LastNumber)'] = BlockOf(LastNumber + 1)'
      OBVIOUS
    <3>1. /\ \A m \in (LastNumber + 1)..(LastNumber + enq.Taken - 1) : Next[BlockOf(m)] = BlockOf(m + 1)
          /\ Inner(TailIndex) # 0 => Next[BlockOf(LastNumber)] = BlockOf(LastNumber + 1)
      BY <1>1 DEF ChainRight
    <3> QED BY <2>7, <2>8, <2>9, <2>10, <3>1
  <2>14. IF TailIndex = 0 THEN Start = NULL ELSE Start \in Blocks
    BY <1>1 DEF ChainRight
  <2> QED BY <1>2, <1>9, <2>1, <2>4, <2>11, <2>12, <2>13, <2>14 DEF ChainRight, Inner

<1>20. SlotsRight'
  <2>1. \A j \in Places : Slots[B][j] = Raw
    <3> SUFFICES ASSUME NEW j \in Places PROVE Slots[B][j] = Raw
      OBVIOUS
    <3>1. PICK i : i = n * BlockSize + j
      OBVIOUS
    <3>2. i \in Int /\ Num(i) = n /\ Inner(i) = j
      BY <1>3, <3>1, NumUnique, BlockSizeIs DEF Places
    <3>3. i \in Items(n)
      BY <1>3, <3>2, NumItems
    <3>4. ~Stored(i)
      <4>1. Done(i)
        BY <1>5, <3>3 DEF AllDone
      <4>2. i < HeadIndex /\ i < TailIndex /\ \A d \in Consumers : i \notin Unmoved(d)
        BY <1>1, <3>2, <4>1, PendingTypes DEF Done, Types
      <4> QED BY <1>1, <3>2, <4>2 DEF Stored, Types
    <3> QED BY <1>1, <1>3, <3>2, <3>3, <3>4 DEF SlotsRight
  <2>2. \A b \in Blocks : (\A m \in Numbers' : b # BlockOf(m)') => \A j \in Places : Slots[b][j] = Raw
    <3> SUFFICES ASSUME NEW b \in Blocks, \A m \in Numbers' : b # BlockOf(m)', b # B
                 PROVE  \A j \in Places : Slots[b][j] = Raw
      BY <2>1
    <3>1. \A m \in Numbers : b # BlockOf(m)
      BY <1>3, <1>11, <1>13
    <3> QED BY <1>1, <3>1 DEF SlotsRight
  <2>3. \A m \in Numbers' : \A i \in Items(m) : Slots[BlockOf(m)][Inner(i)] = IF Stored(i) THEN i ELSE Raw
    BY <1>1, <1>13 DEF SlotsRight
  <2>4. \A m \in Numbers' : BlockOf(m)' = BlockOf(m)
    BY <1>13
  <2> QED BY <1>2, <1>8, <2>2, <2>3, <2>4 DEF SlotsRight, Items, Inner
<1>21. CountersRight'
  BY <1>1, <1>2, <1>8, <1>13 DEF CountersRight, Items
<1>22. CallRight'
  BY <1>1, <1>2, <1>9 DEF CallRight, Num
<1>23. ClaimsRight'
  <2>1. Stays(c, "return")
    BY <1>2 DEF Stays
  <2>2. AllDone(Num(From(c)))'
    <3>1. n = Num(From(c))'
      BY <1>0, <1>7 DEF Num
    <3> QED BY <1>5, <1>8, <3>1
  <2> QED BY <1>1, <1>2, <1>8, <2>1, <2>2, StayingClaims DEF DequeuePlaces
<1>24. LookupRight(c)'
  <2>1. /\ a \in 1..Len(arrays) /\ \A i \in Uncounted(c) : InArray(a, Num(i))
        /\ deq[c].Slot \in At0(a) /\ arrays[a].Index[deq[c].Slot] = Home(n)
    BY <1>0, <1>2 DEF LookupRight
  <2>2. Num(From(c))' = n /\ At0(a)' = At0(a)
    BY <1>0, <1>2, <1>7 DEF Num, At0
  <2>3. \A i \in Uncounted(c) : InArray(a, Num(i))'
    <3> SUFFICES ASSUME NEW i \in Uncounted(c) PROVE InArray(a, Num(i))'
      OBVIOUS
    <3>1. InArray(a, Num(i))
      BY <2>1
    <3> QED BY <1>2, <1>9, <3>1 DEF InArray, At0, Num
  <2>4. ASSUME Uncounted(c) # {}
        PROVE  arrays[a].Index[(deq[c].Slot + 1) % arrays[a].Size] = Home(n + 1)
    <3>1. InArray(a, n + 1)
      BY <1>0, <1>1, <1>2, <2>1, <2>4, NextUncounted
    <3>2. PICK s \in At0(a) : arrays[a].Index[s] = Home(n + 1)
      BY <3>1 DEF InArray
    <3>3. n \in Int /\ n + 1 \in Int /\ (n + 1) - n = 1
      BY <1>3
    <3>4. s = (deq[c].Slot + ((n + 1) - n)) % arrays[a].Size
      BY <1>1, <2>1, <3>2, <3>3, Steering
    <3> QED BY <3>2, <3>3, <3>4
  <2>5. Uncounted(c) # {} => arrays[a].Index[(deq[c].Slot + 1) % arrays[a].Size] = Home(Num(From(c)) + 1)'
    <3>1. PICK k : k = n + 1
      OBVIOUS
    <3>2. k = (Num(From(c)) + 1)' /\ Home(k)' = Home(k)
      BY <1>9, <2>2, <3>1
    <3> QED BY <2>4, <3>1, <3>2
  <2> QED BY <1>0, <1>2, <1>7, <2>1, <2>2, <2>3, <2>5 DEF LookupRight
<1>25. LookupsRight'
  <2> SUFFICES ASSUME NEW d \in Consumers, d # c PROVE LookupRight(d)'
    BY <1>24 DEF LookupsRight
  <2>1. pc'[d] = pc[d] /\ deq'[d] = deq[d] /\ LookupRight(d)
    BY <1>1, <1>7 DEF LookupsRight
  <2>2. ASSUME pc[d] \in {"tail", "key"}
        PROVE  \A t \in At0(deq[d].Array) : Leads(deq[d].Array, t, Num(From(d))) =>
                                              Leads(deq[d].Array, t, Num(From(d)))'
    <3> SUFFICES ASSUME NEW t \in At0(deq[d].Array), Leads(deq[d].Array, t, Num(From(d)))
                 PROVE  Leads(deq[d].Array, t, Num(From(d)))'
      OBVIOUS
    <3>1. PICK m, b : m = Num(From(d)) /\ b = deq[d].Array
      OBVIOUS
    <3>2. m = Num(From(d))' /\ b = deq'[d].Array /\ b \in 1..Len(arrays)
      BY <1>7, <2>1, <2>2, <3>1 DEF Num, LookupRight
    <3>3. Leads(b, t, m)'
      BY <1>1, <1>2, <1>6, <1>9, <3>1, <3>2, LeadsSame
    <3> QED BY <3>2, <3>3
  <2>3. pc[d] = "tail" => Leads(deq[d].Array, arrays[deq[d].Array].Tail, Num(From(d)))'
    <3> SUFFICES ASSUME pc[d] = "tail"
                 PROVE  Leads(deq[d].Array, arrays[deq[d].Array].Tail, Num(From(d)))'
      OBVIOUS
    <3>1. PICK t : t = arrays[deq[d].Array].Tail
      OBVIOUS
    <3>2. t \in At0(deq[d].Array) /\ Leads(deq[d].Array, t, Num(From(d)))
      BY <1>1, <2>1, <3>1 DEF LookupRight, ArraysRight, ArrayRight
    <3>3. t = (arrays[deq[d].Array].Tail)'
      BY <1>2, <3>1
    <3> QED BY <2>2, <3>2, <3>3
  <2>4. pc[d] = "key" => Leads(deq[d].Array, deq[d].Tail, Num(From(d)))'
    <3> SUFFICES ASSUME pc[d] = "key" PROVE Leads(deq[d].Array, deq[d].Tail, Num(From(d)))'
      OBVIOUS
    <3>1. PICK t : t = deq[d].Tail
      OBVIOUS
    <3>2. t \in At0(deq[d].Array) /\ Leads(deq[d].Array, t, Num(From(d))) /\ t = deq'[d].Tail
      BY <1>2, <2>1, <3>1 DEF LookupRight
    <3> QED BY <2>2, <3>2
  <2>5. pc[d] \in {"move", "count", "free"} => \A m \in Live : m = Num(From(d)) => BlockOf(m)' = BlockOf(m)
    <3> SUFFICES ASSUME pc[d] \in {"move", "count", "free"}
                 PROVE  Num(From(d)) # n
      BY <1>11, <1>13 DEF Numbers
    <3>1. CASE pc[d] = "free"
      BY <1>0, <1>1, <1>2, <3>1 DEF ClaimsRight
    <3>2. CASE pc[d] \in {"move", "count"}
      <4>1. From(d) \in Uncounted(d) /\ From(d) \in Int
        BY <1>1, <3>2, PendingTypes DEF Uncounted
      <4>2. Num(From(d)) = n => From(d) \in Items(n)
        BY <1>3, <4>1, NumItems
      <4> QED BY <1>5, <4>1, <4>2 DEF AllDone, Done
    <3> QED BY <3>1, <3>2
  <2> QED BY <1>1, <1>2, <1>9, <2>1, <2>3, <2>4, <2>5, LookupSame
<1>26. Types'
  BY <1>1, <1>2, <1>6, <1>7 DEF Types
<1> QED BY <1>14, <1>15, <1>16, <1>17, <1>18, <1>19, <1>20, <1>21, <1>22, <1>23, <1>25, <1>26 DEF SlowInv

\* What a consumer has found in an index that does not change.
LEMMA OtherLookup ==
  ASSUME Types, ArraysRight, ClaimsRight, LookupsRight, NEW d \in Consumers,
         pc'[d] = pc[d], deq'[d] = deq[d], arrays' = arrays, entries' = entries,
         \A m : Home(m)' = Home(m) /\ BlockOf(m)' = BlockOf(m)
  PROVE  LookupRight(d)'
<1>1. LookupRight(d) /\ From(d)' = From(d)
  BY ConsumerSame DEF LookupsRight
<1>2. \A a, t, m : Leads(a, t, m)' = Leads(a, t, m)
  BY DEF Leads
<1>3. pc[d] = "tail" => Leads(deq[d].Array, arrays[deq[d].Array].Tail, Num(From(d)))'
  BY <1>1, <1>2 DEF LookupRight, Num
<1>4. pc[d] = "key" => Leads(deq[d].Array, deq[d].Tail, Num(From(d)))'
  BY <1>1, <1>2 DEF LookupRight, Num
<1> QED BY <1>1, <1>3, <1>4, LookupSame

\* Giving an empty block back to the manager.
LEMMA ReturnBlockStep ==
  ASSUME SlowInv, ppc # "cleared", NEW c \in Consumers, ReturnBlock(c)
  PROVE  SlowInv'
<1>0. PICK n, B, seg : n = Num(From(c)) /\ B = deq[c].Block /\ seg = Segment(c)
  OBVIOUS
<1>1. /\ Types /\ ArraysRight /\ CallRight /\ ClaimsRight /\ WindowRight /\ KeysRight /\ ValuesRight
      /\ BlocksRight /\ ChainRight /\ SlotsRight /\ CountersRight /\ LookupsRight
  BY DEF SlowInv
<1>2. /\ pc[c] = "return" /\ LookupRight(c) /\ FollowingBlock(c)
      /\ HeadIndex' = HeadIndex /\ TailIndex' = TailIndex /\ arrays' = arrays /\ ppc' = ppc
      /\ enq' = enq /\ TailBlock' = TailBlock /\ Next' = Next
      /\ entries' = entries /\ Slots' = Slots /\ free' = free \union {B} /\ Counter' = Counter
  BY <1>0, <1>1 DEF ReturnBlock, producer, LookupsRight
<1>3. /\ B \in Blocks \ free /\ \A m \in Numbers : BlockOf(m) # B
      /\ \A d \in Consumers \ {c} : pc[d] = "return" => B # deq[d].Block
  BY <1>0, <1>1, <1>2 DEF BlocksRight
<1>4. \A i : i \in seg <=> i \in Pending(c) /\ Num(i) = n
  BY <1>0, <1>1, <1>2, SegmentIs
<1>5. /\ Uncounted(c)' = Uncounted(c) /\ Unmoved(c)' = Unmoved(c)
      /\ \A d \in Consumers \ {c} : pc'[d] = pc[d] /\ deq'[d] = deq[d]
      /\ pc'[c] \in {"idle", "value"}
      /\ pc' \in [Consumers -> DequeuePlaces]
  <2>1. /\ Uncounted(c)' = Pending(c) \ seg /\ Unmoved(c)' = Pending(c) \ seg
        /\ \A d \in Consumers \ {c} : pc'[d] = pc[d] /\ deq'[d] = deq[d]
        /\ pc'[c] \in {"idle", "value"}
        /\ pc' \in [Consumers -> DequeuePlaces]
    BY <1>0, <1>1, <1>2, Following
  <2>2. Uncounted(c) = Pending(c) \ seg /\ Unmoved(c) = Pending(c) \ seg
    BY <1>0, <1>2, <1>4 DEF Uncounted, Unmoved
  <2> QED BY <2>1, <2>2
<1>6. /\ \A d \in Consumers \ {c} : From(d)' = From(d)
      /\ \A d \in Consumers : Uncounted(d)' = Uncounted(d) /\ Unmoved(d)' = Unmoved(d)
  BY <1>5, ConsumerSame
<1>7. /\ \A i : Done(i)' = Done(i) /\ Stored(i)' = Stored(i)
      /\ \A m : AllDone(m)' = AllDone(m)
  BY <1>2, <1>6, DoneSame, StoredSame
<1>8. /\ LastNumber' = LastNumber /\ New' = New /\ \A m : Home(m)' = Home(m)
  BY <1>2, IndexSame
<1>9. \A m : Freeing(m)' = Freeing(m)
  <2>1. \A d \in Consumers \ {c} : Num(From(d))' = Num(From(d))
    BY <1>6 DEF Num
  <2> QED BY <1>2, <1>5, <2>1 DEF Freeing
<1>10. Live' = Live /\ Numbers' = Numbers
  BY <1>7, <1>8, <1>9, NumbersSame
<1>11. /\ ArraysRight' /\ WindowRight' /\ KeysRight' /\ ValuesRight' /\ ChainRight'
       /\ \A m : BlockOf(m)' = BlockOf(m)
  BY <1>1, <1>2, <1>10, IndexRightSame
<1>12. CallRight'
  BY <1>1, <1>2, <1>8 DEF CallRight, Num
<1>13. ClaimsRight'
  BY <1>1, <1>2, <1>7, FollowingClaims
<1>14. BlocksRight'
  <2>1. \A d \in Consumers : pc'[d] = "return" => d # c /\ pc[d] = "return" /\ deq'[d] = deq[d]
    BY <1>5
  <2>2. \A m \in Numbers : BlockOf(m) \in Blocks \ (free \union {B})
    BY <1>1, <1>3 DEF BlocksRight
  <2>3. \A m, k \in Numbers : BlockOf(m) = BlockOf(k) => m = k
    BY <1>1 DEF BlocksRight
  <2>4. ASSUME NEW d \in Consumers, pc'[d] = "return"
        PROVE  /\ deq'[d].Block \in Blocks \ (free \union {B})
               /\ \A m \in Numbers : BlockOf(m) # deq'[d].Block
               /\ \A f \in Consumers \ {d} : pc'[f] = "return" => deq'[d].Block # deq'[f].Block
    BY <1>1, <1>3, <2>1, <2>4 DEF BlocksRight
  <2>5. ASSUME NEW b \in Blocks \ (free \union {B})
        PROVE  \/ \E m \in Numbers : BlockOf(m) = b
               \/ \E d \in Consumers : pc'[d] = "return" /\ deq'[d].Block = b
    <3>1. CASE \E m \in Numbers : BlockOf(m) = b
      BY <3>1
    <3>2. CASE \E d \in Consumers : pc[d] = "return" /\ deq[d].Block = b
      BY <1>0, <1>5, <3>2
    <3> QED BY <1>1, <3>1, <3>2 DEF BlocksRight
  <2> QED BY <1>2, <1>10, <1>11, <2>2, <2>3, <2>4, <2>5 DEF BlocksRight
<1>15. SlotsRight'
  BY <1>1, <1>2, <1>7, <1>10, <1>11 DEF SlotsRight, Items, Inner
<1>16. CountersRight'
  BY <1>1, <1>2, <1>7, <1>10, <1>11 DEF CountersRight, Items
<1>17. LookupRight(c)' /\ deq' \in [Consumers -> Deqs]
  BY <1>2, <1>8, FollowingLookup
<1>18. LookupsRight'
  BY <1>1, <1>2, <1>5, <1>8, <1>11, <1>17, OtherLookup DEF LookupsRight
<1>19. Types'
  BY <1>1, <1>2, <1>3, <1>5, <1>17 DEF Types
<1> QED BY <1>11, <1>12, <1>13, <1>14, <1>15, <1>16, <1>18, <1>19 DEF SlowInv

\* The ticket protocol, as a claim in one step.
LEMMA ClaimStep ==
  ASSUME SlowInv, ppc # "cleared", NEW c \in Consumers, NEW max \in Requests, Claim(c, max)
  PROVE  SlowInv'
<1>1. /\ Types /\ ArraysRight /\ CallRight /\ ClaimsRight /\ WindowRight /\ KeysRight /\ ValuesRight
      /\ BlocksRight /\ ChainRight /\ SlotsRight /\ CountersRight /\ LookupsRight
  BY DEF SlowInv
<1>2. PICK n \in 1..Lesser(max, TailIndex - HeadIndex) :
        /\ HeadIndex' = HeadIndex + n
        /\ deq' = [deq EXCEPT ![c].First = HeadIndex, ![c].Count = n, ![c].Need = n]
  BY DEF Claim
<1>3. /\ pc[c] = "idle" /\ pc' = [pc EXCEPT ![c] = "array"]
      /\ TailIndex' = TailIndex /\ arrays' = arrays /\ ppc' = ppc
      /\ enq' = enq /\ TailBlock' = TailBlock /\ Next' = Next
      /\ entries' = entries /\ Slots' = Slots /\ free' = free /\ Counter' = Counter
  BY DEF Claim, Goto, producer, shared
<1>4. /\ HeadIndex \in Nat /\ TailIndex \in Nat /\ n \in Nat /\ 1 <= n /\ HeadIndex' <= TailIndex
      /\ HeadIndex' \in Nat
  <2>1. HeadIndex \in Nat /\ TailIndex \in Nat /\ HeadIndex <= TailIndex
    BY <1>1 DEF Types
  <2>2. max \in Nat
    BY SlowQueueAssumption DEF SlowQueueAssumption
  <2> QED BY <1>2, <2>1, <2>2 DEF Lesser
<1>5. /\ pc'[c] = "array" /\ pc' \in [Consumers -> DequeuePlaces]
      /\ \A d \in Consumers \ {c} : pc'[d] = pc[d] /\ deq'[d] = deq[d]
      /\ deq'[c].First = HeadIndex /\ deq'[c].Count = n /\ deq'[c].Need = n
      /\ deq' \in [Consumers -> Deqs]
  <2>1. deq \in [Consumers -> Deqs] /\ pc \in [Consumers -> DequeuePlaces] /\ deq[c] \in Deqs
    BY <1>1 DEF Types
  <2>2. PICK r : r = [deq[c] EXCEPT !.First = HeadIndex, !.Count = n, !.Need = n]
    OBVIOUS
  <2>3. deq'[c] = r /\ \A d \in Consumers \ {c} : deq'[d] = deq[d]
    BY <1>2, <2>1, <2>2
  <2>4. r \in Deqs /\ r.First = HeadIndex /\ r.Count = n /\ r.Need = n
    BY <1>4, <2>1, <2>2 DEF Deqs
  <2>5. deq' = [d \in Consumers |-> deq'[d]]
    BY <1>2, <2>1
  <2>6. deq' \in [Consumers -> Deqs]
    BY <2>1, <2>3, <2>4, <2>5
  <2>7. pc'[c] = "array" /\ pc' \in [Consumers -> DequeuePlaces] /\ \A d \in Consumers \ {c} : pc'[d] = pc[d]
    BY <1>3, <2>1 DEF DequeuePlaces
  <2> QED BY <2>3, <2>4, <2>6, <2>7
<1>6. /\ From(c)' = HeadIndex /\ Pending(c)' = HeadIndex..(HeadIndex' - 1)
      /\ Uncounted(c)' = Pending(c)' /\ Unmoved(c)' = Pending(c)'
  <2>1. From(c)' = HeadIndex
    BY <1>4, <1>5 DEF From
  <2>2. Pending(c)' = HeadIndex..(HeadIndex' - 1)
    <3>1. Pending(c)' = From(c)'..(deq'[c].First + deq'[c].Count - 1)
      BY DEF Pending
    <3>2. deq'[c].First + deq'[c].Count - 1 = HeadIndex' - 1
      <4>1. HeadIndex' = HeadIndex + n
        BY <1>2
      <4>2. deq'[c].First = HeadIndex /\ deq'[c].Count = n
        BY <1>5
      <4>3. HeadIndex \in Nat /\ n \in Nat
        BY <1>4
      <4> QED BY <4>1, <4>2, <4>3
    <3> QED BY <2>1, <3>1, <3>2
  <2> QED BY <1>5, <2>1, <2>2 DEF Uncounted, Unmoved

<1>7. Pending(c) = {} /\ Uncounted(c) = {} /\ Unmoved(c) = {}
  BY <1>1, <1>3, PendingTypes
<1>8. \A d \in Consumers \ {c} : /\ From(d)' = From(d) /\ Pending(d)' = Pending(d)
                                 /\ Uncounted(d)' = Uncounted(d) /\ Unmoved(d)' = Unmoved(d)
  BY <1>5, ConsumerSame
<1>9. \A i \in Int : Done(i)' = Done(i) /\ Stored(i)' = Stored(i)
  <2> SUFFICES ASSUME NEW i \in Int PROVE Done(i)' = Done(i) /\ Stored(i)' = Stored(i)
    OBVIOUS
  <2>1. Done(i)' <=> Done(i)
    BY <1>2, <1>4, <1>6, <1>7, <1>8 DEF Done
  <2>2. Stored(i)' <=> Stored(i)
    BY <1>2, <1>3, <1>4, <1>6, <1>7, <1>8 DEF Stored
  <2>3. Done(i) \in BOOLEAN /\ Done(i)' \in BOOLEAN /\ Stored(i) \in BOOLEAN /\ Stored(i)' \in BOOLEAN
    BY DEF Done, Stored
  <2> QED BY <2>1, <2>2, <2>3
<1>10.
 \A m \in Int : AllDone(m)' = AllDone(m) /\ Items(m) \subseteq Int /\ Items(m)' = Items(m)
  BY <1>9, ItemsFinite DEF AllDone, Items
<1>11. /\ LastNumber' = LastNumber /\ New' = New /\ \A m : Home(m)' = Home(m)
  BY <1>3, IndexSame
<1>12. \A m : Freeing(m)' = Freeing(m)
  <2>1. \A d \in Consumers \ {c} : Num(From(d))' = Num(From(d))
    BY <1>8 DEF Num
  <2> QED BY <1>3, <1>5, <2>1 DEF Freeing
<1>13. Live' = Live /\ Numbers' = Numbers
  <2>1. \A m \in 0..LastNumber : AllDone(m)' = AllDone(m)
    BY <1>1, <1>10, Sizes
  <2> QED BY <1>11, <1>12, <2>1 DEF Live, Numbers
<1>14. /\ ArraysRight' /\ WindowRight' /\ KeysRight' /\ ValuesRight' /\ ChainRight'
       /\ \A m : BlockOf(m)' = BlockOf(m)
  BY <1>1, <1>3, <1>13, IndexRightSame
<1>15. CallRight'
  BY <1>1, <1>3, <1>11 DEF CallRight, Num
<1>16. ClaimsRight'
  <2>1. \A d \in Consumers \ {c} : Pending(d)' \intersect Pending(c)' = {}
    BY <1>1, <1>4, <1>6, <1>8, PendingTypes
  <2>2. \A d \in Consumers \ {c} : Num(From(d))' = Num(From(d))
    BY <1>8 DEF Num
  <2>3. ASSUME NEW d \in Consumers \ {c}, pc[d] \in {"free", "return"} PROVE AllDone(Num(From(d)))'
    <3>1. PICK m : m = Num(From(d))
      OBVIOUS
    <3>2. AllDone(m) /\ m \in Int /\ m = Num(From(d))'
      BY <1>1, <2>2, <2>3, <3>1, PendingTypes DEF ClaimsRight
    <3> QED BY <1>10, <3>2
  <2>4. ASSUME NEW d \in Consumers, NEW f \in Consumers \ {d}
        PROVE  /\ Pending(d)' \intersect Pending(f)' = {}
               /\ pc'[d] = "free" /\ pc'[f] = "free" => Num(From(d))' # Num(From(f))'
    <3>1. CASE d = c
      BY <1>5, <2>1, <3>1
    <3>2. CASE f = c
      BY <1>5, <2>1, <3>2
    <3>3. CASE d # c /\ f # c
      BY <1>1, <1>5, <1>8, <2>2, <3>3 DEF ClaimsRight
    <3> QED BY <3>1, <3>2, <3>3
  <2>5. ASSUME NEW d \in Consumers
        PROVE  /\ IF pc'[d] = "idle" THEN deq'[d] = NoDeq
                  ELSE 1 <= deq'[d].Need /\ deq'[d].Need <= deq'[d].Count
               /\ deq'[d].First + deq'[d].Count <= HeadIndex'
               /\ pc'[d] \in {"array", "tail", "key"} => deq'[d].Need = deq'[d].Count
               /\ pc'[d] \in {"free", "return"} => AllDone(Num(From(d)))'
    <3>1. CASE d = c
      BY <1>2, <1>4, <1>5, <3>1
    <3>2. CASE d # c
      <4>1. deq[d].First + deq[d].Count <= HeadIndex /\ deq[d].First \in Nat /\ deq[d].Count \in Nat
        BY <1>1 DEF ClaimsRight, Types, Deqs
      <4>2. deq'[d].First + deq'[d].Count <= HeadIndex'
        BY <1>2, <1>4, <1>5, <3>2, <4>1
      <4> QED BY <1>1, <1>5, <2>3, <3>2, <4>2 DEF ClaimsRight
    <3> QED BY <3>1, <3>2
  <2> QED BY <2>4, <2>5 DEF ClaimsRight, NoDeq
<1>17. BlocksRight'
  <2>1. \A d \in Consumers : /\ pc'[d] = "return" <=> pc[d] = "return"
                             /\ pc[d] = "return" => deq'[d].Block = deq[d].Block
    BY <1>3, <1>5
  <2> QED BY <1>1, <1>3, <1>13, <1>14, <2>1 DEF BlocksRight
<1>18. SlotsRight'
  <2>1. \A m \in Numbers : \A i \in Items(m) : Stored(i)' = Stored(i)
    BY <1>1, <1>9, <1>10, NumbersType
  <2> QED BY <1>1, <1>3, <1>13, <1>14, <2>1 DEF SlotsRight, Items, Inner
<1>19. CountersRight'
  <2>1. \A m \in Numbers : {i \in Items(m) : Done(i)}' = {i \in Items(m) : Done(i)}
    BY <1>1, <1>9, <1>10, NumbersType
  <2> QED BY <1>1, <1>3, <1>13, <1>14, <2>1 DEF CountersRight
<1>20. LookupsRight'
  <2>1. LookupRight(c)'
    BY <1>5 DEF LookupRight
  <2> QED BY <1>1, <1>3, <1>5, <1>11, <1>14, <2>1, OtherLookup DEF LookupsRight
<1>21. Types'
  BY <1>1, <1>3, <1>4, <1>5 DEF Types
<1> QED BY <1>14, <1>15, <1>16, <1>17, <1>18, <1>19, <1>20, <1>21 DEF SlowInv

-----------------------------------------------------------------------------
(* The steps of the producer.                                                *)

\* They leave the consumers where they are.
LEMMA ProducerSame ==
  ASSUME UNCHANGED consumers
  PROVE  /\ \A c : /\ From(c)' = From(c) /\ Pending(c)' = Pending(c)
                   /\ Uncounted(c)' = Uncounted(c) /\ Unmoved(c)' = Unmoved(c)
         /\ \A i : Done(i)' = Done(i)
         /\ \A m : AllDone(m)' = AllDone(m) /\ Freeing(m)' = Freeing(m)
         /\ ClaimsRight => ClaimsRight'
<1>1. HeadIndex' = HeadIndex /\ pc' = pc /\ deq' = deq
  BY DEF consumers
<1>2. \A c : /\ From(c)' = From(c) /\ Pending(c)' = Pending(c)
             /\ Uncounted(c)' = Uncounted(c) /\ Unmoved(c)' = Unmoved(c)
  BY <1>1, ConsumerSame
<1>3. /\ \A i : Done(i)' = Done(i)
      /\ \A m : AllDone(m)' = AllDone(m)
  BY <1>1, <1>2, DoneSame
<1>4. \A c : Num(From(c))' = Num(From(c))
  BY <1>2 DEF Num
<1>5. \A m : Freeing(m)' = Freeing(m)
  BY <1>1, <1>4 DEF Freeing
<1>6. \A c : AllDone(Num(From(c)))' = AllDone(Num(From(c)))
  <2> SUFFICES ASSUME NEW c PROVE AllDone(Num(From(c)))' = AllDone(Num(From(c)))
    OBVIOUS
  <2>1. PICK m : m = Num(From(c))
    OBVIOUS
  <2>2. m = Num(From(c))'
    BY <1>4, <2>1
  <2>3. AllDone(m)' = AllDone(m)
    BY <1>3
  <2> QED BY <2>1, <2>2, <2>3
<1>7. ClaimsRight => ClaimsRight'
  BY <1>1, <1>2, <1>4, <1>6 DEF ClaimsRight, NoDeq
<1> QED BY <1>2, <1>3, <1>5, <1>7

\* A step of the producer that publishes nothing leaves the blocks of the published items.
LEMMA ProducerLive ==
  ASSUME UNCHANGED consumers, TailIndex' = TailIndex
  PROVE  LastNumber' = LastNumber /\ Live' = Live
<1>1. LastNumber' = LastNumber
  BY DEF LastNumber, Num
<1> QED BY <1>1, ProducerSame DEF Live

\* What the consumers have found, if the index goes on to lead to it.
LEMMA ProducerLookups ==
  ASSUME Types, ArraysRight, ClaimsRight, LookupsRight, UNCHANGED consumers,
         1..Len(arrays) \subseteq 1..Len(arrays'),
         \A a \in 1..Len(arrays) : arrays'[a].Index = arrays[a].Index /\ arrays'[a].Size = arrays[a].Size,
         \A m \in Live : Home(m)' = Home(m) /\ BlockOf(m)' = BlockOf(m),
         \A a \in 1..Len(arrays) : \A t \in At0(a) : \A m \in Live :
            InArray(a, m) /\ Leads(a, t, m) => Leads(a, t, m)',
         \A a \in 1..Len(arrays) : \A m \in Live :
            InArray(a, m) /\ Leads(a, arrays[a].Tail, m) => Leads(a, arrays[a].Tail, m)'
  PROVE  LookupsRight'
<1> SUFFICES ASSUME NEW c \in Consumers PROVE LookupRight(c)'
  BY DEF LookupsRight
<1>1. pc' = pc /\ deq' = deq /\ LookupRight(c)
  BY DEF consumers, LookupsRight
<1>2. PICK n, a : n = Num(From(c)) /\ a = deq[c].Array
  OBVIOUS
<1>3. n = Num(From(c))' /\ a = deq'[c].Array
  BY <1>1, <1>2, ProducerSame DEF Num
<1>4. pc[c] \in {"tail", "key"} => n \in Live /\ a \in 1..Len(arrays) /\ InArray(a, n)
  <2> SUFFICES ASSUME pc[c] \in {"tail", "key"} PROVE n \in Live /\ a \in 1..Len(arrays) /\ InArray(a, n)
    OBVIOUS
  <2>1. n \in Live
    BY <1>2, NumbersOfItems
  <2>2. From(c) \in Uncounted(c)
    BY PendingTypes DEF Uncounted
  <2> QED BY <1>1, <1>2, <2>1, <2>2 DEF LookupRight
<1>5. pc[c] = "tail" => Leads(deq[c].Array, arrays[deq[c].Array].Tail, Num(From(c)))'
  <2> SUFFICES ASSUME pc[c] = "tail"
               PROVE  Leads(deq[c].Array, arrays[deq[c].Array].Tail, Num(From(c)))'
    OBVIOUS
  <2>1. Leads(a, arrays[a].Tail, n)
    BY <1>1, <1>2 DEF LookupRight
  <2>2. Leads(a, arrays[a].Tail, n)'
    BY <1>4, <2>1
  <2> QED BY <1>3, <2>2
<1>6. pc[c] = "key" => Leads(deq[c].Array, deq[c].Tail, Num(From(c)))'
  <2> SUFFICES ASSUME pc[c] = "key"
               PROVE  Leads(deq[c].Array, deq[c].Tail, Num(From(c)))'
    OBVIOUS
  <2>1. PICK t : t = deq[c].Tail
    OBVIOUS
  <2>2. t \in At0(a) /\ Leads(a, t, n)
    BY <1>1, <1>2, <2>1 DEF LookupRight
  <2>3. Leads(a, t, n)'
    BY <1>4, <2>2
  <2>4. t = deq'[c].Tail
    BY <1>1, <2>1
  <2> QED BY <1>3, <2>3, <2>4
<1> QED BY <1>1, <1>5, <1>6, LookupSame

\* With the keys of before it does so from any slot.
LEMMA KeysLead ==
  ASSUME ArraysRight,
         \A a \in 1..Len(arrays) : arrays'[a].Index = arrays[a].Index /\ arrays'[a].Size = arrays[a].Size,
         \A m \in Live : Home(m)' = Home(m),
         \A e \in 1..Len(entries) : entries'[e].Key = entries[e].Key
  PROVE  \A a \in 1..Len(arrays) : \A t \in At0(a) : \A m \in Live : Leads(a, t, m) => Leads(a, t, m)'
BY LeadsSame

\* The last block of the queue as long as it is not full.
LEMMA LastLive ==
  ASSUME Types, Inner(TailIndex) # 0
  PROVE  LastNumber \in Live /\ Num(TailIndex) = LastNumber /\ TailIndex > 0
<1>1. TailIndex \in Nat /\ ~(TailIndex < HeadIndex)
  BY DEF Types
<1>2. Num(TailIndex) = LastNumber /\ LastNumber >= 0 /\ LastNumber \in Int
  BY <1>1, NumBefore, NumType DEF LastNumber
<1>3. TailIndex \in Items(LastNumber)
  BY <1>1, <1>2, NumItems
<1>4. ~AllDone(LastNumber)
  BY <1>1, <1>3 DEF AllDone, Done
<1>5. LastNumber \in Live
  BY <1>2, <1>4 DEF Live
<1>6. TailIndex # 0
  BY BlockSizeIs DEF Inner
<1> QED BY <1>1, <1>2, <1>5, <1>6

\* Items of later blocks are not published.
LEMMA LaterItems ==
  ASSUME Types, NEW m \in Int, m > LastNumber, NEW i \in Items(m)
  PROVE  i \in Int /\ Num(i) = m /\ i >= TailIndex /\ i >= HeadIndex /\ ~Done(i)
<1>1. i \in Int /\ Num(i) = m
  BY ItemsFinite, NumItems
<1>2. TailIndex - 1 \in Int /\ HeadIndex \in Nat /\ TailIndex \in Nat /\ HeadIndex <= TailIndex
  BY DEF Types
<1>3. LastNumber \in Int
  BY <1>2, NumType DEF LastNumber
<1>4. ~(i <= TailIndex - 1)
  BY <1>1, <1>2, <1>3, NumMono DEF LastNumber
<1>5. i >= TailIndex /\ i >= HeadIndex /\ ~(i < HeadIndex)
  BY <1>1, <1>2, <1>4
<1> QED BY <1>1, <1>5 DEF Done

\* The beginning of Enqueue and EnqueueBulk.
LEMMA BeginEnqueueStep ==
  ASSUME SlowInv, ppc # "cleared", NEW op \in {"one", "bulk"}, NEW count \in Nat \ {0}, NEW mode \in Modes,
         op = "one" => count = 1, BeginEnqueue(op, count, mode)
  PROVE  SlowInv'
<1>1. /\ Types /\ ArraysRight /\ CallRight /\ ClaimsRight /\ WindowRight /\ KeysRight /\ ValuesRight
      /\ BlocksRight /\ ChainRight /\ SlotsRight /\ CountersRight /\ LookupsRight
  BY DEF SlowInv
<1>2. /\ ppc = "idle" /\ enq = NoEnq /\ TailIndex + count <= MaxTail
      /\ enq' = [NoEnq EXCEPT !.op = op, !.Mode = mode, !.Count = count, !.Need = NeedCount(count),
                              !.Base = (Num(TailIndex - 1) + 1) * BlockSize, !.StartBlock = TailBlock]
      /\ ppc' = IF NeedCount(count) > 0 THEN "insert" ELSE "fill"
  BY <1>1 DEF BeginEnqueue, CallRight, Num
<1>3. /\ TailIndex' = TailIndex /\ TailBlock' = TailBlock /\ arrays' = arrays /\ Next' = Next
      /\ entries' = entries /\ Counter' = Counter /\ Slots' = Slots /\ free' = free
      /\ HeadIndex' = HeadIndex /\ pc' = pc /\ deq' = deq /\ UNCHANGED consumers
  BY DEF BeginEnqueue, shared, consumers
<1>4. LastNumber \in Int /\ LastNumber >= -1 /\ TailIndex \in Nat
  BY <1>1, Sizes DEF Types
<1>5. NeedCount(count) = Num(TailIndex + count - 1) - LastNumber /\ NeedCount(count) \in Nat
  <2>1. NeedCount(count) = Num(TailIndex + count - 1) - LastNumber
    BY DEF NeedCount, Num, LastNumber
  <2>2. TailIndex + count - 1 \in Int /\ TailIndex - 1 \in Int /\ TailIndex - 1 <= TailIndex + count - 1
    BY <1>4
  <2>3. LastNumber <= Num(TailIndex + count - 1) /\ Num(TailIndex + count - 1) \in Int
    BY <2>2, NumMono, NumType DEF LastNumber
  <2> QED BY <1>4, <2>1, <2>3
<1>6. /\ enq'.op = op /\ enq'.Mode = mode /\ enq'.Count = count /\ enq'.Need = NeedCount(count)
      /\ enq'.Base = (LastNumber + 1) * BlockSize /\ enq'.StartBlock = TailBlock
      /\ enq'.FirstAllocatedBlock = NULL /\ enq'.Taken = 0
  BY <1>2 DEF NoEnq, LastNumber
<1>7. enq.Taken = 0 /\ enq.op = "none"
  BY <1>2 DEF NoEnq
<1>8. /\ LastNumber' = LastNumber /\ Live' = Live
      /\ \A m : AllDone(m)' = AllDone(m)
      /\ \A i : Done(i)' = Done(i)
      /\ \A c \in Consumers : Unmoved(c)' = Unmoved(c)
      /\ ClaimsRight'
  BY <1>1, <1>3, ProducerSame, ProducerLive
<1>9. /\ New = {} /\ New' = {} /\ Numbers = Live /\ Numbers' = Live
      /\ TailNumber' = TailNumber
  <2>1. New = {} /\ New' = {}
    BY <1>4, <1>6, <1>7, <1>8 DEF New
  <2>2. TailNumber' = TailNumber
    BY <1>2, <1>4, <1>6, <1>7, <1>8 DEF TailNumber
  <2> QED BY <1>8, <2>1, <2>2 DEF Numbers
<1>10. Current' = Current /\ \A m : Home(m)' = Home(m)
  BY <1>3, <1>9 DEF Current, Home, At
<1>11. \A m \in Live : ~Unstored(m) /\ ~Unstored(m)' /\ BlockOf(m)' = BlockOf(m)
  <2>1. \A m \in Live : m # LastNumber + 1
    BY <1>1, <1>4, NumbersType
  <2>2. \A m \in Live : ~Unstored(m) /\ ~Unstored(m)'
    BY <1>8, <2>1 DEF Unstored
  <2> QED BY <1>3, <1>10, <2>2 DEF BlockOf
<1>12. \A i : Stored(i)' = Stored(i)
  BY <1>2, <1>3, <1>8 DEF Stored
<1>13. ArraysRight'
  BY <1>1, <1>3, ArraysStay
<1>14. WindowRight'
  BY <1>1, <1>9, <1>10 DEF WindowRight
<1>15. KeysRight'
  BY <1>1, <1>2, <1>3, <1>8, <1>9, <1>10 DEF KeysRight
<1>16. ValuesRight'
  BY <1>1, <1>3, <1>9, <1>10, <1>11 DEF ValuesRight
<1>17. BlocksRight'
  BY <1>1, <1>3, <1>9, <1>11 DEF BlocksRight
<1>18. ChainRight'
  <2>1. Start' = TailBlock /\ Start = TailBlock
    BY <1>2, <1>6 DEF Start
  <2>2. LastNumber \in Live => BlockOf(LastNumber)' = BlockOf(LastNumber)
    <3>1. PICK l : l = LastNumber
      OBVIOUS
    <3>2. l = LastNumber'
      BY <1>8, <3>1
    <3>3. l \in Live => BlockOf(l)' = BlockOf(l)
      BY <1>11
    <3> QED BY <3>1, <3>2, <3>3
  <2> QED BY <1>1, <1>3, <1>6, <1>7, <1>8, <2>1, <2>2 DEF ChainRight
<1>19. SlotsRight'
  BY <1>1, <1>3, <1>9, <1>11, <1>12 DEF SlotsRight, Items, Inner
<1>20. CountersRight'
  BY <1>1, <1>3, <1>8, <1>9, <1>11 DEF CountersRight, Items
<1>21. CallRight'
  <2>1. enq'.Need + enq'.Taken = Num(TailIndex + count - 1) - LastNumber
    BY <1>5, <1>6
  <2>2. Num(TailIndex + enq.Count - 1)' = Num(TailIndex + count - 1)
    BY <1>3, <1>6 DEF Num
  <2>3. enq'.Base = (LastNumber + 1 + enq'.Taken) * BlockSize
    BY <1>4, <1>6
  <2>4. ppc' \in {"insert", "fill"} /\ IF ppc' = "fill" THEN enq'.Need = 0 ELSE enq'.Need >= 1
    BY <1>2, <1>5, <1>6
  <2> QED BY <1>2, <1>3, <1>6, <1>8, <2>1, <2>2, <2>3, <2>4 DEF CallRight
<1>22. LookupsRight'
  <2>1. \A a, t, m : Leads(a, t, m)' = Leads(a, t, m)
    BY <1>3, <1>10 DEF Leads
  <2>2. \A a, m : Leads(a, arrays[a].Tail, m)' = Leads(a, arrays[a].Tail, m)
    BY <1>3, <1>10 DEF Leads
  <2> QED BY <1>1, <1>3, <1>10, <1>11, <2>1, <2>2, ProducerLookups
<1>23. Types'
  <2>1. mode \in {"CanAlloc", "CannotAlloc"}
    BY SlowQueueAssumption DEF SlowQueueAssumption
  <2>2. (Num(TailIndex - 1) + 1) * BlockSize \in Nat
    <3>1. Num(TailIndex - 1) = LastNumber /\ LastNumber + 1 \in Nat
      BY <1>4 DEF LastNumber
    <3> QED BY <3>1, BlockSizeIs
  <2>3. TailBlock \in Blocks \union {NULL}
    BY <1>1 DEF Types
  <2>4. enq' \in Enqs
    <3>1. PICK b, n : b = (Num(TailIndex - 1) + 1) * BlockSize /\ n = NeedCount(count)
      OBVIOUS
    <3>2. enq' = [NoEnq EXCEPT !.op = op, !.Mode = mode, !.Count = count, !.Need = n,
                              !.Base = b, !.StartBlock = TailBlock]
      BY <1>2, <3>1
    <3>3. b \in Nat /\ n \in Nat
      BY <1>5, <2>2, <3>1
    <3> QED BY <2>1, <2>3, <3>2, <3>3 DEF NoEnq, Enqs, Kinds
  <2>5. ppc' \in EnqueuePlaces
    BY <1>2 DEF EnqueuePlaces
  <2> QED BY <1>1, <1>3, <2>4, <2>5 DEF Types
<1> QED BY <1>8, <1>13, <1>14, <1>15, <1>16, <1>17, <1>18, <1>19, <1>20, <1>21, <1>22, <1>23 DEF SlowInv

\* The last block of the index, live or not, is in the window when any is.
LEMMA LastInWindow ==
  ASSUME Types, ArraysRight, WindowRight, Live # {}
  PROVE  /\ LastNumber \in Nat /\ LastNumber <= TailNumber
         /\ TailNumber - Current.Size < LastNumber
         /\ LastNumber \notin Live => TailNumber - Current.Size + 1 < LastNumber
<1>1. PICK m \in Live : TRUE
  OBVIOUS
<1>2. m \in Nat /\ m <= LastNumber /\ m \in Numbers
  BY NumbersType
<1>3. LastNumber \in Int /\ TailNumber \in Int /\ Current.Size \in Nat /\ LastNumber + enq.Taken <= TailNumber
      /\ enq.Taken \in Nat
  BY Sizes
<1>4. TailNumber - Current.Size < m
  BY <1>2 DEF WindowRight
<1>5. LastNumber \notin Live => m # LastNumber
  OBVIOUS
<1> DEFINE l == LastNumber  t == TailNumber  size == Current.Size
<1>6. /\ l \in Int /\ t \in Int /\ size \in Nat /\ m \in Nat /\ m <= l /\ l <= t /\ t - size < m
  BY <1>2, <1>3, <1>4
<1> HIDE DEF l, t, size
<1>7. l \in Nat /\ t - size < l /\ (m # l => t - size + 1 < l)
  BY <1>6
<1> QED BY <1>5, <1>6, <1>7 DEF l, t, size

\* A free entry is that of no block.
LEMMA FreeHome ==
  ASSUME Types, ArraysRight, WindowRight, KeysRight, ValuesRight, ppc \in {"insert", "tail"},
         ppc = "insert" => FreeEntry
  PROVE  /\ entries[Home(TailNumber + 1)].Value = NULL
         /\ Current.Index[NewTail] = Home(TailNumber + 1)
         /\ Home(TailNumber + 1) \in 1..Len(entries)
         /\ \A m \in Numbers : Home(m) # Home(TailNumber + 1) /\ TailNumber + 1 - Current.Size < m
         /\ Live # {} => Home(LastNumber) # Home(TailNumber + 1)
<1> DEFINE t == TailNumber  e == entries[Home(t + 1)]
<1>1. t \in Int /\ t + 1 \in Int /\ Current.Size \in Nat \ {0, 1}
  BY Sizes
<1>2. Current.Index[NewTail] = Home(t + 1) /\ Home(t + 1) \in 1..Len(entries)
  BY <1>1, Slotting DEF Home
<1>3. \A m \in Numbers : ~Unstored(m) /\ entries[Home(m)].Value # NULL /\ m \in Nat
  BY NumbersType DEF Unstored, ValuesRight
<1>4. ppc = "insert" => e.Key = 1 \/ e.Value = NULL
  BY <1>2 DEF FreeEntry, INVALID_BLOCK_BASE
<1>5. ppc = "tail" => e.Value = NULL
  BY DEF KeysRight
<1>6. \A m \in Numbers : entries[Home(m)].Key # 1
  <2> SUFFICES ASSUME NEW m \in Numbers PROVE entries[Home(m)].Key # 1
    OBVIOUS
  <2>1. m \in Nat /\ entries[Home(m)].Key = m * BlockSize
    BY <1>3 DEF KeysRight
  <2>2. m * BlockSize # 1
    BY <2>1, BlockSizeIs
  <2> QED BY <2>1, <2>2
<1>7. \A m \in Numbers : Home(m) # Home(t + 1)
  BY <1>3, <1>4, <1>5, <1>6
<1>8. e.Value = NULL
  BY <1>2, <1>4, <1>5, <1>6 DEF ValuesRight
<1>9. \A m \in Numbers : t + 1 - Current.Size < m
  <2> SUFFICES ASSUME NEW m \in Numbers, ~(t + 1 - Current.Size < m) PROVE FALSE
    OBVIOUS
  <2>1. m \in Nat /\ t - Current.Size < m
    BY <1>3 DEF WindowRight
  <2>2. m + Current.Size = t + 1
    BY <1>1, <2>1
  <2>3. Home(m) = Home(m + Current.Size)
    <3>1. m \in Int /\ Current.Size \in Int
      BY <1>1, <2>1
    <3>2. At(m + Current.Size) = At(m)
      <4>1. (At(m) + Current.Size) % Current.Size = At(m + Current.Size)
        BY <3>1, Slotting
      <4>2. At(m) \in 0..(Current.Size - 1) /\ At(m) \in Int
        BY <1>1, <3>1, Slotting
      <4>3. (At(m) + Current.Size) % Current.Size = At(m) % Current.Size
        BY <1>1, <4>2, ModTurn
      <4>4. At(m) % Current.Size = At(m)
        BY <1>1, <4>2, ModSmall
      <4> QED BY <4>1, <4>3, <4>4
    <3> QED BY <3>2 DEF Home
  <2> QED BY <1>7, <2>2, <2>3
<1>10. ASSUME Live # {} PROVE Home(LastNumber) # Home(t + 1)
  <2>1. CASE LastNumber \in Live
    BY <1>7, <2>1, NumbersType
  <2>2. CASE LastNumber \notin Live
    <3>1. LastNumber \in Nat /\ LastNumber <= t /\ t - Current.Size + 1 < LastNumber
      BY <1>10, <2>2, LastInWindow
    <3>2. (t + 1) - LastNumber < Current.Size /\ LastNumber - (t + 1) < Current.Size /\ LastNumber # t + 1
      BY <1>1, <3>1
    <3>3. LastNumber \in Int
      BY <3>1
    <3> HIDE DEF t
    <3> QED BY <1>1, <3>2, <3>3, Slotting
  <2> QED BY <2>1, <2>2
<1> QED BY <1>2, <1>7, <1>8, <1>9, <1>10

\* The chain of the running call, if its blocks and those in the index stay.
LEMMA ChainSame ==
  ASSUME Types, ArraysRight, ChainRight,
         TailIndex' = TailIndex, TailBlock' = TailBlock, Next' = Next, enq' = enq,
         Start' = Start, NotYetTail' = NotYetTail, LastNumber' = LastNumber, Live' = Live,
         \A m \in Numbers : BlockOf(m)' = BlockOf(m)
  PROVE  ChainRight'
<1> DEFINE L == LastNumber  T == enq.Taken
<1>1. L \in Int /\ T \in Nat
  BY Sizes
<1>2. \A m \in (L + 1)..(L + T) : m \in Numbers
  BY DEF New, Numbers
<1>3. L \in Live => L \in Numbers
  BY NumbersType
<1>4. PICK k : k = L
  OBVIOUS
<1>5. k = LastNumber'
  BY <1>4
<1>6. L \in Live => BlockOf(LastNumber)' = BlockOf(L)
  BY <1>3, <1>4, <1>5
<1>7. T > 0 => BlockOf(LastNumber + 1)' = BlockOf(L + 1)
  <2>1. PICK j : j = L + 1
    OBVIOUS
  <2>2. j = (LastNumber + 1)' /\ (T > 0 => j \in (L + 1)..(L + T))
    BY <1>1, <2>1
  <2> QED BY <1>2, <2>1, <2>2
<1>8. T > 0 => BlockOf(LastNumber + enq.Taken)' = BlockOf(L + T)
  <2>1. PICK j : j = L + T
    OBVIOUS
  <2>2. j = (LastNumber + enq.Taken)' /\ (T > 0 => j \in (L + 1)..(L + T))
    BY <1>1, <2>1
  <2> QED BY <1>2, <2>1, <2>2
<1>9. \A m \in (L + 1)..(L + T - 1) : BlockOf(m)' = BlockOf(m) /\ BlockOf(m + 1)' = BlockOf(m + 1)
  <2> SUFFICES ASSUME NEW m \in (L + 1)..(L + T - 1)
               PROVE  BlockOf(m)' = BlockOf(m) /\ BlockOf(m + 1)' = BlockOf(m + 1)
    OBVIOUS
  <2>1. m \in (L + 1)..(L + T) /\ m + 1 \in (L + 1)..(L + T)
    BY <1>1
  <2> QED BY <1>2, <2>1
<1>10. Inner(TailIndex) # 0 => BlockOf(LastNumber)' = BlockOf(L)
  BY <1>6, LastLive
<1>11. enq.FirstAllocatedBlock = IF T = 0 THEN NULL ELSE BlockOf(LastNumber + 1)'
  BY <1>1, <1>7 DEF ChainRight
<1>12. TailBlock = IF T > 0 /\ ~NotYetTail THEN BlockOf(LastNumber + enq.Taken)' ELSE Start
  BY <1>8 DEF ChainRight
<1>13. enq.op = "bulk" /\ T > 0 =>
     /\ \A m \in (L + 1)..(L + T - 1) : Next[BlockOf(m)'] = BlockOf(m + 1)'
     /\ Inner(TailIndex) # 0 => Next[BlockOf(LastNumber)'] = BlockOf(LastNumber + 1)'
  <2> SUFFICES ASSUME enq.op = "bulk", T > 0
               PROVE  /\ \A m \in (L + 1)..(L + T - 1) : Next[BlockOf(m)'] = BlockOf(m + 1)'
                      /\ Inner(TailIndex) # 0 => Next[BlockOf(LastNumber)'] = BlockOf(LastNumber + 1)'
    OBVIOUS
  <2>1. /\ \A m \in (L + 1)..(L + T - 1) : Next[BlockOf(m)] = BlockOf(m + 1)
        /\ Inner(TailIndex) # 0 => Next[BlockOf(L)] = BlockOf(L + 1)
    BY DEF ChainRight
  <2> QED BY <1>7, <1>9, <1>10, <2>1
<1>14. IF TailIndex = 0 THEN Start = NULL ELSE Start \in Blocks
  BY DEF ChainRight
<1>15. L \in Live => Start = BlockOf(LastNumber)'
  BY <1>6 DEF ChainRight
<1> QED BY <1>11, <1>12, <1>13, <1>14, <1>15 DEF ChainRight, Inner

\* InsertBlockIndexEntry writes the key of the next entry, if it is free.
LEMMA InsertEntryStep ==
  ASSUME SlowInv, ppc # "cleared", InsertEntry
  PROVE  SlowInv'
<1>1. /\ Types /\ ArraysRight /\ CallRight /\ ClaimsRight /\ WindowRight /\ KeysRight /\ ValuesRight
      /\ BlocksRight /\ ChainRight /\ SlotsRight /\ CountersRight /\ LookupsRight
  BY DEF SlowInv
<1>0. PICK t, h : t = TailNumber /\ h = Home(t + 1)
  OBVIOUS
<1>2. /\ ppc = "insert" /\ ppc' = "tail" /\ FreeEntry
      /\ TailIndex' = TailIndex /\ TailBlock' = TailBlock /\ arrays' = arrays /\ Next' = Next
      /\ enq' = enq /\ Counter' = Counter /\ Slots' = Slots /\ free' = free
      /\ HeadIndex' = HeadIndex /\ pc' = pc /\ deq' = deq /\ UNCHANGED consumers
  BY DEF InsertEntry, consumers
<1>3. /\ entries[h].Value = NULL /\ Current.Index[NewTail] = h /\ h \in 1..Len(entries)
      /\ \A m \in Numbers : Home(m) # h
      /\ Live # {} => Home(LastNumber) # h
  BY <1>0, <1>1, <1>2, FreeHome
<1>4. /\ t \in Int /\ t + 1 \in Nat /\ LastNumber \in Int /\ LastNumber >= -1
      /\ enq.Base = (t + 1) * BlockSize /\ enq.Base \in Nat /\ t = LastNumber + enq.Taken
  <2>1. /\ t \in Int /\ LastNumber \in Int /\ LastNumber >= -1 /\ t = LastNumber + enq.Taken
        /\ enq.Taken \in Nat /\ t + 1 = LastNumber + 1 + enq.Taken
    BY <1>0, <1>1, <1>2, Sizes DEF TailNumber
  <2>2. enq.Base = (LastNumber + 1 + enq.Taken) * BlockSize
    BY <1>1, <1>2 DEF CallRight
  <2>3. enq.Base \in Nat
    BY <1>1 DEF Types, Enqs
  <2>4. t + 1 \in Nat
    BY <2>1
  <2> QED BY <2>1, <2>2, <2>3, <2>4
<1>5. /\ Len(entries') = Len(entries)
      /\ \A e \in 1..Len(entries) : /\ entries'[e].Value = entries[e].Value
                                    /\ e # h => entries'[e] = entries[e]
      /\ entries'[h] = [Key |-> enq.Base, Value |-> NULL]
      /\ entries' \in Seq([Key : Nat, Value : Blocks \union {NULL}])
  <2> DEFINE E == [Key : Nat, Value : Blocks \union {NULL}]
  <2>1. entries \in Seq(E) /\ \A e \in 1..Len(entries) : entries[e] \in E
    BY <1>1, Sizes DEF Types
  <2>2. entries' = [entries EXCEPT ![h] = [entries[h] EXCEPT !.Key = enq.Base]]
    BY <1>3 DEF InsertEntry
  <2>3. [entries[h] EXCEPT !.Key = enq.Base] = [Key |-> enq.Base, Value |-> NULL]
    BY <1>3, <2>1
  <2>4. [Key |-> enq.Base, Value |-> NULL] \in E
    BY <1>4
  <2> HIDE DEF E
  <2>5. entries' \in Seq(E) /\ Len(entries') = Len(entries)
    BY <1>3, <2>1, <2>2, <2>3, <2>4
  <2>6. \A e \in 1..Len(entries) : entries'[e] = IF e = h THEN [Key |-> enq.Base, Value |-> NULL] ELSE entries[e]
    BY <1>3, <2>1, <2>2, <2>3
  <2> QED BY <1>3, <2>5, <2>6 DEF E
<1>6. /\ LastNumber' = LastNumber /\ Live' = Live /\ New' = New /\ Numbers' = Numbers
      /\ TailNumber' = t /\ Current' = Current
      /\ \A m : AllDone(m)' = AllDone(m)
      /\ \A i : Done(i)' = Done(i)
      /\ \A c \in Consumers : Unmoved(c)' = Unmoved(c)
      /\ ClaimsRight'
  <2>1. LastNumber' = LastNumber /\ Live' = Live
    BY <1>2, ProducerLive
  <2>2. New' = New /\ TailNumber' = t /\ Current' = Current
    BY <1>0, <1>2, <2>1 DEF New, TailNumber, Current
  <2> QED BY <1>1, <1>2, <2>1, <2>2, ProducerSame DEF Numbers
<1>7. \A m : Home(m)' = Home(m) 
  BY <1>0, <1>2, <1>6 DEF Home, At
<1>8. \A m \in Int : Home(m) \in 1..Len(entries)
  BY <1>1, Slotting
<1>9. \A m \in Numbers : /\ entries'[Home(m)] = entries[Home(m)] /\ ~Unstored(m) /\ ~Unstored(m)'
                         /\ BlockOf(m)' = BlockOf(m)
  <2>1. \A m \in Numbers : entries'[Home(m)] = entries[Home(m)]
    <3> SUFFICES ASSUME NEW m \in Numbers PROVE entries'[Home(m)] = entries[Home(m)]
      OBVIOUS
    <3>1. m \in Int
      BY <1>1, NumbersType
    <3>2. Home(m) \in 1..Len(entries) /\ Home(m) # h
      BY <1>3, <1>8, <3>1
    <3> QED BY <1>5, <3>2
  <2>2. \A m : ~Unstored(m) /\ ~Unstored(m)'
    BY <1>2 DEF Unstored
  <2> QED BY <1>7, <2>1, <2>2 DEF BlockOf
<1>10. \A i : Stored(i)' = Stored(i)
  BY <1>2, <1>6 DEF Stored
<1>11. ArraysRight'
  BY <1>1, <1>2, <1>5, ArraysStay
<1>12. WindowRight'
  BY <1>0, <1>1, <1>6 DEF WindowRight
<1>13. KeysRight'
  <2>1. \A m \in Numbers : entries'[Home(m)].Key = m * BlockSize
    BY <1>1, <1>9 DEF KeysRight
  <2>2. Live # {} => entries'[Home(LastNumber)].Key = LastNumber * BlockSize
    BY <1>1, <1>3, <1>4, <1>5, <1>8 DEF KeysRight
  <2>3. Home(LastNumber)' = Home(LastNumber) /\ Home(TailNumber + 1)' = h
    <3>1. PICK k, l : k = LastNumber /\ l = t + 1
      OBVIOUS
    <3>2. k = LastNumber' /\ l = (TailNumber + 1)'
      BY <1>6, <3>1
    <3> QED BY <1>0, <1>7, <3>1, <3>2
  <2> QED BY <1>2, <1>5, <1>6, <1>7, <2>1, <2>2, <2>3 DEF KeysRight
<1>14. ValuesRight'
  BY <1>1, <1>5, <1>6, <1>7, <1>9 DEF ValuesRight
<1>15. BlocksRight'
  BY <1>1, <1>2, <1>6, <1>9 DEF BlocksRight
<1>16. ChainRight'
  <2>1. Start' = Start /\ NotYetTail' = NotYetTail
    BY <1>2 DEF Start, NotYetTail
  <2>2. enq.Taken \in Nat
    BY <1>1, Sizes
  <2> QED BY <1>1, <1>2, <1>4, <1>6, <1>9, <2>1, <2>2, ChainSame
<1>17. SlotsRight'
  BY <1>1, <1>2, <1>6, <1>9, <1>10 DEF SlotsRight, Items, Inner
<1>18. CountersRight'
  BY <1>1, <1>2, <1>6, <1>9 DEF CountersRight, Items
<1>19. CallRight'
  BY <1>1, <1>2, <1>6 DEF CallRight, Num
<1>20. LookupsRight'
  <2>1. ASSUME NEW a \in 1..Len(arrays), NEW s \in At0(a), NEW m \in Live, InArray(a, m), Leads(a, s, m)
        PROVE  Leads(a, s, m)'
    <3>0. m \in Int
      BY <1>1, NumbersType
    <3>1. arrays[a].Index[s] \in 1..Len(entries)
      BY <1>1 DEF ArraysRight, ArrayRight
    <3>2. CASE arrays[a].Index[s] # h
      <4>1. entries'[arrays[a].Index[s]] = entries[arrays[a].Index[s]]
        BY <1>5, <3>1, <3>2
      <4> QED BY <1>2, <1>7, <2>1, <4>1 DEF Leads
    <3>3. CASE arrays[a].Index[s] = h
      <4>1. PICK k \in At0(a) : arrays[a].Index[k] = Home(m)
        BY <2>1 DEF InArray
      <4>2. k = (s + (m - (t + 1))) % arrays[a].Size
        BY <1>0, <1>1, <1>4, <3>0, <3>3, <4>1, Steering, t + 1 \in Int
      <4>3. entries'[arrays'[a].Index[s]].Key = (t + 1) * BlockSize
        BY <1>2, <1>4, <1>5, <3>3
      <4>4. arrays'[a].Index[(s + (m - (t + 1))) % arrays'[a].Size] = Home(m)'
        BY <1>2, <1>7, <4>1, <4>2
      <4> QED BY <1>4, <4>3, <4>4 DEF Leads
    <3> QED BY <3>2, <3>3
  <2>2. ASSUME NEW a \in 1..Len(arrays), NEW m \in Live, InArray(a, m), Leads(a, arrays[a].Tail, m)
        PROVE  Leads(a, arrays[a].Tail, m)'
    <3>1. PICK s : s = arrays[a].Tail
      OBVIOUS
    <3>2. s = (arrays[a].Tail)' /\ s \in At0(a)
      BY <1>1, <1>2, <3>1 DEF ArraysRight, ArrayRight
    <3>3. Leads(a, s, m)'
      BY <2>1, <2>2, <3>1, <3>2
    <3> QED BY <3>2, <3>3
  <2>3. Live \subseteq Numbers
    BY <1>1, NumbersType
  <2> QED BY <1>1, <1>2, <1>7, <1>9, <2>1, <2>2, <2>3, ProducerLookups
<1>21. Types'
  BY <1>1, <1>2, <1>5 DEF Types, EnqueuePlaces
<1> QED BY <1>6, <1>11, <1>12, <1>13, <1>14, <1>15, <1>16, <1>17, <1>18, <1>19, <1>20, <1>21 DEF SlowInv

\* The index with another Tail.
LEMMA TailMoves ==
  ASSUME Types, ArraysRight, NEW tail \in 0..(Current.Size - 1),
         arrays' = [arrays EXCEPT ![Len(arrays)].Tail = tail], Len(entries') = Len(entries)
  PROVE  /\ ArraysRight' /\ Len(arrays') = Len(arrays) /\ arrays' \in Seq(IndexArrays)
         /\ \A a \in 1..Len(arrays) : /\ arrays'[a].Index = arrays[a].Index
                                      /\ arrays'[a].Size = arrays[a].Size
                                      /\ a # Len(arrays) => arrays'[a].Tail = arrays[a].Tail
         /\ \A a \in 1..Len(arrays) : At0(a)' = At0(a)
         /\ Current'.Size = Current.Size /\ Current'.Index = Current.Index /\ Current'.Tail = tail
<1>1. PICK l : l = Len(arrays)
  OBVIOUS
<1>2. l \in Nat /\ l \in 1..l /\ Len(entries) \in Nat /\ arrays[l] = Current
  BY <1>1, Sizes
<1>3. arrays \in Seq(IndexArrays) /\ \A a \in 1..l : arrays[a] \in IndexArrays
  BY <1>1, ElementOfSeq DEF Types
<1>4. tail \in Nat
  BY Sizes
<1>5. PICK r : r = [arrays[l] EXCEPT !.Tail = tail]
  OBVIOUS
<1>6. r \in IndexArrays /\ r.Size = arrays[l].Size /\ r.Index = arrays[l].Index /\ r.Tail = tail
  BY <1>2, <1>3, <1>4, <1>5 DEF IndexArrays
<1>7. arrays' = [arrays EXCEPT ![l] = r]
  BY <1>1, <1>5
<1>8. Len(arrays') = l /\ \A a \in 1..l : arrays'[a] = IF a = l THEN r ELSE arrays[a]
  BY <1>1, <1>2, <1>3, <1>7
<1>9. arrays' \in Seq(IndexArrays)
  BY <1>1, <1>2, <1>3, <1>6, <1>7
<1>10. \A a \in 1..l : /\ arrays'[a].Index = arrays[a].Index /\ arrays'[a].Size = arrays[a].Size
                       /\ arrays'[a].Tail = IF a = l THEN tail ELSE arrays[a].Tail
  BY <1>6, <1>8
<1>11. Current' = arrays'[l]
  BY <1>8 DEF Current
<1>12. Current'.Size = Current.Size /\ Current'.Index = Current.Index /\ Current'.Tail = tail
  BY <1>2, <1>10, <1>11
<1>13. \A a \in 1..l : At0(a)' = At0(a)
  BY <1>10 DEF At0
<1>14. ASSUME NEW a \in 1..l PROVE ArrayRight(a)'
  <2>1. ArrayRight(a)
    BY <1>1, <1>14 DEF ArraysRight
  <2>2. arrays'[a].Tail \in At0(a)'
    BY <1>1, <1>2, <1>10, <1>13, <2>1 DEF ArrayRight, At0
  <2>3. At0(Len(arrays))' = At0(Len(arrays))
    BY <1>1, <1>2, <1>8, <1>10 DEF At0
  <2> QED BY <1>10, <1>12, <1>13, <2>1, <2>2, <2>3 DEF ArrayRight
<1>15. \A e \in 1..Len(entries') : \E k \in At0(Len(arrays))' : Current'.Index[k] = e
  <2>1. At0(Len(arrays))' = At0(Len(arrays))
    BY <1>1, <1>2, <1>8, <1>10 DEF At0
  <2> QED BY <1>12, <2>1 DEF ArraysRight
<1>16. ArraysRight'
  BY <1>2, <1>8, <1>14, <1>15 DEF ArraysRight
<1> QED BY <1>1, <1>8, <1>9, <1>10, <1>12, <1>13, <1>16

\* If the Tail goes where the block it is at goes, every block stays where it is.
LEMMA HomesMove ==
  ASSUME Types, ArraysRight, TailNumber' \in Int,
         Current'.Size = Current.Size, Current'.Index = Current.Index,
         Current'.Tail = (Current.Tail + (TailNumber' - TailNumber)) % Current.Size
  PROVE  \A m \in Int : At(m)' = At(m) /\ Home(m)' = Home(m)
<1> SUFFICES ASSUME NEW m \in Int PROVE At(m)' = At(m) /\ Home(m)' = Home(m)
  OBVIOUS
<1>1. PICK S, T, t, u : S = Current.Size /\ T = Current.Tail /\ t = TailNumber /\ u = TailNumber'
  OBVIOUS
<1>2. S \in Nat \ {0} /\ T \in Int /\ t \in Int /\ u \in Int
  BY <1>1, Sizes
<1>3. At(m) = (T + (m - t)) % S
  BY <1>1 DEF At
<1>4. At(m)' = (((T + (u - t)) % S) + (m - u)) % S
  BY <1>1 DEF At
<1>5. (((T + (u - t)) % S) + (m - u)) % S = ((T + (u - t)) + (m - u)) % S
  <2>1. T + (u - t) \in Int /\ m - u \in Int
    BY <1>2
  <2> QED BY <1>2, <2>1, ModPlus
<1>6. (T + (u - t)) + (m - u) = T + (m - t)
  BY <1>2
<1>7. At(m)' = At(m)
  BY <1>3, <1>4, <1>5, <1>6
<1> QED BY <1>7 DEF Home

\* InsertBlockIndexEntry moves Tail to the entry.
LEMMA StoreIndexTailStep ==
  ASSUME SlowInv, ppc # "cleared", StoreIndexTail
  PROVE  SlowInv'
<1>1. /\ Types /\ ArraysRight /\ CallRight /\ ClaimsRight /\ WindowRight /\ KeysRight /\ ValuesRight
      /\ BlocksRight /\ ChainRight /\ SlotsRight /\ CountersRight /\ LookupsRight
  BY DEF SlowInv
<1>0. PICK t, h : t = TailNumber /\ h = Home(t + 1)
  OBVIOUS
<1>2. /\ ppc = "tail" /\ ppc' = "block" /\ arrays' = [arrays EXCEPT ![Len(arrays)].Tail = NewTail]
      /\ TailIndex' = TailIndex /\ TailBlock' = TailBlock /\ Next' = Next
      /\ enq' = enq /\ entries' = entries /\ Counter' = Counter /\ Slots' = Slots /\ free' = free
      /\ HeadIndex' = HeadIndex /\ pc' = pc /\ deq' = deq /\ UNCHANGED consumers
  BY DEF StoreIndexTail, consumers, shared
<1>3. /\ entries[h] = [Key |-> enq.Base, Value |-> NULL] /\ Current.Index[NewTail] = h
      /\ h \in 1..Len(entries)
      /\ \A m \in Numbers : TailNumber + 1 - Current.Size < m
  BY <1>0, <1>1, <1>2, FreeHome DEF KeysRight
<1>4. /\ t \in Int /\ t + 1 \in Nat /\ LastNumber \in Int /\ enq.Taken \in Nat /\ enq.Base = (t + 1) * BlockSize
      /\ t = LastNumber + enq.Taken /\ Current.Size \in Nat \ {0}
  <2>1. /\ t \in Int /\ LastNumber \in Int /\ LastNumber >= -1 /\ t = LastNumber + enq.Taken
        /\ enq.Taken \in Nat /\ t + 1 = LastNumber + 1 + enq.Taken
    BY <1>0, <1>1, <1>2, Sizes DEF TailNumber
  <2>2. enq.Base = (t + 1) * BlockSize
    BY <1>1, <1>2, <2>1 DEF CallRight
  <2>3. t + 1 \in Nat
    BY <2>1
  <2>4. Current.Size \in Nat \ {0}
    BY <1>1, Sizes
  <2> QED BY <2>1, <2>2, <2>3, <2>4
<1>5. NewTail \in 0..(Current.Size - 1)
  <2>1. At(TailNumber + 1) = NewTail /\ TailNumber + 1 \in Int
    BY <1>0, <1>1, <1>4, Slotting
  <2> QED BY <1>1, <2>1, Slotting
<1>6. /\ ArraysRight' /\ Len(arrays') = Len(arrays) /\ arrays' \in Seq(IndexArrays)
      /\ \A a \in 1..Len(arrays) : /\ arrays'[a].Index = arrays[a].Index
                                   /\ arrays'[a].Size = arrays[a].Size
                                   /\ a # Len(arrays) => arrays'[a].Tail = arrays[a].Tail
      /\ Current'.Size = Current.Size /\ Current'.Index = Current.Index /\ Current'.Tail = NewTail
  BY <1>1, <1>2, <1>5, TailMoves
<1>7. /\ LastNumber' = LastNumber /\ Live' = Live /\ New' = New /\ Numbers' = Numbers
      /\ TailNumber' = t + 1
      /\ \A m : AllDone(m)' = AllDone(m)
      /\ \A i : Done(i)' = Done(i)
      /\ \A c \in Consumers : Unmoved(c)' = Unmoved(c)
      /\ ClaimsRight'
  <2>1. LastNumber' = LastNumber /\ Live' = Live
    BY <1>2, ProducerLive
  <2>2. New' = New /\ TailNumber' = t + 1
    BY <1>0, <1>2, <1>4, <2>1 DEF New, TailNumber
  <2> QED BY <1>1, <1>2, <2>1, <2>2, ProducerSame DEF Numbers
<1>8. \A m \in Int : Home(m)' = Home(m) /\ Home(m) \in 1..Len(entries)
  <2>1. TailNumber' - TailNumber = 1 /\ TailNumber' \in Int
    BY <1>0, <1>4, <1>7
  <2>2. NewTail = (Current.Tail + (TailNumber' - TailNumber)) % Current.Size
    BY <2>1 DEF NewTail
  <2> QED BY <1>1, <1>6, <2>1, <2>2, HomesMove, Slotting
<1>9. \A m \in Numbers : m \in Int /\ Home(m)' = Home(m) /\ ~Unstored(m) /\ ~Unstored(m)' /\ BlockOf(m)' = BlockOf(m)
  <2>1. \A m : ~Unstored(m) /\ ~Unstored(m)'
    BY <1>2 DEF Unstored
  <2>2. \A m \in Numbers : m \in Int /\ Home(m)' = Home(m)
    BY <1>1, <1>8, NumbersType
  <2> QED BY <1>2, <2>1, <2>2 DEF BlockOf
<1>10. \A i : Stored(i)' = Stored(i)
  BY <1>2, <1>7 DEF Stored
<1>12. WindowRight'
  <2>1. Numbers' = Numbers /\ TailNumber' = t + 1 /\ Current'.Size = Current.Size
    BY <1>6, <1>7
  <2>2. ASSUME NEW m \in Numbers PROVE t + 1 - Current.Size < m /\ m <= t + 1
    <3>1. t + 1 - Current.Size < m
      BY <1>0, <1>3
    <3>2. m <= t /\ m \in Int
      BY <1>0, <1>1, <1>9 DEF WindowRight
    <3> QED BY <1>4, <3>1, <3>2
  <2>3. t \in Int /\ Current.Size \in Int /\ Numbers \subseteq Int
    BY <1>4, <1>9
  <2> QED BY <2>1, <2>2, <2>3 DEF WindowRight

<1>13. KeysRight'
  <2>1. Home(LastNumber)' = Home(LastNumber) /\ Home(TailNumber)' = h
    <3>1. PICK k, l : k = LastNumber /\ l = t + 1
      OBVIOUS
    <3>2. k = LastNumber' /\ l = TailNumber' /\ k \in Int /\ l \in Int
      BY <1>4, <1>7, <3>1
    <3> QED BY <1>0, <1>8, <3>1, <3>2
  <2> QED BY <1>1, <1>2, <1>3, <1>7, <1>9, <2>1 DEF KeysRight
<1>14. ValuesRight'
  BY <1>1, <1>2, <1>7, <1>9 DEF ValuesRight
<1>15. BlocksRight'
  BY <1>1, <1>2, <1>7, <1>9 DEF BlocksRight
<1>16. ChainRight'
  <2>1. Start' = Start /\ NotYetTail' = NotYetTail
    BY <1>2 DEF Start, NotYetTail
  <2> QED BY <1>1, <1>2, <1>7, <1>9, <2>1, ChainSame
<1>17. SlotsRight'
  BY <1>1, <1>2, <1>7, <1>9, <1>10 DEF SlotsRight, Items, Inner
<1>18. CountersRight'
  BY <1>1, <1>2, <1>7, <1>9 DEF CountersRight, Items
<1>19. CallRight'
  BY <1>1, <1>2, <1>7 DEF CallRight, Num
<1>20. LookupsRight'
  <2>1. Live \subseteq Numbers
    BY <1>1, NumbersType
  <2>2. \A a \in 1..Len(arrays) : \A s \in At0(a) : \A m \in Live : Leads(a, s, m) => Leads(a, s, m)'
    BY <1>1, <1>2, <1>6, <1>9, <2>1, KeysLead
  <2>3. ASSUME NEW a \in 1..Len(arrays), NEW m \in Live, Leads(a, arrays[a].Tail, m)
        PROVE  Leads(a, arrays[a].Tail, m)'
    <3>1. CASE a # Len(arrays)
      <4>1. PICK s : s = arrays[a].Tail
        OBVIOUS
      <4>2. s = (arrays[a].Tail)' /\ s \in At0(a)
        BY <1>1, <1>6, <3>1, <4>1 DEF ArraysRight, ArrayRight
      <4>3. Leads(a, s, m)'
        BY <2>2, <2>3, <4>1, <4>2
      <4> QED BY <4>2, <4>3
    <3>2. CASE a = Len(arrays)
      <4>1. Current' = arrays'[a] /\ Current = arrays[a]
        BY <1>6, <3>2 DEF Current
      <4>2. entries'[arrays'[a].Index[arrays'[a].Tail]].Key = (t + 1) * BlockSize
        BY SMTT(60), <1>2, <1>3, <1>4, <1>6, <4>1
      <4>3. Current.Index[(NewTail + (m - (t + 1))) % Current.Size] = Home(m)
        <5>1. m \in Int /\ t + 1 \in Int /\ m - (t + 1) \in Int /\ (t + 1) + (m - (t + 1)) = m
          BY <1>4, <1>9, <2>1
        <5>2. At(t + 1) = NewTail
          BY <1>0, <1>1, Slotting
        <5>3. (At(t + 1) + (m - (t + 1))) % Current.Size = At((t + 1) + (m - (t + 1)))
          BY <1>1, <5>1, Slotting
        <5> QED BY <5>1, <5>2, <5>3 DEF Home
      <4>4. arrays'[a].Index[(arrays'[a].Tail + (m - (t + 1))) % arrays'[a].Size] = Home(m)'
        BY <1>6, <1>9, <2>1, <4>1, <4>3
      <4> QED BY <1>4, <4>2, <4>4 DEF Leads
    <3> QED BY <3>1, <3>2
  <2> QED BY <1>1, <1>2, <1>6, <1>9, <2>1, <2>2, <2>3, ProducerLookups
<1>21. Types'
  BY <1>1, <1>2, <1>6 DEF Types, EnqueuePlaces
<1> QED BY <1>6, <1>7, <1>12, <1>13, <1>14, <1>15, <1>16, <1>17, <1>18, <1>19, <1>20, <1>21 DEF SlowInv

\* A turn of the ring comes to the same slot.
LEMMA AtTurn ==
  ASSUME Types, ArraysRight, NEW m \in Int
  PROVE  At(m + Current.Size) = At(m)
<1>1. m + Current.Size \in Int /\ Current.Size \in Nat \ {0} /\ Current.Size \in Int
  BY Sizes
<1>2. (At(m) + Current.Size) % Current.Size = At(m + Current.Size)
  <2>1. \A k \in Int : (At(m) + k) % Current.Size = At(m + k)
    BY Slotting
  <2> QED BY <1>1, <2>1
<1>3. At(m) \in 0..(Current.Size - 1) /\ At(m) \in Int
  <2>1. \A k \in Int : At(k) \in 0..(Current.Size - 1)
    BY Slotting
  <2> QED BY <1>1, <2>1
<1>4. (At(m) + Current.Size) % Current.Size = At(m) % Current.Size
  BY <1>1, <1>3, ModTurn
<1>5. At(m) % Current.Size = At(m)
  BY <1>1, <1>3, ModSmall
<1> QED BY <1>2, <1>4, <1>5

\* The new array has the old entries from the slot behind the tail on, and new ones.
LEMMA NewArrayIs ==
  ASSUME Types, ArraysRight, NEW S, NEW len, S = Current.Size, len = Len(entries)
  PROVE  /\ S \in Nat \ {0, 1} /\ len \in Nat /\ NewTail \in 0..(S - 1)
         /\ NewArray.Size = 2 * S /\ NewArray.Tail = S - 1
         /\ NewArray.Index \in [0..(2 * S - 1) -> 1..(len + S)]
         /\ \A k \in 0..(S - 1) : /\ k \in 0..(2 * S - 1)
                                  /\ (NewTail + k) % S \in 0..(S - 1)
                                  /\ NewArray.Index[k] = Current.Index[(NewTail + k) % S]
                                  /\ NewArray.Index[k] \in 1..len
         /\ \A k \in S..(2 * S - 1) : /\ NewArray.Index[k] = len + k - S + 1
                                      /\ NewArray.Index[k] > len
         /\ NewArray \in IndexArrays
<1>1. S \in Nat \ {0, 1} /\ len \in Nat /\ Current.Index \in [0..(S - 1) -> 1..len]
  BY Sizes
<1>2. NewTail \in 0..(S - 1)
  <2>1. Current.Tail + 1 \in Int
    BY Sizes
  <2> QED BY <1>1, <2>1, ModType DEF NewTail
<1>3. \A k \in 0..(S - 1) : (NewTail + k) % S \in 0..(S - 1)
  <2> SUFFICES ASSUME NEW k \in 0..(S - 1) PROVE (NewTail + k) % S \in 0..(S - 1)
    OBVIOUS
  <2>1. NewTail + k \in Int
    BY <1>1, <1>2
  <2> QED BY <1>1, <2>1, ModType
<1>4. PICK N : N = NewTail
  OBVIOUS
<1> DEFINE f(k) == IF k < S THEN Current.Index[(N + k) % S] ELSE len + k - S + 1
<1>5. NewArray = [Size |-> 2 * S, Tail |-> S - 1, Index |-> [k \in 0..(2 * S - 1) |-> f(k)]]
  BY <1>4 DEF NewArray
<1>6. \A k \in 0..(S - 1) : f(k) = Current.Index[(N + k) % S] /\ f(k) \in 1..len
  BY <1>1, <1>3, <1>4
<1>7. \A k \in S..(2 * S - 1) : f(k) = len + k - S + 1 /\ f(k) > len /\ f(k) <= len + S /\ f(k) \in Nat
  BY <1>1
<1>8. \A k \in 0..(2 * S - 1) : f(k) \in 1..(len + S)
  <2>1. \A k \in 0..(2 * S - 1) : k \in 0..(S - 1) \/ k \in S..(2 * S - 1)
    BY <1>1
  <2>2. \A k \in 0..(S - 1) : f(k) \in 1..(len + S)
    <3>1. 1..len \subseteq 1..(len + S)
      BY <1>1
    <3> QED BY <1>6, <3>1
  <2>3. \A k \in S..(2 * S - 1) : f(k) \in 1..(len + S)
    BY <1>1, <1>7
  <2> QED BY <2>1, <2>2, <2>3
<1> HIDE DEF f
<1>9. PICK F : F = [k \in 0..(2 * S - 1) |-> f(k)]
  OBVIOUS
<1>10. NewArray = [Size |-> 2 * S, Tail |-> S - 1, Index |-> F]
  BY <1>5, <1>9
<1>11. NewArray.Size = 2 * S /\ NewArray.Tail = S - 1 /\ NewArray.Index = F
  BY <1>10
<1>12. F \in [0..(2 * S - 1) -> 1..(len + S)]
  BY <1>8, <1>9
<1>13. \A k \in 0..(2 * S - 1) : F[k] = f(k)
  BY <1>9
<1>14. (\A k \in 0..(S - 1) : k \in 0..(2 * S - 1)) /\ \A k \in S..(2 * S - 1) : k \in 0..(2 * S - 1)
  BY <1>1
<1>15. NewArray \in IndexArrays
  <2>1. 2 * S \in Nat /\ S - 1 \in Nat /\ F \in [0..(2 * S - 1) -> Nat]
    BY <1>1, <1>12
  <2>2. F \in UNION {[0..(n - 1) -> Nat] : n \in Nat}
    BY <2>1
  <2> QED BY <1>10, <2>1, <2>2 DEF IndexArrays
<1> QED BY <1>1, <1>2, <1>3, <1>4, <1>6, <1>7, <1>11, <1>12, <1>13, <1>14, <1>15

\* The current size divides its double.
LEMMA DoubleMod ==
  ASSUME NEW S \in Nat \ {0}, NEW Z \in Nat \ {0}, Z % S = 0
  PROVE  (2 * Z) % S = 0
<1>1. PICK p \in Int : Z = p * S + (Z % S)
  <2>1. Z \in Int OBVIOUS
  <2> QED BY <2>1, ModQuotient
<1>2. 2 * Z \in Int /\ 2 * p \in Int /\ 0 \in 0..(S - 1) /\ Z = p * S + 0
  BY <1>1
<1>3. 2 * Z = (2 * p) * S + 0
  <2>1. (p + p) * S = p * S + p * S /\ p * S \in Int
    BY Distribute
  <2>2. p + p = 2 * p
    OBVIOUS
  <2> QED BY <1>2, <2>1, <2>2
<1> QED BY <1>2, <1>3, ModUnique

\* The larger array has the same entries in the same order, and new ones.
LEMMA GrowArrays ==
  ASSUME Types, ArraysRight, arrays' = Append(arrays, NewArray),
         entries' = entries \o [e \in 1..Current.Size |-> NewEntry]
  PROVE  /\ ArraysRight' /\ arrays' \in Seq(IndexArrays) /\ Len(arrays') = Len(arrays) + 1
         /\ entries' \in Seq([Key : Nat, Value : Blocks \union {NULL}])
         /\ Len(entries') = Len(entries) + Current.Size
         /\ Current' = NewArray
         /\ \A a \in 1..Len(arrays) : arrays'[a] = arrays[a]
         /\ \A e \in 1..Len(entries) : entries'[e] = entries[e]
         /\ \A e \in 1..Len(entries') : e \notin 1..Len(entries) => entries'[e] = NewEntry
<1>1. PICK S, len, l, N : S = Current.Size /\ len = Len(entries) /\ l = Len(arrays) /\ N = NewTail
  OBVIOUS
<1>2. l \in Nat \ {0} /\ l \in 1..l /\ arrays[l] = Current
  BY <1>1, Sizes
<1>3. PICK A : A = NewArray
  OBVIOUS
<1>4. /\ S \in Nat \ {0, 1} /\ len \in Nat /\ N \in 0..(S - 1)
      /\ S \in Int /\ N \in Int /\ len \in Int
      /\ A.Size = 2 * S /\ A.Tail = S - 1
  BY <1>1, <1>3, NewArrayIs
<1>20. A.Index \in [0..(2 * S - 1) -> 1..(len + S)]
  BY <1>1, <1>3, NewArrayIs
<1>21. \A k \in 0..(S - 1) : /\ (N + k) % S \in 0..(S - 1)
                             /\ A.Index[k] = Current.Index[(N + k) % S]
  BY <1>1, <1>3, NewArrayIs
<1>22. \A k \in 0..(S - 1) : k \in 0..(2 * S - 1) /\ A.Index[k] \in 1..len
  BY <1>1, <1>3, NewArrayIs
<1>23. \A k \in S..(2 * S - 1) : A.Index[k] = len + k - S + 1 /\ A.Index[k] > len
  <2>1. \A k \in S..(2 * S - 1) : A.Index[k] = len + k - S + 1
    BY <1>1, <1>3, NewArrayIs
  <2>2. \A k \in S..(2 * S - 1) : len + k - S + 1 > len
    BY <1>4
  <2> QED BY <2>1, <2>2

<1>24. A \in IndexArrays
  BY <1>1, <1>3, NewArrayIs
<1>5. /\ arrays' \in Seq(IndexArrays) /\ Len(arrays') = l + 1 /\ arrays'[l + 1] = A
      /\ \A a \in 1..l : arrays'[a] = arrays[a]
  <2>1. arrays \in Seq(IndexArrays) /\ arrays' = Append(arrays, A)
    BY <1>3 DEF Types
  <2>2. arrays' \in Seq(IndexArrays) /\ Len(arrays') = l + 1
    BY <1>1, <1>24, <2>1, AppendProperties
  <2>3. arrays'[l + 1] = A /\ \A a \in 1..l : arrays'[a] = arrays[a]
    BY <1>1, <1>24, <2>1, AppendProperties
  <2> QED BY <2>2, <2>3
<1>6. Current' = A
  BY <1>5 DEF Current
<1>7. /\ entries' \in Seq([Key : Nat, Value : Blocks \union {NULL}])
      /\ Len(entries') = len + S
      /\ \A e \in 1..len : entries'[e] = entries[e]
      /\ \A e \in 1..(len + S) : e \notin 1..len => entries'[e] = NewEntry
  <2> DEFINE E == [Key : Nat, Value : Blocks \union {NULL}]
  <2>1. entries \in Seq(E)
    BY DEF Types
  <2>2. NewEntry \in E
    BY DEF NewEntry, INVALID_BLOCK_BASE
  <2> HIDE DEF E
  <2>3. PICK z : z = [e \in 1..S |-> NewEntry]
    OBVIOUS
  <2>4. z \in Seq(E) /\ Len(z) = S /\ \A e \in 1..S : z[e] = NewEntry
    <3>1. z \in [1..S -> E]
      BY <2>2, <2>3
    <3>2. z \in Seq(E)
      BY <1>4, <3>1
    <3>3. Len(z) = S
      BY <1>4, <3>1, <3>2, LenProperties
    <3> QED BY <2>3, <3>2, <3>3
  <2>5. entries' = entries \o z
    BY <1>1, <2>3
  <2>6. entries' \in Seq(E) /\ Len(entries') = len + S
    <3>1. entries \o z \in Seq(E) /\ Len(entries \o z) = Len(entries) + Len(z)
      BY <2>1, <2>4, ConcatProperties, Zenon
    <3> QED BY <1>1, <2>4, <2>5, <3>1
  <2>7. \A e \in 1..(len + S) : entries'[e] = IF e <= len THEN entries[e] ELSE z[e - len]
    <3>1. \A e \in 1..(Len(entries) + Len(z)) : entries'[e] = IF e <= Len(entries) THEN entries[e] ELSE z[e - Len(entries)]
      BY ZenonT(60), <2>1, <2>4, <2>5, ConcatProperties
    <3> QED BY <1>1, <2>4, <3>1
  <2>8. \A e \in 1..len : entries'[e] = entries[e]
    <3>1. \A e \in 1..len : e \in 1..(len + S) /\ e <= len
      BY <1>4
    <3> QED BY <2>7, <3>1
  <2>9. \A e \in 1..(len + S) : e \notin 1..len => e - len \in 1..S /\ ~(e <= len)
    BY <1>4
  <2>10. \A e \in 1..(len + S) : e \notin 1..len => entries'[e] = NewEntry
    <3> SUFFICES ASSUME NEW e \in 1..(len + S), e \notin 1..len PROVE entries'[e] = NewEntry
      OBVIOUS
    <3>1. entries'[e] = z[e - len]
      BY <2>7, <2>9
    <3> QED BY <2>4, <2>9, <3>1
  <2> QED BY <2>6, <2>8, <2>10 DEF E
<1>8. /\ \A a \in 1..l : At0(a)' = At0(a)
      /\ At0(l) = 0..(S - 1) /\ At0(Len(arrays))' = 0..(2 * S - 1)
  <2>1. \A a \in 1..l : At0(a)' = At0(a)
    BY <1>5 DEF At0
  <2>2. At0(l) = 0..(S - 1)
    BY <1>1, <1>2 DEF At0
  <2>3. At0(Len(arrays))' = 0..(2 * S - 1)
    <3>1. arrays'[Len(arrays')].Size = 2 * S
      BY <1>4, <1>5
    <3> QED BY <3>1 DEF At0
  <2> QED BY <2>1, <2>2, <2>3
<1>9. \A k \in 0..(2 * S - 1) : k \in 0..(S - 1) \/ k \in S..(2 * S - 1)
  BY <1>4
<1>10. \A a \in 1..l : ArrayRight(a)
  BY <1>1 DEF ArraysRight
<1>11. ASSUME NEW a \in 1..l PROVE ArrayRight(a)'
  <2>1. PICK size : size = arrays[a].Size
    OBVIOUS
  <2>2. size \in Nat \ {0} /\ size >= 2 /\ S % size = 0
    BY <1>1, <1>10, <2>1, Sizes DEF ArrayRight
  <2>3. (2 * S) % size = 0
    BY <1>4, <2>2, DoubleMod
  <2>4. PICK d \in Nat : \A s \in At0(a), k \in 0..(S - 1) :
           arrays[a].Index[s] = Current.Index[k] => s = (k + d) % size
    <3>1. \E d \in Nat : \A s \in At0(a), k \in At0(Len(arrays)) :
           arrays[a].Index[s] = Current.Index[k] => s = (k + d) % arrays[a].Size
      BY <1>10 DEF ArrayRight
    <3> QED BY <1>1, <1>8, <2>1, <3>1
  <2>5. ASSUME NEW s \in At0(a), NEW k \in 0..(2 * S - 1), arrays[a].Index[s] = A.Index[k]
        PROVE  s = (k + (N + d)) % size
    <3>1. arrays[a].Index[s] \in 1..len
      BY <1>1, <1>10 DEF ArrayRight
    <3>2. k \in 0..(S - 1)
      <4>1. CASE k \in S..(2 * S - 1)
        <5>1. A.Index[k] > len
          BY <1>23, <4>1
        <5> QED BY <1>4, <2>5, <3>1, <5>1
      <4> QED BY <1>9, <4>1
    <3>3. s = (((N + k) % S) + d) % size
      <4>1. (N + k) % S \in 0..(S - 1) /\ arrays[a].Index[s] = Current.Index[(N + k) % S]
        BY <1>21, <2>5, <3>2
      <4> QED BY <2>4, <4>1
    <3>4. (((N + k) % S) + d) % size = ((N + k) + d) % size
      <4>1. N + k \in Int /\ d \in Int /\ S \in Nat \ {0}
        BY <1>4
      <4>2. \A x, y \in Int : ((x % S) + y) % size = (x + y) % size
        BY <2>2, <4>1, ModModAll
      <4> QED BY <4>1, <4>2
    <3>5. (N + k) + d = k + (N + d)
      BY <1>4
    <3> QED BY <3>3, <3>4, <3>5
  <2>6. N + d \in Nat
    BY <1>4
  <2>7. \E dd \in Nat : \A s \in At0(a), k \in 0..(2 * S - 1) :
           arrays[a].Index[s] = A.Index[k] => s = (k + dd) % size
    BY <2>5, <2>6
  <2>8. /\ arrays[a].Tail \in At0(a)
        /\ arrays[a].Index \in [At0(a) -> 1..(len + S)]
        /\ \A j, k \in At0(a) : arrays[a].Index[j] = arrays[a].Index[k] => j = k
    <3>1. /\ arrays[a].Tail \in At0(a)
          /\ arrays[a].Index \in [At0(a) -> 1..len]
          /\ \A j, k \in At0(a) : arrays[a].Index[j] = arrays[a].Index[k] => j = k
      BY <1>1, <1>10 DEF ArrayRight
    <3>2. 1..len \subseteq 1..(len + S)
      BY <1>4
    <3> QED BY <3>1, <3>2
  <2>9. arrays'[a] = arrays[a] /\ At0(a)' = At0(a) /\ At0(Len(arrays))' = 0..(2 * S - 1)
    BY <1>5, <1>8
  <2>10. Len(entries') = len + S /\ Current'.Size = 2 * S /\ Current'.Index = A.Index
    BY <1>4, <1>6, <1>7
  <2>11. arrays'[a].Size >= 2 /\ Current'.Size % arrays'[a].Size = 0
    BY <2>1, <2>2, <2>3, <2>9, <2>10
  <2>12. /\ arrays'[a].Tail \in At0(a)'
         /\ arrays'[a].Index \in [At0(a)' -> 1..Len(entries')]
         /\ \A j, k \in At0(a)' : arrays'[a].Index[j] = arrays'[a].Index[k] => j = k
    BY <2>8, <2>9, <2>10
  <2>13. \E dd \in Nat : \A s \in At0(a)', k \in At0(Len(arrays))' :
           arrays'[a].Index[s] = Current'.Index[k] => s = (k + dd) % arrays'[a].Size
    <3>1. PICK dd \in Nat : \A s \in At0(a), k \in 0..(2 * S - 1) :
            arrays[a].Index[s] = A.Index[k] => s = (k + dd) % size
      BY <2>7
    <3>2. \A s \in At0(a)', k \in At0(Len(arrays))' :
             arrays'[a].Index[s] = Current'.Index[k] => s = (k + dd) % arrays'[a].Size
      BY <2>1, <2>9, <2>10, <3>1
    <3> QED BY <3>2

  <2> QED BY <2>11, <2>12, <2>13 DEF ArrayRight
<1>12. \A j, k \in 0..(2 * S - 1) : A.Index[j] = A.Index[k] => j = k
  <2> SUFFICES ASSUME NEW j \in 0..(2 * S - 1), NEW k \in 0..(2 * S - 1), A.Index[j] = A.Index[k] PROVE j = k
    OBVIOUS
  <2>1. CASE j \in 0..(S - 1) /\ k \in 0..(S - 1)
    <3>1. (N + j) % S = (N + k) % S
      <4>1. \A x, y \in 0..(S - 1) : Current.Index[x] = Current.Index[y] => x = y
        BY <1>2, <1>8, <1>10 DEF ArrayRight
      <4>2. /\ (N + j) % S \in 0..(S - 1) /\ A.Index[j] = Current.Index[(N + j) % S]
            /\ (N + k) % S \in 0..(S - 1) /\ A.Index[k] = Current.Index[(N + k) % S]
        BY <1>21, <2>1
      <4> QED BY <4>1, <4>2
    <3>2. N + j \in Int /\ N + k \in Int /\ (N + j) - (N + k) < S /\ (N + k) - (N + j) < S
      BY <1>4, <2>1
    <3>3. N + j = N + k
      BY <1>4, <3>1, <3>2, ModEqual
    <3> QED BY <1>4, <3>3
  <2>2. CASE j \in S..(2 * S - 1) /\ k \in S..(2 * S - 1)
    BY <1>4, <1>23, <2>2
  <2>3. CASE j \in 0..(S - 1) /\ k \in S..(2 * S - 1)
    BY <1>4, <1>22, <1>23, <2>3
  <2>4. CASE j \in S..(2 * S - 1) /\ k \in 0..(S - 1)
    BY <1>4, <1>22, <1>23, <2>4
  <2> QED BY <1>9, <2>1, <2>2, <2>3, <2>4
<1>13. \A n : n = Len(arrays') => ArrayRight(n)'
  <2>1. /\ A.Size >= 2 /\ A.Size % A.Size = 0 /\ A.Tail \in 0..(2 * S - 1)
    <3>1. 2 * S \in Nat \ {0} /\ 2 * S >= 2 /\ S - 1 \in 0..(2 * S - 1)
      BY <1>4
    <3>2. 2 * S = 1 * (2 * S) + 0 /\ 0 \in 0..(2 * S - 1) /\ 1 \in Int /\ 2 * S \in Int
      BY <3>1
    <3>3. (2 * S) % (2 * S) = 0
      BY <3>1, <3>2, ModUnique
    <3> QED BY <1>4, <3>1, <3>3
  <2>2. \A s, k \in 0..(2 * S - 1) : A.Index[s] = A.Index[k] => s = (k + 0) % A.Size
    <3> SUFFICES ASSUME NEW s \in 0..(2 * S - 1), NEW k \in 0..(2 * S - 1), A.Index[s] = A.Index[k]
                 PROVE  s = (k + 0) % A.Size
      OBVIOUS
    <3>1. s = k /\ k + 0 = k
      BY <1>12
    <3>2. 2 * S \in Nat \ {0}
      BY <1>4
    <3>3. k % (2 * S) = k
      BY <3>2, ModSmall
    <3> QED BY <1>4, <3>1, <3>3
  <2>3. arrays'[Len(arrays')] = A
    BY <1>5
  <2>4. At0(Len(arrays))' = 0..(2 * S - 1) /\ Len(entries') = len + S
    BY <1>7, <1>8
  <2>5. \E d \in Nat : \A s \in At0(Len(arrays))', k \in At0(Len(arrays))' :
          A.Index[s] = A.Index[k] => s = (k + d) % A.Size
    BY <2>2, <2>4, 0 \in Nat
  <2>6. A.Index \in [At0(Len(arrays))' -> 1..Len(entries')]
    BY <1>20, <2>4
  <2>7. \A j, k \in At0(Len(arrays))' : A.Index[j] = A.Index[k] => j = k
    BY <1>12, <2>4
  <2>8. A.Size >= 2 /\ Current'.Size % A.Size = 0
    BY <1>6, <2>1
  <2>9. A.Tail \in At0(Len(arrays))'
    BY <2>1, <2>4
  <2>10. \E d \in Nat : \A s \in At0(Len(arrays))', k \in At0(Len(arrays))' :
          A.Index[s] = Current'.Index[k] => s = (k + d) % A.Size
    BY <1>6, <2>5
  <2>11. PICK n : n = Len(arrays')
    OBVIOUS
  <2>12. PICK d \in Nat : \A s \in At0(Len(arrays))', k \in At0(Len(arrays))' :
          A.Index[s] = Current'.Index[k] => s = (k + d) % A.Size
    BY <2>10
  <2>13. arrays'[n] = A /\ At0(n)' = At0(Len(arrays))'
    BY <2>3, <2>11 DEF At0
  <2>14. arrays'[n].Size >= 2 /\ Current'.Size % arrays'[n].Size = 0 /\ arrays'[n].Tail \in At0(n)'
    BY <2>8, <2>9, <2>13
  <2>15. arrays'[n].Index \in [At0(n)' -> 1..Len(entries')]
    BY <2>6, <2>13
  <2>16. \A j, k \in At0(n)' : arrays'[n].Index[j] = arrays'[n].Index[k] => j = k
    BY <2>7, <2>13
  <2>17. \A s \in At0(n)', k \in At0(Len(arrays))' :
           arrays'[n].Index[s] = Current'.Index[k] => s = (k + d) % arrays'[n].Size
    BY <2>12, <2>13
  <2>18. ArrayRight(n)'
    BY <2>14, <2>15, <2>16, <2>17 DEF ArrayRight
  <2> QED BY <2>11, <2>18
<1>14. ASSUME NEW e \in 1..(len + S) PROVE \E k \in 0..(2 * S - 1) : A.Index[k] = e
  <2>1. CASE e \in 1..len
    <3>1. PICK x \in 0..(S - 1) : Current.Index[x] = e
      BY <1>1, <1>8, <2>1 DEF ArraysRight
    <3>2. PICK k : k = (x - N) % S
      OBVIOUS
    <3>3. x - N \in Int /\ N \in Int /\ (x - N) + N = x
      BY <1>4
    <3>4. k \in 0..(S - 1)
      BY <1>4, <3>2, <3>3, ModType
    <3>5. (((x - N) % S) + N) % S = ((x - N) + N) % S
      BY <1>4, <3>3, ModPlus
    <3>6. x % S = x
      BY <1>4, ModSmall
    <3>7. (N + k) % S = x
      <4>1. N + k = k + N
        BY <1>4, <3>4
      <4> QED BY <3>2, <3>3, <3>5, <3>6, <4>1
    <3> QED BY <1>21, <1>22, <3>1, <3>4, <3>7
  <2>2. CASE e \notin 1..len
    <3>1. e - len + S - 1 \in S..(2 * S - 1) /\ len + (e - len + S - 1) - S + 1 = e
      BY <1>4, <2>2
    <3>2. A.Index[e - len + S - 1] = e
      BY <1>4, <1>23, <3>1
    <3> QED BY <1>4, <3>1, <3>2
  <2> QED BY <2>1, <2>2
<1>15. ArraysRight'
  <2>1. \A a \in 1..Len(arrays') : ArrayRight(a)'
    <3> SUFFICES ASSUME NEW a \in 1..Len(arrays') PROVE ArrayRight(a)'
      OBVIOUS
    <3>1. CASE a \in 1..l
      BY <1>11, <3>1
    <3>2. CASE a \notin 1..l
      <4>1. a = Len(arrays)'
        BY <1>1, <1>2, <1>5, <3>2

      <4> QED BY <1>13, <4>1
    <3> QED BY <3>1, <3>2
  <2>2. Len(arrays') >= 1
    BY <1>2, <1>5
  <2> QED BY <1>6, <1>7, <1>8, <1>14, <2>1, <2>2 DEF ArraysRight
<1> QED BY <1>1, <1>3, <1>5, <1>6, <1>7, <1>15

\* The blocks in the index keep their entries.
LEMMA GrowHomes ==
  ASSUME Types, ArraysRight, Current' = NewArray, TailNumber' = TailNumber, NEW m \in Int,
         TailNumber - Current.Size < m, m <= TailNumber
  PROVE  Home(m)' = Home(m)
<1>1. PICK S, t, len : S = Current.Size /\ t = TailNumber /\ len = Len(entries)
  OBVIOUS
<1>2. S \in Nat \ {0, 1} /\ t \in Int /\ S \in Int
  BY <1>1, Sizes
<1>3. PICK k : k = S - 1 + (m - t)
  OBVIOUS
<1>4. k \in 0..(S - 1) /\ k \in 0..(2 * S - 1) /\ 2 * S \in Nat \ {0} /\ t + 1 \in Int /\ (t + 1) + k = m + S
  <2>1. t - S < m /\ m <= t
    BY <1>1
  <2>2. k \in Int /\ k >= 0 /\ k <= S - 1
    BY <1>2, <1>3, <2>1
  <2>3. (t + 1) + k = m + S /\ t + 1 \in Int
    BY <1>2, <1>3
  <2>4. 2 * S \in Nat \ {0} /\ S - 1 <= 2 * S - 1
    BY <1>2
  <2>5. k \in 0..(S - 1) /\ k \in 0..(2 * S - 1)
    BY <1>2, <2>2, <2>4
  <2> QED BY <2>3, <2>4, <2>5
<1>5. At(m)' = k

  <2>1. NewArray.Size = 2 * S /\ NewArray.Tail = S - 1
    BY <1>1, NewArrayIs
  <2>2. At(m)' = (Current'.Tail + (m - TailNumber')) % Current'.Size
    BY DEF At
  <2>3. At(m)' = ((S - 1) + (m - t)) % (2 * S)
    BY <1>1, <2>1, <2>2
  <2>4. At(m)' = k % (2 * S)
    BY <1>3, <2>3
  <2> QED BY <1>4, <2>4, ModSmall
<1>6. NewArray.Index[k] = Current.Index[(NewTail + k) % S]
  BY <1>1, <1>4, NewArrayIs
<1>7. (NewTail + k) % S = At(m)
  <2>1. At(t + 1) = NewTail
    BY <1>1, Slotting
  <2>2. k \in Int /\ \A x, y \in Int : (At(x) + y) % Current.Size = At(x + y)
    BY <1>4, Slotting
  <2>3. (At(t + 1) + k) % S = At((t + 1) + k)
    BY <1>1, <1>4, <2>2
  <2>4. At((t + 1) + k) = At(m + S)
    BY <1>4
  <2> QED BY <1>1, <2>1, <2>3, <2>4, AtTurn
<1> QED BY <1>5, <1>6, <1>7 DEF Home

\* CreateNewBlockIndexArray.
LEMMA GrowIndexStep ==
  ASSUME SlowInv, ppc # "cleared", GrowIndex
  PROVE  SlowInv'
<1>1. /\ Types /\ ArraysRight /\ CallRight /\ ClaimsRight /\ WindowRight /\ KeysRight /\ ValuesRight
      /\ BlocksRight /\ ChainRight /\ SlotsRight /\ CountersRight /\ LookupsRight
  BY DEF SlowInv
<1>2. /\ ppc = "insert" /\ ppc' = ppc
      /\ arrays' = Append(arrays, NewArray)
      /\ entries' = entries \o [e \in 1..Current.Size |-> NewEntry]
      /\ TailIndex' = TailIndex /\ TailBlock' = TailBlock /\ Next' = Next
      /\ enq' = enq /\ Counter' = Counter /\ Slots' = Slots /\ free' = free
      /\ HeadIndex' = HeadIndex /\ pc' = pc /\ deq' = deq /\ UNCHANGED consumers
  BY DEF GrowIndex, consumers
<1>3. PICK S, t, len, l : S = Current.Size /\ t = TailNumber /\ len = Len(entries) /\ l = Len(arrays)
  OBVIOUS
<1>4. S \in Nat \ {0, 1} /\ S \in Int /\ t \in Int /\ len \in Nat /\ l \in Nat \ {0} /\ LastNumber \in Int
  BY <1>1, <1>3, Sizes
<1>5. ArraysRight' /\ arrays' \in Seq(IndexArrays) /\ Len(arrays') = l + 1
  BY <1>1, <1>2, <1>3, GrowArrays
<1>6. /\ entries' \in Seq([Key : Nat, Value : Blocks \union {NULL}])
      /\ Len(entries') = len + S /\ Current' = NewArray
  BY <1>1, <1>2, <1>3, GrowArrays
<1>7. \A a \in 1..l : arrays'[a] = arrays[a]
  BY <1>1, <1>2, <1>3, GrowArrays
<1>8. \A e \in 1..len : entries'[e] = entries[e]
  BY <1>1, <1>2, <1>3, GrowArrays
<1>9. \A e \in 1..Len(entries') : e \notin 1..len => entries'[e].Value = NULL
  <2>1. \A e \in 1..Len(entries') : e \notin 1..len => entries'[e] = NewEntry
    BY <1>1, <1>2, <1>3, GrowArrays
  <2>2. NewEntry.Value = NULL
    BY DEF NewEntry
  <2> QED BY <2>1, <2>2
<1>10. /\ LastNumber' = LastNumber /\ Live' = Live /\ New' = New /\ Numbers' = Numbers
       /\ TailNumber' = t
       /\ \A m : AllDone(m)' = AllDone(m)
       /\ \A i : Done(i)' = Done(i)
       /\ \A c \in Consumers : Unmoved(c)' = Unmoved(c)
       /\ ClaimsRight'
  <2>1. LastNumber' = LastNumber /\ Live' = Live
    BY <1>2, ProducerLive
  <2>2. New' = New /\ TailNumber' = t
    BY <1>2, <1>3, <2>1 DEF New, TailNumber
  <2> QED BY <1>1, <1>2, <2>1, <2>2, ProducerSame DEF Numbers
<1>11. \A m \in Int : t - S < m /\ m <= t => Home(m)' = Home(m)
  BY <1>1, <1>3, <1>6, <1>10, GrowHomes
<1>12. \A m \in Numbers : m \in Int /\ Home(m) \in 1..len /\ Home(m)' = Home(m)
  <2> SUFFICES ASSUME NEW m \in Numbers PROVE m \in Int /\ Home(m) \in 1..len /\ Home(m)' = Home(m)
    OBVIOUS
  <2>1. m \in Int
    BY <1>1, NumbersType
  <2>2. t - S < m /\ m <= t
    BY <1>1, <1>3 DEF WindowRight
  <2> QED BY <1>1, <1>3, <1>11, <2>1, <2>2, Slotting
<1>13. \A m \in Numbers : /\ ~Unstored(m) /\ ~Unstored(m)' /\ entries'[Home(m)'] = entries[Home(m)]
                          /\ BlockOf(m)' = BlockOf(m)
  <2>1. \A m : ~Unstored(m) /\ ~Unstored(m)'
    BY <1>2 DEF Unstored
  <2>2. \A m \in Numbers : entries'[Home(m)'] = entries[Home(m)]
    BY <1>8, <1>12
  <2> QED BY <2>1, <2>2 DEF BlockOf
<1>14. \A i : Stored(i)' = Stored(i)
  BY <1>2, <1>10 DEF Stored
<1>15. WindowRight'
  <2>1. Current'.Size = 2 * S
    BY <1>1, <1>3, <1>6, NewArrayIs
  <2>2. ASSUME NEW m \in Numbers PROVE t - 2 * S < m /\ m <= t
    <3>1. t - S < m /\ m <= t /\ m \in Int
      BY <1>1, <1>3, <1>12 DEF WindowRight
    <3> QED BY <1>4, <3>1
  <2> QED BY <1>10, <2>1, <2>2 DEF WindowRight
<1>16. KeysRight'
  <2>1. \A m \in Numbers : entries'[Home(m)'].Key = m * BlockSize
    BY <1>1, <1>13 DEF KeysRight
  <2>2. ASSUME Live # {} PROVE entries'[Home(LastNumber)'].Key = LastNumber * BlockSize
    <3>1. PICK k : k = LastNumber
      OBVIOUS
    <3>2. k \in Int /\ t - S < k /\ k <= t
      BY <1>1, <1>3, <1>4, <2>2, <3>1, LastInWindow
    <3>3. Home(k) \in 1..len /\ Home(k)' = Home(k) /\ k = LastNumber'
      BY <1>1, <1>3, <1>10, <1>11, <3>1, <3>2, Slotting
    <3>4. entries[Home(k)].Key = k * BlockSize
      BY <1>1, <2>2, <3>1 DEF KeysRight
    <3>5. entries'[Home(k)'].Key = k * BlockSize
      BY <1>8, <3>3, <3>4
    <3> QED BY <3>1, <3>3, <3>5
  <2> QED BY <1>2, <1>10, <2>1, <2>2 DEF KeysRight
<1>17. ValuesRight'
  <2>1. \A m \in Numbers : Unstored(m)' <=> entries'[Home(m)'].Value = NULL
    BY <1>1, <1>13 DEF ValuesRight
  <2>2. ASSUME NEW e \in 1..Len(entries'), entries'[e].Value # NULL PROVE \E m \in Numbers : e = Home(m)'
    <3>1. e \in 1..len /\ entries[e].Value # NULL
      BY <1>8, <1>9, <2>2
    <3>2. PICK m \in Numbers : e = Home(m)
      BY <1>1, <1>3, <3>1 DEF ValuesRight
    <3> QED BY <1>12, <3>2
  <2> QED BY <1>10, <2>1, <2>2 DEF ValuesRight
<1>18. BlocksRight'
  BY <1>1, <1>2, <1>10, <1>13 DEF BlocksRight
<1>19. ChainRight'
  <2>1. Start' = Start /\ NotYetTail' = NotYetTail
    BY <1>2 DEF Start, NotYetTail
  <2> QED BY <1>1, <1>2, <1>10, <1>13, <2>1, ChainSame
<1>20. SlotsRight'
  BY <1>1, <1>2, <1>10, <1>13, <1>14 DEF SlotsRight, Items, Inner
<1>21. CountersRight'
  BY <1>1, <1>2, <1>10, <1>13 DEF CountersRight, Items
<1>22. CallRight'
  BY <1>1, <1>2, <1>10 DEF CallRight, Num
<1>23. LookupsRight'
  <2>1. Live \subseteq Numbers
    BY <1>1, NumbersType
  <2>2. \A a \in 1..Len(arrays) : arrays'[a].Index = arrays[a].Index /\ arrays'[a].Size = arrays[a].Size
    BY <1>3, <1>7
  <2>3. \A a \in 1..Len(arrays) : \A s \in At0(a) : \A m \in Live : Leads(a, s, m) => Leads(a, s, m)'
    <3> SUFFICES ASSUME NEW a \in 1..Len(arrays), NEW s \in At0(a), NEW m \in Live, Leads(a, s, m)
                 PROVE  Leads(a, s, m)'
      OBVIOUS
    <3>1. \A e \in 1..Len(entries) : entries'[e].Key = entries[e].Key
      BY <1>3, <1>8
    <3>2. Home(m)' = Home(m)
      BY <1>12, <2>1
    <3> QED BY <1>1, <2>2, <3>1, <3>2, LeadsSame
  <2>4. ASSUME NEW a \in 1..Len(arrays), NEW m \in Live, Leads(a, arrays[a].Tail, m)
        PROVE  Leads(a, arrays[a].Tail, m)'
    <3>1. PICK s : s = arrays[a].Tail
      OBVIOUS
    <3>2. s = (arrays[a].Tail)' /\ s \in At0(a)
      BY <1>1, <1>3, <1>7, <3>1 DEF ArraysRight, ArrayRight
    <3>3. Leads(a, s, m)'
      BY <2>3, <2>4, <3>1, <3>2
    <3> QED BY <3>2, <3>3
  <2>5. 1..Len(arrays) \subseteq 1..Len(arrays')
    BY <1>3, <1>4, <1>5
  <2>6. \A m \in Live : Home(m)' = Home(m) /\ BlockOf(m)' = BlockOf(m)
    BY <1>12, <1>13, <2>1
  <2> QED BY <1>1, <1>2, <2>2, <2>3, <2>4, <2>5, <2>6, ProducerLookups
<1>24. Types'
  BY <1>1, <1>2, <1>5, <1>6 DEF Types, EnqueuePlaces
<1> QED BY <1>5, <1>10, <1>15, <1>16, <1>17, <1>18, <1>19, <1>20, <1>21, <1>22, <1>23, <1>24 DEF SlowInv

\* What RequisitionBlock does to the call, with the block b.
LEMMA RequisitionCall ==
  ASSUME Types, NEW b \in Blocks,
         enq' = [enq EXCEPT !.Need = @ - 1, !.Base = @ + BlockSize, !.Taken = @ + 1,
                             !.FirstAllocatedBlock = IF @ = NULL THEN b ELSE @],
         enq.Need >= 1
  PROVE  /\ enq' \in Enqs
         /\ enq'.op = enq.op /\ enq'.Mode = enq.Mode /\ enq'.Count = enq.Count
         /\ enq'.StartBlock = enq.StartBlock
         /\ enq'.Need = enq.Need - 1 /\ enq'.Base = enq.Base + BlockSize /\ enq'.Taken = enq.Taken + 1
         /\ enq'.FirstAllocatedBlock
              = IF enq.FirstAllocatedBlock = NULL THEN b ELSE enq.FirstAllocatedBlock
<1>1. enq \in Enqs /\ BlockSize \in Nat
  BY BlockSizeIs DEF Types
<1>2. PICK need, base, taken, first :
         /\ need = enq.Need - 1 /\ base = enq.Base + BlockSize /\ taken = enq.Taken + 1
         /\ first = IF enq.FirstAllocatedBlock = NULL THEN b ELSE enq.FirstAllocatedBlock
  OBVIOUS
<1>3. need \in Nat /\ base \in Nat /\ taken \in Nat /\ first \in Blocks \union {NULL}
  BY <1>1, <1>2 DEF Enqs
<1>4. enq' = [enq EXCEPT !.Need = need, !.Base = base, !.Taken = taken, !.FirstAllocatedBlock = first]
  BY <1>1, <1>2 DEF Enqs
<1>5. /\ enq' \in Enqs
      /\ enq'.op = enq.op /\ enq'.Mode = enq.Mode /\ enq'.Count = enq.Count
      /\ enq'.StartBlock = enq.StartBlock
      /\ enq'.Need = need /\ enq'.Base = base /\ enq'.Taken = taken /\ enq'.FirstAllocatedBlock = first
  BY <1>1, <1>3, <1>4 DEF Enqs
<1> QED BY <1>2, <1>5

\* An entry gets a new value.
LEMMA StoreValue ==
  ASSUME Types, NEW h \in 1..Len(entries), NEW v \in Blocks \union {NULL},
         entries' = [entries EXCEPT ![h].Value = v]
  PROVE  /\ entries' \in Seq([Key : Nat, Value : Blocks \union {NULL}]) /\ Len(entries') = Len(entries)
         /\ \A e \in 1..Len(entries) : /\ entries'[e].Key = entries[e].Key
                                       /\ e # h => entries'[e] = entries[e]
         /\ entries'[h].Value = v
<1> DEFINE E == [Key : Nat, Value : Blocks \union {NULL}]
<1>1. entries \in Seq(E) /\ entries[h] \in E
  BY ElementOfSeq DEF Types
<1>2. PICK r : r = [entries[h] EXCEPT !.Value = v]
  OBVIOUS
<1>3. r \in E /\ r.Value = v /\ r.Key = entries[h].Key
  BY <1>1, <1>2
<1>4. entries' = [entries EXCEPT ![h] = r]
  BY <1>2
<1> HIDE DEF E
<1>5. entries' \in Seq(E) /\ Len(entries') = Len(entries)
  BY <1>1, <1>3, <1>4
<1>6. \A e \in 1..Len(entries) : entries'[e] = IF e = h THEN r ELSE entries[e]
  BY <1>1, <1>4
<1> QED BY <1>3, <1>5, <1>6 DEF E

\* A new block, which EnqueueBulk enters into the index and Enqueue not yet.
LEMMA RequisitionBlockStep ==
  ASSUME SlowInv, ppc # "cleared", RequisitionBlock
  PROVE  SlowInv'
<1>1. /\ Types /\ ArraysRight /\ CallRight /\ ClaimsRight /\ WindowRight /\ KeysRight /\ ValuesRight
      /\ BlocksRight /\ ChainRight /\ SlotsRight /\ CountersRight /\ LookupsRight
  BY DEF SlowInv
<1>2. PICK b \in free :
       /\ free' = free \ {b}
       /\ Counter' = [Counter EXCEPT ![b] = 0]
       /\ enq' = [enq EXCEPT !.Need = @ - 1, !.Base = @ + BlockSize, !.Taken = @ + 1,
                             !.FirstAllocatedBlock = IF @ = NULL THEN b ELSE @]
       /\ IF enq.op = "bulk"
          THEN /\ entries' = [entries EXCEPT ![Current.Index[Current.Tail]].Value = b]
               /\ Next' = [d \in Blocks |->
                     IF d = b THEN NULL
                     ELSE IF d = TailBlock
                             /\ (Inner(TailIndex) # 0 \/ enq.FirstAllocatedBlock # NULL)
                     THEN b ELSE Next[d]]
               /\ TailBlock' = b
          ELSE UNCHANGED <<entries, Next, TailBlock>>
  BY DEF RequisitionBlock
<1>3. /\ ppc = "block" /\ ppc' = (IF enq.Need > 1 THEN "insert" ELSE "fill")
      /\ TailIndex' = TailIndex /\ arrays' = arrays /\ Slots' = Slots
      /\ HeadIndex' = HeadIndex /\ pc' = pc /\ deq' = deq /\ UNCHANGED consumers
  BY DEF RequisitionBlock, consumers
<1>4. /\ b \in Blocks /\ b # NULL /\ b \in free /\ free \subseteq Blocks
      /\ enq.op \in {"one", "bulk"} /\ enq.Need >= 1 /\ enq.Need \in Nat /\ enq.Taken \in Nat
  <2>1. free \subseteq Blocks /\ enq \in Enqs
    BY <1>1 DEF Types
  <2>2. NULL \notin Blocks
    BY SlowQueueAssumption DEF SlowQueueAssumption
  <2> QED BY <1>1, <1>3, <2>1, <2>2 DEF CallRight, Enqs
<1>5. /\ enq' \in Enqs
      /\ enq'.op = enq.op /\ enq'.Mode = enq.Mode /\ enq'.Count = enq.Count
      /\ enq'.StartBlock = enq.StartBlock
      /\ enq'.Need = enq.Need - 1 /\ enq'.Base = enq.Base + BlockSize /\ enq'.Taken = enq.Taken + 1
      /\ enq'.FirstAllocatedBlock
              = IF enq.FirstAllocatedBlock = NULL THEN b ELSE enq.FirstAllocatedBlock
  BY <1>1, <1>2, <1>4, RequisitionCall
<1>6. PICK t, h, last : t = TailNumber /\ h = Home(t) /\ last = LastNumber
  OBVIOUS
<1>7. /\ last \in Int /\ last >= -1 /\ t = last + enq.Taken + 1 /\ t \in Int /\ t \in Nat /\ t > last
      /\ Current.Size \in Nat \ {0} /\ h \in 1..Len(entries) /\ Current.Index[Current.Tail] = h
  <2>1. last \in Int /\ last >= -1 /\ t = last + enq.Taken + 1 /\ t \in Int /\ Current.Size \in Nat \ {0}
    BY <1>1, <1>3, <1>6, Sizes DEF TailNumber
  <2>2. t \in Nat /\ t > last
    BY <1>4, <2>1
  <2>3. At(t) = Current.Tail /\ Home(t) \in 1..Len(entries)
    BY <1>1, <1>6, <2>1, Slotting
  <2> QED BY <1>6, <2>1, <2>2, <2>3 DEF Home
\* Enqueue takes one block.
<1>8. enq.op = "one" => enq.Taken = 0 /\ enq.Need = 1 /\ ppc' = "fill" /\ t = last + 1
  <2> SUFFICES ASSUME enq.op = "one" PROVE enq.Taken = 0 /\ enq.Need = 1 /\ ppc' = "fill" /\ t = last + 1
    OBVIOUS
  <2>1. TailIndex \in Nat /\ enq.Count = 1 /\ enq.Need + enq.Taken = Num(TailIndex + enq.Count - 1) - last
    BY <1>1, <1>3, <1>6 DEF CallRight, Types
  <2>2. TailIndex + enq.Count - 1 = TailIndex
    BY <2>1
  <2>3. Num(TailIndex) - last <= 1
    <3>1. Num(TailIndex) \in Int /\ (Num(TailIndex - 1) = Num(TailIndex) - 1 \/ Num(TailIndex - 1) = Num(TailIndex))
      BY <2>1, NumBefore, NumType
    <3> QED BY <1>6, <3>1 DEF LastNumber
  <2>4. enq.Taken = 0 /\ enq.Need = 1
    BY <1>4, <2>1, <2>2, <2>3, <1>7
  <2> QED BY <1>3, <1>7, <2>4
<1>9. /\ LastNumber' = last /\ Live' = Live /\ New' = New \union {t} /\ Numbers' = Numbers \union {t}
      /\ TailNumber' = t /\ Current' = Current
      /\ \A m : AllDone(m)' = AllDone(m)
      /\ \A i : Done(i)' = Done(i)
      /\ \A c \in Consumers : Unmoved(c)' = Unmoved(c)
      /\ ClaimsRight'
  <2>1. LastNumber' = last /\ Live' = Live
    BY <1>3, <1>6, ProducerLive
  <2>2. New' = New \union {t}
    <3>1. New' = (last + 1)..(last + (enq.Taken + 1)) /\ New = (last + 1)..(last + enq.Taken)
      BY <1>5, <1>6, <2>1 DEF New
    <3> QED BY <1>4, <1>7, <3>1
  <2>3. TailNumber' = t
    <3>1. ppc' # "block"
      BY <1>3
    <3>2. TailNumber' = last + (enq.Taken + 1) + 0
      BY <1>5, <2>1, <3>1 DEF TailNumber
    <3> QED BY <1>4, <1>7, <3>2
  <2>4. Current' = Current
    BY <1>3 DEF Current
  <2> QED BY <1>1, <1>3, <2>1, <2>2, <2>3, <2>4, ProducerSame DEF Numbers
<1>10. \A m : Home(m)' = Home(m) /\ At(m)' = At(m)
  BY <1>6, <1>9 DEF Home, At
<1>11. \A m \in Numbers : m \in Int /\ Home(m) \in 1..Len(entries) /\ m <= last + enq.Taken
  <2>1. \A m \in Numbers : m \in Int /\ m <= last + enq.Taken
    <3>1. \A m \in Numbers : m \in Int
      BY <1>1, NumbersType
    <3>2. \A m \in Live : m <= last
      BY <1>1, <1>6, NumbersType
    <3>3. \A m \in New : m <= last + enq.Taken
      BY <1>6 DEF New
    <3> QED BY <1>4, <1>7, <3>1, <3>2, <3>3 DEF Numbers
  <2> QED BY <1>1, <2>1, Slotting
<1>12. \A m : ~Unstored(m)
  BY <1>3 DEF Unstored
<1>13. /\ t \notin Numbers
       /\ \A m \in Numbers : ~Unstored(m)'
       /\ Unstored(t)' <=> enq.op = "one"
  <2>1. t \notin Numbers
    BY <1>7, <1>11, <1>4
  <2>2. \A m : Unstored(m)' <=> enq.op = "one" /\ ppc' = "fill" /\ m = last + 1
    BY <1>5, <1>9 DEF Unstored
  <2>3. \A m \in Numbers : ~Unstored(m)'
    BY <1>8, <2>1, <2>2
  <2> QED BY <1>8, <2>1, <2>2, <2>3
<1>14. entries[h] = [Key |-> enq.Base, Value |-> NULL] /\ enq.Base = t * BlockSize
  <2>1. enq.Base = (last + 1 + enq.Taken) * BlockSize /\ last + 1 + enq.Taken = t
    BY <1>1, <1>3, <1>4, <1>6, <1>7 DEF CallRight
  <2> QED BY <1>1, <1>3, <1>6, <2>1 DEF KeysRight
<1>15. \A m \in Numbers : Home(m) # h /\ entries[Home(m)].Value # NULL
  BY <1>1, <1>12, <1>14 DEF ValuesRight
<1>16. /\ entries' \in Seq([Key : Nat, Value : Blocks \union {NULL}]) /\ Len(entries') = Len(entries)
       /\ \A e \in 1..Len(entries) : /\ entries'[e].Key = entries[e].Key
                                     /\ e # h => entries'[e] = entries[e]
       /\ entries'[h].Value = IF enq.op = "bulk" THEN b ELSE NULL
  <2>1. CASE enq.op = "bulk"
    <3>1. entries' = [entries EXCEPT ![h].Value = b]
      BY <1>2, <1>7, <2>1
    <3>2. b \in Blocks \union {NULL}
      BY <1>4
    <3>3. /\ entries' \in Seq([Key : Nat, Value : Blocks \union {NULL}]) /\ Len(entries') = Len(entries)
          /\ \A e \in 1..Len(entries) : /\ entries'[e].Key = entries[e].Key
                                        /\ e # h => entries'[e] = entries[e]
          /\ entries'[h].Value = b
      <4>1. Types /\ h \in 1..Len(entries)
        BY <1>1, <1>7
      <4> QED BY <3>1, <3>2, <4>1, StoreValue, Zenon

    <3> QED BY <2>1, <3>3
  <2>2. CASE enq.op # "bulk"
    <3>1. entries' = entries
      BY <1>2, <2>2
    <3> QED BY <1>1, <1>14, <2>2, <3>1 DEF Types
  <2> QED BY <2>1, <2>2
<1>17. \A m \in Numbers : /\ entries'[Home(m)] = entries[Home(m)] /\ BlockOf(m)' = BlockOf(m)
                          /\ BlockOf(m) \in Blocks \ free
  <2>1. \A m \in Numbers : entries'[Home(m)] = entries[Home(m)]
    BY <1>11, <1>15, <1>16
  <2> QED BY <1>1, <1>10, <1>12, <1>13, <2>1 DEF BlockOf, BlocksRight
<1>18. BlockOf(t)' = b
  <2>1. CASE enq.op = "bulk"
    BY <1>6, <1>10, <1>13, <1>16, <2>1 DEF BlockOf
  <2>2. CASE enq.op = "one"
    <3>1. enq.FirstAllocatedBlock = NULL
      BY <1>1, <1>8, <2>2 DEF ChainRight
    <3> QED BY <1>5, <1>13, <2>2, <3>1 DEF BlockOf
  <2> QED BY <1>4, <2>1, <2>2
<1>19. \A i : Stored(i)' = Stored(i)
  BY <1>3, <1>9 DEF Stored
<1>20. ArraysRight'
  BY <1>1, <1>3, <1>16, ArraysStay
<1>21. WindowRight'
  <2>1. t - Current.Size < t /\ t <= t
    BY <1>7
  <2> QED BY <1>1, <1>6, <1>9, <2>1 DEF WindowRight
<1>22. KeysRight'
  <2>1. \A m \in Numbers' : entries'[Home(m)'].Key = m * BlockSize
    BY <1>1, <1>6, <1>7, <1>9, <1>10, <1>14, <1>16, <1>17 DEF KeysRight
  <2>2. Live # {} => entries'[Home(last)].Key = last * BlockSize
    <3>1. Home(last) \in 1..Len(entries)
      BY <1>1, <1>7, Slotting
    <3> QED BY <1>1, <1>6, <1>16, <3>1 DEF KeysRight
  <2>3. Home(LastNumber)' = Home(last)
    BY <1>9, <1>10
  <2>4. ppc' # "tail" /\ ppc' # "block"
    BY <1>3
  <2> QED BY <1>9, <2>1, <2>2, <2>3, <2>4 DEF KeysRight
<1>23. ValuesRight'
  <2>1. \A m \in Numbers' : Unstored(m)' <=> entries'[Home(m)'].Value = NULL
    BY <1>4, <1>6, <1>9, <1>10, <1>13, <1>15, <1>16, <1>17
  <2>2. ASSUME NEW e \in 1..Len(entries'), entries'[e].Value # NULL PROVE \E m \in Numbers' : e = Home(m)'
    <3>1. CASE e = h
      BY <1>6, <1>9, <1>10, <3>1
    <3>2. CASE e # h
      <4>1. entries[e].Value # NULL /\ e \in 1..Len(entries)
        BY <1>16, <2>2, <3>2
      <4> QED BY <1>1, <1>9, <1>10, <4>1 DEF ValuesRight
    <3> QED BY <3>1, <3>2
  <2> QED BY <2>1, <2>2 DEF ValuesRight
<1>24. BlocksRight'
  <2>1. \A m \in Numbers' : BlockOf(m)' \in Blocks \ free'
    BY <1>2, <1>4, <1>9, <1>17, <1>18
  <2>2. \A m, n \in Numbers' : BlockOf(m)' = BlockOf(n)' => m = n
    BY <1>1, <1>4, <1>9, <1>17, <1>18 DEF BlocksRight
  <2>3. ASSUME NEW c \in Consumers, pc'[c] = "return"
        PROVE  /\ deq'[c].Block \in Blocks \ free'
               /\ \A m \in Numbers' : BlockOf(m)' # deq'[c].Block
               /\ \A d \in Consumers \ {c} : pc'[d] = "return" => deq'[c].Block # deq'[d].Block
    <3>1. /\ deq[c].Block \in Blocks \ free
          /\ \A m \in Numbers : BlockOf(m) # deq[c].Block
          /\ \A d \in Consumers \ {c} : pc[d] = "return" => deq[c].Block # deq[d].Block
      BY <1>1, <1>3, <2>3 DEF BlocksRight
    <3>2. \A m \in Numbers' : BlockOf(m)' # deq[c].Block
      BY <1>4, <1>9, <1>17, <1>18, <3>1
    <3> QED BY <1>2, <1>3, <3>1, <3>2
  <2>4. ASSUME NEW d \in Blocks \ free'
        PROVE  \/ \E m \in Numbers' : BlockOf(m)' = d
               \/ \E c \in Consumers : pc'[c] = "return" /\ deq'[c].Block = d
    <3>1. CASE d = b
      BY <1>9, <1>18, <3>1
    <3>2. CASE d # b
      BY <1>1, <1>2, <1>3, <1>9, <1>17, <3>2 DEF BlocksRight
    <3> QED BY <3>1, <3>2
  <2> QED BY <2>1, <2>2, <2>3, <2>4 DEF BlocksRight
<1>25. ChainRight'
  <2>1. Start' = Start
    BY <1>3, <1>5 DEF Start
  <2>2. IF TailIndex' = 0 THEN Start' = NULL ELSE Start' \in Blocks
    BY <1>1, <1>3, <2>1 DEF ChainRight
  <2>3. last \in Live => Start = BlockOf(last)' /\ last \in Numbers
    BY <1>1, <1>6, <1>17 DEF ChainRight, Numbers
  <2>4. enq.Taken > 0 => last + 1 \in Numbers /\ last + enq.Taken \in Numbers
    BY SMTT(60), <1>4, <1>6, <1>7 DEF Numbers, New
  <2>5. /\ enq'.Taken > 0 /\ enq'.FirstAllocatedBlock = BlockOf(last + 1)'
        /\ enq.Taken > 0 => enq.FirstAllocatedBlock # NULL
    <3>1. CASE enq.Taken = 0
      <4>1. enq.FirstAllocatedBlock = NULL /\ t = last + 1
        BY <1>1, <1>7, <3>1 DEF ChainRight
      <4> QED BY <1>5, <1>18, <3>1, <4>1
    <3>2. CASE enq.Taken > 0
      <4>1. enq.FirstAllocatedBlock = BlockOf(last + 1) /\ BlockOf(last + 1)' = BlockOf(last + 1)
            /\ BlockOf(last + 1) # NULL
        <5>1. NULL \notin Blocks
          BY SlowQueueAssumption DEF SlowQueueAssumption
        <5> QED BY <1>1, <1>6, <1>17, <2>4, <3>2, <5>1 DEF ChainRight
      <4> QED BY <1>4, <1>5, <3>2, <4>1
    <3> QED BY <1>4, <3>1, <3>2
  <2>6. TailBlock = IF enq.Taken > 0 THEN BlockOf(last + enq.Taken) ELSE Start
    BY <1>1, <1>3, <1>6 DEF ChainRight, NotYetTail
  <2>7. TailBlock' = IF enq'.Taken > 0 /\ ~NotYetTail' THEN BlockOf(last + enq.Taken)' ELSE Start'
    <3>1. CASE enq.op = "bulk"
      <4>1. TailBlock' = b /\ ~NotYetTail' /\ last + (enq.Taken + 1) = t
        BY <1>2, <1>4, <1>5, <1>7, <3>1 DEF NotYetTail
      <4>2. PICK k : k = last + (enq.Taken + 1)
        OBVIOUS
      <4>3. k = last + enq'.Taken
        BY <1>5, <4>2
      <4>4. BlockOf(k)' = b
        BY <1>18, <4>1, <4>2
      <4>5. BlockOf(last + enq.Taken)' = b
        BY <4>3, <4>4
      <4> QED BY <2>5, <4>1, <4>5
    <3>2. CASE enq.op = "one"
      <4>1. TailBlock' = TailBlock /\ NotYetTail'
        BY <1>2, <1>5, <1>8, <3>2 DEF NotYetTail
      <4> QED BY <1>8, <2>1, <2>6, <3>2, <4>1
    <3> QED BY <1>4, <3>1, <3>2
  <2>8. ASSUME enq.op = "bulk", NEW m \in (last + 1)..(last + enq.Taken)
        PROVE  Next'[BlockOf(m)'] = BlockOf(m + 1)'
    <3>1. m \in Numbers /\ enq.Taken > 0 /\ m \in Int /\ m <= last + enq.Taken
      BY <1>4, <1>6, <1>7, <2>8 DEF Numbers, New
    <3>2. BlockOf(m)' = BlockOf(m) /\ BlockOf(m) \in Blocks /\ BlockOf(m) # b
      BY <1>4, <1>17, <3>1
    <3>3. CASE m = last + enq.Taken
      <4>1. BlockOf(m) = TailBlock
        BY <2>6, <3>1, <3>3
      <4>2. Next'[BlockOf(m)] = b
        BY <1>2, <2>5, <2>8, <3>1, <3>2, <4>1
      <4>3. m + 1 = t
        BY <1>4, <1>7, <3>3
      <4> QED BY <1>18, <3>2, <4>2, <4>3
    <3>4. CASE m # last + enq.Taken
      <4>1. BlockOf(m) # TailBlock
        BY <1>1, <2>4, <2>6, <3>1, <3>4 DEF BlocksRight
      <4>2. Next'[BlockOf(m)] = Next[BlockOf(m)]
        BY <1>2, <2>8, <3>2, <4>1
      <4>3. m \in (last + 1)..(last + enq.Taken - 1) /\ m + 1 \in (last + 1)..(last + enq.Taken)
        <5>1. PICK taken : taken = enq.Taken
          OBVIOUS
        <5>2. taken \in Nat /\ last \in Int /\ m \in Int /\ m >= last + 1 /\ m <= last + taken /\ m # last + taken
          BY <1>4, <1>7, <2>8, <3>4, <5>1
        <5>3. m \in (last + 1)..(last + taken - 1) /\ m + 1 \in (last + 1)..(last + taken)
          BY <5>2
        <5> QED BY <5>1, <5>3
      <4>4. Next[BlockOf(m)] = BlockOf(m + 1)
        BY <1>1, <1>6, <2>8, <3>1, <4>3 DEF ChainRight
      <4>5. m + 1 \in Numbers
        BY <1>6, <4>3 DEF Numbers, New
      <4>6. BlockOf(m + 1)' = BlockOf(m + 1)
        BY <1>17, <4>5
      <4> QED BY <3>2, <4>2, <4>4, <4>6
    <3> QED BY <3>3, <3>4
  <2>9. ASSUME enq.op = "bulk", Inner(TailIndex) # 0
        PROVE  Next'[BlockOf(last)'] = BlockOf(last + 1)'
    <3>1. last \in Live /\ last \in Numbers
      BY <1>1, <1>6, <2>9, LastLive DEF Numbers
    <3>2. BlockOf(last)' = BlockOf(last) /\ BlockOf(last) \in Blocks /\ BlockOf(last) # b
      BY <1>4, <1>17, <3>1
    <3>3. CASE enq.Taken = 0
      <4>1. BlockOf(last) = TailBlock
        BY <2>3, <2>6, <3>1, <3>2, <3>3
      <4>2. Next'[BlockOf(last)] = b
        BY <1>2, <2>9, <3>2, <4>1
      <4>3. last + 1 = t
        BY <1>7, <3>3
      <4> QED BY <1>18, <3>2, <4>2, <4>3
    <3>4. CASE enq.Taken > 0
      <4>1. BlockOf(last) # TailBlock
        <5>1. last # last + enq.Taken
          BY <1>4, <1>7, <3>4
        <5> QED BY <1>1, <2>4, <2>6, <3>1, <3>4, <5>1 DEF BlocksRight
      <4>2. Next'[BlockOf(last)] = Next[BlockOf(last)]
        BY <1>2, <2>9, <3>2, <4>1
      <4>3. Next[BlockOf(last)] = BlockOf(last + 1)
        BY <1>1, <1>6, <2>9, <3>4 DEF ChainRight
      <4>4. BlockOf(last + 1)' = BlockOf(last + 1)
        BY <1>17, <2>4, <3>4
      <4> QED BY <3>2, <4>2, <4>3, <4>4
    <3> QED BY <1>4, <3>3, <3>4
  <2>10. PICK first, second, taken : first = last /\ second = last + 1 /\ taken = enq.Taken + 1
    OBVIOUS
  <2>11. enq'.FirstAllocatedBlock = IF enq'.Taken = 0 THEN NULL ELSE BlockOf(LastNumber + 1)'
    BY <1>9, <2>5
  <2>12. TailBlock' = IF enq'.Taken > 0 /\ ~NotYetTail' THEN BlockOf(LastNumber + enq.Taken)' ELSE Start'
    <3>1. PICK k : k = last + enq'.Taken
      OBVIOUS
    <3>2. k = LastNumber' + enq'.Taken
      BY <1>9, <3>1
    <3>3. BlockOf(k)' = BlockOf(last + enq.Taken)'
      BY <3>1
    <3>4. BlockOf(k)' = BlockOf(LastNumber + enq.Taken)'
      BY <3>2
    <3> QED BY <2>7, <3>3, <3>4
  <2>13. LastNumber' \in Live' => Start' = BlockOf(LastNumber)'
    BY <1>9, <2>1, <2>3
  <2>14. (last + 1)..(last + enq'.Taken - 1) = (last + 1)..(last + enq.Taken)
    BY <1>4, <1>5, <1>7
  <2>15. enq'.op = "bulk" /\ enq'.Taken > 0 =>
           \A m \in (LastNumber' + 1)..(LastNumber' + enq'.Taken - 1) : Next'[BlockOf(m)'] = BlockOf(m + 1)'
    BY <1>5, <1>9, <2>8, <2>14
  <2>16. enq'.op = "bulk" /\ enq'.Taken > 0 =>
           (Inner(TailIndex)' # 0 => Next'[BlockOf(LastNumber)'] = BlockOf(LastNumber + 1)')
    <3>1. Inner(TailIndex)' = Inner(TailIndex)
      BY <1>3 DEF Inner
    <3> QED BY <1>5, <1>9, <2>9, <3>1
  <2> QED BY <2>2, <2>11, <2>12, <2>13, <2>15, <2>16 DEF ChainRight
<1>26. SlotsRight'
  <2>1. ASSUME NEW d \in Blocks, \A m \in Numbers' : d # BlockOf(m)', NEW j \in Places
        PROVE  Slots'[d][j] = Raw
    <3>1. \A m \in Numbers : d # BlockOf(m)
      BY <1>9, <1>17, <2>1
    <3> QED BY <1>1, <1>3, <3>1 DEF SlotsRight
  <2>2. ASSUME NEW m \in Numbers', NEW i \in Items(m)'
        PROVE  Slots'[BlockOf(m)'][Inner(i)'] = IF Stored(i)' THEN i ELSE Raw
    <3>1. Items(m)' = Items(m) /\ Inner(i)' = Inner(i)
      BY DEF Items, Inner
    <3>2. CASE m = t
      <4>1. i \in Int /\ i >= TailIndex
        BY <1>1, <1>6, <1>7, <2>2, <3>1, <3>2, LaterItems
      <4>2. ~Stored(i)'
        BY <1>1, <1>3, <4>1 DEF Stored, Types
      <4>3. Inner(i) \in Places
        BY <4>1, NumType
      <4>4. \A n \in Numbers : b # BlockOf(n)
        BY <1>4, <1>17
      <4>5. Slots[b][Inner(i)] = Raw
        BY <1>1, <1>4, <4>3, <4>4 DEF SlotsRight
      <4> QED BY <1>3, <1>18, <3>1, <3>2, <4>2, <4>5
    <3>3. CASE m # t
      <4>1. m \in Numbers
        BY <1>9, <2>2, <3>3
      <4> QED BY <1>1, <1>3, <1>17, <1>19, <2>2, <3>1, <4>1 DEF SlotsRight
    <3> QED BY <3>2, <3>3
  <2> QED BY <2>1, <2>2 DEF SlotsRight
<1>27. CountersRight'
  <2>1. ASSUME NEW m \in Numbers' PROVE Counter'[BlockOf(m)'] = Cardinality({i \in Items(m) : Done(i)'})
    <3>1. CASE m = t
      <4>1. \A i \in Items(m) : ~Done(i)'
        BY <1>1, <1>6, <1>7, <1>9, <3>1, LaterItems
      <4>2. {i \in Items(m) : Done(i)'} = {}
        BY <4>1
      <4>3. Counter'[b] = 0
        BY <1>1, <1>2, <1>4 DEF Types
      <4> QED BY <1>18, <3>1, <4>2, <4>3, FS_EmptySet
    <3>2. CASE m # t
      <4>1. m \in Numbers
        BY <1>9, <2>1, <3>2
      <4>2. BlockOf(m)' = BlockOf(m) /\ BlockOf(m) # b /\ BlockOf(m) \in Blocks
        BY <1>4, <1>17, <4>1
      <4>3. Counter'[BlockOf(m)] = Counter[BlockOf(m)]
        BY <1>1, <1>2, <4>2 DEF Types
      <4>4. {i \in Items(m) : Done(i)'} = {i \in Items(m) : Done(i)}
        BY <1>9
      <4> QED BY <1>1, <4>1, <4>2, <4>3, <4>4 DEF CountersRight
    <3> QED BY <3>1, <3>2
  <2> QED BY <2>1 DEF CountersRight, Items
<1>28. CallRight'
  <2>1. enq'.Need + enq'.Taken = enq.Need + enq.Taken
    BY <1>4, <1>5
  <2>2. enq'.Base = (last + 1 + enq'.Taken) * BlockSize
    <3>1. enq.Base = t * BlockSize /\ enq'.Base = enq.Base + BlockSize /\ last + 1 + enq'.Taken = t + 1
      <4>1. last + 1 + (enq.Taken + 1) = t + 1
        BY SMTT(60), <1>4, <1>7
      <4> QED BY <1>5, <1>14, <4>1

    <3>2. (t + 1) * BlockSize = t * BlockSize + 1 * BlockSize /\ 1 * BlockSize = BlockSize
      BY <1>7, BlockSizeIs, Distribute
    <3> QED BY <3>1, <3>2
  <2>3. IF ppc' \in {"fill", "publish"} THEN enq'.Need = 0 ELSE enq'.Need >= 1
    BY <1>3, <1>4, <1>5
  <2>4. ppc' # "idle"
    BY <1>3
  <2>5. /\ enq.op \in {"one", "bulk"} /\ enq.Count >= 1 /\ TailIndex + enq.Count <= MaxTail
        /\ enq.op = "one" => enq.Count = 1
        /\ enq.Need + enq.Taken = Num(TailIndex + enq.Count - 1) - LastNumber
    BY <1>1, <1>3 DEF CallRight
  <2>6. Num(TailIndex + enq.Count - 1)' = Num(TailIndex + enq.Count - 1)
    BY <1>3, <1>5 DEF Num
  <2> QED BY <1>3, <1>5, <1>6, <1>9, <2>1, <2>2, <2>3, <2>4, <2>5, <2>6 DEF CallRight
<1>29. LookupsRight'
  <2>1. Live \subseteq Numbers
    BY <1>1, NumbersType
  <2>2. \A a \in 1..Len(arrays) : \A s \in At0(a) : \A m \in Live : Leads(a, s, m) => Leads(a, s, m)'
    BY <1>1, <1>3, <1>10, <1>16, KeysLead
  <2>3. ASSUME NEW a \in 1..Len(arrays), NEW m \in Live, Leads(a, arrays[a].Tail, m)
        PROVE  Leads(a, arrays[a].Tail, m)'
    <3>1. PICK s : s = arrays[a].Tail
      OBVIOUS
    <3>2. s = (arrays[a].Tail)' /\ s \in At0(a)
      BY <1>1, <1>3, <3>1 DEF ArraysRight, ArrayRight
    <3>3. Leads(a, s, m)'
      BY <2>2, <2>3, <3>1, <3>2
    <3> QED BY <3>2, <3>3
  <2> QED BY <1>1, <1>3, <1>10, <1>17, <2>1, <2>2, <2>3, ProducerLookups
<1>30. Types'
  <2>1. TailBlock' \in Blocks \union {NULL}
    BY <1>1, <1>2, <1>4 DEF Types
  <2>2. Next' \in [Blocks -> Blocks \union {NULL}]
    BY <1>1, <1>2, <1>4 DEF Types
  <2>3. Counter' \in [Blocks -> 0..BlockSize]
    <3>1. 0 \in 0..BlockSize
      BY BlockSizeIs
    <3> QED BY <1>1, <1>2, <1>4, <3>1 DEF Types
  <2>4. free' \subseteq Blocks /\ ppc' \in EnqueuePlaces
    BY <1>2, <1>3, <1>4 DEF EnqueuePlaces
  <2> QED BY <1>1, <1>3, <1>5, <1>16, <2>1, <2>2, <2>3, <2>4 DEF Types
<1> QED BY <1>9, <1>20, <1>21, <1>22, <1>23, <1>24, <1>25, <1>26, <1>27, <1>28, <1>29, <1>30 DEF SlowInv

\* The producer's locals between calls.
LEMMA NoEnqIs ==
  NoEnq \in Enqs /\ NoEnq.Taken = 0 /\ NoEnq.op = "none" /\ NoEnq.FirstAllocatedBlock = NULL
BY DEF NoEnq, Enqs, Kinds

\* Only the first block may throw: the queue has had no item then.
LEMMA RequisitionThrowsStep ==
  ASSUME SlowInv, ppc # "cleared", RequisitionThrows, "block" \notin Failures
  PROVE  SlowInv'
<1>1. /\ Types /\ ArraysRight /\ CallRight /\ ClaimsRight /\ WindowRight /\ KeysRight /\ ValuesRight
      /\ BlocksRight /\ ChainRight /\ SlotsRight /\ CountersRight /\ LookupsRight
  BY DEF SlowInv
<1>2. /\ ppc = "block" /\ TailBlock = NULL /\ ppc' = "idle" /\ enq' = NoEnq
      /\ TailIndex' = TailIndex /\ TailBlock' = TailBlock /\ arrays' = arrays /\ Next' = Next
      /\ entries' = entries /\ Counter' = Counter /\ Slots' = Slots /\ free' = free
      /\ HeadIndex' = HeadIndex /\ pc' = pc /\ deq' = deq /\ UNCHANGED consumers
  BY DEF RequisitionThrows, Fail, consumers, shared
<1>3. enq.Taken \in Nat /\ LastNumber \in Int
  BY <1>1, Sizes
<1>4. enq.Taken = 0 /\ TailIndex = 0
  <2>1. NULL \notin Blocks
    BY SlowQueueAssumption DEF SlowQueueAssumption
  <2>2. TailBlock = IF enq.Taken > 0 THEN BlockOf(LastNumber + enq.Taken) ELSE Start
    BY <1>1, <1>2 DEF ChainRight, NotYetTail
  <2>3. ASSUME enq.Taken > 0 PROVE FALSE
    <3>1. LastNumber + enq.Taken \in Numbers
      BY <1>3, <2>3 DEF Numbers, New
    <3> QED BY <1>1, <1>2, <2>1, <2>2, <2>3, <3>1 DEF BlocksRight
  <2>4. Start = NULL /\ ~(enq.Taken > 0)
    BY <1>2, <2>2, <2>3
  <2> QED BY <1>1, <1>3, <2>1, <2>4 DEF ChainRight
<1>5. LastNumber = -1 /\ LastNumber' = -1
  <2>1. 0 - 1 = -1 /\ Num(-1) = -1
    BY BlockSizeIs DEF Num
  <2> QED BY <1>2, <1>4, <2>1 DEF LastNumber, Num
<1>6. Numbers = {} /\ Live = {} /\ Live' = {} /\ Numbers' = {} /\ New' = {}
  <2>1. 0..(-1) = {}
    OBVIOUS
  <2>2. Live = {} /\ Live' = {}
    BY <1>5, <2>1 DEF Live
  <2>3. New = {}
    <3>1. (-1 + 1)..(-1 + 0) = {}
      OBVIOUS
    <3> QED BY <1>4, <1>5, <3>1 DEF New
  <2>4. New' = {}
    <3>1. (-1 + 1)..(-1 + 0) = {}
      OBVIOUS
    <3> QED BY <1>2, <1>5, <3>1, NoEnqIs DEF New
  <2> QED BY <2>2, <2>3, <2>4 DEF Numbers
<1>7. \A c \in Consumers : pc[c] = "idle"
  <2> SUFFICES ASSUME NEW c \in Consumers, pc[c] # "idle" PROVE FALSE
    OBVIOUS
  <2>1. From(c) \in Pending(c) /\ From(c) \in Nat /\ From(c) < TailIndex
    BY <1>1, PendingTypes
  <2> QED BY <1>4, <2>1
<1>8. ArraysRight' /\ WindowRight'
  <2>1. ArraysRight'
    BY <1>1, <1>2, ArraysStay
  <2> QED BY <1>1, <1>6, <2>1 DEF WindowRight
<1>9. ClaimsRight'
  BY <1>1, <1>2, ProducerSame
<1>10. KeysRight' /\ ValuesRight'
  BY <1>1, <1>2, <1>6 DEF KeysRight, ValuesRight
<1>11. BlocksRight'
  BY <1>1, <1>2, <1>6, <1>7 DEF BlocksRight
<1>12. ChainRight'
  <2>1. Start' = NULL /\ TailBlock' = NULL
    BY <1>2 DEF Start
  <2>2. enq'.Taken = 0 /\ enq'.FirstAllocatedBlock = NULL /\ enq'.op = "none"
    BY <1>2, NoEnqIs
  <2> QED BY <1>2, <1>4, <1>6, <2>1, <2>2 DEF ChainRight
<1>13. SlotsRight' /\ CountersRight'
  BY <1>1, <1>2, <1>6 DEF SlotsRight, CountersRight
<1>14. CallRight'
  BY <1>2 DEF CallRight, NoEnq
<1>15. LookupsRight'
  <2>1. \A c \in Consumers : Uncounted(c)' = {} /\ pc'[c] = "idle"
    BY <1>1, <1>2, <1>7, PendingTypes, ProducerSame
  <2> QED BY <2>1 DEF LookupsRight, LookupRight
<1>16. Types'
  BY <1>1, <1>2, NoEnqIs DEF Types, EnqueuePlaces
<1> QED BY <1>8, <1>9, <1>10, <1>11, <1>12, <1>13, <1>14, <1>15, <1>16 DEF SlowInv

\* Enqueue takes at most one block.
LEMMA OneBlock ==
  ASSUME Types, CallRight, enq.op = "one"
  PROVE  enq.Taken \in {0, 1} /\ enq.Count = 1 /\ enq.Need + enq.Taken <= 1
<1>1. ppc # "idle"
  BY DEF CallRight, NoEnq
<1>2. TailIndex \in Nat /\ enq.Count = 1 /\ enq.Need \in Nat /\ enq.Taken \in Nat
  BY <1>1 DEF CallRight, Types, Enqs
<1>3. enq.Need + enq.Taken = Num(TailIndex + enq.Count - 1) - LastNumber
  BY <1>1 DEF CallRight
<1>4. TailIndex + enq.Count - 1 = TailIndex
  BY <1>2
<1>5. Num(TailIndex) - LastNumber <= 1
  <2>1. Num(TailIndex) \in Int /\ (Num(TailIndex - 1) = Num(TailIndex) - 1 \/ Num(TailIndex - 1) = Num(TailIndex))
    BY <1>2, NumBefore, NumType
  <2> QED BY <2>1 DEF LastNumber
<1>6. enq.Need + enq.Taken <= 1
  BY <1>3, <1>4, <1>5
<1> QED BY <1>2, <1>6

\* The search from the entry of block n for the entry of an item of block m.
LEMMA EntryFor ==
  ASSUME Types, ArraysRight, NEW n \in Int, NEW i \in Int, NEW tail,
         tail = At(n), entries[Home(n)].Key = n * BlockSize
  PROVE  EntryForIndex(tail, i) = Home(Num(i))
<1>1. Current.Index[tail] = Home(n)
  BY DEF Home
<1>2. Num(i) \in Int /\ At(n) \in Int
  <2>1. At(n) \in 0..(Current.Size - 1) /\ Current.Size \in Nat
    BY Slotting, Sizes
  <2> QED BY <2>1, NumType
<1>3. ((i - Inner(i)) - n * BlockSize) \div BlockSize = Num(i) - n
  BY NumDistance
<1>4. IndexIndex(Current, tail, entries[Current.Index[tail]].Key, i) = (At(n) + (Num(i) - n)) % Current.Size
  BY <1>1, <1>3 DEF IndexIndex
<1>5. (At(n) + (Num(i) - n)) % Current.Size = At(Num(i))
  <2>1. Num(i) - n \in Int /\ n + (Num(i) - n) = Num(i)
    BY <1>2
  <2>2. \A x, y \in Int : (At(x) + y) % Current.Size = At(x + y)
    BY Slotting
  <2>3. (At(n) + (Num(i) - n)) % Current.Size = At(n + (Num(i) - n))
    BY <2>1, <2>2
  <2> QED BY <2>1, <2>3
<1> QED BY <1>4, <1>5 DEF EntryForIndex, Home

\* The slots the rewound Tail comes to.
LEMMA TailBeforeIs ==
  ASSUME Types, ArraysRight, NEW n \in Int
  PROVE  TailBefore(n) = At(TailNumber - n) /\ Current.Index[TailBefore(n)] = Home(TailNumber - n)
<1>1. TailNumber \in Int /\ Current.Tail \in Int
  <2>1. Current.Tail \in 0..(Current.Size - 1) /\ Current.Size \in Nat /\ TailNumber \in Int
    BY Sizes
  <2> QED BY <2>1
<1>2. Current.Tail + ((TailNumber - n) - TailNumber) = Current.Tail - n
  BY <1>1
<1>3. TailBefore(n) = At(TailNumber - n)
  BY <1>2 DEF TailBefore, At
<1> QED BY <1>3 DEF Home

\* The entries a call that fails has inserted.
LEMMA NewEntriesAre ==
  ASSUME Types, ArraysRight, KeysRight, NEW extra \in {0, 1}, TailNumber = LastNumber + enq.Taken + extra
  PROVE  NewEntries(extra) = {Home(m) : m \in New} \union (IF extra = 1 THEN {Home(TailNumber)} ELSE {})
<1>1. PICK t, last, taken : t = TailNumber /\ last = LastNumber /\ taken = enq.Taken
  OBVIOUS
<1>2. t \in Int /\ last \in Int /\ taken \in Nat /\ t = last + taken + extra
  BY <1>1, Sizes
<1>3. ASSUME NEW n \in 0..(taken - 1)
      PROVE  EntryForIndex(TailBefore(extra + n), ((TailIndex - 1) \div BlockSize + 1 + n) * BlockSize)
               = Home(last + 1 + n)
  <2>1. PICK k : k = last + taken - n
    OBVIOUS
  <2>2. k \in Int /\ t - (extra + n) = k /\ extra + n \in Int /\ k \in (last + 1)..(last + taken)
    BY <1>2, <2>1
  <2>3. TailBefore(extra + n) = At(k)
    BY <1>1, <2>2, TailBeforeIs
  <2>4. entries[Home(k)].Key = k * BlockSize
    BY <1>1, <2>2 DEF KeysRight, Numbers, New
  <2>5. PICK i : i = ((TailIndex - 1) \div BlockSize + 1 + n) * BlockSize
    OBVIOUS
  <2>6. i = (last + 1 + n) * BlockSize
    BY <1>1, <2>5 DEF LastNumber, Num
  <2>7. last + 1 + n \in Int /\ 0 \in Places /\ BlockSize \in Int
    BY <1>2, BlockSizeIs DEF Places
  <2>8. i \in Int /\ i = (last + 1 + n) * BlockSize + 0
    BY <2>6, <2>7
  <2>9. Num(i) = last + 1 + n
    BY <2>7, <2>8, NumUnique
  <2>10. EntryForIndex(At(k), i) = Home(Num(i))
    BY <2>2, <2>4, <2>8, EntryFor
  <2> QED BY <2>3, <2>5, <2>9, <2>10
<1>4. {EntryForIndex(TailBefore(extra + n),
                 ((TailIndex - 1) \div BlockSize + 1 + n) * BlockSize) : n \in 0..(taken - 1)}
        = {Home(m) : m \in New}
  <2>1. New = (last + 1)..(last + taken)
    BY <1>1 DEF New
  <2>2. \A n \in 0..(taken - 1) : last + 1 + n \in New
    BY <1>2, <2>1
  <2>3. \A m \in New : m - last - 1 \in 0..(taken - 1) /\ last + 1 + (m - last - 1) = m
    BY <1>2, <2>1
  <2>4. \A m \in New : \E n \in 0..(taken - 1) : last + 1 + n = m
    BY <2>3
  <2> QED BY <1>3, <2>2, <2>4
<1>5. {Current.Index[TailBefore(n)] : n \in 0..(extra - 1)} = IF extra = 1 THEN {Home(t)} ELSE {}
  <2>1. CASE extra = 0
    <3>1. 0..(extra - 1) = {}
      BY <2>1
    <3> QED BY <2>1, <3>1
  <2>2. CASE extra = 1
    <3>1. 0..(extra - 1) = {0}
      BY <2>2
    <3>2. 0 \in Int /\ t - 0 = t
      BY <1>2
    <3>3. Current.Index[TailBefore(0)] = Home(t)
      BY <1>1, <3>2, TailBeforeIs
    <3> QED BY <2>2, <3>1, <3>3
  <2> QED BY <2>1, <2>2
<1> QED BY <1>1, <1>4, <1>5 DEF NewEntries

\* The blocks of the running call, along Next.
LEMMA FirstHop ==
  ASSUME Types, ArraysRight, CallRight, ChainRight, NEW h \in 0..(enq.Taken - 1)
  PROVE  Hop(enq.FirstAllocatedBlock, h) = BlockOf(LastNumber + 1 + h)
<1>1. PICK last, taken : last = LastNumber /\ taken = enq.Taken
  OBVIOUS
<1>2. last \in Int /\ taken \in Nat /\ h \in Nat /\ h <= taken - 1 /\ taken # 0
  BY <1>1, Sizes
<1>3. PICK p : p = [k \in 0..h |-> BlockOf(last + 1 + k)]
  OBVIOUS
<1>4. p = [k \in 0..h |-> p[k]] /\ \A k \in 0..h : p[k] = BlockOf(last + 1 + k)
  BY <1>3
<1>5. p[0] = enq.FirstAllocatedBlock
  <2>1. 0 \in 0..h /\ last + 1 + 0 = last + 1
    BY <1>2
  <2> QED BY <1>1, <1>2, <1>4, <2>1 DEF ChainRight
<1>6. ASSUME NEW k \in 1..h PROVE p[k] = Next[p[k - 1]]
  <2>1. k \in 0..h /\ k - 1 \in 0..h /\ last + 1 + (k - 1) = last + k /\ last + 1 + k = (last + k) + 1
        /\ last + k \in (last + 1)..(last + taken - 1) /\ taken > 0 /\ taken > 1
    BY <1>2
  <2>2. enq.op = "bulk"
    <3>1. enq.op # "one"
      BY <1>1, <2>1, OneBlock
    <3>2. ppc # "idle"
      BY <1>1, <1>2, NoEnqIs DEF CallRight
    <3> QED BY <3>1, <3>2 DEF CallRight
  <2>3. Next[BlockOf(last + k)] = BlockOf((last + k) + 1)
    BY <1>1, <2>1, <2>2 DEF ChainRight
  <2> QED BY <1>4, <2>1, <2>3
<1>7. Hop(enq.FirstAllocatedBlock, h) = p[h]
  BY ZenonT(60), <1>2, <1>4, <1>5, <1>6, HopPath
<1>8. h \in 0..h
  BY <1>2
<1> QED BY <1>1, <1>4, <1>7, <1>8

\* The blocks that a call which fails gives back are those it has taken.
LEMMA NewBlocksAre ==
  ASSUME Types, ArraysRight, CallRight, ChainRight
  PROVE  NewBlocks = {BlockOf(m) : m \in New}
<1>1. PICK last, taken : last = LastNumber /\ taken = enq.Taken
  OBVIOUS
<1>2. last \in Int /\ taken \in Nat
  BY <1>1, Sizes
<1>3. New = (last + 1)..(last + taken)
  BY <1>1 DEF New
<1>4. CASE taken = 0
  <2>1. New = {}
    BY <1>2, <1>3, <1>4
  <2> QED BY <1>1, <1>4, <2>1 DEF NewBlocks
<1>5. CASE taken # 0
  <2>1. NewBlocks = {Hop(enq.FirstAllocatedBlock, h) : h \in 0..(taken - 1)}
    BY <1>1, <1>5 DEF NewBlocks
  <2>2. \A h \in 0..(taken - 1) : Hop(enq.FirstAllocatedBlock, h) = BlockOf(last + 1 + h)
    BY <1>1, FirstHop
  <2>3. \A h \in 0..(taken - 1) : last + 1 + h \in New
    BY <1>2, <1>3
  <2>4. \A m \in New : \E h \in 0..(taken - 1) : last + 1 + h = m
    <3>1. \A m \in New : m - last - 1 \in 0..(taken - 1) /\ last + 1 + (m - last - 1) = m
      BY <1>2, <1>3
    <3> QED BY <3>1
  <2> QED BY <2>1, <2>2, <2>3, <2>4
<1> QED BY <1>4, <1>5

\* Entries that lose their blocks.
LEMMA EmptyEntriesIs ==
  ASSUME Types, NEW removed, EmptyEntries(removed)
  PROVE  /\ entries' \in Seq([Key : Nat, Value : Blocks \union {NULL}]) /\ Len(entries') = Len(entries)
         /\ \A e \in 1..Len(entries) :
              /\ entries'[e].Key = entries[e].Key
              /\ e \in removed => entries'[e].Value = NULL
              /\ e \notin removed => entries'[e] = entries[e]
<1> DEFINE E == [Key : Nat, Value : Blocks \union {NULL}]
<1>1. entries \in Seq(E) /\ (\A e \in 1..Len(entries) : entries[e] \in E) /\ DOMAIN entries = 1..Len(entries)
      /\ Len(entries) \in Nat
  BY ElementOfSeq, LenProperties DEF Types
<1>2. \A e \in 1..Len(entries) : entries'[e] = IF e \in removed THEN [entries[e] EXCEPT !.Value = NULL] ELSE entries[e]
  BY <1>1 DEF EmptyEntries
<1>3. \A e \in 1..Len(entries) : /\ entries'[e] \in E /\ entries'[e].Key = entries[e].Key
                                 /\ e \in removed => entries'[e].Value = NULL
                                 /\ e \notin removed => entries'[e] = entries[e]
  <2> SUFFICES ASSUME NEW e \in 1..Len(entries)
               PROVE  /\ entries'[e] \in E /\ entries'[e].Key = entries[e].Key
                      /\ e \in removed => entries'[e].Value = NULL
                      /\ e \notin removed => entries'[e] = entries[e]
    OBVIOUS
  <2>1. entries[e] \in E
    BY <1>1
  <2>2. CASE e \in removed
    <3>1. entries'[e] = [entries[e] EXCEPT !.Value = NULL]
      BY <1>2, <2>2
    <3> QED BY <2>1, <2>2, <3>1
  <2>3. CASE e \notin removed
    <3>1. entries'[e] = entries[e]
      BY <1>2, <2>3
    <3> QED BY <2>1, <2>3, <3>1
  <2> QED BY <2>2, <2>3
<1> HIDE DEF E
<1>4. entries' \in [1..Len(entries) -> E]
  <2>1. PICK f : f = [e \in 1..Len(entries) |-> IF e \in removed THEN [entries[e] EXCEPT !.Value = NULL] ELSE entries[e]]
    OBVIOUS
  <2>2. entries' = f
    BY <1>1, <2>1 DEF EmptyEntries
  <2>3. f = [e \in 1..Len(entries) |-> f[e]]
    BY <2>1
  <2> QED BY <1>3, <2>2, <2>3
<1>5. entries' \in Seq(E) /\ Len(entries') = Len(entries)
  <2>1. entries' \in Seq(E)
    BY <1>1, <1>4
  <2> QED BY <1>1, <1>4, <2>1, LenProperties
<1> QED BY <1>3, <1>5 DEF E

\* A call that fails leaves the queue as it was.
LEMMA RollBackStep ==
  ASSUME SlowInv, NEW extra \in {0, 1}, ppc \in {"insert", "block", "fill"},
         extra = (IF ppc = "block" THEN 1 ELSE 0),
         RollBack(extra), Slots' = Slots, UNCHANGED <<TailIndex, Next, Counter, consumers>>
  PROVE  SlowInv'
<1>1. /\ Types /\ ArraysRight /\ CallRight /\ ClaimsRight /\ WindowRight /\ KeysRight /\ ValuesRight
      /\ BlocksRight /\ ChainRight /\ SlotsRight /\ CountersRight /\ LookupsRight
  BY DEF SlowInv
<1>2. /\ ppc' = "idle" /\ enq' = NoEnq
      /\ TailIndex' = TailIndex /\ TailBlock' = enq.StartBlock /\ Next' = Next
      /\ arrays' = [arrays EXCEPT ![Len(arrays)].Tail = TailBefore(extra + enq.Taken)]
      /\ Counter' = Counter /\ Slots' = Slots /\ free' = free \union NewBlocks
      /\ HeadIndex' = HeadIndex /\ pc' = pc /\ deq' = deq /\ UNCHANGED consumers
      /\ EmptyEntries(NewEntries(extra))
  BY DEF RollBack, Fail, consumers
<1>3. PICK t, last, taken : t = TailNumber /\ last = LastNumber /\ taken = enq.Taken
  OBVIOUS
<1>4. /\ t \in Int /\ last \in Int /\ last >= -1 /\ taken \in Nat /\ t = last + taken + extra
      /\ t - (extra + taken) = last /\ extra + taken \in Int
      /\ Current.Size \in Nat \ {0} /\ Current.Size \in Int /\ last <= t
  <2>1. /\ t \in Int /\ last \in Int /\ last >= -1 /\ taken \in Nat /\ Current.Size \in Nat \ {0}
        /\ t = last + taken + extra
    BY <1>1, <1>3, Sizes DEF TailNumber
  <2> QED BY <2>1
\* The tail of the index is at the last block again.
<1>5. PICK tail : tail = TailBefore(extra + taken)
  OBVIOUS
<1>6. tail = At(last) /\ tail \in 0..(Current.Size - 1)
  <2>1. tail = At(last)
    BY <1>1, <1>3, <1>4, <1>5, TailBeforeIs
  <2> QED BY <1>1, <1>4, <2>1, Slotting
<1>7. PICK removed : removed = NewEntries(extra)
  OBVIOUS
<1>8. removed = {Home(m) : m \in New} \union (IF extra = 1 THEN {Home(t)} ELSE {})
  BY <1>1, <1>3, <1>4, <1>7, NewEntriesAre
<1>9. /\ entries' \in Seq([Key : Nat, Value : Blocks \union {NULL}]) /\ Len(entries') = Len(entries)
      /\ \A e \in 1..Len(entries) :
              /\ entries'[e].Key = entries[e].Key
              /\ e \in removed => entries'[e].Value = NULL
              /\ e \notin removed => entries'[e] = entries[e]
  BY <1>1, <1>2, <1>7, EmptyEntriesIs
<1>10. /\ ArraysRight' /\ Len(arrays') = Len(arrays) /\ arrays' \in Seq(IndexArrays)
       /\ \A a \in 1..Len(arrays) : /\ arrays'[a].Index = arrays[a].Index
                                    /\ arrays'[a].Size = arrays[a].Size
                                    /\ a # Len(arrays) => arrays'[a].Tail = arrays[a].Tail
       /\ Current'.Size = Current.Size /\ Current'.Index = Current.Index /\ Current'.Tail = tail
  BY <1>1, <1>2, <1>3, <1>5, <1>6, <1>9, TailMoves
<1>30. \A a \in 1..Len(arrays) : arrays'[a].Index = arrays[a].Index /\ arrays'[a].Size = arrays[a].Size
  BY <1>10
<1>31. \A a \in 1..Len(arrays) : a # Len(arrays) => arrays'[a].Tail = arrays[a].Tail
  BY <1>10

<1>11. /\ LastNumber' = last /\ Live' = Live /\ New' = {} /\ Numbers' = Live /\ TailNumber' = last
       /\ \A m : AllDone(m)' = AllDone(m)
       /\ \A i : Done(i)' = Done(i)
       /\ \A c \in Consumers : Unmoved(c)' = Unmoved(c)
       /\ ClaimsRight'
  <2>1. LastNumber' = last /\ Live' = Live
    BY <1>2, <1>3, ProducerLive
  <2>2. New' = {}
    <3>1. New' = (last + 1)..(last + 0)
      BY <1>2, <2>1, NoEnqIs DEF New
    <3> QED BY <1>4, <3>1
  <2>3. TailNumber' = last
    <3>1. TailNumber' = last + 0 + 0
      BY <1>2, <2>1, NoEnqIs DEF TailNumber
    <3> QED BY <1>4, <3>1
  <2> QED BY <1>1, <1>2, <2>1, <2>2, <2>3, ProducerSame DEF Numbers
<1>12. \A m \in Int : Home(m)' = Home(m) /\ Home(m) \in 1..Len(entries)
  <2>1. TailNumber' \in Int
    BY <1>4, <1>11
  <2>2. tail = (Current.Tail + (TailNumber' - TailNumber)) % Current.Size
    BY <1>3, <1>6, <1>11 DEF At
  <2> QED BY <1>1, <1>10, <2>1, <2>2, HomesMove, Slotting
<1>13. \A m \in Live : m \in Nat /\ m \in Int /\ m \in Numbers /\ m <= last
  BY <1>1, <1>3, NumbersType
<1>14. \A m \in New : m \in Numbers /\ m > last /\ m \in Nat /\ m \in Int
  BY <1>1, <1>3, NumbersType
<1>15. \A m \in Live : ~Unstored(m) /\ ~Unstored(m)'
  <2>1. \A m : ~Unstored(m)'
    BY <1>2 DEF Unstored
  <2>2. \A m \in Live : m # last + 1
    BY <1>4, <1>13
  <2> QED BY <1>3, <2>1, <2>2 DEF Unstored
<1>16. \A m \in Live : Home(m) \notin removed
  <2> SUFFICES ASSUME NEW m \in Live, Home(m) \in removed PROVE FALSE
    OBVIOUS
  <2>1. CASE \E n \in New : Home(m) = Home(n)
    <3>1. PICK n \in New : Home(m) = Home(n)
      BY <2>1
    <3>2. m = n
      BY <1>1, <1>13, <1>14, <3>1, HomesDiffer
    <3> QED BY <1>4, <1>13, <1>14, <3>2
  <2>2. CASE extra = 1 /\ Home(m) = Home(t)
    <3>1. entries[Home(t)].Value = NULL
      BY <1>1, <1>3, <2>2 DEF KeysRight
    <3>2. entries[Home(m)].Value # NULL
      BY <1>1, <1>13, <1>15 DEF ValuesRight
    <3> QED BY <2>2, <3>1, <3>2
  <2> QED BY <1>8, <2>1, <2>2
<1>17. \A m \in Live : /\ entries'[Home(m)'] = entries[Home(m)] /\ BlockOf(m)' = BlockOf(m)
                       /\ Home(m)' = Home(m)
  <2>1. \A m \in Live : Home(m)' = Home(m) /\ Home(m) \in 1..Len(entries)
    BY <1>12, <1>13
  <2>2. \A m \in Live : entries'[Home(m)] = entries[Home(m)]
    BY <1>9, <1>16, <2>1
  <2> QED BY <1>15, <2>1, <2>2 DEF BlockOf
<1>18. free' = free \union {BlockOf(m) : m \in New}
  BY <1>1, <1>2, NewBlocksAre
<1>19. \A i : Stored(i)' = Stored(i)
  BY <1>2, <1>11 DEF Stored
<1>20. WindowRight'
  <2>1. ASSUME NEW m \in Live PROVE last - Current.Size < m /\ m <= last
    <3>1. t - Current.Size < m
      BY <1>1, <1>3, <1>13 DEF WindowRight
    <3> QED BY <1>4, <1>13, <3>1
  <2> QED BY <1>10, <1>11, <2>1 DEF WindowRight
<1>21. KeysRight'
  <2>1. \A m \in Live : entries'[Home(m)'].Key = m * BlockSize
    BY <1>1, <1>13, <1>17 DEF KeysRight
  <2>2. Live # {} => entries'[Home(last)].Key = last * BlockSize
    BY <1>1, <1>3, <1>4, <1>9, <1>12 DEF KeysRight
  <2>3. Home(LastNumber)' = Home(last)
    <3>1. PICK k : k = last
      OBVIOUS
    <3>2. k = LastNumber' /\ Home(k)' = Home(last)
      BY <1>4, <1>11, <1>12, <3>1
    <3> QED BY <3>2
  <2> QED BY <1>2, <1>11, <2>1, <2>2, <2>3 DEF KeysRight
<1>22. ValuesRight'
  <2>1. \A m \in Live : Unstored(m)' <=> entries'[Home(m)'].Value = NULL
    BY <1>1, <1>13, <1>15, <1>17 DEF ValuesRight
  <2>2. ASSUME NEW e \in 1..Len(entries'), entries'[e].Value # NULL PROVE \E m \in Live : e = Home(m)'
    <3>1. e \in 1..Len(entries) /\ e \notin removed /\ entries[e].Value # NULL
      BY <1>9, <2>2
    <3>2. PICK m \in Numbers : e = Home(m)
      BY <1>1, <3>1 DEF ValuesRight
    <3>3. m \in Live
      BY <1>8, <3>1, <3>2 DEF Numbers
    <3> QED BY <1>17, <3>2, <3>3
  <2> QED BY <1>11, <2>1, <2>2 DEF ValuesRight
<1>23. BlocksRight'
  <2>0. \A m \in Live, n \in New : BlockOf(m) # BlockOf(n)
    BY <1>1, <1>4, <1>13, <1>14 DEF BlocksRight
  <2>1. \A m \in Live : BlockOf(m)' \in Blocks \ free'
    BY <1>1, <1>13, <1>17, <1>18, <2>0 DEF BlocksRight
  <2>2. \A m, n \in Live : BlockOf(m)' = BlockOf(n)' => m = n
    BY <1>1, <1>13, <1>17 DEF BlocksRight
  <2>3. ASSUME NEW c \in Consumers, pc'[c] = "return"
        PROVE  /\ deq'[c].Block \in Blocks \ free'
               /\ \A m \in Live : BlockOf(m)' # deq'[c].Block
               /\ \A d \in Consumers \ {c} : pc'[d] = "return" => deq'[c].Block # deq'[d].Block
    <3>1. /\ deq[c].Block \in Blocks \ free
          /\ \A m \in Numbers : BlockOf(m) # deq[c].Block
          /\ \A d \in Consumers \ {c} : pc[d] = "return" => deq[c].Block # deq[d].Block
      BY <1>1, <1>2, <2>3 DEF BlocksRight
    <3> QED BY <1>2, <1>13, <1>14, <1>17, <1>18, <3>1
  <2>4. ASSUME NEW d \in Blocks \ free'
        PROVE  \/ \E m \in Live : BlockOf(m)' = d
               \/ \E c \in Consumers : pc'[c] = "return" /\ deq'[c].Block = d
    <3>1. \/ \E m \in Numbers : BlockOf(m) = d
          \/ \E c \in Consumers : pc[c] = "return" /\ deq[c].Block = d
      BY <1>1, <1>18, <2>4 DEF BlocksRight
    <3> QED BY <1>2, <1>17, <1>18, <2>4, <3>1 DEF Numbers
  <2> QED BY <1>11, <2>1, <2>2, <2>3, <2>4 DEF BlocksRight
<1>24. ChainRight'
  <2>1. Start' = enq.StartBlock /\ TailBlock' = enq.StartBlock /\ Start = enq.StartBlock
    BY <1>2 DEF Start
  <2>2. enq'.Taken = 0 /\ enq'.FirstAllocatedBlock = NULL /\ enq'.op = "none"
    BY <1>2, NoEnqIs
  <2>3. IF TailIndex' = 0 THEN Start' = NULL ELSE Start' \in Blocks
    BY <1>1, <1>2, <2>1 DEF ChainRight
  <2>4. LastNumber' \in Live' => Start' = BlockOf(LastNumber)'
    <3>1. last \in Live => Start' = BlockOf(last)'
      BY <1>1, <1>3, <1>17, <2>1 DEF ChainRight
    <3>2. last \in Live => BlockOf(last)' = BlockOf(LastNumber)'
      BY <1>11
    <3> QED BY <1>11, <3>1, <3>2
  <2> QED BY <2>1, <2>2, <2>3, <2>4 DEF ChainRight
<1>25. SlotsRight'
  <2>1. ASSUME NEW m \in New, NEW j \in Places PROVE Slots[BlockOf(m)][j] = Raw
    <3>1. PICK i : i = m * BlockSize + j
      OBVIOUS
    <3>2. i \in Int /\ Num(i) = m /\ Inner(i) = j
      <4>1. m \in Int /\ j \in Int /\ BlockSize \in Int
        BY <1>14, BlockSizeIs DEF Places
      <4> QED BY <3>1, <4>1, NumUnique
    <3>3. i \in Items(m)
      BY <1>14, <3>2, NumItems
    <3>4. i \in Int /\ i >= TailIndex
      BY <1>1, <1>3, <1>14, <3>3, LaterItems
    <3>5. ~Stored(i)
      BY <1>1, <3>4 DEF Stored, Types
    <3> QED BY <1>1, <1>14, <3>2, <3>3, <3>5 DEF SlotsRight
  <2>2. ASSUME NEW d \in Blocks, \A m \in Live : d # BlockOf(m)', NEW j \in Places
        PROVE  Slots'[d][j] = Raw
    <3>1. CASE \E m \in New : d = BlockOf(m)
      BY <1>2, <2>1, <3>1
    <3>2. CASE \A m \in New : d # BlockOf(m)
      <4>1. \A m \in Numbers : d # BlockOf(m)
        BY <1>17, <2>2, <3>2 DEF Numbers
      <4> QED BY <1>1, <1>2, <4>1 DEF SlotsRight
    <3> QED BY <3>1, <3>2
  <2>3. ASSUME NEW m \in Live, NEW i \in Items(m)
        PROVE  Slots'[BlockOf(m)'][Inner(i)] = IF Stored(i)' THEN i ELSE Raw
    BY <1>1, <1>2, <1>13, <1>17, <1>19 DEF SlotsRight
  <2> QED BY <1>11, <2>2, <2>3 DEF SlotsRight, Items, Inner
<1>26. CountersRight'
  BY <1>1, <1>2, <1>11, <1>13, <1>17 DEF CountersRight, Items
<1>27. CallRight'
  BY <1>2 DEF CallRight
<1>28. LookupsRight'
  <2>1. \A m \in Live : Home(m)' = Home(m) /\ BlockOf(m)' = BlockOf(m)
    BY <1>17
  <2>2. \A a \in 1..Len(arrays) : \A s \in At0(a) : \A m \in Live : Leads(a, s, m) => Leads(a, s, m)'
    <3>1. \A a \in 1..Len(arrays) : arrays'[a].Index = arrays[a].Index /\ arrays'[a].Size = arrays[a].Size
      BY <1>30
    <3>2. \A e \in 1..Len(entries) : entries'[e].Key = entries[e].Key
      BY <1>9
    <3>3. ArraysRight
      BY <1>1
    <3> QED BY <2>1, <3>1, <3>2, <3>3, KeysLead
  <2>3. ASSUME NEW a \in 1..Len(arrays), NEW m \in Live, Leads(a, arrays[a].Tail, m)
        PROVE  Leads(a, arrays[a].Tail, m)'
    <3>1. CASE a # Len(arrays)
      <4>1. PICK s : s = arrays[a].Tail
        OBVIOUS
      <4>2. s = (arrays[a].Tail)' /\ s \in At0(a)
        <5>1. arrays'[a].Tail = arrays[a].Tail
          BY <1>31, <3>1
        <5>2.
 arrays[a].Tail \in At0(a)
          BY <1>1 DEF ArraysRight, ArrayRight
        <5> QED BY <4>1, <5>1, <5>2

      <4>3. Leads(a, s, m)'
        BY <2>2, <2>3, <4>1, <4>2
      <4> QED BY <4>2, <4>3
    <3>2. CASE a = Len(arrays)
      <4>1. Current' = arrays'[a] /\ Current = arrays[a]
        BY <1>10, <3>2 DEF Current
      <4>2. entries[Home(last)].Key = last * BlockSize /\ last \in Nat
        BY <1>1, <1>3, <1>4, <1>13 DEF KeysRight
      <4>3. entries'[arrays'[a].Index[arrays'[a].Tail]].Key = last * BlockSize
        <5>1. arrays'[a].Index[arrays'[a].Tail] = Home(last)
          BY <1>6, <1>10, <4>1 DEF Home
        <5> QED BY <1>4, <1>9, <1>12, <4>2, <5>1
      <4>4. Current.Index[(tail + (m - last)) % Current.Size] = Home(m)
        <5>1. m \in Int /\ m - last \in Int /\ last + (m - last) = m
          BY <1>4, <1>13
        <5>2. \A x, y \in Int : (At(x) + y) % Current.Size = At(x + y)
          BY <1>1, Slotting
        <5>3. (At(last) + (m - last)) % Current.Size = At(last + (m - last))
          BY <1>4, <5>1, <5>2
        <5> QED BY <1>6, <5>1, <5>3 DEF Home
      <4>5. arrays'[a].Index[(arrays'[a].Tail + (m - last)) % arrays'[a].Size] = Home(m)'
        BY <1>10, <1>17, <4>1, <4>4
      <4> QED BY <4>2, <4>3, <4>5 DEF Leads
    <3> QED BY <3>1, <3>2
  <2> QED BY <1>1, <1>2, <1>10, <2>1, <2>2, <2>3, ProducerLookups
<1>29. Types'
  <2>1. enq.StartBlock \in Blocks \union {NULL}
    BY <1>1 DEF Types, Enqs
  <2>2. free' \subseteq Blocks
    BY <1>1, <1>14, <1>18 DEF Types, BlocksRight
  <2> QED BY <1>1, <1>2, <1>9, <1>10, <2>1, <2>2, NoEnqIs DEF Types, EnqueuePlaces
<1> QED BY <1>10, <1>11, <1>20, <1>21, <1>22, <1>23, <1>24, <1>25, <1>26, <1>27, <1>28, <1>29 DEF SlowInv

\* Enqueue and EnqueueBulk find no free entry and roll back.
LEMMA NoEntryStep ==
  ASSUME SlowInv, ppc # "cleared", NoEntry
  PROVE  SlowInv'
<1>1. /\ ppc = "insert" /\ RollBack(0) /\ Slots' = Slots /\ UNCHANGED <<TailIndex, Next, Counter, consumers>>
  BY DEF NoEntry
<1> QED BY <1>1, RollBackStep, 0 \in {0, 1}

\* Enqueue and EnqueueBulk get no block and roll back.
LEMMA NoBlockStep ==
  ASSUME SlowInv, ppc # "cleared", NoBlock
  PROVE  SlowInv'
<1>1. /\ ppc = "block" /\ RollBack(1) /\ Slots' = Slots /\ UNCHANGED <<TailIndex, Next, Counter, consumers>>
  BY DEF NoBlock
<1> QED BY <1>1, RollBackStep, 1 \in {0, 1}

\* Where the items of the running call go: each into its place in its block.
LEMMA FillPlaceIs ==
  ASSUME Types, ArraysRight, CallRight, ChainRight, ppc = "fill", NEW k \in 0..(enq.Count - 1)
  PROVE  /\ TailIndex + k \in Nat /\ Num(TailIndex + k) \in Numbers
         /\ FillPlace(k) = <<BlockOf(Num(TailIndex + k)), Inner(TailIndex + k)>>
<1>1. PICK T, last, taken, count : T = TailIndex /\ last = LastNumber /\ taken = enq.Taken /\ count = enq.Count
  OBVIOUS
<1>2. /\ T \in Nat /\ last \in Int /\ taken \in Nat /\ count \in Nat /\ count >= 1 /\ k \in Nat /\ k <= count - 1
      /\ T \in Int /\ k \in Int
  <2>1. T \in Nat /\ count \in Nat /\ count >= 1
    BY <1>1 DEF Types, Enqs, CallRight
  <2>2. last \in Int /\ taken \in Nat
    BY <1>1, Sizes
  <2> QED BY <1>1, <2>1, <2>2
<1>3. taken = Num(T + count - 1) - last
  <2>1. enq.Need + enq.Taken = Num(TailIndex + enq.Count - 1) - LastNumber /\ enq.Need = 0
    BY DEF CallRight
  <2> QED BY <1>1, <1>2, <2>1
<1>4. PICK i, m, h : i = T + k /\ m = Num(T + k) /\ h = (Inner(T) + k) \div BlockSize
  OBVIOUS
<1>5. i \in Int /\ i \in Nat /\ i <= T + count - 1 /\ T <= i /\ T + count - 1 \in Int
  BY <1>2, <1>4
<1>6. /\ m \in Int /\ Num(T) \in Int /\ Num(T + count - 1) \in Int
      /\ Num(T) <= m /\ m <= Num(T + count - 1) /\ h = m - Num(T)
  <2>1. m = Num(i)
    BY <1>4
  <2> QED BY <1>2, <1>4, <1>5, <2>1, NumType, NumMono, NumAhead
<1>7. m <= last + taken
  BY <1>2, <1>3, <1>6
<1>8. \A n \in (last + 1)..(last + taken) : n \in Numbers
  BY <1>1 DEF Numbers, New
<1>9. CASE Inner(T) = 0
  <2>1. Num(T) = last + 1
    <3>1. Num(T - 1) = Num(T) - 1 /\ Num(T - 1) = last
      BY <1>1, <1>2, <1>9, NumBefore DEF LastNumber
    <3> QED BY <1>2, <1>6, <3>1
  <2>2. h \in 0..(taken - 1) /\ m = last + 1 + h /\ taken > 0 /\ m \in (last + 1)..(last + taken)
    BY <1>2, <1>6, <1>7, <2>1
  <2>3. Hop(enq.FirstAllocatedBlock, h) = BlockOf(last + 1 + h)
    BY <1>1, <2>2, FirstHop
  <2>4. FillPlace(k) = <<Hop(enq.FirstAllocatedBlock, h), Inner(T + k)>>
    BY <1>1, <1>4, <1>9, <2>2 DEF FillPlace
  <2> QED BY <1>1, <1>4, <1>5, <1>8, <2>2, <2>3, <2>4
<1>10. CASE Inner(T) # 0
  <2>1. last \in Live /\ Num(T) = last
    BY <1>1, <1>10, LastLive
  <2>2. h \in Nat /\ h <= taken /\ m = last + h /\ last \in Numbers
    BY <1>2, <1>6, <1>7, <2>1 DEF Numbers
  <2>3. m \in Numbers
    <3>1. CASE h = 0
      <4>1. m = last
        BY <1>2, <2>2, <3>1
      <4> QED BY <2>2, <4>1

    <3>2. CASE h # 0
      <4>1. m \in (last + 1)..(last + taken)
        BY <1>2, <1>6, <1>7, <2>2, <3>2
      <4> QED BY <1>8, <4>1
    <3> QED BY <3>1, <3>2
  <2>4. enq.StartBlock = BlockOf(last)
    BY <1>1, <2>1 DEF ChainRight, Start
  <2>5. PICK p : p = [j \in 0..h |-> BlockOf(last + j)]
    OBVIOUS
  <2>6. p = [j \in 0..h |-> p[j]] /\ \A j \in 0..h : p[j] = BlockOf(last + j)
    BY <2>5
  <2>7. p[0] = enq.StartBlock
    <3>1. 0 \in 0..h /\ last + 0 = last
      BY <1>2, <2>2
    <3> QED BY <2>4, <2>6, <3>1
  <2>8. ASSUME NEW j \in 1..h PROVE p[j] = Next[p[j - 1]]
    <3>1. j \in 0..h /\ j - 1 \in 0..h /\ j >= 1 /\ taken > 0 /\ h # 0 /\ j \in Int /\ j <= taken
      BY <1>2, <2>2

    <3>2. enq.op = "bulk"
      <4>1. enq.op # "one"
        <5>1. ASSUME enq.op = "one" PROVE FALSE
          <6>1. count = 1
            BY <1>1, <5>1, OneBlock
          <6>2. k = 0
            BY <1>2, <6>1
          <6>3. m = Num(T)
            BY <1>2, <1>4, <6>2
          <6> QED BY <1>6, <3>1, <6>3
        <5> QED BY <5>1
      <4> QED BY <4>1 DEF CallRight
    <3>3. Next[BlockOf(last + (j - 1))] = BlockOf(last + j)
      <4>1. CASE j = 1
        <5>1. Next[BlockOf(last)] = BlockOf(last + 1)
          BY <1>1, <1>10, <3>1, <3>2 DEF ChainRight
        <5>2. last + (j - 1) = last /\ last + j = last + 1
          BY <1>2, <4>1
        <5> QED BY <5>1, <5>2
      <4>2. CASE j # 1
        <5>1. last + (j - 1) \in (last + 1)..(last + taken - 1) /\ last + j = (last + (j - 1)) + 1
          BY <1>2, <3>1, <4>2
        <5>2. \A n \in (last + 1)..(last + taken - 1) : Next[BlockOf(n)] = BlockOf(n + 1)
          BY <1>1, <3>1, <3>2 DEF ChainRight
        <5>3. Next[BlockOf(last + (j - 1))] = BlockOf((last + (j - 1)) + 1)
          BY <5>1, <5>2
        <5> QED BY <5>1, <5>3
      <4> QED BY <4>1, <4>2
    <3> QED BY <2>6, <3>1, <3>3
  <2>9. Hop(enq.StartBlock, h) = p[h]
    BY ZenonT(60), <2>2, <2>6, <2>7, <2>8, HopPath
  <2>10. p[h] = BlockOf(m)
    BY <2>2, <2>6
  <2>11. FillPlace(k) = <<Hop(enq.StartBlock, h), Inner(T + k)>>
    BY <1>1, <1>4, <1>10 DEF FillPlace
  <2> QED BY <1>1, <1>4, <1>5, <2>3, <2>9, <2>10, <2>11
<1> QED BY <1>9, <1>10

\* They hold nothing yet.
LEMMA FillPlaceRaw ==
  ASSUME SlowInv, ppc = "fill", NEW k \in 0..(enq.Count - 1), NEW b, NEW j, FillPlace(k) = <<b, j>>
  PROVE  /\ b = BlockOf(Num(TailIndex + k)) /\ j = Inner(TailIndex + k) /\ Slots[b][j] = Raw
         /\ Num(TailIndex + k) \in Numbers /\ b \in Blocks /\ j \in Places
<1>1. Types /\ ArraysRight /\ CallRight /\ ChainRight /\ SlotsRight /\ BlocksRight
  BY DEF SlowInv
<1>2. PICK i, m : i = TailIndex + k /\ m = Num(TailIndex + k)
  OBVIOUS
<1>3. i \in Nat /\ m \in Numbers /\ FillPlace(k) = <<BlockOf(m), Inner(i)>>
  BY <1>1, <1>2, FillPlaceIs
<1>4. b = BlockOf(m) /\ j = Inner(i)
  BY <1>3
<1>5. i \in Int /\ m = Num(i) /\ m \in Int
  BY <1>1, <1>2, <1>3, NumbersType
<1>6. i \in Items(m) /\ Inner(i) \in Places
  BY <1>5, NumItems, NumType
<1>7. ~Stored(i)
  <2>1. i >= TailIndex
    BY <1>1, <1>2 DEF Types
  <2> QED BY <1>1, <1>3, <2>1 DEF Stored, Types
<1>8. Slots[BlockOf(m)][Inner(i)] = Raw
  BY <1>1, <1>3, <1>6, <1>7 DEF SlotsRight
<1> QED BY <1>1, <1>2, <1>3, <1>4, <1>6, <1>8 DEF BlocksRight

\* What was made is destroyed, and nothing else.
LEMMA ConstructThrowsStep ==
  ASSUME SlowInv, ppc # "cleared", NEW k \in 0..(enq.Count - 1), ConstructThrows(k)
  PROVE  SlowInv'
<1>1. /\ ppc = "fill" /\ RollBack(0) /\ UNCHANGED <<TailIndex, Next, Counter, consumers>>
      /\ Slots' = [b \in Blocks |-> [i \in Places |->
                IF \E j \in 0..(k - 1) : FillPlace(j) = <<b, i>> /\ Slots[b][i] # Raw
                THEN Bad ELSE Slots[b][i]]]
  BY DEF ConstructThrows
<1>2. \A j \in 0..(k - 1) : j \in 0..(enq.Count - 1)
  <2>1. enq.Count \in Nat
    BY DEF SlowInv, Types, Enqs
  <2> QED BY <2>1
<1>3. ASSUME NEW b \in Blocks, NEW i \in Places, NEW j \in 0..(k - 1), FillPlace(j) = <<b, i>>
      PROVE  Slots[b][i] = Raw
  BY <1>1, <1>2, <1>3, FillPlaceRaw
<1>4. Slots' = [b \in Blocks |-> [i \in Places |-> Slots[b][i]]]
  BY <1>1, <1>3
<1>5. Slots' = Slots
  <2>1. Slots \in [Blocks -> [Places -> 0..(MaxTail - 1) \union {Raw, Bad}]]
    BY DEF SlowInv, Types
  <2> QED BY <1>4, <2>1
<1> QED BY <1>1, <1>5, RollBackStep, 0 \in {0, 1}

\* Construct puts every item into its place.
LEMMA ConstructSlots ==
  ASSUME SlowInv, Construct
  PROVE  /\ \A i \in TailIndex..(TailIndex + enq.Count - 1) :
              Num(i) \in Numbers /\ Slots'[BlockOf(Num(i))][Inner(i)] = i
         /\ \A b \in Blocks, j \in Places :
              (\A i \in TailIndex..(TailIndex + enq.Count - 1) : b # BlockOf(Num(i)) \/ j # Inner(i))
                => Slots'[b][j] = Slots[b][j]
         /\ Slots' \in [Blocks -> [Places -> 0..(MaxTail - 1) \union {Raw, Bad}]]
<1>1. Types /\ ArraysRight /\ CallRight /\ ChainRight /\ BlocksRight
  BY DEF SlowInv
<1>2. ppc = "fill"
  BY DEF Construct
<1>3. PICK T, count : T = TailIndex /\ count = enq.Count
  OBVIOUS
<1>4. T \in Nat /\ count \in Nat /\ count >= 1 /\ T + count <= MaxTail /\ MaxTail \in Nat
  BY <1>1, <1>2, <1>3, SlowQueueAssumption DEF Types, Enqs, CallRight, SlowQueueAssumption
<1> DEFINE P(b, j) == \E k \in 0..(count - 1) : FillPlace(k) = <<b, j>>
           C(b, j) == CHOOSE n \in T..(T + count - 1) : FillPlace(n - T) = <<b, j>>
<1>5. Slots' = [b \in Blocks |-> [j \in Places |-> IF P(b, j) THEN Constructed(b, j, C(b, j)) ELSE Slots[b][j]]]
  BY <1>3 DEF Construct
<1>6. \A i \in T..(T + count - 1) :
        /\ i \in Nat /\ i - T \in 0..(count - 1) /\ T + (i - T) = i /\ Num(i) \in Numbers
        /\ FillPlace(i - T) = <<BlockOf(Num(i)), Inner(i)>>
  <2> SUFFICES ASSUME NEW i \in T..(T + count - 1)
               PROVE  /\ i \in Nat /\ i - T \in 0..(count - 1) /\ T + (i - T) = i /\ Num(i) \in Numbers
                      /\ FillPlace(i - T) = <<BlockOf(Num(i)), Inner(i)>>
    OBVIOUS
  <2>1. i \in Nat /\ i - T \in 0..(count - 1) /\ T + (i - T) = i
    BY <1>4
  <2>2. PICK k : k = i - T
    OBVIOUS
  <2>3. k \in 0..(enq.Count - 1) /\ TailIndex + k = i
    BY <1>3, <2>1, <2>2
  <2>4. Num(TailIndex + k) \in Numbers /\ FillPlace(k) = <<BlockOf(Num(TailIndex + k)), Inner(TailIndex + k)>>
    BY <1>1, <1>2, <2>3, FillPlaceIs
  <2> QED BY <2>1, <2>2, <2>3, <2>4
\* Different items have different places.
<1>7. \A i, n \in T..(T + count - 1) : FillPlace(n - T) = <<BlockOf(Num(i)), Inner(i)>> => n = i
  <2> SUFFICES ASSUME NEW i \in T..(T + count - 1), NEW n \in T..(T + count - 1),
                      FillPlace(n - T) = <<BlockOf(Num(i)), Inner(i)>>
               PROVE  n = i
    OBVIOUS
  <2>1. i \in Int /\ n \in Int /\ Num(i) \in Numbers /\ Num(n) \in Numbers
    BY <1>6
  <2>2. FillPlace(n - T) = <<BlockOf(Num(n)), Inner(n)>>
    BY <1>6
  <2>3. BlockOf(Num(n)) = BlockOf(Num(i)) /\ Inner(n) = Inner(i)
    BY <2>2
  <2>4. Num(n) = Num(i)
    BY <1>1, <2>1, <2>3 DEF BlocksRight
  <2>5. i = Num(i) * BlockSize + Inner(i) /\ n = Num(n) * BlockSize + Inner(n)
    BY <2>1, NumType
  <2> QED BY <2>3, <2>4, <2>5
<1>8. ASSUME NEW i \in T..(T + count - 1)
      PROVE  /\ BlockOf(Num(i)) \in Blocks /\ Inner(i) \in Places
             /\ P(BlockOf(Num(i)), Inner(i)) /\ C(BlockOf(Num(i)), Inner(i)) = i
             /\ Slots[BlockOf(Num(i))][Inner(i)] = Raw
  <2>1. i - T \in 0..(count - 1) /\ FillPlace(i - T) = <<BlockOf(Num(i)), Inner(i)>>
    BY <1>6
  <2>2. PICK k : k = i - T
    OBVIOUS
  <2>3. k \in 0..(enq.Count - 1) /\ FillPlace(k) = <<BlockOf(Num(i)), Inner(i)>>
    BY <1>3, <2>1, <2>2
  <2>4. BlockOf(Num(i)) \in Blocks /\ Inner(i) \in Places /\ Slots[BlockOf(Num(i))][Inner(i)] = Raw
    BY <1>2, <2>3, FillPlaceRaw
  <2>5. C(BlockOf(Num(i)), Inner(i)) = i
    <3>1. \A n \in T..(T + count - 1) : FillPlace(n - T) = <<BlockOf(Num(i)), Inner(i)>> <=> n = i
      BY <1>7, <2>1
    <3> QED BY <3>1
  <2> QED BY <2>1, <2>4, <2>5
<1> HIDE DEF C
<1>9. ASSUME NEW i \in T..(T + count - 1) PROVE Slots'[BlockOf(Num(i))][Inner(i)] = i
  <2>1. PICK b, j : b = BlockOf(Num(i)) /\ j = Inner(i)
    OBVIOUS
  <2>2. b \in Blocks /\ j \in Places /\ P(b, j) /\ C(b, j) = i /\ Slots[b][j] = Raw
    BY <1>8, <2>1
  <2>3. Slots'[b][j] = Constructed(b, j, C(b, j))
    BY <1>5, <2>2
  <2> QED BY <2>1, <2>2, <2>3 DEF Constructed
<1>10. ASSUME NEW b \in Blocks, NEW j \in Places, P(b, j)
       PROVE  \E i \in T..(T + count - 1) : b = BlockOf(Num(i)) /\ j = Inner(i)
  <2>1. PICK k \in 0..(count - 1) : FillPlace(k) = <<b, j>>
    BY <1>10
  <2>2. T + k \in T..(T + count - 1) /\ (T + k) - T = k
    BY <1>4
  <2>3. FillPlace((T + k) - T) = <<BlockOf(Num(T + k)), Inner(T + k)>>
    BY <1>6, <2>2
  <2>4. b = BlockOf(Num(T + k)) /\ j = Inner(T + k)
    BY <2>1, <2>2, <2>3
  <2> QED BY <2>2, <2>4
<1>11. \A b \in Blocks, j \in Places : ~P(b, j) => Slots'[b][j] = Slots[b][j]
  BY <1>5
<1> HIDE DEF P
<1>12. Slots' \in [Blocks -> [Places -> 0..(MaxTail - 1) \union {Raw, Bad}]]
  <2> DEFINE V == 0..(MaxTail - 1) \union {Raw, Bad}
  <2>1. \A b \in Blocks, j \in Places : Slots'[b][j] \in V
    <3> SUFFICES ASSUME NEW b \in Blocks, NEW j \in Places PROVE Slots'[b][j] \in V
      OBVIOUS
    <3>1. CASE P(b, j)
      <4>1. PICK i \in T..(T + count - 1) : b = BlockOf(Num(i)) /\ j = Inner(i)
        BY <1>10, <3>1
      <4>2. Slots'[b][j] = i
        BY <1>9, <4>1
      <4>3. i \in 0..(MaxTail - 1)
        BY <1>4
      <4> QED BY <4>2, <4>3
    <3>2. CASE ~P(b, j)
      <4>1. Slots'[b][j] = Slots[b][j]
        BY <1>11, <3>2
      <4> QED BY <1>1, <4>1 DEF Types
    <3> QED BY <3>1, <3>2
  <2> HIDE DEF V
  <2>2. PICK F : F = [b \in Blocks |-> [j \in Places |-> Slots'[b][j]]]
    OBVIOUS
  <2>3. F = Slots'
    BY <1>5, <2>2
  <2>4. F \in [Blocks -> [Places -> V]]
    BY <2>1, <2>2
  <2> QED BY <2>3, <2>4 DEF V
<1>13. \A b \in Blocks, j \in Places :
         (\A i \in T..(T + count - 1) : b # BlockOf(Num(i)) \/ j # Inner(i)) => Slots'[b][j] = Slots[b][j]
  BY <1>10, <1>11
<1> QED BY <1>3, <1>6, <1>9, <1>12, <1>13

\* The items are made in their places.
LEMMA ConstructStep ==
  ASSUME SlowInv, ppc # "cleared", Construct
  PROVE  SlowInv'
<1>1. /\ Types /\ ArraysRight /\ CallRight /\ ClaimsRight /\ WindowRight /\ KeysRight /\ ValuesRight
      /\ BlocksRight /\ ChainRight /\ SlotsRight /\ CountersRight /\ LookupsRight
  BY DEF SlowInv
<1>2. /\ ppc = "fill" /\ ppc' = "publish"
      /\ TailIndex' = TailIndex /\ arrays' = arrays /\ Next' = Next
      /\ enq' = enq /\ Counter' = Counter /\ free' = free
      /\ HeadIndex' = HeadIndex /\ pc' = pc /\ deq' = deq /\ UNCHANGED consumers
      /\ IF enq.op = "one" /\ enq.Taken > 0
         THEN /\ entries' = [entries EXCEPT ![Current.Index[Current.Tail]].Value = enq.FirstAllocatedBlock]
              /\ TailBlock' = enq.FirstAllocatedBlock
         ELSE UNCHANGED <<entries, TailBlock>>
  BY DEF Construct, consumers
<1>3. PICK t, h, last, taken, first, T, count :
         /\ t = TailNumber /\ h = Home(t) /\ last = LastNumber /\ taken = enq.Taken
         /\ first = enq.FirstAllocatedBlock /\ T = TailIndex /\ count = enq.Count
  OBVIOUS
<1>4. /\ t \in Int /\ last \in Int /\ last >= -1 /\ taken \in Nat /\ t = last + taken
      /\ h \in 1..Len(entries) /\ Current.Index[Current.Tail] = h
      /\ T \in Nat /\ count \in Nat /\ count >= 1 /\ first \in Blocks \union {NULL}
      /\ T + count <= MaxTail
  <2>1. t \in Int /\ last \in Int /\ last >= -1 /\ taken \in Nat /\ t = last + taken
    BY <1>1, <1>2, <1>3, Sizes DEF TailNumber
  <2>2. At(t) = Current.Tail /\ Home(t) \in 1..Len(entries)
    BY <1>1, <1>3, <2>1, Slotting
  <2>3. T \in Nat /\ count \in Nat /\ count >= 1 /\ first \in Blocks \union {NULL} /\ T + count <= MaxTail
    BY <1>1, <1>2, <1>3 DEF Types, Enqs, CallRight
  <2> QED BY <1>3, <2>1, <2>2, <2>3 DEF Home
<1>5. enq.op = "one" /\ taken > 0 => t = last + 1 /\ first = BlockOf(last + 1) /\ last + 1 \in Numbers
  <2> SUFFICES ASSUME enq.op = "one", taken > 0 PROVE t = last + 1 /\ first = BlockOf(last + 1) /\ last + 1 \in Numbers
    OBVIOUS
  <2>1. taken = 1
    BY <1>1, <1>3, <1>4, OneBlock
  <2>2. last + 1 \in Numbers
    BY <1>3, <1>4, <2>1 DEF Numbers, New
  <2>3. first = BlockOf(last + 1)
    BY <1>1, <1>3, <2>1 DEF ChainRight
  <2> QED BY <1>4, <2>1, <2>2, <2>3
<1>6. /\ LastNumber' = last /\ Live' = Live /\ New' = New /\ Numbers' = Numbers
      /\ TailNumber' = t /\ Current' = Current
      /\ \A m : AllDone(m)' = AllDone(m)
      /\ \A i : Done(i)' = Done(i)
      /\ \A c \in Consumers : Unmoved(c)' = Unmoved(c)
      /\ ClaimsRight'
  <2>1. LastNumber' = last /\ Live' = Live
    BY <1>2, <1>3, ProducerLive
  <2>2. New' = New /\ TailNumber' = t /\ Current' = Current
    BY <1>2, <1>3, <2>1 DEF New, TailNumber, Current
  <2> QED BY <1>1, <1>2, <2>1, <2>2, ProducerSame DEF Numbers
<1>7. \A m : Home(m)' = Home(m) /\ At(m)' = At(m)
  BY <1>3, <1>6 DEF Home, At
<1>8. \A m \in Numbers : m \in Nat /\ m \in Int /\ Home(m) \in 1..Len(entries)
  <2>1. \A m \in Numbers : m \in Nat /\ m \in Int
    BY <1>1, NumbersType
  <2> QED BY <1>1, <2>1, Slotting
<1>9. /\ entries' \in Seq([Key : Nat, Value : Blocks \union {NULL}]) /\ Len(entries') = Len(entries)
      /\ \A e \in 1..Len(entries) :
            /\ entries'[e].Key = entries[e].Key
            /\ e # h \/ ~(enq.op = "one" /\ taken > 0) => entries'[e] = entries[e]
      /\ enq.op = "one" /\ taken > 0 => entries'[h].Value = first
  <2>1. CASE enq.op = "one" /\ taken > 0
    <3>1. entries' = [entries EXCEPT ![h].Value = first]
      BY <1>2, <1>3, <1>4, <2>1
    <3>2. /\ entries' \in Seq([Key : Nat, Value : Blocks \union {NULL}]) /\ Len(entries') = Len(entries)
          /\ \A e \in 1..Len(entries) : /\ entries'[e].Key = entries[e].Key
                                        /\ e # h => entries'[e] = entries[e]
          /\ entries'[h].Value = first
      <4>1. Types /\ h \in 1..Len(entries) /\ first \in Blocks \union {NULL}
        BY <1>1, <1>4
      <4> QED BY <3>1, <4>1, StoreValue, Zenon
    <3> QED BY <2>1, <3>2
  <2>2. CASE ~(enq.op = "one" /\ taken > 0)
    <3>1. entries' = entries
      BY <1>2, <1>3, <2>2
    <3> QED BY <1>1, <2>2, <3>1 DEF Types
  <2> QED BY <2>1, <2>2
\* Every block in the index is stored now.
<1>10. \A m : ~Unstored(m)'
  BY <1>2 DEF Unstored
<1>11. \A m \in Numbers : Unstored(m) <=> (enq.op = "one" /\ taken > 0 /\ m = last + 1)
  <2>1. \A m \in Numbers : m = last + 1 => taken > 0
    <3> SUFFICES ASSUME NEW m \in Numbers, m = last + 1, ~(taken > 0) PROVE FALSE
      OBVIOUS
    <3>1. New = {}
      <4>1. (last + 1)..(last + taken) = {}
        BY <1>4
      <4> QED BY <1>3, <4>1 DEF New
    <3>2. m \in Live
      BY <3>1 DEF Numbers
    <3> QED BY <1>1, <1>3, <1>4, <3>2, NumbersType
  <2> QED BY <1>2, <1>3, <2>1 DEF Unstored
<1>12. \A m \in Numbers : /\ entries'[Home(m)].Value = BlockOf(m) /\ BlockOf(m)' = BlockOf(m)
                          /\ BlockOf(m) \in Blocks
  <2> SUFFICES ASSUME NEW m \in Numbers
               PROVE  /\ entries'[Home(m)].Value = BlockOf(m) /\ BlockOf(m)' = BlockOf(m)
                      /\ BlockOf(m) \in Blocks
    OBVIOUS
  <2>1. entries'[Home(m)].Value = BlockOf(m)
    <3>1. CASE enq.op = "one" /\ taken > 0 /\ m = last + 1
      BY <1>3, <1>5, <1>9, <3>1
    <3>2. CASE enq.op = "one" /\ taken > 0 /\ m # last + 1
      <4>1. ~Unstored(m) /\ Home(m) # h
        <5>1. Home(m) = h => m = t
          BY <1>1, <1>3, <1>5, <3>2, HomesDiffer
        <5> QED BY <1>5, <1>11, <3>2, <5>1
      <4> QED BY <1>8, <1>9, <3>2, <4>1 DEF BlockOf
    <3>3. CASE ~(enq.op = "one" /\ taken > 0)
      <4>1. ~Unstored(m) /\ entries'[Home(m)] = entries[Home(m)]
        BY <1>8, <1>9, <1>11, <3>3
      <4> QED BY <4>1 DEF BlockOf
    <3> QED BY <3>1, <3>2, <3>3
  <2>2. BlockOf(m)' = entries'[Home(m)].Value
    BY <1>7, <1>10 DEF BlockOf
  <2> QED BY <1>1, <2>1, <2>2 DEF BlocksRight
<1>13. ArraysRight'
  BY <1>1, <1>2, <1>9, ArraysStay
<1>14. WindowRight'
  BY <1>1, <1>3, <1>6 DEF WindowRight
<1>15. KeysRight'
  <2>1. \A m \in Numbers : entries'[Home(m)].Key = m * BlockSize
    BY <1>1, <1>8, <1>9 DEF KeysRight
  <2>2. Live # {} => entries'[Home(last)].Key = last * BlockSize
    <3>1. Home(last) \in 1..Len(entries)
      BY <1>1, <1>4, Slotting
    <3> QED BY <1>1, <1>3, <1>9, <3>1 DEF KeysRight
  <2>3. Home(LastNumber)' = Home(last)
    BY <1>6, <1>7
  <2> QED BY <1>2, <1>6, <1>7, <2>1, <2>2, <2>3 DEF KeysRight
<1>16. ValuesRight'
  <2>1. \A m \in Numbers : entries'[Home(m)].Value # NULL
    <3>1. NULL \notin Blocks
      BY SlowQueueAssumption DEF SlowQueueAssumption
    <3> QED BY <1>12, <3>1
  <2>2. ASSUME NEW e \in 1..Len(entries'), entries'[e].Value # NULL PROVE \E m \in Numbers : e = Home(m)
    <3>1. CASE e = h /\ enq.op = "one" /\ taken > 0
      BY <1>3, <1>5, <3>1
    <3>2. CASE ~(e = h /\ enq.op = "one" /\ taken > 0)
      <4>1. entries'[e] = entries[e] /\ e \in 1..Len(entries)
        BY <1>9, <2>2, <3>2
      <4> QED BY <1>1, <2>2, <4>1 DEF ValuesRight
    <3> QED BY <3>1, <3>2
  <2> QED BY <1>6, <1>7, <1>10, <2>1, <2>2 DEF ValuesRight
<1>17. BlocksRight'
  BY <1>1, <1>2, <1>6, <1>12 DEF BlocksRight
<1>18. ChainRight'
  <2>1. Start' = Start /\ ~NotYetTail'
    BY <1>2 DEF Start, NotYetTail
  <2>2. taken > 0 => last + 1 \in Numbers /\ last + taken \in Numbers
    BY <1>3, <1>4 DEF Numbers, New
  <2>3. IF TailIndex' = 0 THEN Start' = NULL ELSE Start' \in Blocks
    BY <1>1, <1>2, <2>1 DEF ChainRight
  <2>4. LastNumber' \in Live' => Start' = BlockOf(LastNumber)'
    <3>1. last \in Live => Start' = BlockOf(last)'
      BY <1>1, <1>3, <1>12, <2>1 DEF ChainRight, Numbers
    <3>2. BlockOf(last)' = BlockOf(LastNumber)'
      BY <1>6
    <3> QED BY <1>6, <3>1, <3>2
  <2>5. enq'.FirstAllocatedBlock = IF enq'.Taken = 0 THEN NULL ELSE BlockOf(LastNumber + 1)'
    <3>1. taken > 0 => first = BlockOf(last + 1)'
      BY <1>1, <1>3, <1>12, <2>2 DEF ChainRight
    <3>2. BlockOf(last + 1)' = BlockOf(LastNumber + 1)'
      BY <1>6
    <3>3. taken = 0 => first = NULL
      BY <1>1, <1>3 DEF ChainRight
    <3> QED BY <1>2, <1>3, <1>4, <3>1, <3>2, <3>3
  <2>6. TailBlock' = IF enq'.Taken > 0 /\ ~NotYetTail' THEN BlockOf(LastNumber + enq.Taken)' ELSE Start'
    <3>1. PICK k : k = last + taken
      OBVIOUS
    <3>2. k = LastNumber' + enq'.Taken
      BY <1>2, <1>3, <1>6, <3>1
    <3>3. BlockOf(k)' = BlockOf(LastNumber + enq.Taken)'
      BY <3>2
    <3>4. CASE taken > 0 /\ enq.op = "one"
      <4>1. k = last + 1 /\ TailBlock' = first
        BY <1>2, <1>3, <1>4, <1>5, <3>1, <3>4
      <4> QED BY <1>2, <1>3, <1>5, <1>12, <2>1, <3>3, <3>4, <4>1
    <3>5. CASE taken > 0 /\ enq.op # "one"
      <4>1. TailBlock' = TailBlock /\ TailBlock = BlockOf(k)
        BY <1>1, <1>2, <1>3, <3>1, <3>5 DEF ChainRight, NotYetTail
      <4> QED BY <1>2, <1>3, <1>12, <2>1, <2>2, <3>1, <3>3, <3>5, <4>1
    <3>6. CASE ~(taken > 0)
      BY <1>1, <1>2, <1>3, <2>1, <3>6 DEF ChainRight
    <3> QED BY <3>4, <3>5, <3>6
  <2>7. ASSUME enq.op = "bulk", taken > 0, NEW m \in (last + 1)..(last + taken - 1)
        PROVE  Next'[BlockOf(m)'] = BlockOf(m + 1)'
    <3>1. m \in (last + 1)..(last + taken) /\ m + 1 \in (last + 1)..(last + taken)
      BY <1>4, <2>7
    <3>2. m \in Numbers /\ m + 1 \in Numbers
      BY <1>3, <3>1 DEF Numbers, New
    <3>3. Next[BlockOf(m)] = BlockOf(m + 1)
      BY <1>1, <1>3, <2>7 DEF ChainRight
    <3>4. BlockOf(m + 1)' = BlockOf(m + 1) /\ BlockOf(m)' = BlockOf(m)
      BY <1>12, <3>2
    <3> QED BY <1>2, <3>3, <3>4
  <2>8. ASSUME enq.op = "bulk", taken > 0, Inner(TailIndex) # 0
        PROVE  Next'[BlockOf(last)'] = BlockOf(last + 1)'
    <3>1. last \in Numbers
      BY <1>1, <1>3, <2>8, LastLive DEF Numbers
    <3>2. Next[BlockOf(last)] = BlockOf(last + 1)
      BY <1>1, <1>3, <2>8 DEF ChainRight
    <3>3. BlockOf(last + 1)' = BlockOf(last + 1) /\ BlockOf(last)' = BlockOf(last)
      BY <1>12, <2>2, <2>8, <3>1
    <3> QED BY <1>2, <3>2, <3>3
  <2>9. enq'.op = "bulk" /\ enq'.Taken > 0 =>
           \A m \in (LastNumber' + 1)..(LastNumber' + enq'.Taken - 1) : Next'[BlockOf(m)'] = BlockOf(m + 1)'
    BY <1>2, <1>3, <1>6, <2>7
  <2>10. enq'.op = "bulk" /\ enq'.Taken > 0 =>
           (Inner(TailIndex)' # 0 => Next'[BlockOf(LastNumber)'] = BlockOf(LastNumber + 1)')
    <3>1. Inner(TailIndex)' = Inner(TailIndex)
      BY <1>2 DEF Inner
    <3> QED BY <1>2, <1>3, <1>6, <2>8, <3>1
  <2> QED BY <2>3, <2>4, <2>5, <2>6, <2>9, <2>10 DEF ChainRight
<1>19. \A i \in T..(T + count - 1) : Num(i) \in Numbers /\ Slots'[BlockOf(Num(i))][Inner(i)] = i
  BY <1>2, <1>3, ConstructSlots
<1>20. \A b \in Blocks, j \in Places :
          (\A i \in T..(T + count - 1) : b # BlockOf(Num(i)) \/ j # Inner(i)) => Slots'[b][j] = Slots[b][j]
  BY <1>2, <1>3, ConstructSlots
<1>21. Slots' \in [Blocks -> [Places -> 0..(MaxTail - 1) \union {Raw, Bad}]]
  BY <1>2, ConstructSlots
<1>22. SlotsRight'
  <2>1. ASSUME NEW d \in Blocks, \A m \in Numbers' : d # BlockOf(m)', NEW j \in Places
        PROVE  Slots'[d][j] = Raw
    <3>1. \A m \in Numbers : d # BlockOf(m)
      BY <1>6, <1>12, <2>1
    <3>2. \A i \in T..(T + count - 1) : d # BlockOf(Num(i))
      BY <1>19, <3>1
    <3> QED BY <1>1, <1>20, <3>1, <3>2 DEF SlotsRight
  <2>2. ASSUME NEW m \in Numbers, NEW i \in Items(m)
        PROVE  Slots'[BlockOf(m)'][Inner(i)] = IF Stored(i)' THEN i ELSE Raw
    <3>1. i \in Int /\ Num(i) = m /\ Inner(i) \in Places
      <4>1. i \in Int /\ m \in Int
        BY <1>8, ItemsFinite
      <4> QED BY <4>1, NumItems, NumType
    <3>2. CASE i \in T..(T + count - 1)
      <4>1. Slots'[BlockOf(m)][Inner(i)] = i
        BY <1>19, <3>1, <3>2
      <4>2. Stored(i)'
        <5>1. i >= T /\ i < T + count
          BY <1>4, <3>1, <3>2
        <5> QED BY <1>2, <1>3, <5>1 DEF Stored
      <4> QED BY <1>12, <4>1, <4>2
    <3>3. CASE i \notin T..(T + count - 1)
      <4>1. \A n \in T..(T + count - 1) : BlockOf(m) # BlockOf(Num(n)) \/ Inner(i) # Inner(n)
        <5> SUFFICES ASSUME NEW n \in T..(T + count - 1), BlockOf(m) = BlockOf(Num(n)), Inner(i) = Inner(n)
                     PROVE  FALSE
          OBVIOUS
        <5>1. Num(n) = m
          BY <1>1, <1>19 DEF BlocksRight
        <5>2. n = Num(n) * BlockSize + Inner(n) /\ i = Num(i) * BlockSize + Inner(i)
          BY <1>4, <3>1, NumType
        <5>3. n = i
          BY <3>1, <5>1, <5>2
        <5> QED BY <3>3, <5>3
      <4>2. Slots'[BlockOf(m)][Inner(i)] = Slots[BlockOf(m)][Inner(i)]
        BY <1>12, <1>20, <3>1, <4>1
      <4>3. Stored(i)' <=> Stored(i)
        <5>1. ~(i >= T /\ i < T + count)
          BY <1>4, <3>1, <3>3
        <5> QED BY <1>2, <1>3, <1>6, <5>1 DEF Stored
      <4>4. Slots[BlockOf(m)][Inner(i)] = IF Stored(i) THEN i ELSE Raw
        BY <1>1, <2>2 DEF SlotsRight
      <4> QED BY <1>12, <4>2, <4>3, <4>4
    <3> QED BY <3>2, <3>3
  <2> QED BY <1>6, <2>1, <2>2 DEF SlotsRight, Items, Inner
<1>23. CountersRight'
  BY <1>1, <1>2, <1>6, <1>12 DEF CountersRight, Items
<1>24. CallRight'
  BY <1>1, <1>2, <1>3, <1>6 DEF CallRight, Num
<1>25. LookupsRight'
  <2>1. Live \subseteq Numbers
    BY <1>1, NumbersType
  <2>2. \A a \in 1..Len(arrays) : \A s \in At0(a) : \A m \in Live : Leads(a, s, m) => Leads(a, s, m)'
    BY <1>1, <1>2, <1>7, <1>9, KeysLead
  <2>3. ASSUME NEW a \in 1..Len(arrays), NEW m \in Live, Leads(a, arrays[a].Tail, m)
        PROVE  Leads(a, arrays[a].Tail, m)'
    <3>1. PICK s : s = arrays[a].Tail
      OBVIOUS
    <3>2. s = (arrays[a].Tail)' /\ s \in At0(a)
      BY <1>1, <1>2, <3>1 DEF ArraysRight, ArrayRight
    <3>3. Leads(a, s, m)'
      BY <2>2, <2>3, <3>1, <3>2
    <3> QED BY <3>2, <3>3
  <2> QED BY <1>1, <1>2, <1>7, <1>12, <2>1, <2>2, <2>3, ProducerLookups
<1>26. Types'
  <2>1. TailBlock' \in Blocks \union {NULL}
    BY <1>1, <1>2, <1>3, <1>4 DEF Types
  <2> QED BY <1>1, <1>2, <1>9, <1>21, <2>1 DEF Types, EnqueuePlaces
<1> QED BY <1>6, <1>13, <1>14, <1>15, <1>16, <1>17, <1>18, <1>22, <1>23, <1>24, <1>25, <1>26 DEF SlowInv

\* The items of the call become those of the queue.
LEMMA PublishStep ==
  ASSUME SlowInv, ppc # "cleared", Publish
  PROVE  SlowInv'
<1>1. /\ Types /\ ArraysRight /\ CallRight /\ ClaimsRight /\ WindowRight /\ KeysRight /\ ValuesRight
      /\ BlocksRight /\ ChainRight /\ SlotsRight /\ CountersRight /\ LookupsRight
  BY DEF SlowInv
<1>2. /\ ppc = "publish" /\ ppc' = "idle" /\ TailIndex' = TailIndex + enq.Count /\ enq' = NoEnq
      /\ arrays' = arrays /\ Next' = Next /\ entries' = entries /\ TailBlock' = TailBlock
      /\ Counter' = Counter /\ free' = free /\ Slots' = Slots
      /\ HeadIndex' = HeadIndex /\ pc' = pc /\ deq' = deq /\ UNCHANGED consumers
  BY DEF Publish, consumers, shared
<1>3. PICK t, last, taken, T, count :
         t = TailNumber /\ last = LastNumber /\ taken = enq.Taken /\ T = TailIndex /\ count = enq.Count
  OBVIOUS
<1>4. /\ t \in Int /\ last \in Int /\ last >= -1 /\ taken \in Nat /\ t = last + taken
      /\ T \in Nat /\ count \in Nat /\ count >= 1 /\ T + count <= MaxTail
      /\ HeadIndex \in Nat /\ HeadIndex <= T
  <2>1. t \in Int /\ last \in Int /\ last >= -1 /\ taken \in Nat /\ t = last + taken
    BY <1>1, <1>2, <1>3, Sizes DEF TailNumber
  <2>2. T \in Nat /\ count \in Nat /\ count >= 1 /\ T + count <= MaxTail /\ HeadIndex \in Nat /\ HeadIndex <= T
    BY <1>1, <1>2, <1>3 DEF Types, Enqs, CallRight
  <2> QED BY <2>1, <2>2
<1>5. LastNumber' = t
  <2>1. enq.Need + enq.Taken = Num(TailIndex + enq.Count - 1) - LastNumber /\ enq.Need = 0
    BY <1>1, <1>2 DEF CallRight
  <2>2. Num(T + count - 1) \in Int
    BY <1>4, NumType
  <2>3. Num(T + count - 1) = t
    BY <1>3, <1>4, <2>1, <2>2
  <2>4. TailIndex' = T + count
    BY <1>2, <1>3
  <2>5. LastNumber' = (TailIndex' - 1) \div BlockSize
    BY DEF LastNumber, Num
  <2>6. TailIndex' - 1 = T + count - 1
    BY <1>4, <2>4
  <2>7. Num(T + count - 1) = (T + count - 1) \div BlockSize
    BY DEF Num
  <2> QED BY <2>3, <2>5, <2>6, <2>7
<1>6. /\ \A m : AllDone(m)' = AllDone(m) /\ Freeing(m)' = Freeing(m)
      /\ \A i : Done(i)' = Done(i)
      /\ \A c \in Consumers : Unmoved(c)' = Unmoved(c)
      /\ ClaimsRight'
  BY <1>1, <1>2, ProducerSame
<1>7. New = (last + 1)..t
  BY <1>3, <1>4 DEF New
<1>8. Live' = Numbers
  <2>1. \A m \in 0..t : m \in 0..last \/ m \in New
    BY <1>4, <1>7
  <2>2. \A m \in 0..last : m \in 0..t
    BY <1>4
  <2>3. \A m \in New : m \in 0..t /\ m \in Int /\ m > last
    BY <1>4, <1>7
  <2>4. \A m \in New : ~AllDone(m)
    <3> SUFFICES ASSUME NEW m \in New PROVE ~AllDone(m)
      OBVIOUS
    <3>1. m \in Int /\ m > last
      BY <2>3
    <3>2. m * BlockSize \in Items(m)
      BY <3>1, ItemsFinite
    <3>3. ~Done(m * BlockSize)
      BY <1>1, <1>3, <3>1, <3>2, LaterItems
    <3> QED BY <3>2, <3>3 DEF AllDone
  <2>5. Live' = {m \in 0..t : AllDone(m) => Freeing(m)}
    BY <1>5, <1>6 DEF Live
  <2>6. Live = {m \in 0..last : AllDone(m) => Freeing(m)}
    BY <1>3 DEF Live
  <2>7. \A m \in New : m \notin 0..last
    BY <1>4, <2>3
  <2> QED BY <2>1, <2>2, <2>3, <2>4, <2>5, <2>6, <2>7 DEF Numbers
<1>9. New' = {} /\ Numbers' = Numbers /\ TailNumber' = t
  <2>1. New' = (t + 1)..(t + 0)
    BY <1>2, <1>5, NoEnqIs DEF New
  <2>2. New' = {}
    BY <1>4, <2>1
  <2>3. TailNumber' = t + 0 + 0
    BY <1>2, <1>5, NoEnqIs DEF TailNumber
  <2> QED BY <1>4, <1>8, <2>2, <2>3 DEF Numbers
<1>10. Current' = Current /\ \A m : Home(m)' = Home(m)
  <2>1. Current' = Current
    BY <1>2 DEF Current
  <2> QED BY <1>3, <1>9, <2>1 DEF Home, At
<1>11. \A m : ~Unstored(m) /\ ~Unstored(m)' /\ BlockOf(m)' = BlockOf(m)
  <2>1. \A m : ~Unstored(m) /\ ~Unstored(m)'
    BY <1>2 DEF Unstored
  <2> QED BY <1>2, <1>10, <2>1 DEF BlockOf
<1>12. ArraysRight'
  BY <1>1, <1>2, ArraysStay
<1>13. WindowRight'
  BY <1>1, <1>3, <1>9, <1>10 DEF WindowRight
<1>14. t # last => taken > 0 /\ t \in Numbers
  <2>1. t # last => taken > 0 /\ t \in New
    BY <1>4, <1>7
  <2> QED BY <2>1 DEF Numbers
<1>15. KeysRight'
  <2>1. \A m \in Numbers : entries[Home(m)].Key = m * BlockSize
    BY <1>1 DEF KeysRight
  <2>2. Numbers # {} => entries[Home(t)].Key = t * BlockSize
    <3>1. CASE t # last
      BY <1>14, <2>1, <3>1
    <3>2. CASE t = last
      <4>1. New = {}
        BY <1>4, <1>7, <3>2
      <4> QED BY <1>1, <1>3, <3>2, <4>1 DEF KeysRight, Numbers
    <3> QED BY <3>1, <3>2
  <2>3. Home(LastNumber)' = Home(t)
    BY <1>5, <1>10
  <2> QED BY <1>2, <1>5, <1>8, <1>9, <1>10, <2>1, <2>2, <2>3 DEF KeysRight
<1>16. ValuesRight'
  BY <1>1, <1>2, <1>9, <1>10, <1>11 DEF ValuesRight
<1>17. BlocksRight'
  BY <1>1, <1>2, <1>9, <1>11 DEF BlocksRight
<1>18. ChainRight'
  <2>1. Start' = TailBlock
    BY <1>2 DEF Start
  <2>2. TailIndex' # 0
    BY <1>2, <1>3, <1>4
  <2>3. TailBlock = IF taken > 0 THEN BlockOf(t) ELSE Start
    BY <1>1, <1>2, <1>3, <1>4 DEF ChainRight, NotYetTail
  <2>4. TailBlock \in Blocks /\ (t \in Numbers => TailBlock = BlockOf(t))
    <3>1. CASE t # last
      BY <1>1, <1>14, <2>3, <3>1 DEF BlocksRight
    <3>2. CASE t = last
      <4>1. taken = 0 /\ New = {}
        BY <1>4, <1>7, <3>2
      <4>2. TailBlock = Start
        BY <2>3, <4>1
      <4>3. TailIndex # 0
        <5> SUFFICES ASSUME TailIndex = 0 PROVE FALSE
          OBVIOUS
        <5>1. last = -1
          <6>1. 0 - 1 = -1 /\ Num(-1) = -1
            BY BlockSizeIs DEF Num
          <6> QED BY <1>3, <6>1 DEF LastNumber
        <5>2. LastNumber' >= 0
          <6>1. T + count - 1 \in Int /\ T + count - 1 >= 0
            BY <1>4
          <6>2. TailIndex' = T + count
            BY <1>2, <1>3
          <6>3. LastNumber' = (TailIndex' - 1) \div BlockSize
            BY DEF LastNumber, Num
          <6>4. Num(T + count - 1) >= 0
            BY <6>1, NumType
          <6>5. TailIndex' - 1 = T + count - 1
            BY <1>4, <6>2
          <6>6. Num(T + count - 1) = (T + count - 1) \div BlockSize
            BY DEF Num
          <6> QED BY <6>3, <6>4, <6>5, <6>6
        <5> QED BY <1>5, <3>2, <5>1, <5>2
      <4>4. last \in Live => Start = BlockOf(last)
        BY <1>1, <1>3 DEF ChainRight
      <4> QED BY <1>1, <3>2, <4>1, <4>2, <4>3, <4>4 DEF ChainRight, Numbers
    <3> QED BY <3>1, <3>2
  <2>5. enq'.Taken = 0 /\ enq'.FirstAllocatedBlock = NULL /\ enq'.op = "none"
    BY <1>2, NoEnqIs
  <2>6. LastNumber' \in Live' => Start' = BlockOf(LastNumber)'
    <3>1. BlockOf(LastNumber)' = BlockOf(t)'
      BY <1>5
    <3> QED BY <1>5, <1>8, <1>11, <2>1, <2>4, <3>1
  <2> QED BY <1>2, <2>1, <2>2, <2>4, <2>5, <2>6 DEF ChainRight
<1>19. \A m \in Numbers : \A i \in Items(m) : Stored(i)' <=> Stored(i)
  <2> SUFFICES ASSUME NEW m \in Numbers, NEW i \in Items(m) PROVE Stored(i)' <=> Stored(i)
    OBVIOUS
  <2>1. i \in Int
    <3>1. m \in Int
      BY <1>1, NumbersType
    <3> QED BY <3>1, ItemsFinite
  <2>2. Stored(i)' <=> i < T + count /\ (i >= HeadIndex \/ \E c \in Consumers : i \in Unmoved(c))
    BY <1>2, <1>3, <1>6 DEF Stored
  <2>3. Stored(i) <=> \/ i < T /\ (i >= HeadIndex \/ \E c \in Consumers : i \in Unmoved(c))
                      \/ i >= T /\ i < T + count
    BY <1>2, <1>3 DEF Stored
  <2>4. CASE i < T
    BY <1>4, <2>1, <2>2, <2>3, <2>4
  <2>5. CASE i >= T
    BY <1>4, <2>1, <2>2, <2>3, <2>5
  <2> QED BY <1>4, <2>1, <2>4, <2>5
<1>20. SlotsRight'
  <2>1. \A b \in Blocks : (\A m \in Numbers' : b # BlockOf(m)') => \A j \in Places : Slots'[b][j] = Raw
    BY <1>1, <1>2, <1>9, <1>11 DEF SlotsRight
  <2>2. \A m \in Numbers : \A i \in Items(m) : Slots'[BlockOf(m)'][Inner(i)] = IF Stored(i)' THEN i ELSE Raw
    BY <1>1, <1>2, <1>11, <1>19 DEF SlotsRight
  <2> QED BY <1>9, <2>1, <2>2 DEF SlotsRight, Items, Inner
<1>21. CountersRight'
  BY <1>1, <1>2, <1>6, <1>9, <1>11 DEF CountersRight, Items
<1>22. CallRight'
  BY <1>2 DEF CallRight
<1>23. LookupsRight'
  <2>1. \A a \in 1..Len(arrays) : \A s \in At0(a) : \A m \in Live : Leads(a, s, m) => Leads(a, s, m)'
    BY <1>1, <1>2, <1>10, KeysLead
  <2>2. ASSUME NEW a \in 1..Len(arrays), NEW m \in Live, Leads(a, arrays[a].Tail, m)
        PROVE  Leads(a, arrays[a].Tail, m)'
    <3>1. PICK s : s = arrays[a].Tail
      OBVIOUS
    <3>2. s = (arrays[a].Tail)' /\ s \in At0(a)
      BY <1>1, <1>2, <3>1 DEF ArraysRight, ArrayRight
    <3>3. Leads(a, s, m)'
      BY <2>1, <2>2, <3>1, <3>2
    <3> QED BY <3>2, <3>3
  <2> QED BY <1>1, <1>2, <1>10, <1>11, <2>1, <2>2, ProducerLookups
<1>24. Types'
  <2>1. TailIndex' \in Nat /\ HeadIndex' <= TailIndex' /\ TailIndex' <= MaxTail
    BY <1>2, <1>3, <1>4
  <2> QED BY <1>1, <1>2, <2>1, NoEnqIs DEF Types, EnqueuePlaces
<1> QED BY <1>6, <1>12, <1>13, <1>15, <1>16, <1>17, <1>18, <1>20, <1>21, <1>22, <1>23, <1>24 DEF SlowInv

-----------------------------------------------------------------------------
(* The destructor, and the initial state.                                    *)

\* When nobody is at work, exactly the items that were not dequeued are stored, and
\* the blocks in the index are those from the first of them to the last.
LEMMA QuietIs ==
  ASSUME SlowInv, Quiet
  PROVE  /\ \A i \in Int : Done(i) <=> i < HeadIndex
         /\ \A i \in Int : Stored(i) <=> i >= HeadIndex /\ i < TailIndex
         /\ \A m : ~Freeing(m) /\ ~Unstored(m)
         /\ New = {} /\ Numbers = Live /\ TailNumber = LastNumber
         /\ Live = Num(HeadIndex)..LastNumber
<1>1. Types /\ ArraysRight /\ CallRight /\ ClaimsRight
  BY DEF SlowInv
<1>2. ppc = "idle" /\ enq = NoEnq /\ \A c \in Consumers : pc[c] = "idle"
  BY <1>1 DEF Quiet, CallRight
<1>3. \A c \in Consumers : Uncounted(c) = {} /\ Unmoved(c) = {}
  BY <1>1, <1>2, PendingTypes
<1>4. \A i \in Int : Done(i) <=> i < HeadIndex
  BY <1>3 DEF Done
<1>5. \A i \in Int : Stored(i) <=> i >= HeadIndex /\ i < TailIndex
  BY <1>2, <1>3 DEF Stored
<1>6. \A m : ~Freeing(m) /\ ~Unstored(m)
  BY <1>2 DEF Freeing, Unstored
<1>7. PICK last, H : last = LastNumber /\ H = HeadIndex
  OBVIOUS
<1>8. last \in Int /\ H \in Nat /\ H \in Int /\ Num(H) \in Int /\ Num(H) >= 0
  <2>1. last \in Int /\ H \in Nat /\ H \in Int
    BY <1>1, <1>7, Sizes DEF Types
  <2> QED BY <2>1, NumType
<1>9. New = {} /\ TailNumber = last
  <2>1. New = (last + 1)..(last + 0) /\ TailNumber = last + 0 + 0
    BY <1>2, <1>7, NoEnqIs DEF New, TailNumber
  <2> QED BY <1>8, <2>1
<1>10. ASSUME NEW m \in Int PROVE AllDone(m) <=> m < Num(H)
  <2>1. Items(m) \subseteq Int
    BY ItemsFinite
  <2>2. AllDone(m) <=> \A i \in Items(m) : i < H
    BY <1>4, <1>7, <2>1 DEF AllDone
  <2>3. \A i \in Items(m) : Num(i) = m
    BY <2>1, NumItems
  <2>4. CASE m < Num(H)
    <3>1. \A i \in Items(m) : i < H
      <4> SUFFICES ASSUME NEW i \in Items(m), i >= H PROVE FALSE
        BY <1>8, <2>1
      <4>1. Num(H) <= Num(i)
        BY <1>8, <2>1, NumMono
      <4> QED BY <1>8, <2>3, <2>4, <4>1
    <3> QED BY <2>2, <2>4, <3>1
  <2>5. CASE m >= Num(H)
    <3>1. PICK i : i = m * BlockSize + (BlockSize - 1)
      OBVIOUS
    <3>2. BlockSize - 1 \in Places /\ i \in Int
      BY <3>1, BlockSizeIs DEF Places
    <3>3. Num(i) = m /\ i \in Items(m)
      BY <3>1, <3>2, NumUnique, NumItems
    <3>4. i >= H
      <4> SUFFICES ASSUME i < H PROVE FALSE
        BY <1>8, <3>2
      <4>1. i + 1 <= H /\ i + 1 = (m + 1) * BlockSize /\ m + 1 \in Int
        BY <1>8, <3>1, <3>2, BlockSizeIs, Distribute
      <4>2. m + 1 <= Num(H)
        BY <1>8, <4>1, NumFirst
      <4>3. m = Num(H) => FALSE
        BY <1>8, <4>2
      <4> QED BY <1>8, <2>5, <4>2
    <3> QED BY <1>8, <2>2, <2>5, <3>2, <3>3, <3>4
  <2> QED BY <1>8, <2>4, <2>5
<1>11. Live = Num(H)..last
  <2>1. Live = {m \in 0..last : ~AllDone(m)}
    BY <1>6, <1>7 DEF Live
  <2>2. \A m \in 0..last : m \in Int /\ (~AllDone(m) <=> m >= Num(H))
    <3> SUFFICES ASSUME NEW m \in 0..last PROVE m \in Int /\ (~AllDone(m) <=> m >= Num(H))
      OBVIOUS
    <3>1. m \in Int
      BY <1>8
    <3> QED BY <1>8, <1>10, <3>1
  <2>3. \A m \in Num(H)..last : m \in 0..last /\ m >= Num(H)
    BY <1>8
  <2>4. \A m \in 0..last : m >= Num(H) => m \in Num(H)..last
    BY <1>8
  <2> QED BY <2>1, <2>2, <2>3, <2>4
<1> QED BY <1>4, <1>5, <1>6, <1>7, <1>9, <1>11 DEF Numbers

\* Clear looks up the block of every item that was not dequeued.
LEMMA RemainingIs ==
  ASSUME SlowInv, Quiet, NEW i \in HeadIndex..(TailIndex - 1)
  PROVE  i \in Int /\ Num(i) \in Numbers /\ Remaining(i) = BlockOf(Num(i))
<1>1. Types /\ ArraysRight /\ KeysRight
  BY DEF SlowInv
<1>2. HeadIndex \in Nat /\ TailIndex \in Nat /\ i \in Int /\ HeadIndex <= i /\ i <= TailIndex - 1 /\ TailIndex - 1 \in Int
  BY <1>1 DEF Types
<1>3. Num(i) \in Live
  <2>1. Num(HeadIndex) <= Num(i) /\ Num(i) <= Num(TailIndex - 1)
    BY <1>2, NumMono
  <2>2. Num(i) \in Int /\ Num(HeadIndex) \in Int /\ Num(TailIndex - 1) \in Int
    BY <1>2, NumType
  <2>3. Live = Num(HeadIndex)..LastNumber
    BY QuietIs
  <2> QED BY <2>1, <2>2, <2>3 DEF LastNumber
<1>4. entries[Home(LastNumber)].Key = LastNumber * BlockSize
  BY <1>1, <1>3 DEF KeysRight
<1>5. Current.Tail = At(LastNumber)
  BY <1>1, QuietIs, Slotting
<1>6. EntryForIndex(Current.Tail, i) = Home(Num(i))
  BY <1>1, <1>2, <1>4, <1>5, Sizes, EntryFor
<1> QED BY <1>2, <1>3, <1>6, QuietIs DEF Remaining, BlockOf

\* The destructor destroys the items that are left, and nothing else.
LEMMA ClearStep ==
  ASSUME SlowInv, Clear
  PROVE  ClearedInv'
<1>1. Types /\ BlocksRight /\ SlotsRight
  BY DEF SlowInv
<1>2. Quiet /\ ppc' = "cleared" /\ UNCHANGED <<TailIndex, TailBlock, arrays, entries, Next, Counter, enq, consumers>>
  BY DEF Clear, Quiet
<1> DEFINE Left == HeadIndex..(TailIndex - 1)
           Gone == {<<Remaining(i), Inner(i)>> : i \in Left}
<1>3. /\ \A b \in Blocks, j \in Places :
           Slots'[b][j] = IF <<b, j>> \notin Gone THEN Slots[b][j]
                          ELSE IF Slots[b][j] \in {Raw, Bad} THEN Bad ELSE Raw
      /\ Slots' = [b \in Blocks |-> [j \in Places |-> Slots'[b][j]]]
  BY DEF Clear, Destroy
<1>4. free' = free \union {Remaining(i) : i \in Left}
  BY DEF Clear
<1>5. ASSUME NEW i \in Left
      PROVE  i \in Nat /\ Num(i) \in Numbers /\ Remaining(i) = BlockOf(Num(i)) /\ i \in Items(Num(i))
             /\ Remaining(i) \in Blocks /\ Stored(i)
  <2>1. i \in Int /\ Num(i) \in Numbers /\ Remaining(i) = BlockOf(Num(i))
    BY <1>2, RemainingIs
  <2>2. HeadIndex \in Nat /\ TailIndex \in Nat /\ i \in Nat /\ i >= HeadIndex /\ i < TailIndex
    BY <1>1 DEF Types
  <2>3. Num(i) \in Int
    BY <2>1, NumType
  <2> QED BY <1>1, <1>2, <2>1, <2>2, <2>3, NumItems, QuietIs DEF BlocksRight
<1>6. ASSUME NEW b \in Blocks, NEW j \in Places PROVE Slots'[b][j] = Raw
  <2>1. CASE <<b, j>> \in Gone
    <3>1. PICK i \in Left : b = Remaining(i) /\ j = Inner(i)
      BY <2>1
    <3>2. Slots[b][j] = i /\ i \in Nat
      BY <1>1, <1>5, <3>1 DEF SlotsRight
    <3>3. Slots[b][j] \notin {Raw, Bad}
      BY ZenonT(60), <3>2, SlowQueueAssumption DEF SlowQueueAssumption
    <3> QED BY <1>3, <2>1, <3>3
  <2>2. CASE <<b, j>> \notin Gone
    <3>1. CASE \E m \in Numbers : b = BlockOf(m)
      <4>1. PICK m \in Numbers : b = BlockOf(m)
        BY <3>1
      <4>2. PICK i : i = m * BlockSize + j
        OBVIOUS
      <4>3. m \in Int /\ j \in Int /\ i \in Int
        <5>1. m \in Int
          BY NumbersType DEF SlowInv
        <5>2. j \in Int
          BY BlockSizeIs DEF Places
        <5> QED BY <4>2, <5>1, <5>2, BlockSizeIs
      <4>4. Num(i) = m /\ Inner(i) = j /\ i \in Items(m)
        BY <4>2, <4>3, NumUnique, NumItems
      <4>5. ~Stored(i)
        <5> SUFFICES ASSUME Stored(i) PROVE FALSE
          OBVIOUS
        <5>1. HeadIndex \in Nat /\ TailIndex \in Nat
          BY <1>1 DEF Types
        <5>2. i \in Left
          BY <1>2, <4>3, <5>1, QuietIs
        <5> QED BY <1>5, <2>2, <4>1, <4>4, <5>2
      <4>6. Slots[b][j] = Raw
        BY <1>1, <4>1, <4>4, <4>5 DEF SlotsRight
      <4> QED BY <1>3, <2>2, <4>6
    <3>2. CASE ~ \E m \in Numbers : b = BlockOf(m)
      <4>1. Slots[b][j] = Raw
        BY <1>1, <3>2 DEF SlotsRight
      <4> QED BY <1>3, <2>2, <4>1
    <3> QED BY <3>1, <3>2
  <2> QED BY <2>1, <2>2
<1>7. Slots' \in [Blocks -> [Places -> 0..(MaxTail - 1) \union {Raw, Bad}]]
  BY <1>3, <1>6
<1>8. free' \subseteq Blocks
  BY <1>1, <1>4, <1>5 DEF Types
<1>9. Types'
  BY <1>1, <1>2, <1>7, <1>8 DEF Types, consumers, EnqueuePlaces
<1>10. ArraysRight'
  <2>1. ArraysRight /\ arrays' = arrays /\ entries' = entries
    BY <1>2 DEF SlowInv
  <2> QED BY <2>1, ArraysStay
<1> QED BY <1>2, <1>6, <1>9, <1>10 DEF ClearedInv, Quiet, consumers

\* In the initial state the index has no block.
LEMMA InitStep ==
  ASSUME Init
  PROVE  SlowInv
<1>1. InitialSize \in Nat \ {0, 1} /\ MaxTail \in Nat
  <2>1. InitialSize \in {2, 4, 8, 16, 32, 64} /\ MaxTail \in Nat
    BY SlowQueueAssumption DEF SlowQueueAssumption
  <2> QED BY <2>1
<1>2. PICK S, a : S = InitialSize /\ a = [Size |-> S, Tail |-> S - 1, Index |-> [k \in 0..(S - 1) |-> k + 1]]
  OBVIOUS
<1>3. arrays = <<a>> /\ Len(arrays) = 1 /\ arrays[1] = a /\ Current = a
  BY <1>2 DEF Init, Current
<1>4. S \in Nat /\ S >= 2 /\ a.Size = S /\ a.Tail = S - 1 /\ a.Index = [k \in 0..(S - 1) |-> k + 1] /\ S \in Nat \ {0}
  BY <1>1, <1>2
<1>5. Len(entries) = S /\ DOMAIN entries = 1..S /\ entries \in Seq([Key : Nat, Value : Blocks \union {NULL}])
  <2>1. NewEntry \in [Key : Nat, Value : Blocks \union {NULL}]
    BY DEF NewEntry, INVALID_BLOCK_BASE
  <2>2. entries = [e \in 1..S |-> NewEntry]
    BY <1>2 DEF Init
  <2>3. entries \in [1..S -> [Key : Nat, Value : Blocks \union {NULL}]]
    BY <2>1, <2>2
  <2>4. entries \in Seq([Key : Nat, Value : Blocks \union {NULL}])
    BY ZenonT(60), <1>4, <2>3, SeqDef
  <2>5. Len(entries) \in Nat /\ DOMAIN entries = 1..Len(entries) /\ DOMAIN entries = 1..S
    <3>1. \A e : entries \in [1..S -> e] => DOMAIN entries = 1..S
      OBVIOUS
    <3>2. Len(entries) \in Nat /\ DOMAIN entries = 1..Len(entries)
      BY <2>4, LenProperties
    <3> QED BY <2>3, <3>1, <3>2
  <2>6. Len(entries) = S
    <3>1. PICK n \in Nat : n = Len(entries)
      BY <2>5
    <3>2. \A k : k \in 1..n <=> k \in 1..S
      <4>1. 1..n = 1..S
        BY <2>5, <3>1
      <4> QED BY <4>1
    <3>3. S \in 1..n
      <4>1. S \in 1..S
        BY <1>4
      <4> QED BY <3>2, <4>1
    <3>4. n \in 1..n
      BY <1>4, <3>3
    <3>5. n \in 1..S
      BY <3>2, <3>4
    <3>6. n = S
      BY <1>4, <3>3, <3>5
    <3> QED BY <3>1, <3>6
  <2> QED BY <2>4, <2>5, <2>6
<1>6. a.Index \in [0..(S - 1) -> 1..Len(entries)]
  BY <1>4, <1>5
<1>7. Types
  <2>1. a \in IndexArrays
    <3>1. a.Index \in [0..(S - 1) -> Nat]
      BY <1>4
    <3>2. a.Index \in UNION {[0..(n - 1) -> Nat] : n \in Nat}
      BY <1>4, <3>1
    <3> QED BY <1>2, <1>4, <3>2 DEF IndexArrays
  <2>2. arrays \in Seq(IndexArrays)
    BY <1>3, <2>1
  <2>3. enq \in Enqs
    BY DEF Init, NoEnq, Enqs, Kinds
  <2>4. deq \in [Consumers -> Deqs] /\ pc \in [Consumers -> DequeuePlaces]
    BY DEF Init, NoDeq, Deqs, DequeuePlaces
  <2>5. Counter \in [Blocks -> 0..BlockSize]
    <3>1. 0 \in 0..BlockSize
      BY BlockSizeIs
    <3> QED BY <3>1 DEF Init
  <2>6. Slots \in [Blocks -> [Places -> 0..(MaxTail - 1) \union {Raw, Bad}]]
    BY DEF Init
  <2>7. HeadIndex \in Nat /\ TailIndex \in Nat /\ HeadIndex <= TailIndex /\ TailIndex <= MaxTail
    BY <1>1 DEF Init
  <2>8. TailBlock = NULL /\ Next \in [Blocks -> Blocks \union {NULL}] /\ free \subseteq Blocks
        /\ ppc \in EnqueuePlaces
    BY DEF Init, EnqueuePlaces
  <2> QED BY <1>5, <2>2, <2>3, <2>4, <2>5, <2>6, <2>7, <2>8 DEF Types
<1>8. ArraysRight
  <2>1. At0(1) = 0..(S - 1) /\ At0(Len(arrays)) = 0..(S - 1)
    BY <1>3, <1>4 DEF At0
  <2>2. S % S = 0 /\ a.Tail \in 0..(S - 1)
    BY <1>4
  <2>3. \A j, k \in 0..(S - 1) : a.Index[j] = a.Index[k] => j = k
    BY <1>4
  <2>4. \A j, k \in 0..(S - 1) : a.Index[j] = a.Index[k] => j = (k + 0) % S
    <3> SUFFICES ASSUME NEW j \in 0..(S - 1), NEW k \in 0..(S - 1), a.Index[j] = a.Index[k] PROVE j = (k + 0) % S
      OBVIOUS
    <3>1. j = k /\ k + 0 = k
      BY <1>4, <2>3
    <3> QED BY <1>4, <3>1, ModSmall
  <2>5. \E d \in Nat : \A j, k \in 0..(S - 1) : a.Index[j] = a.Index[k] => j = (k + d) % S
    BY <2>4
  <2>6. \A e \in 1..Len(entries) : \E k \in 0..(S - 1) : a.Index[k] = e
    <3> SUFFICES ASSUME NEW e \in 1..S PROVE \E k \in 0..(S - 1) : a.Index[k] = e
      BY <1>5
    <3>1. e - 1 \in 0..(S - 1) /\ a.Index[e - 1] = e
      BY <1>4
    <3> QED BY <3>1
  <2>7. ArrayRight(1)
    <3>1. /\ arrays[1].Size = S /\ Current.Size = S /\ arrays[1].Tail = a.Tail
          /\ arrays[1].Index = a.Index /\ Current.Index = a.Index
      BY <1>3, <1>4
    <3>2. arrays[1].Size >= 2 /\ Current.Size % arrays[1].Size = 0 /\ arrays[1].Tail \in At0(1)
          /\ arrays[1].Index \in [At0(1) -> 1..Len(entries)]
      BY <1>4, <1>6, <2>1, <2>2, <3>1
    <3>3. \A j, k \in At0(1) : arrays[1].Index[j] = arrays[1].Index[k] => j = k
      BY <2>1, <2>3, <3>1
    <3>4. \E d \in Nat : \A s \in At0(1), k \in At0(Len(arrays)) :
            arrays[1].Index[s] = Current.Index[k] => s = (k + d) % arrays[1].Size
      <4>1. \A s \in At0(1), k \in At0(Len(arrays)) :
              arrays[1].Index[s] = Current.Index[k] => s = (k + 0) % arrays[1].Size
        BY <2>1, <2>4, <3>1
      <4> QED BY <4>1
    <3>5. arrays[1].Size >= 2 /\ Current.Size % arrays[1].Size = 0
      BY <3>2
    <3> QED BY <3>2, <3>3, <3>4, <3>5, Zenon DEF ArrayRight
  <2>8. \A e \in 1..Len(arrays) : e = 1
    BY <1>3
  <2>9. \A e \in 1..Len(entries) : \E k \in At0(Len(arrays)) : Current.Index[k] = e
    BY <1>3, <2>1, <2>6
  <2> QED BY <1>3, <2>7, <2>8, <2>9 DEF ArraysRight
<1>9. LastNumber = -1 /\ New = {} /\ Live = {} /\ Numbers = {}
  <2>1. 0 - 1 = -1 /\ Num(-1) = -1
    BY BlockSizeIs DEF Num
  <2>2. LastNumber = -1
    BY <2>1 DEF Init, LastNumber
  <2>3. New = (-1 + 1)..(-1 + 0) /\ Live = {m \in 0..(-1) : AllDone(m) => Freeing(m)}
    BY <2>2, NoEnqIs DEF Init, New, Live
  <2> QED BY <2>2, <2>3 DEF Numbers
<1>10. ClaimsRight
  <2>1. \A c \in Consumers : pc[c] = "idle" /\ deq[c] = NoDeq /\ deq[c].First = 0 /\ deq[c].Count = 0 /\ deq[c].Need = 0
    BY DEF Init, NoDeq
  <2>2. \A c \in Consumers : Pending(c) = {}
    BY <2>1 DEF Pending, From
  <2> QED BY <2>1, <2>2 DEF Init, ClaimsRight
<1>11. CallRight /\ WindowRight /\ KeysRight /\ ValuesRight /\ CountersRight
  <2>1. \A e \in 1..Len(entries) : entries[e].Value = NULL
    BY <1>2, <1>5 DEF Init, NewEntry
  <2> QED BY <1>9, <2>1 DEF Init, CallRight, WindowRight, KeysRight, ValuesRight, CountersRight
<1>12. BlocksRight /\ SlotsRight /\ LookupsRight
  BY <1>9 DEF Init, BlocksRight, SlotsRight, LookupsRight, LookupRight
<1>13. ChainRight
  BY <1>9, NoEnqIs DEF Init, ChainRight, Start
<1> QED BY <1>7, <1>8, <1>10, <1>11, <1>12, <1>13 DEF SlowInv

-----------------------------------------------------------------------------
(* The invariant, and the theorems.                                          *)

\* A queue in use or cleared.
Sound == (SlowInv /\ ppc # "cleared") \/ ClearedInv

\* A step of the producer, but for one that throws from a block behind the first.
LEMMA EnqueueStepSound ==
  ASSUME "block" \notin Failures, SlowInv, ppc # "cleared", EnqueueStep
  PROVE  SlowInv' /\ ppc' # "cleared"
<1>1. SlowInv'
  BY InsertEntryStep, GrowIndexStep, StoreIndexTailStep, RequisitionBlockStep, NoEntryStep, NoBlockStep,
     RequisitionThrowsStep, ConstructStep, ConstructThrowsStep, PublishStep DEF EnqueueStep
<1>2. ppc' # "cleared"
  BY DEF EnqueueStep, InsertEntry, GrowIndex, StoreIndexTail, RequisitionBlock, NoEntry, NoBlock,
         RequisitionThrows, Construct, ConstructThrows, Publish, RollBack, Fail
<1> QED BY <1>1, <1>2

\* A step of a consumer.
LEMMA DequeueStepSound ==
  ASSUME SlowInv, ppc # "cleared", NEW c \in Consumers,
         DequeueStep(c) \/ \E max \in Requests : Claim(c, max)
  PROVE  SlowInv' /\ ppc' # "cleared"
<1>1. SlowInv'
  BY ClaimStep, LoadArrayStep, LoadTailStep, LoadKeyStep, LoadValueStep, MoveOutStep, SetSomeEmptyStep,
     FreeIndexEntryStep, ReturnBlockStep DEF DequeueStep
<1>2. ppc' = ppc
  BY DEF DequeueStep, Claim, LoadArray, LoadTail, LoadKey, LoadValue, MoveOut, SetSomeEmpty,
         FreeIndexEntry, ReturnBlock, producer
<1> QED BY <1>1, <1>2

\* The beginning of a call.
LEMMA BeginEnqueueSound ==
  ASSUME SlowInv, ppc # "cleared", NEW mode \in Modes,
         BeginEnqueue("one", 1, mode) \/ \E n \in Batches : BeginEnqueue("bulk", n, mode)
  PROVE  SlowInv' /\ ppc' # "cleared"
<1>1. SlowInv'
  <2>1. 1 \in Nat \ {0} /\ Batches \subseteq Nat \ {0} /\ "one" # "bulk"
    <3>1. Batches \subseteq Nat \ {0}
      BY SlowQueueAssumption DEF SlowQueueAssumption
    <3> QED BY <3>1
  <2>2. ASSUME BeginEnqueue("one", 1, mode) PROVE SlowInv'
    BY <2>1, <2>2, BeginEnqueueStep
  <2>3. ASSUME NEW n \in Batches, BeginEnqueue("bulk", n, mode) PROVE SlowInv'
    BY <2>1, <2>3, BeginEnqueueStep
  <2> QED BY <2>2, <2>3
<1>2. ppc' # "cleared"
  BY DEF BeginEnqueue
<1> QED BY <1>1, <1>2

\* When it is cleared, the queue stops.
LEMMA ClearedStays ==
  ASSUME ClearedInv, NextStep
  PROVE  UNCHANGED vars
BY DEF ClearedInv, NextStep, BeginEnqueue, EnqueueStep, InsertEntry, GrowIndex, StoreIndexTail,
       RequisitionBlock, NoEntry, NoBlock, RequisitionThrows, Construct, ConstructThrows, Publish,
       DequeueStep, Claim, LoadArray, LoadTail, LoadKey, LoadValue, MoveOut, SetSomeEmpty, FreeIndexEntry,
       ReturnBlock, Clear, Cleared

\* A step that changes nothing.
LEMMA StutterSound ==
  ASSUME Sound, UNCHANGED vars
  PROVE  Sound'
<1>1. /\ HeadIndex' = HeadIndex /\ TailIndex' = TailIndex /\ TailBlock' = TailBlock /\ arrays' = arrays
      /\ entries' = entries /\ Next' = Next /\ Counter' = Counter /\ Slots' = Slots /\ free' = free
      /\ ppc' = ppc /\ enq' = enq /\ pc' = pc /\ deq' = deq
  BY DEF vars, producer, shared, consumers
<1>2. ClearedInv => ClearedInv'
  BY <1>1, ArraysStay DEF ClearedInv, Types
<1>3. ASSUME SlowInv PROVE SlowInv'
  <2>1. /\ \A c : From(c)' = From(c) /\ Pending(c)' = Pending(c) /\ Uncounted(c)' = Uncounted(c)
                  /\ Unmoved(c)' = Unmoved(c)
        /\ Numbers' = Numbers /\ Live' = Live /\ LastNumber' = LastNumber /\ TailNumber' = TailNumber
        /\ \A m : Home(m)' = Home(m) /\ BlockOf(m)' = BlockOf(m)
    BY <1>1 DEF From, Pending, Uncounted, Unmoved, Numbers, Live, New, LastNumber, TailNumber, Num,
                AllDone, Freeing, Done, Home, At, BlockOf, Unstored, Current, Items
  <2>2. Types' /\ CallRight'
    BY <1>1, <1>3 DEF SlowInv, Types, CallRight, LastNumber, Num
  <2>3. ArraysRight'
    BY <1>1, <1>3, ArraysStay DEF SlowInv
  <2>4. ClaimsRight'
    BY <1>1, <1>3 DEF SlowInv, ClaimsRight, Pending, From, Num, AllDone, Done, Uncounted, Items
  <2>5. WindowRight' /\ KeysRight' /\ ValuesRight'
    BY <1>1, <1>3, <2>1 DEF SlowInv, WindowRight, KeysRight, ValuesRight, Current, Unstored, LastNumber, Num
  <2>6. BlocksRight' /\ ChainRight'
    BY <1>1, <1>3, <2>1 DEF SlowInv, BlocksRight, ChainRight, Start, NotYetTail, LastNumber, Num
  <2>7. SlotsRight' /\ CountersRight'
    BY <1>1, <1>3, <2>1 DEF SlowInv, SlotsRight, CountersRight, Stored, Done, Items, Unmoved, Uncounted,
                            Pending, From, Num
  <2>8. LookupsRight'
    <3>1. \A a, m : InArray(a, m) => InArray(a, m)'
      BY <1>1, <2>1 DEF InArray, At0
    <3>2. \A a, t, m : Leads(a, t, m) => Leads(a, t, m)'
      BY <1>1, <2>1 DEF Leads
    <3>3. \A c \in Consumers : LookupRight(c) => LookupRight(c)'
      <4> SUFFICES ASSUME NEW c \in Consumers, LookupRight(c) PROVE LookupRight(c)'
        OBVIOUS
      <4>1. (pc[c] \notin {"idle", "array"} =>
               deq[c].Array \in 1..Len(arrays) /\ \A i \in Uncounted(c) : InArray(deq[c].Array, Num(i)))'
        <5>1. PICK d, U : d = deq[c] /\ U = Uncounted(c)
          OBVIOUS
        <5>2. deq'[c] = d /\ Uncounted(c)' = U
          BY <1>1, <2>1, <5>1
        <5>3. pc[c] \notin {"idle", "array"} =>
               d.Array \in 1..Len(arrays) /\ \A i \in U : InArray(d.Array, Num(i))'
          BY <3>1, <5>1 DEF LookupRight, Num
        <5> QED BY <1>1, <5>2, <5>3 DEF Num
      <4>2. /\ pc[c] = "tail" => Leads(deq[c].Array, arrays[deq[c].Array].Tail, Num(From(c)))'
            /\ pc[c] = "key" => Leads(deq[c].Array, deq[c].Tail, Num(From(c)))'
        <5>1. PICK d, x, n : d = deq[c] /\ x = arrays[d.Array].Tail /\ n = Num(From(c))
          OBVIOUS
        <5>2. deq'[c] = d /\ arrays'[d.Array].Tail = x /\ Num(From(c)') = n
          BY <1>1, <2>1, <5>1
        <5> QED BY <3>2, <5>1, <5>2 DEF LookupRight, Num
      <4> QED BY <1>1, <2>1, <4>1, <4>2 DEF LookupRight, At0, Num
    <3> QED BY <1>3, <3>3 DEF SlowInv, LookupsRight
  <2> QED BY <2>2, <2>3, <2>4, <2>5, <2>6, <2>7, <2>8 DEF SlowInv
<1> QED BY <1>1, <1>2, <1>3 DEF Sound

\* The invariant holds in every state, unless the allocation of a block behind the first one throws.
LEMMA SlowSound ==
  ASSUME "block" \notin Failures
  PROVE  Spec => []Sound
<1>1. Init => Sound
  BY InitStep DEF Sound, Init
<1>2. Sound /\ [NextStep]_vars => Sound'
  <2> SUFFICES ASSUME Sound, NextStep PROVE Sound'
    BY StutterSound
  <2>1. CASE ClearedInv
    BY <2>1, ClearedStays, StutterSound
  <2>2. CASE SlowInv /\ ppc # "cleared"
    <3>1. CASE Clear
      BY <2>2, <3>1, ClearStep DEF Sound
    <3>2. CASE EnqueueStep
      BY <2>2, <3>2, EnqueueStepSound DEF Sound
    <3>3. ASSUME NEW c \in Consumers, DequeueStep(c) \/ \E max \in Requests : Claim(c, max) PROVE Sound'
      BY <2>2, <3>3, DequeueStepSound DEF Sound
    <3>4. ASSUME NEW mode \in Modes,
                 BeginEnqueue("one", 1, mode) \/ \E n \in Batches : BeginEnqueue("bulk", n, mode)
          PROVE  Sound'
      BY <2>2, <3>4, BeginEnqueueSound DEF Sound
    <3>5. ~Cleared
      BY <2>2 DEF Cleared
    <3> QED BY <3>1, <3>2, <3>3, <3>4, <3>5 DEF NextStep
  <2> QED BY <2>1, <2>2 DEF Sound
<1> QED BY <1>1, <1>2, PTL DEF Spec

\* When nobody is at work, exactly the blocks of the items that were not dequeued are in use.
LEMMA QuietBlocks ==
  ASSUME SlowInv, Quiet
  PROVE  Cardinality(Blocks \ free)
           = ((TailIndex + BlockSize - 1) \div BlockSize) - (HeadIndex \div BlockSize)
<1>1. Types /\ BlocksRight
  BY DEF SlowInv
<1>2. PICK first, last : first = Num(HeadIndex) /\ last = LastNumber
  OBVIOUS
<1>3. Numbers = first..last
  BY <1>2, QuietIs
<1>4. first \in Int /\ last \in Int /\ first <= last + 1
  <2>1. HeadIndex \in Int /\ TailIndex \in Int /\ TailIndex - 1 \in Int /\ HeadIndex <= TailIndex
    BY <1>1 DEF Types
  <2>2. Num(HeadIndex) <= Num(TailIndex) /\ Num(HeadIndex) \in Int /\ Num(TailIndex) \in Int /\ Num(TailIndex - 1) \in Int
    BY <2>1, NumMono, NumType
  <2>3. Num(TailIndex) <= Num(TailIndex - 1) + 1
    BY <2>1, <2>2, NumBefore
  <2> QED BY <1>2, <2>2, <2>3 DEF LastNumber
<1>5. PICK f : f = [m \in first..last |-> BlockOf(m)]
  OBVIOUS
<1>6. \A b \in Blocks \ free : \E m \in first..last : BlockOf(m) = b
  BY <1>1, <1>3 DEF BlocksRight, Quiet
<1>7. f \in Bijection(first..last, Blocks \ free)
  <2>1. f \in [first..last -> Blocks \ free]
    BY <1>1, <1>3, <1>5 DEF BlocksRight
  <2>2. \A m, n \in first..last : f[m] = f[n] => m = n
    BY <1>1, <1>3, <1>5 DEF BlocksRight
  <2>3. \A b \in Blocks \ free : \E m \in first..last : f[m] = b
    BY <1>5, <1>6
  <2> QED BY <2>1, <2>2, <2>3 DEF Bijection, Injection, Surjection, IsInjective
<1>8. IsFiniteSet(first..last) /\ Cardinality(first..last) = last - first + 1
  BY <1>4, FS_Interval
<1>9. Cardinality(Blocks \ free) = last - first + 1
  BY <1>7, <1>8, FS_Bijection DEF ExistsBijection
<1>10. (TailIndex + BlockSize - 1) \div BlockSize = last + 1
  BY <1>1, <1>2, NumCeiling DEF LastNumber, Types
<1> QED BY <1>2, <1>4, <1>9, <1>10 DEF Num

\* A consumer that is about to move items out has their block.
LEMMA FoundItems ==
  ASSUME SlowInv, NEW c \in Consumers, pc[c] = "move"
  PROVE  /\ deq[c].Block \in Blocks
         /\ \A i \in Segment(c) : Slots[deq[c].Block][Inner(i)] = i
<1>1. Types /\ ClaimsRight /\ ArraysRight /\ BlocksRight /\ SlotsRight /\ LookupRight(c)
  BY DEF SlowInv, LookupsRight
<1>2. PICK n, B, f, k : n = Num(From(c)) /\ B = deq[c].Block /\ f = From(c) /\ k = deq[c].Need
  OBVIOUS
<1>3. n \in Numbers /\ B = BlockOf(n)
  BY <1>1, <1>2, NumbersOfItems, NumbersType DEF LookupRight
<1>4. /\ f \in Int /\ k \in Nat /\ k >= 1 /\ f + k = deq[c].First + deq[c].Count
      /\ deq[c].First \in Nat /\ deq[c].Count \in Nat
  <2>1. deq[c] \in Deqs /\ f \in Nat /\ k >= 1
    BY <1>1, <1>2, PendingTypes DEF Types, ClaimsRight
  <2> QED BY <1>2, <2>1 DEF Deqs, From
<1>5. Segment(c) = {i \in Pending(c) : Num(i) = n}
  <2>1. Segment(c) = f..(f + Lesser(k, BlockSize - Inner(f)) - 1)
    BY <1>2 DEF Segment, From
  <2>2. Pending(c) = f..(f + k - 1)
    <3>1. PICK e : e = deq[c].First + deq[c].Count - 1
      OBVIOUS
    <3>2. Pending(c) = f..e
      BY <1>2, <3>1 DEF Pending
    <3>3. e = f + k - 1
      <4>1. PICK x, y : x = deq[c].First /\ y = deq[c].Count
        OBVIOUS
      <4>2. x \in Nat /\ y \in Nat /\ f + k = x + y /\ e = (x + y) - 1
        BY <1>4, <3>1, <4>1
      <4>3. PICK z \in Int : z = x + y
        BY <4>2
      <4>4. e = z - 1 /\ f + k = z
        BY <4>2, <4>3
      <4> QED BY <1>4, <4>3, <4>4
    <3> QED BY <3>2, <3>3
  <2>3. f..(f + Lesser(k, BlockSize - Inner(f)) - 1) = {i \in f..(f + k - 1) : Num(i) = Num(f)}
    BY <1>4, SegEnd
  <2>4. n = Num(f)
    BY <1>2
  <2> QED BY <2>1, <2>2, <2>3, <2>4
<1>6. ASSUME NEW i \in Segment(c) PROVE Slots[B][Inner(i)] = i
  <2>1. i \in Pending(c) /\ i \in Nat /\ Num(i) = n /\ i < TailIndex /\ n \in Int
    BY <1>1, <1>2, <1>5, PendingTypes
  <2>2. Stored(i) /\ i \in Items(n)
    BY <2>1, NumItems DEF Stored, Unmoved
  <2> QED BY <1>1, <1>3, <2>2 DEF SlotsRight
<1> QED BY <1>1, <1>2, <1>3, <1>6 DEF BlocksRight

\* No slot is misused.
LEMMA NoneBad ==
  ASSUME SlowInv, NEW b \in Blocks, NEW j \in Places
  PROVE  Slots[b][j] # Bad
<1>1. Types /\ ArraysRight /\ SlotsRight
  BY DEF SlowInv
<1>2. Bad \notin Nat /\ Raw # Bad
  BY SlowQueueAssumption DEF SlowQueueAssumption
<1>3. CASE \E m \in Numbers : b = BlockOf(m)
  <2>1. PICK m \in Numbers : b = BlockOf(m)
    BY <1>3
  <2>2. PICK i : i = m * BlockSize + j
    OBVIOUS
  <2>3. m \in Nat /\ j \in Nat /\ BlockSize \in Nat /\ m \in Int /\ j \in Int
    BY <1>1, NumbersType, BlockSizeIs DEF Places
  <2>4. i \in Nat /\ i \in Int
    <3>1. m * BlockSize \in Nat
      BY <2>3, BlockSizeIs
    <3> QED BY <2>2, <2>3, <3>1
  <2>5. Inner(i) = j /\ i \in Items(m)
    BY <2>2, <2>3, <2>4, NumUnique, NumItems
  <2>6. Slots[b][j] = IF Stored(i) THEN i ELSE Raw
    BY <1>1, <2>1, <2>5 DEF SlotsRight
  <2> QED BY <1>2, <2>4, <2>6
<1>4. CASE ~ \E m \in Numbers : b = BlockOf(m)
  BY <1>1, <1>2, <1>4 DEF SlotsRight
<1> QED BY <1>3, <1>4

-----------------------------------------------------------------------------

\* Every variable of the queue of an implicit producer (SlowQueue in ConcurrentQueue.h)
\* keeps a value of its kind; in particular no index array points outside the entries.
THEOREM SlowTypesHold ==
  ASSUME "block" \notin Failures
  PROVE  Spec => []TypeOK
<1>1. Sound => TypeOK
  <2> SUFFICES ASSUME Types, ArraysRight PROVE TypeOK
    BY DEF Sound, SlowInv, ClearedInv
  <2>1. HeadIndex \in 0..TailIndex /\ TailIndex \in 0..MaxTail
    <3>1. HeadIndex \in Nat /\ TailIndex \in Nat /\ HeadIndex <= TailIndex /\ TailIndex <= MaxTail
      BY DEF Types
    <3>2. MaxTail \in Nat
      BY SlowQueueAssumption DEF SlowQueueAssumption
    <3> QED BY <3>1, <3>2
  <2>2. ASSUME NEW a \in DOMAIN arrays
        PROVE  /\ arrays[a].Tail \in 0..(arrays[a].Size - 1)
               /\ arrays[a].Index \in [0..(arrays[a].Size - 1) -> DOMAIN entries]
    <3>1. a \in 1..Len(arrays) /\ DOMAIN entries = 1..Len(entries)
      <4>1. arrays \in Seq(IndexArrays) /\ entries \in Seq([Key : Nat, Value : Blocks \union {NULL}])
        BY DEF Types
      <4> QED BY <4>1
    <3> QED BY <3>1 DEF ArraysRight, ArrayRight, At0
  <2>3. \A e \in DOMAIN entries : entries[e].Key \in Nat /\ entries[e].Value \in Blocks \union {NULL}
    <3>1. entries \in Seq([Key : Nat, Value : Blocks \union {NULL}])
      BY DEF Types
    <3>2. \A e \in DOMAIN entries : entries[e] \in [Key : Nat, Value : Blocks \union {NULL}]
      BY <3>1, ElementOfSeq, LenProperties
    <3> QED BY <3>2
  <2> QED BY <2>1, <2>2, <2>3 DEF Types, TypeOK
<1> QED BY <1>1, SlowSound, PTL

\* GetBlockIndexEntryForIndex finds the entry, and the block, of the items a consumer has
\* claimed, from whichever tail entry of whichever array it loaded, whatever the producer and
\* the other consumers did to the index since.
THEOREM SlowLookupFinds ==
  ASSUME "block" \notin Failures
  PROVE  Spec => []LookupFinds
<1>1. Sound => LookupFinds
  BY FoundItems DEF Sound, ClearedInv, LookupFinds
<1> QED BY <1>1, SlowSound, PTL

\* No item of the queue is made in a slot that holds one or destroyed where none is, by
\* Enqueue, EnqueueBulk, a constructor that throws, the consumers or the destructor, which
\* leaves none.
THEOREM SlowLifetimesRight ==
  ASSUME "block" \notin Failures
  PROVE  Spec => []LifetimesRight
<1>1. Sound => LifetimesRight
  <2>1. SlowInv /\ ppc # "cleared" => LifetimesRight
    BY NoneBad DEF LifetimesRight
  <2>2. ClearedInv => LifetimesRight
    <3>1. Raw # Bad
      BY SlowQueueAssumption DEF SlowQueueAssumption
    <3> QED BY <3>1 DEF ClearedInv, LifetimesRight
  <2> QED BY <2>1, <2>2 DEF Sound
<1> QED BY <1>1, SlowSound, PTL

\* Calls that fail and consumers that empty a block give each block back to the manager, and
\* once: between calls only the blocks from the first item left to the last are in use.
THEOREM SlowNoBlockLost ==
  ASSUME "block" \notin Failures
  PROVE  Spec => []NoBlockLost
<1>1. Sound => NoBlockLost
  BY QuietBlocks DEF Sound, ClearedInv, NoBlockLost, Quiet
<1> QED BY <1>1, SlowSound, PTL
==============================================================================
