------------------------------ MODULE SlowQueue ------------------------------
(***************************************************************************)
(* SlowQueue, the queue of an implicit producer.  It keeps no ring: a      *)
(* block that consumers emptied goes back to the manager at once, and the  *)
(* consumer that took its last item frees its index entry.  The index is a *)
(* ring of entries in the order of the blocks, and the distance from the   *)
(* entry of the tail block finds every other.                              *)
(*                                                                         *)
(* As in FastQueue, consumers claim indexes in one step (QueueBase has the *)
(* protocol), BlockManager is a set of free blocks, requests from other    *)
(* queues make AllocMode::CannotAlloc fail at any time, and an item is its *)
(* index.                                                                  *)
(***************************************************************************)
EXTENDS Integers, Sequences, FiniteSets

CONSTANTS
  Consumers,
  Blocks,          \* bound: the blocks there are
  BlockSize,
  InitialSize,     \* entries of the first index
  Batches,         \* Count of EnqueueBulk
  Requests,        \* MaxCount of Dequeue (1) and DequeueBulk
  Modes,           \* AllocModes in use
  Failures,        \* what may throw: T's constructor, the allocation of an index, of the
                   \* first block, of a block behind it
  MaxTail,         \* bound: items published in a behaviour
  NULL, Raw, Bad   \* no block; a slot without an object; a slot misused

ASSUME SlowQueueAssumption ==
  /\ BlockSize \in {2, 4, 8, 16, 32, 64} /\ InitialSize \in {2, 4, 8, 16, 32, 64}
  /\ Batches \subseteq Nat \ {0} /\ Requests \subseteq Nat \ {0}
  /\ Modes \subseteq {"CanAlloc", "CannotAlloc"}
  /\ Failures \subseteq {"construct", "index", "first block", "block"} /\ MaxTail \in Nat
  /\ NULL \notin Blocks /\ Raw \notin Nat /\ Bad \notin Nat /\ Raw # Bad

VARIABLES
  HeadIndex, TailIndex,
  TailBlock,             \* the producer's own
  arrays,                \* the IndexEntryArrays, oldest first; the last is current
  entries,               \* the IndexEntries, which the arrays point to and share
  Next, Counter, Slots,  \* fields of the blocks
  free,                  \* blocks at the manager
  ppc, enq,              \* the producer: its place in the code, its locals
  pc, deq                \* the same for each consumer

producer == <<TailBlock, arrays, Next, ppc, enq>>
shared == <<entries, Counter, Slots, free>>
consumers == <<HeadIndex, pc, deq>>
vars == <<TailIndex, producer, shared, consumers>>

Places == 0..(BlockSize - 1)
INVALID_BLOCK_BASE == 1

Inner(i) == i % BlockSize
Lesser(m, n) == IF m < n THEN m ELSE n

-----------------------------------------------------------------------------
(* The index. *)

Current == arrays[Len(arrays)]
NewEntry == [Key |-> INVALID_BLOCK_BASE, Value |-> NULL]

\* GetBlockIndexIndexForIndex, and the steps on from it.
IndexIndex(a, tail, TailBase, index) ==
  (tail + ((index - Inner(index)) - TailBase) \div BlockSize) % a.Size

\* GetBlockIndexEntryForIndex, by the producer.
EntryForIndex(tail, index) ==
  Current.Index[IndexIndex(Current, tail, entries[Current.Index[tail]].Key, index)]

NewTail == (Current.Tail + 1) % Current.Size

\* Mutant: an entry in use is taken for a free one.
FreeEntryAny == TRUE

FreeEntry ==
  LET e == entries[Current.Index[NewTail]]
  IN  e.Key = INVALID_BLOCK_BASE \/ e.Value = NULL

\* Mutant: the new array begins with the first slot, not with the oldest block.
NewArrayUnturned ==
  LET size == Current.Size
  IN  [Size  |-> 2 * size, Tail |-> size - 1,
       Index |-> [k \in 0..(2 * size - 1) |->
                    IF k < size THEN Current.Index[k] ELSE Len(entries) + k - size + 1]]

\* The old entries from the oldest block on, and as many new ones.
NewArray ==
  LET size == Current.Size
  IN  [Size  |-> 2 * size, Tail |-> size - 1,
       Index |-> [k \in 0..(2 * size - 1) |->
                    IF k < size THEN Current.Index[(NewTail + k) % size]
                                ELSE Len(entries) + k - size + 1]]

-----------------------------------------------------------------------------
(* Blocks. *)

\* The block h steps along Next from b.
Hop(b, h) ==
  LET hop[k \in 0..h] == IF k = 0 THEN b ELSE Next[hop[k - 1]]
  IN  hop[h]

\* Objects are made in slots without one, and destroyed in slots with one.
Constructed(b, i, item) == IF Slots[b][i] = Raw THEN item ELSE Bad
Destroy(places) ==
  Slots' = [b \in Blocks |-> [i \in Places |->
             IF <<b, i>> \notin places THEN Slots[b][i]
             ELSE IF Slots[b][i] \in {Raw, Bad} THEN Bad ELSE Raw]]

-----------------------------------------------------------------------------
(* The producer. *)

NoEnq == [op |-> "none", Mode |-> "CanAlloc", Count |-> 0, Need |-> 0, Base |-> 0,
          StartBlock |-> NULL, FirstAllocatedBlock |-> NULL, Taken |-> 0]
NoDeq == [First |-> 0, Count |-> 0, Need |-> 0, Array |-> 0, Tail |-> 0,
          Slot |-> 0, Entry |-> 0, Block |-> NULL]

Init ==
  /\ HeadIndex = 0 /\ TailIndex = 0
  /\ TailBlock = NULL
  /\ arrays = <<[Size |-> InitialSize, Tail |-> InitialSize - 1,
                 Index |-> [k \in 0..(InitialSize - 1) |-> k + 1]]>>
  /\ entries = [e \in 1..InitialSize |-> NewEntry]
  /\ Next = [b \in Blocks |-> NULL]
  /\ Counter = [b \in Blocks |-> 0]
  /\ Slots = [b \in Blocks |-> [i \in Places |-> Raw]]
  /\ free = Blocks
  /\ ppc = "idle" /\ enq = NoEnq
  /\ pc = [c \in Consumers |-> "idle"] /\ deq = [c \in Consumers |-> NoDeq]

NeedCount(count) == ((TailIndex + count - 1) \div BlockSize) - ((TailIndex - 1) \div BlockSize)

\* Enqueue is op "one", EnqueueBulk op "bulk"; Base is the next block's first index.
BeginEnqueue(op, count, mode) ==
  /\ ppc = "idle" /\ TailIndex + count <= MaxTail
  /\ mode = "CanAlloc" => NeedCount(count) <= Cardinality(free)
  /\ enq' = [NoEnq EXCEPT !.op = op, !.Mode = mode, !.Count = count, !.Need = NeedCount(count),
                          !.Base = ((TailIndex - 1) \div BlockSize + 1) * BlockSize,
                          !.StartBlock = TailBlock]
  /\ ppc' = IF NeedCount(count) > 0 THEN "insert" ELSE "fill"
  /\ UNCHANGED <<TailIndex, TailBlock, arrays, Next, shared, consumers>>

\* The call ends without an item.
Fail == ppc' = "idle" /\ enq' = NoEnq

\* InsertBlockIndexEntry.
InsertEntry ==
  /\ ppc = "insert" /\ FreeEntry
  /\ entries' = [entries EXCEPT ![Current.Index[NewTail]].Key = enq.Base]
  /\ ppc' = "tail"
  /\ UNCHANGED <<TailIndex, TailBlock, arrays, Next, enq, Counter, Slots, free, consumers>>

GrowIndex ==
  /\ ppc = "insert" /\ ~FreeEntry /\ enq.Mode = "CanAlloc"
  /\ arrays' = Append(arrays, NewArray)
  /\ entries' = entries \o [e \in 1..Current.Size |-> NewEntry]
  /\ UNCHANGED <<TailIndex, TailBlock, Next, ppc, enq, Counter, Slots, free, consumers>>

StoreIndexTail ==
  /\ ppc = "tail"
  /\ arrays' = [arrays EXCEPT ![Len(arrays)].Tail = NewTail]
  /\ ppc' = "block"
  /\ UNCHANGED <<TailIndex, TailBlock, Next, enq, shared, consumers>>

\* EnqueueBulk stores the block in its entry and chains it to the one before.
RequisitionBlock ==
  /\ ppc = "block"
  /\ \E b \in free :
       /\ free' = free \ {b}
       /\ Counter' = [Counter EXCEPT ![b] = 0]
       /\ enq' = [enq EXCEPT !.Need = @ - 1, !.Base = @ + BlockSize, !.Taken = @ + 1,
                             !.FirstAllocatedBlock = IF @ = NULL THEN b ELSE @]
       /\ IF enq.op = "bulk"
          THEN /\ entries' = [entries EXCEPT ![Current.Index[Current.Tail]].Value = b]
               /\ Next' = [d \in Blocks |->
                     IF d = b THEN NULL
                     ELSE IF d = TailBlock
                             /\ (Inner(TailIndex) # 0 \/ enq.FirstAllocatedBlock # NULL)
                     THEN b ELSE Next[d]]
               /\ TailBlock' = b
          ELSE UNCHANGED <<entries, Next, TailBlock>>
  /\ ppc' = IF enq.Need > 1 THEN "insert" ELSE "fill"
  /\ UNCHANGED <<TailIndex, arrays, Slots, consumers>>

TailBefore(n) == (Current.Tail - n) % Current.Size
NewBlocks ==
  IF enq.Taken = 0 THEN {} ELSE {Hop(enq.FirstAllocatedBlock, h) : h \in 0..(enq.Taken - 1)}

\* The entries the call inserted, looked up one by one as Tail is rewound; extra
\* is 1 if the last one has no block.
NewEntries(extra) ==
  {EntryForIndex(TailBefore(extra + n),
                 ((TailIndex - 1) \div BlockSize + 1 + n) * BlockSize) : n \in 0..(enq.Taken - 1)}
    \union {Current.Index[TailBefore(n)] : n \in 0..(extra - 1)}

EmptyEntries(removed) ==
  entries' = [e \in DOMAIN entries |->
                IF e \in removed THEN [entries[e] EXCEPT !.Value = NULL] ELSE entries[e]]

\* Mutant: the blocks are not given back.
RollBackIndex(extra) ==
  /\ EmptyEntries(NewEntries(extra))
  /\ arrays' = [arrays EXCEPT ![Len(arrays)].Tail = TailBefore(extra + enq.Taken)]
  /\ TailBlock' = enq.StartBlock
  /\ Fail /\ UNCHANGED free

\* One step for several stores to Tail: a consumer that loads one in between
\* gets what it could get before.
RollBack(extra) ==
  /\ EmptyEntries(NewEntries(extra))
  /\ arrays' = [arrays EXCEPT ![Len(arrays)].Tail = TailBefore(extra + enq.Taken)]
  /\ free' = free \union NewBlocks
  /\ TailBlock' = enq.StartBlock
  /\ Fail

\* No free entry, and no larger index may be made, or none can: return false.
NoEntry ==
  /\ ppc = "insert" /\ ~FreeEntry
  /\ enq.Mode = "CannotAlloc" \/ "index" \in Failures
  /\ RollBack(0)
  /\ UNCHANGED <<TailIndex, Next, Counter, Slots, consumers>>

\* No block, and none may be allocated: return false.
NoBlock ==
  /\ ppc = "block" /\ enq.Mode = "CannotAlloc"
  /\ RollBack(1)
  /\ UNCHANGED <<TailIndex, Next, Counter, Slots, consumers>>

\* The allocation of a block throws, and nothing catches it.
RequisitionThrows ==
  /\ ppc = "block" /\ enq.Mode = "CanAlloc"
  /\ (IF TailBlock = NULL THEN "first block" ELSE "block") \in Failures
  /\ Fail
  /\ UNCHANGED <<TailIndex, TailBlock, arrays, Next, shared, consumers>>

\* Where the k-th item of the call goes, along Next from the first block.
FillPlace(k) ==
  <<Hop(IF Inner(TailIndex) = 0 /\ enq.Taken > 0 THEN enq.FirstAllocatedBlock ELSE enq.StartBlock,
        (Inner(TailIndex) + k) \div BlockSize),
    Inner(TailIndex + k)>>

\* Enqueue stores a new block in its entry when it has made the item.
Construct ==
  /\ ppc = "fill"
  /\ Slots' = [b \in Blocks |-> [i \in Places |->
                IF \E k \in 0..(enq.Count - 1) : FillPlace(k) = <<b, i>>
                THEN Constructed(b, i, CHOOSE n \in TailIndex..(TailIndex + enq.Count - 1) :
                                         FillPlace(n - TailIndex) = <<b, i>>)
                ELSE Slots[b][i]]]
  /\ IF enq.op = "one" /\ enq.Taken > 0
     THEN /\ entries' = [entries EXCEPT ![Current.Index[Current.Tail]].Value =
                           enq.FirstAllocatedBlock]
          /\ TailBlock' = enq.FirstAllocatedBlock
     ELSE UNCHANGED <<entries, TailBlock>>
  /\ ppc' = "publish"
  /\ UNCHANGED <<TailIndex, arrays, Next, enq, Counter, free, consumers>>

\* After k items, which are destroyed again.
ConstructThrows(k) ==
  /\ ppc = "fill" /\ "construct" \in Failures
  /\ Slots' = [b \in Blocks |-> [i \in Places |->
                IF \E j \in 0..(k - 1) : FillPlace(j) = <<b, i>> /\ Slots[b][i] # Raw
                THEN Bad ELSE Slots[b][i]]]
  /\ RollBack(0)
  /\ UNCHANGED <<TailIndex, Next, Counter, consumers>>

Publish ==
  /\ ppc = "publish"
  /\ TailIndex' = TailIndex + enq.Count
  /\ ppc' = "idle" /\ enq' = NoEnq
  /\ UNCHANGED <<TailBlock, arrays, Next, shared, consumers>>

EnqueueStep ==
  \/ InsertEntry \/ GrowIndex \/ StoreIndexTail \/ RequisitionBlock
  \/ NoEntry \/ NoBlock \/ RequisitionThrows
  \/ Construct \/ \E k \in 0..(enq.Count - 1) : ConstructThrows(k)
  \/ Publish

-----------------------------------------------------------------------------
(* The consumers.  When an assignment throws, the handler of DequeueBulk     *)
(* destroys the items that are left and goes on as below, to the last one;   *)
(* so does the guard of Dequeue.                                             *)

Goto(c, label) == pc' = [pc EXCEPT ![c] = label]

\* The ticket protocol, up to HeadIndex.fetch_add.
Claim(c, max) ==
  /\ pc[c] = "idle" /\ ppc # "cleared"
  /\ \E n \in 1..Lesser(max, TailIndex - HeadIndex) :
       /\ HeadIndex' = HeadIndex + n
       /\ deq' = [deq EXCEPT ![c].First = HeadIndex, ![c].Count = n, ![c].Need = n]
  /\ Goto(c, "array")
  /\ UNCHANGED <<TailIndex, producer, shared>>

LoadArray(c) ==
  /\ pc[c] = "array"
  /\ deq' = [deq EXCEPT ![c].Array = Len(arrays)]
  /\ Goto(c, "tail")
  /\ UNCHANGED <<HeadIndex, TailIndex, producer, shared>>

LoadTail(c) ==
  /\ pc[c] = "tail"
  /\ deq' = [deq EXCEPT ![c].Tail = arrays[deq[c].Array].Tail]
  /\ Goto(c, "key")
  /\ UNCHANGED <<HeadIndex, TailIndex, producer, shared>>

LoadKey(c) ==
  /\ pc[c] = "key"
  /\ LET a == arrays[deq[c].Array]
     IN  deq' = [deq EXCEPT ![c].Slot =
                   IndexIndex(a, deq[c].Tail, entries[a.Index[deq[c].Tail]].Key, deq[c].First)]
  /\ Goto(c, "value")
  /\ UNCHANGED <<HeadIndex, TailIndex, producer, shared>>

LoadValue(c) ==
  /\ pc[c] = "value"
  /\ LET e == arrays[deq[c].Array].Index[deq[c].Slot]
     IN  deq' = [deq EXCEPT ![c].Entry = e, ![c].Block = entries[e].Value]
  /\ Goto(c, "move")
  /\ UNCHANGED <<HeadIndex, TailIndex, producer, shared>>

\* The indexes of c's items in the block it is at.
Segment(c) ==
  LET first == deq[c].First + deq[c].Count - deq[c].Need
  IN  first..(first + Lesser(deq[c].Need, BlockSize - Inner(first)) - 1)

MoveOut(c) ==
  /\ pc[c] = "move"
  /\ Destroy({<<deq[c].Block, Inner(i)>> : i \in Segment(c)})
  /\ Goto(c, "count")
  /\ UNCHANGED <<HeadIndex, TailIndex, producer, entries, Counter, free, deq>>

\* The items of this block are done: on to the next block, or return.
FollowingBlock(c) ==
  LET need == deq[c].Need - Cardinality(Segment(c))
  IN  IF need = 0
      THEN Goto(c, "idle") /\ deq' = [deq EXCEPT ![c] = NoDeq]
      ELSE /\ Goto(c, "value")
           /\ deq' = [deq EXCEPT ![c].Need = need, ![c].Entry = 0, ![c].Block = NULL,
                                 ![c].Slot = (@ + 1) % arrays[deq[c].Array].Size]

Emptied(c) == Counter[deq[c].Block] + Cardinality(Segment(c))

\* SetEmpty or SetSomeEmpty: true for the one call that empties the block.
SetSomeEmpty(c) ==
  /\ pc[c] = "count"
  /\ Counter' = [Counter EXCEPT ![deq[c].Block] = Emptied(c)]
  /\ IF Emptied(c) = BlockSize THEN Goto(c, "free") /\ UNCHANGED deq ELSE FollowingBlock(c)
  /\ UNCHANGED <<HeadIndex, TailIndex, producer, entries, Slots, free>>

\* Value.store(nullptr): from here on the producer may use the entry.
FreeIndexEntry(c) ==
  /\ pc[c] = "free"
  /\ entries' = [entries EXCEPT ![deq[c].Entry].Value = NULL]
  /\ Goto(c, "return")
  /\ UNCHANGED <<HeadIndex, TailIndex, producer, Counter, Slots, free, deq>>

ReturnBlock(c) ==
  /\ pc[c] = "return"
  /\ free' = free \union {deq[c].Block}
  /\ FollowingBlock(c)
  /\ UNCHANGED <<HeadIndex, TailIndex, producer, entries, Counter, Slots>>

DequeueStep(c) ==
  \/ LoadArray(c) \/ LoadTail(c) \/ LoadKey(c) \/ LoadValue(c)
  \/ MoveOut(c) \/ SetSomeEmpty(c) \/ FreeIndexEntry(c) \/ ReturnBlock(c)

-----------------------------------------------------------------------------
(* Clear, the destructor. *)

\* The block of an item, looked up once for each block.
Remaining(i) == entries[EntryForIndex(Current.Tail, i)].Value

Clear ==
  /\ ppc = "idle" /\ \A c \in Consumers : pc[c] = "idle"
  /\ Destroy({<<Remaining(i), Inner(i)>> : i \in HeadIndex..(TailIndex - 1)})
  /\ free' = free \union {Remaining(i) : i \in HeadIndex..(TailIndex - 1)}
  /\ ppc' = "cleared"
  /\ UNCHANGED <<TailIndex, TailBlock, arrays, entries, Next, Counter, enq, consumers>>

\* Nothing is left to do.
Cleared == ppc = "cleared" /\ UNCHANGED vars

-----------------------------------------------------------------------------

NextStep ==
  \/ \E mode \in Modes :
       \/ BeginEnqueue("one", 1, mode)
       \/ \E n \in Batches : BeginEnqueue("bulk", n, mode)
  \/ EnqueueStep
  \/ \E c \in Consumers : DequeueStep(c) \/ \E max \in Requests : Claim(c, max)
  \/ Clear \/ Cleared

Spec == Init /\ [][NextStep]_vars

-----------------------------------------------------------------------------
(* Properties. *)

\* Every variable holds a value of its kind.
TypeOK ==
  /\ HeadIndex \in 0..TailIndex /\ TailIndex \in 0..MaxTail
  /\ TailBlock \in Blocks \union {NULL}
  /\ \A a \in DOMAIN arrays :
       /\ arrays[a].Tail \in 0..(arrays[a].Size - 1)
       /\ arrays[a].Index \in [0..(arrays[a].Size - 1) -> DOMAIN entries]
  /\ \A e \in DOMAIN entries : entries[e].Key \in Nat /\ entries[e].Value \in Blocks \union {NULL}
  /\ Next \in [Blocks -> Blocks \union {NULL}]
  /\ Counter \in [Blocks -> 0..BlockSize]
  /\ Slots \in [Blocks -> [Places -> 0..(MaxTail - 1) \union {Raw, Bad}]]
  /\ free \subseteq Blocks

\* A consumer finds its items by the distance from whichever tail entry it
\* loaded, in whichever array, though entries are reused, rewound and moved to a
\* larger array meanwhile.
LookupFinds ==
  \A c \in Consumers :
    pc[c] = "move" =>
      /\ deq[c].Block \in Blocks
      /\ \A i \in Segment(c) : Slots[deq[c].Block][Inner(i)] = i

\* Objects are made only in slots without one, destroyed only in slots with one,
\* and all destroyed when the queue is.
LifetimesRight ==
  \A b \in Blocks, i \in Places :
    Slots[b][i] # Bad /\ (ppc = "cleared" => Slots[b][i] = Raw)

\* Between calls every block is at the manager but those between the index to
\* dequeue next and the tail: calls that fail and consumers that empty a block
\* together give each block back, and only once.
Quiet == ppc = "idle" /\ \A c \in Consumers : pc[c] = "idle"
NoBlockLost ==
  Quiet => Cardinality(Blocks \ free)
             = ((TailIndex + BlockSize - 1) \div BlockSize) - (HeadIndex \div BlockSize)

\* "Release all block" (Clear): the destructor gives every block back.
ClearedComplete == ppc = "cleared" => free = Blocks
=============================================================================
