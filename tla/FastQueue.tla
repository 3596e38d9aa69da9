------------------------------ MODULE FastQueue ------------------------------
(***************************************************************************)
(* FastQueue, the single-producer queue behind a ProducerToken: a ring of  *)
(* blocks that the producer fills in order and reuses once their flags say *)
(* that consumers emptied them, and an index of the ring's blocks that     *)
(* consumers search without a lock.                                        *)
(*                                                                         *)
(* Consumers claim indexes in one step here, any number up to what is      *)
(* published: QueueBase has the ticket protocol that does it, and its      *)
(* proofs show that it does no more (QueueBaseImplementsClaimQueue).       *)
(* BlockManager is a set of free blocks; requests from other queues make   *)
(* AllocMode::CannotAlloc fail at any time.  An item is its index.         *)
(***************************************************************************)
EXTENDS Integers, Sequences, FiniteSets

CONSTANTS
  Consumers,
  Blocks,          \* bound: the blocks there are
  BlockSize,
  InitialEntries,  \* entries of the first index
  Batches,         \* Count of EnqueueBulk
  Requests,        \* MaxCount of Dequeue (1) and DequeueBulk
  Modes,           \* AllocModes in use
  Failures,        \* allocations that may throw, each with the Count of the call
  Throws,          \* where T's constructor may throw: the Counts of the calls
  AssignThrows,    \* can the assignment of a dequeued item throw
  Junk,            \* what uninitialized memory may hold as a Base
  MaxTail,         \* bound: items published in a behaviour
  NULL, Raw, Bad   \* no block; a slot without an object; a slot misused

ASSUME FastQueueAssumption ==
  /\ BlockSize \in {2, 4, 8, 16, 32, 64} /\ InitialEntries \in {4, 8, 16, 32, 64}
  /\ Batches \subseteq Nat /\ Requests \subseteq Nat \ {0}
  /\ Modes \subseteq {"CanAlloc", "CannotAlloc"}
  /\ Failures \subseteq {"index", "block"} \X (Batches \union {1})
  /\ Throws \subseteq Batches \union {1} /\ AssignThrows \in BOOLEAN /\ MaxTail \in Nat
  /\ IsFiniteSet(Blocks) /\ NULL \notin Blocks
  /\ Raw \notin Nat /\ Bad \notin Nat /\ Raw # Bad

VARIABLES
  HeadIndex, TailIndex,
  TailBlock, PO_NextIndexEntry, PO_IndexEntriesUsed,   \* the producer's own
  arrays,              \* the IndexEntryArrays, oldest first; the last is current
  Next, Flags, Slots,  \* fields of the blocks; Flags is the set of emptied slots
  free,                \* blocks at the manager
  ppc, enq,            \* the producer: its place in the code, its locals
  harm,                \* history: has a failing call done harm?
  pc, deq              \* the same for each consumer

blockVars == <<Next, Flags, Slots, free>>
indexVars == <<PO_NextIndexEntry, PO_IndexEntriesUsed, arrays>>
producer == <<TailBlock, indexVars, ppc, enq, harm>>
consumers == <<pc, deq>>
vars == <<HeadIndex, TailIndex, producer, blockVars, consumers>>

Places == 0..(BlockSize - 1)

Inner(i) == i % BlockSize
Lesser(m, n) == IF m < n THEN m ELSE n

-----------------------------------------------------------------------------
(* The index of blocks. *)

Current == arrays[Len(arrays)]

Entry(base, b) == [Base |-> base, InnerBlock |-> b]

\* Mutant: the new array's Tail is the first free entry, not the last used.
NewArrayTailFree(size, entries, used, FilledSlot, junk) ==
  [Size    |-> size,
   Tail    |-> FilledSlot,
   Entries |-> [k \in 0..(size - 1) |-> IF k < used THEN entries[k] ELSE Entry(junk, NULL)]]

\* Uninitialized entries: FilledSlot is 0 for the first array, whose Tail wraps.
NewArray(size, entries, used, FilledSlot, junk) ==
  [Size    |-> size,
   Tail    |-> FilledSlot - 1,
   Entries |-> [k \in 0..(size - 1) |-> IF k < used THEN entries[k] ELSE Entry(junk, NULL)]]

\* The entries in use, from the oldest.
UsedEntry(k) ==
  Current.Entries[(PO_NextIndexEntry - PO_IndexEntriesUsed + k) % Current.Size]

CreateNewBlockIndexArray(FilledSlot) ==
  /\ \E junk \in Junk :
       arrays' = Append(arrays,
                        NewArray(2 * Current.Size, [k \in 0..(Current.Size - 1) |-> UsedEntry(k)],
                                 PO_IndexEntriesUsed, FilledSlot, junk))
  /\ PO_NextIndexEntry' = PO_IndexEntriesUsed

WriteEntry(base, b) ==
  arrays' = [arrays EXCEPT ![Len(arrays)].Entries[PO_NextIndexEntry] = Entry(base, b)]

FollowingEntry == (PO_NextIndexEntry + 1) % Current.Size

-----------------------------------------------------------------------------
(* Blocks. *)

\* Mutant: one emptied slot makes a block empty.
IsEmptyAny(b) == Flags[b] # {}

IsEmpty(b) == Flags[b] = Places

\* The block h steps along Next from b.
Hop(b, h) ==
  LET hop[k \in 0..h] == IF k = 0 THEN b ELSE Next[hop[k - 1]]
  IN  hop[h]

Ring == IF TailBlock = NULL THEN {} ELSE {Hop(TailBlock, h) : h \in 1..Cardinality(Blocks)}

\* Objects are made in slots without one, and destroyed in slots with one.
Constructed(b, i, item) == IF Slots[b][i] = Raw THEN item ELSE Bad
Destroyed(b, i) == IF Slots[b][i] \in {Raw, Bad} THEN Bad ELSE Raw
Destroy(places) ==
  Slots' = [b \in Blocks |-> [i \in Places |->
             IF <<b, i>> \in places THEN Destroyed(b, i) ELSE Slots[b][i]]]

-----------------------------------------------------------------------------
(* The producer. *)

NoEnq == [op |-> "none", Mode |-> "CanAlloc", Count |-> 0, Need |-> 0, Base |-> 0,
          StartBlock |-> NULL, FirstAllocatedBlock |-> NULL,
          OriginNext |-> 0, OriginUsed |-> 0]
NoDeq == [First |-> 0, Count |-> 0, Need |-> 0, Array |-> 0, Tail |-> 0, Base |-> 0,
          Block |-> NULL, NextBlock |-> NULL]

Init ==
  /\ HeadIndex = 0 /\ TailIndex = 0
  /\ TailBlock = NULL /\ PO_NextIndexEntry = 0 /\ PO_IndexEntriesUsed = 0
  /\ \E junk \in Junk : arrays = <<NewArray(InitialEntries, <<>>, 0, 0, junk)>>
  /\ Next = [b \in Blocks |-> NULL]
  /\ Flags = [b \in Blocks |-> {}]
  /\ Slots = [b \in Blocks |-> [i \in Places |-> Raw]]
  /\ free = Blocks
  /\ ppc = "idle" /\ enq = NoEnq /\ harm = "none"
  /\ pc = [c \in Consumers |-> "idle"] /\ deq = [c \in Consumers |-> NoDeq]

\* One shift is unsigned, the other signed: no items for an empty queue take more
\* blocks than there are.
BlockCountNeed(count) ==
  IF count + TailIndex = 0 THEN Cardinality(Blocks) + 1
  ELSE ((count + TailIndex - 1) \div BlockSize) - ((TailIndex - 1) \div BlockSize)

\* Enqueue is op "one", EnqueueBulk op "bulk"; Base is CurrentTailIndex.
BeginEnqueue(op, count, mode) ==
  /\ ppc = "idle" /\ TailIndex + count <= MaxTail
  /\ mode = "CanAlloc" => BlockCountNeed(count) <= Cardinality(free)
  /\ enq' = [op |-> op, Mode |-> mode, Count |-> count, Need |-> BlockCountNeed(count),
             Base |-> ((TailIndex - 1) \div BlockSize) * BlockSize,
             StartBlock |-> TailBlock, FirstAllocatedBlock |-> NULL,
             OriginNext |-> PO_NextIndexEntry, OriginUsed |-> PO_IndexEntriesUsed]
  /\ ppc' = IF BlockCountNeed(count) > 0 THEN "block" ELSE "fill"
  /\ harm' = IF harm = "shifted" THEN "none" ELSE harm
  /\ UNCHANGED <<HeadIndex, TailIndex, TailBlock, indexVars, blockVars, consumers>>

\* b becomes the tail block.  EnqueueBulk writes its entry at once.
TakeBlock(b, again) ==
  /\ TailBlock' = b
  /\ Flags' = [Flags EXCEPT ![b] = {}]
  /\ enq' = [enq EXCEPT !.Need = @ - 1, !.Base = @ + BlockSize,
                        !.FirstAllocatedBlock = IF @ = NULL THEN b ELSE @]
  /\ ppc' = IF enq.Need > 1 THEN again ELSE "fill"
  /\ IF enq.op = "bulk"
     THEN WriteEntry(enq.Base + BlockSize, b) /\ PO_NextIndexEntry' = FollowingEntry
     ELSE UNCHANGED <<arrays, PO_NextIndexEntry>>

Reusable == TailBlock # NULL /\ IsEmpty(Next[TailBlock])

ReuseBlock ==
  /\ ppc = "block" /\ Reusable
  /\ TakeBlock(Next[TailBlock], "block")
  /\ UNCHANGED <<HeadIndex, TailIndex, PO_IndexEntriesUsed, Next, Slots, free, harm, consumers>>

NothingToReuse ==
  /\ ppc = "block" /\ ~Reusable
  /\ ppc' = "new"
  /\ UNCHANGED <<HeadIndex, TailIndex, TailBlock, indexVars, enq, harm, blockVars, consumers>>

IndexFull == PO_IndexEntriesUsed = Current.Size

\* A batch has written entries of blocks it reused.  OriginNext becomes the number
\* of the entries in use, these included: RollBack would not take them back.
Shifts ==
  /\ enq.op = "bulk"
  /\ PO_NextIndexEntry
       # (enq.OriginNext + PO_IndexEntriesUsed - enq.OriginUsed) % Current.Size

GrowIndex ==
  /\ ppc = "new" /\ IndexFull /\ enq.Mode = "CanAlloc"
  /\ CreateNewBlockIndexArray(IF enq.op = "one" THEN PO_IndexEntriesUsed ELSE enq.OriginUsed)
  /\ enq' = [enq EXCEPT !.OriginNext = enq.OriginUsed]
  /\ harm' = IF harm = "none" /\ Shifts THEN "shifted" ELSE harm
  /\ UNCHANGED <<HeadIndex, TailIndex, TailBlock, PO_IndexEntriesUsed, ppc, blockVars, consumers>>

\* The block that gets a new Next is one that an exception handler has given up, and
\* of which it has yet to read Next.
Relinks == \E c \in Consumers : pc[c] = "next" /\ deq[c].Block = TailBlock

\* Any block does: none comes back before Clear, so they are interchangeable.
RequisitionBlock ==
  /\ ppc = "new" /\ ~IndexFull /\ free # {}
  /\ LET b == CHOOSE b \in free : TRUE
     IN  /\ free' = free \ {b}
         /\ Next' = IF TailBlock = NULL
                    THEN [Next EXCEPT ![b] = b]
                    ELSE [Next EXCEPT ![b] = Next[TailBlock], ![TailBlock] = b]
         /\ TakeBlock(b, "new")
  /\ PO_IndexEntriesUsed' = PO_IndexEntriesUsed + 1
  /\ harm' = IF Relinks THEN "done" ELSE harm
  /\ UNCHANGED <<HeadIndex, TailIndex, Slots, consumers>>

\* Mutant: the next entry is not taken back.
RollBackBlock == TailBlock' = enq.StartBlock /\ UNCHANGED PO_NextIndexEntry

\* EnqueueBulk forgets the blocks it already took, but not that they are its.
RollBack ==
  /\ PO_NextIndexEntry' = enq.OriginNext
  /\ TailBlock' = enq.StartBlock

\* No room in the index, or no block, and none may be allocated, or the allocation
\* of a new index throws: return false.
EnqueueFails ==
  /\ ppc = "new"
  /\ enq.Mode = "CannotAlloc" \/ (IndexFull /\ <<"index", enq.Count>> \in Failures)
  /\ IF enq.op = "bulk" THEN RollBack ELSE UNCHANGED <<PO_NextIndexEntry, TailBlock>>
  /\ ppc' = "idle" /\ enq' = NoEnq
  /\ UNCHANGED <<HeadIndex, TailIndex, PO_IndexEntriesUsed, arrays, harm, blockVars, consumers>>

TookBlock == enq.FirstAllocatedBlock # NULL

\* The manager's allocation throws, out of the call: nothing is taken back.
RequisitionThrows ==
  /\ ppc = "new" /\ ~IndexFull /\ enq.Mode = "CanAlloc" /\ <<"block", enq.Count>> \in Failures
  /\ ppc' = "idle" /\ enq' = NoEnq
  /\ harm' = IF TookBlock THEN "done" ELSE harm
  /\ UNCHANGED <<HeadIndex, TailIndex, TailBlock, indexVars, blockVars, consumers>>

\* Where the k-th item of the call goes, along Next from the first block.
FillBlock(k) ==
  Hop(IF Inner(TailIndex) = 0 /\ enq.FirstAllocatedBlock # NULL
      THEN enq.FirstAllocatedBlock ELSE enq.StartBlock,
      (Inner(TailIndex) + k) \div BlockSize)
FillPlace(k) == <<FillBlock(k), Inner(TailIndex + k)>>

\* Enqueue writes the entry of a new tail block just before the item.
EnqueueEntry ==
  IF enq.op = "one" /\ TookBlock THEN WriteEntry(enq.Base, TailBlock) ELSE UNCHANGED arrays

\* No items at the end of a block: the last place to fill is that of the item before,
\* so the loop fills the block with what lies behind the caller's range.
Overrun(b) == enq.Count = 0 /\ Inner(TailIndex) = 0 /\ b = enq.StartBlock

Construct ==
  /\ ppc = "fill"
  /\ Slots' = [b \in Blocks |-> [i \in Places |->
                IF Overrun(b) THEN Bad
                ELSE IF \E k \in 0..(enq.Count - 1) : FillPlace(k) = <<b, i>>
                THEN Constructed(b, i, CHOOSE n \in TailIndex..(TailIndex + enq.Count - 1) :
                                         FillPlace(n - TailIndex) = <<b, i>>)
                ELSE Slots[b][i]]]
  /\ EnqueueEntry
  /\ ppc' = IF TookBlock THEN "entry" ELSE "publish"
  /\ UNCHANGED <<HeadIndex, TailIndex, TailBlock, PO_NextIndexEntry, PO_IndexEntriesUsed,
                 enq, harm, Next, Flags, free, consumers>>

\* The blocks the call took are empty again, and the items it made destroyed.
ConstructThrows(k) ==
  /\ ppc = "fill" /\ enq.Count \in Throws
  /\ EnqueueEntry
  /\ Slots' = [b \in Blocks |-> [i \in Places |->
                IF \E j \in 0..(k - 1) : FillPlace(j) = <<b, i>> /\ Slots[b][i] # Raw
                THEN Bad ELSE Slots[b][i]]]
  /\ LET steps == CHOOSE h \in 0..Cardinality(Blocks) :
                    /\ Hop(enq.FirstAllocatedBlock, h) = TailBlock
                    /\ \A g \in 0..(h - 1) : Hop(enq.FirstAllocatedBlock, g) # TailBlock
         emptied == IF TookBlock THEN {Hop(enq.FirstAllocatedBlock, h) : h \in 0..steps} ELSE {}
     IN  Flags' = [b \in Blocks |-> IF b \in emptied THEN Places ELSE Flags[b]]
  /\ IF enq.op = "bulk"
     THEN RollBack
     ELSE /\ TailBlock' = IF enq.StartBlock = NULL THEN TailBlock ELSE enq.StartBlock
          /\ UNCHANGED PO_NextIndexEntry
  /\ ppc' = "idle" /\ enq' = NoEnq
  /\ harm' = IF harm = "shifted" THEN "done" ELSE harm
  /\ UNCHANGED <<HeadIndex, TailIndex, PO_IndexEntriesUsed, Next, free, consumers>>

\* The store to the index's Tail, for EnqueueBulk of the last entry it wrote.
StoreIndexTail ==
  /\ ppc = "entry"
  /\ IF enq.op = "one"
     THEN /\ arrays' = [arrays EXCEPT ![Len(arrays)].Tail = PO_NextIndexEntry]
          /\ PO_NextIndexEntry' = FollowingEntry
     ELSE /\ arrays' = [arrays EXCEPT ![Len(arrays)].Tail = (PO_NextIndexEntry - 1) % Current.Size]
          /\ UNCHANGED PO_NextIndexEntry
  /\ ppc' = "publish"
  /\ UNCHANGED <<HeadIndex, TailIndex, TailBlock, PO_IndexEntriesUsed, enq, harm, blockVars, consumers>>

Publish ==
  /\ ppc = "publish"
  /\ TailIndex' = TailIndex + enq.Count
  /\ ppc' = "idle" /\ enq' = NoEnq
  /\ UNCHANGED <<HeadIndex, TailBlock, indexVars, harm, blockVars, consumers>>

-----------------------------------------------------------------------------
(* The consumers. *)

Goto(c, label) == pc' = [pc EXCEPT ![c] = label]

\* The ticket protocol, up to HeadIndex.fetch_add.
Claim(c, max) ==
  /\ pc[c] = "idle" /\ ppc # "cleared"
  /\ \E n \in 1..Lesser(max, TailIndex - HeadIndex) :
       /\ HeadIndex' = HeadIndex + n
       /\ deq' = [deq EXCEPT ![c].First = HeadIndex, ![c].Count = n, ![c].Need = n]
  /\ Goto(c, "array")
  /\ UNCHANGED <<TailIndex, producer, blockVars>>

LoadArray(c) ==
  /\ pc[c] = "array"
  /\ deq' = [deq EXCEPT ![c].Array = Len(arrays)]
  /\ Goto(c, "tail")
  /\ UNCHANGED <<HeadIndex, TailIndex, producer, blockVars>>

LoadTail(c) ==
  /\ pc[c] = "tail"
  /\ deq' = [deq EXCEPT ![c].Tail = arrays[deq[c].Array].Tail]
  /\ Goto(c, "base")
  /\ UNCHANGED <<HeadIndex, TailIndex, producer, blockVars>>

ReadBase(c) ==
  /\ pc[c] = "base"
  /\ deq' = [deq EXCEPT ![c].Base = arrays[deq[c].Array].Entries[deq[c].Tail].Base]
  /\ Goto(c, "block")
  /\ UNCHANGED <<HeadIndex, TailIndex, producer, blockVars>>

\* The entry of the block of the first index, counted from the one just read.
ReadBlock(c) ==
  /\ pc[c] = "block"
  /\ LET a == arrays[deq[c].Array]
         FirstBlockIndexBase == deq[c].First - Inner(deq[c].First)
         Offset == (FirstBlockIndexBase - deq[c].Base) \div BlockSize
     IN  deq' = [deq EXCEPT ![c].Block = a.Entries[(deq[c].Tail + Offset) % a.Size].InnerBlock]
  /\ Goto(c, "move")
  /\ UNCHANGED <<HeadIndex, TailIndex, producer, blockVars>>

\* The indexes of c's items in the block it is at.
Segment(c) ==
  LET first == deq[c].First + deq[c].Count - deq[c].Need
  IN  first..(first + Lesser(deq[c].Need, BlockSize - Inner(first)) - 1)

\* Move the items out, destroy them, and read Next while the block is ours.
MoveOut(c) ==
  /\ pc[c] = "move"
  /\ Destroy({<<deq[c].Block, Inner(i)>> : i \in Segment(c)})
  /\ deq' = [deq EXCEPT ![c].NextBlock = Next[deq[c].Block]]
  /\ Goto(c, "mark")
  /\ UNCHANGED <<HeadIndex, TailIndex, producer, Next, Flags, free>>

\* SetEmpty or SetSomeEmpty: from here on the producer may reuse the block.
\* The call ends, or goes on with the rest of its items.
MarkEmpty(c, rest) ==
  /\ Flags' = [Flags EXCEPT ![deq[c].Block] = @ \union {Inner(i) : i \in Segment(c)}]
  /\ LET need == deq[c].Need - Cardinality(Segment(c))
     IN  IF need = 0
         THEN Goto(c, "idle") /\ deq' = [deq EXCEPT ![c] = NoDeq]
         ELSE /\ Goto(c, rest)
              /\ deq' = [deq EXCEPT ![c].Need = need, ![c].NextBlock = NULL,
                           ![c].Block = IF deq[c].NextBlock # NULL THEN deq[c].NextBlock ELSE @]
  /\ UNCHANGED <<HeadIndex, TailIndex, producer, Next, Slots, free>>

SetEmpty(c) == pc[c] = "mark" /\ MarkEmpty(c, "move")

\* An assignment throws: the handler destroys the items that are left, block by
\* block, and reads Next when it has set the flags.
DropItems(c) ==
  /\ \/ pc[c] = "move" /\ AssignThrows
     \/ pc[c] = "drop"
  /\ Destroy({<<deq[c].Block, Inner(i)>> : i \in Segment(c)})
  /\ Goto(c, "markDropped")
  /\ UNCHANGED <<HeadIndex, TailIndex, producer, Next, Flags, free, deq>>

SetDroppedEmpty(c) == pc[c] = "markDropped" /\ MarkEmpty(c, "next")

NextDropped(c) ==
  /\ pc[c] = "next"
  /\ deq' = [deq EXCEPT ![c].Block = Next[@]]
  /\ Goto(c, "drop")
  /\ UNCHANGED <<HeadIndex, TailIndex, producer, blockVars>>

DequeueStep(c) ==
  \/ LoadArray(c) \/ LoadTail(c) \/ ReadBase(c) \/ ReadBlock(c)
  \/ MoveOut(c) \/ SetEmpty(c)
  \/ DropItems(c) \/ SetDroppedEmpty(c) \/ NextDropped(c)

-----------------------------------------------------------------------------
(* Clear, the destructor. *)

\* The first entry, from the oldest, whose block HeadIndex has not left.  (The
\* loop has no end if there is none.)
Reached(k) == ~(UsedEntry(k).Base + BlockSize < HeadIndex)
HalfDequeuedBlock ==
  IF Inner(HeadIndex) = 0 THEN NULL
  ELSE UsedEntry(CHOOSE k \in 0..(Current.Size - 1) :
                   Reached(k) /\ \A j \in 0..(k - 1) : ~Reached(j)).InnerBlock

\* Mutant: every block is destroyed from its first slot.
RemainingWhole(b) ==
  LET last  == IF b = TailBlock /\ Inner(TailIndex) # 0 THEN Inner(TailIndex) ELSE BlockSize
  IN  IF IsEmpty(b) THEN {} ELSE {<<b, i>> : i \in 0..(last - 1)}

\* Mutant: a tail block that is full looks like one that is not begun.
RemainingInner(b) ==
  LET first == IF b = HalfDequeuedBlock THEN Inner(HeadIndex) ELSE 0
      last  == IF b = TailBlock THEN Inner(TailIndex) ELSE BlockSize
  IN  IF IsEmpty(b) THEN {} ELSE {<<b, i>> : i \in first..(last - 1)}

Remaining(b) ==
  LET first == IF b = HalfDequeuedBlock THEN Inner(HeadIndex) ELSE 0
      last  == IF b = TailBlock /\ Inner(TailIndex) # 0 THEN Inner(TailIndex) ELSE BlockSize
  IN  IF IsEmpty(b) THEN {} ELSE {<<b, i>> : i \in first..(last - 1)}

Clear ==
  /\ ppc = "idle" /\ \A c \in Consumers : pc[c] = "idle"
  /\ Destroy(UNION {Remaining(b) : b \in Ring})
  /\ free' = free \union Ring
  /\ ppc' = "cleared"
  /\ UNCHANGED <<HeadIndex, TailIndex, TailBlock, indexVars, enq, harm, Next, Flags, consumers>>

\* Nothing is left to do.
Cleared == ppc = "cleared" /\ UNCHANGED vars

-----------------------------------------------------------------------------

EnqueueStep ==
  \/ ReuseBlock \/ NothingToReuse \/ GrowIndex \/ RequisitionBlock \/ EnqueueFails
  \/ RequisitionThrows
  \/ Construct \/ \E k \in 0..(enq.Count - 1) : ConstructThrows(k)
  \/ StoreIndexTail \/ Publish

NextStep ==
  \/ \E mode \in Modes :
       \/ BeginEnqueue("one", 1, mode)
       \/ \E n \in Batches : BeginEnqueue("bulk", n, mode)
  \/ EnqueueStep
  \/ \E c \in Consumers : DequeueStep(c) \/ \E max \in Requests : Claim(c, max)
  \/ Clear \/ Cleared

Spec == Init /\ [][NextStep]_vars

-----------------------------------------------------------------------------
(* Properties. *)

\* Every variable holds a value of its kind.
TypeOK ==
  /\ HeadIndex \in 0..TailIndex /\ TailIndex \in 0..MaxTail
  /\ TailBlock \in Blocks \union {NULL}
  /\ PO_NextIndexEntry \in 0..(Current.Size - 1)
  /\ PO_IndexEntriesUsed \in 0..Current.Size
  /\ Next \in [Blocks -> Blocks \union {NULL}]
  /\ Flags \in [Blocks -> SUBSET Places]
  /\ Slots \in [Blocks -> [Places -> 0..(MaxTail - 1) \union {Raw, Bad}]]
  /\ free \subseteq Blocks
  /\ harm \in {"none", "shifted", "done"}
  /\ \A a \in DOMAIN arrays :
       /\ arrays[a].Tail \in -1..(arrays[a].Size - 1)
       /\ DOMAIN arrays[a].Entries = 0..(arrays[a].Size - 1)

\* A consumer finds its items: whichever array and whichever tail entry it
\* loaded, however far the producer has moved on since, the block it computes
\* holds the items of its indexes at their places.
LookupFinds ==
  \A c \in Consumers :
    pc[c] \in {"move", "drop"} =>
      /\ deq[c].Block \in Blocks
      /\ \A i \in Segment(c) : Slots[deq[c].Block][Inner(i)] = i

\* Every published item nobody claimed is stored, in one slot: no block is
\* reused, and no slot written, under an item somebody still has to get.
UnclaimedStored ==
  \A i \in HeadIndex..(TailIndex - 1) :
    ppc # "cleared"
      => Cardinality({p \in Blocks \X Places : Slots[p[1]][p[2]] = i}) = 1

\* What fails is absorbed.  Whatever enqueues were given up half-way and rolled back,
\* and whatever items a failing dequeue dropped, consumers find the blocks of their
\* items and no published item is lost or overwritten, unless one of three things
\* happened: T's constructor threw in a batch that had reused a block and then made a
\* new index (CQ 425, 485); the allocation of a block threw out of a batch that had
\* taken one (428); a block was linked behind the one whose Next a handler, having
\* given it up, was about to read (651).
FailuresAbsorbed == harm # "done" => LookupFinds /\ UnclaimedStored

\* Objects are made only in slots without one and destroyed only in slots with
\* one, by producer, consumers and destructor.
LifetimesRight == \A b \in Blocks, i \in Places : Slots[b][i] # Bad

\* The destructor leaves no object behind and gives every block back.
ClearedComplete ==
  ppc = "cleared" => /\ \A b \in Blocks, i \in Places : Slots[b][i] \in {Raw, Bad}
                     /\ free = Blocks
=============================================================================
