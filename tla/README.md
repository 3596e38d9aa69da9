# LockFreeStructures: specifications, model checking, proofs

TLA+ models of the queues in this repository: `ConcurrentQueue`
(multi-producer multi-consumer, `src/ConcurrentQueue/`) and `ReaderWriterQueue`
(single producer, single consumer, `src/ReaderWriterQueue/`). References to
`CQ`, `BM`, `HT` and `RW` below are to `ConcurrentQueue/ConcurrentQueue.h`,
`ConcurrentQueue/BlockManager.h`, `ConcurrentQueue/HashTable.h` and
`ReaderWriterQueue/readerwriterqueue.h`.

`PROJECT.json` lists the components, the runs, a mutation of the model that breaks
each property, the source lines each definition stands for, and the hazards.

    tlc -config MCFreeList.cfg MCFreeList      # any run: MC module and its .cfg
    tlapm QueueBase_proofs.tla                 # the proofs of a module

## 1. The system

| Component | State | Operations | Talks to |
|---|---|---|---|
| `_QueueBase` (CQ 76-146) | `HeadIndex`, `TailIndex`, `DequeueAttemptsCount`, `DequeueFailedCount` of one producer's queue | the four counters' loads and `fetch_add`s in `Dequeue` and `DequeueBulk`, the producer's store to `TailIndex` | shared by one producer and all consumers |
| `FastQueue` (CQ 148-749), behind a `ProducerToken` | a ring of blocks, an index of the ring that grows, the producer's `PO_*` fields | `Enqueue`, `EnqueueBulk`, `Dequeue`, `DequeueBulk`, the destructor | its base's counters, the block manager |
| `SlowQueue` (CQ 751-1322), of a thread without a token | an index of entries that arrays share and consumers free | the same | the same; consumers too return blocks |
| `Block` (Block.h) | slots, `Next`, and either a flag per slot or a counter of emptied slots | `SetEmpty`, `SetSomeEmpty`, `IsEmpty`, `Reset` | used by both queues |
| `FreeList` (BM 79-200) | head, and in each node a next, and references with a flag in one word | `Add`, `TryGet`, `Clear` | any thread |
| `BlockPool`, `HakleBlockManager` (BM 287-490) | an array of blocks with an index, the free list | `RequisitionBlock`, `ReturnBlock`, `ReturnBlocks`, the destructor | called by both queues |
| `ConcurrentQueue` (CQ 1350-1989) | a list of producers, tokens, a count of producers, a global offset for rotation | token and tokenless calls, registration and recycling of producers, move, swap | the two queues, `HashTable` |
| `HashTable` (HashTable.h) | a chain of open-addressing tables | `Get`, `Set`, `GetOrAdd`, growth | thread id to implicit producer |
| `ReaderWriterQueue` (RW 88-569) | a ring of circular buffers, each with both sides' indexes and copies of them | `TryEnqueue`, `Enqueue`, `TryDequeue`, `Peek`, `Pop`, the destructor | one producer, one consumer |
| `LightWeightSemaphore` (RW 577-644) | a count, a `std::binary_semaphore` | `TryWait`, `Wait` with a timeout, `Signal` | one waiter, one signaller |
| `BlockingReaderWriterQueue` (RW 889-1009) | a ring and a semaphore | enqueues that signal, dequeues that wait | the two above |
| common/ | none | allocators, `CompressPair`, `CeilToPow2`, `CircularLessThan` | everything |

What is hard, and what makes each part correct:

* **Counters.** A consumer draws a ticket and only then learns whether there is an
  item for it; it compares with a failure count that is older than its ticket, and
  hands tickets back that others have been counting. Correct: no index is given
  out before it is published, none twice, none lost, and a consumer left alone
  gets everything.
* **Block indexes.** Consumers compute a block from whichever array, tail and
  entry they happen to load while the producer rewrites, rewinds or replaces
  them. Correct: the block computed holds the item; no item is overwritten.
* **Failures.** Enqueues fail half way because a block, an index entry or an
  allocation is denied or a constructor throws; dequeues because an assignment
  throws. Correct: all is undone, or at least nobody notices; each object is made
  and destroyed once; every block comes back.
* **Producers.** Threads register, leave producers behind and take over others'
  while consumers walk the list, divide by its length and rotate. Correct: a
  producer has one owner at most, none is lost, the count covers what can be
  seen, and a dequeue nobody overlaps finds what is there.
* **Hash table.** A lookup works on the table that was the newest when it began, while
  others make larger ones. Correct: a thread finds what it added, every probe ends,
  one thread at a time makes a table.
* **Moves.** A queue is moved with its producers, which point to the manager of the
  object that created them. Correct would be: no list holds a block whose storage
  is gone.
* **Free list.** ABA, and references that change together with a flag. Correct:
  one owner for a node, none lost, and somebody always gets on.
* **Ring.** Each side trusts an old copy of the other's index; the ring grows behind
  the consumer. Correct: FIFO; an empty answer was true at some time; the blocks
  the two sides go on to are as the assertions say.
* **Semaphore.** Wakeups lost between counter and kernel; timeouts against late
  signals. Correct: a signal for a wait, a wait for a signal.

## 2. The modules

| Module | Stands for | Notes |
|---|---|---|
| `ClaimQueue` | nothing in the code: the abstract queue | consumers claim published indexes in order, any number at once |
| `QueueBase` | the counters | an action per load and `fetch_add`; `taken`, `refunded` are history |
| `QueueBase_proofs` | | the theorems about `QueueBase` |
| `FastQueue` | `FastQueue` with `FlagsCheckPolicy` blocks | claims are one step, as in `ClaimQueue`; `harm` is history |
| `FastQueue_proofs` | | lookups, nothing overwritten, lifetimes, the destructor |
| `SlowQueue` | `SlowQueue` with `CounterCheckPolicy` blocks | the same |
| `SlowQueue_proofs` | | lookups, lifetimes, no block lost |
| `ConcurrentQueue` | list of producers, tokens, dequeues over all producers | a sub-queue is the number of its items |
| `ConcurrentQueue_proofs` | | producers have one owner; the list is complete and its count covers it; "empty" is true; quotas are kept |
| `HashTable` | `HashTable` | a thread stands for its id, the key |
| `HashTable_proofs` | | keys are found; one thread at a time makes a table; probes end |
| `QueueMove` | construction, move, swap and destruction of queues with their managers | one thread |
| `FreeList` | `FreeList` | the reference word scaled down: `AddFlag` is its top bit, sums are modulo `2 * AddFlag` |
| `BlockManager` | `BlockPool`, `HakleBlockManager` | extends `FreeList`, whose nodes are the pool's and the heap's blocks; `Store` holds those not given out yet |
| `BlockManager_proofs` | | first the list: one owner for a node, none lost; then the manager: the pool's counter is bounded; one holder for a block, none lost |
| `ReaderWriterQueue` | `ReaderWriterQueue` | the blocks are a sequence in the order of their making, linked by `Next` |
| `LightWeightSemaphore` | the C++20 class | |
| `LightWeightSemaphore_proofs` | | no signal lost, one announcement |
| `BlockingReaderWriterQueue` | the blocking queue | extends the ring, instantiates the semaphore |
| `BlockingReaderWriterQueue_proofs` | | first the ring: lifetimes, empty answers, the asserts, what is reserved, refinement of `ClaimQueue`; then the blocking queue: it uses the ring as one producer and one consumer; granted waits find items |
| `MC*` | | each extends a module above; its `.cfg` gives constants and properties |

Names are the code's. A variable `pc` (`ppc` the producer's, `cpc` and `wpc` the
consumer's) says where a call stands, a record (`enq`, `deq`) holds its locals, and
each action is one access to something another thread can change, together with
the private computation up to the next. `NULL` is `nullptr`; `Raw` is a slot
without an object; `Bad` marks a slot in which an object was made over another,
or destroyed twice. An item is its index, so "the slot holds the right item" is
`Slots[b][i] = index`. Definitions under a comment that begins `Mutant:` are
changed forms of the definition after them. Nothing uses them in a run; they
show that a property notices the change.

How the modules compose:

* `FastQueue` and `SlowQueue` replace the counters by one step `Claim`. That this is
  right is `QueueBaseImplementsClaimQueue`: every behaviour of the counters is one
  of `ClaimQueue`. They replace the manager by a set `free`; that `BlockManager`
  gives a block to one caller at a time is `HeldExclusively`, proved as
  `BlocksHeldExclusively`. Since other queues
  use the manager, a request with `CannotAlloc` may fail at any time.
* `ConcurrentQueue` replaces each sub-queue by a count of its items, as `ClaimQueue` and
  `tickets` allow: a consumer alone gets what there is, an overlapped one that or
  less. It replaces the map from threads to implicit producers by a function
  `Implicit`, which `KeyFound` of `HashTable` (proved as `KeysFound`) justifies: a thread
  finds the producer it added and no other. Its variable `plan` says what the threads may do in a
  behaviour; it is chosen from `Plans` at the start and never changes.
* `QueueMove` is about lifetimes only: which object holds which list, pool and
  producers, and where each block is. What happens inside a manager is
  `BlockManager`'s.
* `BlockManager` uses `FreeList`'s actions and adds where in a call a thread is. To the
  list every node has a holder from the beginning: the blocks the pool's array still has
  and those the heap has not given out are held by the thread `Store`, which makes no
  calls and refers to nothing. What `GetBlock` or an allocation does is to the list a
  `HandOver` from one holder to another, so each step of the manager is a step of the list.
* `BlockingReaderWriterQueue` conjoins steps of ring and semaphore: a signal
  follows each published item, a dequeue begins when a wait returned true.

## 3. The runs

The bounds are named constants (`MaxTail`, `MaxAttempts`, `MaxItems`, `MaxSignals`,
`MaxBlocks`, `MaxCount`, `MaxCalls`, `MaxNodes`, `Plans`, `PoolSize`, the sets of blocks
and threads).

| Run | Bounds | Shows |
|---|---|---|
| `tickets` | 2 consumers, requests for 0 to 2 items, batches of 1 and 2, 3 items, 5 contended tickets | `TicketInv` and its consequences; `ImplementsClaimQueue`; `LoneConsumerDrains`. Two consumers suffice for a refund between another's draw and check; the theorems are for any number. |
| `free_list` | 3 threads, 2 nodes | ABA takes two nodes and two threads, the third adds while both stand in `TryGet`. `HeldOnce` (a loop in the list would break it too), `SettledWhenQuiet`. |
| `manager` | 2 threads, 1 pool block, 1 heap block | overshooting of the pool's index, chains whose first block is reused while the walk goes on, destruction, and `LockFree`. |
| `fast_alloc` | 2 consumers, 5 blocks of 2, first index of 4 entries, 10 items, one at a time or 3 at once | the ring wraps and grows; the index wraps, or grows from 4 to 8 entries when its first 4 are in use. 10 items are too few for it to grow after it has wrapped: that case is `LookupsFind`'s, for every size. Bulk calls span blocks, consumers are delayed anywhere; in a call for one item the allocation of a block or an index may throw. |
| `fast_fail` | 1 consumer, 6 blocks of 2, first index of 4 entries, 9 items, one at a time or 3 at once, both modes; every allocation, constructor and assignment may fail in every call | the ring and the index grow, the blocks of given-up enqueues stay in the ring and are used again. `FailuresAbsorbed`: lookups stay right and no published item is lost, except after one of three sequences of steps, which the history variable `harm` records (`RequisitionBlock`, `RequisitionThrows`, `ConstructThrows`). Each exception is needed within these bounds: without it the run ends in a violation (section 5). The constraint `HarmNotDone` leaves out only states behind one of the three, of which `FailuresAbsorbed` says nothing. A stale lookup needs one consumer and the producer; two consumers are in `fast_alloc`. |
| `slow` | 2 consumers, 3 blocks of 2, first index of 2 entries, 5 items, both modes | entries are reused, freed, rewound; the index grows with its oldest entry not in the first place; every failure but the one in the findings. |
| `ring` | first block of 2 slots, then of 4, 7 items | the ring grows with the consumer in any of its blocks; refinement of `ClaimQueue`. |
| `semaphore` | 4 signals, waits without, with zero and with some timeout | every race of timeout and signal. |
| `blocking` | 3 blocks of 2 slots and one more, 4 items | a granted wait finds its item; the reserved room; delivery. |
| `hash_table` | 3 threads with one hash, first table of 2 slots, two threads with 2 calls and one with 1 | tables of 2, 4 and 8 slots; a thread that works on a table two behind; two that see it half full together; an allocation that throws and leaves the flag. |
| `concurrent_queue` | 3 producers, 2 consumers, `QUOTA = 2`, `Width = 8`, `BulkCount = 2`, in four plans | *Recycling*: tokens and implicit producers come and go on up to 4 nodes. *Overlap*: a consumer with a token and one without on 2 nodes and 2 items. *Rotation*: two tokens that move each other on. *Alone*: one consumer mixes all ways to dequeue on 3 nodes. |
| `queue_move` | 2 queue objects, 2 producers, pools of 2, 1 heap block | violated: see the findings. |

A property of the tables is preceded in its module by a comment that states it. Each
module also defines a `TypeOK`, which can be added to a `.cfg`; it is listed for `tickets`,
where the locals are differences that must not go below zero.

**Deadlock** is checked except in the runs of semaphore and blocking queue, whose
consumer sleeps for good when the producer has nothing more to send, and in
`queue_move`, which stops before an object that is gone is used. Elsewhere
the systems end in a state that repeats (`Cleared`, `Destroyed`, `Finished`), or
never end.

**Symmetry** is used for consumers, producers, blocks, threads and nodes in safety
runs that treat them alike; not in `tickets`, `manager` and `hash_table`, which check
liveness.

**Bounds that shape behaviour.** `MaxAttempts` limits the tickets drawn while
calls overlap: two consumers that keep rejecting each other's tickets can do so for
ever, with an item there for both. The code does not exclude that, and
`LoneConsumerDrains` claims progress only for a consumer others have left alone.
A caller asks the model's manager for a heap block only if there is one left
(`HeapHasRoom`), as if memory never ran out. `AddFlag` is 8 in `free_list` and 5 in
`manager`, above what the references of three threads (`Store` is one of them)
and of the list come to. `Acquire` begins only while there is a
node left for each thread that may come to create one. `MaxCount` stops a timed-out waiter
that waits for a release under way from counting up without end (the loop at
RW 629-641 adds one each turn).

**Fairness.** Weak fairness of the steps inside calls: a thread in a call is
scheduled again. For `LockFree` it is weaker, only that some thread in a call is.
`CallsReturn` assumes it of each thread: whoever waits for another's table needs that
one to run, so the hash table is not lock-free. Nobody has to begin a call.
The liveness of the semaphore and of the blocking queue also assumes that the
consumer keeps calling `Wait` or `Dequeue` without a timeout, which is what "is
woken" is about; in the blocking queue that is strong fairness, as `Peek` or
`TryDequeue` calls can come in between without end. Nobody has to enqueue.

**Memory order.** Behaviours are interleavings of atomic accesses. Where
ReaderWriterQueue leaves a taken (stored) item and the index behind (before) it
without a fence, both orders are modelled. The loads of TailBlock and of the
own block's Tail at RW 221 have no fence between them either and are modelled in
program order; see the findings. In QueueBase the order of the operands of
CQ 585 is left open. `ConcurrentQueue` is taken to be sequentially consistent. Two
places in the code need more than they ask for on a machine that reorders: the scan
for an inactive producer follows `Next` from a relaxed load of the head (CQ 1815), and
the compare-and-swap that takes a producer over is a release, not an acquire, of
what its last owner wrote (CQ 1818).

## 4. The proofs

A theorem holds for every value of the constants that the assumptions of its module
(`...Assumption`) allow, and for the hypotheses named below where it has some. What is
proved of a module with a bound on items, calls or blocks holds for every bound.

| Module | Inductive invariant | Properties of the runs that follow from it |
|---|---|---|
| `QueueBase_proofs` | `TicketInv` | `TypeOK`, `HeadBehindTail`, `NoTicketLost`, `DifferencesExact`, `ImplementsClaimQueue` |
| `FastQueue_proofs` | `FastInv`, then `ClearedInv` | `LookupFinds`, `UnclaimedStored`, `LifetimesRight`, `ClearedComplete` |
| `SlowQueue_proofs` | `SlowInv` | `LookupFinds`, `LifetimesRight`, `NoBlockLost` |
| `BlockManager_proofs` | `ListInv` of the list, `PoolInv`, `ManagerInv` | `HeldOnce`, `SettledWhenQuiet`; `IndexBounded`, `HeldExclusively`, `NoBlockLost` |
| `LightWeightSemaphore_proofs` | `SemInv` | `OneAnnounced`, `SignalsKept` |
| `BlockingReaderWriterQueue_proofs` | `QueueInv` and `ReserveInv` of the ring, `BlockingInv` | `LifetimesRight`, `EmptyIsEmpty`, `NextBlockAsserted`, `ReservedHeld`, `ImplementsFifo`; `DequeueSucceeds`, and the last two again |
| `HashTable_proofs` | `TableInv`, `GrowthInv`, `RoomInv` | `KeyFound`, `GrowthExclusive`, `ProbesEnd` |
| `ConcurrentQueue_proofs` | `OwnerInv`, `ListInv`, `AnswerInv`, `RotationInv` | `OneOwner`, `ListComplete`, `CountCoversList`, `EmptyAnswer`, `RotationDue` |

### The counters

`QueueBase_proofs` proves, for every set of consumers and every choice of batches
and requests, from `QueueBaseAssumption` alone:

| Theorem | Statement |
|---|---|
| `TypeCorrect` | `Spec => []TypeOK` |
| `TicketsCorrect` | `Spec => []TicketInv` |
| `HeadNeverPassesTail` | `Spec => []HeadBehindTail` |
| `TicketsNeverLost` | `Spec => []NoTicketLost` |
| `DifferencesNeverWrap` | `Spec => []DifferencesExact` |
| `QueueBaseImplementsClaimQueue` | `Spec => ImplementsClaimQueue` |

`HeadBehindTail` is not inductive: nothing in it says why a check with old numbers
may be trusted. The argument needs to know where tickets are. Number them in the
order they are drawn. Each ticket drawn is *taken* (exchanged for an index),
*refunded*, or *open* at one consumer (`TicketsSettledOnce`), and the counters count
the first two sets (`CountersMatch`). A consumer's old failure count never exceeds the
number of refunded tickets below its own (`FailuresKnown`): failures are counted
after a refund of tickets already drawn. So a ticket `t` that passes the check
satisfies `t < TailIndex + (refunded tickets below t)`, and that stays true, because
the right side only grows (`GrantsBounded`). Now take the largest ticket ever
granted: below it lie all taken tickets and the refunded ones the bound counts,
disjoint sets, so the taken ones alone fit below `TailIndex` (`SharedRoom`,
`TakenBounded`). That is `HeadBehindTail`. The unsigned differences never wrap
because refunds and takes are disjoint subsets of the tickets drawn.

The refinement maps `TailIndex` to `published`, `HeadIndex` to `acquired`, and the
range a consumer is moving out to `holding`. Only `Publish`, `Advance` and `Take`
are steps of the abstract queue; `Advance` is one because `HeadBehindTail` holds
after it.

It also follows that the code's test that a dequeued index lies below the tail
cannot fail, and that `CircularLessThan` on these counters is the order of the
integers until they wrap.

### The queue behind a token

`FastQueue_proofs`, for every number of consumers, blocks and items, every block size and size
of the index, enqueues of one item and of many:

| Theorem | Hypothesis | Statement |
|---|---|---|
| `FastAlways` | `NoBulkFails` | `Spec => [](FastInv \/ ClearedInv)` |
| `FastTypes` | the same | `Spec => []TypeOK` |
| `LookupsFind` | the same | `Spec => []LookupFinds` |
| `UnclaimedStay` | the same | `Spec => []UnclaimedStored` |
| `LifetimesStay` | the same | `Spec => []LifetimesRight` |
| `ClearLeavesNothing` | the same | `Spec => []ClearedComplete` |

`NoBulkFails` says that a call fails only where it leaves nothing half done: an allocation may
throw, or `CannotAlloc` find no block, in an enqueue of one item, before it has taken a block; no
constructor or assignment throws; there are no batches of no items. Each of the other failures
makes one of the four properties false for some constants; section 5 lists them. The run
`fast_alloc` satisfies the hypothesis, `fast_fail` does not: there the lookups survive all
failures but three sequences of steps, and lifetimes are not asked for. Nothing in the
argument rests on the history variable `harm`; `HarmAlways` gives its type apart from the rest.

This index has no keys to compare. A consumer reads an array, its tail and the base at the
tail, and computes how many entries on its block's is. `FastInv` says that there are two
functions that make this right: `B[m]` is the block of the items from `m * BlockSize`, and `D[a]` the place
where array `a` has the entry of block 0, so that block `m`'s is at `(D[a] + m) % Size` (`Numbering`).
The blocks in the ring are a window of these numbers, and the producer going round the ring
moves the window.

* `RingRight`: `Next` goes through the blocks of the window and from its last to its first, each
  block once. A block gets a new number only when all its items are done (`AllDone`).
* `IndexRight`: the current array has all entries of the window, and room for them.
  `ArrayRight`: whatever an array of any age has in an entry, its base is that of a block whose
  place this is. So the difference of two bases is a distance in the array, though entries
  are overwritten while the consumer reads.
* `LookupRight`: the array a consumer has loaded has its block's entry until it has the block:
  the items it has claimed are not done, so their block keeps its number.
* `FlagsRight`, `SlotsRight`: a flag says that the item of its slot is done, a slot has its item
  exactly from when it is made until it is moved out.
* `ClaimsRight`, `CallRight`: claims do not overlap, and the counts of the running call add up.

The steps that need most are the growth of the index, which copies the window to the start of
a new array and so gives it a `D` of its own, and the destructor: its walk along `Next` comes to every
block of the window, since the window has no more numbers than there are blocks; the
block it takes for the half dequeued one is that of `HeadIndex`; what it destroys is what is stored.

### The queue of an implicit producer

`SlowQueue_proofs`, for every number of consumers, blocks and items, every block size and size
of the index, enqueues of one item and of many, items whose constructor throws and failing
allocations of an index:

| Theorem | Hypothesis | Statement |
|---|---|---|
| `SlowTypesHold` | `"block" \notin Failures` | `Spec => []TypeOK` |
| `SlowLookupFinds` | the same | `Spec => []LookupFinds` |
| `SlowLifetimesRight` | the same | `Spec => []LifetimesRight` |
| `SlowNoBlockLost` | the same | `Spec => []NoBlockLost` |

The hypothesis is that no allocation of a block throws; `CannotAlloc` calls may still find no
block. Without it `LookupFinds` is false: CQ 886 in section 5.

None of the three properties says where an entry of the index is, which is all they depend
on. `SlowInv` numbers the blocks in the order of their items, and says which are *in the index*
(`Numbers`): those with an item that is not done, those whose last item is done and whose
entry a consumer is about to free, and those the running call has taken. Its parts:

* `ArraysRight`: every array ever made is a ring of different entries, and the current one
  goes round all of them in an order of which each older array's is a part. A growing index
  copies, so a consumer with an old array finds the same entry objects.
* `WindowRight`: the blocks in the index are no more than the ring has entries, counted from
  Tail. With this `(m + d) % Size` decides which entry a block has, and no two have the same one.
* `KeysRight`, `ValuesRight`: the entry of a block in the index has its key, and a block,
  exactly then. That an entry without a block is free for the next number is what
  `InsertBlockIndexEntry` relies on. The entry at Tail keeps its key while its block has items
  left, so a distance from it is a distance in blocks.
* `LookupsRight`: what a consumer has read of array, Tail and key leads from there to the
  entry of its items (`Leads`), whatever has become of Tail since, and the array it took
  has an entry for all that it still has to see to.
* `BlocksRight`, `ChainRight`, `SlotsRight`, `CountersRight`: each block is at the manager, in
  the index once, or on its way back with one consumer; the blocks of a running call hang
  together by `Next`; a slot has its item from when it is made until it is moved out; the
  block's count is that of its items done.
* `ClaimsRight`, `CallRight`: claims do not overlap, and the counts of a running call add up.

The hard steps are the growth of the index, the roll-back of a bulk call (which gives up `New`
and rewinds Tail), and the last item of a block: two consumers count at the same time, one of
them comes to the block's size and frees the entry, and until it does so the block stays in
the index (`Freeing`), though all its items are done. The queue that was destroyed is apart
(`ClearedInv`).

### The free list

`BlockManager_proofs` proves of `FreeList`, for every finite set of threads, every set of nodes and every
`AddFlag` above the number of threads plus one (the code's is 2^31):

| Theorem | Statement |
|---|---|
| `ListCorrect` | `ListSpec => []ListInv` |
| `ListTypesCorrect` | `ListSpec => []ListTypeOK` |
| `NodesHeldOnce` | `ListSpec => []HeldOnce` |
| `NodesNeverLost` | `ListSpec => []SettledWhenQuiet` |

Neither property is inductive: they say nothing of the words a thread has read and not
used yet. `ListInv` follows each node. A node has at most one *owner*: who holds it, who
adds it with the flag set (`Adding`) or with the list's reference in it (`Offering`),
or who has just taken it off the head (`Taking`). Its word is the number of threads
that refer to it, plus one for the list, plus the flag, each exactly when it should be
there (`Counted`). A node without owner and without flag is *linked*, and the linked
nodes are the chain from the head (`Chained`): they are closed under `FreeListNext`, no
two have the same next, none leads back to the head, and every closed set contains
them. The last part says that nothing on the chain is out of reach of a walk; it makes
`Linked` equal to `OnList` without counting steps along the chain.

That the list is safe from ABA is one conjunct of `Locals`: a thread at the exchange
of the head has in `Next_` what is now the next of the node it refers to. It is kept
because only `InnerAddNext` writes a next, its thread then owns the node as `Adding`, and
such a node is referred to by nobody. `Counted` gives that, because a reference is only
taken to a word whose count is not zero. `ListTypesCorrect` says that no sum carries into
the flag and no difference borrows from it.

### The block manager

`BlockManager_proofs`, for every pool, every heap and every finite set of threads with at
least one caller: `PoolIndexBounded` (`[]IndexBounded`), `BlocksCorrect` (`[]ManagerInv`),
`BlocksHeldExclusively` (`[]HeldExclusively`), `BlocksNeverLost` (`[]NoBlockLost`),
`ManagerTypesCorrect` (`[]TypeOK`).

For the pool's index what is kept is `Overshoot`: `Index` plus the threads between
`GetBlock`'s test and its `fetch_add` is less than the size plus all threads.

The rest builds on the list. Each step of the manager is one of the list or leaves it
alone, so `ListInv` is kept by the lemmas about the list; as `Store` holds exactly the
blocks that `GivenOut` does not name (`BlocksInv`), that a node has one owner says for them
that neither the pool nor the heap gives a block out twice. What `ListInv` lacks is the
chain of a `ReturnBlocks`, whose first blocks may belong to others, and be linked
anew, before the walk comes to its last one. `Walked` says that what the walk can still
reach from `NextBlock` is all that is left of the chain (`Rest`), in terms of sets that are
closed under `Next`. It is kept because `Next` is read before the block is added and only a
holder writes it.

### The ring

`BlockingReaderWriterQueue_proofs`, for every block size that the code allows, every number of
blocks and items, both modes, and every `ReservedSize` above zero:

| Theorem | Statement |
|---|---|
| `QueueCorrect` | `Spec => []QueueInv` |
| `LifetimesCorrect` | `Spec => []LifetimesRight` |
| `EmptyAnswersRight` | `Spec => []EmptyIsEmpty` |
| `AssertionsHold` | `Spec => []NextBlockAsserted` |
| `FifoImplemented` | `Spec => ImplementsFifo` |
| `ReservedIsHeld` | `Spec => []ReservedHeld` |

`ReservedSize > 0` is needed: with zero the first block has one slot, the ring can go
wrong, and section 5 has the run (RW 102). The constructor's default is not zero.

`QueueInv` has five parts. `BlocksInv`: the copy of the other side's index that each side
keeps in a block is an old value of it, that is, going round from the reader's index one
meets the copy before the index itself (`CopiesOld`). `RingInv`: `Next` is a permutation
of the blocks (in a finite set, one-to-one suffices), and the blocks *in use* are those from the consumer's to
the producer's: a block other than the producer's is in use exactly if the next one is
and is not the consumer's. So a block that the producer may fill next is either the
consumer's or empty, with no count of blocks and no walk. `ItemsInv`: the slots from a
block's start hold consecutive items and all others none, and the first item of the next
block in use comes after the last of this. `ProducerInv` and `ConsumerInv` say what the
locals of a call know.

Two steps make this less simple than it looks, as they part an index from its slot.
`StoreFront` may become visible before the slot it leaves is seen empty (`Exposed`), or
after (`Taken`); and a block the producer goes on to has its Tail stored before the block
is published (`InTransit`). `Start`, `Length` and `InUse` give for each of the four cases where
the items are. For `EmptyIsEmpty` the local `deq.begun` has to be compared with what the
consumer's copy of the tail covers: a copy that says "empty" is believed only after
the tail was loaded again, or after TailBlock showed that the producer has left the block.

The refinement maps `enqueued` and `dequeued` to `published` and `acquired`. `Publish` is the
store that makes an item visible (`StoreTail`, `StoreTailBlock`), `Acquire` is `MoveOut`, whose
slot holds the next item in order whether its index has moved or not, and `Release` is
`Return`; all other steps stutter.

`ReservedIsHeld`: when `TryEnqueue` says that the queue is full, as many items as were reserved
were in it when the call began. A call that comes to `Full` has found its own block full
and, after it, the consumer's; the proof has to know of all the others, and of their number.
`ReserveInv` adds four things to `QueueInv`. The blocks form one ring and not several
(`OneRing`: only the whole ring is closed under `Next`); `QueueInv` could do without. They
have room for what is reserved, one block alone or all blocks but one (`RoomInv`, from
`CeilToPow2` and from the rounding in `InitialCount`, for each of the block sizes). A block that
is neither side's is empty or full, as the producer leaves a block only when it is full and
the consumer only when it is empty (`FullInv`). And the number of items has only fallen since the
call began (`WaitingInv`), so that what is in the queue now was in it then. So every
block but the consumer's is full when the producer has come round to it
(`RingFullWaits`). That their items are as many as their slots is not a sum over the ring but
an injection: two blocks never hold the same item numbers (`Apart`), so slots of the blocks
map one-to-one to the numbers between `dequeued` and `enqueued` (`RoomCounts`).

### The semaphore

`LightWeightSemaphore_proofs`, for every number of signals and all timeouts:
`SemaphoreCorrect` (`[]SemInv`), `OneWaiterAnnounced` (`[]OneAnnounced`, the assertion of
`Signal`, and that a binary semaphore is never released twice), `SignalsNeverLost`
(`[]SignalsKept`). The strengthening says for each place of the waiter what `Count` and
the kernel's token can be (`Phases`). Only an announced waiter makes `Count` -1; then no
token is there or under way, and once a signal has raised `Count` exactly one is.

### The blocking queue

`BlockingReaderWriterQueue_proofs` then composes ring and semaphore:

| Theorem | Hypotheses | Statement |
|---|---|---|
| `BlockingUsesRing` | | `BlockingSpec => Spec` |
| `BlockingFifo` | `ReservedSize > 0` | `BlockingSpec => ImplementsFifo` |
| `BlockingReserves` | `ReservedSize > 0` | `BlockingSpec => []ReservedHeld` |
| `BlockingCorrect` | `ReservedSize > 0`, no timeouts | `BlockingSpec => []BlockingInv` |
| `WaitsFindItems` | `ReservedSize > 0`, no timeouts | `BlockingSpec => []DequeueSucceeds` |

The first holds with any timeouts: whatever the semaphore answers, the ring sees one
producer and one consumer, so all that is proved of the ring holds in the blocking queue.
The last is about `TryDequeue`, `Pop` and calls of `Dequeue` without a timeout (`Timeouts
\subseteq {"none"}`). With a timeout it is false: RW 632 in section 5.

`DequeueSucceeds` relates the ring to the semaphore, and each alone knows nothing of the
other. `BlockingInv` adds that the count plus an announced waiter is the signals less the
grants (`SemaphoreInv`), that signals follow published items, and that the grants are the
items taken and the one still due to the consumer (`CallsInv`). Then an item that is due
was published before the inner dequeue began, `deq.begun >= granted`; and an empty answer
would mean, by the ring's invariant, that all items published then were taken, the due
one included.

### The hash table

`HashTable_proofs`, for any finite set of threads, any hash and any first table of two slots
or more: `TablesCorrect` (`[]TableInv`), `TypeCorrect` (`[]TypeOK`), `KeysFound`
(`[]KeyFound`), `GrowthIsExclusive` (`[]GrowthExclusive`).

`KeyFound` is about threads outside a call, and it breaks while a thread that works on a
table two behind copies a key forward. `TableInv` says that a key that is in a table is
where a probe meets it before any free slot (`Placed`); that the newest table that has it
has the thread's value (`Newest`); and what a call in progress has found out (`Search`):
the slots it has passed have other keys and always will, as keys are never removed; the
tables newer than the one it searches do not have the key, those included that others
install meanwhile, as only its own thread adds it. So a key is added when no table has it,
and copied when no newer one has it.

`GrowthInv` ties the flag to the thread that is growing the table: between the exchange
that sets it and the store that clears it nobody else installs a table, so the one found
half full after the exchange is still the newest when the new one goes in front of it.

`ProbingEnds` proves `ProbesEnd` for any number of threads and a first table of three slots or
more; the queue's has 32 (CQ 1328). The hypothesis is needed: with two slots, four threads can fill
the next table (section 5). Each table would be safe if every key in it had come in under a
count of its own, below three quarters of the capacity. Two things stand in the way:
keys are copied to a newer table without a test, and a thread that installs a table may
lose its count in the loop (HT 311-313) and pass the test with zero. `RoomInv` gives each thread
that was counted a number, different from all others (`Counts`): its count, or, for one that lost
it, one minus the place in the chain of the table it installed, which is zero or less and its own
as one thread at a time installs (`GrowthInv`). The numbers of the keys in table `n` lie from
`1 - n` to the table's room (`Room`), copied keys too, since room grows along the chain. No key is
twice in a table (`Unique`), so a full table would map its slots one to one to these numbers, and
`SizesInv` says there are fewer of them than slots: from three slots on, doubling adds more
to spare than the one number a new table costs (`DoubleHasRoom`).

### Producers

`ConcurrentQueue_proofs`, for any finite set of producer threads, any consumers, nodes and
plans: `OwnersCorrect` (`[]OwnerInv`), `ProducersHaveOneOwner` (`[]OneOwner`), `ListCorrect`
(`[]ListInv`), `ListHoldsAllProducers` (`[]ListComplete`), `CountCoversTheList`
(`[]CountCoversList`).

`OwnerInv` counts as an owner also the thread that has created a node and not linked
it yet (`Ownership`), and shows that the model's bound on nodes always leaves one for a
thread that comes to create one (`Room`).

`ListInv` describes the list as the free list's chain: the nodes created and linked are closed
under `Next` from the head, and every closed set contains them (`Complete`), so an insertion
that drops nodes, or is lost, breaks it. A node about to be linked has for its next the
head its thread saw last (`NextSeen`), so the exchange that succeeds appends the whole list to
it. `CountCoversList` compares a count and a head that a consumer loaded at different times:
what follows the head then is what follows it now (`Updating`), as `Next` of a linked node
is never written again; and the count, loaded after it, is that of all nodes created,
which are no fewer than those linked.

`EmptyAnswer` is about a dequeue that no other overlaps; `EmptyMeansEmpty` proves it for any
plan, while producers enqueue and link new sub-queues. It is not inductive, for it speaks of the
end of a call. `AnswerInv` says of every moment where the items that the call owes still are
(`OwedAhead`): for a walk, in nodes it has yet to come to (`From`); for the search for the
fullest producer as well, as long as it has found none that is not empty; for a token that goes
round, in nodes it meets before it is back at its producer (`Round`). Both are sets that every
set closed under the walk's step contains, so a node passed leaves the set only if it owes
nothing, and a node linked at the head changes none of them (`RoundKept`). `Ends` says that the
list has an end, without which going round would not come to the head. Where the token's
desired producer is some steps down the list (`Further`), `FurtherIsLinked` follows a path of
that many steps.

`RotationIsDue` proves `RotationDue` for behaviours in which `GlobalExplicitConsumerOffset`
stays below `Width - 1` (`OffsetHasRoom`); a counter that comes round breaks it (section 5). The
invariant, `RotationInv`, counts: a token inside its call has taken less than its quota, and one
that has had it is about to move the offset, or has seen less of it than there is.

### Only model-checked

* `FastQueue` where calls fail half-way (a bulk enqueue that fails, constructors and assignments
  that throw): `FailuresAbsorbed` of `fast_fail`. `LifetimesRight` and `ClearedComplete` are not
  checked there: each of the failures in section 5 makes one of them false.
* `ProbesEnd` with a first table of two slots: the run checks it for three threads, where
  it holds; with four it does not (section 5).
* Liveness: `LoneConsumerDrains`, `LockFree`, `SignalsGranted`, `ItemsDelivered`,
  `CallsReturn`. Fairness and `ENABLED` are outside what the prover does.
* `ListNeverDangles` of `QueueMove`, which is false.

No module uses a recursive operator. Where a chain is followed, the definitions speak of sets
that are closed under its next, and the ring's of the two neighbours of each block. Where
numbers need induction, the proofs take the least element of a set of them (`Least`, from
the well-foundedness of the order).

## 5. Findings

The run that ends in a violation is a disagreement with what the repository says;
`PROJECT.json` quotes it.

`queue_move`, `ListNeverDangles` (CQ 1828). A queue that is moved or swapped hands over
its producers and its manager's list and pool, but the producers keep their pointer to
the manager of the object that created them (1851, 1855). When the new object is
destroyed its producers return their blocks to the old object's list, and then the pool
these blocks belong to is released: the old list dangles. In the other order, the old
object goes first and the producers' next request or return uses a manager that is
gone. The tests at `test_queue_api.cc` 116 and 151 destroy in these orders. The model
stops before a manager that is gone is used.

The other modules show more with other constants. The passing runs stay clear of
these, by their bounds:

| Where | Constants | What happens |
|---|---|---|
| CQ 430, `TryEnqueueBulk` gets one block and no second | `MCFastQueue_try_bulk.cfg` | the first block is left with its flags reset. It looks full, and the destructor destroys objects that were never made (`LifetimesRight`) |
| CQ 822, a queue that is empty in the middle of a block | `MCSlowQueue_clear.cfg` | the destructor keeps that block (`ClearedComplete`) |
| RW 632, a wait times out after the signal came | `MCBlockingQueue_timeout.cfg` | the waiter adds one to the count and takes the kernel's token too; the next dequeue is granted an item that is not there (`DequeueSucceeds`). The class for older compilers (846-854) subtracts again |
| CQ 454, `EnqueueBulk` of no items | `MCFastQueue_empty.cfg` | at a block boundary the loop fills the whole tail block, over its items, from behind the caller's range (`UnclaimedStored`). In a new queue the count of blocks needed (385) is near 2^64 over the block size: `TryEnqueueBulk` takes every block of the pool, fails, and forgets them (`ClearedComplete`). `SlowQueue` has the same lines |
| CQ 428, allocation of a block throws in `EnqueueBulk` | `MCFastQueue_fail.cfg`, if `RequisitionThrows` leaves `harm` alone | nothing is rolled back: TailBlock stays ahead of TailIndex, the next enqueue steps over a block, lookups of older blocks are off by one (`LookupFinds`) |
| CQ 418, allocation of an index throws in `EnqueueBulk` | `FastQueue`, 6 blocks, `Failures = {<<"index", 3>>}`, `MaxTail = 12` | as at CQ 430 (`LifetimesRight`) |
| CQ 338, `Enqueue` throws | `FastQueue`, 1 consumer, 2 blocks, `Throws = {1}`, no batches, `MaxTail = 3` | the entry is counted as used but not stepped over; the destructor takes the wrong block for the half dequeued one (`LifetimesRight`) |
| CQ 485, a constructor throws in `EnqueueBulk` after it reused a block and then made a new index | `MCFastQueue_fail.cfg`, if `ConstructThrows` leaves `harm` alone | the new index begins with all the entries in use, that of the reused block included, and line 425 makes their number the place to go back to: the entry of the block given back stays in the sequence, and consumers count one entry too far (`LookupFinds`) |
| CQ 376, a constructor throws in `EnqueueBulk`, in an empty queue | 2 blocks, `Throws = {3}`, batches of 3, `MaxTail = 4` | `TailBlock` goes back to `nullptr`: the blocks are lost (`ClearedComplete`). `Enqueue` guards against it, line 343 |
| CQ 651, an assignment throws | `MCFastQueue_fail.cfg`, if `RequisitionBlock` leaves `harm` alone | the handler reads `Next` of a block it has given up; the producer has reused it and put a new block behind it, and the handler destroys that one's items (`LookupFinds`) |
| CQ 886, allocation of a block throws | `SlowQueue`, 2 consumers, 4 blocks, `Failures = {"block"}`, `MaxTail = 6` | the index's Tail stays moved; the retry shifts the lookup of all older blocks by one (`LookupFinds`). With no older block it does no harm, which `slow` shows |
| RW 102, `ReservedSize = 0` | `ReaderWriterQueue`, `EXPECTED_BLOCK_SIZE = 2`, 2 blocks, 4 items | a first block of one slot can hold no item, and the consumer goes on to it: the assertion at 228 (`NextBlockNotEmpty`) |

Outside the models, found while reading for them:

* If the unfenced load of Tail at RW 222 is satisfied before that of TailBlock at 221,
  the consumer can pair an old Tail with a new TailBlock and leave a block with items
  in it, against the assertion at 386. It takes a processor (or compiler) that reorders
  loads.
* `ProducerToken::swap` swaps `ProducerNode` with itself (CQ 1677), so move assignment leaves
  both tokens as they were. `ConsumerToken::swap` swaps `DesiredProducer` twice, that is not
  at all, and `ItemsConsumed` never (1711).
* `TryEnqueue(Token, ...)` (CQ 1501) passes the token on as an argument of the item's
  constructor, to the implicit producer.
* Single dequeues test for exactly the quota, bulk ones for at least it (CQ 1557): a token
  that mixes them can step over it and stay with its producer. `RotationDue` is stated
  for tokens that do not mix. It also needs the offset not to come round: 2^32
  rotations between two calls would look like none, and as many as there are
  producers move a token to where it was.
* `TryDequeue` takes the largest of the first three producers that are not empty, so
  later ones can starve while those three are kept filled.
* `GetProducerListNode` is `noexcept`: an allocation that fails in it ends the program.
* When the allocation of a larger hash table throws (HT 315), the flag stays set and
  later calls that find no room spin; `EntriesCount` stays raised; the producer that was
  to be added is in the list without an owner. The branch for a null result (316-319)
  is never taken. `NewCount <<= 1` (HT 312) ends only at zero, after which the test for
  room always passes. `ProbesEnd` holds in spite of that for the three threads of the run;
  with four threads and a first table of two slots the next one can fill up and a probe for
  an absent key has no end. From three slots on no table fills up (`ProbingEnds`); the queue's
  first table has 32.

## 6. What is not modelled

* `TryDequeueFromProducer` and `TryDequeueBulkFromProducer`, one claim on one
  producer; `Size`, which adds the producers' sizes one after the other and can read zero
  for a queue that is never empty.
* Swap and assignment of tokens (see the findings). Moving a producer token is
  `MoveToken`.
* Move, swap and reset of `FastQueue`, `SlowQueue`, `ReaderWriterQueue` and `HashTable`, and
  the latter's `Clear` and `GetSize`: they need an object no other thread uses, and the
  queue does the first only inside its own moves. `QueueMove` has those of the
  queue, its managers, lists and pools.
* In `HashTable`, a key seen before its value (HT 337): each key belongs to one thread,
  which is the only one to look for it.
* `FreeList_DAS`: used nowhere. The pre-C++20 semaphores (RW 645-885): the build asks
  for C++20. `SizeApprox`, `MaxCapacity`, `Size`: reads without effect.
* `operator new` that fails inside a `noexcept` function of the ring (the program
  ends); empty batches of `SlowQueue`.
* The freeing of index arrays by the destructors, and the leak of the ring's
  new block when a constructor throws at RW 413.
* A consumer reads `Next` of a block while the producer may write it (CQ 656, plain
  members). The model takes the read as one step: it gives the old or the new
  value, and the old one is used only when nothing follows.
* Wrap-around of the 64-bit indexes.
* The constructor of `FastQueue` that could not allocate its first index, and the tests
  for a missing array at CQ 304 and 414: the model begins with the array.
* In `FastQueue` an enqueue that may allocate begins only if the blocks left could
  serve all of it, a bound: the model has a fixed set of blocks where the code has a heap.
  That the heap gives none is `Failures`.
* The allocators, `CompressPair`, `src/Hash/`, tests and benchmark.

## 7. Plan

Done in order of weight: counters and their proofs, free list and manager, the two
queues, ring, semaphore, blocking queue; hash table, producers and consumers over
them, moves; the proofs of free list, manager, semaphore, ring, blocking queue, hash table
and producers; of the queues of an implicit producer and behind a token, of the dequeues and the
rotation over the producers, of what the ring reserves, and of the room in the hash table. To come:

1. A proof of `FailuresAbsorbed`: an invariant in which the blocks of given-up enqueues stay
   in the ring without a number. Lifetimes under these failures, as the code comes to roll them back.
2. Token swaps and moves, if the code comes to do what it says.
