------------------------------ MODULE QueueMove ------------------------------
(***************************************************************************)
(* Queue objects from construction to destruction, with moves and swaps in *)
(* between, by one thread.  A queue has a list of producers and a block    *)
(* manager inside it; a producer keeps a pointer to the manager of the     *)
(* queue that created it, wherever its node goes.  Of the two managers of  *)
(* a queue the model has one: they are handled alike.                      *)
(***************************************************************************)
EXTENDS Integers, FiniteSets

CONSTANTS
  Queues,      \* objects; each is constructed once at most
  Producers,
  PoolSize,
  HeapBlocks,  \* bound: the blocks the heap can give out
  NULL         \* not a queue

VARIABLES
  object,      \* of a queue: "none", "live" or "destroyed"
  producers,   \* the nodes of its list
  List,        \* the blocks in its manager's free list
  Pool,        \* the storage of its pool: that which the constructor of some queue made
  Index,       \* of the pool: the blocks given out
  BlockManager, \* of a producer: the queue whose manager it points to
  blocks,      \* and the blocks it has
  released     \* blocks whose storage was given back

queues == <<object, producers, List, Pool, Index>>
vars == <<queues, BlockManager, blocks, released>>

Storage(s) == IF s = NULL THEN {} ELSE {s} \X (1..PoolSize)

Init ==
  /\ object = [q \in Queues |-> "none"]
  /\ producers = [q \in Queues |-> {}]
  /\ List = [q \in Queues |-> {}]
  /\ Pool = [q \in Queues |-> NULL]
  /\ Index = [q \in Queues |-> 0]
  /\ BlockManager = [p \in Producers |-> NULL]
  /\ blocks = [p \in Producers |-> {}]
  /\ released = {}

Live(q) == object[q] = "live"

\* A producer of q that can be used: its manager exists.  Past this the code reads
\* an object that is gone, and the model stops.
Usable(q, p) == Live(q) /\ p \in producers[q] /\ Live(BlockManager[p])

-----------------------------------------------------------------------------
(* Construction and use *)

Construct(q) ==
  /\ object[q] = "none"
  /\ object' = [object EXCEPT ![q] = "live"]
  /\ Pool' = [Pool EXCEPT ![q] = q]
  /\ UNCHANGED <<producers, List, Index, BlockManager, blocks, released>>

\* CreateProducerListNode: the producer gets the address of this queue's manager.
CreateProducerListNode(q, p) ==
  /\ Live(q) /\ BlockManager[p] = NULL
  /\ BlockManager' = [BlockManager EXCEPT ![p] = q]
  /\ producers' = [producers EXCEPT ![q] = @ \cup {p}]
  /\ UNCHANGED <<object, List, Pool, Index, blocks, released>>

\* RequisitionBlock by an enqueue: from the pool, the list or the heap.
RequisitionBlock(q, p) ==
  LET m == BlockManager[p]
  IN  /\ Usable(q, p)
      /\ \/ /\ Pool[m] # NULL /\ Index[m] < PoolSize
            /\ Index' = [Index EXCEPT ![m] = @ + 1]
            /\ blocks' = [blocks EXCEPT ![p] = @ \cup {<<Pool[m], Index[m] + 1>>}]
            /\ UNCHANGED <<List, released>>
         \/ /\ Pool[m] = NULL \/ Index[m] = PoolSize
            /\ \E b \in List[m] :
                 /\ List' = [List EXCEPT ![m] = @ \ {b}]
                 /\ blocks' = [blocks EXCEPT ![p] = @ \cup {b}]
            /\ UNCHANGED <<Index, released>>
         \/ /\ Pool[m] = NULL \/ Index[m] = PoolSize
            /\ List[m] = {}
            /\ \E b \in HeapBlocks :
                 /\ \A r \in Producers : b \notin blocks[r]
                 /\ \A r \in Queues : b \notin List[r]
                 /\ blocks' = [blocks EXCEPT ![p] = @ \cup {b}]
                 /\ released' = released \ {b}
            /\ UNCHANGED <<List, Index>>
      /\ UNCHANGED <<object, producers, Pool, BlockManager>>

\* A dequeue that empties a block returns it to the producer's manager.
ReturnBlock(q, p) ==
  /\ Usable(q, p)
  /\ \E b \in blocks[p] :
       /\ blocks' = [blocks EXCEPT ![p] = @ \ {b}]
       /\ List' = [List EXCEPT ![BlockManager[p]] = @ \cup {b}]
  /\ UNCHANGED <<object, producers, Pool, Index, BlockManager, released>>

-----------------------------------------------------------------------------
(* Destruction, move and swap *)

\* DeleteProducerListNode for every node of q: each producer's destructor returns
\* its blocks to its manager.
AfterClearList(q) ==
  [m \in Queues |-> List[m] \cup
     UNION {blocks[p] : p \in {p \in producers[q] : BlockManager[p] = m}}]

BlocksAfterClearList(q) == [p \in Producers |-> IF p \in producers[q] THEN {} ELSE blocks[p]]

\* FreeList::Clear frees the blocks that have no owner, BlockPool::Clear the array.
Cleared(q) == (AfterClearList(q)[q] \cap HeapBlocks) \cup Storage(Pool[q])

\* ~ConcurrentQueue: ClearList, then the members, of the manager the list before
\* the pool.
Destroy(q) ==
  /\ Live(q) /\ \A p \in producers[q] : Usable(q, p)
  /\ object' = [object EXCEPT ![q] = "destroyed"]
  /\ List' = [AfterClearList(q) EXCEPT ![q] = {}]
  /\ blocks' = BlocksAfterClearList(q)
  /\ released' = released \cup Cleared(q)
  /\ producers' = [producers EXCEPT ![q] = {}]
  /\ Pool' = [Pool EXCEPT ![q] = NULL]
  /\ UNCHANGED <<Index, BlockManager>>

\* ConcurrentQueue(ConcurrentQueue&&): list, pool and producers go to the new
\* object; the producers are told their new parent, not their new manager.
MoveConstruct(q, other) ==
  /\ object[q] = "none" /\ Live(other)
  /\ object' = [object EXCEPT ![q] = "live"]
  /\ producers' = [producers EXCEPT ![q] = producers[other], ![other] = {}]
  /\ List' = [List EXCEPT ![q] = List[other], ![other] = {}]
  /\ Pool' = [Pool EXCEPT ![q] = Pool[other], ![other] = NULL]
  /\ Index' = [Index EXCEPT ![q] = Index[other], ![other] = 0]
  /\ UNCHANGED <<BlockManager, blocks, released>>

\* operator=: ClearList, then the manager's list and its pool are cleared and moved.
MoveAssign(q, other) ==
  /\ q # other /\ Live(q) /\ Live(other) /\ \A p \in producers[q] : Usable(q, p)
  /\ producers' = [producers EXCEPT ![q] = producers[other], ![other] = {}]
  /\ List' = [AfterClearList(q) EXCEPT ![q] = AfterClearList(q)[other], ![other] = {}]
  /\ Pool' = [Pool EXCEPT ![q] = Pool[other], ![other] = NULL]
  /\ Index' = [Index EXCEPT ![q] = Index[other], ![other] = 0]
  /\ blocks' = BlocksAfterClearList(q)
  /\ released' = released \cup Cleared(q)
  /\ UNCHANGED <<object, BlockManager>>

Swapped(f, q, other) == [f EXCEPT ![q] = f[other], ![other] = f[q]]

Swap(q, other) ==
  /\ q # other /\ Live(q) /\ Live(other)
  /\ producers' = Swapped(producers, q, other)
  /\ List' = Swapped(List, q, other)
  /\ Pool' = Swapped(Pool, q, other)
  /\ Index' = Swapped(Index, q, other)
  /\ UNCHANGED <<object, BlockManager, blocks, released>>

Next ==
  \E q \in Queues :
    \/ Construct(q) \/ Destroy(q)
    \/ \E p \in Producers :
         CreateProducerListNode(q, p) \/ RequisitionBlock(q, p) \/ ReturnBlock(q, p)
    \/ \E other \in Queues : MoveConstruct(q, other) \/ MoveAssign(q, other) \/ Swap(q, other)

Spec == Init /\ [][Next]_vars

-----------------------------------------------------------------------------
(* Properties *)

\* No free list holds a block whose storage was released, so that clearing the list
\* never reads one (HakleBlockManager::operator=, ~HakleBlockManager).
ListNeverDangles == \A q \in Queues : List[q] \cap released = {}
=============================================================================
