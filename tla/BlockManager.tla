---------------------------- MODULE BlockManager -----------------------------
(***************************************************************************)
(* HakleBlockManager: a pool of blocks made at construction, a free list   *)
(* of returned blocks and, for AllocMode::CanAlloc, the heap.  Producers   *)
(* of all queues call it from any thread.  FreeList models the list; here  *)
(* are the pool's counter, the fallbacks of RequisitionBlock, the walk of  *)
(* ReturnBlocks along Next, and the destruction of list and pool.          *)
(***************************************************************************)
EXTENDS FreeList, Sequences

CONSTANTS
  Store,       \* among the Threads, but it makes no calls: it holds the blocks
               \* that are still in the pool's array or not allocated
  PoolBlocks,  \* the pool's array, in order
  HeapBlocks   \* bound: the blocks the heap can give out

Callers == Threads \ {Store}
Size == Len(PoolBlocks)
Pool == {PoolBlocks[i] : i \in 1..Size}   \* HasOwner
Blocks == Nodes

ASSUME BlockManagerAssumption ==
  /\ Store \in Threads /\ Callers # {}
  /\ PoolBlocks \in Seq(Nodes) /\ Nodes = Pool \union HeapBlocks
  /\ \A i, j \in 1..Size : PoolBlocks[i] = PoolBlocks[j] => i = j
  /\ \A i \in 1..Size : PoolBlocks[i] \notin HeapBlocks

VARIABLES
  Index,       \* of the pool: blocks given out, and failed attempts
  Next,        \* of a block: linked by whoever holds it
  call,        \* where each thread is in the manager
  Mode,        \* of its RequisitionBlock
  NextBlock,   \* its local Next in ReturnBlocks
  given,       \* the chain it gave to ReturnBlocks
  allocated,   \* heap blocks in existence
  destroyed    \* is the manager destroyed

listLocals == <<getting, adding>>
managerVars == <<Index, Next, call, Mode, NextBlock, given, allocated, destroyed>>
vars == <<managerVars, flVars>>

CallPCs == {"none", "pool", "index", "list", "return", "walk"}

Init ==
  /\ Index = 0
  /\ Next = [b \in Blocks |-> NULL]
  /\ call = [t \in Callers |-> "none"]
  /\ Mode = [t \in Callers |-> "CanAlloc"]
  /\ NextBlock = [t \in Callers |-> NULL]
  /\ given = [t \in Callers |-> {}]
  /\ allocated = {}
  /\ destroyed = FALSE
  /\ InitList(Store)

Call(t, c) == call' = [call EXCEPT ![t] = c]

\* A RequisitionBlock returns; its mode is not read again.
Done(t) == Call(t, "none") /\ Mode' = [Mode EXCEPT ![t] = "CanAlloc"]

\* The block is the caller's, who links it anew (FastQueue: a ring of one).
Obtain(t, b) ==
  /\ held' = [held EXCEPT ![Store] = @ \ {b}, ![t] = @ \union {b}]
  /\ Next' = [Next EXCEPT ![b] = b]

-----------------------------------------------------------------------------
(* RequisitionBlock *)

\* Bound: a thread asks only while the heap has a block for everyone who asks.
HeapHasRoom ==
  Cardinality({u \in Callers : call[u] \in {"pool", "index", "list"}})
    < Cardinality(HeapBlocks \ allocated)

RequisitionBlock(t, mode) ==
  /\ call[t] = "none" /\ ~destroyed
  /\ mode = "CanAlloc" => HeapHasRoom
  /\ Mode' = [Mode EXCEPT ![t] = mode]
  /\ Call(t, "pool")
  /\ UNCHANGED <<Index, Next, NextBlock, given, allocated, destroyed, flVars>>

\* Mutant: no test before the fetch_add.
PoolTestDropped(t) ==
  /\ call[t] = "pool"
  /\ Call(t, "index")
  /\ UNCHANGED <<Index, Next, Mode, NextBlock, given, allocated, destroyed, flVars>>

\* GetBlock's test, which spares an exhausted pool most of the fetch_adds.
PoolTest(t) ==
  /\ call[t] = "pool"
  /\ IF Index >= Size
     THEN Call(t, "list") /\ Goto(t, "get")
     ELSE Call(t, "index") /\ UNCHANGED pc
  /\ UNCHANGED <<Index, Next, Mode, NextBlock, given, allocated, destroyed,
                 shared, listLocals, held>>

\* Mutant: the last to pass the test stores, and another may store the same.
PoolTakeStore(t) ==
  /\ call[t] = "index"
  /\ Index' = IF \E u \in Callers \ {t} : call[u] = "index" THEN Index ELSE Index + 1
  /\ IF Index < Size
     THEN Done(t) /\ Obtain(t, PoolBlocks[Index + 1]) /\ UNCHANGED pc
     ELSE Call(t, "list") /\ Goto(t, "get") /\ UNCHANGED <<held, Next, Mode>>
  /\ UNCHANGED <<NextBlock, given, allocated, destroyed, shared, listLocals>>

PoolTake(t) ==
  /\ call[t] = "index"
  /\ Index' = Index + 1   \* fetch_add
  /\ IF Index < Size
     THEN Done(t) /\ Obtain(t, PoolBlocks[Index + 1]) /\ UNCHANGED pc
     ELSE Call(t, "list") /\ Goto(t, "get") /\ UNCHANGED <<held, Next, Mode>>
  /\ UNCHANGED <<NextBlock, given, allocated, destroyed,
                 shared, listLocals>>

\* A step of TryGet or Add; the call is over when a node is got or added.
InCall(t) ==
  /\ call[t] \in {"list", "return", "walk"}
  /\ ListStep(t)
  /\ IF pc'[t] = "idle" /\ call[t] # "walk" THEN Done(t) ELSE UNCHANGED <<call, Mode>>
  /\ Next' = [b \in Blocks |-> IF b \in held'[t] \ held[t] THEN b ELSE Next[b]]
  /\ UNCHANGED <<Index, NextBlock, given, allocated, destroyed>>

\* TryGet found nothing: nullptr, or a new block.
NoneFree(t) ==
  /\ pc[t] = "none" /\ call[t] = "list"
  /\ Goto(t, "idle")
  /\ Done(t)
  /\ IF Mode[t] = "CannotAlloc"
     THEN UNCHANGED <<held, Next, allocated>>
     ELSE \E b \in HeapBlocks \ allocated :
            Obtain(t, b) /\ allocated' = allocated \union {b}
  /\ UNCHANGED <<Index, NextBlock, given, destroyed, shared, listLocals>>

-----------------------------------------------------------------------------
(* ReturnBlock and ReturnBlocks *)

ReturnBlock(t, b) ==
  /\ call[t] = "none" /\ ~destroyed
  /\ Add(t, b)
  /\ Call(t, IF pc'[t] = "idle" THEN "none" ELSE "return")
  /\ UNCHANGED <<Index, Next, Mode, NextBlock, given, allocated, destroyed>>

\* The caller has linked some of its blocks into a chain.
ReturnBlocks(t, chain) ==
  /\ call[t] = "none" /\ ~destroyed
  /\ {chain[i] : i \in DOMAIN chain} \subseteq held[t]
  /\ Next' = [b \in Blocks |->
                IF \E i \in DOMAIN chain : chain[i] = b
                THEN LET i == CHOOSE i \in DOMAIN chain : chain[i] = b
                     IN  IF i = Len(chain) THEN NULL ELSE chain[i + 1]
                ELSE Next[b]]
  /\ NextBlock' = [NextBlock EXCEPT ![t] = chain[1]]
  /\ given' = [given EXCEPT ![t] = {chain[i] : i \in DOMAIN chain}]
  /\ Call(t, "walk")
  /\ UNCHANGED <<Index, Mode, allocated, destroyed, flVars>>

\* Mutant: the walk stops at the first block.
ReturnNextOnce(t) ==
  /\ call[t] = "walk" /\ pc[t] = "idle" /\ NextBlock[t] # NULL
  /\ Add(t, NextBlock[t])
  /\ NextBlock' = [NextBlock EXCEPT ![t] = NULL]
  /\ UNCHANGED <<Index, Next, call, Mode, given, allocated, destroyed>>

\* Next is read before the block is added, and may be someone else's after.
ReturnNext(t) ==
  /\ call[t] = "walk" /\ pc[t] = "idle" /\ NextBlock[t] # NULL
  /\ Add(t, NextBlock[t])
  /\ NextBlock' = [NextBlock EXCEPT ![t] = Next[NextBlock[t]]]
  /\ UNCHANGED <<Index, Next, call, Mode, given, allocated, destroyed>>

\* The caller is rid of the whole chain.
ReturnDone(t) ==
  /\ call[t] = "walk" /\ pc[t] = "idle" /\ NextBlock[t] = NULL
  /\ Call(t, "none")
  /\ given' = [given EXCEPT ![t] = {}]
  /\ held' = [held EXCEPT ![t] = @ \ given[t]]
  /\ UNCHANGED <<Index, Next, Mode, NextBlock, allocated, destroyed,
                 shared, pc, listLocals>>

-----------------------------------------------------------------------------
(* Destruction, once nobody holds a block or is inside a call: the list goes *)
(* first and frees the nodes without an owner, then the pool frees its own.  *)

Destroy ==
  /\ ~destroyed
  /\ \A t \in Callers : call[t] = "none" /\ held[t] = {}
  /\ destroyed' = TRUE
  /\ allocated' = allocated \ (OnList \ Pool)
  /\ UNCHANGED <<Index, Next, call, Mode, NextBlock, given, flVars>>

\* Nothing is left to do.
Destroyed == destroyed /\ UNCHANGED vars

\* A caller's block is returned by another: the consumer that empties it.
PassOn(t, u, b) ==
  /\ call[t] = "none" /\ call[u] = "none"
  /\ HandOver(t, u, b)
  /\ UNCHANGED managerVars

ThreadStep(t) ==
  \/ PoolTest(t) \/ PoolTake(t) \/ InCall(t) \/ NoneFree(t)
  \/ ReturnNext(t) \/ ReturnDone(t)

Chains(t) == {chain \in [1..2 -> held[t]] : chain[1] # chain[2]}

NextStep ==
  \/ \E t \in Callers, mode \in {"CanAlloc", "CannotAlloc"} : RequisitionBlock(t, mode)
  \/ \E t \in Callers : ThreadStep(t)
  \/ \E t \in Callers, b \in Blocks : ReturnBlock(t, b)
  \/ \E t \in Callers : \E chain \in Chains(t) : ReturnBlocks(t, chain)
  \/ \E t, u \in Callers, b \in Blocks : PassOn(t, u, b)
  \/ Destroy \/ Destroyed

Spec == Init /\ [][NextStep]_vars

\* Somebody who is inside a call goes on; the scheduler picks who, and may leave
\* the others where they stopped for good.
FairSpec == Spec /\ WF_vars(\E t \in Callers : ThreadStep(t))

-----------------------------------------------------------------------------
(* Properties. *)

\* Every variable holds a value of its kind.
TypeOK ==
  /\ ListTypeOK
  /\ Index \in Nat
  /\ Next \in [Blocks -> Blocks \union {NULL}]
  /\ call \in [Callers -> CallPCs]
  /\ \A t \in Callers : call[t] = "none" => pc[t] = "idle"
  /\ Mode \in [Callers -> {"CanAlloc", "CannotAlloc"}]
  /\ NextBlock \in [Callers -> Blocks \union {NULL}]
  /\ given \in [Callers -> SUBSET Blocks]
  /\ allocated \subseteq HeapBlocks
  /\ destroyed \in BOOLEAN

\* Blocks that exist and have left the pool's array.
GivenOut == {PoolBlocks[i] : i \in {j \in 1..Size : j <= Index}} \union allocated

\* A block is in the hands of one caller at most, whichever of the three sources
\* it came from, and nobody else can get it from the list or from the pool.
HeldExclusively ==
  /\ HeldOnce
  /\ ~destroyed => OnList \union UNION {held[t] : t \in Callers} \subseteq GivenOut

\* Threads that raced past the test of GetBlock overshoot the pool's end by less
\* than their number, so the counter cannot creep towards wrapping around and
\* giving the array out again.
IndexBounded == Index < Size + Cardinality(Callers)

\* ReturnBlocks adds each block of its chain though other threads already use,
\* and relink, the blocks it added first: when no call is in progress every
\* block given out is held by a caller or waits on the list, unreferenced.
NoBlockLost ==
  (~destroyed /\ \A t \in Callers : call[t] = "none")
    => \A b \in GivenOut :
         \/ b \in OnList /\ FreeListRefs[b] = 1
         \/ FreeListRefs[b] = 0 /\ \E t \in Callers : b \in held[t]

\* The manager is lock-free: however the threads are scheduled, as long as one is
\* inside a call, calls return again and again.  A count that stayed at zero on
\* the list's head, or an InnerAdd that never found its node unreferenced, would
\* leave everybody looping.
LockFree ==
  \/ []<>(\A t \in Callers : call[t] = "none")
  \/ []<><<\E t \in Callers : call[t] # "none" /\ call'[t] = "none">>_vars
=============================================================================
