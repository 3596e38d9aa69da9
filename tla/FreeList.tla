------------------------------ MODULE FreeList ------------------------------
(***************************************************************************)
(* The lock-free free list of blocks: a stack whose nodes carry a          *)
(* reference count, so that no node leaves and re-enters the list while a  *)
(* thread stands between reading the head and replacing it.  A node whose  *)
(* count is not zero when it is added only gets the AddFlag; whoever drops *)
(* the last reference adds it.                                             *)
(*                                                                         *)
(* Every atomic operation of Add, InnerAdd and TryGet is an action.  A     *)
(* thread may add any node it holds, at any time.  The reference count is  *)
(* the code's uint32_t, scaled down: AddFlag is its highest bit and        *)
(* arithmetic is modulo 2 * AddFlag.                                       *)
(***************************************************************************)
EXTENDS Integers, FiniteSets

CONSTANTS
  Threads,
  Nodes,
  AddFlag,    \* 0x80000000 in the code
  NULL

ASSUME FreeListAssumption ==
  /\ NULL \notin Nodes /\ IsFiniteSet(Threads)
  /\ AddFlag \in Nat /\ AddFlag > Cardinality(Threads) + 1

VARIABLES
  ListHead,
  FreeListNext, FreeListRefs,     \* fields of the nodes
  pc,                             \* where each thread is
  CurrentHead,                    \* locals of TryGet and InnerAdd, by thread
  PrevHead, Refs, Next_, InNode, InnerHead,
  held                            \* the nodes each thread has got hold of

shared == <<ListHead, FreeListNext, FreeListRefs>>
getting == <<CurrentHead, PrevHead, Refs, Next_>>
adding == <<InNode, InnerHead>>
flVars == <<shared, pc, getting, adding, held>>
PCs == {"idle", "addLoad", "addNext", "addRefs", "addHead", "addFlag", "get",
        "getTest", "getRef", "getNext", "getHead", "getTake", "getDrop", "none"}

\* The list is empty, and thread t holds every node.
InitList(t) ==
  /\ ListHead = NULL
  /\ FreeListNext = [n \in Nodes |-> NULL]
  /\ FreeListRefs = [n \in Nodes |-> 0]
  /\ pc = [u \in Threads |-> "idle"]
  /\ CurrentHead = [u \in Threads |-> NULL] /\ PrevHead = [u \in Threads |-> NULL]
  /\ Next_ = [u \in Threads |-> NULL] /\ Refs = [u \in Threads |-> 0]
  /\ InNode = [u \in Threads |-> NULL] /\ InnerHead = [u \in Threads |-> NULL]
  /\ held = [u \in Threads |-> IF u = t THEN Nodes ELSE {}]

Goto(t, label) == pc' = [pc EXCEPT ![t] = label]

\* fetch_add on a reference count.
AddRefs(n, k) ==
  FreeListRefs' = [FreeListRefs EXCEPT ![n] = (@ + k) % (2 * AddFlag)]

ForgetGetting(t) ==
  /\ CurrentHead' = [CurrentHead EXCEPT ![t] = NULL]
  /\ PrevHead' = [PrevHead EXCEPT ![t] = NULL]
  /\ Refs' = [Refs EXCEPT ![t] = 0]
  /\ Next_' = [Next_ EXCEPT ![t] = NULL]

-----------------------------------------------------------------------------
(* Add *)

\* Mutant: whoever adds a node links it, referenced or not.
AddReferenced(t, n) ==
  /\ pc[t] = "idle" /\ n \in held[t]
  /\ held' = [held EXCEPT ![t] = @ \ {n}]
  /\ AddRefs(n, AddFlag)
  /\ Goto(t, "addLoad") /\ InNode' = [InNode EXCEPT ![t] = n]
  /\ UNCHANGED <<ListHead, FreeListNext, getting, InnerHead>>

\* Add(InNode): set the flag; the one who finds a count of zero adds the node.
Add(t, n) ==
  /\ pc[t] = "idle" /\ n \in held[t]
  /\ held' = [held EXCEPT ![t] = @ \ {n}]
  /\ AddRefs(n, AddFlag)
  /\ IF FreeListRefs[n] = 0
     THEN Goto(t, "addLoad") /\ InNode' = [InNode EXCEPT ![t] = n]
     ELSE UNCHANGED <<pc, InNode>>
  /\ UNCHANGED <<ListHead, FreeListNext, getting, InnerHead>>

InnerAddLoad(t) ==
  /\ pc[t] = "addLoad"
  /\ InnerHead' = [InnerHead EXCEPT ![t] = ListHead]
  /\ Goto(t, "addNext")
  /\ UNCHANGED <<shared, getting, InNode, held>>

InnerAddNext(t) ==
  /\ pc[t] = "addNext"
  /\ FreeListNext' = [FreeListNext EXCEPT ![InNode[t]] = InnerHead[t]]
  /\ Goto(t, "addRefs")
  /\ UNCHANGED <<ListHead, FreeListRefs, getting, adding, held>>

InnerAddRefs(t) ==
  /\ pc[t] = "addRefs"
  /\ FreeListRefs' = [FreeListRefs EXCEPT ![InNode[t]] = 1]
  /\ Goto(t, "addHead")
  /\ UNCHANGED <<ListHead, FreeListNext, getting, adding, held>>

\* InnerAdd returns to Add, or to the loop of the TryGet that dropped the last
\* reference.
InnerAddReturn(t) ==
  /\ InNode' = [InNode EXCEPT ![t] = NULL]
  /\ InnerHead' = [InnerHead EXCEPT ![t] = NULL]
  /\ Goto(t, IF PrevHead[t] = NULL THEN "idle" ELSE "getTest")

InnerAddHead(t) ==
  /\ pc[t] = "addHead"
  /\ IF ListHead = InnerHead[t]
     THEN ListHead' = InNode[t] /\ InnerAddReturn(t)
     ELSE /\ InnerHead' = [InnerHead EXCEPT ![t] = ListHead]
          /\ Goto(t, "addFlag")
          /\ UNCHANGED <<ListHead, InNode>>
  /\ UNCHANGED <<FreeListNext, FreeListRefs, getting, held>>

\* Take the list's reference back and set the flag in one go; go on only if
\* nobody holds a reference meanwhile.
InnerAddFlag(t) ==
  /\ pc[t] = "addFlag"
  /\ AddRefs(InNode[t], AddFlag - 1)
  /\ IF FreeListRefs[InNode[t]] = 1
     THEN Goto(t, "addNext") /\ UNCHANGED adding
     ELSE InnerAddReturn(t)
  /\ UNCHANGED <<ListHead, FreeListNext, getting, held>>

-----------------------------------------------------------------------------
(* TryGet *)

\* CurrentHead = ListHead.load(), at the start and after a failed test.
GetLoad(t) ==
  /\ CurrentHead' = [CurrentHead EXCEPT ![t] = ListHead]
  /\ Goto(t, "getTest")

TryGet(t) ==
  /\ pc[t] = "get"
  /\ GetLoad(t)
  /\ UNCHANGED <<shared, PrevHead, Refs, Next_, adding, held>>

\* The loop's condition fails: no node to get.
GetNone(t) ==
  /\ pc[t] = "getTest" /\ CurrentHead[t] = NULL
  /\ ForgetGetting(t)
  /\ Goto(t, "none")
  /\ UNCHANGED <<shared, adding, held>>

\* Mutant: look again, but at the same node.
GetRefsAgain(t) ==
  /\ pc[t] = "getTest" /\ CurrentHead[t] # NULL
  /\ PrevHead' = [PrevHead EXCEPT ![t] = CurrentHead[t]]
  /\ Refs' = [Refs EXCEPT ![t] = FreeListRefs[CurrentHead[t]]]
  /\ Goto(t, IF FreeListRefs[CurrentHead[t]] % AddFlag = 0 THEN "getTest" ELSE "getRef")
  /\ UNCHANGED <<shared, CurrentHead, Next_, adding, held>>

\* Refs.load(); a count of zero means taken or being added: look again.
GetRefs(t) ==
  /\ pc[t] = "getTest" /\ CurrentHead[t] # NULL
  /\ PrevHead' = [PrevHead EXCEPT ![t] = CurrentHead[t]]
  /\ Refs' = [Refs EXCEPT ![t] = FreeListRefs[CurrentHead[t]]]
  /\ Goto(t, IF FreeListRefs[CurrentHead[t]] % AddFlag = 0 THEN "get" ELSE "getRef")
  /\ UNCHANGED <<shared, CurrentHead, Next_, adding, held>>

GetRef(t) ==
  /\ pc[t] = "getRef"
  /\ IF FreeListRefs[CurrentHead[t]] = Refs[t]
     THEN AddRefs(CurrentHead[t], 1) /\ Goto(t, "getNext")
     ELSE Goto(t, "get") /\ UNCHANGED FreeListRefs
  /\ UNCHANGED <<ListHead, FreeListNext, getting, adding, held>>

GetNext(t) ==
  /\ pc[t] = "getNext"
  /\ Next_' = [Next_ EXCEPT ![t] = FreeListNext[CurrentHead[t]]]
  /\ Goto(t, "getHead")
  /\ UNCHANGED <<shared, CurrentHead, PrevHead, Refs, adding, held>>

\* The exchange on ListHead; a failure leaves the head it saw in CurrentHead.
GetHead(t) ==
  /\ pc[t] = "getHead"
  /\ IF ListHead = CurrentHead[t]
     THEN ListHead' = Next_[t] /\ Goto(t, "getTake") /\ UNCHANGED CurrentHead
     ELSE /\ CurrentHead' = [CurrentHead EXCEPT ![t] = ListHead]
          /\ Goto(t, "getDrop")
          /\ UNCHANGED ListHead
  /\ UNCHANGED <<FreeListNext, FreeListRefs, PrevHead, Refs, Next_, adding, held>>

\* Mutant: only our own reference goes.
GetTakeOne(t) ==
  /\ pc[t] = "getTake"
  /\ AddRefs(CurrentHead[t], -1)
  /\ held' = [held EXCEPT ![t] = @ \union {CurrentHead[t]}]
  /\ ForgetGetting(t)
  /\ Goto(t, "idle")
  /\ UNCHANGED <<ListHead, FreeListNext, adding>>

\* The list's reference and our own go; the node is the caller's.
GetTake(t) ==
  /\ pc[t] = "getTake"
  /\ AddRefs(CurrentHead[t], -2)
  /\ held' = [held EXCEPT ![t] = @ \union {CurrentHead[t]}]
  /\ ForgetGetting(t)
  /\ Goto(t, "idle")
  /\ UNCHANGED <<ListHead, FreeListNext, adding>>

GetDrop(t) ==
  /\ pc[t] = "getDrop"
  /\ AddRefs(PrevHead[t], -1)
  /\ IF FreeListRefs[PrevHead[t]] = AddFlag + 1
     THEN Goto(t, "addLoad") /\ InNode' = [InNode EXCEPT ![t] = PrevHead[t]]
     ELSE Goto(t, "getTest") /\ UNCHANGED InNode
  /\ UNCHANGED <<ListHead, FreeListNext, getting, InnerHead, held>>

ListStep(t) ==
  \/ InnerAddLoad(t) \/ InnerAddNext(t) \/ InnerAddRefs(t) \/ InnerAddHead(t) \/ InnerAddFlag(t)
  \/ TryGet(t) \/ GetNone(t) \/ GetRefs(t) \/ GetRef(t) \/ GetNext(t) \/ GetHead(t)
  \/ GetTake(t) \/ GetDrop(t)

-----------------------------------------------------------------------------
(* The list on its own: threads get and add nodes as they like. *)

\* At the start one thread holds every node.
ListInit == \E t \in Threads : InitList(t)

\* A node passes from one thread to another outside the list: a producer fills it
\* and a consumer empties it and adds it.
HandOver(t, u, n) ==
  /\ n \in held[t] /\ t # u
  /\ held' = [held EXCEPT ![t] = @ \ {n}, ![u] = @ \union {n}]
  /\ UNCHANGED <<shared, pc, getting, adding>>

BeginGet(t) ==
  /\ pc[t] = "idle"
  /\ Goto(t, "get")
  /\ UNCHANGED <<shared, getting, adding, held>>

\* TryGet returned nullptr.
GiveUp(t) ==
  /\ pc[t] = "none"
  /\ Goto(t, "idle")
  /\ UNCHANGED <<shared, getting, adding, held>>

Step(t) == ListStep(t) \/ GiveUp(t)

ListNext ==
  \E t \in Threads :
    \/ Step(t) \/ BeginGet(t)
    \/ \E n \in Nodes : Add(t, n) \/ \E u \in Threads : HandOver(t, u, n)

ListSpec == ListInit /\ [][ListNext]_flVars

-----------------------------------------------------------------------------
(* Properties. *)

\* Every variable holds a value of its kind; in particular no count holds more
\* references than the list and every thread can have, or runs below zero.
ListTypeOK ==
  /\ ListHead \in Nodes \union {NULL}
  /\ FreeListNext \in [Nodes -> Nodes \union {NULL}]
  /\ FreeListRefs \in [Nodes -> 0..(2 * AddFlag - 1)]
  /\ \A n \in Nodes : FreeListRefs[n] % AddFlag <= Cardinality(Threads) + 1
  /\ pc \in [Threads -> PCs]
  /\ \A v \in {CurrentHead, PrevHead, Next_, InNode, InnerHead} :
       v \in [Threads -> Nodes \union {NULL}]
  /\ Refs \in [Threads -> 0..(2 * AddFlag - 1)]
  /\ held \in [Threads -> SUBSET Nodes]

\* Is S closed under what a walk from the head does?
Closed(S) ==
  /\ ListHead \in S \union {NULL}
  /\ \A n \in S : FreeListNext[n] \in S \union {NULL}

\* The nodes a walk from the head meets: those in every closed set.
OnList == {n \in Nodes : \A S \in SUBSET Nodes : Closed(S) => n \in S}

\* A node is in the hands of one thread at most, and while it is, it cannot be
\* got from the list.
HeldOnce ==
  \A t \in Threads :
    /\ held[t] \intersect OnList = {}
    /\ \A u \in Threads \ {t} : held[t] \intersect held[u] = {}

\* No node is lost and no reference is left over: whenever every thread is
\* outside the list, a node is held and unreferenced, or on the list with the
\* list's reference and without the flag.
SettledWhenQuiet ==
  (\A t \in Threads : pc[t] = "idle")
    => \A n \in Nodes :
         \/ n \in OnList /\ FreeListRefs[n] = 1
         \/ n \notin OnList /\ FreeListRefs[n] = 0 /\ \E t \in Threads : n \in held[t]
=============================================================================
