-------------------------- MODULE BlockManager_proofs --------------------------
(***************************************************************************)
(* The free list is correct for every number of threads and of nodes, as   *)
(* long as the threads' references fit below AddFlag: a node has one owner *)
(* at most, none on the list has one, and none is lost.  And so is the     *)
(* manager over it, for every pool: the pool's counter is bounded, however *)
(* often threads ask an exhausted pool; a block has one holder, whichever  *)
(* of the three sources it came from; and none is lost.                    *)
(***************************************************************************)
EXTENDS BlockManager, FiniteSetTheorems, TLAPS

(***************************************************************************)
(* The free list.                                                          *)
(***************************************************************************)

-----------------------------------------------------------------------------
(* Who has to do with a node. *)

Referring == {"getNext", "getHead", "getTake", "getDrop"}

\* The threads that hold a reference to n, and how many there are.
Refers(n) == {t \in Threads : pc[t] \in Referring /\ PrevHead[t] = n}
References(n) == Cardinality(Refers(n))

\* A thread owns a node that it holds, that it is about to put on the list with
\* the flag set or with the list's reference in it, or that it took off.
Adding(t, n) == pc[t] \in {"addLoad", "addNext", "addRefs"} /\ InNode[t] = n
Offering(t, n) == pc[t] \in {"addHead", "addFlag"} /\ InNode[t] = n
Taking(t, n) == pc[t] = "getTake" /\ PrevHead[t] = n
Owns(t, n) == n \in held[t] \/ Adding(t, n) \/ Offering(t, n) \/ Taking(t, n)
Free(n) == \A t \in Threads : ~Owns(t, n)

\* A free node without the flag is on the list; one with the flag waits for the
\* last of its references to be dropped.
Linked == {n \in Nodes : Free(n) /\ FreeListRefs[n] < AddFlag}

-----------------------------------------------------------------------------
(* The inductive invariant. *)

Types ==
  /\ ListHead \in Nodes \union {NULL}
  /\ FreeListNext \in [Nodes -> Nodes \union {NULL}]
  /\ FreeListRefs \in [Nodes -> Nat]
  /\ pc \in [Threads -> PCs]
  /\ CurrentHead \in [Threads -> Nodes \union {NULL}]
  /\ PrevHead \in [Threads -> Nodes \union {NULL}]
  /\ Next_ \in [Threads -> Nodes \union {NULL}]
  /\ InNode \in [Threads -> Nodes \union {NULL}]
  /\ InnerHead \in [Threads -> Nodes \union {NULL}]
  /\ Refs \in [Threads -> Nat]
  /\ held \in [Threads -> SUBSET Nodes]

\* What a thread remembers is still so: in particular the next of a node it has a
\* reference to, which nobody can write (the list is safe from ABA).
Locals(t) ==
  /\ pc[t] \in {"addLoad", "addNext", "addRefs", "addHead", "addFlag"} => InNode[t] # NULL
  /\ pc[t] \in {"addRefs", "addHead"} => FreeListNext[InNode[t]] = InnerHead[t]
  /\ pc[t] \in {"getRef", "getNext", "getHead", "getTake"} => CurrentHead[t] = PrevHead[t]
  /\ pc[t] \in Referring \union {"getRef"} => PrevHead[t] # NULL
  /\ pc[t] = "getRef" => Refs[t] % AddFlag # 0
  /\ pc[t] = "getHead" => Next_[t] = FreeListNext[PrevHead[t]]

\* A node has one owner at most, who owns it in one way.
Owned(n) ==
  /\ \A t, u \in Threads : Owns(t, n) /\ Owns(u, n) => t = u
  /\ \A t \in Threads : n \in held[t] => ~Adding(t, n) /\ ~Offering(t, n) /\ ~Taking(t, n)

\* The word FreeListRefs is the threads' references, plus one for the list while
\* the node is on it, comes to it or leaves it, plus the flag.
Counted(n) ==
  /\ \A t \in Threads :
       /\ n \in held[t] => FreeListRefs[n] = References(n)
       /\ Adding(t, n) => FreeListRefs[n] = AddFlag /\ References(n) = 0
       /\ Offering(t, n) \/ Taking(t, n) => FreeListRefs[n] = References(n) + 1
  /\ Free(n) => \/ FreeListRefs[n] = References(n) + 1
                \/ FreeListRefs[n] = References(n) + AddFlag /\ References(n) > 0

\* From the head, FreeListNext leads through all nodes on the list, through no
\* others, and to none twice.
Chained ==
  /\ Closed(Linked)
  /\ \A n \in Linked : FreeListNext[n] # NULL => FreeListNext[n] # ListHead
  /\ \A m, n \in Linked : FreeListNext[m] = FreeListNext[n] /\ FreeListNext[m] # NULL => m = n
  /\ \A S \in SUBSET Nodes : Closed(S) => Linked \subseteq S

NodesOK == \A n \in Nodes : Owned(n) /\ Counted(n)

ListInv == Types /\ (\A t \in Threads : Locals(t)) /\ NodesOK /\ Chained

-----------------------------------------------------------------------------
(* Facts used in several places. *)

\* Sums in the reference word that do not wrap.
LEMMA ModBelow == ASSUME NEW M \in Nat, NEW x \in Nat, x < M PROVE x % M = x
OBVIOUS

\* The same where a sum wraps once.
LEMMA ModOnce == ASSUME NEW M \in Nat, NEW x \in Nat, M <= x, x < 2 * M PROVE x % M = x - M
OBVIOUS

\* References are counted by natural numbers that leave room below the flag.
LEMMA ReferencesFinite ==
  ASSUME NEW n
  PROVE  /\ IsFiniteSet(Refers(n))
         /\ References(n) \in Nat /\ References(n) <= Cardinality(Threads)
         /\ References(n) + 1 < AddFlag
         /\ Cardinality(Threads) \in Nat /\ AddFlag \in Nat
<1>1. Refers(n) \subseteq Threads
  BY DEF Refers
<1>2. IsFiniteSet(Refers(n)) /\ Cardinality(Refers(n)) <= Cardinality(Threads)
  BY <1>1, FS_Subset, FreeListAssumption
<1>3. QED
  BY <1>2, FS_CardinalityType, FreeListAssumption DEF References

\* A thread that refers to a node is counted.
LEMMA SomeReference ==
  ASSUME NEW n, NEW t \in Refers(n)
  PROVE  References(n) > 0
<1>1. References(n) # 0
  BY ReferencesFinite, FS_EmptySet DEF References
<1>2. QED
  BY <1>1, ReferencesFinite

\* A node is counted for what it is as long as nothing that counts changes.
LEMMA NodeUnchanged ==
  ASSUME NEW n \in Nodes, Owned(n), Counted(n),
         FreeListRefs'[n] = FreeListRefs[n], Refers(n)' = Refers(n),
         \A u \in Threads : /\ n \in held'[u] <=> n \in held[u]
                            /\ Adding(u, n)' <=> Adding(u, n)
                            /\ Offering(u, n)' <=> Offering(u, n)
                            /\ Taking(u, n)' <=> Taking(u, n)
  PROVE  Owned(n)' /\ Counted(n)' /\ (n \in Linked' <=> n \in Linked)
<1>1. References(n)' = References(n)
  BY DEF References
<1>2. \A u \in Threads : Owns(u, n)' <=> Owns(u, n)
  BY DEF Owns
<1>3. Free(n)' <=> Free(n)
  BY <1>2 DEF Free
<1>4. Owned(n)'
  BY <1>2 DEF Owned
<1>5. Counted(n)'
  BY <1>1, <1>3 DEF Counted
<1>6. QED
  BY <1>3, <1>4, <1>5 DEF Linked

\* The chain stays if neither the head nor anything on it changes.
LEMMA ChainUnchanged ==
  ASSUME Chained, Linked' = Linked, ListHead' = ListHead,
         \A n \in Linked : FreeListNext'[n] = FreeListNext[n]
  PROVE  Chained'
<1>1. ASSUME NEW S \in SUBSET Nodes, Closed(S)' PROVE Linked \subseteq S
  <2>1. Closed(S \cap Linked)
    BY <1>1 DEF Chained, Closed
  <2>2. S \cap Linked \in SUBSET Nodes
    OBVIOUS
  <2>3. QED
    BY <2>1, <2>2 DEF Chained
<1>2. Closed(Linked)'
  BY DEF Chained, Closed
<1>3. QED
  BY <1>1, <1>2 DEF Chained

\* What a fetch_add does to the reference words.
LEMMA AddRefsAdds ==
  ASSUME Types, NEW n \in Nodes, NEW k \in Int, AddRefs(n, k)
  PROVE  /\ FreeListRefs' \in [Nodes -> Nat]
         /\ FreeListRefs'[n] = (FreeListRefs[n] + k) % (2 * AddFlag)
         /\ \A m \in Nodes \ {n} : FreeListRefs'[m] = FreeListRefs[m]
<1>1. AddFlag \in Nat /\ AddFlag > 0
  BY ReferencesFinite
<1> DEFINE sum == (FreeListRefs[n] + k) % (2 * AddFlag)
<1>2. sum \in Nat
  BY <1>1 DEF Types
<1>3. FreeListRefs' = [FreeListRefs EXCEPT ![n] = sum]
  BY DEF AddRefs
<1> HIDE DEF sum
<1>4. /\ FreeListRefs' \in [Nodes -> Nat] /\ FreeListRefs'[n] = sum
      /\ \A m \in Nodes \ {n} : FreeListRefs'[m] = FreeListRefs[m]
  BY <1>2, <1>3 DEF Types
<1>5. QED
  BY <1>4 DEF sum

\* A reference taken.
LEMMA ReferenceTaken ==
  ASSUME NEW n, NEW t \in Threads, t \notin Refers(n), Refers(n)' = Refers(n) \cup {t}
  PROVE  References(n)' = References(n) + 1 /\ References(n) < Cardinality(Threads)
<1>1. References(n)' = References(n) + 1
  BY ReferencesFinite, FS_AddElement DEF References
<1>2. Refers(n) \subseteq Threads /\ Refers(n) # Threads
  BY DEF Refers
<1>3. References(n) # Cardinality(Threads)
  BY <1>2, FS_Subset, FreeListAssumption DEF References
<1>4. QED
  BY <1>1, <1>3, ReferencesFinite

\* A reference dropped.
LEMMA ReferenceDropped ==
  ASSUME NEW n, NEW t \in Refers(n), Refers(n)' = Refers(n) \ {t}
  PROVE  References(n)' = References(n) - 1
BY ReferencesFinite, FS_RemoveElement DEF References

\* A step after which the threads have to do with the same nodes in the same ways.
LEMMA NodesUnchanged ==
  ASSUME NodesOK, UNCHANGED <<FreeListRefs, held>>,
         \A u \in Threads, n \in Nodes :
           /\ Adding(u, n)' <=> Adding(u, n)
           /\ Offering(u, n)' <=> Offering(u, n)
           /\ Taking(u, n)' <=> Taking(u, n)
           /\ u \in Refers(n)' <=> u \in Refers(n)
  PROVE  NodesOK' /\ Linked' = Linked
<1>1. ASSUME NEW n \in Nodes
      PROVE  Owned(n)' /\ Counted(n)' /\ (n \in Linked' <=> n \in Linked)
  <2>1. Refers(n)' = Refers(n)
    BY DEF Refers
  <2>2. QED
    BY <2>1, NodeUnchanged DEF NodesOK
<1>2. QED
  BY <1>1 DEF NodesOK, Linked

-----------------------------------------------------------------------------
(* The steps: types, and what threads remember. *)

\* The types hold initially, and every step keeps them.
LEMMA TypesNext ==
  ASSUME ListInv, NEW t \in Threads,
         ListStep(t) \/ GiveUp(t) \/ BeginGet(t) \/ \E n \in Nodes : Add(t, n)
  PROVE  Types'
<1> USE FreeListAssumption
    DEF ListInv, Types, Goto, shared, getting, adding, PCs
<1>0. ASSUME NEW n \in Nodes, NEW k \in Int, AddRefs(n, k) PROVE FreeListRefs' \in [Nodes -> Nat]
  BY <1>0, AddRefsAdds
<1>1. Locals(t)
  OBVIOUS
<1>2. CASE InnerAddLoad(t)
  BY <1>2 DEF InnerAddLoad
<1>3. CASE InnerAddNext(t)
  BY <1>3 DEF InnerAddNext
<1>4. CASE InnerAddRefs(t)
  BY <1>4 DEF InnerAddRefs
<1>5. CASE InnerAddHead(t)
  BY <1>1, <1>5 DEF InnerAddHead, InnerAddReturn, Locals
<1>6. CASE InnerAddFlag(t)
  BY <1>0, <1>1, <1>6, AddFlag - 1 \in Int DEF InnerAddFlag, InnerAddReturn, Locals
<1>7. CASE TryGet(t)
  BY <1>7 DEF TryGet, GetLoad
<1>8. CASE GetNone(t)
  BY <1>8 DEF GetNone, ForgetGetting
<1>9. CASE GetRefs(t)
  BY <1>9 DEF GetRefs
<1>10. CASE GetRef(t)
  BY <1>0, <1>1, <1>10 DEF GetRef, Locals
<1>11. CASE GetNext(t)
  BY <1>1, <1>11 DEF GetNext, Locals, Referring
<1>12. CASE GetHead(t)
  BY <1>12 DEF GetHead
<1>13. CASE GetTake(t)
  BY <1>0, <1>1, <1>13 DEF GetTake, ForgetGetting, Locals, Referring
<1>14. CASE GetDrop(t)
  BY <1>0, <1>1, <1>14 DEF GetDrop, Locals, Referring
<1>15. CASE GiveUp(t)
  BY <1>15 DEF GiveUp
<1>16. CASE BeginGet(t)
  BY <1>16 DEF BeginGet
<1>17. ASSUME NEW n \in Nodes, Add(t, n) PROVE Types'
  BY <1>0, <1>17 DEF Add
<1>18. QED
  BY <1>2, <1>3, <1>4, <1>5, <1>6, <1>7, <1>8, <1>9, <1>10, <1>11, <1>12, <1>13, <1>14, <1>15,
     <1>16, <1>17 DEF ListStep

\* What threads remember stays so: only the owner that adds a node writes its next,
\* and then nobody has a reference to it.
LEMMA LocalsNext ==
  ASSUME ListInv, NEW t \in Threads,
         ListStep(t) \/ GiveUp(t) \/ BeginGet(t) \/ \E n \in Nodes : Add(t, n)
  PROVE  \A u \in Threads : Locals(u)'
<1> USE DEF Goto, shared, getting, adding, Referring
<1>1. Types /\ \A u \in Threads : Locals(u)
  BY DEF ListInv
<1>2. CASE UNCHANGED FreeListNext
  <2> SUFFICES ASSUME NEW u \in Threads PROVE Locals(u)'
    OBVIOUS
  <2>1. Locals(u)
    BY <1>1
  <2>2. CASE InnerAddLoad(t)
    BY <1>1, <2>1, <2>2 DEF Types, InnerAddLoad, Locals
  <2>3. CASE InnerAddNext(t)
    BY <1>1, <1>2, <2>1, <2>3 DEF Types, InnerAddNext, Locals
  <2>4. CASE InnerAddRefs(t)
    BY <1>1, <2>1, <2>4 DEF Types, InnerAddRefs, Locals
  <2>5. CASE InnerAddHead(t)
    BY <1>1, <2>1, <2>5 DEF Types, InnerAddHead, InnerAddReturn, Locals
  <2>6. CASE InnerAddFlag(t)
    BY <1>1, <2>1, <2>6 DEF Types, InnerAddFlag, InnerAddReturn, Locals
  <2>7. CASE TryGet(t)
    BY <1>1, <2>1, <2>7 DEF Types, TryGet, GetLoad, Locals
  <2>8. CASE GetNone(t)
    BY <1>1, <2>1, <2>8 DEF Types, GetNone, ForgetGetting, Locals
  <2>9. CASE GetRefs(t)
    BY <1>1, <2>1, <2>9 DEF Types, GetRefs, Locals
  <2>10. CASE GetRef(t)
    BY <1>1, <2>1, <2>10 DEF Types, GetRef, Locals
  <2>11. CASE GetNext(t)
    BY <1>1, <2>1, <2>11 DEF Types, GetNext, Locals
  <2>12. CASE GetHead(t)
    BY <1>1, <2>1, <2>12 DEF Types, GetHead, Locals
  <2>13. CASE GetTake(t)
    BY <1>1, <2>1, <2>13 DEF Types, GetTake, ForgetGetting, Locals
  <2>14. CASE GetDrop(t)
    BY <1>1, <2>1, <2>14 DEF Types, GetDrop, Locals
  <2>15. CASE GiveUp(t)
    BY <1>1, <2>1, <2>15 DEF Types, GiveUp, Locals
  <2>16. CASE BeginGet(t)
    BY <1>1, <2>1, <2>16 DEF Types, BeginGet, Locals
  <2>17. ASSUME NEW n \in Nodes, Add(t, n) PROVE Locals(u)'
    BY <1>1, <2>1, <2>17, FreeListAssumption DEF Types, Add, Locals
  <2>18. QED
    BY <2>2, <2>3, <2>4, <2>5, <2>6, <2>7, <2>8, <2>9, <2>10, <2>11, <2>12, <2>13, <2>14,
       <2>15, <2>16, <2>17 DEF ListStep
<1>3. CASE InnerAddNext(t)
  <2> DEFINE x == InNode[t]
  <2>1. x \in Nodes /\ Adding(t, x)
    BY <1>1, <1>3 DEF Types, Locals, InnerAddNext, Adding
  <2>2. Owned(x) /\ Counted(x)
    BY <2>1 DEF ListInv, NodesOK
  <2>3. /\ pc' = [pc EXCEPT ![t] = "addRefs"]
        /\ FreeListNext' = [FreeListNext EXCEPT ![x] = InnerHead[t]]
        /\ UNCHANGED <<CurrentHead, PrevHead, Refs, Next_, InNode, InnerHead>>
    BY <1>3 DEF InnerAddNext
  <2>4. Locals(t)'
    BY <1>1, <1>3, <2>1, <2>3 DEF Types, Locals, InnerAddNext
  <2>5. ASSUME NEW u \in Threads \ {t} PROVE Locals(u)'
    <3>1. pc[u] \in {"addRefs", "addHead"} => InNode[u] # x
      BY <2>1, <2>2, <2>5 DEF Owned, Owns, Adding, Offering
    <3>2. pc[u] = "getHead" => PrevHead[u] # x
      <4>1. Refers(x) = {}
        BY <2>1, <2>2, SomeReference DEF Counted
      <4>2. QED
        BY <4>1 DEF Refers
    <3>3. pc'[u] = pc[u]
      BY <1>1, <2>3, <2>5 DEF Types
    <3>4. \A y \in Nodes \ {x} : FreeListNext'[y] = FreeListNext[y]
      BY <1>1, <2>1, <2>3 DEF Types
    <3>5. InNode[u] \in Nodes \union {NULL} /\ PrevHead[u] \in Nodes \union {NULL} /\ Locals(u)
      BY <1>1 DEF Types
    <3>6. QED
      BY <2>3, <3>1, <3>2, <3>3, <3>4, <3>5 DEF Locals
  <2>6. QED
    BY <2>4, <2>5
<1>4. QED
  <2>1. UNCHANGED FreeListNext \/ InnerAddNext(t)
    BY DEF ListStep, InnerAddLoad, InnerAddRefs, InnerAddHead, InnerAddFlag, TryGet, GetNone,
           GetRefs, GetRef, GetNext, GetHead, GetTake, GetDrop, GiveUp, BeginGet, Add
  <2>2. QED
    BY <1>2, <1>3, <2>1

-----------------------------------------------------------------------------
(* The steps: owners, counts and the chain. *)

\* Steps that read, or write what only their thread looks at.
LEMMA QuietSteps ==
  ASSUME ListInv, NEW t \in Threads,
         \/ InnerAddLoad(t) \/ InnerAddNext(t) \/ TryGet(t) \/ GetNone(t) \/ GetRefs(t)
         \/ GetNext(t) \/ GiveUp(t) \/ BeginGet(t)
  PROVE  NodesOK' /\ Chained'
<1> USE DEF Goto, shared, getting, adding
<1>1. Types /\ NodesOK /\ Chained /\ Locals(t)
  BY DEF ListInv
<1>2. UNCHANGED <<ListHead, FreeListRefs, held>>
  BY DEF InnerAddLoad, InnerAddNext, TryGet, GetNone, GetRefs, GetNext, GiveUp, BeginGet
<1>3. ASSUME NEW u \in Threads, NEW n \in Nodes
      PROVE  /\ Adding(u, n)' <=> Adding(u, n)
             /\ Offering(u, n)' <=> Offering(u, n)
             /\ Taking(u, n)' <=> Taking(u, n)
             /\ u \in Refers(n)' <=> u \in Refers(n)
  <2> USE <1>1 DEF Types, Adding, Offering, Taking, Refers, Referring
  <2>1. CASE InnerAddLoad(t)
    BY <2>1 DEF InnerAddLoad
  <2>2. CASE InnerAddNext(t)
    BY <2>2 DEF InnerAddNext
  <2>3. CASE TryGet(t)
    BY <2>3 DEF TryGet, GetLoad
  <2>4. CASE GetNone(t)
    BY <2>4 DEF GetNone, ForgetGetting
  <2>5. CASE GetRefs(t)
    BY <2>5 DEF GetRefs
  <2>6. CASE GetNext(t)
    BY <2>6 DEF GetNext
  <2>7. CASE GiveUp(t)
    BY <2>7 DEF GiveUp
  <2>8. CASE BeginGet(t)
    BY <2>8 DEF BeginGet
  <2>9. QED
    BY <2>1, <2>2, <2>3, <2>4, <2>5, <2>6, <2>7, <2>8
<1>4. NodesOK' /\ Linked' = Linked
  BY <1>1, <1>2, <1>3, NodesUnchanged
<1>5. ASSUME NEW n \in Linked PROVE FreeListNext'[n] = FreeListNext[n]
  <2>1. CASE InnerAddNext(t)
    <3>1. Adding(t, InNode[t])
      BY <2>1 DEF InnerAddNext, Adding
    <3>2. n # InNode[t]
      BY <3>1 DEF Linked, Free, Owns
    <3>3. QED
      BY <1>1, <2>1, <3>2 DEF InnerAddNext, Types, Linked
  <2>2. CASE ~InnerAddNext(t)
    BY <2>2 DEF InnerAddLoad, TryGet, GetNone, GetRefs, GetNext, GiveUp, BeginGet
  <2>3. QED
    BY <2>1, <2>2
<1>6. Chained'
  BY <1>1, <1>2, <1>4, <1>5, ChainUnchanged
<1>7. QED
  BY <1>4, <1>6

\* A step that changes how one node is owned or counted, and leaves the others.
LEMMA OneNodeChanges ==
  ASSUME NodesOK, NEW x \in Nodes, Owned(x)', Counted(x)',
         \A n \in Nodes \ {x} :
           /\ FreeListRefs'[n] = FreeListRefs[n]
           /\ \A u \in Threads :
                /\ n \in held'[u] <=> n \in held[u]
                /\ Adding(u, n)' <=> Adding(u, n)
                /\ Offering(u, n)' <=> Offering(u, n)
                /\ Taking(u, n)' <=> Taking(u, n)
                /\ u \in Refers(n)' <=> u \in Refers(n)
  PROVE  NodesOK' /\ \A n \in Nodes \ {x} : n \in Linked' <=> n \in Linked
<1>1. ASSUME NEW n \in Nodes \ {x}
      PROVE  Owned(n)' /\ Counted(n)' /\ (n \in Linked' <=> n \in Linked)
  <2>1. Refers(n)' = Refers(n)
    BY <1>1 DEF Refers
  <2>2. QED
    BY <1>1, <2>1, NodeUnchanged DEF NodesOK
<1>2. QED
  BY <1>1 DEF NodesOK

\* Add: who adds a node nobody has a reference to goes on to link it; else the flag
\* waits with the references.
LEMMA AddStep ==
  ASSUME ListInv, NEW t \in Threads, NEW x \in Nodes, Add(t, x)
  PROVE  NodesOK' /\ Chained'
<1> USE DEF Goto, getting
<1>1. Types /\ NodesOK /\ Chained /\ Owned(x) /\ Counted(x)
  BY DEF ListInv, NodesOK
<1>2. /\ pc[t] = "idle" /\ x \in held[t] /\ held' = [held EXCEPT ![t] = @ \ {x}]
      /\ AddRefs(x, AddFlag) /\ UNCHANGED <<ListHead, FreeListNext, PrevHead>>
  BY DEF Add
<1>3. References(x) \in Nat /\ References(x) + 1 < AddFlag /\ AddFlag \in Nat
  BY ReferencesFinite
<1>4. FreeListRefs[x] = References(x)
  BY <1>1, <1>2 DEF Counted
<1>5. /\ FreeListRefs'[x] = References(x) + AddFlag
      /\ \A n \in Nodes \ {x} : FreeListRefs'[n] = FreeListRefs[n]
  <2>1. FreeListRefs'[x] = (FreeListRefs[x] + AddFlag) % (2 * AddFlag)
        /\ \A n \in Nodes \ {x} : FreeListRefs'[n] = FreeListRefs[n]
    BY <1>1, <1>2, <1>3, AddRefsAdds
  <2>2. (References(x) + AddFlag) % (2 * AddFlag) = References(x) + AddFlag
    BY <1>3, ModBelow
  <2>3. QED
    BY <1>4, <2>1, <2>2
<1>6. /\ \A n \in Nodes, u \in Threads : n \in held'[u] <=> n \in held[u] /\ ~(n = x /\ u = t)
      /\ \A u \in Threads : ~Adding(u, x) /\ ~Offering(u, x) /\ ~Taking(u, x)
      /\ \A u \in Threads : x \in held[u] => u = t
  BY <1>1, <1>2 DEF Types, Owned, Owns
<1>7. /\ \A u \in Threads, n \in Nodes :
           /\ Offering(u, n)' <=> Offering(u, n)
           /\ Taking(u, n)' <=> Taking(u, n)
           /\ u \in Refers(n)' <=> u \in Refers(n)
           /\ Adding(u, n)' <=> Adding(u, n) \/ (u = t /\ n = x /\ FreeListRefs[x] = 0)
  <2> USE <1>1, <1>2 DEF Add, Types, Adding, Offering, Taking, Refers, Referring
  <2>1. CASE FreeListRefs[x] = 0
    BY <2>1
  <2>2. CASE FreeListRefs[x] # 0
    BY <2>2
  <2>3. QED
    BY <2>1, <2>2
<1>8. References(x)' = References(x)
  <2>1. Refers(x)' = Refers(x)
    BY <1>7 DEF Refers
  <2>2. QED
    BY <2>1 DEF References
<1>9. Owned(x)'
  BY <1>6, <1>7 DEF Owned, Owns
<1>10. Counted(x)'
  BY <1>3, <1>4, <1>5, <1>6, <1>7, <1>8 DEF Counted, Free, Owns
<1>11. NodesOK' /\ \A n \in Nodes \ {x} : n \in Linked' <=> n \in Linked
  <2>1. ASSUME NEW n \in Nodes \ {x}
        PROVE  /\ FreeListRefs'[n] = FreeListRefs[n]
               /\ \A u \in Threads :
                    /\ n \in held'[u] <=> n \in held[u]
                    /\ Adding(u, n)' <=> Adding(u, n)
                    /\ Offering(u, n)' <=> Offering(u, n)
                    /\ Taking(u, n)' <=> Taking(u, n)
                    /\ u \in Refers(n)' <=> u \in Refers(n)
    BY <1>5, <1>6, <1>7
  <2>2. QED
    BY <1>1, <1>9, <1>10, <2>1, OneNodeChanges
<1>12. x \notin Linked /\ x \notin Linked'
  BY <1>2, <1>3, <1>5 DEF Linked, Free, Owns
<1>13. Linked' = Linked
  BY <1>11, <1>12 DEF Linked
<1>14. QED
  BY <1>1, <1>2, <1>11, <1>13, ChainUnchanged

\* InnerAdd puts the list's reference into the word of a node only it can reach.
LEMMA InnerAddRefsStep ==
  ASSUME ListInv, NEW t \in Threads, InnerAddRefs(t)
  PROVE  NodesOK' /\ Chained'
<1> USE DEF Goto, getting, adding
<1>0. PICK x \in Nodes : x = InNode[t] /\ Adding(t, x)
  BY DEF ListInv, Locals, Types, InnerAddRefs, Adding
<1>1. Types /\ NodesOK /\ Chained /\ Adding(t, x) /\ Owned(x) /\ Counted(x)
  BY <1>0 DEF ListInv, NodesOK
<1>2. /\ FreeListRefs' = [FreeListRefs EXCEPT ![x] = 1]
      /\ UNCHANGED <<ListHead, FreeListNext, held>>
  BY <1>0 DEF InnerAddRefs
<1>3. \A u \in Threads, n \in Nodes :
        /\ Adding(u, n)' <=> Adding(u, n) /\ u # t
        /\ Offering(u, n)' <=> Offering(u, n) \/ (u = t /\ n = x)
        /\ Taking(u, n)' <=> Taking(u, n)
        /\ u \in Refers(n)' <=> u \in Refers(n)
        /\ Adding(t, n) => n = x
  BY <1>0, <1>1 DEF InnerAddRefs, Types, Adding, Offering, Taking, Refers, Referring
<1>4. References(x)' = 0
  <2>1. Refers(x)' = Refers(x)
    BY <1>1, <1>3 DEF Refers
  <2>2. QED
    BY <1>1, <2>1 DEF References, Counted
<1>5. FreeListRefs'[x] = 1 /\ \A n \in Nodes \ {x} : FreeListRefs'[n] = FreeListRefs[n]
  BY <1>1, <1>2 DEF Types
<1>6. Owned(x)' /\ Counted(x)'
  BY <1>1, <1>2, <1>3, <1>4, <1>5 DEF Owned, Owns, Counted, Free
<1>7. NodesOK' /\ \A n \in Nodes \ {x} : n \in Linked' <=> n \in Linked
  <2>1. ASSUME NEW n \in Nodes \ {x}, NEW u \in Threads
        PROVE  /\ n \in held'[u] <=> n \in held[u]
               /\ Adding(u, n)' <=> Adding(u, n)
               /\ Offering(u, n)' <=> Offering(u, n)
               /\ Taking(u, n)' <=> Taking(u, n)
               /\ u \in Refers(n)' <=> u \in Refers(n)
    BY <1>2, <1>3
  <2>2. QED
    BY <1>1, <1>5, <1>6, <2>1, OneNodeChanges
<1>8. x \notin Linked /\ x \notin Linked'
  BY <1>1, <1>3 DEF Linked, Free, Owns
<1>9. Linked' = Linked
  BY <1>7, <1>8 DEF Linked
<1>10. QED
  BY <1>1, <1>2, <1>7, <1>9, ChainUnchanged

\* InnerAdd's exchange of the head: the node is linked in front, or it is not.
LEMMA InnerAddHeadStep ==
  ASSUME ListInv, NEW t \in Threads, InnerAddHead(t)
  PROVE  NodesOK' /\ Chained'
<1> USE DEF Goto, getting, adding
<1>0. PICK x \in Nodes : x = InNode[t] /\ Offering(t, x) /\ FreeListNext[x] = InnerHead[t]
  BY DEF ListInv, Locals, Types, InnerAddHead, Offering
<1>1. /\ Types /\ NodesOK /\ Chained
      /\ Offering(t, x) /\ Owned(x) /\ Counted(x) /\ FreeListNext[x] = InnerHead[t]
  BY <1>0 DEF ListInv, NodesOK
<1>2. UNCHANGED <<FreeListNext, FreeListRefs, held>>
  BY DEF InnerAddHead
<1>3. CASE ListHead # InnerHead[t]
  <2>1. \A u \in Threads, n \in Nodes :
          /\ Adding(u, n)' <=> Adding(u, n)
          /\ Offering(u, n)' <=> Offering(u, n)
          /\ Taking(u, n)' <=> Taking(u, n)
          /\ u \in Refers(n)' <=> u \in Refers(n)
    BY <1>1, <1>3 DEF InnerAddHead, Types, Adding, Offering, Taking, Refers, Referring
  <2>2. NodesOK' /\ Linked' = Linked
    BY <1>1, <1>2, <2>1, NodesUnchanged
  <2>3. UNCHANGED ListHead
    BY <1>3 DEF InnerAddHead
  <2>4. QED
    BY <1>1, <1>2, <2>2, <2>3, ChainUnchanged
<1>4. CASE ListHead = InnerHead[t]
  <2>1. \A u \in Threads, n \in Nodes :
          /\ Adding(u, n)' <=> Adding(u, n)
          /\ Offering(u, n)' <=> Offering(u, n) /\ u # t
          /\ Taking(u, n)' <=> Taking(u, n)
          /\ u \in Refers(n)' <=> u \in Refers(n)
          /\ Offering(t, n) => n = x
    BY <1>0, <1>1, <1>4
    DEF InnerAddHead, InnerAddReturn, Types, Adding, Offering, Taking, Refers, Referring
  <2>2. ListHead' = x
    BY <1>0, <1>4 DEF InnerAddHead
  <2>3. References(x)' = References(x) /\ References(x) \in Nat /\ References(x) + 1 < AddFlag
    <3>1. Refers(x)' = Refers(x)
      BY <1>1, <2>1 DEF Refers
    <3>2. QED
      BY <3>1, ReferencesFinite DEF References
  <2>4. Owned(x)' /\ Counted(x)'
    BY <1>1, <1>2, <2>1, <2>3 DEF Owned, Owns, Counted, Free
  <2>5. NodesOK' /\ \A n \in Nodes \ {x} : n \in Linked' <=> n \in Linked
    <3>1. ASSUME NEW n \in Nodes \ {x}, NEW u \in Threads
          PROVE  /\ n \in held'[u] <=> n \in held[u]
                 /\ Adding(u, n)' <=> Adding(u, n)
                 /\ Offering(u, n)' <=> Offering(u, n)
                 /\ Taking(u, n)' <=> Taking(u, n)
                 /\ u \in Refers(n)' <=> u \in Refers(n)
      BY <1>2, <2>1
    <3>2. QED
      BY <1>1, <1>2, <2>4, <3>1, OneNodeChanges
  <2>6. x \notin Linked
    BY <1>1 DEF Linked, Free, Owns
  <2>7. x \in Linked'
    <3>1. Free(x)'
      <4>1. ~Adding(t, x) /\ ~Taking(t, x)
        BY <1>1 DEF Adding, Offering, Taking
      <4>2. QED
        BY <1>1, <1>2, <2>1, <4>1 DEF Free, Owned, Owns
    <3>2. FreeListRefs'[x] < AddFlag
      BY <1>1, <1>2, <2>3 DEF Counted
    <3>3. QED
      BY <1>1, <3>1, <3>2 DEF Linked
  <2>8. Linked' = Linked \cup {x}
    BY <1>1, <2>5, <2>6, <2>7 DEF Linked
  <2>9. Chained'
    <3>1. FreeListNext[x] = ListHead /\ x # NULL
      BY <1>1, <1>4, FreeListAssumption
    <3>2. Closed(Linked)'
      BY <1>1, <1>2, <2>2, <2>8, <3>1 DEF Chained, Closed
    <3>3. ASSUME NEW S \in SUBSET Nodes, Closed(S)' PROVE Linked' \subseteq S
      <4>1. x \in S /\ Closed(S)
        BY <1>2, <2>2, <3>1, <3>3 DEF Closed
      <4>2. QED
        BY <1>1, <2>8, <4>1 DEF Chained
    <3>4. \A n \in Linked : FreeListNext[n] # x
      BY <1>1, <2>6, <3>1 DEF Chained, Closed
    <3>5. \A n \in Linked' : FreeListNext'[n] # NULL => FreeListNext'[n] # ListHead'
      <4>1. ListHead # x
        BY <1>1, <2>6, <3>1 DEF Chained, Closed
      <4>2. QED
        BY <1>2, <2>2, <2>8, <3>1, <3>4, <4>1
    <3>6. \A m, n \in Linked' :
            FreeListNext'[m] = FreeListNext'[n] /\ FreeListNext'[m] # NULL => m = n
      BY <1>1, <1>2, <2>8, <3>1 DEF Chained
    <3>7. QED
      BY <3>2, <3>3, <3>5, <3>6 DEF Chained
  <2>10. QED
    BY <2>5, <2>9
<1>5. QED
  BY <1>3, <1>4

\* InnerAdd's second fetch_add: the node is added again at once, or left, with the
\* flag, to those who have a reference.
LEMMA InnerAddFlagStep ==
  ASSUME ListInv, NEW t \in Threads, InnerAddFlag(t)
  PROVE  NodesOK' /\ Chained'
<1> USE DEF Goto, getting, adding
<1>0. PICK x \in Nodes : x = InNode[t] /\ Offering(t, x)
  BY DEF ListInv, Locals, Types, InnerAddFlag, Offering
<1>1. Types /\ NodesOK /\ Chained /\ Owned(x) /\ Counted(x)
  BY <1>0 DEF ListInv, NodesOK
<1>2. AddRefs(x, AddFlag - 1) /\ UNCHANGED <<ListHead, FreeListNext, held>>
  BY <1>0 DEF InnerAddFlag
<1>3. References(x) \in Nat /\ References(x) + 1 < AddFlag /\ AddFlag \in Nat
  BY ReferencesFinite
<1>4. FreeListRefs[x] = References(x) + 1
  BY <1>0, <1>1 DEF Counted
<1>5. /\ FreeListRefs'[x] = References(x) + AddFlag
      /\ \A n \in Nodes \ {x} : FreeListRefs'[n] = FreeListRefs[n]
  <2>1. /\ FreeListRefs'[x] = (FreeListRefs[x] + (AddFlag - 1)) % (2 * AddFlag)
        /\ \A n \in Nodes \ {x} : FreeListRefs'[n] = FreeListRefs[n]
    BY <1>1, <1>2, <1>3, AddRefsAdds, AddFlag - 1 \in Int
  <2>2. (References(x) + AddFlag) % (2 * AddFlag) = References(x) + AddFlag
    BY <1>3, ModBelow
  <2>3. FreeListRefs[x] + (AddFlag - 1) = References(x) + AddFlag
    BY <1>3, <1>4
  <2>4. QED
    BY <2>1, <2>2, <2>3
<1>6. \A u \in Threads, n \in Nodes :
        /\ Adding(u, n)' <=> Adding(u, n) \/ (u = t /\ n = x /\ References(x) = 0)
        /\ Offering(u, n)' <=> Offering(u, n) /\ u # t
        /\ Taking(u, n)' <=> Taking(u, n)
        /\ u \in Refers(n)' <=> u \in Refers(n)
        /\ Offering(t, n) => n = x
  <2> USE <1>0, <1>1 DEF InnerAddFlag, Types, Adding, Offering, Taking, Refers, Referring
  <2>1. CASE References(x) = 0
    <3>1. FreeListRefs[InNode[t]] = 1
      BY <1>4, <2>1
    <3>2. QED
      BY <2>1, <3>1
  <2>2. CASE References(x) # 0
    <3>1. FreeListRefs[InNode[t]] # 1
      BY <1>3, <1>4, <2>2
    <3>2. QED
      BY <2>2, <3>1 DEF InnerAddReturn
  <2>3. QED
    BY <2>1, <2>2
<1>7. References(x)' = References(x)
  <2>1. Refers(x)' = Refers(x)
    BY <1>6 DEF Refers
  <2>2. QED
    BY <2>1 DEF References
<1>8. Owned(x)' /\ Counted(x)'
  <2>1. ~Adding(t, x) /\ ~Taking(t, x)
    BY <1>0 DEF Adding, Offering, Taking
  <2>2. \A u \in Threads \ {t} : ~Owns(u, x)
    BY <1>0, <1>1 DEF Owned, Owns
  <2>3. x \notin held[t]
    BY <1>0, <1>1 DEF Owned
  <2>4. Owned(x)'
    BY <1>2, <1>6, <2>1, <2>2, <2>3 DEF Owned, Owns
  <2>5. Counted(x)'
    BY <1>2, <1>3, <1>5, <1>6, <1>7, <2>1, <2>2, <2>3 DEF Counted, Free, Owns
  <2>6. QED
    BY <2>4, <2>5
<1>9. NodesOK' /\ \A n \in Nodes \ {x} : n \in Linked' <=> n \in Linked
  <2>1. ASSUME NEW n \in Nodes \ {x}, NEW u \in Threads
        PROVE  /\ n \in held'[u] <=> n \in held[u]
               /\ Adding(u, n)' <=> Adding(u, n)
               /\ Offering(u, n)' <=> Offering(u, n)
               /\ Taking(u, n)' <=> Taking(u, n)
               /\ u \in Refers(n)' <=> u \in Refers(n)
    BY <1>2, <1>6
  <2>2. QED
    BY <1>1, <1>5, <1>8, <2>1, OneNodeChanges
<1>10. x \notin Linked /\ x \notin Linked'
  BY <1>0, <1>3, <1>5 DEF Linked, Free, Owns
<1>11. Linked' = Linked
  BY <1>9, <1>10 DEF Linked
<1>12. QED
  BY <1>1, <1>2, <1>9, <1>11, ChainUnchanged

\* TryGet's exchange of the reference word: a reference is only taken to a node
\* whose count is not zero, so never to one that is being added.
LEMMA GetRefStep ==
  ASSUME ListInv, NEW t \in Threads, GetRef(t)
  PROVE  NodesOK' /\ Chained'
<1> USE DEF Goto, getting, adding
<1>0. PICK x \in Nodes : x = CurrentHead[t] /\ x = PrevHead[t] /\ Refs[t] % AddFlag # 0
  BY DEF ListInv, Locals, Types, GetRef, Referring
<1>1. Types /\ NodesOK /\ Chained /\ Owned(x) /\ Counted(x)
  BY <1>0 DEF ListInv, NodesOK
<1>2. /\ UNCHANGED <<ListHead, FreeListNext, held, PrevHead, InNode>> /\ pc[t] = "getRef"
  BY DEF GetRef
<1>3. CASE FreeListRefs[x] # Refs[t]
  <2>1. \A u \in Threads, n \in Nodes :
          /\ Adding(u, n)' <=> Adding(u, n)
          /\ Offering(u, n)' <=> Offering(u, n)
          /\ Taking(u, n)' <=> Taking(u, n)
          /\ u \in Refers(n)' <=> u \in Refers(n)
    BY <1>0, <1>1, <1>3 DEF GetRef, Types, Adding, Offering, Taking, Refers, Referring
  <2>2. UNCHANGED FreeListRefs
    BY <1>0, <1>3 DEF GetRef
  <2>3. NodesOK' /\ Linked' = Linked
    BY <1>1, <1>2, <2>1, <2>2, NodesUnchanged
  <2>4. QED
    BY <1>1, <1>2, <2>3, ChainUnchanged
<1>4. CASE FreeListRefs[x] = Refs[t]
  <2>1. \A u \in Threads, n \in Nodes :
          /\ Adding(u, n)' <=> Adding(u, n)
          /\ Offering(u, n)' <=> Offering(u, n)
          /\ Taking(u, n)' <=> Taking(u, n)
          /\ u \in Refers(n)' <=> u \in Refers(n) \/ (u = t /\ n = x)
    BY <1>0, <1>1, <1>4 DEF GetRef, Types, Adding, Offering, Taking, Refers, Referring
  <2>2. t \notin Refers(x) /\ Refers(x)' = Refers(x) \cup {t}
    BY <1>2, <2>1 DEF Refers, Referring
  <2>3. References(x)' = References(x) + 1 /\ References(x) < Cardinality(Threads)
    BY <2>2, ReferenceTaken
  <2>4. /\ References(x) \in Nat /\ References(x) + 2 < AddFlag /\ AddFlag \in Nat
    BY <2>3, ReferencesFinite, FreeListAssumption
  <2>5. FreeListRefs[x] \in Nat /\ FreeListRefs[x] # 0 /\ FreeListRefs[x] # AddFlag
    <3>1. 0 % AddFlag = 0 /\ AddFlag % AddFlag = 0
      BY <2>4, ModBelow, ModOnce
    <3>2. QED
      BY <1>0, <1>1, <1>4, <3>1 DEF Types
  <2>6. FreeListRefs[x] < 2 * AddFlag - 1
    <3>1. CASE Free(x)
      BY <1>1, <2>4, <3>1 DEF Counted
    <3>2. CASE ~Free(x)
      BY <1>1, <2>4, <2>5, <3>2 DEF Counted, Free, Owns
    <3>3. QED
      BY <3>1, <3>2
  <2>7. /\ FreeListRefs'[x] = FreeListRefs[x] + 1
        /\ \A n \in Nodes \ {x} : FreeListRefs'[n] = FreeListRefs[n]
    <3>1. AddRefs(x, 1)
      BY <1>0, <1>4 DEF GetRef
    <3>2. /\ FreeListRefs'[x] = (FreeListRefs[x] + 1) % (2 * AddFlag)
          /\ \A n \in Nodes \ {x} : FreeListRefs'[n] = FreeListRefs[n]
      BY <1>1, <3>1, AddRefsAdds
    <3>3. (FreeListRefs[x] + 1) % (2 * AddFlag) = FreeListRefs[x] + 1
      <4>1. FreeListRefs[x] + 1 \in Nat /\ FreeListRefs[x] + 1 < 2 * AddFlag /\ 2 * AddFlag \in Nat
        BY <2>4, <2>5, <2>6
      <4>2. QED
        BY <4>1, ModBelow
    <3>4. QED
      BY <3>2, <3>3
  <2>8. \A u \in Threads : Owns(u, x)' <=> Owns(u, x)
    BY <1>2, <2>1 DEF Owns
  <2>9. Owned(x)'
    BY <1>1, <1>2, <2>1, <2>8 DEF Owned
  <2>10. Free(x)' <=> Free(x)
    BY <2>8 DEF Free
  <2>11. Counted(x)'
    BY <1>1, <1>2, <2>1, <2>3, <2>4, <2>5, <2>7, <2>10 DEF Counted
  <2>12. NodesOK' /\ \A n \in Nodes \ {x} : n \in Linked' <=> n \in Linked
    <3>1. ASSUME NEW n \in Nodes \ {x}, NEW u \in Threads
          PROVE  /\ n \in held'[u] <=> n \in held[u]
                 /\ Adding(u, n)' <=> Adding(u, n)
                 /\ Offering(u, n)' <=> Offering(u, n)
                 /\ Taking(u, n)' <=> Taking(u, n)
                 /\ u \in Refers(n)' <=> u \in Refers(n)
      BY <1>2, <2>1
    <3>2. QED
      BY <1>1, <2>7, <2>9, <2>11, <3>1, OneNodeChanges
  <2>13. x \in Linked' <=> x \in Linked
    <3>1. CASE Free(x)
      BY <1>1, <2>4, <2>7, <2>10, <3>1 DEF Counted, Linked
    <3>2. CASE ~Free(x)
      BY <2>10, <3>2 DEF Linked
    <3>3. QED
      BY <3>1, <3>2
  <2>14. Linked' = Linked
    BY <2>12, <2>13 DEF Linked
  <2>15. QED
    BY <1>1, <1>2, <2>12, <2>14, ChainUnchanged
<1>5. QED
  BY <1>3, <1>4

\* TryGet's exchange of the head: the first node leaves the list with all that
\* follows it in place, because its next was still its next.
LEMMA GetHeadStep ==
  ASSUME ListInv, NEW t \in Threads, GetHead(t)
  PROVE  NodesOK' /\ Chained'
<1> USE DEF Goto, getting, adding
<1>0. PICK x \in Nodes : /\ x = CurrentHead[t] /\ x = PrevHead[t]
                         /\ Next_[t] = FreeListNext[x] /\ pc[t] = "getHead"
  BY DEF ListInv, Locals, Types, GetHead, Referring
<1>1. Types /\ NodesOK /\ Chained /\ Owned(x) /\ Counted(x)
  BY <1>0 DEF ListInv, NodesOK
<1>2. UNCHANGED <<FreeListNext, FreeListRefs, held, PrevHead, InNode>>
  BY DEF GetHead
<1>3. CASE ListHead # x
  <2>1. \A u \in Threads, n \in Nodes :
          /\ Adding(u, n)' <=> Adding(u, n)
          /\ Offering(u, n)' <=> Offering(u, n)
          /\ Taking(u, n)' <=> Taking(u, n)
          /\ u \in Refers(n)' <=> u \in Refers(n)
    BY <1>0, <1>1, <1>3 DEF GetHead, Types, Adding, Offering, Taking, Refers, Referring
  <2>2. NodesOK' /\ Linked' = Linked
    BY <1>1, <1>2, <2>1, NodesUnchanged
  <2>3. UNCHANGED ListHead
    BY <1>0, <1>3 DEF GetHead
  <2>4. QED
    BY <1>1, <1>2, <2>2, <2>3, ChainUnchanged
<1>4. CASE ListHead = x
  <2>1. \A u \in Threads, n \in Nodes :
          /\ Adding(u, n)' <=> Adding(u, n)
          /\ Offering(u, n)' <=> Offering(u, n)
          /\ Taking(u, n)' <=> Taking(u, n) \/ (u = t /\ n = x)
          /\ u \in Refers(n)' <=> u \in Refers(n)
    BY <1>0, <1>1, <1>4 DEF GetHead, Types, Adding, Offering, Taking, Refers, Referring
  <2>2. ListHead' = FreeListNext[x]
    BY <1>0, <1>4 DEF GetHead
  <2>3. References(x)' = References(x) /\ References(x) \in Nat /\ AddFlag \in Nat
    <3>1. Refers(x)' = Refers(x)
      BY <2>1 DEF Refers
    <3>2. QED
      BY <3>1, ReferencesFinite DEF References
  <2>4. x # NULL
    BY FreeListAssumption
  <2>5. x \in Linked
    BY <1>1, <1>4, <2>4 DEF Chained, Closed
  <2>6. Free(x) /\ FreeListRefs[x] = References(x) + 1
    BY <1>1, <2>3, <2>5 DEF Linked, Counted
  <2>7. Owned(x)' /\ Counted(x)'
    BY <1>2, <2>1, <2>3, <2>6 DEF Owned, Owns, Counted, Free
  <2>8. NodesOK' /\ \A n \in Nodes \ {x} : n \in Linked' <=> n \in Linked
    <3>1. ASSUME NEW n \in Nodes \ {x}, NEW u \in Threads
          PROVE  /\ n \in held'[u] <=> n \in held[u]
                 /\ Adding(u, n)' <=> Adding(u, n)
                 /\ Offering(u, n)' <=> Offering(u, n)
                 /\ Taking(u, n)' <=> Taking(u, n)
                 /\ u \in Refers(n)' <=> u \in Refers(n)
      BY <1>2, <2>1
    <3>2. QED
      BY <1>1, <1>2, <2>7, <3>1, OneNodeChanges
  <2>9. x \notin Linked'
    BY <2>1 DEF Linked, Free, Owns
  <2>10. Linked' = Linked \ {x}
    BY <2>5, <2>8, <2>9 DEF Linked
  <2>11. Chained'
    <3>1. \A n \in Linked : FreeListNext[n] # x
      BY <1>1, <1>4, <2>4 DEF Chained
    <3>2. Closed(Linked)'
      BY <1>1, <1>2, <2>2, <2>5, <2>10, <3>1 DEF Chained, Closed
    <3>3. ASSUME NEW S \in SUBSET Nodes, Closed(S)' PROVE Linked' \subseteq S
      <4>1. Closed(S \cup {x})
        BY <1>2, <1>4, <2>2, <3>3 DEF Closed
      <4>2. S \cup {x} \in SUBSET Nodes
        OBVIOUS
      <4>3. Linked \subseteq S \cup {x}
        BY <1>1, <4>1, <4>2 DEF Chained
      <4>4. QED
        BY <2>10, <4>3
    <3>4. \A n \in Linked' : FreeListNext'[n] # NULL => FreeListNext'[n] # ListHead'
      BY <1>1, <1>2, <2>2, <2>5, <2>10 DEF Chained
    <3>5. \A m, n \in Linked' :
            FreeListNext'[m] = FreeListNext'[n] /\ FreeListNext'[m] # NULL => m = n
      BY <1>1, <1>2, <2>10 DEF Chained
    <3>6. QED
      BY <3>2, <3>3, <3>4, <3>5 DEF Chained
  <2>12. QED
    BY <2>8, <2>11
<1>5. QED
  BY <1>3, <1>4

\* TryGet succeeds: the list's reference and the thread's go, the node is held.
LEMMA GetTakeStep ==
  ASSUME ListInv, NEW t \in Threads, GetTake(t)
  PROVE  NodesOK' /\ Chained'
<1> USE DEF Goto, getting, adding
<1>0. PICK x \in Nodes : x = CurrentHead[t] /\ x = PrevHead[t] /\ pc[t] = "getTake"
  BY DEF ListInv, Locals, Types, GetTake, Referring
<1>1. Types /\ NodesOK /\ Chained /\ Owned(x) /\ Counted(x) /\ Taking(t, x)
  BY <1>0 DEF ListInv, NodesOK, Taking
<1>2. /\ AddRefs(x, -2) /\ UNCHANGED <<ListHead, FreeListNext>>
      /\ held' = [held EXCEPT ![t] = @ \union {x}]
  BY <1>0 DEF GetTake
<1>3. \A u \in Threads, n \in Nodes :
        /\ Adding(u, n)' <=> Adding(u, n)
        /\ Offering(u, n)' <=> Offering(u, n)
        /\ Taking(u, n)' <=> Taking(u, n) /\ u # t
        /\ u \in Refers(n)' <=> u \in Refers(n) /\ u # t
        /\ n \in held'[u] <=> n \in held[u] \/ (u = t /\ n = x)
        /\ t \in Refers(n) \/ Taking(t, n) => n = x
  BY <1>0, <1>1, <1>2
  DEF GetTake, ForgetGetting, Types, Adding, Offering, Taking, Refers, Referring
<1>4. t \in Refers(x) /\ Refers(x)' = Refers(x) \ {t}
  BY <1>0, <1>3 DEF Refers, Referring
<1>5. /\ References(x)' = References(x) - 1 /\ References(x) \in Nat /\ References(x) > 0
      /\ References(x) + 1 < AddFlag /\ AddFlag \in Nat
  BY <1>4, ReferenceDropped, SomeReference, ReferencesFinite
<1>6. FreeListRefs[x] = References(x) + 1
  BY <1>1 DEF Counted
<1>7. /\ FreeListRefs'[x] = References(x) - 1
      /\ \A n \in Nodes \ {x} : FreeListRefs'[n] = FreeListRefs[n]
  <2>1. /\ FreeListRefs'[x] = (FreeListRefs[x] + (-2)) % (2 * AddFlag)
        /\ \A n \in Nodes \ {x} : FreeListRefs'[n] = FreeListRefs[n]
    BY <1>1, <1>2, AddRefsAdds
  <2>2. References(x) - 1 \in Nat /\ References(x) - 1 < 2 * AddFlag /\ 2 * AddFlag \in Nat
    BY <1>5
  <2>3. (References(x) - 1) % (2 * AddFlag) = References(x) - 1
    BY <2>2, ModBelow
  <2>4. FreeListRefs[x] + (-2) = References(x) - 1
    BY <1>5, <1>6
  <2>5. QED
    BY <2>1, <2>3, <2>4
<1>8. Owned(x)' /\ Counted(x)'
  <2>1. ~Adding(t, x) /\ ~Offering(t, x)
    BY <1>0 DEF Adding, Offering
  <2>2. \A u \in Threads \ {t} : ~Owns(u, x)
    BY <1>1 DEF Owned, Owns
  <2>3. Owned(x)'
    BY <1>3, <2>1, <2>2 DEF Owned, Owns
  <2>4. Counted(x)'
    BY <1>3, <1>5, <1>7, <2>1, <2>2 DEF Counted, Free, Owns
  <2>5. QED
    BY <2>3, <2>4
<1>9. NodesOK' /\ \A n \in Nodes \ {x} : n \in Linked' <=> n \in Linked
  <2>1. ASSUME NEW n \in Nodes \ {x}, NEW u \in Threads
        PROVE  /\ n \in held'[u] <=> n \in held[u]
               /\ Adding(u, n)' <=> Adding(u, n)
               /\ Offering(u, n)' <=> Offering(u, n)
               /\ Taking(u, n)' <=> Taking(u, n)
               /\ u \in Refers(n)' <=> u \in Refers(n)
    BY <1>3
  <2>2. QED
    BY <1>1, <1>7, <1>8, <2>1, OneNodeChanges
<1>10. x \notin Linked /\ x \notin Linked'
  BY <1>1, <1>3 DEF Linked, Free, Owns
<1>11. Linked' = Linked
  BY <1>9, <1>10 DEF Linked
<1>12. QED
  BY <1>1, <1>2, <1>9, <1>11, ChainUnchanged

\* TryGet fails: whoever drops the last reference to a node that waits adds it.
LEMMA GetDropStep ==
  ASSUME ListInv, NEW t \in Threads, GetDrop(t)
  PROVE  NodesOK' /\ Chained'
<1> USE DEF Goto, getting, adding
<1>0. PICK x \in Nodes : x = PrevHead[t] /\ pc[t] = "getDrop"
  BY DEF ListInv, Locals, Types, GetDrop, Referring
<1>1. Types /\ NodesOK /\ Chained /\ Owned(x) /\ Counted(x)
  BY <1>0 DEF ListInv, NodesOK
<1>2. AddRefs(x, -1) /\ UNCHANGED <<ListHead, FreeListNext, held>>
  BY <1>0 DEF GetDrop
<1>3. \A u \in Threads, n \in Nodes :
        /\ Adding(u, n)' <=> Adding(u, n) \/ (u = t /\ n = x /\ FreeListRefs[x] = AddFlag + 1)
        /\ Offering(u, n)' <=> Offering(u, n)
        /\ Taking(u, n)' <=> Taking(u, n)
        /\ u \in Refers(n)' <=> u \in Refers(n) /\ u # t
        /\ t \in Refers(n) => n = x
  <2> USE <1>0, <1>1 DEF GetDrop, Types, Adding, Offering, Taking, Refers, Referring
  <2>1. CASE FreeListRefs[x] = AddFlag + 1
    BY <2>1
  <2>2. CASE FreeListRefs[x] # AddFlag + 1
    BY <2>2
  <2>3. QED
    BY <2>1, <2>2
<1>4. t \in Refers(x) /\ Refers(x)' = Refers(x) \ {t}
  BY <1>0, <1>3 DEF Refers, Referring
<1>5. /\ References(x)' = References(x) - 1 /\ References(x) \in Nat /\ References(x) > 0
      /\ References(x) + 1 < AddFlag /\ AddFlag \in Nat
  BY <1>4, ReferenceDropped, SomeReference, ReferencesFinite
<1>6. \A u \in Threads : ~Adding(u, x)
  BY <1>1, <1>5 DEF Counted
<1>7. /\ FreeListRefs[x] \in Nat /\ FreeListRefs[x] > 0 /\ FreeListRefs[x] < 2 * AddFlag
      /\ FreeListRefs[x] = AddFlag + 1 => Free(x) /\ References(x) = 1
  <2>1. CASE Free(x)
    BY <1>1, <1>5, <2>1 DEF Counted
  <2>2. CASE ~Free(x)
    BY <1>1, <1>5, <1>6, <2>2 DEF Counted, Free, Owns
  <2>3. QED
    BY <2>1, <2>2
<1>8. /\ FreeListRefs'[x] = FreeListRefs[x] - 1
      /\ \A n \in Nodes \ {x} : FreeListRefs'[n] = FreeListRefs[n]
  <2>1. /\ FreeListRefs'[x] = (FreeListRefs[x] + (-1)) % (2 * AddFlag)
        /\ \A n \in Nodes \ {x} : FreeListRefs'[n] = FreeListRefs[n]
    BY <1>1, <1>2, AddRefsAdds
  <2>2. /\ FreeListRefs[x] - 1 \in Nat /\ FreeListRefs[x] - 1 < 2 * AddFlag
        /\ 2 * AddFlag \in Nat
    BY <1>5, <1>7
  <2>3. (FreeListRefs[x] - 1) % (2 * AddFlag) = FreeListRefs[x] - 1
    BY <2>2, ModBelow
  <2>4. FreeListRefs[x] + (-1) = FreeListRefs[x] - 1
    BY <1>7
  <2>5. QED
    BY <2>1, <2>3, <2>4
<1>9. Owned(x)' /\ Counted(x)'
  <2>1. CASE FreeListRefs[x] = AddFlag + 1
    <3>1. Free(x) /\ References(x) = 1
      BY <1>7, <2>1
    <3>2. \A u \in Threads : ~Owns(u, x)
      BY <3>1 DEF Free
    <3>3. FreeListRefs'[x] = AddFlag /\ References(x)' = 0
      BY <1>5, <1>8, <2>1, <3>1
    <3>4. QED
      BY <1>2, <1>3, <2>1, <3>2, <3>3 DEF Owned, Owns, Counted, Free
  <2>2. CASE FreeListRefs[x] # AddFlag + 1
    <3>1. \A u \in Threads : Owns(u, x)' <=> Owns(u, x)
      BY <1>2, <1>3, <2>2 DEF Owns
    <3>2. Owned(x)'
      BY <1>1, <1>2, <1>3, <2>2, <3>1 DEF Owned
    <3>3. Free(x)' <=> Free(x)
      BY <3>1 DEF Free
    <3>4. Counted(x)'
      BY <1>1, <1>2, <1>3, <1>5, <1>6, <1>7, <1>8, <2>2, <3>3 DEF Counted
    <3>5. QED
      BY <3>2, <3>4
  <2>3. QED
    BY <2>1, <2>2
<1>10. NodesOK' /\ \A n \in Nodes \ {x} : n \in Linked' <=> n \in Linked
  <2>1. ASSUME NEW n \in Nodes \ {x}, NEW u \in Threads
        PROVE  /\ n \in held'[u] <=> n \in held[u]
               /\ Adding(u, n)' <=> Adding(u, n)
               /\ Offering(u, n)' <=> Offering(u, n)
               /\ Taking(u, n)' <=> Taking(u, n)
               /\ u \in Refers(n)' <=> u \in Refers(n)
    BY <1>2, <1>3
  <2>2. QED
    BY <1>1, <1>8, <1>9, <2>1, OneNodeChanges
<1>11. x \in Linked' <=> x \in Linked
  <2>1. CASE FreeListRefs[x] = AddFlag + 1
    <3>1. Adding(t, x)'
      BY <1>3, <2>1
    <3>2. x \notin Linked /\ x \notin Linked'
      BY <1>5, <2>1, <3>1 DEF Linked, Free, Owns
    <3>3. QED
      BY <3>2
  <2>2. CASE FreeListRefs[x] # AddFlag + 1
    <3>1. Free(x)' <=> Free(x)
      BY <1>2, <1>3, <2>2 DEF Free, Owns
    <3>2. Free(x) => (FreeListRefs'[x] < AddFlag <=> FreeListRefs[x] < AddFlag)
      BY <1>1, <1>5, <1>7, <1>8, <2>2 DEF Counted
    <3>3. QED
      BY <3>1, <3>2 DEF Linked
  <2>3. QED
    BY <2>1, <2>2
<1>12. Linked' = Linked
  BY <1>10, <1>11 DEF Linked
<1>13. QED
  BY <1>1, <1>2, <1>10, <1>12, ChainUnchanged

-----------------------------------------------------------------------------
(* The invariant, and what it says of the list. *)

\* At the start one thread holds every node, and the list is empty.
LEMMA ListInvInit == ASSUME NEW t \in Threads, InitList(t) PROVE ListInv
<1>1. InitList(t)
  OBVIOUS
<1>2. Types /\ \A u \in Threads : Locals(u) /\ pc[u] = "idle"
  BY <1>1 DEF InitList, Types, PCs, Locals, Referring
<1>3. \A n \in Nodes, u \in Threads :
        /\ ~Adding(u, n) /\ ~Offering(u, n) /\ ~Taking(u, n)
        /\ n \in held[u] <=> u = t
  BY <1>1, <1>2 DEF InitList, Adding, Offering, Taking
<1>4. \A n \in Nodes : FreeListRefs[n] = 0 /\ ~Free(n)
  BY <1>1, <1>3 DEF InitList, Free, Owns
<1>5. \A n : References(n) = 0
  <2>1. \A n : Refers(n) = {}
    BY <1>2 DEF Refers, Referring
  <2>2. QED
    BY <2>1, FS_EmptySet DEF References
<1>6. NodesOK
  BY <1>3, <1>4, <1>5 DEF NodesOK, Owned, Owns, Counted
<1>7. Chained
  <2>1. Linked = {}
    BY <1>4 DEF Linked
  <2>2. ListHead = NULL
    BY <1>1 DEF InitList
  <2>3. QED
    BY <2>1, <2>2 DEF Chained, Closed
<1>8. QED
  BY <1>2, <1>6, <1>7 DEF ListInv

\* A node passes from one thread to another, who may just have found the list empty.
LEMMA NodePasses ==
  ASSUME ListInv, NEW t \in Threads, NEW u \in Threads, t # u, NEW x \in held[t],
         held' = [held EXCEPT ![t] = @ \ {x}, ![u] = @ \union {x}],
         UNCHANGED <<shared, getting, adding>>,
         pc' = pc \/ (pc[u] = "none" /\ pc' = [pc EXCEPT ![u] = "idle"])
  PROVE  ListInv'
<1> USE DEF shared, getting, adding
<1>1. Types /\ NodesOK /\ Chained /\ x \in Nodes
  BY DEF ListInv, Types
<1>2. Types' /\ \A v \in Threads : Locals(v)'
  <2>1. held' \in [Threads -> SUBSET Nodes] /\ pc' \in [Threads -> PCs]
    BY <1>1 DEF Types, PCs
  <2>2. \A v \in Threads : pc'[v] = pc[v] \/ (pc[v] = "none" /\ pc'[v] = "idle")
    BY <1>1 DEF Types
  <2>3. ASSUME NEW v \in Threads PROVE Locals(v)'
    <3>1. Locals(v)
      BY DEF ListInv
    <3>2. QED
      BY <2>2, <3>1 DEF Locals, Referring
  <2>4. QED
    BY <1>1, <2>1, <2>3 DEF Types
<1>3. \A v \in Threads, n \in Nodes :
        /\ n \in held'[v] <=> (n \in held[v] /\ ~(v = t /\ n = x)) \/ (v = u /\ n = x)
        /\ Adding(v, n)' <=> Adding(v, n)
        /\ Offering(v, n)' <=> Offering(v, n)
        /\ Taking(v, n)' <=> Taking(v, n)
        /\ v \in Refers(n)' <=> v \in Refers(n)
  <2>1. \A v \in Threads : pc'[v] = pc[v] \/ (pc[v] = "none" /\ pc'[v] = "idle")
    BY <1>1 DEF Types
  <2>2. \A v \in Threads, n \in Nodes :
          n \in held'[v] <=> (n \in held[v] /\ ~(v = t /\ n = x)) \/ (v = u /\ n = x)
    BY <1>1 DEF Types
  <2>3. QED
    BY <2>1, <2>2 DEF Adding, Offering, Taking, Refers, Referring
<1>4. Owned(x) /\ Counted(x) /\ Owns(t, x)
  BY <1>1 DEF NodesOK, Owns
<1>5. /\ \A v \in Threads : ~Adding(v, x) /\ ~Offering(v, x) /\ ~Taking(v, x)
      /\ \A v \in Threads : x \in held[v] => v = t
  BY <1>4 DEF Owned, Owns
<1>6. References(x)' = References(x)
  <2>1. Refers(x)' = Refers(x)
    BY <1>1, <1>3 DEF Refers
  <2>2. QED
    BY <2>1 DEF References
<1>7. Owned(x)' /\ Counted(x)' /\ x \notin Linked /\ x \notin Linked'
  BY <1>1, <1>3, <1>4, <1>5, <1>6 DEF Owned, Counted, Linked, Free, Owns
<1>8. NodesOK' /\ \A n \in Nodes \ {x} : n \in Linked' <=> n \in Linked
  BY <1>1, <1>3, <1>7, OneNodeChanges
<1>9. Linked' = Linked
  BY <1>7, <1>8 DEF Linked
<1>10. QED
  BY <1>1, <1>2, <1>8, <1>9, ChainUnchanged DEF ListInv

\* Every step of a thread keeps it.
LEMMA ThreadKeeps ==
  ASSUME ListInv, NEW t \in Threads,
         ListStep(t) \/ GiveUp(t) \/ BeginGet(t) \/ \E n \in Nodes : Add(t, n)
  PROVE  ListInv'
<1>1. Types' /\ \A u \in Threads : Locals(u)'
  BY TypesNext, LocalsNext
<1>2. NodesOK' /\ Chained'
  BY QuietSteps, AddStep, InnerAddRefsStep, InnerAddHeadStep, InnerAddFlagStep,
     GetRefStep, GetHeadStep, GetTakeStep, GetDropStep DEF ListStep
<1>3. QED
  BY <1>1, <1>2 DEF ListInv

\* So does a step of somebody else.
LEMMA NothingChanges == ASSUME ListInv, UNCHANGED flVars PROVE ListInv'
<1> USE DEF flVars, shared, getting, adding
<1>1. Types' /\ \A t \in Threads : Locals(t)'
  BY DEF ListInv, Types, Locals
<1>2. NodesOK' /\ Linked' = Linked
  BY NodesUnchanged DEF ListInv, Adding, Offering, Taking, Refers
<1>3. Chained'
  BY <1>2, ChainUnchanged DEF ListInv
<1>4. QED
  BY <1>1, <1>2, <1>3 DEF ListInv

\* Every step of the list on its own keeps it.
LEMMA ListInvNext == ListInv /\ [ListNext]_flVars => ListInv'
<1> SUFFICES ASSUME ListInv, [ListNext]_flVars PROVE ListInv'
  OBVIOUS
<1>1. ASSUME NEW t \in Threads, NEW u \in Threads, NEW n \in Nodes, HandOver(t, u, n)
      PROVE  ListInv'
  BY <1>1, NodePasses DEF HandOver
<1>2. QED
  BY <1>1, ThreadKeeps, NothingChanges DEF ListNext, Step

\* Owners, references and the chain are as they should be after every step of Add,
\* InnerAdd and TryGet.
THEOREM ListCorrect == ListSpec => []ListInv
<1>1. ListInit => ListInv
  BY ListInvInit DEF ListInit
<1>2. QED
  BY <1>1, ListInvNext, PTL DEF ListSpec

\* The chain and the nodes on the list are the same nodes.
LEMMA LinkedIsOnList == ASSUME ListInv PROVE Linked = OnList
<1>1. Linked \in SUBSET Nodes
  BY DEF Linked
<1>2. OnList \subseteq Linked
  BY <1>1 DEF ListInv, Chained, OnList
<1>3. Linked \subseteq OnList
  BY <1>1 DEF ListInv, Chained, OnList
<1>4. QED
  BY <1>2, <1>3

\* A word a thread has read is one a node had.
RefsBelow == \A t \in Threads : Refs[t] < 2 * AddFlag

\* The reference words stay within their width: no sum carries out of the flag, and
\* no difference borrows.
LEMMA WordsBounded ==
  ASSUME ListInv, NEW n \in Nodes
  PROVE  /\ FreeListRefs[n] < 2 * AddFlag
         /\ FreeListRefs[n] % AddFlag <= Cardinality(Threads) + 1
<1> DEFINE w == FreeListRefs[n]
           r == References(n)
<1>1. r \in Nat /\ r <= Cardinality(Threads) /\ r + 1 < AddFlag
      /\ Cardinality(Threads) \in Nat /\ AddFlag \in Nat
  BY ReferencesFinite
<1>2. w \in {r, r + 1, r + AddFlag}
  <2>1. Counted(n)
    BY DEF ListInv, NodesOK
  <2>2. CASE Free(n)
    BY <1>1, <2>1, <2>2 DEF Counted
  <2>3. CASE ~Free(n)
    <3>1. PICK t \in Threads : Owns(t, n)
      BY <2>3 DEF Free
    <3>2. QED
      BY <1>1, <2>1, <3>1 DEF Counted, Owns
  <2>4. QED
    BY <2>2, <2>3
<1> HIDE DEF w, r
<1>3. w < 2 * AddFlag
  BY <1>1, <1>2
<1>4. w % AddFlag \in {r, r + 1}
  <2>1. CASE w < AddFlag
    <3>1. w % AddFlag = w
      BY <1>1, <1>2, <2>1, ModBelow
    <3>2. QED
      BY <1>1, <1>2, <2>1, <3>1
  <2>2. CASE w >= AddFlag
    <3>1. w = r + AddFlag
      BY <1>1, <1>2, <2>2
    <3>2. w % AddFlag = w - AddFlag
      BY <1>1, <1>3, <2>2, <3>1, ModOnce
    <3>3. QED
      BY <1>1, <3>1, <3>2
  <2>3. QED
    BY <1>1, <1>2, <2>1, <2>2
<1>5. QED
  BY <1>1, <1>3, <1>4 DEF w

\* A thread keeps in Refs a word it has read.
LEMMA RefsBelowKept ==
  ASSUME ListInv, RefsBelow, NEW t \in Threads, ListStep(t)
  PROVE  RefsBelow'
<1> USE DEF RefsBelow, Goto, getting, adding, shared
<1>1. CASE UNCHANGED Refs
  BY <1>1
<1>2. CASE GetRefs(t)
  <2>1. CurrentHead[t] \in Nodes
    BY <1>2 DEF ListInv, Types, GetRefs
  <2>2. FreeListRefs[CurrentHead[t]] < 2 * AddFlag
    BY <2>1, WordsBounded
  <2>3. QED
    BY <1>2, <2>2 DEF GetRefs, ListInv, Types
<1>3. CASE ForgetGetting(t)
  BY <1>3, FreeListAssumption, FS_CardinalityType DEF ForgetGetting, ListInv, Types
<1>4. QED
  BY <1>1, <1>2, <1>3
  DEF ListStep, InnerAddLoad, InnerAddNext, InnerAddRefs, InnerAddHead, InnerAddFlag,
      InnerAddReturn, TryGet, GetLoad, GetNone, GetRef, GetNext, GetHead, GetTake, GetDrop

\* The invariant's types, and the room of the words.
LEMMA ListTypesHold == ListInv /\ RefsBelow => ListTypeOK
<1> SUFFICES ASSUME ListInv, RefsBelow PROVE ListTypeOK
  OBVIOUS
<1>1. AddFlag \in Nat /\ 2 * AddFlag - 1 \in Int
  BY FreeListAssumption
<1>2. FreeListRefs \in [Nodes -> 0..(2 * AddFlag - 1)]
  BY <1>1, WordsBounded DEF ListInv, Types
<1>3. Refs \in [Threads -> 0..(2 * AddFlag - 1)]
  BY <1>1 DEF ListInv, Types, RefsBelow
<1>4. QED
  BY <1>2, <1>3, WordsBounded DEF ListInv, Types, ListTypeOK

\* Every variable keeps its type, and a reference word its room: it never counts more
\* than the threads and the list, so no reference is ever added to the flag.
THEOREM ListTypesCorrect == ListSpec => []ListTypeOK
<1>1. ListInit => RefsBelow
  BY FreeListAssumption, FS_CardinalityType DEF ListInit, InitList, RefsBelow
<1>2. ListInv /\ RefsBelow /\ [ListNext]_flVars => RefsBelow'
  <2> SUFFICES ASSUME ListInv, RefsBelow, [ListNext]_flVars PROVE RefsBelow'
    OBVIOUS
  <2>1. CASE UNCHANGED Refs
    BY <2>1 DEF RefsBelow
  <2>2. ASSUME NEW t \in Threads, ListStep(t) PROVE RefsBelow'
    BY <2>2, RefsBelowKept
  <2>3. QED
    BY <2>1, <2>2 DEF ListNext, Step, Add, BeginGet, HandOver, GiveUp, getting, flVars
<1>3. QED
  BY <1>1, <1>2, ListTypesHold, ListCorrect, PTL DEF ListSpec

\* Nodes have one owner, so they have one holder.
LEMMA OwnedHeldOnce == ListInv => HeldOnce
<1> SUFFICES ASSUME ListInv, NEW t \in Threads, NEW n \in held[t]
             PROVE  n \notin OnList /\ \A u \in Threads \ {t} : n \notin held[u]
  BY DEF HeldOnce
<1>1. n \in Nodes /\ Owns(t, n) /\ Owned(n)
  BY DEF ListInv, Types, NodesOK, Owns
<1>2. n \notin OnList
  BY <1>1, LinkedIsOnList DEF Linked, Free
<1>3. QED
  BY <1>1, <1>2 DEF Owned, Owns

\* The words say what became of each node when nobody is inside a call.
LEMMA CountedSettled == ListInv => SettledWhenQuiet
<1> SUFFICES ASSUME ListInv, \A t \in Threads : pc[t] = "idle", NEW n \in Nodes
             PROVE  \/ n \in OnList /\ FreeListRefs[n] = 1
                    \/ /\ n \notin OnList /\ FreeListRefs[n] = 0
                       /\ \E t \in Threads : n \in held[t]
  BY DEF SettledWhenQuiet
<1>1. Refers(n) = {}
  BY DEF Refers, Referring
<1>2. References(n) = 0 /\ 1 < AddFlag
  BY <1>1, FS_EmptySet, ReferencesFinite DEF References
<1>3. Counted(n)
  BY DEF ListInv, NodesOK
<1>4. CASE Free(n)
  <2>1. FreeListRefs[n] = 1
    BY <1>2, <1>3, <1>4 DEF Counted
  <2>2. n \in Linked
    BY <1>2, <1>4, <2>1 DEF Linked
  <2>3. QED
    BY <2>1, <2>2, LinkedIsOnList
<1>5. CASE ~Free(n)
  <2>1. PICK t \in Threads : n \in held[t]
    BY <1>5 DEF Free, Owns, Adding, Offering, Taking
  <2>2. FreeListRefs[n] = 0
    BY <1>2, <1>3, <2>1 DEF Counted
  <2>3. n \notin OnList
    BY <1>5, LinkedIsOnList DEF Linked
  <2>4. QED
    BY <2>1, <2>2, <2>3
<1>6. QED
  BY <1>4, <1>5

\* No node TryGet handed out is handed out again before it is added: it is held by
\* one thread, and a walk from the head does not meet it.
THEOREM NodesHeldOnce == ListSpec => []HeldOnce
<1>1. QED
  BY OwnedHeldOnce, ListCorrect, PTL

\* No node is lost between Add, which may leave it to others, and those who drop
\* their references, and no reference is left over.
THEOREM NodesNeverLost == ListSpec => []SettledWhenQuiet
<1>1. QED
  BY CountedSettled, ListCorrect, PTL

(***************************************************************************)
(* The manager.                                                            *)
(***************************************************************************)

-----------------------------------------------------------------------------
(* The pool's counter. *)

\* The threads between GetBlock's test and its fetch_add.
PastTest == {t \in Callers : call[t] = "index"}

\* What Index has reached and what it will be raised by, at most: a thread passes
\* the test only while Index is below Size, and the others are fewer than all.
Overshoot == Index + Cardinality(PastTest) < Size + Cardinality(Callers)

PoolInv ==
  /\ Index \in Nat
  /\ call \in [Callers -> CallPCs]
  /\ Overshoot

\* Sets of threads are counted by natural numbers.
LEMMA CallersCounted ==
  ASSUME NEW S \in SUBSET Callers
  PROVE  /\ IsFiniteSet(S) /\ Cardinality(S) \in Nat
         /\ Cardinality(S) <= Cardinality(Callers)
         /\ Cardinality(Callers) \in Nat /\ Cardinality(Callers) > 0
<1>1. IsFiniteSet(Callers) /\ Callers # {}
  BY BlockManagerAssumption, FreeListAssumption, FS_Subset DEF Callers
<1>2. IsFiniteSet(S) /\ Cardinality(S) <= Cardinality(Callers)
  BY <1>1, FS_Subset
<1>3. Cardinality(Callers) \in Nat /\ Cardinality(Callers) # 0
  BY <1>1, FS_CardinalityType, FS_EmptySet
<1>4. QED
  BY <1>2, <1>3, FS_CardinalityType

\* Nobody is past the test at the start.
LEMMA PoolInvInit == Init => PoolInv
<1> SUFFICES ASSUME Init PROVE PoolInv
  OBVIOUS
<1>1. PastTest = {}
  BY DEF Init, PastTest
<1>2. Cardinality(PastTest) = 0
  BY <1>1, FS_EmptySet
<1>3. Size \in Nat /\ Index = 0
  BY BlockManagerAssumption DEF Size, Init
<1>4. Overshoot
  BY <1>2, <1>3, CallersCounted DEF Overshoot
<1>5. QED
  BY <1>3, <1>4 DEF PoolInv, Init, CallPCs

\* A step that leaves Index, and lets nobody through the test.
LEMMA PoolUntouched ==
  ASSUME PoolInv, Index' = Index, PastTest' = PastTest
  PROVE  Overshoot'
BY DEF PoolInv, Overshoot, Size

\* Every step keeps it.
LEMMA PoolInvNext == PoolInv /\ [NextStep]_vars => PoolInv'
<1> SUFFICES ASSUME PoolInv, [NextStep]_vars PROVE PoolInv'
  OBVIOUS
<1> USE DEF PoolInv, CallPCs, Call, Done
<1>1. Size \in Nat
  BY BlockManagerAssumption DEF Size
<1>2. ASSUME NEW t \in Callers, PoolTest(t) PROVE PoolInv'
  <2>1. CASE Index >= Size
    <3>1. PastTest' = PastTest
      BY <1>2, <2>1 DEF PoolTest, PastTest
    <3>2. QED
      BY <1>2, <2>1, <3>1, PoolUntouched DEF PoolTest
  <2>2. CASE Index < Size
    <3>1. Index' = Index /\ call' = [call EXCEPT ![t] = "index"]
      BY <1>1, <1>2, <2>2 DEF PoolTest
    <3>2. Cardinality(PastTest') \in Nat /\ Cardinality(PastTest') <= Cardinality(Callers)
      BY CallersCounted, PastTest' \in SUBSET Callers DEF PastTest
    <3>3. Overshoot'
      BY <1>1, <2>2, <3>1, <3>2, CallersCounted DEF Overshoot, Size
    <3>4. QED
      BY <3>1, <3>3
  <2>3. QED
    BY <1>1, <2>1, <2>2
<1>3. ASSUME NEW t \in Callers, PoolTake(t) PROVE PoolInv'
  <2>1. /\ call[t] = "index" /\ Index' = Index + 1
        /\ call' \in {[call EXCEPT ![t] = "none"], [call EXCEPT ![t] = "list"]}
    BY <1>3 DEF PoolTake
  <2>2. t \in PastTest /\ PastTest' = PastTest \ {t}
    BY <2>1 DEF PastTest
  <2>3. IsFiniteSet(PastTest) /\ Cardinality(PastTest) \in Nat
    BY CallersCounted DEF PastTest
  <2>4. Cardinality(PastTest') = Cardinality(PastTest) - 1
    BY <2>2, <2>3, FS_RemoveElement
  <2>5. Overshoot'
    BY <1>1, <2>1, <2>3, <2>4, CallersCounted DEF Overshoot, Size
  <2>6. QED
    BY <2>1, <2>5
<1>4. ASSUME NEW t \in Callers,
             \/ \E mode \in {"CanAlloc", "CannotAlloc"} : RequisitionBlock(t, mode)
             \/ InCall(t) \/ NoneFree(t) \/ ReturnNext(t) \/ ReturnDone(t)
             \/ \E b \in Blocks : ReturnBlock(t, b)
             \/ \E chain \in Chains(t) : ReturnBlocks(t, chain)
      PROVE  PoolInv'
  <2>1. /\ Index' = Index /\ call[t] # "index"
        /\ \E c \in {"none", "pool", "list", "return", "walk"} : call' = [call EXCEPT ![t] = c]
    BY <1>4
    DEF RequisitionBlock, InCall, NoneFree, ReturnNext, ReturnDone, ReturnBlock, ReturnBlocks
  <2>2. PastTest' = PastTest
    BY <2>1 DEF PastTest
  <2>3. QED
    BY <2>1, <2>2, PoolUntouched
<1>5. ASSUME UNCHANGED <<Index, call>> PROVE PoolInv'
  <2>1. PastTest' = PastTest
    BY <1>5 DEF PastTest
  <2>2. QED
    BY <1>5, <2>1, PoolUntouched
<1>6. CASE Destroy \/ Destroyed \/ UNCHANGED vars
  BY <1>5, <1>6 DEF Destroy, Destroyed, vars, managerVars
<1>7. CASE \E t, u \in Callers, b \in Blocks : PassOn(t, u, b)
  BY <1>5, <1>7 DEF PassOn, managerVars
<1>8. QED
  BY <1>2, <1>3, <1>4, <1>6, <1>7 DEF NextStep, ThreadStep

\* The counter never runs further past the end of the pool's array than there are
\* threads, so with 64 bits it does not wrap and the array is given out once.
THEOREM PoolIndexBounded == Spec => []IndexBounded
<1>1. PoolInv => IndexBounded
  <2> SUFFICES ASSUME PoolInv PROVE IndexBounded
    OBVIOUS
  <2>1. Cardinality(PastTest) \in Nat
    BY CallersCounted DEF PastTest
  <2>2. Size \in Nat
    BY BlockManagerAssumption DEF Size
  <2>3. QED
    BY <2>1, <2>2, CallersCounted DEF PoolInv, Overshoot, IndexBounded
<1>2. QED
  BY <1>1, PoolInvInit, PoolInvNext, PTL DEF Spec

-----------------------------------------------------------------------------
(* Who holds the blocks. *)

\* What of the chain a caller gave to ReturnBlocks is still its own.
Rest(t) == given[t] \cap held[t]

\* The walk from NextBlock comes to all of it: a part of it that has its start, and
\* of each block the next, is the whole.
Walked(t) ==
  \A S \in SUBSET Rest(t) :
    /\ NextBlock[t] \in Rest(t) => NextBlock[t] \in S
    /\ \A b \in S : Next[b] \in Rest(t) => Next[b] \in S
    => S = Rest(t)

\* Where a caller is in the manager says where it is in the list.  It walks its
\* chain without a search of its own, which could get it a block meanwhile.
CallOK(t) ==
  /\ call[t] \in {"none", "pool", "index"} => pc[t] = "idle"
  /\ pc[t] \in {"idle", "none"} => PrevHead[t] = NULL
  /\ call[t] = "walk" =>
       PrevHead[t] = NULL
         /\ pc[t] \in {"idle", "addLoad", "addNext", "addRefs", "addHead", "addFlag"}

ManagerTypes ==
  /\ Next \in [Blocks -> Blocks \union {NULL}]
  /\ Mode \in [Callers -> {"CanAlloc", "CannotAlloc"}]
  /\ NextBlock \in [Callers -> Blocks \union {NULL}]
  /\ given \in [Callers -> SUBSET Blocks]
  /\ allocated \subseteq HeapBlocks /\ destroyed \in BOOLEAN

\* Every block is its holder's or the list's (FreeList), and those that the pool's
\* array and the heap still have are exactly those never given out.
BlocksInv ==
  /\ ManagerTypes /\ ListInv
  /\ pc[Store] = "idle"
  /\ \A t \in Callers : CallOK(t) /\ (call[t] = "walk" => Walked(t))
  /\ IF destroyed THEN \A t \in Callers : call[t] = "none" /\ held[t] = {}
                  ELSE held[Store] = Blocks \ GivenOut

ManagerInv == PoolInv /\ BlocksInv

-----------------------------------------------------------------------------
(* The steps, as the list sees them. *)

\* A caller is one of the list's threads, and not the store.
LEMMA CallersAreThreads ==
  /\ Store \in Threads /\ \A t \in Callers : t \in Threads /\ t # Store
  /\ NULL \notin Blocks /\ Size \in Nat
BY BlockManagerAssumption, FreeListAssumption DEF Callers, Blocks, Size

\* The next block of the pool's array has not been given out.
LEMMA NextOfPool ==
  ASSUME ManagerInv, ~destroyed, Index < Size
  PROVE  /\ PoolBlocks[Index + 1] \in held[Store] /\ PoolBlocks[Index + 1] \in Blocks
         /\ \A k \in Nat : k = Index + 1 =>
              {PoolBlocks[i] : i \in {j \in 1..Size : j <= k}}
                = {PoolBlocks[i] : i \in {j \in 1..Size : j <= Index}} \union {PoolBlocks[Index + 1]}
<1>1. Index \in Nat /\ Size \in Nat /\ Index + 1 \in 1..Size /\ allocated \subseteq HeapBlocks
  BY CallersAreThreads DEF ManagerInv, BlocksInv, PoolInv, ManagerTypes
<1>2. PoolBlocks[Index + 1] \in Blocks /\ PoolBlocks[Index + 1] \notin allocated
  BY <1>1, BlockManagerAssumption DEF Blocks, Size
<1>3. \A i \in 1..Size : i <= Index => PoolBlocks[i] # PoolBlocks[Index + 1]
  BY <1>1, BlockManagerAssumption
<1>4. PoolBlocks[Index + 1] \notin GivenOut
  BY <1>2, <1>3 DEF GivenOut
<1>5. held[Store] = Blocks \ GivenOut
  BY DEF ManagerInv, BlocksInv
<1>6. \A j \in 1..Size : j <= Index + 1 <=> j <= Index \/ j = Index + 1
  BY <1>1
<1>7. QED
  BY <1>1, <1>2, <1>4, <1>5, <1>6

\* A caller obtains a block of the store's.
LEMMA ObtainKeeps ==
  ASSUME ListInv, NEW t \in Callers, NEW b \in held[Store], Obtain(t, b),
         UNCHANGED <<shared, listLocals>>,
         pc' = pc \/ (pc[t] = "none" /\ pc' = [pc EXCEPT ![t] = "idle"])
  PROVE  ListInv'
BY NodePasses, CallersAreThreads DEF Obtain, listLocals, getting, adding

\* What a step inside TryGet or Add leaves alone, and how it can end.
LEMMA ListStepEffect ==
  ASSUME ListInv, NEW t \in Threads, ListStep(t)
  PROVE  /\ \A u \in Threads \ {t} :
              pc'[u] = pc[u] /\ PrevHead'[u] = PrevHead[u] /\ held'[u] = held[u]
         /\ pc'[t] \in {"idle", "none"} => PrevHead'[t] = NULL
         /\ PrevHead[t] = NULL
              /\ pc[t] \in {"idle", "addLoad", "addNext", "addRefs", "addHead", "addFlag"}
            => /\ PrevHead'[t] = NULL /\ held' = held
               /\ pc'[t] \in {"idle", "addLoad", "addNext", "addRefs", "addHead", "addFlag"}
<1> USE DEF Goto, getting, adding, shared
<1>1. pc \in [Threads -> PCs] /\ PrevHead \in [Threads -> Nodes \union {NULL}]
      /\ held \in [Threads -> SUBSET Nodes] /\ Locals(t)
  BY DEF ListInv, Types
<1>2. CASE InnerAddLoad(t) \/ InnerAddNext(t) \/ InnerAddRefs(t)
  BY <1>1, <1>2 DEF InnerAddLoad, InnerAddNext, InnerAddRefs
<1>3. CASE InnerAddHead(t) \/ InnerAddFlag(t)
  BY <1>1, <1>3 DEF InnerAddHead, InnerAddFlag, InnerAddReturn
<1>4. CASE TryGet(t) \/ GetRef(t) \/ GetNext(t) \/ GetHead(t)
  BY <1>1, <1>4 DEF TryGet, GetLoad, GetRef, GetNext, GetHead
<1>5. CASE GetRefs(t)
  BY <1>1, <1>5 DEF GetRefs
<1>6. CASE GetNone(t) \/ GetTake(t)
  BY <1>1, <1>6 DEF GetNone, GetTake, ForgetGetting
<1>7. CASE GetDrop(t)
  BY <1>1, <1>7 DEF GetDrop
<1>8. QED
  BY <1>2, <1>3, <1>4, <1>5, <1>6, <1>7 DEF ListStep

-----------------------------------------------------------------------------
(* The walk along a chain. *)

\* The walk is not disturbed by what happens to other blocks.
LEMMA WalkKept ==
  ASSUME NEW t \in Callers, Walked(t), Rest(t)' = Rest(t), NextBlock'[t] = NextBlock[t],
         \A b \in Rest(t) : Next'[b] = Next[b]
  PROVE  Walked(t)'
BY DEF Walked

\* At its end the chain has been added.
LEMMA WalkEnds ==
  ASSUME NEW t \in Callers, Walked(t), NextBlock[t] \notin Rest(t)
  PROVE  Rest(t) = {}
<1> DEFINE S == {}
<1>1. S \in SUBSET Rest(t) /\ \A b \in S : Next[b] \in Rest(t) => Next[b] \in S
  OBVIOUS
<1> HIDE DEF S
<1>2. S = Rest(t)
  BY <1>1 DEF Walked
<1>3. QED
  BY <1>2 DEF S

\* It goes on to the next block when it adds one.
LEMMA WalkAdvances ==
  ASSUME NEW t \in Callers, Walked(t), Rest(t)' = Rest(t) \ {NextBlock[t]},
         NextBlock'[t] = Next[NextBlock[t]], UNCHANGED Next
  PROVE  Walked(t)'
<1> DEFINE x == NextBlock[t]
<1> SUFFICES ASSUME NEW S \in SUBSET (Rest(t) \ {x}),
                    NextBlock'[t] \in Rest(t) \ {x} => NextBlock'[t] \in S,
                    \A b \in S : Next[b] \in Rest(t) \ {x} => Next[b] \in S
             PROVE  S = Rest(t) \ {x}
  BY DEF Walked
<1>1. CASE x \in Rest(t)
  <2>1. S \union {x} \in SUBSET Rest(t)
    BY <1>1
  <2>2. \A b \in S \union {x} : Next[b] \in Rest(t) => Next[b] \in S \union {x}
    OBVIOUS
  <2>3. S \union {x} = Rest(t)
    BY <2>1, <2>2 DEF Walked
  <2>4. QED
    BY <2>3
<1>2. CASE x \notin Rest(t)
  <2>1. {} = Rest(t)
    BY <1>2, WalkEnds
  <2>2. QED
    BY <2>1
<1>3. QED
  BY <1>1, <1>2

\* A caller that takes no part in a step is where it was.
LEMMA CallerAside ==
  ASSUME NEW u \in Callers, CallOK(u), call[u] = "walk" => Walked(u),
         call'[u] = call[u], pc'[u] = pc[u], PrevHead'[u] = PrevHead[u],
         given'[u] = given[u], NextBlock'[u] = NextBlock[u], held'[u] = held[u],
         \A b \in held[u] : Next'[b] = Next[b]
  PROVE  CallOK(u)' /\ (call'[u] = "walk" => Walked(u)')
<1>1. CallOK(u)'
  BY DEF CallOK
<1>2. Rest(u)' = Rest(u) /\ \A b \in Rest(u) : Next'[b] = Next[b]
  BY DEF Rest
<1>3. QED
  BY <1>1, <1>2, WalkKept

-----------------------------------------------------------------------------
(* The steps of the manager. *)

\* Who obtains a block disturbs nobody: the block was the store's.
LEMMA Obtained ==
  ASSUME ManagerInv, NEW t \in Callers, NEW b \in held[Store], Obtain(t, b)
  PROVE  /\ held'[Store] = held[Store] \ {b}
         /\ \A u \in Callers \ {t} : /\ held'[u] = held[u]
                                     /\ \A c \in held[u] : Next'[c] = Next[c]
         /\ Next' \in [Blocks -> Blocks \union {NULL}]
<1>1. /\ held \in [Threads -> SUBSET Blocks] /\ HeldOnce
      /\ Next \in [Blocks -> Blocks \union {NULL}]
  BY OwnedHeldOnce DEF ManagerInv, BlocksInv, ManagerTypes, ListInv, Types, Blocks
<1>2. b \in Blocks /\ \A u \in Callers : b \notin held[u]
  BY <1>1, CallersAreThreads DEF HeldOnce
<1>3. QED
  BY <1>1, <1>2, CallersAreThreads DEF Obtain

\* A caller that enters RequisitionBlock.
LEMMA RequisitionBlockKeeps ==
  ASSUME ManagerInv, NEW t \in Callers, NEW mode \in {"CanAlloc", "CannotAlloc"},
         RequisitionBlock(t, mode)
  PROVE  BlocksInv'
<1> USE CallersAreThreads DEF Call
<1>1. /\ UNCHANGED <<Index, Next, NextBlock, given, allocated, destroyed, flVars>>
      /\ call[t] = "none" /\ ~destroyed /\ BlocksInv /\ call \in [Callers -> CallPCs]
      /\ call' = [call EXCEPT ![t] = "pool"] /\ Mode' = [Mode EXCEPT ![t] = mode]
  BY DEF RequisitionBlock, ManagerInv, PoolInv
<1>2. ListInv' /\ ManagerTypes'
  BY <1>1, NothingChanges DEF BlocksInv, ManagerTypes
<1>3. UNCHANGED <<pc, PrevHead, held>>
  BY <1>1 DEF flVars, getting
<1>4. ASSUME NEW u \in Callers PROVE CallOK(u)' /\ (call'[u] = "walk" => Walked(u)')
  <2>1. CASE u = t
    BY <1>1, <1>3, <2>1 DEF BlocksInv, CallOK
  <2>2. CASE u # t
    BY <1>1, <1>3, <2>2, CallerAside DEF BlocksInv
  <2>3. QED
    BY <2>1, <2>2
<1>5. QED
  BY <1>1, <1>2, <1>3, <1>4 DEF BlocksInv, GivenOut, Size

\* GetBlock's test sends it to the counter or to the list.
LEMMA PoolTestKeeps ==
  ASSUME ManagerInv, NEW t \in Callers, PoolTest(t)
  PROVE  BlocksInv'
<1> USE CallersAreThreads DEF Call, Goto
<1>1. /\ UNCHANGED <<Index, Next, Mode, NextBlock, given, allocated, destroyed>>
      /\ UNCHANGED <<shared, listLocals, held>>
      /\ call[t] = "pool" /\ BlocksInv /\ call \in [Callers -> CallPCs]
      /\ \/ call' = [call EXCEPT ![t] = "list"] /\ pc' = [pc EXCEPT ![t] = "get"]
         \/ call' = [call EXCEPT ![t] = "index"] /\ pc' = pc
  BY DEF PoolTest, ManagerInv, PoolInv
<1>2. pc[t] = "idle" /\ pc \in [Threads -> PCs] /\ ~destroyed
  BY <1>1 DEF BlocksInv, CallOK, ListInv, Types
<1>3. ListInv'
  <2>1. CASE pc' = pc
    BY <1>1, <2>1, NothingChanges DEF BlocksInv, flVars, listLocals
  <2>2. CASE pc' = [pc EXCEPT ![t] = "get"]
    <3>1. BeginGet(t)
      BY <1>1, <1>2, <2>2 DEF BeginGet, listLocals
    <3>2. QED
      BY <1>1, <3>1, ThreadKeeps DEF BlocksInv
  <2>3. QED
    BY <1>1, <2>1, <2>2
<1>4. ManagerTypes' /\ pc'[Store] = "idle" /\ UNCHANGED <<PrevHead, held>>
  BY <1>1, <1>2 DEF BlocksInv, ManagerTypes, listLocals, getting
<1>5. ASSUME NEW u \in Callers PROVE CallOK(u)' /\ (call'[u] = "walk" => Walked(u)')
  <2>1. CASE u = t
    BY <1>1, <1>2, <1>4, <2>1 DEF BlocksInv, CallOK
  <2>2. CASE u # t
    <3>1. call'[u] = call[u] /\ pc'[u] = pc[u]
      BY <1>1, <1>2, <2>2
    <3>2. QED
      BY <1>1, <1>4, <3>1, CallerAside DEF BlocksInv
  <2>3. QED
    BY <2>1, <2>2
<1>6. QED
  BY <1>1, <1>2, <1>3, <1>4, <1>5 DEF BlocksInv, GivenOut, Size

\* The counter gives it a block of the pool's, or sends it to the list.
LEMMA PoolTakeKeeps ==
  ASSUME ManagerInv, NEW t \in Callers, PoolTake(t)
  PROVE  BlocksInv'
<1> USE CallersAreThreads DEF Call, Goto
<1>1. /\ UNCHANGED <<NextBlock, given, allocated, destroyed, shared, listLocals>>
      /\ Index \in Nat /\ Index' = Index + 1
      /\ call[t] = "index" /\ BlocksInv /\ call \in [Callers -> CallPCs]
  BY DEF PoolTake, ManagerInv, PoolInv
<1>2. pc[t] = "idle" /\ pc \in [Threads -> PCs] /\ ~destroyed /\ held[Store] = Blocks \ GivenOut
  BY <1>1 DEF BlocksInv, CallOK, ListInv, Types
<1>3. CASE Index < Size
  <2> DEFINE b == PoolBlocks[Index + 1]
  <2>1. /\ call' = [call EXCEPT ![t] = "none"] /\ Mode' = [Mode EXCEPT ![t] = "CanAlloc"]
        /\ Obtain(t, b) /\ UNCHANGED pc
    BY <1>3 DEF PoolTake, Done
  <2>2. b \in held[Store] /\ GivenOut' = GivenOut \union {b}
    <3>1. b \in held[Store]
      BY <1>2, <1>3, NextOfPool
    <3>2. {PoolBlocks[i] : i \in {j \in 1..Size : j <= Index + 1}}
            = {PoolBlocks[i] : i \in {j \in 1..Size : j <= Index}} \union {b}
      BY <1>1, <1>2, <1>3, NextOfPool
    <3>3. QED
      BY <1>1, <3>1, <3>2 DEF GivenOut, Size
  <2>3. ListInv'
    BY <1>1, <2>1, <2>2, ObtainKeeps DEF BlocksInv
  <2>4. /\ held'[Store] = held[Store] \ {b} /\ Next' \in [Blocks -> Blocks \union {NULL}]
        /\ \A u \in Callers \ {t} : /\ held'[u] = held[u]
                                    /\ \A c \in held[u] : Next'[c] = Next[c]
    BY <2>1, <2>2, Obtained
  <2>5. ManagerTypes' /\ UNCHANGED PrevHead
    BY <1>1, <2>1, <2>4 DEF BlocksInv, ManagerTypes, listLocals, getting
  <2> HIDE DEF b
  <2>6. ASSUME NEW u \in Callers PROVE CallOK(u)' /\ (call'[u] = "walk" => Walked(u)')
    <3>1. CASE u = t
      BY <1>1, <1>2, <2>1, <2>5, <3>1 DEF BlocksInv, CallOK
    <3>2. CASE u # t
      <4>1. call'[u] = call[u]
        BY <1>1, <2>1, <3>2
      <4>2. QED
        BY <1>1, <2>1, <2>4, <2>5, <3>2, <4>1, CallerAside DEF BlocksInv
    <3>3. QED
      BY <3>1, <3>2
  <2>7. held'[Store] = Blocks \ GivenOut'
    BY <1>2, <2>2, <2>4
  <2>8. QED
    BY <1>1, <1>2, <2>1, <2>3, <2>5, <2>6, <2>7 DEF BlocksInv, Blocks
<1>4. CASE Index >= Size
  <2>1. /\ call' = [call EXCEPT ![t] = "list"] /\ pc' = [pc EXCEPT ![t] = "get"]
        /\ UNCHANGED <<held, Next, Mode>>
    BY <1>1, <1>4 DEF PoolTake
  <2>2. BeginGet(t)
    BY <1>1, <1>2, <2>1 DEF BeginGet, listLocals
  <2>3. ListInv'
    BY <1>1, <2>2, ThreadKeeps DEF BlocksInv
  <2>4. ManagerTypes' /\ pc'[Store] = "idle" /\ UNCHANGED PrevHead
    BY <1>1, <1>2, <2>1 DEF BlocksInv, ManagerTypes, listLocals, getting
  <2>5. ASSUME NEW u \in Callers PROVE CallOK(u)' /\ (call'[u] = "walk" => Walked(u)')
    <3>1. CASE u = t
      BY <1>1, <1>2, <2>1, <2>4, <3>1 DEF BlocksInv, CallOK
    <3>2. CASE u # t
      <4>1. call'[u] = call[u] /\ pc'[u] = pc[u]
        BY <1>1, <1>2, <2>1, <3>2
      <4>2. QED
        BY <1>1, <2>1, <2>4, <4>1, CallerAside DEF BlocksInv
    <3>3. QED
      BY <3>1, <3>2
  <2>6. {j \in 1..Size : j <= Index + 1} = {j \in 1..Size : j <= Index}
    BY <1>1, <1>4
  <2>7. GivenOut' = GivenOut
    BY <1>1, <2>6 DEF GivenOut, Size
  <2>8. QED
    BY <1>1, <1>2, <2>1, <2>3, <2>4, <2>5, <2>7 DEF BlocksInv, Blocks
<1>5. QED
  BY <1>1, <1>3, <1>4

\* The list's steps give it a block at most, which nobody else has.
LEMMA InCallKeeps ==
  ASSUME ManagerInv, NEW t \in Callers, InCall(t)
  PROVE  BlocksInv'
<1> USE CallersAreThreads DEF Call, Done
<1>1. /\ UNCHANGED <<Index, NextBlock, given, allocated, destroyed>>
      /\ call[t] \in {"list", "return", "walk"} /\ ListStep(t)
      /\ BlocksInv /\ call \in [Callers -> CallPCs]
      /\ \/ call' = call /\ Mode' = Mode
         \/ /\ call[t] # "walk" /\ pc'[t] = "idle"
            /\ call' = [call EXCEPT ![t] = "none"] /\ Mode' = [Mode EXCEPT ![t] = "CanAlloc"]
      /\ Next' = [b \in Blocks |-> IF b \in held'[t] \ held[t] THEN b ELSE Next[b]]
  BY DEF InCall, ManagerInv, PoolInv
<1>2. ~destroyed /\ held[Store] = Blocks \ GivenOut /\ ListInv /\ ManagerTypes
  BY <1>1 DEF BlocksInv
<1>3. ListInv' /\ HeldOnce' /\ held' \in [Threads -> SUBSET Blocks]
  <2>1. ListInv'
    BY <1>1, <1>2, ThreadKeeps
  <2>2. HeldOnce'
    BY <2>1, OwnedHeldOnce, PTL
  <2>3. QED
    BY <2>1, <2>2 DEF ListInv, Types, Blocks
<1>4. ManagerTypes'
  <2>1. Next' \in [Blocks -> Blocks \union {NULL}]
    BY <1>1, <1>2 DEF ManagerTypes
  <2>2. Mode' \in [Callers -> {"CanAlloc", "CannotAlloc"}]
    BY <1>1, <1>2 DEF ManagerTypes
  <2>3. QED
    BY <1>1, <1>2, <2>1, <2>2 DEF ManagerTypes
<1>5. /\ \A u \in Threads \ {t} :
           pc'[u] = pc[u] /\ PrevHead'[u] = PrevHead[u] /\ held'[u] = held[u]
      /\ pc'[t] \in {"idle", "none"} => PrevHead'[t] = NULL
      /\ PrevHead[t] = NULL
           /\ pc[t] \in {"idle", "addLoad", "addNext", "addRefs", "addHead", "addFlag"}
         => /\ PrevHead'[t] = NULL /\ held' = held
            /\ pc'[t] \in {"idle", "addLoad", "addNext", "addRefs", "addHead", "addFlag"}
  BY <1>1, <1>2, ListStepEffect
<1>6. ASSUME NEW u \in Callers PROVE CallOK(u)' /\ (call'[u] = "walk" => Walked(u)')
  <2>1. CASE u = t
    <3>1. CASE call[t] = "walk"
      <4>1. /\ call' = call /\ held' = held /\ PrevHead'[t] = NULL
            /\ pc'[t] \in {"idle", "addLoad", "addNext", "addRefs", "addHead", "addFlag"}
        BY <1>1, <1>5, <3>1 DEF BlocksInv, CallOK
      <4>2. \A b \in Rest(t) : Next'[b] = Next[b]
        BY <1>1, <1>2, <4>1 DEF Rest, ManagerTypes
      <4>3. Walked(t)'
        BY <1>1, <3>1, <4>1, <4>2, WalkKept DEF BlocksInv, Rest
      <4>4. QED
        BY <2>1, <3>1, <4>1, <4>3 DEF CallOK
    <3>2. CASE call[t] # "walk"
      <4>1. call'[t] \in {"none", "list", "return"} /\ (call'[t] = "none" => pc'[t] = "idle")
        BY <1>1, <3>2
      <4>2. QED
        BY <1>5, <2>1, <4>1 DEF CallOK
    <3>3. QED
      BY <3>1, <3>2
  <2>2. CASE u # t
    <3>1. call'[u] = call[u]
      BY <1>1, <2>2
    <3>2. \A b \in held[u] : Next'[b] = Next[b]
      <4>1. \A b \in held[u] : b \in Blocks /\ b \notin held'[t]
        BY <1>3, <1>5, <2>2 DEF HeldOnce
      <4>2. QED
        BY <1>1, <4>1
    <3>3. QED
      BY <1>1, <1>5, <2>2, <3>1, <3>2, CallerAside DEF BlocksInv
  <2>3. QED
    BY <2>1, <2>2
<1>7. pc'[Store] = "idle" /\ held'[Store] = held[Store]
  BY <1>1, <1>5 DEF BlocksInv
<1>8. QED
  BY <1>1, <1>2, <1>3, <1>4, <1>6, <1>7 DEF BlocksInv, GivenOut, Size, Blocks

\* The list had nothing: the heap gives it a block, or it goes without.
LEMMA NoneFreeKeeps ==
  ASSUME ManagerInv, NEW t \in Callers, NoneFree(t)
  PROVE  BlocksInv'
<1> USE CallersAreThreads DEF Call, Goto
<1>1. /\ UNCHANGED <<Index, NextBlock, given, destroyed, shared, listLocals>>
      /\ call[t] = "list" /\ pc[t] = "none" /\ pc' = [pc EXCEPT ![t] = "idle"]
      /\ BlocksInv /\ call \in [Callers -> CallPCs]
      /\ call' = [call EXCEPT ![t] = "none"] /\ Mode' = [Mode EXCEPT ![t] = "CanAlloc"]
  BY DEF NoneFree, Done, ManagerInv, PoolInv
<1>2. /\ ~destroyed /\ held[Store] = Blocks \ GivenOut /\ ListInv /\ ManagerTypes
      /\ pc \in [Threads -> PCs] /\ pc[Store] = "idle" /\ UNCHANGED PrevHead
  BY <1>1 DEF BlocksInv, ListInv, Types, listLocals, getting
<1>3. CASE UNCHANGED <<held, Next, allocated>>
  <2>1. GiveUp(t)
    BY <1>1, <1>3 DEF GiveUp, listLocals
  <2>2. ListInv'
    BY <1>2, <2>1, ThreadKeeps
  <2>3. ManagerTypes' /\ pc'[Store] = "idle"
    BY <1>1, <1>2, <1>3 DEF ManagerTypes
  <2>4. ASSUME NEW u \in Callers PROVE CallOK(u)' /\ (call'[u] = "walk" => Walked(u)')
    <3>1. CASE u = t
      BY <1>1, <1>2, <3>1 DEF BlocksInv, CallOK
    <3>2. CASE u # t
      <4>1. call'[u] = call[u] /\ pc'[u] = pc[u]
        BY <1>1, <1>2, <3>2
      <4>2. QED
        BY <1>1, <1>2, <1>3, <4>1, CallerAside DEF BlocksInv
    <3>3. QED
      BY <3>1, <3>2
  <2>5. QED
    BY <1>1, <1>2, <1>3, <2>2, <2>3, <2>4 DEF BlocksInv, GivenOut, Size, Blocks
<1>4. ASSUME NEW b \in HeapBlocks \ allocated, Obtain(t, b), allocated' = allocated \union {b}
      PROVE  BlocksInv'
  <2>1. b \in held[Store] /\ GivenOut' = GivenOut \union {b}
    <3>1. b \in Blocks /\ b \notin GivenOut
      BY BlockManagerAssumption DEF GivenOut, Blocks
    <3>2. QED
      BY <1>1, <1>2, <1>4, <3>1 DEF GivenOut, Size
  <2>2. ListInv'
    BY <1>1, <1>2, <1>4, <2>1, ObtainKeeps
  <2>3. /\ held'[Store] = held[Store] \ {b} /\ Next' \in [Blocks -> Blocks \union {NULL}]
        /\ \A u \in Callers \ {t} : /\ held'[u] = held[u]
                                    /\ \A c \in held[u] : Next'[c] = Next[c]
    BY <1>4, <2>1, Obtained
  <2>4. ManagerTypes' /\ pc'[Store] = "idle"
    BY <1>1, <1>2, <1>4, <2>3 DEF ManagerTypes
  <2>5. ASSUME NEW u \in Callers PROVE CallOK(u)' /\ (call'[u] = "walk" => Walked(u)')
    <3>1. CASE u = t
      BY <1>1, <1>2, <3>1 DEF BlocksInv, CallOK
    <3>2. CASE u # t
      <4>1. call'[u] = call[u] /\ pc'[u] = pc[u]
        BY <1>1, <1>2, <3>2
      <4>2. QED
        BY <1>1, <1>2, <2>3, <3>2, <4>1, CallerAside DEF BlocksInv
    <3>3. QED
      BY <3>1, <3>2
  <2>6. held'[Store] = Blocks \ GivenOut'
    BY <1>2, <2>1, <2>3
  <2>7. QED
    BY <1>1, <1>2, <2>2, <2>4, <2>5, <2>6 DEF BlocksInv, Blocks
<1>5. QED
  BY <1>3, <1>4 DEF NoneFree

\* A block goes to the list; whether it is linked at once is the list's concern.
LEMMA ReturnBlockKeeps ==
  ASSUME ManagerInv, NEW t \in Callers, NEW b \in Blocks, ReturnBlock(t, b)
  PROVE  BlocksInv'
<1> USE CallersAreThreads DEF Call, Goto
<1>1. /\ UNCHANGED <<Index, Next, Mode, NextBlock, given, allocated, destroyed>>
      /\ call[t] = "none" /\ ~destroyed /\ Add(t, b)
      /\ BlocksInv /\ call \in [Callers -> CallPCs]
      /\ call' = [call EXCEPT ![t] = IF pc'[t] = "idle" THEN "none" ELSE "return"]
  BY DEF ReturnBlock, ManagerInv, PoolInv
<1>2. /\ held[Store] = Blocks \ GivenOut /\ ListInv /\ ManagerTypes
      /\ pc \in [Threads -> PCs] /\ held \in [Threads -> SUBSET Nodes] /\ pc[Store] = "idle"
      /\ pc[t] = "idle" /\ PrevHead[t] = NULL
  BY <1>1 DEF BlocksInv, CallOK, ListInv, Types
<1>3. ListInv' /\ ManagerTypes'
  BY <1>1, <1>2, ThreadKeeps DEF ManagerTypes, Blocks
<1>4. /\ UNCHANGED PrevHead /\ held' = [held EXCEPT ![t] = @ \ {b}]
      /\ pc' \in {pc, [pc EXCEPT ![t] = "addLoad"]}
  BY <1>1 DEF Add, getting
<1>5. ASSUME NEW u \in Callers PROVE CallOK(u)' /\ (call'[u] = "walk" => Walked(u)')
  <2>1. CASE u = t
    <3>1. call'[t] = IF pc'[t] = "idle" THEN "none" ELSE "return"
      BY <1>1
    <3>2. QED
      BY <1>2, <1>4, <2>1, <3>1 DEF CallOK
  <2>2. CASE u # t
    <3>1. call'[u] = call[u] /\ pc'[u] = pc[u] /\ held'[u] = held[u]
      BY <1>1, <1>2, <1>4, <2>2
    <3>2. QED
      BY <1>1, <1>4, <3>1, CallerAside DEF BlocksInv
  <2>3. QED
    BY <2>1, <2>2
<1>6. pc'[Store] = "idle" /\ held'[Store] = held[Store]
  BY <1>2, <1>4
<1>7. QED
  BY <1>1, <1>2, <1>3, <1>5, <1>6 DEF BlocksInv, GivenOut, Size, Blocks

\* A chain of two blocks: the walk from its first meets both.
LEMMA ReturnBlocksKeeps ==
  ASSUME ManagerInv, NEW t \in Callers, NEW chain \in Chains(t), ReturnBlocks(t, chain)
  PROVE  BlocksInv'
<1> USE CallersAreThreads DEF Call
<1> DEFINE a == chain[1]
           b == chain[2]
<1>1. /\ UNCHANGED <<Index, Mode, allocated, destroyed, flVars>>
      /\ call[t] = "none" /\ ~destroyed /\ BlocksInv /\ call \in [Callers -> CallPCs]
      /\ call' = [call EXCEPT ![t] = "walk"]
  BY DEF ReturnBlocks, ManagerInv, PoolInv
<1>2. /\ held[Store] = Blocks \ GivenOut /\ ListInv /\ ManagerTypes
      /\ held \in [Threads -> SUBSET Blocks] /\ HeldOnce
      /\ pc[t] = "idle" /\ PrevHead[t] = NULL
      /\ Next \in [Blocks -> Blocks \union {NULL}]
  BY <1>1, OwnedHeldOnce DEF BlocksInv, CallOK, ListInv, Types, ManagerTypes, Blocks
<1>3. /\ DOMAIN chain = {1, 2} /\ Len(chain) = 2 /\ a # b
      /\ a \in held[t] /\ b \in held[t] /\ a \in Blocks /\ b \in Blocks
  <2>1. chain \in [1..2 -> held[t]] /\ a # b /\ 1..2 = {1, 2}
    BY DEF Chains
  <2>2. DOMAIN chain = {1, 2} /\ a \in held[t] /\ b \in held[t]
    BY <2>1
  <2>3. chain \in Seq(held[t]) /\ Len(chain) = 2
    BY <2>1
  <2>4. QED
    BY <1>2, <2>1, <2>2, <2>3
<1>4. /\ Next' = [c \in Blocks |-> IF c = a THEN b ELSE IF c = b THEN NULL ELSE Next[c]]
      /\ NextBlock' = [NextBlock EXCEPT ![t] = a]
      /\ given' = [given EXCEPT ![t] = {a, b}]
  <2>1. {chain[i] : i \in DOMAIN chain} = {a, b}
    BY <1>3
  <2>2. ASSUME NEW c \in Blocks
        PROVE  (IF \E i \in DOMAIN chain : chain[i] = c
                THEN LET i == CHOOSE i \in DOMAIN chain : chain[i] = c
                     IN  IF i = Len(chain) THEN NULL ELSE chain[i + 1]
                ELSE Next[c])
               = (IF c = a THEN b ELSE IF c = b THEN NULL ELSE Next[c])
    <3> DEFINE i == CHOOSE i \in DOMAIN chain : chain[i] = c
    <3>1. CASE c = a
      <4>1. i \in DOMAIN chain /\ chain[i] = c
        BY <1>3, <3>1
      <4>2. i = 1
        BY <1>3, <3>1, <4>1
      <4> HIDE DEF i
      <4>3. QED
        BY <1>3, <3>1, <4>2 DEF i
    <3>2. CASE c = b
      <4>1. i \in DOMAIN chain /\ chain[i] = c
        BY <1>3, <3>2
      <4>2. i = 2
        BY <1>3, <3>2, <4>1
      <4> HIDE DEF i
      <4>3. QED
        BY <1>3, <3>2, <4>2 DEF i
    <3>3. CASE c # a /\ c # b
      BY <1>3, <3>3
    <3>4. QED
      BY <3>1, <3>2, <3>3
  <2>3. QED
    BY <2>1, <2>2 DEF ReturnBlocks
<1> HIDE DEF a, b
<1>5. ListInv' /\ UNCHANGED <<pc, PrevHead, held>>
  BY <1>1, <1>2, NothingChanges DEF flVars, getting
<1>6. ManagerTypes'
  BY <1>1, <1>2, <1>3, <1>4 DEF ManagerTypes
<1>7. Rest(t)' = {a, b} /\ NextBlock'[t] = a /\ Next'[a] = b
  BY <1>2, <1>3, <1>4, <1>5 DEF Rest, ManagerTypes
<1>8. Walked(t)'
  BY <1>7 DEF Walked
<1>9. ASSUME NEW u \in Callers PROVE CallOK(u)' /\ (call'[u] = "walk" => Walked(u)')
  <2>1. CASE u = t
    BY <1>1, <1>2, <1>5, <1>8, <2>1 DEF CallOK
  <2>2. CASE u # t
    <3>1. \A c \in held[u] : c \in Blocks /\ c # a /\ c # b
      BY <1>2, <1>3, <2>2 DEF HeldOnce
    <3>2. /\ \A c \in held[u] : Next'[c] = Next[c]
          /\ call'[u] = call[u] /\ NextBlock'[u] = NextBlock[u] /\ given'[u] = given[u]
      BY <1>1, <1>2, <1>4, <2>2, <3>1 DEF ManagerTypes
    <3>3. QED
      BY <1>1, <1>5, <3>2, CallerAside DEF BlocksInv
  <2>3. QED
    BY <2>1, <2>2
<1>10. QED
  BY <1>1, <1>2, <1>5, <1>6, <1>9 DEF BlocksInv, GivenOut, Size, Blocks

\* The walk reads Next before it adds the block, so the rest of the chain is still
\* what it comes to.
LEMMA ReturnNextKeeps ==
  ASSUME ManagerInv, NEW t \in Callers, ReturnNext(t)
  PROVE  BlocksInv'
<1> USE CallersAreThreads DEF Call, Goto
<1> DEFINE x == NextBlock[t]
<1>1. /\ UNCHANGED <<Index, Next, call, Mode, given, allocated, destroyed>>
      /\ call[t] = "walk" /\ pc[t] = "idle" /\ Add(t, x)
      /\ NextBlock' = [NextBlock EXCEPT ![t] = Next[x]]
      /\ BlocksInv /\ call \in [Callers -> CallPCs]
  BY DEF ReturnNext, ManagerInv, PoolInv
<1>2. /\ ~destroyed /\ held[Store] = Blocks \ GivenOut /\ ListInv /\ ManagerTypes
      /\ pc \in [Threads -> PCs] /\ held \in [Threads -> SUBSET Blocks] /\ pc[Store] = "idle"
      /\ PrevHead[t] = NULL /\ x \in held[t] /\ x \in Blocks
  BY <1>1 DEF BlocksInv, CallOK, ListInv, Types, Add, Blocks
<1>3. ListInv'
  BY <1>1, <1>2, ThreadKeeps DEF Blocks
<1>4. /\ UNCHANGED PrevHead /\ held' = [held EXCEPT ![t] = @ \ {x}]
      /\ pc' \in {pc, [pc EXCEPT ![t] = "addLoad"]}
  BY <1>1 DEF Add, getting
<1>5. ManagerTypes' /\ NextBlock'[t] = Next[x] /\ given'[t] = given[t]
  BY <1>1, <1>2 DEF ManagerTypes
<1>6. ASSUME NEW u \in Callers PROVE CallOK(u)' /\ (call'[u] = "walk" => Walked(u)')
  <2>1. CASE u = t
    <3>1. Rest(t)' = Rest(t) \ {x}
      BY <1>2, <1>4, <1>5 DEF Rest
    <3>2. Walked(t)'
      BY <1>1, <1>5, <3>1, WalkAdvances DEF BlocksInv
    <3>3. QED
      BY <1>1, <1>2, <1>4, <2>1, <3>2 DEF CallOK
  <2>2. CASE u # t
    <3>1. NextBlock'[u] = NextBlock[u] /\ pc'[u] = pc[u] /\ held'[u] = held[u]
      BY <1>1, <1>2, <1>4, <2>2 DEF ManagerTypes
    <3>2. QED
      BY <1>1, <1>4, <3>1, CallerAside DEF BlocksInv
  <2>3. QED
    BY <2>1, <2>2
<1>7. pc'[Store] = "idle" /\ held'[Store] = held[Store]
  BY <1>2, <1>4
<1>8. QED
  BY <1>1, <1>2, <1>3, <1>5, <1>6, <1>7 DEF BlocksInv, GivenOut, Size, Blocks

\* At the end of the walk the caller has nothing of the chain left.
LEMMA ReturnDoneKeeps ==
  ASSUME ManagerInv, NEW t \in Callers, ReturnDone(t)
  PROVE  BlocksInv'
<1> USE CallersAreThreads DEF Call
<1>1. /\ UNCHANGED <<Index, Next, Mode, NextBlock, allocated, destroyed>>
      /\ UNCHANGED <<shared, pc, listLocals>>
      /\ call[t] = "walk" /\ pc[t] = "idle" /\ NextBlock[t] = NULL
      /\ call' = [call EXCEPT ![t] = "none"] /\ given' = [given EXCEPT ![t] = {}]
      /\ held' = [held EXCEPT ![t] = @ \ given[t]]
      /\ BlocksInv /\ call \in [Callers -> CallPCs]
  BY DEF ReturnDone, ManagerInv, PoolInv
<1>2. /\ ~destroyed /\ held[Store] = Blocks \ GivenOut /\ ListInv /\ ManagerTypes
      /\ held \in [Threads -> SUBSET Blocks] /\ PrevHead[t] = NULL
  BY <1>1 DEF BlocksInv, CallOK, ListInv, Types, Blocks
<1>3. Rest(t) = {}
  <2>1. NextBlock[t] \notin Rest(t)
    BY <1>1, <1>2 DEF Rest
  <2>2. QED
    BY <1>1, <2>1, WalkEnds DEF BlocksInv
<1>4. held' = held
  BY <1>1, <1>2, <1>3 DEF Rest
<1>5. ListInv' /\ UNCHANGED PrevHead
  BY <1>1, <1>2, <1>4, NothingChanges DEF flVars, listLocals, getting
<1>6. ManagerTypes'
  BY <1>1, <1>2 DEF ManagerTypes
<1>7. ASSUME NEW u \in Callers PROVE CallOK(u)' /\ (call'[u] = "walk" => Walked(u)')
  <2>1. CASE u = t
    BY <1>1, <1>2, <1>5, <2>1 DEF CallOK
  <2>2. CASE u # t
    <3>1. call'[u] = call[u] /\ given'[u] = given[u]
      BY <1>1, <1>2, <2>2 DEF ManagerTypes
    <3>2. QED
      BY <1>1, <1>4, <1>5, <3>1, CallerAside DEF BlocksInv
  <2>3. QED
    BY <2>1, <2>2
<1>8. QED
  BY <1>1, <1>2, <1>4, <1>5, <1>6, <1>7 DEF BlocksInv, GivenOut, Size, Blocks

\* A block passes between two callers who are not in the manager.
LEMMA PassOnKeeps ==
  ASSUME ManagerInv, NEW t \in Callers, NEW v \in Callers, NEW b \in Blocks, PassOn(t, v, b)
  PROVE  BlocksInv'
<1> USE CallersAreThreads
<1>1. /\ UNCHANGED managerVars /\ BlocksInv /\ UNCHANGED <<shared, pc, getting, adding>>
      /\ call[t] = "none" /\ call[v] = "none" /\ t # v /\ b \in held[t]
      /\ held' = [held EXCEPT ![t] = @ \ {b}, ![v] = @ \union {b}]
  BY DEF PassOn, HandOver, ManagerInv
<1>2. /\ ~destroyed /\ held[Store] = Blocks \ GivenOut /\ ListInv /\ ManagerTypes
      /\ held \in [Threads -> SUBSET Blocks]
  BY <1>1 DEF BlocksInv, ListInv, Types, Blocks
<1>3. ListInv' /\ ManagerTypes' /\ UNCHANGED PrevHead
  BY <1>1, <1>2, NodePasses DEF managerVars, ManagerTypes, getting
<1>4. held'[Store] = held[Store] /\ \A u \in Callers \ {t, v} : held'[u] = held[u]
  BY <1>1, <1>2
<1>5. ASSUME NEW u \in Callers PROVE CallOK(u)' /\ (call'[u] = "walk" => Walked(u)')
  <2>1. CASE u \in {t, v}
    BY <1>1, <1>3, <2>1 DEF BlocksInv, CallOK, managerVars
  <2>2. CASE u \notin {t, v}
    BY <1>1, <1>3, <1>4, <2>2, CallerAside DEF BlocksInv, managerVars
  <2>3. QED
    BY <2>1, <2>2
<1>6. QED
  BY <1>1, <1>2, <1>3, <1>4, <1>5 DEF BlocksInv, GivenOut, Size, Blocks, managerVars

\* Nobody holds a block any more when the manager goes.
LEMMA DestroyKeeps ==
  ASSUME ManagerInv, Destroy
  PROVE  BlocksInv'
<1>1. /\ UNCHANGED <<Index, Next, call, Mode, NextBlock, given, flVars>> /\ BlocksInv
      /\ destroyed' = TRUE /\ allocated' \subseteq allocated
      /\ \A t \in Callers : call[t] = "none" /\ held[t] = {}
  BY DEF Destroy, ManagerInv
<1>2. ListInv' /\ ManagerTypes' /\ UNCHANGED <<pc, PrevHead, held>>
  BY <1>1, NothingChanges DEF BlocksInv, ManagerTypes, flVars, getting
<1>3. \A u \in Callers : CallOK(u)'
  BY <1>1, <1>2 DEF BlocksInv, CallOK
<1>4. QED
  BY <1>1, <1>2, <1>3 DEF BlocksInv

\* A step of somebody else.
LEMMA NothingHappens ==
  ASSUME ManagerInv, UNCHANGED vars
  PROVE  BlocksInv'
<1>1. ListInv' /\ BlocksInv
  BY NothingChanges DEF ManagerInv, BlocksInv, vars
<1>2. /\ UNCHANGED <<Index, Next, call, Mode, NextBlock, given, allocated, destroyed>>
      /\ UNCHANGED <<pc, PrevHead, held>>
  BY DEF vars, managerVars, flVars, getting
<1>3. ManagerTypes' /\ \A u \in Callers : CallOK(u)' /\ (call'[u] = "walk" => Walked(u)')
  BY <1>1, <1>2, CallerAside DEF BlocksInv, ManagerTypes
<1>4. QED
  BY <1>1, <1>2, <1>3 DEF BlocksInv, GivenOut, Size, Blocks

-----------------------------------------------------------------------------
(* The invariant, and what it says of the blocks. *)

\* At the start the store has them all.
LEMMA ManagerInvInit == Init => ManagerInv
<1> SUFFICES ASSUME Init PROVE BlocksInv
  BY PoolInvInit DEF ManagerInv
<1> USE CallersAreThreads
<1>1. ListInv
  BY ListInvInit DEF Init
<1>2. /\ pc = [u \in Threads |-> "idle"] /\ PrevHead = [u \in Threads |-> NULL]
      /\ held = [u \in Threads |-> IF u = Store THEN Nodes ELSE {}]
      /\ call = [t \in Callers |-> "none"] /\ Index = 0 /\ allocated = {} /\ destroyed = FALSE
  BY DEF Init, InitList
<1>3. {j \in 1..Size : j <= 0} = {}
  OBVIOUS
<1>4. GivenOut = {}
  BY <1>2, <1>3 DEF GivenOut
<1>5. held[Store] = Blocks \ GivenOut
  BY <1>2, <1>4 DEF Blocks
<1>6. ManagerTypes
  BY DEF Init, ManagerTypes
<1>7. \A t \in Callers : CallOK(t) /\ call[t] # "walk"
  BY <1>2 DEF CallOK
<1>8. QED
  BY <1>1, <1>2, <1>5, <1>6, <1>7 DEF BlocksInv

\* Every step keeps it.
LEMMA ManagerInvNext == ManagerInv /\ [NextStep]_vars => ManagerInv'
<1> SUFFICES ASSUME ManagerInv, [NextStep]_vars PROVE BlocksInv'
  BY PoolInvNext DEF ManagerInv
<1>1. ASSUME NEW t \in Callers, ThreadStep(t) PROVE BlocksInv'
  BY <1>1, PoolTestKeeps, PoolTakeKeeps, InCallKeeps, NoneFreeKeeps, ReturnNextKeeps,
     ReturnDoneKeeps DEF ThreadStep
<1>2. CASE Destroyed
  BY <1>2, NothingHappens DEF Destroyed
<1>3. QED
  BY <1>1, <1>2, RequisitionBlockKeeps, ReturnBlockKeeps, ReturnBlocksKeeps, PassOnKeeps,
     DestroyKeeps, NothingHappens DEF NextStep

\* What every thread and every block is about is as it should be after each step of
\* RequisitionBlock, ReturnBlock and ReturnBlocks.
THEOREM BlocksCorrect == Spec => []ManagerInv
BY ManagerInvInit, ManagerInvNext, PTL DEF Spec

\* RequisitionBlock gives a block to one thread only, whether it comes from the pool,
\* from the list or from the heap, and none that the list or the pool still has.
THEOREM BlocksHeldExclusively == Spec => []HeldExclusively
<1>1. ManagerInv => HeldExclusively
  <2> SUFFICES ASSUME ManagerInv PROVE HeldExclusively
    OBVIOUS
  <2>1. HeldOnce /\ held \in [Threads -> SUBSET Blocks]
    BY OwnedHeldOnce DEF ManagerInv, BlocksInv, ListInv, Types, Blocks
  <2>2. ASSUME ~destroyed, NEW b \in OnList \union UNION {held[t] : t \in Callers}
        PROVE  b \in GivenOut
    <3>1. held[Store] = Blocks \ GivenOut
      BY <2>2 DEF ManagerInv, BlocksInv
    <3>2. b \in Blocks
      BY <2>1, CallersAreThreads DEF OnList, Blocks
    <3>3. b \notin held[Store]
      BY <2>1, CallersAreThreads DEF HeldOnce
    <3>4. QED
      BY <3>1, <3>2, <3>3
  <2>3. QED
    BY <2>1, <2>2 DEF HeldExclusively
<1>2. QED
  BY <1>1, BlocksCorrect, PTL

\* ReturnBlocks loses no block of a chain, though the blocks it has added may be in
\* use, and linked anew, before it comes to the next; nor does any other call.
THEOREM BlocksNeverLost == Spec => []NoBlockLost
<1>1. ManagerInv => NoBlockLost
  <2> SUFFICES ASSUME ManagerInv, ~destroyed, \A t \in Callers : call[t] = "none",
                      NEW b \in GivenOut
               PROVE  \/ b \in OnList /\ FreeListRefs[b] = 1
                      \/ FreeListRefs[b] = 0 /\ \E t \in Callers : b \in held[t]
    BY DEF NoBlockLost
  <2>1. \A t \in Threads : pc[t] = "idle"
    BY DEF ManagerInv, BlocksInv, CallOK, Callers
  <2>2. b \in Nodes /\ b \notin held[Store]
    <3>1. held[Store] = Blocks \ GivenOut /\ allocated \subseteq HeapBlocks
      BY DEF ManagerInv, BlocksInv, ManagerTypes
    <3>2. b \in Pool \union HeapBlocks
      BY <3>1 DEF GivenOut, Pool
    <3>3. QED
      BY <3>1, <3>2, BlockManagerAssumption
  <2>3. \/ b \in OnList /\ FreeListRefs[b] = 1
        \/ FreeListRefs[b] = 0 /\ \E t \in Threads : b \in held[t]
    BY <2>1, <2>2, CountedSettled DEF ManagerInv, BlocksInv, SettledWhenQuiet
  <2>4. QED
    BY <2>2, <2>3 DEF Callers
<1>2. QED
  BY <1>1, BlocksCorrect, PTL

\* Every variable keeps its type; in particular no reference word overflows, and who
\* is outside the manager is outside the list.
THEOREM ManagerTypesCorrect == Spec => []TypeOK
<1>1. Init => RefsBelow
  BY FreeListAssumption, FS_CardinalityType DEF Init, InitList, RefsBelow
<1>2. ManagerInv /\ RefsBelow /\ [NextStep]_vars => RefsBelow'
  <2> SUFFICES ASSUME ManagerInv, RefsBelow, [NextStep]_vars PROVE RefsBelow'
    OBVIOUS
  <2>1. CASE UNCHANGED Refs
    BY <2>1 DEF RefsBelow
  <2>2. ASSUME NEW t \in Callers, InCall(t) PROVE RefsBelow'
    BY <2>2, RefsBelowKept, CallersAreThreads DEF InCall, ManagerInv, BlocksInv
  <2>3. QED
    BY <2>1, <2>2
    DEF NextStep, ThreadStep, RequisitionBlock, PoolTest, PoolTake, NoneFree, ReturnBlock,
        ReturnBlocks, ReturnNext, ReturnDone, Destroy, Destroyed, PassOn, HandOver, Add,
        listLocals, getting, flVars, vars
<1>3. ManagerInv /\ RefsBelow => TypeOK
  BY ListTypesHold DEF ManagerInv, PoolInv, BlocksInv, ManagerTypes, CallOK, TypeOK
<1>4. QED
  BY <1>1, <1>2, <1>3, BlocksCorrect, PTL DEF Spec
=============================================================================
