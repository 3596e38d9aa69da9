--------------------------- MODULE HashTable_proofs ---------------------------
(***************************************************************************)
(* Every thread finds what it added, and one thread at a time makes a      *)
(* table: proofs about HashTable for any number of threads, any hash and   *)
(* any first table of two slots or more.  From three slots on, every table *)
(* keeps a free one.                                                       *)
(***************************************************************************)
EXTENDS HashTable, FiniteSetTheorems, TLAPS

-----------------------------------------------------------------------------
(* The inductive invariant. *)

Keys == Threads \cup {INVALID_KEY}
Values == Nat \cup {NULL}
HashNode(cap) == [First : [0..(cap - 1) -> Keys], Second : [0..(cap - 1) -> Values]]

\* A table of some capacity.
HashNodes == UNION {HashNode(cap) : cap \in Nat \ {0}}

Types ==
  /\ tables \in Seq(HashNodes) /\ Len(tables) > 0
  /\ EntriesCount \in Nat
  /\ HashResizeInProgressFlag \in BOOLEAN /\ threw \in BOOLEAN
  /\ pc \in [Threads -> PCs] /\ op \in [Threads -> Ops] /\ calls \in [Threads -> Nat]
  /\ CurrentMainHash \in [Threads -> 1..Len(tables)]
  /\ CurrentHash \in [Threads -> 1..Len(tables)]
  /\ Probes \in [Threads -> Nat] /\ NewCount \in [Threads -> Nat]
  /\ latest \in [Threads -> Values] /\ answer \in [Threads -> Values]
  /\ \A t \in Threads : calls[t] <= MaxCalls[t]

\* The key in the slot that thread t comes to after i others in table n, and the
\* value with it.
Probed(t, n, i) == tables[n].First[Slot(t, i, Capacity(n))]
Stored(t, n, i) == tables[n].Second[Slot(t, i, Capacity(n))]

\* The first i slots of the probe sequence have other keys.
Passed(t, n, i) == \A j \in 0..(i - 1) : Probed(t, n, j) \notin {t, INVALID_KEY}

\* The key is where a probe finds it; it is nowhere in the table; nowhere in those
\* newer than n.
Found(t, n, i) == i \in 0..(Capacity(n) - 1) /\ Passed(t, n, i) /\ Probed(t, n, i) = t
Absent(t, n) == \A i \in 0..(Capacity(n) - 1) : Probed(t, n, i) # t
AbsentAbove(t, n) == \A m \in 1..Len(tables) : m > n => Absent(t, m)

\* A key that is in a table is found there.
Placed(t) ==
  \A n \in 1..Len(tables) : Absent(t, n) \/ \E i \in Nat : Found(t, n, i)

\* The newest table that has the key has the thread's value with it.
Newest(t) ==
  \/ AbsentAbove(t, 0) /\ latest[t] = NULL
  \/ \E n \in 1..Len(tables), i \in Nat :
       Found(t, n, i) /\ AbsentAbove(t, n) /\ Stored(t, n, i) = latest[t]

\* A thread is at a slot of table n that it comes to after others with other keys.
Probing(t, n) == Probes[t] < Capacity(n) /\ Passed(t, n, Probes[t])

\* What a thread knows of the table it probes, and of those it has searched: it
\* looks for a key to copy in tables that do not have it, and adds a key when no
\* table has it, newer ones than it knows of included.
Search(t) ==
  /\ pc[t] = "probe" =>
       CurrentHash[t] <= CurrentMainHash[t] /\ Probing(t, CurrentHash[t])
         /\ AbsentAbove(t, CurrentHash[t])
  /\ pc[t] = "migrate" =>
       CurrentHash[t] < CurrentMainHash[t] /\ Probing(t, CurrentMainHash[t])
         /\ AbsentAbove(t, CurrentHash[t]) /\ ~Absent(t, CurrentHash[t])
  /\ pc[t] \notin {"idle", "probe", "migrate"} => AbsentAbove(t, 0)
  /\ pc[t] = "claim" => Probing(t, CurrentMainHash[t])

KeyInv ==
  \A t \in Threads : Placed(t) /\ Newest(t) /\ Search(t) /\ answer[t] = latest[t]

TableInv == Types /\ KeyInv

-----------------------------------------------------------------------------
(* Tables and slots. *)

\* A table has the slots its capacity says.
LEMMA TableShape ==
  ASSUME Types, NEW n \in 1..Len(tables)
  PROVE  Capacity(n) \in Nat \ {0} /\ tables[n] \in HashNode(Capacity(n))
<1>1. PICK cap \in Nat \ {0} : tables[n] \in HashNode(cap)
  BY DEF Types, HashNodes
<1>2. DOMAIN tables[n].First = 0..(cap - 1)
  BY <1>1 DEF HashNode
<1>3. Cardinality(0..(cap - 1)) = cap
  BY FS_Interval
<1>4. QED
  BY <1>1, <1>2, <1>3 DEF Capacity

\* A probe sequence stays inside the table.
LEMMA SlotInRange ==
  ASSUME NEW t \in Threads, NEW i \in Nat, NEW cap \in Nat \ {0}
  PROVE  Slot(t, i, cap) \in 0..(cap - 1)
<1>1. Hash[t] + i \in Nat
  BY HashTableAssumption
<1>2. QED
  BY <1>1 DEF Slot

\* A new table is one, and has no key.
LEMMA NewTable ==
  ASSUME NEW cap \in Nat \ {0}
  PROVE  NewHashNode(cap) \in HashNodes /\ DOMAIN NewHashNode(cap).First = 0..(cap - 1)
<1>1. NewHashNode(cap) \in HashNode(cap) /\ DOMAIN NewHashNode(cap).First = 0..(cap - 1)
  BY DEF NewHashNode, HashNode, Keys, Values
<1>2. QED
  BY <1>1 DEF HashNodes

\* What a step may do to the tables as thread u sees them: free slots are taken by
\* others, and new tables come without its key.
Grows(u) ==
  /\ Len(tables') >= Len(tables)
  /\ \A n \in 1..Len(tables) :
       /\ Capacity(n)' = Capacity(n)
       /\ \A i \in 0..(Capacity(n) - 1) :
            /\ \/ Probed(u, n, i)' = Probed(u, n, i)
               \/ Probed(u, n, i) = INVALID_KEY /\ Probed(u, n, i)' \notin {u, INVALID_KEY}
            /\ Probed(u, n, i) = u => Stored(u, n, i)' = Stored(u, n, i)
  /\ \A n \in (Len(tables) + 1)..Len(tables') : Absent(u, n)'

\* Then what the thread knows of the tables stays so.
LEMMA ViewKept ==
  ASSUME Types, NEW u \in Threads, Grows(u)
  PROVE  /\ \A n \in 1..Len(tables) :
              /\ n \in 1..Len(tables')
              /\ Absent(u, n) <=> Absent(u, n)'
              /\ \A i \in Nat : Found(u, n, i) => Found(u, n, i)' /\ Stored(u, n, i)' = Stored(u, n, i)
              /\ \A i \in Nat : i < Capacity(n) /\ Passed(u, n, i) => i < Capacity(n)' /\ Passed(u, n, i)'
         /\ \A n \in Nat : AbsentAbove(u, n) => AbsentAbove(u, n)'
<1>0. Len(tables) \in Nat /\ INVALID_KEY \notin Threads
  BY HashTableAssumption DEF Types
<1>1. ASSUME NEW n \in 1..Len(tables)
      PROVE  /\ Absent(u, n) <=> Absent(u, n)'
             /\ \A i \in Nat : Found(u, n, i) => Found(u, n, i)' /\ Stored(u, n, i)' = Stored(u, n, i)
             /\ \A i \in Nat : i < Capacity(n) /\ Passed(u, n, i) => i < Capacity(n)' /\ Passed(u, n, i)'
  <2>1. Capacity(n) \in Nat \ {0} /\ Capacity(n)' = Capacity(n)
    BY TableShape DEF Grows
  <2>2. Absent(u, n) <=> Absent(u, n)'
    BY <1>0, <2>1 DEF Grows, Absent
  <2>3. ASSUME NEW i \in Nat, i < Capacity(n), Passed(u, n, i) PROVE Passed(u, n, i)'
    BY <1>0, <2>1, <2>3 DEF Grows, Passed
  <2>4. ASSUME NEW i \in Nat, Found(u, n, i)
        PROVE  Found(u, n, i)' /\ Stored(u, n, i)' = Stored(u, n, i)
    <3>1. i < Capacity(n) /\ i \in 0..(Capacity(n) - 1) /\ Passed(u, n, i) /\ Probed(u, n, i) = u
      BY <2>1, <2>4 DEF Found
    <3>2. Passed(u, n, i)'
      BY <2>3, <3>1
    <3>3. Probed(u, n, i)' = u /\ Stored(u, n, i)' = Stored(u, n, i)
      BY <1>0, <3>1 DEF Grows
    <3>4. QED
      BY <2>1, <3>1, <3>2, <3>3 DEF Found
  <2>5. QED
    BY <2>1, <2>2, <2>3, <2>4
<1>2. Len(tables') >= Len(tables)
  BY DEF Grows
<1>3. ASSUME NEW n \in Nat, AbsentAbove(u, n) PROVE AbsentAbove(u, n)'
  <2> SUFFICES ASSUME NEW m \in 1..Len(tables'), m > n PROVE Absent(u, m)'
    BY DEF AbsentAbove
  <2>1. CASE m \in 1..Len(tables)
    BY <1>1, <1>3, <2>1 DEF AbsentAbove
  <2>2. CASE m \notin 1..Len(tables)
    BY <1>0, <2>2 DEF Grows
  <2>3. QED
    BY <2>1, <2>2
<1>4. QED
  BY <1>0, <1>1, <1>2, <1>3

\* Such a step keeps what is known of a thread that takes no part in it.
LEMMA OthersKept ==
  ASSUME Types, NEW u \in Threads, Grows(u),
         Placed(u), Newest(u), Search(u), answer[u] = latest[u],
         latest'[u] = latest[u], answer'[u] = answer[u], pc'[u] = pc[u],
         CurrentMainHash'[u] = CurrentMainHash[u], CurrentHash'[u] = CurrentHash[u],
         Probes'[u] = Probes[u]
  PROVE  Placed(u)' /\ Newest(u)' /\ Search(u)' /\ answer'[u] = latest'[u]
<1>0. /\ Len(tables) \in Nat /\ Probes[u] \in Nat
      /\ CurrentMainHash[u] \in 1..Len(tables) /\ CurrentHash[u] \in 1..Len(tables)
  BY DEF Types
<1>1. \A n \in 1..Len(tables) : Probing(u, n) => Probing(u, n)'
  BY <1>0, ViewKept DEF Probing
<1>2. Placed(u)'
  <2> SUFFICES ASSUME NEW n \in 1..Len(tables') PROVE Absent(u, n)' \/ \E i \in Nat : Found(u, n, i)'
    BY DEF Placed
  <2>1. CASE n \in 1..Len(tables)
    BY <2>1, ViewKept DEF Placed
  <2>2. CASE n \notin 1..Len(tables)
    BY <1>0, <2>2 DEF Grows
  <2>3. QED
    BY <2>1, <2>2
<1>3. Newest(u)'
  <2>1. CASE AbsentAbove(u, 0) /\ latest[u] = NULL
    BY <2>1, ViewKept DEF Newest
  <2>2. ASSUME NEW n \in 1..Len(tables), NEW i \in Nat,
               Found(u, n, i), AbsentAbove(u, n), Stored(u, n, i) = latest[u]
        PROVE  Newest(u)'
    BY <2>2, ViewKept DEF Newest
  <2>3. QED
    BY <2>1, <2>2 DEF Newest
<1>4. Search(u)'
  BY <1>0, <1>1, ViewKept DEF Search
<1>5. QED
  BY <1>2, <1>3, <1>4

\* Nothing changes for anybody if the tables do not.
LEMMA SameTables ==
  ASSUME Types, UNCHANGED tables, NEW u \in Threads
  PROVE  Grows(u)
<1>1. Len(tables) \in Nat
  BY DEF Types
<1>2. QED
  BY <1>1 DEF Grows, Capacity, Probed, Stored

\* A new table in front is seen by everybody as one without keys.
LEMMA AppendGrows ==
  ASSUME Types, NEW cap \in Nat \ {0}, tables' = Append(tables, NewHashNode(cap)),
         NEW u \in Threads
  PROVE  Grows(u) /\ tables' \in Seq(HashNodes) /\ Len(tables') = Len(tables) + 1
<1>1. tables \in Seq(HashNodes) /\ Len(tables) \in Nat
  BY DEF Types
<1>2. /\ tables' \in Seq(HashNodes) /\ Len(tables') = Len(tables) + 1
      /\ \A n \in 1..Len(tables) : tables'[n] = tables[n]
      /\ tables'[Len(tables) + 1] = NewHashNode(cap)
  BY <1>1, NewTable
<1>3. \A n \in 1..Len(tables) : /\ Capacity(n)' = Capacity(n)
                                /\ \A i \in Nat : /\ Probed(u, n, i)' = Probed(u, n, i)
                                                  /\ Stored(u, n, i)' = Stored(u, n, i)
  BY <1>2 DEF Capacity, Probed, Stored
<1>4. ASSUME NEW n \in Nat, n = Len(tables) + 1 PROVE Absent(u, n)'
  <2>1. tables'[n] = NewHashNode(cap)
    BY <1>2, <1>4
  <2>2. Capacity(n)' = cap
    <3>1. Capacity(n)' = Cardinality(0..(cap - 1))
      BY <2>1, NewTable DEF Capacity
    <3>2. QED
      BY <3>1, FS_Interval
  <2>3. ASSUME NEW i \in 0..(cap - 1) PROVE Probed(u, n, i)' # u
    <3>1. i \in Nat /\ Slot(u, i, cap) \in 0..(cap - 1)
      BY i \in Nat, SlotInRange
    <3>2. NewHashNode(cap).First[Slot(u, i, cap)] = INVALID_KEY
      BY <3>1 DEF NewHashNode
    <3>3. Probed(u, n, i)' = INVALID_KEY
      BY <2>1, <2>2, <3>2 DEF Probed
    <3>4. QED
      BY <3>3, HashTableAssumption
  <2>4. QED
    BY <2>2, <2>3 DEF Absent
<1>5. \A n \in (Len(tables) + 1)..Len(tables') : n \in Nat /\ n = Len(tables) + 1
  BY <1>1, <1>2
<1>6. \A n \in 1..Len(tables) : \A i \in 0..(Capacity(n) - 1) : i \in Nat
  BY TableShape
<1>7. Grows(u)
  BY <1>1, <1>2, <1>3, <1>4, <1>5, <1>6 DEF Grows
<1>8. QED
  BY <1>2, <1>7

-----------------------------------------------------------------------------
(* A thread takes a slot. *)

\* The tables after a thread stored its key and a value in a slot that was free or
\* its own already.
LEMMA OccupySlot ==
  ASSUME Types, NEW t \in Threads, NEW n \in 1..Len(tables), NEW value \in Values,
         Probes[t] < Capacity(n),
         Occupy(t, n, value), KeyAt(t, n) \in {t, INVALID_KEY}
  PROVE  /\ tables' \in Seq(HashNodes) /\ Len(tables') = Len(tables)
         /\ \A u \in Threads \ {t} : Grows(u)
         /\ \A m \in 1..Len(tables) : Capacity(m)' = Capacity(m)
         /\ \A m \in 1..Len(tables), i \in Nat : m # n => Probed(t, m, i)' = Probed(t, m, i)
         /\ \A i \in Nat : i < Capacity(n) /\ Probed(t, n, i) \notin {t, INVALID_KEY}
                             => Probed(t, n, i)' = Probed(t, n, i)
         /\ \A p \in Nat : p = Probes[t] => Probed(t, n, p)' = t /\ Stored(t, n, p)' = value
<1> DEFINE cap == Capacity(n)
           s == Slot(t, Probes[t], cap)
           new == [First |-> [tables[n].First EXCEPT ![s] = t],
                   Second |-> [tables[n].Second EXCEPT ![s] = value]]
<1>1. cap \in Nat \ {0} /\ tables[n] \in HashNode(cap)
      /\ Probes[t] \in Nat /\ Len(tables) \in Nat
  BY TableShape DEF Types
<1>2. s \in 0..(cap - 1)
  BY <1>1, SlotInRange
<1>3. tables' = [tables EXCEPT ![n] = new]
  BY DEF Occupy
<1>4. new \in HashNode(cap)
  BY <1>1, <1>2 DEF HashNode, Keys
<1>5. /\ new.First[s] = t /\ new.Second[s] = value
      /\ \A j \in 0..(cap - 1) : j # s => new.First[j] = tables[n].First[j]
                                       /\ new.Second[j] = tables[n].Second[j]
      /\ DOMAIN new.First = DOMAIN tables[n].First
  BY <1>1, <1>2 DEF HashNode
<1>6. tables[n].First[s] \in {t, INVALID_KEY}
  BY DEF KeyAt
<1> HIDE DEF new
<1>7. /\ tables' \in Seq(HashNodes) /\ Len(tables') = Len(tables)
      /\ tables'[n] = new /\ \A m \in 1..Len(tables) : m # n => tables'[m] = tables[m]
  BY <1>1, <1>3, <1>4 DEF HashNodes, Types
<1>8. \A m \in 1..Len(tables) : Capacity(m)' = Capacity(m)
  BY <1>5, <1>7 DEF Capacity
<1> HIDE DEF s
<1>9. ASSUME NEW u \in Threads, NEW m \in 1..Len(tables), NEW i \in Nat
      PROVE  \/ Probed(u, m, i)' = Probed(u, m, i) /\ Stored(u, m, i)' = Stored(u, m, i)
             \/ m = n /\ Probed(u, m, i)' = t /\ Probed(u, m, i) \in {t, INVALID_KEY}
  <2> DEFINE j == Slot(u, i, Capacity(m))
  <2>1. Capacity(m) \in Nat \ {0} /\ j \in 0..(Capacity(m) - 1)
    BY TableShape, SlotInRange
  <2>2. /\ Probed(u, m, i)' = tables'[m].First[j] /\ Probed(u, m, i) = tables[m].First[j]
        /\ Stored(u, m, i)' = tables'[m].Second[j] /\ Stored(u, m, i) = tables[m].Second[j]
    BY <1>8 DEF Probed, Stored
  <2> HIDE DEF j
  <2>3. CASE m # n
    BY <1>7, <2>2, <2>3
  <2>4. CASE m = n
    BY <1>5, <1>6, <1>7, <2>1, <2>2, <2>4
  <2>5. QED
    BY <2>3, <2>4
<1>10. ASSUME NEW u \in Threads \ {t} PROVE Grows(u)
  <2>1. t \notin {u, INVALID_KEY} /\ u # INVALID_KEY
    BY HashTableAssumption
  <2>2. ASSUME NEW m \in 1..Len(tables), NEW i \in 0..(Capacity(m) - 1)
        PROVE /\ \/ Probed(u, m, i)' = Probed(u, m, i)
                 \/ Probed(u, m, i) = INVALID_KEY /\ Probed(u, m, i)' \notin {u, INVALID_KEY}
              /\ Probed(u, m, i) = u => Stored(u, m, i)' = Stored(u, m, i)
    <3>1. i \in Nat
      BY TableShape
    <3>2. QED
      BY <1>9, <2>1, <3>1
  <2>3. QED
    BY <1>1, <1>7, <1>8, <2>2 DEF Grows
<1>11. ASSUME NEW p \in Nat, p = Probes[t]
       PROVE  Probed(t, n, p)' = t /\ Stored(t, n, p)' = value
  BY <1>5, <1>7, <1>8, <1>11 DEF s, Probed, Stored
<1>12. QED
  BY <1>7, <1>8, <1>9, <1>10, <1>11

\* The thread that took the slot at the end of its search finds its key there, with
\* the value, if no newer table has it.
LEMMA SlotTaken ==
  ASSUME TableInv, NEW t \in Threads, NEW n \in 1..Len(tables), NEW value \in Values,
         Occupy(t, n, value), Probing(t, n), KeyAt(t, n) \in {t, INVALID_KEY},
         AbsentAbove(t, n), latest'[t] = value
  PROVE  Placed(t)' /\ Newest(t)'
<1> DEFINE p == Probes[t]
<1>1. /\ p \in Nat /\ p < Capacity(n) /\ Capacity(n) \in Nat \ {0} /\ Len(tables) \in Nat
      /\ \A m \in 1..Len(tables) : Capacity(m) \in Nat \ {0}
  BY SMTT(60), TableShape DEF TableInv, Types, Probing
<1>2. /\ Len(tables') = Len(tables)
      /\ \A m \in 1..Len(tables) : Capacity(m)' = Capacity(m)
      /\ \A m \in 1..Len(tables), i \in Nat : m # n => Probed(t, m, i)' = Probed(t, m, i)
      /\ \A i \in Nat : i < Capacity(n) /\ Probed(t, n, i) \notin {t, INVALID_KEY}
                          => Probed(t, n, i)' = Probed(t, n, i)
      /\ \A q \in Nat : q = Probes[t] => Probed(t, n, q)' = t /\ Stored(t, n, q)' = value
  BY <1>1, OccupySlot DEF TableInv
<1>3. \A q \in Nat : q = p => Found(t, n, q)' /\ Stored(t, n, q)' = value
  <2> SUFFICES ASSUME NEW q \in Nat, q = p PROVE Found(t, n, q)' /\ Stored(t, n, q)' = value
    OBVIOUS
  <2>1. Passed(t, n, q)
    BY DEF Probing
  <2>2. Passed(t, n, q)'
    BY <1>1, <1>2, <2>1 DEF Passed
  <2>3. QED
    BY <1>1, <1>2, <2>2 DEF Found
<1>4. ASSUME NEW m \in 1..Len(tables), m # n
      PROVE  /\ Absent(t, m) => Absent(t, m)'
             /\ \A i \in Nat : Found(t, m, i) => Found(t, m, i)'
  <2>1. Absent(t, m) => Absent(t, m)'
    BY <1>1, <1>2, <1>4 DEF Absent
  <2>2. ASSUME NEW i \in Nat, Found(t, m, i) PROVE Found(t, m, i)'
    <3>1. i \in 0..(Capacity(m) - 1) /\ Passed(t, m, i) /\ Probed(t, m, i) = t
      BY <2>2 DEF Found
    <3>2. Passed(t, m, i)'
      BY <1>1, <1>2, <1>4, <3>1 DEF Passed
    <3>3. QED
      BY <1>2, <1>4, <3>1, <3>2 DEF Found
  <2>3. QED
    BY <2>1, <2>2
<1>5. Placed(t)'
  <2> SUFFICES ASSUME NEW m \in 1..Len(tables)
               PROVE  Absent(t, m)' \/ \E i \in Nat : Found(t, m, i)'
    BY <1>2 DEF Placed
  <2>1. CASE m = n
    BY <1>1, <1>3, <2>1
  <2>2. CASE m # n
    BY <1>4, <2>2 DEF TableInv, KeyInv, Placed
  <2>3. QED
    BY <2>1, <2>2
<1>6. AbsentAbove(t, n)'
  BY <1>1, <1>2, <1>4 DEF AbsentAbove
<1>7. QED
  BY <1>1, <1>2, <1>3, <1>5, <1>6 DEF Newest

\* The next slot of the sequence, when the one the thread is at has another key.
LEMMA NextSlot ==
  ASSUME Types, NEW t \in Threads, NEW n \in 1..Len(tables), Probing(t, n),
         KeyAt(t, n) \notin {t, INVALID_KEY}, UNCHANGED tables,
         Probes' = [Probes EXCEPT ![t] = (@ + 1) % Capacity(n)]
  PROVE  Probing(t, n)' /\ Probes' \in [Threads -> Nat]
<1>1. Probes \in [Threads -> Nat] /\ Capacity(n) \in Nat \ {0} /\ Capacity(n)' = Capacity(n)
  BY TableShape DEF Types, Capacity
<1>2. CASE Probes[t] + 1 < Capacity(n)
  <2>1. Probes'[t] = Probes[t] + 1
    BY <1>1, <1>2
  <2>2. \A j \in 0..Probes[t] : Probed(t, n, j) \notin {t, INVALID_KEY}
    BY <1>1 DEF Probing, Passed, KeyAt, Probed
  <2>3. QED
    BY <1>1, <1>2, <2>1, <2>2 DEF Probing, Passed, Probed
<1>3. CASE Probes[t] + 1 = Capacity(n)
  <2>1. Probes'[t] = 0
    BY <1>1, <1>3
  <2>2. QED
    BY <1>1, <2>1 DEF Probing, Passed
<1>4. QED
  BY <1>1, <1>2, <1>3 DEF Probing

-----------------------------------------------------------------------------
(* What the model's operators say. *)

\* A key that is found is where the search of its table stops.
LEMMA StopIsFound ==
  ASSUME Types, NEW t \in Threads, NEW n \in 1..Len(tables), NEW i \in Nat, Found(t, n, i)
  PROVE  Stop(t, n) = {i} /\ Reaches(t, n)
<1>1. i \in 0..(Capacity(n) - 1) /\ Capacity(n) \in Nat /\ Probed(t, n, i) = t
  BY TableShape DEF Found
<1>2. \A j \in 0..(Capacity(n) - 1) : Probed(t, n, j) \in {t, INVALID_KEY} => i <= j
  BY <1>1 DEF Found, Passed
<1>3. Stop(t, n) = {i}
  BY <1>1, <1>2 DEF Stop, Probed
<1>4. QED
  BY <1>1, <1>3 DEF Reaches, Probed

\* A key that is nowhere in a table is not reached in it.
LEMMA AbsentNotReached ==
  ASSUME NEW t \in Threads, NEW n, Absent(t, n)
  PROVE  ~Reaches(t, n)
BY DEF Absent, Reaches, Stop, Probed

\* A lookup gives what the table should hold for the thread.
LEMMA LookupRight ==
  ASSUME Types, NEW t \in Threads, Placed(t), Newest(t)
  PROVE  Lookup(t) = latest[t]
<1> DEFINE has == {n \in 1..MainHash : Reaches(t, n)}
<1>1. MainHash = Len(tables)
  BY DEF MainHash
<1>2. CASE AbsentAbove(t, 0) /\ latest[t] = NULL
  <2>1. has = {}
    BY <1>1, <1>2, AbsentNotReached DEF AbsentAbove
  <2>2. QED
    BY <1>2, <2>1 DEF Lookup
<1>3. ASSUME NEW n \in 1..Len(tables), NEW i \in Nat,
             Found(t, n, i), AbsentAbove(t, n), Stored(t, n, i) = latest[t]
      PROVE  Lookup(t) = latest[t]
  <2>1. Stop(t, n) = {i} /\ n \in has
    BY <1>1, <1>3, StopIsFound
  <2>2. \A m \in has : m <= n
    BY <1>1, <1>3, AbsentNotReached DEF AbsentAbove
  <2>3. (CHOOSE m \in has : \A k \in has : k <= m) = n
    BY <1>1, <2>1, <2>2
  <2>4. (CHOOSE j \in Stop(t, n) : TRUE) = i
    BY <2>1
  <2>5. Lookup(t) = tables[n].Second[Slot(t, i, Capacity(n))]
    BY <2>1, <2>3, <2>4 DEF Lookup
  <2>6. QED
    BY <1>3, <2>5 DEF Stored
<1>4. QED
  BY <1>2, <1>3 DEF Newest

\* There is one place where a key is found in a table.
LEMMA NewestAt ==
  ASSUME Types, NEW t \in Threads, NEW n \in 1..Len(tables), NEW i \in Nat,
         Found(t, n, i), AbsentAbove(t, n), Newest(t)
  PROVE  Stored(t, n, i) = latest[t]
<1>1. ~Absent(t, n) /\ n > 0 /\ Len(tables) \in Nat
  BY DEF Absent, Found, Types
<1>2. ~AbsentAbove(t, 0)
  BY <1>1 DEF AbsentAbove
<1>3. ASSUME NEW m \in 1..Len(tables), NEW j \in Nat,
             Found(t, m, j), AbsentAbove(t, m), Stored(t, m, j) = latest[t]
      PROVE  Stored(t, n, i) = latest[t]
  <2>1. ~Absent(t, m)
    BY <1>3 DEF Absent, Found
  <2>2. m = n
    BY <1>1, <1>3, <2>1 DEF AbsentAbove
  <2>3. Stop(t, n) = {i} /\ Stop(t, n) = {j}
    BY <1>3, <2>2, StopIsFound
  <2>4. QED
    BY <1>3, <2>2, <2>3
<1>4. QED
  BY <1>2, <1>3 DEF Newest

\* A thread whose key is in no table has no value.
LEMMA NoneAtAll ==
  ASSUME Types, NEW t \in Threads, AbsentAbove(t, 0), Newest(t)
  PROVE  latest[t] = NULL
<1>1. \A n \in 1..Len(tables), i \in Nat : ~Found(t, n, i)
  BY DEF AbsentAbove, Absent, Found, Types
<1>2. QED
  BY <1>1 DEF Newest

\* A search that ends at a free slot has shown the key not to be in the table.
LEMMA EndReached ==
  ASSUME Types, NEW t \in Threads, NEW n \in 1..Len(tables),
         Probing(t, n), KeyAt(t, n) = INVALID_KEY, Placed(t)
  PROVE  Absent(t, n)
<1>1. Probes[t] \in Nat /\ t # INVALID_KEY
  BY HashTableAssumption DEF Types
<1>2. Passed(t, n, Probes[t]) /\ Probed(t, n, Probes[t]) = INVALID_KEY
  BY DEF Probing, KeyAt, Probed
<1>3. ASSUME NEW i \in Nat, Found(t, n, i) PROVE FALSE
  <2>1. Passed(t, n, i) /\ Probed(t, n, i) = t
    BY <1>3 DEF Found
  <2>2. i >= Probes[t]
    BY <1>1, <1>2, <2>1 DEF Passed
  <2>3. i <= Probes[t]
    BY <1>1, <1>2, <2>1 DEF Passed
  <2>4. QED
    BY <1>1, <1>2, <2>1, <2>2, <2>3
<1>4. QED
  BY <1>3 DEF Placed

-----------------------------------------------------------------------------
(* The steps of a thread. *)

\* What a step of thread t leaves of the others.
Mine(t) ==
  \A u \in Threads \ {t} :
    /\ latest'[u] = latest[u] /\ answer'[u] = answer[u] /\ pc'[u] = pc[u]
    /\ CurrentMainHash'[u] = CurrentMainHash[u] /\ CurrentHash'[u] = CurrentHash[u]
    /\ Probes'[u] = Probes[u]

\* A step keeps what is known of all keys if it does so for its own.
LEMMA OwnStep ==
  ASSUME TableInv, NEW t \in Threads, Mine(t), \A u \in Threads \ {t} : Grows(u),
         Placed(t)', Newest(t)', Search(t)', answer'[t] = latest'[t]
  PROVE  KeyInv'
<1>1. ASSUME NEW u \in Threads \ {t}
      PROVE  Placed(u)' /\ Newest(u)' /\ Search(u)' /\ answer'[u] = latest'[u]
  BY OthersKept DEF TableInv, KeyInv, Mine
<1>2. QED
  BY <1>1 DEF KeyInv

\* A step that adds no key and stores no value moves only the thread's search.
LEMMA QuietStep ==
  ASSUME TableInv, NEW t \in Threads, Mine(t), \A u \in Threads : Grows(u),
         latest'[t] = latest[t], answer'[t] = answer[t], Search(t)'
  PROVE  KeyInv'
<1>0. Types /\ Placed(t) /\ Newest(t) /\ answer[t] = latest[t] /\ Grows(t) /\ Len(tables) \in Nat
  BY DEF TableInv, KeyInv, Types
<1>1. Placed(t)'
  <2> SUFFICES ASSUME NEW n \in 1..Len(tables') PROVE Absent(t, n)' \/ \E i \in Nat : Found(t, n, i)'
    BY DEF Placed
  <2>1. CASE n \in 1..Len(tables)
    BY <1>0, <2>1, ViewKept DEF Placed
  <2>2. CASE n \notin 1..Len(tables)
    BY <1>0, <2>2 DEF Grows
  <2>3. QED
    BY <2>1, <2>2
<1>2. Newest(t)'
  BY <1>0, ViewKept DEF Newest
<1>3. QED
  BY <1>0, <1>1, <1>2, OwnStep

\* Such a step without a new table.
LEMMA StillStep ==
  ASSUME TableInv, NEW t \in Threads, Mine(t), UNCHANGED <<tables, latest, answer>>, Search(t)'
  PROVE  KeyInv'
BY QuietStep, SameTables DEF TableInv

\* What is known of a table stays so while the tables do not change.
LEMMA SameView ==
  ASSUME UNCHANGED tables, NEW t, NEW n
  PROVE  /\ AbsentAbove(t, n)' = AbsentAbove(t, n) /\ Absent(t, n)' = Absent(t, n)
         /\ Capacity(n)' = Capacity(n)
         /\ \A i : Passed(t, n, i)' = Passed(t, n, i)
BY DEF AbsentAbove, Absent, Passed, Probed, Capacity

LEMMA CallKeeps ==
  ASSUME TableInv, NEW t \in Threads, NEW o \in Ops, Call(t, o)
  PROVE  TableInv'
<1>0. Types /\ Len(tables) \in Nat \ {0}
  BY DEF TableInv, Types
<1>1. Types'
  <2>1. calls' \in [Threads -> Nat] /\ \A u \in Threads : calls'[u] <= MaxCalls[u]
    BY <1>0, HashTableAssumption DEF Call, Types
  <2>2. QED
    BY <1>0, <2>1 DEF Call, Types, Probe0, Goto, PCs, Ops, shared, ghosts, MainHash
<1>2. Mine(t) /\ UNCHANGED <<tables, latest, answer>>
  BY <1>0 DEF Call, Mine, Probe0, Goto, shared, ghosts, Types
<1>3. pc'[t] = "probe" /\ Probes'[t] = 0 /\ CurrentHash'[t] = Len(tables)
      /\ CurrentMainHash'[t] = Len(tables)
  BY <1>0 DEF Call, Probe0, Goto, Types, MainHash
<1>4. Capacity(Len(tables)) \in Nat \ {0}
  BY <1>0, TableShape
<1>5. Search(t)'
  BY <1>0, <1>2, <1>3, <1>4 DEF Search, Probing, Passed, Capacity, AbsentAbove
<1>6. QED
  BY <1>1, <1>2, <1>5, StillStep DEF TableInv

LEMMA FindInOlderKeeps ==
  ASSUME TableInv, NEW t \in Threads, FindInOlder(t)
  PROVE  TableInv'
<1> DEFINE n == CurrentHash[t]
           main == CurrentMainHash[t]
<1>0. Types /\ Search(t) /\ n \in 1..Len(tables) /\ main \in 1..Len(tables) /\ Probes[t] \in Nat
  BY DEF TableInv, KeyInv, Types
<1>1. Types'
  BY <1>0 DEF FindInOlder, Types, Probe0, Goto, PCs, shared, ghosts
<1>2. Mine(t) /\ UNCHANGED <<tables, latest, answer>>
  BY <1>0 DEF FindInOlder, Mine, Probe0, Goto, shared, ghosts, Types
<1>3. pc'[t] = "migrate" /\ Probes'[t] = 0 /\ CurrentHash'[t] = n /\ CurrentMainHash'[t] = main
  BY <1>0 DEF FindInOlder, Probe0, Goto, Types
<1>4. n < main /\ AbsentAbove(t, n) /\ Probing(t, n)
  BY <1>0 DEF FindInOlder, Search
<1>5. Capacity(main) \in Nat \ {0} /\ Capacity(n) \in Nat \ {0}
  BY <1>0, TableShape
<1>6. ~Absent(t, n)
  BY <1>0, <1>4, <1>5 DEF FindInOlder, Absent, Probing, KeyAt, Probed
<1>7. Search(t)'
  <2>1. \A m : AbsentAbove(t, m)' = AbsentAbove(t, m) /\ Absent(t, m)' = Absent(t, m)
    BY <1>2, SameView
  <2>2. \A m : m = main => Probing(t, m)'
    BY <1>2, <1>3, <1>5 DEF Probing, Passed, Capacity
  <2>3. QED
    BY <1>3, <1>4, <1>6, <2>1, <2>2 DEF Search
<1>8. QED
  BY <1>1, <1>2, <1>7, StillStep DEF TableInv

LEMMA FindInMainKeeps ==
  ASSUME TableInv, NEW t \in Threads, FindInMain(t)
  PROVE  TableInv'
<1> DEFINE value == Stored(t, CurrentMainHash[t], Probes[t])
           new == IF op[t] = "set" THEN calls[t] ELSE value
<1>0. /\ Types /\ Search(t) /\ Newest(t) /\ answer[t] = latest[t]
      /\ Probes[t] \in Nat /\ calls[t] \in Nat /\ latest \in [Threads -> Values]
      /\ pc[t] = "probe" /\ CurrentHash[t] = CurrentMainHash[t]
  BY DEF TableInv, KeyInv, Types, FindInMain
<1>1. PICK n \in 1..Len(tables) : n = CurrentMainHash[t]
  BY <1>0 DEF Types
<1>2. Probing(t, n) /\ AbsentAbove(t, n) /\ KeyAt(t, n) = t
  BY <1>0, <1>1 DEF FindInMain, Search
<1>3. PICK p \in Nat : p = Probes[t]
  BY <1>0
<1>4. Capacity(n) \in Nat \ {0}
  BY <1>0, TableShape
<1>5. Found(t, n, p)
  BY <1>2, <1>3, <1>4 DEF Found, Probing, KeyAt, Probed
<1>6. Stored(t, n, p) = latest[t]
  BY <1>0, <1>2, <1>5, NewestAt
<1>7. value = latest[t] /\ new \in Values /\ latest[t] \in Values
  BY <1>0, <1>1, <1>3, <1>6 DEF Values
<1>8. /\ Occupy(t, n, new) /\ Return(t, new)
      /\ latest' = IF op[t] = "set" THEN [latest EXCEPT ![t] = calls[t]] ELSE latest
      /\ UNCHANGED <<EntriesCount, HashResizeInProgressFlag, calls, threw>>
  BY <1>1 DEF FindInMain, UseEntry, Stored
<1> HIDE DEF value
<1>9. latest'[t] = new /\ latest' \in [Threads -> Values]
  BY <1>0, <1>7, <1>8 DEF Values
<1> HIDE DEF new
<1>10. /\ tables' \in Seq(HashNodes) /\ Len(tables') = Len(tables)
       /\ \A u \in Threads \ {t} : Grows(u)
  BY <1>0, <1>2, <1>7, <1>8, OccupySlot DEF Probing
<1>11. Placed(t)' /\ Newest(t)'
  BY <1>2, <1>7, <1>8, <1>9, SlotTaken
<1>12. Types'
  BY <1>0, <1>7, <1>8, <1>9, <1>10 DEF Types, Return, Goto, Probe0, PCs, Ops
<1>13. Mine(t) /\ pc'[t] = "idle" /\ answer'[t] = new
  <2>1. \A u \in Threads \ {t} : latest'[u] = latest[u]
    BY <1>0, <1>8
  <2>2. QED
    BY <1>0, <1>8, <2>1 DEF Mine, Return, Goto, Probe0, Types
<1>14. Search(t)'
  BY <1>13 DEF Search
<1>15. QED
  BY <1>9, <1>10, <1>11, <1>12, <1>13, <1>14, OwnStep DEF TableInv

LEMMA PassSlotKeeps ==
  ASSUME TableInv, NEW t \in Threads, PassSlot(t)
  PROVE  TableInv'
<1>0. Types /\ Search(t) /\ pc[t] = "probe"
  BY DEF TableInv, KeyInv, PassSlot
<1>1. PICK n \in 1..Len(tables) : n = CurrentHash[t]
  BY <1>0 DEF Types
<1>2. /\ CurrentHash[t] <= CurrentMainHash[t] /\ Probing(t, n) /\ AbsentAbove(t, n)
      /\ KeyAt(t, n) \notin {t, INVALID_KEY}
      /\ Probes' = [Probes EXCEPT ![t] = (@ + 1) % Capacity(n)]
      /\ UNCHANGED <<shared, pc, op, calls, CurrentMainHash, CurrentHash, NewCount, ghosts>>
  BY <1>0, <1>1 DEF PassSlot, Search
<1>3. UNCHANGED <<tables, latest, answer>>
  BY <1>2 DEF shared, ghosts
<1>4. Probing(t, n)' /\ Probes' \in [Threads -> Nat]
  BY <1>0, <1>2, <1>3, NextSlot
<1>5. Types'
  BY <1>0, <1>2, <1>4 DEF Types, shared, ghosts
<1>6. Mine(t)
  BY <1>0, <1>2, <1>3 DEF Mine, Types
<1>7. Search(t)'
  <2>1. AbsentAbove(t, n)'
    BY <1>2, <1>3, SameView
  <2>2. QED
    BY <1>0, <1>1, <1>2, <1>4, <2>1 DEF Search
<1>8. QED
  BY <1>3, <1>5, <1>6, <1>7, StillStep DEF TableInv

LEMMA EndOfTableKeeps ==
  ASSUME TableInv, NEW t \in Threads, EndOfTable(t)
  PROVE  TableInv'
<1>0. /\ Types /\ Search(t) /\ Placed(t) /\ Newest(t) /\ answer[t] = latest[t]
      /\ pc[t] = "probe" /\ Len(tables) \in Nat
  BY DEF TableInv, KeyInv, Types, EndOfTable
<1>1. PICK n \in 1..Len(tables) : n = CurrentHash[t]
  BY <1>0 DEF Types
<1>2. Probing(t, n) /\ AbsentAbove(t, n) /\ KeyAt(t, n) = INVALID_KEY
      /\ n <= CurrentMainHash[t]
  BY <1>0, <1>1 DEF EndOfTable, Search
<1>3. Absent(t, n)
  BY <1>0, <1>2, EndReached
<1>4. \A m \in Nat : m + 1 = n => AbsentAbove(t, m)
  BY <1>0, <1>2, <1>3 DEF AbsentAbove
<1>5. UNCHANGED tables
  BY DEF EndOfTable, shared
<1>6. \A m : AbsentAbove(t, m)' = AbsentAbove(t, m)
  BY <1>5, SameView
<1>7. CASE /\ CurrentHash[t] > 1
           /\ CurrentHash' = [CurrentHash EXCEPT ![t] = @ - 1]
           /\ Probe0(t)
           /\ UNCHANGED <<pc, op, CurrentMainHash, NewCount, ghosts>>
  <2>1. PICK m \in 1..Len(tables) : m = n - 1
    BY <1>0, <1>1, <1>7
  <2>2. Types'
    BY <1>0, <1>1, <1>7, <2>1 DEF EndOfTable, Types, Probe0, shared, ghosts
  <2>3. Mine(t) /\ UNCHANGED <<tables, latest, answer>>
    BY <1>0, <1>5, <1>7 DEF Mine, Types, Probe0, ghosts
  <2>4. CurrentHash'[t] = m /\ Probes'[t] = 0
    BY <1>0, <1>1, <1>7, <2>1 DEF Types, Probe0
  <2>5. Capacity(m) \in Nat \ {0} /\ AbsentAbove(t, m)
    BY <1>0, <1>4, <2>1, TableShape
  <2>6. Capacity(m)' = Capacity(m)
    BY <1>5 DEF Capacity
  <2>7. Probing(t, m)'
    BY <2>4, <2>5, <2>6 DEF Probing, Passed
  <2>8. CurrentHash'[t] <= CurrentMainHash'[t] /\ pc'[t] = "probe"
    BY <1>0, <1>2, <1>7, <2>1, <2>4 DEF Types
  <2>9. Search(t)'
    BY <1>6, <2>4, <2>5, <2>7, <2>8 DEF Search
  <2>10. QED
    BY <2>2, <2>3, <2>9, StillStep DEF TableInv
<1>8. CASE /\ CurrentHash[t] = 1 /\ op[t] = "getOrAdd"
           /\ Return(t, NULL) /\ UNCHANGED <<latest, threw>>
  <2>1. AbsentAbove(t, 0)
    BY <1>1, <1>4, <1>8
  <2>2. latest[t] = NULL
    BY <1>0, <2>1, NoneAtAll
  <2>3. Types'
    BY <1>0, <1>8 DEF EndOfTable, Types, Return, Goto, Probe0, PCs, Ops, Values, shared
  <2>4. Mine(t) /\ UNCHANGED <<tables, latest>> /\ answer'[t] = answer[t] /\ pc'[t] = "idle"
    BY <1>0, <1>5, <1>8, <2>2 DEF Mine, Types, Return, Goto, Probe0
  <2>5. Search(t)'
    BY <2>4 DEF Search
  <2>6. \A u \in Threads : Grows(u)
    BY <1>0, <1>5, SameTables
  <2>7. QED
    BY <2>3, <2>4, <2>5, <2>6, QuietStep DEF TableInv
<1>9. CASE CurrentHash[t] = 1 /\ Goto(t, "count") /\ UNCHANGED <<op, locals, ghosts>>
  <2>1. AbsentAbove(t, 0)
    BY <1>1, <1>4, <1>9
  <2>2. Types'
    BY <1>0, <1>9 DEF EndOfTable, Types, Goto, PCs, shared, locals, ghosts
  <2>3. Mine(t) /\ UNCHANGED <<tables, latest, answer>> /\ pc'[t] = "count"
    BY <1>0, <1>5, <1>9 DEF Mine, Types, Goto, locals, ghosts
  <2>4. Search(t)'
    BY <1>6, <2>1, <2>3 DEF Search
  <2>5. QED
    BY <2>2, <2>3, <2>4, StillStep DEF TableInv
<1>10. QED
  BY <1>7, <1>8, <1>9 DEF EndOfTable

LEMMA MigrateStepKeeps ==
  ASSUME TableInv, NEW t \in Threads, MigrateStep(t)
  PROVE  TableInv'
<1>0. /\ Types /\ Search(t) /\ Placed(t) /\ Newest(t) /\ answer[t] = latest[t]
      /\ pc[t] = "migrate" /\ Len(tables) \in Nat /\ calls[t] \in Nat
      /\ latest \in [Threads -> Values]
  BY DEF TableInv, KeyInv, Types, MigrateStep
<1>1. PICK n \in 1..Len(tables) : n = CurrentMainHash[t]
  BY <1>0 DEF Types
<1>2. PICK old \in 1..Len(tables) : old = CurrentHash[t]
  BY <1>0 DEF Types
<1>3. old < n /\ Probing(t, n) /\ AbsentAbove(t, old) /\ ~Absent(t, old)
  BY <1>0, <1>1, <1>2 DEF Search
<1>4. Absent(t, n) /\ AbsentAbove(t, n)
  BY <1>3 DEF AbsentAbove
<1>5. PICK i \in Nat : Found(t, old, i)
  BY <1>0, <1>3 DEF Placed
<1>6. (CHOOSE j \in Stop(t, old) : TRUE) = i
  BY <1>0, <1>5, StopIsFound
<1>7. Stored(t, old, i) = latest[t]
  BY <1>0, <1>3, <1>5, NewestAt
<1>8. CASE KeyAt(t, n) = INVALID_KEY
  <2> DEFINE new == IF op[t] = "set" THEN calls[t] ELSE latest[t]
  <2>1. /\ Occupy(t, n, new) /\ Return(t, new)
        /\ latest' = IF op[t] = "set" THEN [latest EXCEPT ![t] = calls[t]] ELSE latest
        /\ UNCHANGED <<EntriesCount, HashResizeInProgressFlag, calls, threw>>
    BY <1>1, <1>2, <1>6, <1>7, <1>8 DEF MigrateStep, UseEntry, Stored
  <2>2. latest'[t] = new /\ latest' \in [Threads -> Values] /\ new \in Values
    BY <1>0, <2>1 DEF Values
  <2> HIDE DEF new
  <2>3. /\ tables' \in Seq(HashNodes) /\ Len(tables') = Len(tables)
        /\ \A u \in Threads \ {t} : Grows(u)
    BY <1>0, <1>3, <1>8, <2>1, <2>2, OccupySlot DEF Probing
  <2>4. Placed(t)' /\ Newest(t)'
    BY <1>3, <1>4, <1>8, <2>1, <2>2, SlotTaken
  <2>5. Types'
    BY <1>0, <2>1, <2>2, <2>3 DEF Types, Return, Goto, Probe0, PCs, Ops
  <2>6. Mine(t) /\ pc'[t] = "idle" /\ answer'[t] = new
    <3>1. \A u \in Threads \ {t} : latest'[u] = latest[u]
      BY <1>0, <2>1
    <3>2. QED
      BY <1>0, <2>1, <3>1 DEF Mine, Return, Goto, Probe0, Types
  <2>7. Search(t)'
    BY <2>6 DEF Search
  <2>8. QED
    BY <2>2, <2>3, <2>4, <2>5, <2>6, <2>7, OwnStep DEF TableInv
<1>9. CASE KeyAt(t, n) # INVALID_KEY
  <2>1. /\ Probes' = [Probes EXCEPT ![t] = (@ + 1) % Capacity(n)]
        /\ UNCHANGED <<tables, pc, op, CurrentMainHash, CurrentHash, NewCount, latest, answer>>
        /\ UNCHANGED <<EntriesCount, HashResizeInProgressFlag, calls, threw>>
    BY <1>1, <1>9 DEF MigrateStep
  <2>2. Probes[t] \in Nat /\ Capacity(n) \in Nat \ {0}
    BY <1>0, TableShape DEF Types
  <2>3. KeyAt(t, n) # t
    BY <1>3, <1>4, <2>2 DEF Absent, Probing, KeyAt, Probed
  <2>4. Probing(t, n)' /\ Probes' \in [Threads -> Nat]
    BY <1>0, <1>3, <1>9, <2>1, <2>3, NextSlot
  <2>5. Types'
    BY <1>0, <2>1, <2>4 DEF Types
  <2>6. Mine(t)
    BY <1>0, <2>1 DEF Mine, Types
  <2>7. \A m : AbsentAbove(t, m)' = AbsentAbove(t, m) /\ Absent(t, m)' = Absent(t, m)
    BY <2>1, SameView
  <2>8. Search(t)'
    BY <1>0, <1>1, <1>2, <1>3, <2>1, <2>4, <2>7 DEF Search
  <2>9. QED
    BY <2>1, <2>5, <2>6, <2>8, StillStep DEF TableInv
<1>10. QED
  BY <1>8, <1>9

\* A step on the way to adding a key that no table has.
LEMMA AddingStep ==
  ASSUME TableInv, NEW t \in Threads, Mine(t), UNCHANGED <<tables, latest, answer>>,
         pc[t] \notin {"idle", "probe", "migrate"},
         pc'[t] \notin {"idle", "probe", "migrate", "claim"}
  PROVE  KeyInv'
<1>1. AbsentAbove(t, 0)
  BY DEF TableInv, KeyInv, Search
<1>2. AbsentAbove(t, 0)'
  BY <1>1, SameView
<1>3. Search(t)'
  BY <1>2 DEF Search
<1>4. QED
  BY <1>3, StillStep

LEMMA CountKeeps ==
  ASSUME TableInv, NEW t \in Threads, Count(t)
  PROVE  TableInv'
<1>0. Types
  BY DEF TableInv
<1>1. Types'
  BY <1>0 DEF Types, Count, Goto, PCs, ghosts
<1>2. Mine(t) /\ UNCHANGED <<tables, latest, answer>> /\ pc[t] = "count" /\ pc'[t] = "resize"
  BY <1>0 DEF Types, Count, Goto, Mine, ghosts
<1>3. QED
  BY <1>1, <1>2, AddingStep DEF TableInv

LEMMA TryResizeKeeps ==
  ASSUME TableInv, NEW t \in Threads, TryResize(t)
  PROVE  TableInv'
<1>0. Types
  BY DEF TableInv
<1>1. Types'
  BY <1>0 DEF Types, TryResize, Goto, PCs, ghosts, locals
<1>2. /\ Mine(t) /\ UNCHANGED <<tables, latest, answer>>
      /\ pc[t] = "resize" /\ pc'[t] \in {"reload", "place"}
  BY <1>0 DEF Types, TryResize, Goto, Mine, ghosts, locals
<1>3. QED
  BY <1>1, <1>2, AddingStep DEF TableInv

LEMMA ReloadKeeps ==
  ASSUME TableInv, NEW t \in Threads, Reload(t)
  PROVE  TableInv'
<1>0. Types /\ MainHash \in 1..Len(tables)
  BY DEF TableInv, Types, MainHash
<1>1. Types'
  BY <1>0 DEF Types, Reload, Goto, PCs, ghosts, shared
<1>2. /\ Mine(t) /\ UNCHANGED <<tables, latest, answer>>
      /\ pc[t] = "reload" /\ pc'[t] \in {"create", "unflag"}
  BY <1>0 DEF Types, Reload, Goto, Mine, ghosts, shared
<1>3. QED
  BY <1>1, <1>2, AddingStep DEF TableInv

LEMMA UnflagKeeps ==
  ASSUME TableInv, NEW t \in Threads, Unflag(t)
  PROVE  TableInv'
<1>0. Types
  BY DEF TableInv
<1>1. Types'
  BY <1>0 DEF Types, Unflag, Goto, PCs, ghosts, locals
<1>2. /\ Mine(t) /\ UNCHANGED <<tables, latest, answer>>
      /\ pc[t] \in {"unflag", "clear"} /\ pc'[t] = "place"
  BY <1>0 DEF Types, Unflag, Goto, Mine, ghosts, locals
<1>3. QED
  BY <1>1, <1>2, AddingStep DEF TableInv

LEMMA InstallKeeps ==
  ASSUME TableInv, NEW t \in Threads, Install(t)
  PROVE  TableInv'
<1>0. Types /\ Search(t) /\ Len(tables) \in Nat
  BY DEF TableInv, KeyInv, Types
<1>1. PICK n \in 1..Len(tables) : n = CurrentMainHash[t]
  BY <1>0 DEF Types
<1>2. Capacity(n) \in Nat \ {0} /\ 2 * Capacity(n) \in Nat \ {0}
  BY <1>0, TableShape
<1>3. tables' = Append(tables, NewHashNode(2 * Capacity(n)))
  BY <1>1 DEF Install
<1>4. \A u \in Threads : /\ Grows(u) /\ tables' \in Seq(HashNodes)
                         /\ Len(tables') = Len(tables) + 1
  BY <1>0, <1>2, <1>3, AppendGrows
<1>5. Doubled(t) \in Nat
  BY <1>0 DEF Doubled, Types
<1>6. Types'
  BY SMTT(60), <1>0, <1>4, <1>5 DEF Types, Install, Goto, PCs, ghosts, MainHash
<1>7. Mine(t) /\ latest' = latest /\ answer' = answer /\ pc[t] = "create" /\ pc'[t] = "clear"
  BY <1>0 DEF Types, Install, Goto, Mine, ghosts
<1>8. AbsentAbove(t, 0)'
  BY <1>0, <1>4, <1>7, ViewKept DEF Search
<1>9. Search(t)'
  BY <1>7, <1>8 DEF Search
<1>10. QED
  BY <1>4, <1>6, <1>7, <1>9, QuietStep DEF TableInv

LEMMA CreateThrowsKeeps ==
  ASSUME TableInv, NEW t \in Threads, CreateThrows(t)
  PROVE  TableInv'
<1>0. Types
  BY DEF TableInv
<1>1. Types'
  BY <1>0 DEF Types, CreateThrows, Return, Goto, Probe0, PCs, Ops, shared
<1>2. Mine(t) /\ UNCHANGED <<tables, latest, answer>> /\ pc'[t] = "idle"
  BY <1>0 DEF Types, CreateThrows, Return, Goto, Probe0, Mine, shared
<1>3. Search(t)'
  BY <1>2 DEF Search
<1>4. QED
  BY <1>1, <1>2, <1>3, StillStep DEF TableInv

LEMMA TestRoomKeeps ==
  ASSUME TableInv, NEW t \in Threads, TestRoom(t)
  PROVE  TableInv'
<1>0. Types /\ Search(t) /\ MainHash \in 1..Len(tables) /\ pc[t] = "place"
  BY DEF TableInv, KeyInv, Types, MainHash, TestRoom
<1>a. /\ UNCHANGED <<shared, op, calls, CurrentHash, NewCount, ghosts>>
      /\ \/ Probe0(t) /\ Goto(t, "claim") /\ UNCHANGED CurrentMainHash
         \/ /\ CurrentMainHash' = [CurrentMainHash EXCEPT ![t] = MainHash]
            /\ Goto(t, "resize") /\ UNCHANGED Probes
  BY Zenon DEF TestRoom
<1>1. Types'
  <2>1. pc' \in [Threads -> PCs] /\ Probes' \in [Threads -> Nat]
    <3>1. pc \in [Threads -> PCs] /\ Probes \in [Threads -> Nat]
      BY <1>0 DEF Types
    <3>2. CASE Probe0(t) /\ Goto(t, "claim")
      BY <3>1, <3>2 DEF Goto, Probe0, PCs
    <3>3. CASE Goto(t, "resize") /\ UNCHANGED Probes
      BY <3>1, <3>3 DEF Goto, PCs
    <3>4. QED
      BY <1>a, <3>2, <3>3
  <2>2. CurrentMainHash' \in [Threads -> 1..Len(tables')]
    BY <1>0, <1>a DEF Types, shared
  <2>3. QED
    BY <1>0, <1>a, <2>1, <2>2 DEF Types, ghosts, shared
<1>2. Mine(t) /\ UNCHANGED <<tables, latest, answer>>
  BY <1>0, <1>a DEF Types, Goto, Probe0, Mine, ghosts, shared
<1>3. CASE pc'[t] = "claim"
  <2>1. PICK n \in 1..Len(tables) : n = CurrentMainHash[t]
    BY <1>0 DEF Types
  <2>2. CurrentMainHash'[t] = n /\ Probes'[t] = 0
    BY <1>0, <1>a, <1>3, <2>1 DEF Types, Goto, Probe0
  <2>3. Capacity(n) \in Nat \ {0}
    BY <1>0, TableShape
  <2>4. Probing(t, n)' /\ AbsentAbove(t, 0)'
    <3>1. AbsentAbove(t, 0) /\ AbsentAbove(t, 0)' = AbsentAbove(t, 0)
      BY <1>0, <1>2, SameView DEF Search
    <3>2. Capacity(n)' = Capacity(n)
      BY <1>2, SameView
    <3>3. QED
      BY <2>2, <2>3, <3>1, <3>2 DEF Probing, Passed
  <2>5. Search(t)'
    BY <1>3, <2>2, <2>4 DEF Search
  <2>6. QED
    BY <1>1, <1>2, <2>5, StillStep DEF TableInv
<1>4. CASE pc'[t] = "resize"
  BY <1>0, <1>1, <1>2, <1>4, AddingStep DEF TableInv
<1>5. QED
  BY <1>0, <1>a, <1>3, <1>4 DEF Goto, Types

LEMMA ClaimSlotKeeps ==
  ASSUME TableInv, NEW t \in Threads, ClaimSlot(t)
  PROVE  TableInv'
<1>0. /\ Types /\ Search(t) /\ pc[t] = "claim" /\ Len(tables) \in Nat
      /\ calls[t] \in Values /\ latest \in [Threads -> Values]
  BY DEF TableInv, KeyInv, Types, ClaimSlot, Values
<1>1. PICK n \in 1..Len(tables) : n = CurrentMainHash[t]
  BY <1>0 DEF Types
<1>2. Probing(t, n) /\ AbsentAbove(t, 0)
  BY <1>0, <1>1 DEF Search
<1>3. Absent(t, n) /\ AbsentAbove(t, n)
  BY <1>2 DEF AbsentAbove
<1>4. CASE KeyAt(t, n) = INVALID_KEY
  <2>1. /\ Occupy(t, n, calls[t]) /\ Return(t, calls[t])
        /\ latest' = [latest EXCEPT ![t] = calls[t]]
        /\ UNCHANGED <<EntriesCount, HashResizeInProgressFlag, calls, threw>>
    BY <1>1, <1>4 DEF ClaimSlot
  <2>2. /\ tables' \in Seq(HashNodes) /\ Len(tables') = Len(tables)
        /\ \A u \in Threads \ {t} : Grows(u)
    BY <1>0, <1>2, <1>4, <2>1, OccupySlot DEF Probing
  <2>3. latest'[t] = calls[t] /\ latest' \in [Threads -> Values]
    BY <1>0, <2>1
  <2>4. Placed(t)' /\ Newest(t)'
    BY <1>0, <1>2, <1>3, <1>4, <2>1, <2>3, SlotTaken
  <2>5. Types'
    BY <1>0, <2>1, <2>2, <2>3 DEF Types, Return, Goto, Probe0, PCs, Ops
  <2>6. Mine(t) /\ pc'[t] = "idle" /\ answer'[t] = latest'[t]
    BY <1>0, <2>1, <2>3 DEF Mine, Return, Goto, Probe0, Types
  <2>7. Search(t)'
    BY <2>6 DEF Search
  <2>8. QED
    BY <2>2, <2>4, <2>5, <2>6, <2>7, OwnStep DEF TableInv
<1>5. CASE KeyAt(t, n) # INVALID_KEY
  <2>1. /\ Probes' = [Probes EXCEPT ![t] = (@ + 1) % Capacity(n)]
        /\ UNCHANGED <<tables, pc, op, CurrentMainHash, CurrentHash, NewCount, latest, answer>>
        /\ UNCHANGED <<EntriesCount, HashResizeInProgressFlag, calls, threw>>
    BY <1>1, <1>5 DEF ClaimSlot
  <2>2. Probes[t] \in Nat /\ Capacity(n) \in Nat \ {0}
    BY <1>0, TableShape DEF Types
  <2>3. KeyAt(t, n) # t
    BY <1>2, <1>3, <2>2 DEF Absent, Probing, KeyAt, Probed
  <2>4. Probing(t, n)' /\ Probes' \in [Threads -> Nat]
    BY <1>0, <1>2, <1>5, <2>1, <2>3, NextSlot
  <2>5. Types'
    BY <1>0, <2>1, <2>4 DEF Types
  <2>6. Mine(t)
    BY <1>0, <2>1 DEF Mine, Types
  <2>7. AbsentAbove(t, 0)'
    BY <1>2, <2>1, SameView
  <2>8. Search(t)'
    BY <1>0, <1>1, <2>1, <2>4, <2>7 DEF Search
  <2>9. QED
    BY <2>1, <2>5, <2>6, <2>8, StillStep DEF TableInv
<1>6. QED
  BY <1>4, <1>5

-----------------------------------------------------------------------------
(* Every reachable state. *)

LEMMA InitKeeps == InitTable => TableInv
<1> SUFFICES ASSUME InitTable PROVE TableInv
  OBVIOUS
<1>0. INITIAL_HASH_SIZE \in Nat \ {0} /\ INVALID_KEY \notin Threads
  BY HashTableAssumption
<1>1. tables = <<NewHashNode(INITIAL_HASH_SIZE)>> /\ Len(tables) = 1
  BY DEF InitTable
<1>2. Types
  <2>1. tables \in Seq(HashNodes)
    BY <1>0, <1>1, NewTable
  <2>2. latest \in [Threads -> Values] /\ answer \in [Threads -> Values]
    BY DEF InitTable, Values
  <2>3. pc \in [Threads -> PCs] /\ op \in [Threads -> Ops]
    BY DEF InitTable, PCs, Ops
  <2>4. /\ CurrentMainHash \in [Threads -> 1..Len(tables)]
        /\ CurrentHash \in [Threads -> 1..Len(tables)]
    BY <1>1 DEF InitTable
  <2>5. /\ EntriesCount \in Nat /\ HashResizeInProgressFlag \in BOOLEAN /\ threw \in BOOLEAN
        /\ calls \in [Threads -> Nat] /\ Probes \in [Threads -> Nat]
        /\ NewCount \in [Threads -> Nat]
    BY DEF InitTable
  <2>6. \A t \in Threads : calls[t] <= MaxCalls[t]
    BY HashTableAssumption DEF InitTable
  <2>7. QED
    BY <1>1, <2>1, <2>2, <2>3, <2>4, <2>5, <2>6 DEF Types
<1>3. ASSUME NEW t \in Threads PROVE Placed(t) /\ Newest(t) /\ Search(t) /\ answer[t] = latest[t]
  <2>1. Capacity(1) = INITIAL_HASH_SIZE
    <3>1. Capacity(1) = Cardinality(0..(INITIAL_HASH_SIZE - 1))
      BY <1>0, <1>1, NewTable DEF Capacity
    <3>2. QED
      BY <1>0, <3>1, FS_Interval
  <2>2. ASSUME NEW i \in 0..(INITIAL_HASH_SIZE - 1) PROVE Probed(t, 1, i) # t
    <3>1. i \in Nat /\ Slot(t, i, INITIAL_HASH_SIZE) \in 0..(INITIAL_HASH_SIZE - 1)
      BY <1>0, i \in Nat, SlotInRange
    <3>2. NewHashNode(INITIAL_HASH_SIZE).First[Slot(t, i, INITIAL_HASH_SIZE)] = INVALID_KEY
      BY <3>1 DEF NewHashNode
    <3>3. QED
      BY <1>0, <1>1, <2>1, <3>2 DEF Probed
  <2>3. Absent(t, 1)
    BY <2>1, <2>2 DEF Absent
  <2>4. AbsentAbove(t, 0) /\ Placed(t)
    BY <1>1, <2>3 DEF AbsentAbove, Placed
  <2>5. QED
    BY <2>4 DEF InitTable, Newest, Search
<1>4. QED
  BY <1>2, <1>3 DEF TableInv, KeyInv

LEMMA StepKeeps == TableInv /\ [Next]_htVars => TableInv'
<1> SUFFICES ASSUME TableInv, [Next]_htVars PROVE TableInv'
  OBVIOUS
<1>1. ASSUME NEW t \in Threads, InnerGetEntry(t) PROVE TableInv'
  BY <1>1, FindInMainKeeps, FindInOlderKeeps, PassSlotKeeps, EndOfTableKeeps,
     MigrateStepKeeps DEF InnerGetEntry
<1>2. ASSUME NEW t \in Threads, InnerAdd(t) PROVE TableInv'
  BY <1>2, CountKeeps, TryResizeKeeps, ReloadKeeps, UnflagKeeps, InstallKeeps,
     CreateThrowsKeeps, TestRoomKeeps, ClaimSlotKeeps DEF InnerAdd
<1>3. CASE UNCHANGED htVars
  <2>1. Types'
    BY <1>3 DEF TableInv, Types, htVars, shared, locals, ghosts
  <2>2. ASSUME NEW t \in Threads
        PROVE  Placed(t)' /\ Newest(t)' /\ Search(t)' /\ answer'[t] = latest'[t]
    <3>1. Types /\ Placed(t) /\ Newest(t) /\ Search(t) /\ answer[t] = latest[t] /\ Grows(t)
      BY <1>3, SameTables DEF TableInv, KeyInv, htVars, shared
    <3>2. QED
      BY <1>3, <3>1, OthersKept DEF htVars, shared, locals, ghosts
  <2>3. QED
    BY <2>1, <2>2 DEF TableInv, KeyInv
<1>4. ASSUME NEW t \in Threads, NEW o \in Ops, Call(t, o) PROVE TableInv'
  BY <1>4, CallKeeps
<1>5. QED
  BY <1>1, <1>2, <1>3, <1>4 DEF Next, Step, Finished

\* The tables keep every key where it is found, and the newest table that has a
\* thread's key has its value (InnerGetEntry, InnerAdd).
THEOREM TablesCorrect == Spec => []TableInv
<1>1. QED
  BY InitKeeps, StepKeeps, PTL DEF Spec

\* Every table has the keys and the shape the code gives it, and every local of a call
\* a table that is there.
THEOREM TypeCorrect == Spec => []TypeOK
<1>1. ASSUME TableInv PROVE TypeOK
  <2>1. Types
    BY <1>1 DEF TableInv
  <2>2. ASSUME NEW n \in 1..Len(tables)
        PROVE  tables[n].First \in [DOMAIN tables[n].First -> Threads \cup {INVALID_KEY}]
    BY <2>1, TableShape DEF HashNode, Keys
  <2>3. \A t \in Threads : calls[t] \in 0..MaxCalls[t]
    BY <2>1, HashTableAssumption DEF Types
  <2>4. QED
    BY <2>1, <2>2, <2>3 DEF Types, TypeOK
<1>2. QED
  BY <1>1, TablesCorrect, PTL

\* A thread outside a call finds what it added or set last, whatever the others
\* added and however often the table grew, and its last call answered with it.
THEOREM KeysFound == Spec => []KeyFound
<1>1. TableInv => KeyFound
  BY LookupRight DEF TableInv, KeyInv, KeyFound
<1>2. QED
  BY <1>1, TablesCorrect, PTL

-----------------------------------------------------------------------------
(* One thread at a time makes a table. *)

Growing(t) == pc[t] \in {"reload", "unflag", "create", "clear"}

\* The flag is set while a thread is growing the table, and nobody else begins to;
\* so the table that thread found half full stays the newest.
GrowthInv ==
  /\ \A t, u \in Threads : Growing(t) /\ Growing(u) => t = u
  /\ \A t \in Threads : Growing(t) => HashResizeInProgressFlag
  /\ HashResizeInProgressFlag => (\E t \in Threads : Growing(t)) \/ threw
  /\ \A t \in Threads : pc[t] = "create" => CurrentMainHash[t] = MainHash /\ HalfFull(t, MainHash)

\* Storing an entry leaves the shape of the tables.
LEMMA OccupyShape ==
  ASSUME Types, NEW t \in Threads, NEW n \in 1..Len(tables), NEW value, Occupy(t, n, value)
  PROVE  Len(tables') = Len(tables) /\ \A m \in 1..Len(tables) : Capacity(m)' = Capacity(m)
<1> DEFINE i == Slot(t, Probes[t], Capacity(n))
           new == [First |-> [tables[n].First EXCEPT ![i] = t],
                   Second |-> [tables[n].Second EXCEPT ![i] = value]]
<1>1. tables' = [tables EXCEPT ![n] = new]
  BY DEF Occupy
<1>2. DOMAIN new.First = DOMAIN tables[n].First
  OBVIOUS
<1> HIDE DEF new
<1>3. /\ Len(tables') = Len(tables) /\ tables'[n] = new
      /\ \A m \in 1..Len(tables) : m # n => tables'[m] = tables[m]
  BY <1>1 DEF Types
<1>4. QED
  BY <1>2, <1>3 DEF Capacity

\* What a step of t leaves to the other threads of their part in growing the table.
Apart(t) ==
  \A u \in Threads \ {t} :
    pc'[u] = pc[u] /\ CurrentMainHash'[u] = CurrentMainHash[u] /\ NewCount'[u] = NewCount[u]

SameShape ==
  /\ Len(tables') = Len(tables)
  /\ \A m \in 1..Len(tables) : Capacity(m)' = Capacity(m)

\* A thread that takes no part in growing the table does not disturb who does.
LEMMA BesideGrowth ==
  ASSUME Types, GrowthInv, NEW t \in Threads, Apart(t), SameShape,
         ~Growing(t), ~Growing(t)', UNCHANGED HashResizeInProgressFlag, threw' = threw
  PROVE  GrowthInv'
<1>0. MainHash \in 1..Len(tables) /\ MainHash' = MainHash
  BY DEF Types, MainHash, SameShape
<1>1. \A u \in Threads : Growing(u)' = Growing(u) /\ (Growing(u) => u # t)
  BY DEF Apart, Growing
<1>2. ASSUME NEW u \in Threads, pc'[u] = "create"
      PROVE  CurrentMainHash'[u] = MainHash' /\ HalfFull(u, MainHash)'
  <2>1. u # t /\ pc[u] = "create"
    BY <1>2 DEF Growing, Apart
  <2>2. CurrentMainHash[u] = MainHash /\ HalfFull(u, MainHash)
    BY <2>1 DEF GrowthInv
  <2>3. CurrentMainHash'[u] = CurrentMainHash[u] /\ NewCount'[u] = NewCount[u]
    BY <2>1 DEF Apart
  <2>4. Capacity(MainHash)' = Capacity(MainHash)
    BY <1>0 DEF SameShape
  <2>5. QED
    BY <1>0, <2>2, <2>3, <2>4 DEF HalfFull
<1>3. QED
  BY <1>1, <1>2 DEF GrowthInv

\* The steps that grow the table or set the flag.
LEMMA GrowingSteps ==
  ASSUME Types, GrowthInv, NEW t \in Threads,
         TryResize(t) \/ Reload(t) \/ Unflag(t) \/ Install(t) \/ CreateThrows(t)
  PROVE  GrowthInv'
<1>0. pc \in [Threads -> PCs] /\ CurrentMainHash \in [Threads -> 1..Len(tables)]
      /\ NewCount \in [Threads -> Nat] /\ MainHash \in 1..Len(tables)
  BY DEF Types, MainHash
<1>1. CASE TryResize(t)
  <2>1. Apart(t) /\ SameShape /\ threw' = threw
    BY <1>0, <1>1 DEF TryResize, Apart, SameShape, Goto, locals, ghosts, Capacity
  <2>2. CASE UNCHANGED HashResizeInProgressFlag /\ Goto(t, "place")
    <3>1. ~Growing(t) /\ ~Growing(t)'
      BY <1>0, <1>1, <2>2 DEF TryResize, Growing, Goto
    <3>2. QED
      BY <2>1, <2>2, <3>1, BesideGrowth
  <2>3. CASE ~HashResizeInProgressFlag /\ HashResizeInProgressFlag' = TRUE /\ Goto(t, "reload")
    <3>1. \A u \in Threads : ~Growing(u) /\ (Growing(u)' <=> u = t)
      BY <1>0, <2>3 DEF GrowthInv, Growing, Goto
    <3>2. \A u \in Threads : pc'[u] # "create"
      BY <1>0, <2>3, <3>1 DEF Growing, Goto
    <3>3. QED
      BY <2>3, <3>1, <3>2 DEF GrowthInv
  <2>4. QED
    BY <1>1, <2>2, <2>3 DEF TryResize
<1>2. CASE Reload(t)
  <2>1. \A u \in Threads : Growing(u)' = Growing(u) /\ (Growing(u) => u = t)
    BY <1>0, <1>2 DEF Reload, GrowthInv, Growing, Goto
  <2>2. UNCHANGED <<HashResizeInProgressFlag, threw>> /\ MainHash' = MainHash
    BY <1>2 DEF Reload, shared, ghosts, MainHash
  <2>3. ASSUME NEW u \in Threads, pc'[u] = "create"
        PROVE  CurrentMainHash'[u] = MainHash' /\ HalfFull(u, MainHash)'
    <3>1. u = t
      BY <2>1, <2>3 DEF Growing
    <3>2. HalfFull(t, MainHash) /\ CurrentMainHash'[t] = MainHash
      BY <1>0, <1>2, <2>3, <3>1 DEF Reload, Goto
    <3>3. HalfFull(t, MainHash)'
      BY <1>2, <3>2 DEF Reload, HalfFull, Capacity, MainHash, shared
    <3>4. QED
      BY <2>2, <3>1, <3>2, <3>3
  <2>4. QED
    BY <2>1, <2>2, <2>3 DEF GrowthInv
<1>3. CASE Unflag(t)
  <2>1. \A u \in Threads : ~Growing(u)' /\ pc'[u] # "create"
    BY <1>0, <1>3 DEF Unflag, GrowthInv, Growing, Goto
  <2>2. QED
    BY <1>3, <2>1 DEF GrowthInv, Unflag
<1>4. CASE Install(t)
  <2>1. \A u \in Threads : Growing(u)' = Growing(u) /\ (Growing(u) => u = t)
    BY <1>0, <1>4 DEF Install, GrowthInv, Growing, Goto
  <2>2. \A u \in Threads : pc'[u] # "create"
    BY <1>0, <1>4, <2>1 DEF Install, Growing, Goto
  <2>3. QED
    BY <1>4, <2>1, <2>2 DEF GrowthInv, Install, ghosts
<1>5. CASE CreateThrows(t)
  <2>1. \A u \in Threads : ~Growing(u)' /\ pc'[u] # "create"
    BY <1>0, <1>5 DEF CreateThrows, Return, GrowthInv, Growing, Goto
  <2>2. QED
    BY <1>5, <2>1 DEF GrowthInv, CreateThrows
<1>6. QED
  BY <1>1, <1>2, <1>3, <1>4, <1>5

\* The steps of a search, and those that place an entry, leave the growth alone.
LEMMA OtherSteps ==
  ASSUME Types, GrowthInv, NEW t \in Threads,
         (\E o \in Ops : Call(t, o)) \/ InnerGetEntry(t) \/ Count(t) \/ TestRoom(t) \/ ClaimSlot(t)
  PROVE  GrowthInv'
<1>0. pc \in [Threads -> PCs] /\ CurrentMainHash \in [Threads -> 1..Len(tables)]
      /\ NewCount \in [Threads -> Nat] /\ CurrentMainHash[t] \in 1..Len(tables)
  BY DEF Types
<1>1. UNCHANGED tables => SameShape
  BY DEF SameShape, Capacity
<1>2. ASSUME NEW value, Occupy(t, CurrentMainHash[t], value) PROVE SameShape
  BY <1>0, <1>2, OccupyShape DEF SameShape
<1>3. CASE \E o \in Ops : Call(t, o)
  <2>1. Apart(t) /\ SameShape /\ ~Growing(t) /\ ~Growing(t)'
        /\ UNCHANGED HashResizeInProgressFlag /\ threw' = threw
    BY <1>0, <1>1, <1>3 DEF Call, Apart, Growing, Goto, shared, ghosts
  <2>2. QED
    BY <2>1, BesideGrowth
<1>4. CASE FindInMain(t)
  <2>1. PICK value : Occupy(t, CurrentMainHash[t], value) /\ Return(t, value)
    BY <1>4 DEF FindInMain, UseEntry
  <2>2. Apart(t) /\ SameShape /\ ~Growing(t) /\ ~Growing(t)'
        /\ UNCHANGED HashResizeInProgressFlag /\ threw' = threw
    BY <1>0, <1>2, <1>4, <2>1 DEF FindInMain, Return, Apart, Growing, Goto
  <2>3. QED
    BY <2>2, BesideGrowth
<1>5. CASE FindInOlder(t) \/ PassSlot(t)
  <2>1. Apart(t) /\ SameShape /\ ~Growing(t) /\ ~Growing(t)'
        /\ UNCHANGED HashResizeInProgressFlag /\ threw' = threw
    BY <1>0, <1>1, <1>5 DEF FindInOlder, PassSlot, Apart, Growing, Goto, shared, ghosts
  <2>2. QED
    BY <2>1, BesideGrowth
<1>6. CASE EndOfTable(t)
  <2>1. Apart(t) /\ SameShape /\ ~Growing(t) /\ ~Growing(t)'
        /\ UNCHANGED HashResizeInProgressFlag /\ threw' = threw
    BY <1>0, <1>1, <1>6 DEF EndOfTable, Return, Apart, Growing, Goto, shared, locals, ghosts
  <2>2. QED
    BY <2>1, BesideGrowth
<1>7. CASE MigrateStep(t)
  <2>1. pc[t] = "migrate" /\ UNCHANGED HashResizeInProgressFlag /\ threw' = threw
    BY <1>7 DEF MigrateStep
  <2>2. CASE UNCHANGED <<tables, pc, CurrentMainHash, NewCount>>
    <3>1. Apart(t) /\ SameShape /\ ~Growing(t) /\ ~Growing(t)'
      BY <1>1, <2>1, <2>2 DEF Apart, Growing
    <3>2. QED
      BY <2>1, <3>1, BesideGrowth
  <2>3. CASE \E value : Occupy(t, CurrentMainHash[t], value) /\ Return(t, value)
    <3>1. Apart(t) /\ SameShape /\ ~Growing(t) /\ ~Growing(t)'
      BY <1>0, <1>2, <2>1, <2>3 DEF Return, Apart, Growing, Goto
    <3>2. QED
      BY <2>1, <3>1, BesideGrowth
  <2>4. QED
    BY <1>7, <2>2, <2>3 DEF MigrateStep, UseEntry
<1>8. CASE Count(t)
  <2>1. Apart(t) /\ SameShape /\ ~Growing(t) /\ ~Growing(t)'
        /\ UNCHANGED HashResizeInProgressFlag /\ threw' = threw
    BY <1>0, <1>1, <1>8 DEF Count, Apart, Growing, Goto, ghosts
  <2>2. QED
    BY <2>1, BesideGrowth
<1>9. CASE TestRoom(t)
  <2>0. /\ pc[t] = "place" /\ UNCHANGED <<shared, NewCount, ghosts>>
        /\ \/ Goto(t, "claim") /\ UNCHANGED CurrentMainHash
           \/ /\ CurrentMainHash' = [CurrentMainHash EXCEPT ![t] = MainHash]
              /\ Goto(t, "resize")
    BY <1>9, Zenon DEF TestRoom
  <2>1. Apart(t) /\ SameShape /\ ~Growing(t) /\ ~Growing(t)'
        /\ UNCHANGED HashResizeInProgressFlag /\ threw' = threw
    BY <1>0, <1>1, <2>0 DEF Apart, Growing, Goto, shared, ghosts
  <2>2. QED
    BY <2>1, BesideGrowth
<1>10. CASE ClaimSlot(t)
  <2>1. pc[t] = "claim" /\ UNCHANGED HashResizeInProgressFlag /\ threw' = threw
    BY <1>10 DEF ClaimSlot
  <2>2. CASE UNCHANGED <<tables, pc, CurrentMainHash, NewCount>>
    <3>1. Apart(t) /\ SameShape /\ ~Growing(t) /\ ~Growing(t)'
      BY <1>1, <2>1, <2>2 DEF Apart, Growing
    <3>2. QED
      BY <2>1, <3>1, BesideGrowth
  <2>3. CASE Occupy(t, CurrentMainHash[t], calls[t]) /\ Return(t, calls[t])
    <3>1. Apart(t) /\ SameShape /\ ~Growing(t) /\ ~Growing(t)'
      BY <1>0, <1>2, <2>1, <2>3 DEF Return, Apart, Growing, Goto
    <3>2. QED
      BY <2>1, <3>1, BesideGrowth
  <2>4. QED
    BY <1>10, <2>2, <2>3 DEF ClaimSlot
<1>11. QED
  BY <1>3, <1>4, <1>5, <1>6, <1>7, <1>8, <1>9, <1>10 DEF InnerGetEntry

LEMMA GrowthKept == TableInv /\ GrowthInv /\ [Next]_htVars => GrowthInv'
<1> SUFFICES ASSUME TableInv, GrowthInv, [Next]_htVars PROVE GrowthInv'
  OBVIOUS
<1>0. Types
  BY DEF TableInv
<1>1. CASE UNCHANGED htVars
  BY <1>1 DEF GrowthInv, Growing, HalfFull, Capacity, MainHash, htVars, shared, locals, ghosts
<1>2. ASSUME NEW t \in Threads, Step(t) \/ \E o \in Ops : Call(t, o) PROVE GrowthInv'
  BY <1>0, <1>2, GrowingSteps, OtherSteps DEF Step, InnerAdd
<1>3. QED
  BY <1>1, <1>2 DEF Next, Finished

LEMMA GrowthInit == InitTable => GrowthInv
BY DEF InitTable, GrowthInv, Growing

\* One thread at a time makes a table (InnerAdd), in front of the newest one, which it
\* has found half full under the flag; only a call that threw leaves the flag behind.
THEOREM GrowthIsExclusive == Spec => []GrowthExclusive
<1>1. GrowthInv => GrowthExclusive
  <2> DEFINE growing == {t \in Threads : Growing(t)}
  <2> SUFFICES ASSUME GrowthInv PROVE GrowthExclusive
    OBVIOUS
  <2>1. Cardinality(growing) <= 1
    <3>1. CASE growing = {}
      BY <3>1, FS_EmptySet
    <3>2. CASE growing # {}
      <4>1. PICK t \in growing : TRUE
        BY <3>2
      <4>2. \A u \in growing : u = t
        BY <4>1 DEF GrowthInv
      <4> HIDE DEF growing
      <4>3. growing = {t}
        BY <4>1, <4>2
      <4>4. Cardinality({t}) = 1
        BY FS_Singleton
      <4>5. QED
        BY <4>3, <4>4
    <3> HIDE DEF growing
    <3>3. QED
      BY <3>1, <3>2
  <2>2. QED
    BY <2>1 DEF GrowthInv, GrowthExclusive, Growing
<1>2. QED
  BY <1>1, GrowthInit, GrowthKept, TablesCorrect, PTL DEF Spec

-----------------------------------------------------------------------------
(* Every table keeps a free slot. *)

\* An entry is placed where fewer than so many were counted before it.
Room(cap) == cap \div 2 + cap \div 4

\* From three slots on, a table has that room and a slot more for each table.
SizesInv ==
  /\ \A n \in 1..Len(tables) :
       /\ Capacity(n) >= 3 /\ (Capacity(n) >= 4 \/ n = 1)
       /\ Room(Capacity(n)) + n <= Capacity(n)
  /\ \A m, n \in 1..Len(tables) : m <= n => Capacity(m) <= Capacity(n)

\* A key is in one slot of a table.
Unique ==
  \A n \in 1..Len(tables), i, j \in Nat :
    /\ i < Capacity(n) /\ j < Capacity(n)
    /\ tables[n].First[i] = tables[n].First[j] /\ tables[n].First[i] # INVALID_KEY
    => i = j

\* A thread that has been counted, and has not placed its key yet, or has.
Adding(t) == pc[t] \in {"resize", "reload", "unflag", "create", "clear", "place", "claim"}
Numbered(t) == Adding(t) \/ ~AbsentAbove(t, 0)

\* The count of each thread that was counted, its own, and what it says of the tables
\* that have its key.  A thread that installed a table and lost its count in the loop
\* has a number below zero, another for each table.
Counts(c) ==
  /\ \A t \in Threads : Numbered(t) => 1 - Len(tables) <= c[t] /\ c[t] < EntriesCount
  /\ \A t, u \in Threads : Numbered(t) /\ Numbered(u) /\ c[t] = c[u] => t = u
  /\ \A t \in Threads : Adding(t) =>
       \/ c[t] = NewCount[t]
       \/ pc[t] \in {"clear", "place", "claim"} /\ NewCount[t] = 0 /\ c[t] = 1 - CurrentMainHash[t]
  /\ \A t \in Threads : pc[t] = "claim" => NewCount[t] < Room(Capacity(CurrentMainHash[t]))
  /\ \A t \in Threads, n \in 1..Len(tables) :
       ~Absent(t, n) => 1 - n <= c[t] /\ c[t] < Room(Capacity(n))

RoomInv == SizesInv /\ Unique /\ \E c \in [Threads -> Int] : Counts(c)

-----------------------------------------------------------------------------
\* Quotient and remainder are unique.
LEMMA ModUnique ==
  ASSUME NEW S \in Nat \ {0}, NEW x \in Int, NEW q \in Int, NEW r \in 0..(S - 1), x = q * S + r
  PROVE  x % S = r
<1>1. x = (x \div S) * S + (x % S) /\ x \div S \in Int /\ x % S \in 0..(S-1)
  OBVIOUS
<1> DEFINE p == x \div S  t == x % S
<1>2. p \in Int /\ t \in 0..(S-1) /\ q * S + r = p * S + t
  BY <1>1
<1> HIDE DEF p, t
<1>3. (q - p) * S = t - r
  BY <1>2
<1>4. q - p = 0
  <2>1. CASE q - p >= 1
    <3>1. (q - p) * S >= S
      BY <1>2, <2>1
    <3>2. QED
      BY <1>2, <1>3, <3>1
  <2>2. CASE q - p <= -1
    <3>1. (q - p) * S <= -S
      BY <1>2, <2>2
    <3>2. QED
      BY <1>2, <1>3, <3>1
  <2>3. QED
    BY <1>2, <2>1, <2>2
<1>5. QED
  BY <1>2, <1>3, <1>4 DEF t

\* A probe sequence comes to every slot.
LEMMA SlotIsProbed ==
  ASSUME NEW t \in Threads, NEW cap \in Nat \ {0}, NEW s \in 0..(cap - 1)
  PROVE  \E i \in 0..(cap - 1) : Slot(t, i, cap) = s
<1>1. PICK h \in Nat : h = Hash[t]
  BY HashTableAssumption
<1>2. PICK q \in Int, r \in 0..(cap - 1) : h = q * cap + r
  <2>1. h = (h \div cap) * cap + (h % cap) /\ h \div cap \in Int /\ h % cap \in 0..(cap - 1)
    OBVIOUS
  <2>2. QED
    BY <2>1
<1>3. PICK u \in Int : u = q * cap /\ (q + 1) * cap = u + cap /\ h = u + r
  BY <1>2
<1>4. CASE s >= r
  <2>1. s - r \in 0..(cap - 1) /\ h + (s - r) = q * cap + s /\ h + (s - r) \in Int
    BY <1>3, <1>4
  <2>2. (h + (s - r)) % cap = s
    BY <2>1, ModUnique
  <2>3. QED
    BY <1>1, <2>1, <2>2 DEF Slot
<1>5. CASE s < r
  <2>1. s - r + cap \in 0..(cap - 1) /\ h + (s - r + cap) = (q + 1) * cap + s
        /\ h + (s - r + cap) \in Int /\ q + 1 \in Int
    BY <1>3, <1>5
  <2>2. (h + (s - r + cap)) % cap = s
    BY <2>1, ModUnique
  <2>3. QED
    BY <1>1, <2>1, <2>2 DEF Slot
<1>6. QED
  BY <1>4, <1>5

\* A key in a slot is one that a probe comes to.
LEMMA KeyIsProbed ==
  ASSUME Types, NEW t \in Threads, NEW n \in 1..Len(tables), NEW s \in Nat, s < Capacity(n),
         tables[n].First[s] = t
  PROVE  ~Absent(t, n)
<1>1. Capacity(n) \in Nat \ {0}
  BY TableShape
<1>2. PICK i \in 0..(Capacity(n) - 1) : Slot(t, i, Capacity(n)) = s
  BY <1>1, SlotIsProbed
<1>3. QED
  BY <1>2 DEF Absent, Probed

\* Room is more for a bigger table.
LEMMA RoomGrows ==
  ASSUME NEW a \in Nat, NEW b \in Nat, a <= b
  PROVE  Room(a) \in Nat /\ Room(b) \in Nat /\ Room(a) <= Room(b)
BY DEF Room

\* A table twice as big as the last has a slot more to spare.
LEMMA DoubleHasRoom ==
  ASSUME NEW a \in Nat, NEW n \in Nat, n >= 1, a >= 3, a >= 4 \/ n = 1, Room(a) + n <= a
  PROVE  2 * a >= 4 /\ Room(2 * a) + (n + 1) <= 2 * a
BY DEF Room

\* So no table fills up.
LEMMA RoomLeft ==
  ASSUME Types, RoomInv, NEW n \in 1..Len(tables)
  PROVE  \E i \in DOMAIN tables[n].First : tables[n].First[i] = INVALID_KEY
<1> SUFFICES ASSUME \A i \in DOMAIN tables[n].First : tables[n].First[i] # INVALID_KEY
             PROVE  FALSE
  OBVIOUS
<1>1. PICK cap \in Nat \ {0} : cap = Capacity(n) /\ tables[n] \in HashNode(cap)
  BY TableShape
<1>2. PICK c \in [Threads -> Int] : Counts(c)
  BY DEF RoomInv
<1>3. PICK room \in Nat : room = Room(cap) /\ room + n <= cap
  BY <1>1 DEF RoomInv, SizesInv, Room
<1> DEFINE D == 0..(cap - 1)
           Q == (1 - n)..(room - 1)
           f == [i \in D |-> c[tables[n].First[i]]]
<1>4. ASSUME NEW i \in D
      PROVE  tables[n].First[i] \in Threads /\ f[i] \in Q
  <2>1. PICK t \in Threads : t = tables[n].First[i]
    BY <1>1 DEF HashNode, Keys
  <2>2. ~Absent(t, n)
    BY <1>1, <2>1, KeyIsProbed
  <2>3. 1 - n <= c[t] /\ c[t] < room /\ c[t] \in Int
    BY <1>1, <1>2, <1>3, <2>2 DEF Counts
  <2>4. QED
    BY <2>1, <2>3
<1>5. ASSUME NEW i \in D, NEW j \in D, f[i] = f[j]
      PROVE  i = j
  <2>1. PICK t \in Threads, u \in Threads : t = tables[n].First[i] /\ u = tables[n].First[j]
    BY <1>4
  <2>2. ~Absent(t, n) /\ ~Absent(u, n) /\ n > 0
    BY <1>1, <2>1, KeyIsProbed
  <2>3. t = u
    BY <1>2, <1>5, <2>1, <2>2 DEF Counts, Numbered, AbsentAbove
  <2>4. /\ i \in Nat /\ j \in Nat /\ i < Capacity(n) /\ j < Capacity(n)
        /\ tables[n].First[i] = tables[n].First[j] /\ tables[n].First[i] # INVALID_KEY
    <3>1. i \in Nat /\ j \in Nat /\ i < cap /\ j < cap
      OBVIOUS
    <3>2. QED
      BY <1>1, <2>1, <2>3, <3>1, HashTableAssumption
  <2>5. Unique
    BY DEF RoomInv
  <2> HIDE DEF f, D, Q
  <2>6. QED
    BY ONLY <2>4, <2>5, n \in 1..Len(tables) DEF Unique
<1>6. f \in Injection(D, Q)
  <2>1. f \in [D -> Q]
    BY <1>4
  <2> HIDE DEF D, Q, f
  <2>2. QED
    BY <1>5, <2>1 DEF Injection, IsInjective
<1>7. IsFiniteSet(D) /\ Cardinality(D) = cap
  <2>1. cap - 1 \in Int /\ cap - 1 >= 0
    BY <1>1
  <2>2. QED
    BY <2>1, FS_Interval
<1>8. IsFiniteSet(Q) /\ Cardinality(Q) = room + n - 1
  <2>1. 1 - n \in Int /\ room - 1 \in Int /\ (1 - n > room - 1 => room + n - 1 = 0)
        /\ (room - 1) - (1 - n) + 1 = room + n - 1
    BY <1>3
  <2>2. QED
    BY <2>1, FS_Interval
<1>9. Cardinality(D) <= Cardinality(Q)
  <2> HIDE DEF D, Q, f
  <2>1. QED
    BY <1>6, <1>8, FS_Injection
<1>10. QED
  BY <1>3, <1>7, <1>8, <1>9

-----------------------------------------------------------------------------
(* What a step does to the numbers. *)

LEMMA SizesKept == ASSUME SizesInv, SameShape PROVE SizesInv'
BY DEF SizesInv, SameShape

LEMMA UniqueKept == ASSUME Unique, UNCHANGED tables PROVE Unique'
BY DEF Unique, Capacity

\* A key goes to a table that does not have it, or to the slot it is in.
LEMMA OccupyUnique ==
  ASSUME Types, Unique, NEW t \in Threads, NEW n \in 1..Len(tables), NEW value,
         Occupy(t, n, value), KeyAt(t, n) = t \/ Absent(t, n)
  PROVE  Unique'
<1>1. PICK cap \in Nat \ {0} : cap = Capacity(n) /\ tables[n] \in HashNode(cap)
  BY TableShape
<1>2. PICK s \in 0..(cap - 1) : s = Slot(t, Probes[t], cap)
  BY <1>1, SlotInRange DEF Types
<1>3. PICK new : new = [First |-> [tables[n].First EXCEPT ![s] = t],
                        Second |-> [tables[n].Second EXCEPT ![s] = value]]
  OBVIOUS
<1>4. tables' = [tables EXCEPT ![n] = new]
  BY <1>1, <1>2, <1>3 DEF Occupy
<1>5. /\ Len(tables') = Len(tables) /\ tables'[n] = new
      /\ \A m \in 1..Len(tables) : m # n => tables'[m] = tables[m]
      /\ \A m \in 1..Len(tables) : Capacity(m)' = Capacity(m)
  <2>1. DOMAIN new.First = DOMAIN tables[n].First
    BY <1>3
  <2>2. /\ Len(tables') = Len(tables) /\ tables'[n] = new
        /\ \A m \in 1..Len(tables) : m # n => tables'[m] = tables[m]
    BY <1>4 DEF Types
  <2>3. QED
    BY <2>1, <2>2 DEF Capacity
<1>6. \A i \in 0..(cap - 1) : new.First[i] = IF i = s THEN t ELSE tables[n].First[i]
  BY <1>1, <1>3 DEF HashNode
<1>7. ASSUME NEW i \in 0..(cap - 1), tables[n].First[i] = t
      PROVE  i = s
  <2>1. i \in Nat /\ i < Capacity(n) /\ s \in Nat /\ s < Capacity(n)
    BY <1>1
  <2>2. ~Absent(t, n)
    BY <1>7, <2>1, KeyIsProbed
  <2>3. tables[n].First[s] = t /\ t # INVALID_KEY
    BY <1>1, <1>2, <2>2, HashTableAssumption DEF KeyAt
  <2>4. QED
    BY <1>7, <2>1, <2>3 DEF Unique
<1>8. ASSUME NEW i \in Nat, NEW j \in Nat, i < cap, j < cap,
             new.First[i] = new.First[j], new.First[i] # INVALID_KEY
      PROVE  i = j
  <2>1. i \in 0..(cap - 1) /\ j \in 0..(cap - 1)
    BY <1>8
  <2>2. CASE i = s \/ j = s
    BY <1>6, <1>7, <1>8, <2>1, <2>2
  <2>3. CASE i # s /\ j # s
    BY <1>1, <1>6, <1>8, <2>1, <2>3 DEF Unique
  <2>4. QED
    BY <2>2, <2>3
<1>9. ASSUME NEW m \in 1..Len(tables), NEW i \in Nat, NEW j \in Nat,
             i < Capacity(m), j < Capacity(m),
             tables'[m].First[i] = tables'[m].First[j], tables'[m].First[i] # INVALID_KEY
      PROVE  i = j
  <2>1. CASE m = n
    BY <1>1, <1>5, <1>8, <1>9, <2>1
  <2>2. CASE m # n
    BY <1>5, <1>9, <2>2 DEF Unique
  <2>3. QED
    BY <2>1, <2>2
<1>10. QED
  BY <1>5, <1>9 DEF Unique

\* The others keep their numbers; t gets x, which is no other's.
LEMMA CountsKept ==
  ASSUME Types, NEW c \in [Threads -> Int], Counts(c), NEW t \in Threads, NEW x \in Int,
         Apart(t), \A u \in Threads \ {t} : Grows(u), Len(tables') \in Nat,
         EntriesCount' \in Nat, EntriesCount' >= EntriesCount,
         Numbered(t)' => /\ 1 - Len(tables') <= x /\ x < EntriesCount'
                         /\ \A u \in Threads \ {t} : Numbered(u) => c[u] # x,
         Adding(t)' => \/ x = NewCount'[t]
                       \/ /\ pc'[t] \in {"clear", "place", "claim"} /\ NewCount'[t] = 0
                          /\ x = 1 - CurrentMainHash'[t],
         pc'[t] = "claim" => (NewCount[t] < Room(Capacity(CurrentMainHash[t])))',
         \A n \in 1..Len(tables') : ~Absent(t, n)' => 1 - n <= x /\ x < Room(Capacity(n)')
  PROVE  \E d \in [Threads -> Int] : Counts(d)'
<1>1. PICK d \in [Threads -> Int] : d = [c EXCEPT ![t] = x]
  OBVIOUS
<1>2. d[t] = x /\ \A u \in Threads \ {t} : d[u] = c[u]
  BY <1>1
<1>0. Len(tables) \in Nat /\ EntriesCount \in Nat
  BY DEF Types
<1>3. ASSUME NEW u \in Threads \ {t}
      PROVE  /\ Len(tables') >= Len(tables)
             /\ Adding(u)' <=> Adding(u)
             /\ Numbered(u)' => Numbered(u)
             /\ \A n \in 1..Len(tables') : ~Absent(u, n)' =>
                  n \in 1..Len(tables) /\ ~Absent(u, n) /\ Capacity(n)' = Capacity(n)
  <2>1. Adding(u)' <=> Adding(u)
    BY DEF Apart, Adding
  <2>2. AbsentAbove(u, 0) => AbsentAbove(u, 0)'
    BY ViewKept
  <2>3. ASSUME NEW n \in 1..Len(tables'), ~Absent(u, n)'
        PROVE  n \in 1..Len(tables) /\ ~Absent(u, n) /\ Capacity(n)' = Capacity(n)
    <3>1. n \in 1..Len(tables)
      BY <1>0, <2>3 DEF Grows
    <3>2. QED
      BY <2>3, <3>1, ViewKept DEF Grows
  <2>4. QED
    BY <2>1, <2>2, <2>3 DEF Grows, Numbered
<1>4. ASSUME NEW u \in Threads, Numbered(u)'
      PROVE  1 - Len(tables') <= d[u] /\ d[u] < EntriesCount'
  <2>1. CASE u = t
    BY <1>2, <1>4, <2>1
  <2>2. CASE u # t
    BY <1>0, <1>2, <1>3, <1>4, <2>2 DEF Counts
  <2>3. QED
    BY <2>1, <2>2
<1>5. ASSUME NEW u \in Threads, NEW v \in Threads, Numbered(u)', Numbered(v)', d[u] = d[v]
      PROVE  u = v
  <2>1. CASE u # t /\ v # t
    BY <1>2, <1>3, <1>5, <2>1 DEF Counts
  <2>2. CASE u = t /\ v # t
    BY <1>2, <1>3, <1>5, <2>2
  <2>3. CASE u # t /\ v = t
    BY <1>2, <1>3, <1>5, <2>3
  <2>4. QED
    BY <2>1, <2>2, <2>3
<1>6. ASSUME NEW u \in Threads, Adding(u)'
      PROVE  \/ d[u] = NewCount'[u]
             \/ /\ pc'[u] \in {"clear", "place", "claim"} /\ NewCount'[u] = 0
                /\ d[u] = 1 - CurrentMainHash'[u]
  <2>1. CASE u = t
    BY <1>2, <1>6, <2>1
  <2>2. CASE u # t
    BY <1>2, <1>3, <1>6, <2>2 DEF Counts, Apart
  <2>3. QED
    BY <2>1, <2>2
<1>7. ASSUME NEW u \in Threads, pc'[u] = "claim"
      PROVE  (NewCount[u] < Room(Capacity(CurrentMainHash[u])))'
  <2>1. CASE u = t
    BY <1>7, <2>1
  <2>2. CASE u # t
    <3>1. PICK n \in 1..Len(tables) : n = CurrentMainHash[u]
      BY DEF Types
    <3>2. NewCount[u] < Room(Capacity(n)) /\ CurrentMainHash'[u] = n /\ NewCount'[u] = NewCount[u]
      BY <1>7, <2>2, <3>1 DEF Counts, Apart
    <3>3. Capacity(n)' = Capacity(n)
      BY <2>2 DEF Grows
    <3>4. QED
      BY <3>2, <3>3
  <2>3. QED
    BY <2>1, <2>2
<1>8. ASSUME NEW u \in Threads, NEW n \in 1..Len(tables'), ~Absent(u, n)'
      PROVE  1 - n <= d[u] /\ d[u] < Room(Capacity(n)')
  <2>1. CASE u = t
    BY <1>2, <1>8, <2>1
  <2>2. CASE u # t
    BY <1>2, <1>3, <1>8, <2>2 DEF Counts
  <2>3. QED
    BY <2>1, <2>2
<1>9. Counts(d)'
  BY <1>4, <1>5, <1>6, <1>7, <1>8 DEF Counts, Room
<1>10. QED
  BY <1>9

\* A step that stores nothing and keeps the thread's own number.
LEMMA SameRoom ==
  ASSUME Types, RoomInv, NEW t \in Threads, UNCHANGED <<tables, EntriesCount>>, Apart(t),
         Adding(t)' =>
           /\ Adding(t) /\ NewCount'[t] = NewCount[t]
           /\ \/ /\ CurrentMainHash'[t] = CurrentMainHash[t]
                 /\ pc[t] \in {"clear", "place", "claim"} => pc'[t] \in {"clear", "place", "claim"}
              \/ pc[t] \notin {"clear", "place", "claim"}
              \/ NewCount[t] # 0,
         pc'[t] = "claim" => (NewCount[t] < Room(Capacity(CurrentMainHash[t])))'
  PROVE  RoomInv'
<1>1. PICK c \in [Threads -> Int] : Counts(c)
  BY DEF RoomInv
<1>2. /\ Len(tables') = Len(tables) /\ Len(tables) \in Nat /\ EntriesCount \in Nat
      /\ \A n \in 1..Len(tables) : Capacity(n)' = Capacity(n)
      /\ \A u \in Threads : Grows(u)
  BY SameTables DEF Types, Capacity
<1>3. \A n : Absent(t, n)' <=> Absent(t, n)
  BY DEF Absent, Probed, Capacity
<1>4. Numbered(t)' => Numbered(t)
  BY <1>2, <1>3 DEF Numbered, AbsentAbove
<1>5. \E d \in [Threads -> Int] : Counts(d)'
  <2>1. PICK x \in Int : x = c[t]
    OBVIOUS
  <2>2. Numbered(t)' => /\ 1 - Len(tables') <= x /\ x < EntriesCount'
                        /\ \A u \in Threads \ {t} : Numbered(u) => c[u] # x
    BY <1>1, <1>2, <1>4, <2>1 DEF Counts
  <2>3. Adding(t)' => \/ x = NewCount'[t]
                      \/ /\ pc'[t] \in {"clear", "place", "claim"} /\ NewCount'[t] = 0
                         /\ x = 1 - CurrentMainHash'[t]
    BY <1>1, <2>1 DEF Counts
  <2>4. \A n \in 1..Len(tables') : ~Absent(t, n)' => 1 - n <= x /\ x < Room(Capacity(n)')
    BY <1>1, <1>2, <1>3, <2>1 DEF Counts
  <2>5. EntriesCount' \in Nat /\ EntriesCount' >= EntriesCount /\ Len(tables') \in Nat
    BY <1>2
  <2>6. QED
    BY <1>1, <1>2, <2>2, <2>3, <2>4, <2>5, CountsKept
<1>6. SizesInv' /\ Unique'
  BY <1>2, SizesKept, UniqueKept DEF RoomInv, SameShape
<1>7. QED
  BY <1>5, <1>6 DEF RoomInv

\* A thread stores its key, and its call ends.
LEMMA StoreKeepsRoom ==
  ASSUME Types, RoomInv, NEW t \in Threads, NEW n \in 1..Len(tables), NEW value \in Values,
         Occupy(t, n, value), Probes[t] < Capacity(n), KeyAt(t, n) \in {t, INVALID_KEY},
         KeyAt(t, n) = t \/ Absent(t, n), Apart(t), pc'[t] = "idle",
         UNCHANGED EntriesCount, Numbered(t),
         \A c \in [Threads -> Int] : Counts(c) => 1 - n <= c[t] /\ c[t] < Room(Capacity(n))
  PROVE  RoomInv'
<1>1. PICK c \in [Threads -> Int] : Counts(c)
  BY DEF RoomInv
<1>2. /\ Len(tables') = Len(tables) /\ Len(tables) \in Nat /\ EntriesCount \in Nat
      /\ \A m \in 1..Len(tables) : Capacity(m)' = Capacity(m)
      /\ \A u \in Threads \ {t} : Grows(u)
      /\ \A m \in 1..Len(tables), i \in Nat : m # n => Probed(t, m, i)' = Probed(t, m, i)
  <2>1. EntriesCount \in Nat /\ Len(tables) \in Nat
    BY DEF Types
  <2>2. /\ Len(tables') = Len(tables)
        /\ \A m \in 1..Len(tables) : Capacity(m)' = Capacity(m)
        /\ \A u \in Threads \ {t} : Grows(u)
        /\ \A m \in 1..Len(tables), i \in Nat : m # n => Probed(t, m, i)' = Probed(t, m, i)
    BY ZenonT(60), OccupySlot
  <2>3. QED
    BY <2>1, <2>2
<1>3. ASSUME NEW m \in 1..Len(tables), m # n PROVE Absent(t, m) => Absent(t, m)'
  BY <1>2, <1>3, TableShape DEF Absent
<1>4. \E d \in [Threads -> Int] : Counts(d)'
  <2>1. PICK x \in Int : x = c[t]
    OBVIOUS
  <2>2. /\ 1 - Len(tables') <= x /\ x < EntriesCount'
        /\ \A u \in Threads \ {t} : Numbered(u) => c[u] # x
    BY <1>1, <1>2, <2>1 DEF Counts
  <2>3. ~Adding(t)' /\ pc'[t] # "claim"
    BY DEF Adding
  <2>4. \A m \in 1..Len(tables') : ~Absent(t, m)' => 1 - m <= x /\ x < Room(Capacity(m)')
    BY <1>1, <1>2, <1>3, <2>1 DEF Counts
  <2>5. EntriesCount' \in Nat /\ EntriesCount' >= EntriesCount /\ Len(tables') \in Nat
    BY <1>2
  <2>6. QED
    BY <1>1, <1>2, <2>2, <2>3, <2>4, <2>5, CountsKept
<1>5. SizesInv' /\ Unique'
  BY <1>2, SizesKept, OccupyUnique DEF RoomInv, SameShape
<1>6. QED
  BY <1>4, <1>5 DEF RoomInv

-----------------------------------------------------------------------------
(* Every step keeps the numbers. *)

\* The steps of a search that store nothing, and a call that begins or throws.
LEMMA SearchKeepsRoom ==
  ASSUME TableInv, RoomInv, NEW t \in Threads,
         \/ \E o \in Ops : Call(t, o)
         \/ FindInOlder(t) \/ PassSlot(t) \/ EndOfTable(t) \/ CreateThrows(t)
  PROVE  RoomInv'
<1>0. Types /\ pc \in [Threads -> PCs]
      /\ CurrentMainHash \in [Threads -> 1..Len(tables)] /\ NewCount \in [Threads -> Nat]
  BY DEF TableInv, Types
<1>1. CASE \E o \in Ops : Call(t, o)
  <2>1. UNCHANGED <<tables, EntriesCount>> /\ Apart(t) /\ pc'[t] = "probe"
    BY <1>0, <1>1 DEF Call, Apart, Goto, shared
  <2>2. QED
    BY <1>0, <2>1, SameRoom DEF Adding
<1>2. CASE FindInOlder(t)
  <2>1. UNCHANGED <<tables, EntriesCount>> /\ Apart(t) /\ pc'[t] = "migrate"
    BY <1>0, <1>2 DEF FindInOlder, Apart, Goto, shared
  <2>2. QED
    BY <1>0, <2>1, SameRoom DEF Adding
<1>3. CASE PassSlot(t)
  <2>1. UNCHANGED <<tables, EntriesCount>> /\ Apart(t) /\ pc'[t] = "probe"
    BY <1>0, <1>3 DEF PassSlot, Apart, shared
  <2>2. QED
    BY <1>0, <2>1, SameRoom DEF Adding
<1>4. CASE EndOfTable(t)
  <2>1. UNCHANGED <<tables, EntriesCount>> /\ Apart(t) /\ pc'[t] \in {"probe", "idle", "count"}
    BY <1>0, <1>4 DEF EndOfTable, Return, Apart, Goto, shared, locals
  <2>2. QED
    BY <1>0, <2>1, SameRoom DEF Adding
<1>5. CASE CreateThrows(t)
  <2>1. UNCHANGED <<tables, EntriesCount>> /\ Apart(t) /\ pc'[t] = "idle"
    BY <1>0, <1>5 DEF CreateThrows, Return, Apart, Goto, shared
  <2>2. QED
    BY <1>0, <2>1, SameRoom DEF Adding
<1>6. QED
  BY <1>1, <1>2, <1>3, <1>4, <1>5

\* The steps that grow the table, all but the one that installs it.
LEMMA GrowingKeepsRoom ==
  ASSUME TableInv, RoomInv, NEW t \in Threads, TryResize(t) \/ Reload(t) \/ Unflag(t)
  PROVE  RoomInv'
<1>0. Types /\ pc \in [Threads -> PCs]
      /\ CurrentMainHash \in [Threads -> 1..Len(tables)] /\ NewCount \in [Threads -> Nat]
  BY DEF TableInv, Types
<1>1. CASE TryResize(t)
  <2>1. /\ UNCHANGED <<tables, EntriesCount>> /\ Apart(t) /\ pc[t] = "resize"
        /\ pc'[t] \in {"reload", "place"}
        /\ NewCount'[t] = NewCount[t] /\ CurrentMainHash'[t] = CurrentMainHash[t]
    BY <1>0, <1>1 DEF TryResize, Apart, Goto, locals
  <2>2. QED
    BY <1>0, <2>1, SameRoom DEF Adding
<1>2. CASE Reload(t)
  <2>1. /\ UNCHANGED <<tables, EntriesCount>> /\ Apart(t) /\ pc[t] = "reload"
        /\ pc'[t] \in {"create", "unflag"} /\ NewCount'[t] = NewCount[t]
    BY <1>0, <1>2 DEF Reload, Apart, Goto, shared
  <2>2. QED
    BY <1>0, <2>1, SameRoom DEF Adding
<1>3. CASE Unflag(t)
  <2>1. /\ UNCHANGED <<tables, EntriesCount>> /\ Apart(t) /\ pc[t] \in {"unflag", "clear"}
        /\ pc'[t] = "place"
        /\ NewCount'[t] = NewCount[t] /\ CurrentMainHash'[t] = CurrentMainHash[t]
    BY <1>0, <1>3 DEF Unflag, Apart, Goto, locals
  <2>2. QED
    BY <1>0, <2>1, SameRoom DEF Adding
<1>4. QED
  BY <1>1, <1>2, <1>3

\* A table has some room.
LEMMA SomeRoom ==
  ASSUME Types, SizesInv, NEW n \in 1..Len(tables)
  PROVE  Room(Capacity(n)) \in Nat /\ Room(Capacity(n)) >= 1
<1>1. Capacity(n) \in Nat /\ Capacity(n) >= 3
  BY TableShape DEF SizesInv
<1>2. QED
  BY <1>1 DEF Room

LEMMA TestRoomKeepsRoom ==
  ASSUME TableInv, RoomInv, NEW t \in Threads, TestRoom(t)
  PROVE  RoomInv'
<1>0. Types /\ pc \in [Threads -> PCs] /\ pc[t] = "place"
      /\ CurrentMainHash \in [Threads -> 1..Len(tables)] /\ NewCount \in [Threads -> Nat]
  BY DEF TableInv, Types, TestRoom
<1>1. PICK n \in 1..Len(tables) : n = CurrentMainHash[t]
  BY <1>0
<1>2. /\ UNCHANGED <<shared, NewCount>>
      /\ \/ NewCount[t] < Room(Capacity(n)) /\ Goto(t, "claim") /\ UNCHANGED CurrentMainHash
         \/ /\ ~(NewCount[t] < Room(Capacity(n)))
            /\ CurrentMainHash' = [CurrentMainHash EXCEPT ![t] = MainHash] /\ Goto(t, "resize")
  BY <1>1, Zenon DEF TestRoom, Room
<1>3. UNCHANGED <<tables, EntriesCount>> /\ Apart(t) /\ NewCount'[t] = NewCount[t]
  BY <1>0, <1>2 DEF Apart, Goto, shared
<1>4. CASE NewCount[t] < Room(Capacity(n)) /\ Goto(t, "claim") /\ UNCHANGED CurrentMainHash
  <2>1. pc'[t] = "claim" /\ CurrentMainHash'[t] = n /\ Capacity(n)' = Capacity(n)
    BY <1>0, <1>1, <1>3, <1>4 DEF Goto, Capacity
  <2>2. (NewCount[t] < Room(Capacity(CurrentMainHash[t])))'
    BY <1>3, <1>4, <2>1 DEF Room
  <2>3. QED
    BY <1>0, <1>1, <1>3, <2>1, <2>2, SameRoom DEF Adding
<1>5. CASE ~(NewCount[t] < Room(Capacity(n))) /\ Goto(t, "resize")
  <2>1. pc'[t] = "resize"
    BY <1>0, <1>5 DEF Goto
  <2>2. NewCount[t] # 0
    BY <1>0, <1>5, SomeRoom DEF RoomInv
  <2>3. QED
    BY <1>0, <1>3, <2>1, <2>2, SameRoom DEF Adding
<1>6. QED
  BY <1>2, <1>4, <1>5

\* A key that a table has takes no number twice.
LEMMA FindInMainKeepsRoom ==
  ASSUME TableInv, RoomInv, NEW t \in Threads, FindInMain(t)
  PROVE  RoomInv'
<1>0. /\ Types /\ Search(t) /\ Probes[t] \in Nat /\ calls[t] \in Nat /\ pc[t] = "probe"
      /\ pc \in [Threads -> PCs] /\ CurrentMainHash \in [Threads -> 1..Len(tables)]
      /\ NewCount \in [Threads -> Nat] /\ CurrentHash[t] = CurrentMainHash[t]
  BY DEF TableInv, KeyInv, Types, FindInMain
<1>1. PICK n \in 1..Len(tables) : n = CurrentMainHash[t]
  BY <1>0
<1>2. Probing(t, n) /\ KeyAt(t, n) = t
  BY <1>0, <1>1 DEF FindInMain, Search
<1>3. PICK cap \in Nat \ {0} : cap = Capacity(n) /\ tables[n] \in HashNode(cap)
  BY <1>0, TableShape
<1>4. tables[n].Second[Slot(t, Probes[t], cap)] \in Values
  BY <1>0, <1>3, SlotInRange DEF HashNode
<1>5. PICK value \in Values : Occupy(t, n, value) /\ Return(t, value)
  BY <1>0, <1>1, <1>3, <1>4 DEF FindInMain, UseEntry, Values
<1>6. ~Absent(t, n)
  <2>1. Probes[t] \in 0..(cap - 1)
    BY <1>0, <1>2, <1>3 DEF Probing
  <2>2. QED
    BY <1>2, <1>3, <2>1 DEF Absent, Probed, KeyAt
<1>7. Numbered(t)
  BY <1>6 DEF Numbered, AbsentAbove
<1>8. Apart(t) /\ pc'[t] = "idle" /\ UNCHANGED EntriesCount
  BY <1>0, <1>5 DEF Apart, Return, Goto, FindInMain
<1>9. \A c \in [Threads -> Int] : Counts(c) => 1 - n <= c[t] /\ c[t] < Room(Capacity(n))
  BY <1>6 DEF Counts
<1>10. QED
  BY <1>0, <1>2, <1>5, <1>7, <1>8, <1>9, StoreKeepsRoom DEF Probing

\* A key copied to a newer table takes the number that it has in the older one.
LEMMA MigrateKeepsRoom ==
  ASSUME TableInv, RoomInv, NEW t \in Threads, MigrateStep(t)
  PROVE  RoomInv'
<1>0. /\ Types /\ Search(t) /\ Probes[t] \in Nat /\ calls[t] \in Nat /\ pc[t] = "migrate"
      /\ pc \in [Threads -> PCs] /\ CurrentMainHash \in [Threads -> 1..Len(tables)]
      /\ NewCount \in [Threads -> Nat] /\ UNCHANGED EntriesCount /\ Placed(t)
  BY DEF TableInv, KeyInv, Types, MigrateStep
<1>1. PICK n \in 1..Len(tables) : n = CurrentMainHash[t]
  BY <1>0
<1>2. PICK old \in 1..Len(tables) : old = CurrentHash[t]
  BY <1>0 DEF Types
<1>3. old < n /\ Probing(t, n) /\ AbsentAbove(t, old) /\ ~Absent(t, old)
  BY <1>0, <1>1, <1>2 DEF Search
<1>4. CASE KeyAt(t, n) = INVALID_KEY
  <2>1. PICK i \in Nat : Found(t, old, i)
    BY <1>0, <1>3 DEF Placed
  <2>2. (CHOOSE j \in Stop(t, old) : TRUE) = i
    BY <1>0, <2>1, StopIsFound
  <2>3. PICK cap \in Nat \ {0} : cap = Capacity(old) /\ tables[old] \in HashNode(cap)
    BY <1>0, TableShape
  <2>4. tables[old].Second[Slot(t, i, cap)] \in Values
    BY <2>3, SlotInRange DEF HashNode
  <2>5. PICK value \in Values : Occupy(t, n, value) /\ Return(t, value)
    BY <1>0, <1>1, <1>2, <1>4, <2>2, <2>3, <2>4 DEF MigrateStep, UseEntry, Values
  <2>6. Numbered(t) /\ Absent(t, n)
    BY <1>3 DEF Numbered, AbsentAbove
  <2>7. Apart(t) /\ pc'[t] = "idle"
    BY <1>0, <2>5 DEF Apart, Return, Goto
  <2>8. ASSUME NEW c \in [Threads -> Int], Counts(c)
        PROVE  1 - n <= c[t] /\ c[t] < Room(Capacity(n))
    <3>1. PICK a \in Nat, b \in Nat : a = Capacity(old) /\ b = Capacity(n) /\ a <= b
      BY <1>0, <1>3, TableShape DEF RoomInv, SizesInv
    <3>2. PICK x \in Int : x = c[t]
      OBVIOUS
    <3>3. 1 - old <= x /\ x < Room(a)
      BY <1>3, <2>8, <3>1, <3>2 DEF Counts
    <3>4. Room(a) \in Nat /\ Room(b) \in Nat /\ Room(a) <= Room(b)
      BY <3>1, RoomGrows
    <3>5. QED
      BY <1>3, <3>1, <3>2, <3>3, <3>4
  <2>9. QED
    BY <1>0, <1>3, <1>4, <2>5, <2>6, <2>7, <2>8, StoreKeepsRoom DEF Probing
<1>5. CASE KeyAt(t, n) # INVALID_KEY
  <2>1. UNCHANGED <<tables, EntriesCount>> /\ Apart(t) /\ pc'[t] = "migrate"
    BY <1>0, <1>1, <1>5 DEF MigrateStep, Apart
  <2>2. QED
    BY <1>0, <2>1, SameRoom DEF Adding
<1>6. QED
  BY <1>4, <1>5

\* A key is placed where its thread's count left room.
LEMMA ClaimKeepsRoom ==
  ASSUME TableInv, RoomInv, NEW t \in Threads, ClaimSlot(t)
  PROVE  RoomInv'
<1>0. /\ Types /\ Search(t) /\ calls[t] \in Values /\ pc[t] = "claim"
      /\ pc \in [Threads -> PCs] /\ CurrentMainHash \in [Threads -> 1..Len(tables)]
      /\ NewCount \in [Threads -> Nat] /\ UNCHANGED EntriesCount
  BY DEF TableInv, KeyInv, Types, ClaimSlot, Values
<1>1. PICK n \in 1..Len(tables) : n = CurrentMainHash[t]
  BY <1>0
<1>2. Probing(t, n) /\ Absent(t, n)
  BY <1>0, <1>1 DEF Search, AbsentAbove
<1>3. PICK r \in Nat : r = Room(Capacity(n)) /\ r >= 1
  BY <1>0, SomeRoom DEF RoomInv
<1>4. CASE KeyAt(t, n) = INVALID_KEY
  <2>1. Occupy(t, n, calls[t]) /\ Return(t, calls[t])
    BY <1>1, <1>4 DEF ClaimSlot
  <2>2. Numbered(t)
    BY <1>0 DEF Numbered, Adding
  <2>3. Apart(t) /\ pc'[t] = "idle"
    BY <1>0, <2>1 DEF Apart, Return, Goto
  <2>4. ASSUME NEW c \in [Threads -> Int], Counts(c)
        PROVE  1 - n <= c[t] /\ c[t] < Room(Capacity(n))
    <3>1. c[t] = NewCount[t] \/ c[t] = 1 - n
      BY <1>0, <1>1, <2>4 DEF Counts, Adding
    <3>2. NewCount[t] < r /\ NewCount[t] \in Nat
      BY <1>0, <1>1, <1>3, <2>4 DEF Counts
    <3>3. QED
      BY <1>3, <3>1, <3>2
  <2>5. QED
    BY <1>0, <1>2, <1>4, <2>1, <2>2, <2>3, <2>4, StoreKeepsRoom DEF Probing
<1>5. CASE KeyAt(t, n) # INVALID_KEY
  <2>1. /\ UNCHANGED <<tables, EntriesCount>> /\ Apart(t) /\ pc'[t] = "claim"
        /\ NewCount'[t] = NewCount[t] /\ CurrentMainHash'[t] = n
    BY <1>0, <1>1, <1>5 DEF ClaimSlot, Apart
  <2>2. (NewCount[t] < Room(Capacity(CurrentMainHash[t])))'
    <3>1. PICK c \in [Threads -> Int] : Counts(c)
      BY DEF RoomInv
    <3>2. NewCount[t] < Room(Capacity(n))
      BY <1>0, <1>1, <3>1 DEF Counts
    <3>3. Capacity(n)' = Capacity(n)
      BY <2>1 DEF Capacity
    <3>4. QED
      BY <2>1, <3>2, <3>3 DEF Room
  <2>3. QED
    BY <1>0, <1>1, <2>1, <2>2, SameRoom DEF Adding
<1>6. QED
  BY <1>4, <1>5

\* A thread is counted before it adds its key, with a number that no other has.
LEMMA CountKeepsRoom ==
  ASSUME TableInv, RoomInv, NEW t \in Threads, Count(t)
  PROVE  RoomInv'
<1>0. /\ Types /\ Search(t) /\ pc[t] = "count" /\ pc \in [Threads -> PCs]
      /\ CurrentMainHash \in [Threads -> 1..Len(tables)] /\ NewCount \in [Threads -> Nat]
      /\ EntriesCount \in Nat /\ Len(tables) \in Nat /\ Len(tables) > 0
  BY DEF TableInv, KeyInv, Types, Count
<1>1. PICK c \in [Threads -> Int] : Counts(c)
  BY DEF RoomInv
<1>2. PICK x \in Nat : x = EntriesCount
  BY <1>0
<1>3. /\ Apart(t) /\ UNCHANGED tables /\ EntriesCount' = x + 1
      /\ pc'[t] = "resize" /\ NewCount'[t] = x
  BY <1>0, <1>2 DEF Count, Apart, Goto
<1>4. /\ Len(tables') = Len(tables) /\ \A m \in 1..Len(tables) : Capacity(m)' = Capacity(m)
      /\ \A u \in Threads : Grows(u)
  BY <1>0, <1>3, SameTables DEF Capacity
<1>5. \A n \in 1..Len(tables') : Absent(t, n)'
  <2>1. AbsentAbove(t, 0)'
    BY <1>0, <1>3, SameView DEF Search
  <2>2. QED
    BY <1>0, <1>4, <2>1 DEF AbsentAbove
<1>6. \A u \in Threads \ {t} : Numbered(u) => c[u] # x
  BY <1>1, <1>2 DEF Counts
<1>7. \E d \in [Threads -> Int] : Counts(d)'
  <2>1. x \in Int /\ EntriesCount' \in Nat /\ EntriesCount' >= EntriesCount
        /\ Len(tables') \in Nat /\ 1 - Len(tables') <= x /\ x < EntriesCount'
    BY <1>0, <1>2, <1>3, <1>4
  <2>2. QED
    BY <1>0, <1>1, <1>3, <1>4, <1>5, <1>6, <2>1, CountsKept
<1>8. SizesInv' /\ Unique'
  BY <1>3, <1>4, SizesKept, UniqueKept DEF RoomInv, SameShape
<1>9. QED
  BY <1>7, <1>8 DEF RoomInv

\* A new table in front of the others has no keys, and room enough for one more thread
\* without a count.
LEMMA NewTableHasRoom ==
  ASSUME Types, SizesInv, Unique,
         tables' = Append(tables, NewHashNode(2 * Capacity(Len(tables))))
  PROVE  SizesInv' /\ Unique'
<1>1. PICK len \in Nat : len = Len(tables) /\ len > 0
  BY DEF Types
<1>2. PICK a \in Nat \ {0} : a = Capacity(len)
  BY <1>1, TableShape
<1>3. PICK b \in Nat \ {0} : b = 2 * a
  BY <1>2
<1>4. /\ Len(tables') = len + 1 /\ tables'[len + 1] = NewHashNode(b)
      /\ \A n \in 1..len : tables'[n] = tables[n]
  <2>1. tables \in Seq(HashNodes) /\ NewHashNode(b) \in HashNodes
    BY NewTable DEF Types
  <2>2. QED
    BY <1>1, <1>2, <1>3, <2>1
<1>5. \A n \in 1..len : Capacity(n)' = Capacity(n)
  BY <1>4 DEF Capacity
<1>6. Capacity(len + 1)' = b
  <2>1. Capacity(len + 1)' = Cardinality(0..(b - 1))
    BY <1>4, NewTable DEF Capacity
  <2>2. QED
    BY <2>1, FS_Interval
<1>7. /\ \A n \in 1..len :
           /\ Capacity(n) \in Nat /\ Capacity(n) >= 3 /\ (Capacity(n) >= 4 \/ n = 1)
           /\ Room(Capacity(n)) + n <= Capacity(n)
      /\ \A m, n \in 1..len : m <= n => Capacity(m) <= Capacity(n)
  BY <1>1, TableShape DEF SizesInv
<1>8. b >= 4 /\ Room(b) + (len + 1) <= b
  <2>1. len >= 1 /\ a >= 3 /\ (a >= 4 \/ len = 1) /\ Room(a) + len <= a
    BY <1>1, <1>2, <1>7
  <2>2. QED
    BY <1>1, <1>2, <1>3, <2>1, DoubleHasRoom
<1>9. SizesInv'
  <2>1. ASSUME NEW n \in 1..(len + 1)
        PROVE  /\ (Capacity(n) >= 3 /\ (Capacity(n) >= 4 \/ n = 1))'
               /\ (Room(Capacity(n)) + n <= Capacity(n))'
    <3>1. CASE n \in 1..len
      BY <1>5, <1>7, <3>1 DEF Room
    <3>2. CASE n = len + 1
      <4>1. Capacity(n)' = b
        BY <1>6, <3>2
      <4>2. QED
        BY <1>8, <3>2, <4>1 DEF Room
    <3>3. QED
      BY <1>1, <3>1, <3>2
  <2>2. ASSUME NEW m \in 1..(len + 1), NEW n \in 1..(len + 1), m <= n
        PROVE  (Capacity(m) <= Capacity(n))'
    <3>1. CASE n \in 1..len
      BY <1>1, <1>5, <1>7, <2>2, <3>1
    <3>2. CASE n = len + 1 /\ m \in 1..len
      <4>1. PICK x \in Nat : x = Capacity(m) /\ x <= a
        <5>1. m <= len /\ len \in 1..len
          BY <1>1, <3>2
        <5>2. QED
          BY <1>2, <1>7, <3>2, <5>1
      <4>2. Capacity(m)' = x /\ Capacity(n)' = b
        BY <1>5, <1>6, <3>2, <4>1
      <4>3. QED
        BY <1>2, <1>3, <4>1, <4>2
    <3>3. CASE n = len + 1 /\ m = len + 1
      BY <1>3, <1>6, <3>3
    <3>4. QED
      BY <1>1, <3>1, <3>2, <3>3
  <2>3. QED
    BY <1>4, <2>1, <2>2 DEF SizesInv, Room
<1>10. Unique'
  <2>1. ASSUME NEW n \in 1..(len + 1), NEW i \in Nat, NEW j \in Nat,
               i < Capacity(n)', j < Capacity(n)',
               tables'[n].First[i] = tables'[n].First[j], tables'[n].First[i] # INVALID_KEY
        PROVE  i = j
    <3>1. CASE n \in 1..len
      BY <1>1, <1>4, <1>5, <2>1, <3>1 DEF Unique
    <3>2. CASE n = len + 1
      <4>1. i \in 0..(b - 1)
        BY <1>6, <2>1, <3>2
      <4>2. NewHashNode(b).First[i] = INVALID_KEY /\ tables'[n] = NewHashNode(b)
        BY <1>4, <3>2, <4>1 DEF NewHashNode
      <4>3. QED
        BY <2>1, <4>2
    <3>3. QED
      BY <1>1, <3>1, <3>2
  <2>2. QED
    BY <1>4, <2>1 DEF Unique
<1>11. QED
  BY <1>9, <1>10

\* The thread that installs a table keeps its count, or takes a number for the table.
LEMMA InstallKeepsRoom ==
  ASSUME TableInv, GrowthInv, RoomInv, NEW t \in Threads, Install(t)
  PROVE  RoomInv'
<1>0. /\ Types /\ Search(t) /\ pc[t] = "create" /\ pc \in [Threads -> PCs]
      /\ CurrentMainHash \in [Threads -> 1..Len(tables)] /\ NewCount \in [Threads -> Nat]
      /\ EntriesCount \in Nat
  BY DEF TableInv, KeyInv, Types, Install
<1>1. PICK len \in Nat : len = Len(tables) /\ len > 0
  BY DEF TableInv, Types
<1>2. CurrentMainHash[t] = len
  BY <1>0, <1>1 DEF GrowthInv, MainHash
<1>3. Capacity(len) \in Nat \ {0} /\ 2 * Capacity(len) \in Nat \ {0}
  BY <1>0, <1>1, TableShape
<1>4. tables' = Append(tables, NewHashNode(2 * Capacity(len)))
  BY <1>2 DEF Install
<1>5. \A u \in Threads : Grows(u) /\ Len(tables') = len + 1
  BY <1>0, <1>1, <1>3, <1>4, AppendGrows
<1>6. /\ Apart(t) /\ pc'[t] = "clear" /\ NewCount'[t] = Doubled(t)
      /\ CurrentMainHash'[t] = len + 1 /\ EntriesCount' = EntriesCount
  BY <1>0, <1>1 DEF Install, Apart, Goto, MainHash
<1>7. PICK c \in [Threads -> Int] : Counts(c)
  BY DEF RoomInv
<1>8. \A n \in 1..Len(tables') : Absent(t, n)'
  <2>1. AbsentAbove(t, 0)'
    BY <1>0, <1>5, ViewKept DEF Search
  <2>2. QED
    BY <1>5, <2>1 DEF AbsentAbove
<1>9. \A u \in Threads : Numbered(u) => 1 - len <= c[u] /\ c[u] < EntriesCount
  BY <1>1, <1>7 DEF Counts
<1>10. Numbered(t) /\ c[t] = NewCount[t]
  BY <1>0, <1>7 DEF Counts, Adding, Numbered
<1>11. \E d \in [Threads -> Int] : Counts(d)'
  <2>1. PICK x \in Int :
          /\ -len <= x /\ x < EntriesCount
          /\ \A u \in Threads \ {t} : Numbered(u) => c[u] # x
          /\ x = NewCount'[t] \/ (NewCount'[t] = 0 /\ x = 1 - (len + 1))
    <3>1. CASE Doubled(t) = NewCount[t]
      <4>1. PICK y \in Int : y = c[t] /\ y = NewCount[t]
        BY <1>10
      <4>2. \A u \in Threads \ {t} : Numbered(u) => c[u] # y
        BY <1>7, <1>10, <4>1 DEF Counts
      <4>3. -len <= y /\ y < EntriesCount
        BY <1>1, <1>9, <1>10, <4>1
      <4>4. y = NewCount'[t]
        BY <1>6, <3>1, <4>1
      <4>5. QED
        BY <4>2, <4>3, <4>4
    <3>2. CASE Doubled(t) = 0
      <4>1. PICK y \in Int : y = -len
        BY <1>1
      <4>2. \A u \in Threads \ {t} : Numbered(u) => c[u] # y
        BY <1>1, <1>9, <4>1
      <4>3. -len <= y /\ y < EntriesCount /\ y = 1 - (len + 1)
        BY <1>0, <1>1, <4>1
      <4>4. QED
        BY <1>6, <3>2, <4>2, <4>3
    <3>3. QED
      BY <3>1, <3>2 DEF Doubled
  <2>2. /\ EntriesCount' \in Nat /\ EntriesCount' >= EntriesCount
        /\ Len(tables') \in Nat /\ 1 - Len(tables') <= x /\ x < EntriesCount'
    BY <1>0, <1>1, <1>5, <1>6, <2>1
  <2>3. /\ x = NewCount'[t]
           \/ /\ pc'[t] \in {"clear", "place", "claim"} /\ NewCount'[t] = 0
              /\ x = 1 - CurrentMainHash'[t]
        /\ pc'[t] # "claim"
    BY <1>6, <2>1
  <2>4. QED
    BY <1>0, <1>5, <1>6, <1>7, <1>8, <2>1, <2>2, <2>3, CountsKept
<1>12. SizesInv' /\ Unique'
  BY <1>0, <1>1, <1>4, NewTableHasRoom DEF RoomInv
<1>13. QED
  BY <1>11, <1>12 DEF RoomInv

\* At first nobody was counted.
LEMMA RoomInit ==
  ASSUME INITIAL_HASH_SIZE >= 3, InitTable
  PROVE  RoomInv
<1>0. PICK a \in Nat \ {0} : a = INITIAL_HASH_SIZE /\ a >= 3
  BY HashTableAssumption
<1>1. tables = <<NewHashNode(a)>> /\ Len(tables) = 1 /\ tables[1] = NewHashNode(a)
  BY <1>0 DEF InitTable
<1>2. Capacity(1) = a
  <2>1. Capacity(1) = Cardinality(0..(a - 1))
    BY <1>1, NewTable DEF Capacity
  <2>2. QED
    BY <2>1, FS_Interval
<1>3. SizesInv
  <2>1. Room(a) + 1 <= a
    BY <1>0 DEF Room
  <2>2. QED
    BY <1>0, <1>1, <1>2, <2>1 DEF SizesInv
<1>4. Unique
  <2>1. \A i \in Nat : i < a => tables[1].First[i] = INVALID_KEY
    BY <1>1 DEF NewHashNode
  <2>2. QED
    BY <1>1, <1>2, <2>1 DEF Unique
<1>5. ASSUME NEW t \in Threads, NEW n \in 1..Len(tables) PROVE Absent(t, n)
  <2>1. n = 1
    BY <1>1
  <2>2. ASSUME NEW i \in 0..(a - 1) PROVE Probed(t, 1, i) # t
    <3>1. i \in Nat /\ Slot(t, i, a) \in 0..(a - 1)
      BY <1>0, i \in Nat, SlotInRange
    <3>2. NewHashNode(a).First[Slot(t, i, a)] = INVALID_KEY
      BY <3>1 DEF NewHashNode
    <3>3. QED
      BY <1>1, <1>2, <3>2, HashTableAssumption DEF Probed
  <2>3. QED
    BY <1>2, <2>1, <2>2 DEF Absent
<1>6. \A t \in Threads : pc[t] = "idle" /\ ~Adding(t) /\ ~Numbered(t)
  BY <1>5 DEF InitTable, Adding, Numbered, AbsentAbove
<1>7. Counts([t \in Threads |-> 0])
  BY <1>5, <1>6 DEF Counts
<1>8. [t \in Threads |-> 0] \in [Threads -> Int]
  OBVIOUS
<1>9. QED
  BY <1>3, <1>4, <1>7, <1>8 DEF RoomInv

LEMMA RoomKept == TableInv /\ GrowthInv /\ RoomInv /\ [Next]_htVars => RoomInv'
<1> SUFFICES ASSUME TableInv, GrowthInv, RoomInv, [Next]_htVars PROVE RoomInv'
  OBVIOUS
<1>1. CASE UNCHANGED htVars
  <2>1. UNCHANGED <<tables, EntriesCount, pc, CurrentMainHash, NewCount>>
    BY <1>1 DEF htVars, shared, locals
  <2>2. SizesInv' /\ Unique'
    BY <2>1 DEF RoomInv, SizesInv, Unique, Capacity, Room
  <2>3. \A c : Counts(c) => Counts(c)'
    BY <2>1 DEF Counts, Numbered, Adding, AbsentAbove, Absent, Probed, Capacity, Room
  <2>4. QED
    BY <2>2, <2>3 DEF RoomInv
<1>2. ASSUME NEW t \in Threads, InnerGetEntry(t) PROVE RoomInv'
  BY <1>2, SearchKeepsRoom, FindInMainKeepsRoom, MigrateKeepsRoom DEF InnerGetEntry
<1>3. ASSUME NEW t \in Threads, InnerAdd(t) PROVE RoomInv'
  BY <1>3, SearchKeepsRoom, GrowingKeepsRoom, CountKeepsRoom, InstallKeepsRoom,
     TestRoomKeepsRoom, ClaimKeepsRoom DEF InnerAdd
<1>4. ASSUME NEW t \in Threads, NEW o \in Ops, Call(t, o) PROVE RoomInv'
  BY <1>4, SearchKeepsRoom
<1>5. QED
  BY <1>1, <1>2, <1>3, <1>4 DEF Next, Step, Finished

\* Every table keeps a free slot (the tests at half and at three quarters in InnerAdd), so
\* the probing loops, which have no other end for an absent key, end: however many threads
\* add keys, and whichever counts are lost in the loop of InnerAdd.
THEOREM ProbingEnds ==
  ASSUME INITIAL_HASH_SIZE >= 3
  PROVE  Spec => []ProbesEnd
<1>1. InitTable => RoomInv
  BY RoomInit
<1>2. TableInv /\ RoomInv => ProbesEnd
  BY RoomLeft DEF TableInv, ProbesEnd
<1>3. QED
  BY <1>1, <1>2, GrowthInit, GrowthKept, RoomKept, TablesCorrect, PTL DEF Spec
=============================================================================
