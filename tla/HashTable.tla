------------------------------ MODULE HashTable ------------------------------
(***************************************************************************)
(* The hash table from thread ids to implicit producers.  It grows by      *)
(* putting a table of twice the capacity in front of the others; keys stay *)
(* where they are until a lookup copies the caller's key to the newest     *)
(* table it knows.  Keys are probed linearly and never leave.              *)
(*                                                                         *)
(* The queue calls the table with the caller's own thread id as the key,   *)
(* so a thread stands for its key: nobody else looks it up, adds it or     *)
(* sets its value.  Every load, test and compare-and-swap on a word that   *)
(* several threads use is an action; the load of a slot and the            *)
(* compare-and-swap that follows it are one, since a slot never returns to *)
(* INVALID_KEY and a failed one goes on as a slot that was taken before.   *)
(***************************************************************************)
EXTENDS Integers, Sequences, FiniteSets

CONSTANTS
  Threads,
  Hash,                \* [Threads -> Nat]
  INITIAL_HASH_SIZE,
  INVALID_KEY, NULL,
  MaxCalls             \* [Threads -> Nat]: calls of each (a bound of the model)

ASSUME HashTableAssumption ==
  /\ INVALID_KEY \notin Threads /\ IsFiniteSet(Threads)
  /\ Hash \in [Threads -> Nat] /\ MaxCalls \in [Threads -> Nat]
  /\ INITIAL_HASH_SIZE \in Nat /\ INITIAL_HASH_SIZE >= 2

VARIABLES
  tables,              \* the HashNodes, each in front of the one before it
  EntriesCount, HashResizeInProgressFlag,
  pc, op, calls,
  CurrentMainHash, CurrentHash, Probes, NewCount,   \* locals, by thread
  latest,              \* what the table should hold for each thread
  answer,              \* what the last call of each thread left in OutValue
  threw                \* some call ended with bad_alloc

shared == <<tables, EntriesCount, HashResizeInProgressFlag>>
locals == <<CurrentMainHash, CurrentHash, Probes, NewCount>>
ghosts == <<latest, answer, threw>>
htVars == <<shared, pc, op, calls, locals, ghosts>>

\* Get is a GetOrAddByFunc whose function gives no value, GetOrAdd one whose
\* function always does.
Ops == {"set", "getOrAdd"}
PCs == {"idle", "probe", "migrate", "count", "resize", "reload", "unflag",
        "create", "clear", "place", "claim"}

-----------------------------------------------------------------------------
(* The tables *)

NewHashNode(cap) ==
  [First |-> [i \in 0..(cap - 1) |-> INVALID_KEY],
   Second |-> [i \in 0..(cap - 1) |-> NULL]]

Capacity(n) == Cardinality(DOMAIN tables[n].First)
MainHash == Len(tables)

\* The slot a thread probes after i others in a table of that capacity.
Slot(t, i, cap) == (Hash[t] + i) % cap
KeyAt(t, n) == tables[n].First[Slot(t, Probes[t], Capacity(n))]

\* Claim the slot for the thread's key and store the value.
Occupy(t, n, value) ==
  LET i == Slot(t, Probes[t], Capacity(n))
  IN  tables' = [tables EXCEPT ![n] = [First |-> [@.First EXCEPT ![i] = t],
                                      Second |-> [@.Second EXCEPT ![i] = value]]]

\* The first slot of the probe sequence that has the key or is free.
Stop(t, n) ==
  LET ends == {i \in 0..(Capacity(n) - 1) :
                 tables[n].First[Slot(t, i, Capacity(n))] \in {t, INVALID_KEY}}
  IN  {i \in ends : \A j \in ends : i <= j}

Reaches(t, n) ==
  \E i \in Stop(t, n) : tables[n].First[Slot(t, i, Capacity(n))] = t

\* The value a lookup by that thread would return now.
Lookup(t) ==
  LET has == {n \in 1..MainHash : Reaches(t, n)}
  IN  IF has = {} THEN NULL
      ELSE LET n == CHOOSE n \in has : \A m \in has : m <= n
               i == CHOOSE i \in Stop(t, n) : TRUE
           IN  tables[n].Second[Slot(t, i, Capacity(n))]

-----------------------------------------------------------------------------
Goto(t, label) == pc' = [pc EXCEPT ![t] = label]
Probe0(t) == Probes' = [Probes EXCEPT ![t] = 0]

\* The thread leaves its call, which answers with `value'.
Return(t, value) ==
  /\ Goto(t, "idle") /\ op' = [op EXCEPT ![t] = "set"]
  /\ answer' = [answer EXCEPT ![t] = value]
  /\ CurrentMainHash' = [CurrentMainHash EXCEPT ![t] = 1]
  /\ CurrentHash' = [CurrentHash EXCEPT ![t] = 1]
  /\ NewCount' = [NewCount EXCEPT ![t] = 0]
  /\ Probe0(t)

InitTable ==
  /\ tables = <<NewHashNode(INITIAL_HASH_SIZE)>>
  /\ EntriesCount = 0 /\ HashResizeInProgressFlag = FALSE
  /\ pc = [t \in Threads |-> "idle"] /\ op = [t \in Threads |-> "set"]
  /\ calls = [t \in Threads |-> 0]
  /\ CurrentMainHash = [t \in Threads |-> 1] /\ CurrentHash = [t \in Threads |-> 1]
  /\ Probes = [t \in Threads |-> 0] /\ NewCount = [t \in Threads |-> 0]
  /\ latest = [t \in Threads |-> NULL] /\ answer = [t \in Threads |-> NULL]
  /\ threw = FALSE

\* A call of Get, Set, GetOrAdd or GetOrAddByFunc: load MainHash.
Call(t, o) ==
  /\ pc[t] = "idle" /\ calls[t] < MaxCalls[t]
  /\ op' = [op EXCEPT ![t] = o] /\ calls' = [calls EXCEPT ![t] = @ + 1]
  /\ CurrentMainHash' = [CurrentMainHash EXCEPT ![t] = MainHash]
  /\ CurrentHash' = [CurrentHash EXCEPT ![t] = MainHash]
  /\ Probe0(t) /\ Goto(t, "probe")
  /\ UNCHANGED <<shared, NewCount, ghosts>>

-----------------------------------------------------------------------------
(* InnerGetEntry *)

\* What each operation does with the entry it was given: Set stores the value,
\* the number of the call, and the others load it.
UseEntry(t, n, value) ==
  LET new == IF op[t] = "set" THEN calls[t] ELSE value
  IN  /\ Occupy(t, n, new) /\ Return(t, new)
      /\ latest' = IF op[t] = "set" THEN [latest EXCEPT ![t] = calls[t]] ELSE latest

\* The key is in the table the caller took for the newest.
FindInMain(t) ==
  LET n == CurrentMainHash[t]
  IN  /\ pc[t] = "probe" /\ CurrentHash[t] = n /\ KeyAt(t, n) = t
      /\ UseEntry(t, n, tables[n].Second[Slot(t, Probes[t], Capacity(n))])
      /\ UNCHANGED <<EntriesCount, HashResizeInProgressFlag, calls, threw>>

\* The key is in an older table: keep its value and copy it forward.
FindInOlder(t) ==
  LET n == CurrentHash[t]
  IN  /\ pc[t] = "probe" /\ n # CurrentMainHash[t] /\ KeyAt(t, n) = t
      /\ Probe0(t) /\ Goto(t, "migrate")
      /\ UNCHANGED <<shared, op, calls, CurrentMainHash, CurrentHash, NewCount, ghosts>>

PassSlot(t) ==
  /\ pc[t] = "probe" /\ KeyAt(t, CurrentHash[t]) \notin {t, INVALID_KEY}
  /\ Probes' = [Probes EXCEPT ![t] = (@ + 1) % Capacity(CurrentHash[t])]
  /\ UNCHANGED <<shared, pc, op, calls, CurrentMainHash, CurrentHash, NewCount, ghosts>>

\* Mutant: only the newest table is searched.
EndOfTableOnly(t) ==
  /\ pc[t] = "probe" /\ KeyAt(t, CurrentHash[t]) = INVALID_KEY
  /\ \/ op[t] = "getOrAdd" /\ Return(t, NULL) /\ UNCHANGED <<latest, threw>>
     \/ Goto(t, "count") /\ UNCHANGED <<op, locals, ghosts>>
  /\ UNCHANGED <<shared, calls>>

\* A free slot ends the search of a table; after the oldest one the key is
\* absent.  AllocateValueFunc is called before InnerAdd, and may return no value.
EndOfTable(t) ==
  /\ pc[t] = "probe" /\ KeyAt(t, CurrentHash[t]) = INVALID_KEY
  /\ \/ /\ CurrentHash[t] > 1
        /\ CurrentHash' = [CurrentHash EXCEPT ![t] = @ - 1]
        /\ Probe0(t)
        /\ UNCHANGED <<pc, op, CurrentMainHash, NewCount, ghosts>>
     \/ /\ CurrentHash[t] = 1 /\ op[t] = "getOrAdd"
        /\ Return(t, NULL) /\ UNCHANGED <<latest, threw>>
     \/ /\ CurrentHash[t] = 1
        /\ Goto(t, "count") /\ UNCHANGED <<op, locals, ghosts>>
  /\ UNCHANGED <<shared, calls>>

\* Where the copy goes: the first free slot of the table taken for the newest.
MigrateStep(t) ==
  LET n == CurrentMainHash[t]
      old == CurrentHash[t]
      i == CHOOSE i \in Stop(t, old) : TRUE
  IN  /\ pc[t] = "migrate"
      /\ IF KeyAt(t, n) = INVALID_KEY
         THEN UseEntry(t, n, tables[old].Second[Slot(t, i, Capacity(old))])
         ELSE /\ Probes' = [Probes EXCEPT ![t] = (@ + 1) % Capacity(n)]
              /\ UNCHANGED <<tables, pc, op, CurrentMainHash, CurrentHash, NewCount,
                             latest, answer>>
      /\ UNCHANGED <<EntriesCount, HashResizeInProgressFlag, calls, threw>>

-----------------------------------------------------------------------------
(* InnerAdd *)

Count(t) ==
  /\ pc[t] = "count"
  /\ NewCount' = [NewCount EXCEPT ![t] = EntriesCount]
  /\ EntriesCount' = EntriesCount + 1
  /\ Goto(t, "resize")
  /\ UNCHANGED <<tables, HashResizeInProgressFlag, op, calls, CurrentMainHash,
                 CurrentHash, Probes, ghosts>>

\* Mutant: a table is replaced only when it is full.
Full(t, n) == NewCount[t] >= Capacity(n)

HalfFull(t, n) == NewCount[t] >= Capacity(n) \div 2

\* test_and_set, if the table is half full: one thread at a time makes a new one.
TryResize(t) ==
  /\ pc[t] = "resize"
  /\ IF HalfFull(t, CurrentMainHash[t]) /\ ~HashResizeInProgressFlag
     THEN HashResizeInProgressFlag' = TRUE /\ Goto(t, "reload")
     ELSE UNCHANGED HashResizeInProgressFlag /\ Goto(t, "place")
  /\ UNCHANGED <<tables, EntriesCount, op, calls, locals, ghosts>>

\* Mutant: the new table is not looked at again under the flag.
ReloadUntested(t) ==
  /\ pc[t] = "reload"
  /\ CurrentMainHash' = [CurrentMainHash EXCEPT ![t] = MainHash]
  /\ Goto(t, "create")
  /\ UNCHANGED <<shared, op, calls, CurrentHash, Probes, NewCount, ghosts>>

\* Under the flag, look again: another thread may have made the room.
Reload(t) ==
  /\ pc[t] = "reload"
  /\ CurrentMainHash' = [CurrentMainHash EXCEPT ![t] = MainHash]
  /\ Goto(t, IF HalfFull(t, MainHash) THEN "create" ELSE "unflag")
  /\ UNCHANGED <<shared, op, calls, CurrentHash, Probes, NewCount, ghosts>>

\* Clear the flag, when no table was needed and after installing one.
Unflag(t) ==
  /\ pc[t] \in {"unflag", "clear"}
  /\ HashResizeInProgressFlag' = FALSE
  /\ Goto(t, "place")
  /\ UNCHANGED <<tables, EntriesCount, op, calls, locals, ghosts>>

\* NewCount <<= 1 while it is at least the old capacity: the loop never makes it
\* smaller, so it only ends when all its bits are gone.
Doubled(t) ==
  IF NewCount[t] >= Capacity(CurrentMainHash[t]) THEN 0 ELSE NewCount[t]

\* Make a table of twice the capacity and publish it.
Install(t) ==
  /\ pc[t] = "create"
  /\ tables' = Append(tables, NewHashNode(2 * Capacity(CurrentMainHash[t])))
  /\ NewCount' = [NewCount EXCEPT ![t] = Doubled(t)]
  /\ CurrentMainHash' = [CurrentMainHash EXCEPT ![t] = MainHash + 1]
  /\ Goto(t, "clear")
  /\ UNCHANGED <<EntriesCount, HashResizeInProgressFlag, op, calls, CurrentHash,
                 Probes, ghosts>>

\* The allocation of the table throws: the exception leaves the call at once.
CreateThrows(t) ==
  /\ pc[t] = "create"
  /\ Return(t, answer[t]) /\ threw' = TRUE
  /\ UNCHANGED <<shared, calls, latest>>

\* Mutant: an entry is placed whether or not there is room.
TestRoomAlways(t) ==
  /\ pc[t] = "place"
  /\ Probe0(t) /\ Goto(t, "claim")
  /\ UNCHANGED <<shared, op, calls, CurrentMainHash, CurrentHash, NewCount, ghosts>>

\* Place the entry if the table is less than three quarters full, else load
\* MainHash and start again.
TestRoom(t) ==
  LET cap == Capacity(CurrentMainHash[t])
  IN  /\ pc[t] = "place"
      /\ IF NewCount[t] < cap \div 2 + cap \div 4
         THEN Probe0(t) /\ Goto(t, "claim") /\ UNCHANGED CurrentMainHash
         ELSE /\ CurrentMainHash' = [CurrentMainHash EXCEPT ![t] = MainHash]
              /\ Goto(t, "resize") /\ UNCHANGED Probes
      /\ UNCHANGED <<shared, op, calls, CurrentHash, NewCount, ghosts>>

\* Claim the first free slot and store the value in it.
ClaimSlot(t) ==
  LET n == CurrentMainHash[t]
  IN  /\ pc[t] = "claim"
      /\ IF KeyAt(t, n) = INVALID_KEY
         THEN /\ Occupy(t, n, calls[t]) /\ Return(t, calls[t])
              /\ latest' = [latest EXCEPT ![t] = calls[t]]
         ELSE /\ Probes' = [Probes EXCEPT ![t] = (@ + 1) % Capacity(n)]
              /\ UNCHANGED <<tables, pc, op, CurrentMainHash, CurrentHash, NewCount,
                             latest, answer>>
      /\ UNCHANGED <<EntriesCount, HashResizeInProgressFlag, calls, threw>>

-----------------------------------------------------------------------------
InnerGetEntry(t) ==
  FindInMain(t) \/ FindInOlder(t) \/ PassSlot(t) \/ EndOfTable(t) \/ MigrateStep(t)

InnerAdd(t) ==
  \/ Count(t) \/ TryResize(t) \/ Reload(t) \/ Unflag(t) \/ Install(t)
  \/ CreateThrows(t) \/ TestRoom(t) \/ ClaimSlot(t)

Step(t) == InnerGetEntry(t) \/ InnerAdd(t)

\* Every call the model allows has been made.
Finished == (\A t \in Threads : pc[t] = "idle" /\ calls[t] = MaxCalls[t]) /\ UNCHANGED htVars

Next == (\E t \in Threads : Step(t) \/ \E o \in Ops : Call(t, o)) \/ Finished

Spec == InitTable /\ [][Next]_htVars

\* A thread inside a call keeps running; nobody has to begin a call.
FairSpec == Spec /\ \A t \in Threads : WF_htVars(Step(t))

-----------------------------------------------------------------------------
(* Properties *)

TypeOK ==
  /\ \A n \in 1..Len(tables) :
       tables[n].First \in [DOMAIN tables[n].First -> Threads \cup {INVALID_KEY}]
  /\ EntriesCount \in Nat
  /\ HashResizeInProgressFlag \in BOOLEAN /\ threw \in BOOLEAN
  /\ pc \in [Threads -> PCs] /\ op \in [Threads -> Ops]
  /\ \A t \in Threads : calls[t] \in 0..MaxCalls[t]
  /\ CurrentMainHash \in [Threads -> 1..Len(tables)]
  /\ CurrentHash \in [Threads -> 1..Len(tables)]

\* Whatever the others add and whichever tables they install, a thread outside
\* a call has the value it last added or set reachable from MainHash, and its
\* last call answered with it (InnerGetEntry, InnerAdd).
KeyFound ==
  \A t \in Threads : pc[t] = "idle" => Lookup(t) = latest[t] /\ answer[t] = latest[t]

\* Every table keeps a free slot: the probing loops, which have no other end
\* for an absent key, end (the tests at half and at three quarters in InnerAdd).
ProbesEnd ==
  \A n \in 1..Len(tables) : \E i \in DOMAIN tables[n].First :
    tables[n].First[i] = INVALID_KEY

\* One thread at a time makes a table, and the table it is about to replace is
\* still the newest and still half full for its count, although it saw it half
\* full before it got the flag (the second test in InnerAdd).  Only a call that
\* threw leaves the flag behind.
GrowthExclusive ==
  LET growing == {t \in Threads : pc[t] \in {"reload", "unflag", "create", "clear"}}
  IN  /\ Cardinality(growing) <= 1
      /\ HashResizeInProgressFlag => growing # {} \/ threw
      /\ \A t \in Threads : pc[t] = "create" =>
           CurrentMainHash[t] = MainHash /\ HalfFull(t, MainHash)

\* Every call returns, unless an allocation of a table threw once: the flag
\* then stays set and whoever finds no room waits for a table nobody makes.
CallsReturn == \A t \in Threads : pc[t] # "idle" ~> (pc[t] = "idle" \/ threw)
=============================================================================
