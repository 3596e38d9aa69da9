----------------------------- MODULE ClaimQueue -----------------------------
(***************************************************************************)
(* What the ticket protocol of a producer's sub-queue promises, with no    *)
(* tickets in it: items get consecutive indexes as they are published, and *)
(* a consumer acquires the lowest indexes nobody acquired before, all at   *)
(* once and only if they are published.                                    *)
(***************************************************************************)
EXTENDS Integers

CONSTANT Consumers

VARIABLES
  published,  \* number of items ever published; the next item's index
  acquired,   \* number of indexes ever handed to a consumer
  holding     \* for each consumer, the indexes it is reading

vars == <<published, acquired, holding>>

Init ==
  /\ published = 0
  /\ acquired = 0
  /\ holding = [c \in Consumers |-> {}]

Publish ==
  /\ published' \in Nat
  /\ published' > published
  /\ UNCHANGED <<acquired, holding>>

Acquire(c) ==
  /\ holding[c] = {}
  /\ \E n \in 0..(published - acquired) :
       /\ acquired' = acquired + n
       /\ holding' = [holding EXCEPT ![c] = acquired..(acquired + n - 1)]
  /\ UNCHANGED published

Release(c) ==
  /\ holding' = [holding EXCEPT ![c] = {}]
  /\ UNCHANGED <<published, acquired>>

Next ==
  \/ Publish
  \/ \E c \in Consumers : Acquire(c) \/ Release(c)

Spec == Init /\ [][Next]_vars
=============================================================================
