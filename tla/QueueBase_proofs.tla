--------------------------- MODULE QueueBase_proofs --------------------------
(***************************************************************************)
(* The ticket protocol of _QueueBase is correct for every number of        *)
(* consumers, every batch and request size and every bound: proofs of the  *)
(* invariants of QueueBase and of its implementation of ClaimQueue.        *)
(***************************************************************************)
EXTENDS QueueBase, FiniteSetTheorems, TLAPS

-----------------------------------------------------------------------------
(* Types. *)

\* The type invariant is inductive together with the bound that keeps the
\* argument of DequeueFailedCount.fetch_add from being negative.
TypeInv ==
  /\ TypeOK
  /\ \A c \in Consumers :
       pc[c] \in {"refund", "advance"} => ActualCount[c] <= DesiredCount[c]

\* The types hold when the queue is made.
LEMMA TypeInvInit == Init => TypeInv
BY DEF Init, TypeInv, TypeOK, Zero, PCs

\* Every step of producer and consumers keeps the types, and no refund exceeds
\* its claim.
LEMMA TypeInvNext == TypeInv /\ [Next]_vars => TypeInv'
<1> SUFFICES ASSUME TypeInv, [Next]_vars PROVE TypeInv'
  OBVIOUS
<1> USE QueueBaseAssumption DEF TypeInv, TypeOK, PCs
<1>1. ASSUME NEW n \in Batches, Publish(n) PROVE TypeInv'
  BY <1>1 DEF Publish, locals, history
<1>2. ASSUME NEW c \in Consumers, NEW max \in Requests, BeginDequeue(c, max) PROVE TypeInv'
  BY <1>2 DEF BeginDequeue, Goto, counters, history
<1>3. ASSUME NEW c \in Consumers, PeekAttempts(c) PROVE TypeInv'
  BY <1>3 DEF PeekAttempts, Goto, counters, history
<1>4. ASSUME NEW c \in Consumers, PeekTail(c) PROVE TypeInv'
  BY <1>4 DEF PeekTail, Goto, counters, history
<1>5. ASSUME NEW c \in Consumers, ReportEmpty(c) PROVE TypeInv'
  BY <1>5 DEF ReportEmpty, Return, Goto, counters, history
<1>6. ASSUME NEW c \in Consumers, Claim(c) PROVE TypeInv'
  BY <1>6 DEF Claim, Available, Lesser, Goto, history
<1>7. ASSUME NEW c \in Consumers, Check(c) PROVE TypeInv'
  BY <1>7 DEF Check, Available, Lesser, Goto, counters, history
<1>8. ASSUME NEW c \in Consumers, Refund(c) PROVE TypeInv'
  <2>1. ActualCount[c] <= DesiredCount[c]
    BY <1>8 DEF Refund
  <2>2. DequeueFailedCount' \in Nat
    BY <1>8, <2>1 DEF Refund
  <2>3. refunded' \in SUBSET Nat
    <3>1. AttemptsCount[c] \in Nat /\ ActualCount[c] \in Nat /\ DesiredCount[c] \in Nat
      OBVIOUS
    <3>2. Surplus(c) \subseteq Nat
      BY <3>1, SMT DEF Surplus
    <3>3. QED
      BY <1>8, <3>2 DEF Refund
  <2>4. CASE ActualCount[c] = 0
    <3>1. Return(c) /\ UNCHANGED <<HeadIndex, TailIndex, DequeueAttemptsCount, taken>>
      BY <1>8, <2>4 DEF Refund
    <3>2. QED
      BY <2>2, <2>3, <3>1 DEF Return, Goto
  <2>5. CASE ActualCount[c] # 0
    BY <1>8, <2>2, <2>3, <2>5 DEF Refund, Goto, locals
  <2>6. QED
    BY <2>4, <2>5
<1>9. ASSUME NEW c \in Consumers, Advance(c) PROVE TypeInv'
  <2>1. AttemptsCount[c] \in Nat /\ ActualCount[c] \in Nat
    OBVIOUS
  <2>2. Kept(c) \subseteq Nat
    BY <2>1, SMT DEF Kept
  <2>3. taken' \in SUBSET Nat
    BY <1>9, <2>2 DEF Advance
  <2>4. QED
    BY <1>9, <2>3 DEF Advance, Goto
<1>10. ASSUME NEW c \in Consumers, Take(c) PROVE TypeInv'
  BY <1>10 DEF Take, Return, Goto, counters, history
<1>11. CASE UNCHANGED vars
  BY <1>11 DEF vars, counters, locals, history
<1> HIDE DEF TypeInv, TypeOK, PCs
<1>12. QED
  <2>1. CASE Next
    <3>1. CASE \E n \in Batches : Publish(n)
      BY <1>1, <3>1
    <3>2. CASE \E c \in Consumers, max \in Requests : BeginDequeue(c, max)
      BY <1>2, <3>2
    <3>3. ASSUME NEW c \in Consumers, DequeueStep(c) PROVE TypeInv'
      BY <1>3, <1>4, <1>5, <1>6, <1>7, <1>8, <1>9, <1>10, <3>3 DEF DequeueStep
    <3>4. QED
      BY <2>1, <3>1, <3>2, <3>3 DEF Next
  <2>2. QED
    BY <1>11, <2>1

\* Every variable of the protocol keeps its type.
THEOREM TypeCorrect == Spec => []TypeOK
<1>1. TypeInv => TypeOK
  BY DEF TypeInv
<1>2. QED
  BY TypeInvInit, TypeInvNext, <1>1, PTL DEF Spec

-----------------------------------------------------------------------------
(* Counting tickets. *)

\* Only finitely many tickets lie below a given one.
LEMMA BelowFinite ==
  ASSUME NEW S, NEW t \in Int
  PROVE  IsFiniteSet(S \intersect (0..(t - 1))) /\ Cardinality(S \intersect (0..(t - 1))) \in Nat
<1>1. IsFiniteSet(0..(t - 1))
  BY FS_Interval
<1>2. IsFiniteSet(S \intersect (0..(t - 1)))
  BY <1>1, FS_Subset, S \intersect (0..(t - 1)) \in SUBSET (0..(t - 1))
<1>3. QED
  BY <1>2, FS_CardinalityType

\* More tickets handed back, or a higher limit, cannot lower their number.
LEMMA BelowMonotone ==
  ASSUME NEW R, NEW S, R \subseteq S, NEW t \in Int, NEW u \in Int, t <= u
  PROVE  Cardinality(R \intersect (0..(t - 1))) <= Cardinality(S \intersect (0..(u - 1)))
<1>1. R \intersect (0..(t - 1)) \in SUBSET (S \intersect (0..(u - 1)))
  OBVIOUS
<1>2. QED
  BY <1>1, BelowFinite, FS_Subset

\* A range of n fresh tickets adds n to the count.
LEMMA AddRange ==
  ASSUME NEW S, IsFiniteSet(S), NEW a \in Int, NEW b \in Int, a <= b + 1,
         S \intersect (a..b) = {}
  PROVE  /\ IsFiniteSet(S \union (a..b))
         /\ Cardinality(S \union (a..b)) = Cardinality(S) + (b - a + 1)
<1>1. IsFiniteSet(a..b) /\ Cardinality(a..b) = b - a + 1
  BY FS_Interval
<1>2. Cardinality(S \intersect (a..b)) = 0
  BY FS_EmptySet
<1>3. Cardinality(S) \in Nat
  BY FS_CardinalityType
<1>4. /\ IsFiniteSet(S \union (a..b))
      /\ Cardinality(S \union (a..b)) = Cardinality(S) + Cardinality(a..b) - Cardinality(S \intersect (a..b))
  BY <1>1, FS_Union
<1>5. QED
  BY <1>1, <1>2, <1>3, <1>4

\* Two disjoint sets of tickets below m share m places.
LEMMA SharedRoom ==
  ASSUME NEW R, NEW S, NEW m \in Nat, S \subseteq 0..(m - 1), R \intersect S = {}
  PROVE  Cardinality(S) + Cardinality(R \intersect (0..(m - 1))) <= m
<1> DEFINE B == R \intersect (0..(m - 1))
<1>1. IsFiniteSet(0..(m - 1)) /\ Cardinality(0..(m - 1)) = m
  BY FS_Interval
<1>2. IsFiniteSet(S) /\ IsFiniteSet(B)
  BY <1>1, FS_Subset, S \in SUBSET (0..(m - 1)), B \in SUBSET (0..(m - 1))
<1>3. S \intersect B = {}
  OBVIOUS
<1>4. Cardinality(S \union B) = Cardinality(S) + Cardinality(B) - Cardinality(S \intersect B)
  BY <1>2, FS_Union
<1>5. Cardinality(S \intersect B) = 0
  BY <1>3, FS_EmptySet
<1>6. Cardinality(S) \in Nat /\ Cardinality(B) \in Nat
  BY <1>2, FS_CardinalityType
<1>7. Cardinality(S \union B) <= m
  BY <1>1, FS_Subset, S \union B \in SUBSET (0..(m - 1))
<1>8. QED
  BY <1>4, <1>5, <1>6, <1>7

\* There are n tickets below n.
LEMMA RangeSize ==
  ASSUME NEW n \in Nat
  PROVE  IsFiniteSet(0..(n - 1)) /\ Cardinality(0..(n - 1)) = n
BY FS_Interval

\* Of any set of tickets, at most t lie below t.
LEMMA BelowBounded ==
  ASSUME NEW S, NEW t \in Nat
  PROVE  Cardinality(S \intersect (0..(t - 1))) <= t
<1>1. S \intersect (0..(t - 1)) \in SUBSET (0..(t - 1))
  OBVIOUS
<1>2. QED
  BY <1>1, RangeSize, FS_Subset

-----------------------------------------------------------------------------
(* Tickets are settled once. *)

\* A new queue has issued no ticket.
LEMMA TicketsSettledInit == Init => TicketsSettledOnce
BY DEF Init, TicketsSettledOnce, Open, Claimed

\* fetch_add issues a ticket once, and only its owner uses it or hands it back.
LEMMA TicketsSettledNext ==
  ASSUME TypeInv, TicketsSettledOnce, [Next]_vars
  PROVE  TicketsSettledOnce'
<1> DEFINE A == DequeueAttemptsCount
<1> USE DEF TypeInv, TypeOK
\* Steps that leave every ticket where it is.
<1>1. ASSUME UNCHANGED <<A, taken, refunded>>, \A d \in Consumers : Open(d)' = Open(d)
      PROVE  TicketsSettledOnce'
  BY <1>1 DEF TicketsSettledOnce
<1>2. ASSUME NEW n \in Batches, Publish(n) PROVE TicketsSettledOnce'
  BY <1>1, <1>2 DEF Publish, locals, history, Open, Claimed
<1>3. ASSUME NEW c \in Consumers, NEW max \in Requests, BeginDequeue(c, max)
      PROVE  TicketsSettledOnce'
  BY <1>1, <1>3 DEF BeginDequeue, Goto, counters, history, Open, Claimed
<1>4. ASSUME NEW c \in Consumers, PeekAttempts(c) PROVE TicketsSettledOnce'
  BY <1>1, <1>4 DEF PeekAttempts, Goto, counters, history, Open, Claimed
<1>5. ASSUME NEW c \in Consumers, PeekTail(c) PROVE TicketsSettledOnce'
  BY <1>1, <1>5 DEF PeekTail, Goto, counters, history, Open, Claimed
<1>6. ASSUME NEW c \in Consumers, ReportEmpty(c) PROVE TicketsSettledOnce'
  BY <1>1, <1>6 DEF ReportEmpty, Return, Goto, counters, history, Open, Claimed
\* Fresh tickets.
<1>7. ASSUME NEW c \in Consumers, Claim(c) PROVE TicketsSettledOnce'
  <2> DEFINE n == Lesser(Available(c, SeenTail[c]), DesiredCount[c])
  <2>1. n \in Nat /\ A \in Nat
    BY <1>7 DEF Claim, Available, Lesser
  <2>2. A' = A + n /\ UNCHANGED <<taken, refunded>>
    BY <1>7 DEF Claim, history
  <2>3. Open(c) = {} /\ Open(c)' = A..(A + n - 1)
    BY <1>7 DEF Claim, Goto, Open, Claimed
  <2>4. \A d \in Consumers \ {c} : Open(d)' = Open(d)
    BY <1>7 DEF Claim, Goto, Open, Claimed
  <2> HIDE DEF n
  <2>5. \A d \in Consumers : Open(d) \intersect (A..(A + n - 1)) = {}
    BY <2>1 DEF TicketsSettledOnce
  <2>6. /\ (taken \union refunded) \intersect (A..(A + n - 1)) = {}
        /\ 0..(A - 1) \subseteq 0..(A' - 1)
        /\ A..(A + n - 1) \subseteq 0..(A' - 1)
        /\ \A t \in 0..(A' - 1) : t \in 0..(A - 1) \/ t \in A..(A + n - 1)
    BY <2>1, <2>2 DEF TicketsSettledOnce
  <2> HIDE DEF A
  <2>7. /\ taken' \subseteq 0..(A' - 1)
        /\ refunded' \subseteq 0..(A' - 1)
        /\ taken' \intersect refunded' = {}
    BY <2>2, <2>6 DEF TicketsSettledOnce, A
  <2>8. ASSUME NEW d \in Consumers
        PROVE  /\ Open(d)' \subseteq 0..(A' - 1)
               /\ Open(d)' \intersect (taken' \union refunded') = {}
    <3>1. CASE d = c
      BY <2>2, <2>3, <2>6, <3>1
    <3>2. CASE d # c
      BY <2>2, <2>4, <2>6, <3>2 DEF TicketsSettledOnce, A
    <3>3. QED
      BY <3>1, <3>2
  <2>9. ASSUME NEW d \in Consumers, NEW e \in Consumers \ {d}
        PROVE  Open(d)' \intersect Open(e)' = {}
    <3>1. CASE d = c
      BY <2>3, <2>4, <2>5, <3>1
    <3>2. CASE e = c
      BY <2>3, <2>4, <2>5, <3>2
    <3>3. CASE d # c /\ e # c
      BY <2>4, <3>3 DEF TicketsSettledOnce
    <3>4. QED
      BY <3>1, <3>2, <3>3
  <2>10. ASSUME NEW t \in 0..(A' - 1)
         PROVE  t \in taken' \union refunded' \/ \E d \in Consumers : t \in Open(d)'
    <3>1. CASE t \in A..(A + n - 1)
      BY <2>3, <3>1
    <3>2. CASE t \in 0..(A - 1)
      <4>1. PICK d \in Consumers : t \in taken \union refunded \/ t \in Open(d)
        BY <3>2 DEF TicketsSettledOnce, A
      <4>2. QED
        BY <2>2, <2>3, <2>4, <4>1
    <3>3. QED
      BY <2>6, <3>1, <3>2
  <2>11. QED
    BY <2>7, <2>8, <2>9, <2>10 DEF TicketsSettledOnce, A
<1>8. ASSUME NEW c \in Consumers, Check(c) PROVE TicketsSettledOnce'
  <2>1. Open(c)' = Open(c)
    BY <1>8 DEF Check, Goto, Open, Claimed, PCs
  <2>2. \A d \in Consumers \ {c} : Open(d)' = Open(d)
    BY <1>8 DEF Check, Goto, Open, Claimed
  <2>3. QED
    BY <1>1, <1>8, <2>1, <2>2 DEF Check, counters, history
\* Tickets handed back.
<1>9. ASSUME NEW c \in Consumers, Refund(c) PROVE TicketsSettledOnce'
  <2>1. /\ AttemptsCount[c] \in Nat /\ ActualCount[c] \in Nat /\ DesiredCount[c] \in Nat
        /\ ActualCount[c] <= DesiredCount[c]
    BY <1>9 DEF Refund
  <2>2. Open(c) = Kept(c) \union Surplus(c) /\ Kept(c) \intersect Surplus(c) = {}
    BY <1>9, <2>1 DEF Refund, Open, Claimed, Kept, Surplus
  <2>3. Open(c)' = Kept(c)
    <3>1. CASE ActualCount[c] = 0
      BY <1>9, <2>1, <3>1 DEF Refund, Return, Goto, Open, Claimed, Kept
    <3>2. CASE ActualCount[c] # 0
      BY <1>9, <2>1, <3>2 DEF Refund, Goto, locals, Open, Claimed, Kept
    <3>3. QED
      BY <3>1, <3>2
  <2>4. \A d \in Consumers \ {c} : Open(d)' = Open(d)
    BY <1>9 DEF Refund, Return, Goto, locals, Open, Claimed
  <2>5. UNCHANGED <<A, taken>> /\ refunded' = refunded \union Surplus(c)
    BY <1>9 DEF Refund
  <2>6. /\ taken' \subseteq 0..(A - 1)
        /\ refunded' \subseteq 0..(A - 1)
        /\ taken' \intersect refunded' = {}
    BY <2>2, <2>3, <2>4, <2>5 DEF TicketsSettledOnce
  <2>7. Open(c)' \subseteq Open(c)
    BY <2>2, <2>3
  <2>8. ASSUME NEW d \in Consumers
        PROVE  /\ Open(d)' \subseteq 0..(A - 1)
               /\ Open(d)' \intersect (taken' \union refunded') = {}
               /\ \A e \in Consumers \ {d} : Open(d)' \intersect Open(e)' = {}
    <3>1. /\ Open(d)' \subseteq Open(d)
          /\ \A e \in Consumers : Open(e)' \subseteq Open(e)
      BY <2>4, <2>7
    <3>2. Open(d)' \intersect (taken' \union refunded') = {}
      <4>1. CASE d = c
        BY <2>2, <2>3, <2>4, <2>5, <4>1 DEF TicketsSettledOnce
      <4>2. CASE d # c
        BY <2>2, <2>3, <2>4, <2>5, <3>1, <4>2 DEF TicketsSettledOnce
      <4>3. QED
        BY <4>1, <4>2
    <3>3. QED
      BY <3>1, <3>2 DEF TicketsSettledOnce
  <2>9. ASSUME NEW t \in 0..(A - 1)
        PROVE  t \in taken' \union refunded' \/ \E d \in Consumers : t \in Open(d)'
    <3>1. PICK d \in Consumers : t \in taken \union refunded \/ t \in Open(d)
      BY DEF TicketsSettledOnce
    <3>2. CASE d = c
      BY <2>2, <2>3, <2>4, <2>5, <3>1, <3>2
    <3>3. CASE d # c
      BY <2>2, <2>3, <2>4, <2>5, <3>1, <3>3
    <3>4. QED
      BY <3>2, <3>3
  <2>10. QED
    BY <2>5, <2>6, <2>8, <2>9 DEF TicketsSettledOnce
\* Tickets exchanged for indexes.
<1>10. ASSUME NEW c \in Consumers, Advance(c) PROVE TicketsSettledOnce'
  <2>1. Open(c) = Kept(c) /\ Open(c)' = {}
    BY <1>10 DEF Advance, Goto, Open, Claimed, Kept
  <2>2. \A d \in Consumers \ {c} : Open(d)' = Open(d)
    BY <1>10 DEF Advance, Goto, Open, Claimed
  <2>3. UNCHANGED <<A, refunded>> /\ taken' = taken \union Kept(c)
    BY <1>10 DEF Advance
  <2>4. /\ taken' \subseteq 0..(A - 1)
        /\ refunded' \subseteq 0..(A - 1)
        /\ taken' \intersect refunded' = {}
    <3>1. Kept(c) \subseteq 0..(A - 1) /\ Kept(c) \intersect refunded = {}
      BY <2>1 DEF TicketsSettledOnce
    <3>2. QED
      BY <2>3, <3>1 DEF TicketsSettledOnce
  <2>5. Open(c)' \subseteq Open(c)
    BY <2>1
  <2>6. ASSUME NEW d \in Consumers
        PROVE  /\ Open(d)' \subseteq 0..(A - 1)
               /\ Open(d)' \intersect (taken' \union refunded') = {}
               /\ \A e \in Consumers \ {d} : Open(d)' \intersect Open(e)' = {}
    <3>1. /\ Open(d)' \subseteq Open(d)
          /\ \A e \in Consumers : Open(e)' \subseteq Open(e)
      BY <2>2, <2>5
    <3>2. Open(d)' \intersect (taken' \union refunded') = {}
      <4>1. CASE d = c
        BY <2>1, <2>2, <2>3, <4>1 DEF TicketsSettledOnce
      <4>2. CASE d # c
        BY <2>1, <2>2, <2>3, <3>1, <4>2 DEF TicketsSettledOnce
      <4>3. QED
        BY <4>1, <4>2
    <3>3. QED
      BY <3>1, <3>2 DEF TicketsSettledOnce
  <2>7. ASSUME NEW t \in 0..(A - 1)
        PROVE  t \in taken' \union refunded' \/ \E d \in Consumers : t \in Open(d)'
    <3>1. PICK d \in Consumers : t \in taken \union refunded \/ t \in Open(d)
      BY DEF TicketsSettledOnce
    <3>2. CASE d = c
      BY <2>1, <2>2, <2>3, <3>1, <3>2
    <3>3. CASE d # c
      BY <2>1, <2>2, <2>3, <3>1, <3>3
    <3>4. QED
      BY <3>2, <3>3
  <2>8. QED
    BY <2>3, <2>4, <2>6, <2>7 DEF TicketsSettledOnce
<1>11. ASSUME NEW c \in Consumers, Take(c) PROVE TicketsSettledOnce'
  BY <1>1, <1>11 DEF Take, Return, Goto, counters, history, Open, Claimed
<1>12. CASE UNCHANGED vars
  BY <1>1, <1>12 DEF vars, counters, locals, history, Open, Claimed
<1>13. QED
  <2>1. CASE Next
    BY <1>2, <1>3, <1>4, <1>5, <1>6, <1>7, <1>8, <1>9, <1>10, <1>11, <2>1 DEF Next, DequeueStep
  <2>2. QED
    BY <1>12, <2>1
-----------------------------------------------------------------------------
(* The counters count tickets. *)

\* Tickets taken and handed back are finitely many, and those handed back were issued.
LEMMA TicketsFinite ==
  ASSUME TypeInv, TicketsSettledOnce
  PROVE  /\ IsFiniteSet(taken) /\ Cardinality(taken) \in Nat
         /\ IsFiniteSet(refunded) /\ Cardinality(refunded) \in Nat
         /\ Cardinality(refunded) <= DequeueAttemptsCount
         /\ RefundedBelow(DequeueAttemptsCount) = refunded
<1>1. DequeueAttemptsCount \in Nat
  BY DEF TypeInv, TypeOK
<1>2. /\ IsFiniteSet(0..(DequeueAttemptsCount - 1))
      /\ Cardinality(0..(DequeueAttemptsCount - 1)) = DequeueAttemptsCount
  BY <1>1, FS_Interval
<1>3. /\ taken \in SUBSET (0..(DequeueAttemptsCount - 1))
      /\ refunded \in SUBSET (0..(DequeueAttemptsCount - 1))
  BY DEF TicketsSettledOnce
<1>4. /\ IsFiniteSet(taken) /\ IsFiniteSet(refunded)
      /\ Cardinality(refunded) <= DequeueAttemptsCount
  BY <1>2, <1>3, FS_Subset
<1>5. RefundedBelow(DequeueAttemptsCount) = refunded
  BY <1>3 DEF RefundedBelow
<1>6. QED
  BY <1>4, <1>5, FS_CardinalityType

\* No step gives a ticket back twice or takes one back.
LEMMA RefundedGrows ==
  ASSUME [Next]_vars
  PROVE  refunded \subseteq refunded'
<1>1. ASSUME NEW c \in Consumers, Refund(c) PROVE refunded \subseteq refunded'
  BY <1>1 DEF Refund
<1>2. CASE UNCHANGED vars
  BY <1>2 DEF vars, history
<1>3. QED
  BY <1>1, <1>2 DEF Next, DequeueStep, Publish, BeginDequeue, PeekAttempts, PeekTail,
     ReportEmpty, Claim, Check, Advance, Take, history

\* Every fetch_add on the four counters counts the tickets it stands for.
LEMMA CountersMatchNext ==
  ASSUME TypeInv, TicketInv, [Next]_vars
  PROVE  CountersMatch'
<1>1. IsFiniteSet(taken) /\ IsFiniteSet(refunded)
  BY TicketsFinite DEF TicketInv
<1>2. ASSUME NEW c \in Consumers, Refund(c) PROVE CountersMatch'
  <2> DEFINE a == AttemptsCount[c] + ActualCount[c]
             b == AttemptsCount[c] + DesiredCount[c] - 1
  <2>1. /\ AttemptsCount[c] \in Nat /\ ActualCount[c] \in Nat /\ DesiredCount[c] \in Nat
        /\ ActualCount[c] <= DesiredCount[c]
    BY <1>2 DEF Refund, TypeInv, TypeOK
  <2>2. (a..b) \subseteq Open(c)
    BY <1>2, <2>1 DEF Refund, Open, Claimed
  <2>3. refunded \intersect (a..b) = {}
    BY <2>2 DEF TicketInv, TicketsSettledOnce
  <2>4. refunded' = refunded \union (a..b)
    BY <1>2 DEF Refund, Surplus
  <2>5. a \in Int /\ b \in Int /\ a <= b + 1 /\ b - a + 1 = DesiredCount[c] - ActualCount[c]
    BY <2>1
  <2> HIDE DEF a, b
  <2>6. Cardinality(refunded') = Cardinality(refunded) + (DesiredCount[c] - ActualCount[c])
    <3>1. Cardinality(refunded \union (a..b)) = Cardinality(refunded) + (b - a + 1)
      BY <1>1, <2>3, <2>5, AddRange
    <3>2. QED
      BY <2>4, <2>5, <3>1
  <2>7. QED
    BY <1>2, <2>6 DEF Refund, TicketInv, CountersMatch
<1>3. ASSUME NEW c \in Consumers, Advance(c) PROVE CountersMatch'
  <2> DEFINE a == AttemptsCount[c]
             b == AttemptsCount[c] + ActualCount[c] - 1
  <2>1. AttemptsCount[c] \in Nat /\ ActualCount[c] \in Nat
    BY DEF TypeInv, TypeOK
  <2>2. (a..b) = Open(c)
    BY <1>3 DEF Advance, Open, Claimed
  <2>3. taken \intersect (a..b) = {}
    BY <2>2 DEF TicketInv, TicketsSettledOnce
  <2>4. taken' = taken \union (a..b)
    BY <1>3 DEF Advance, Kept
  <2>5. a \in Int /\ b \in Int /\ a <= b + 1 /\ b - a + 1 = ActualCount[c]
    BY <2>1
  <2> HIDE DEF a, b
  <2>6. Cardinality(taken') = Cardinality(taken) + ActualCount[c]
    <3>1. Cardinality(taken \union (a..b)) = Cardinality(taken) + (b - a + 1)
      BY <1>1, <2>3, <2>5, AddRange
    <3>2. QED
      BY <2>4, <2>5, <3>1
  <2>7. QED
    BY <1>3, <2>6 DEF Advance, TicketInv, CountersMatch
<1>4. CASE UNCHANGED <<HeadIndex, DequeueFailedCount, taken, refunded>>
  BY <1>4 DEF TicketInv, CountersMatch
<1>5. QED
  BY <1>2, <1>3, <1>4 DEF Next, DequeueStep, Publish, BeginDequeue, PeekAttempts, PeekTail,
     ReportEmpty, Claim, Check, Take, history, counters, vars

-----------------------------------------------------------------------------
(* A consumer knows only of failures below its tickets. *)

\* A DequeueFailedCount loaded before the claim counts only failures that the
\* claim comes after.
LEMMA FailuresKnownNext ==
  ASSUME TypeInv, TypeInv', TicketInv, [Next]_vars
  PROVE  FailuresKnown'
<1> DEFINE A == DequeueAttemptsCount
           Known(c) ==
             /\ pc[c] # "idle" => FailedCount[c] <= DequeueFailedCount
             /\ pc[c] \in {"peekTail", "peeked"} => FailedCount[c] <= AttemptsCount[c]
             /\ Claimed(c) => FailedCount[c] <= Cardinality(RefundedBelow(AttemptsCount[c]))
<1>t. /\ A \in Nat /\ DequeueFailedCount \in Nat /\ DequeueFailedCount' \in Nat
      /\ pc \in [Consumers -> PCs]
      /\ FailedCount \in [Consumers -> Nat] /\ AttemptsCount \in [Consumers -> Nat]
      /\ ActualCount \in [Consumers -> Nat]
  BY DEF TypeInv, TypeOK
<1>k. FailuresKnown
  BY DEF TicketInv
<1> USE <1>t
<1>0. DequeueFailedCount <= DequeueFailedCount' /\ DequeueFailedCount <= A
  <2>1. DequeueFailedCount <= A
    BY TicketsFinite DEF TicketInv, CountersMatch
  <2>2. ASSUME NEW c \in Consumers, Refund(c) PROVE DequeueFailedCount <= DequeueFailedCount'
    BY <2>2 DEF Refund, TypeInv, TypeOK
  <2>3. CASE DequeueFailedCount' = DequeueFailedCount
    BY <2>1, <2>3
  <2>4. QED
    BY <2>1, <2>2, <2>3 DEF Next, DequeueStep, Publish, BeginDequeue, PeekAttempts, PeekTail,
       ReportEmpty, Claim, Check, Advance, Take, counters, vars
\* The set of failures below a ticket only grows.
<1>1. \A t \in Int :
        /\ Cardinality(refunded \intersect (0..(t - 1))) \in Nat
        /\ Cardinality(refunded' \intersect (0..(t - 1))) \in Nat
        /\ Cardinality(refunded \intersect (0..(t - 1))) <= Cardinality(refunded' \intersect (0..(t - 1)))
  <2> TAKE t \in Int
  <2>1. refunded \subseteq refunded'
    BY RefundedGrows
  <2>2. t <= t
    OBVIOUS
  <2>3. QED
    BY <2>1, <2>2, BelowFinite, BelowMonotone
\* Consumers that do not move.
<1>2. ASSUME NEW d \in Consumers,
             pc'[d] = pc[d] \/ (pc[d] = "refund" /\ pc'[d] = "advance"),
             FailedCount'[d] = FailedCount[d], AttemptsCount'[d] = AttemptsCount[d]
      PROVE  Known(d)'
  <2>1. AttemptsCount[d] \in Int
    OBVIOUS
  <2>2. Claimed(d)' => Claimed(d)
    BY <1>2 DEF Claimed
  <2>3. RefundedBelow(AttemptsCount[d])' = refunded' \intersect (0..(AttemptsCount[d] - 1))
    BY <1>2 DEF RefundedBelow
  <2>4. Claimed(d)' => FailedCount'[d] <= Cardinality(RefundedBelow(AttemptsCount[d]))'
    <3> SUFFICES ASSUME Claimed(d)' PROVE FailedCount'[d] <= Cardinality(RefundedBelow(AttemptsCount[d]))'
      OBVIOUS
    <3>1. FailedCount[d] <= Cardinality(refunded \intersect (0..(AttemptsCount[d] - 1)))
      BY <1>k, <2>2 DEF RefundedBelow, FailuresKnown
    <3>2. FailedCount[d] \in Nat
      OBVIOUS
    <3>3. FailedCount[d] <= Cardinality(refunded' \intersect (0..(AttemptsCount[d] - 1)))
      <4> DEFINE r == Cardinality(refunded \intersect (0..(AttemptsCount[d] - 1)))
                 s == Cardinality(refunded' \intersect (0..(AttemptsCount[d] - 1)))
      <4>1. r \in Nat /\ s \in Nat /\ r <= s
        BY <1>1, <2>1
      <4>2. FailedCount[d] <= r
        BY <3>1
      <4> HIDE DEF r, s
      <4>3. FailedCount[d] <= s
        BY <3>2, <4>1, <4>2
      <4>4. QED
        BY <4>3 DEF s
    <3>4. QED
      BY <1>2, <2>3, <3>3
  <2>5. QED
    BY <1>0, <1>2, <1>k, <2>4 DEF FailuresKnown
\* A consumer that leaves its call.
<1>3. ASSUME NEW d \in Consumers, pc'[d] \in {"idle", "take"}, FailedCount'[d] \in {0, FailedCount[d]},
             pc[d] # "idle"
      PROVE  Known(d)'
  BY <1>0, <1>3, <1>k DEF Claimed, FailuresKnown
<1>4. ASSUME NEW n \in Batches, Publish(n) PROVE FailuresKnown'
  BY <1>2, <1>4 DEF Publish, locals, FailuresKnown
<1>5. ASSUME NEW c \in Consumers, NEW max \in Requests, BeginDequeue(c, max) PROVE FailuresKnown'
  <2>1. Known(c)'
    BY <1>0, <1>5 DEF BeginDequeue, Goto, Claimed, counters
  <2>2. QED
    BY <1>2, <1>5, <2>1 DEF BeginDequeue, Goto, FailuresKnown
<1>6. ASSUME NEW c \in Consumers, PeekAttempts(c) PROVE FailuresKnown'
  <2>1. Known(c)'
    BY <1>k, <1>0, <1>6 DEF PeekAttempts, Goto, Claimed, counters, FailuresKnown
  <2>2. QED
    BY <1>2, <1>6, <2>1 DEF PeekAttempts, Goto, FailuresKnown
<1>7. ASSUME NEW c \in Consumers, PeekTail(c) PROVE FailuresKnown'
  <2>1. Known(c)'
    BY <1>k, <1>0, <1>7 DEF PeekTail, Goto, Claimed, counters, FailuresKnown
  <2>2. QED
    BY <1>2, <1>7, <2>1 DEF PeekTail, Goto, FailuresKnown
<1>8. ASSUME NEW c \in Consumers, ReportEmpty(c) PROVE FailuresKnown'
  <2>1. Known(c)'
    BY <1>3, <1>8 DEF ReportEmpty, Return, Goto
  <2>2. QED
    BY <1>2, <1>8, <2>1 DEF ReportEmpty, Return, Goto, FailuresKnown
<1>9. ASSUME NEW c \in Consumers, Claim(c) PROVE FailuresKnown'
  <2>1. /\ pc'[c] = "check" /\ FailedCount'[c] = FailedCount[c] /\ AttemptsCount'[c] = A
        /\ UNCHANGED <<refunded, DequeueFailedCount>> /\ FailedCount[c] <= DequeueFailedCount
    BY <1>k, <1>9 DEF Claim, Goto, history, FailuresKnown
  <2>2. Cardinality(RefundedBelow(AttemptsCount[c]))' = Cardinality(refunded)
    BY <2>1, TicketsFinite DEF RefundedBelow, TicketInv
  <2>3. Known(c)'
    BY <2>1, <2>2 DEF TicketInv, CountersMatch
  <2>4. QED
    BY <1>2, <1>9, <2>3 DEF Claim, Goto, FailuresKnown
<1>10. ASSUME NEW c \in Consumers, Check(c) PROVE FailuresKnown'
  <2>1. FailedCount'[c] = 0 /\ pc'[c] \in {"refund", "advance"} /\ UNCHANGED <<refunded, AttemptsCount, DequeueFailedCount>>
    BY <1>10 DEF Check, Goto, counters, history
  <2>2. Cardinality(RefundedBelow(AttemptsCount[c]))' \in Nat
    BY <1>1, <2>1 DEF RefundedBelow
  <2>3. Known(c)'
    BY <2>1, <2>2
  <2>4. QED
    BY <1>2, <1>10, <2>3 DEF Check, Goto, FailuresKnown
<1>11. ASSUME NEW c \in Consumers, Refund(c) PROVE FailuresKnown'
  <2>1. CASE ActualCount[c] = 0
    <3>1. Return(c) /\ pc[c] # "idle"
      BY <1>11, <2>1 DEF Refund
    <3>2. Known(c)'
      BY <1>3, <3>1 DEF Return, Goto
    <3>3. QED
      BY <1>2, <3>1, <3>2 DEF Return, Goto, FailuresKnown
  <2>2. CASE ActualCount[c] # 0
    BY <1>2, <1>11, <2>2 DEF Refund, Goto, locals, FailuresKnown
  <2>3. QED
    BY <2>1, <2>2
<1>12. ASSUME NEW c \in Consumers, Advance(c) PROVE FailuresKnown'
  <2>1. Known(c)'
    BY <1>3, <1>12 DEF Advance, Goto
  <2>2. QED
    BY <1>2, <1>12, <2>1 DEF Advance, Goto, FailuresKnown
<1>13. ASSUME NEW c \in Consumers, Take(c) PROVE FailuresKnown'
  <2>1. Known(c)'
    BY <1>3, <1>13 DEF Take, Return, Goto
  <2>2. QED
    BY <1>2, <1>13, <2>1 DEF Take, Return, Goto, FailuresKnown
<1>14. CASE UNCHANGED vars
  BY <1>2, <1>14 DEF vars, locals, FailuresKnown
<1>15. QED
  <2>1. CASE Next
    BY <1>4, <1>5, <1>6, <1>7, <1>8, <1>9, <1>10, <1>11, <1>12, <1>13, <2>1 DEF Next, DequeueStep
  <2>2. QED
    BY <1>14, <2>1
-----------------------------------------------------------------------------
(* A granted ticket is bounded by the tail and the failures below it. *)

\* What GrantsBounded says of a consumer that keeps tickets, and of the taken
\* tickets as a whole.
Bounded(c) ==
  pc[c] \in {"refund", "advance"} /\ ActualCount[c] > 0
    => AttemptsCount[c] + ActualCount[c]
         <= TailIndex + Cardinality(RefundedBelow(AttemptsCount[c]))

TakenBelow(m) ==
  /\ taken \subseteq 0..(m - 1)
  /\ m <= TailIndex + Cardinality(RefundedBelow(m))

\* The test against TailIndex after the claim keeps the bound on granted tickets.
LEMMA GrantsBoundedNext ==
  ASSUME TypeInv, TypeInv', TicketInv, [Next]_vars
  PROVE  GrantsBounded'
<1> DEFINE A == DequeueAttemptsCount
           Below(R, t) == Cardinality(R \intersect (0..(t - 1)))
<1>t. /\ A \in Nat /\ A' \in Nat /\ TailIndex \in Nat /\ TailIndex' \in Nat
      /\ pc \in [Consumers -> PCs]
      /\ FailedCount \in [Consumers -> Nat] /\ AttemptsCount \in [Consumers -> Nat]
      /\ ActualCount \in [Consumers -> Nat] /\ DesiredCount \in [Consumers -> Nat]
  BY DEF TypeInv, TypeOK
<1> USE <1>t
\* The right-hand sides of the bounds only grow.
<1>0. TailIndex <= TailIndex' /\ A <= A'
  <2>1. ASSUME NEW n \in Batches, Publish(n) PROVE TailIndex <= TailIndex' /\ A <= A'
    BY <2>1, QueueBaseAssumption DEF Publish
  <2>2. ASSUME NEW c \in Consumers, Claim(c) PROVE TailIndex <= TailIndex' /\ A <= A'
    BY <2>2 DEF Claim, Available, Lesser, TypeInv, TypeOK
  <2>3. CASE TailIndex' = TailIndex /\ A' = A
    BY <2>3
  <2>4. QED
    BY <2>1, <2>2, <2>3 DEF Next, DequeueStep, BeginDequeue, PeekAttempts, PeekTail,
       ReportEmpty, Check, Refund, Advance, Take, counters, vars
<1>1. \A t \in Int : /\ Below(refunded, t) \in Nat /\ Below(refunded', t) \in Nat
                     /\ Below(refunded, t) <= Below(refunded', t)
  <2> TAKE t \in Int
  <2>1. refunded \subseteq refunded' /\ t <= t
    BY RefundedGrows
  <2>2. QED
    BY <2>1, BelowFinite, BelowMonotone
<1> HIDE DEF Below
\* The bound of a consumer that keeps its tickets.
<1>2. ASSUME NEW d \in Consumers, pc[d] \in {"refund", "advance"},
             UNCHANGED <<ActualCount[d], AttemptsCount[d]>>
      PROVE  Bounded(d)'
  <2>1. Bounded(d)
    BY DEF TicketInv, GrantsBounded, Bounded
  <2>2. ActualCount[d] > 0 => AttemptsCount[d] + ActualCount[d] <= TailIndex + Below(refunded, AttemptsCount[d])
    BY <1>2, <2>1 DEF Bounded, RefundedBelow, Below
  <2>3. ActualCount[d] > 0 => AttemptsCount[d] + ActualCount[d] <= TailIndex' + Below(refunded', AttemptsCount[d])
    BY <1>0, <1>1, <2>2
  <2>4. QED
    BY <1>2, <2>3 DEF Bounded, RefundedBelow, Below
<1>3. ASSUME NEW d \in Consumers, pc'[d] \notin {"refund", "advance"}
      PROVE  Bounded(d)'
  BY <1>3 DEF Bounded
\* The check is what establishes it.
<1>4. ASSUME NEW c \in Consumers, Check(c) PROVE Bounded(c)'
  <2>1. /\ FailedCount[c] <= Below(refunded, AttemptsCount[c])
        /\ Below(refunded, AttemptsCount[c]) \in Nat
    <3>1. AttemptsCount[c] \in Int
      OBVIOUS
    <3>2. Claimed(c)
      BY <1>4 DEF Check, Claimed
    <3>3. FailedCount[c] <= Cardinality(RefundedBelow(AttemptsCount[c]))
      BY <3>2 DEF TicketInv, FailuresKnown
    <3>4. QED
      BY <1>1, <3>1, <3>3 DEF RefundedBelow, Below
  <2>2. ActualCount'[c] > 0 => ActualCount'[c] <= TailIndex - (AttemptsCount[c] - FailedCount[c])
    BY <1>4 DEF Check, Available, Lesser
  <2>3. UNCHANGED <<TailIndex, refunded, AttemptsCount>> /\ ActualCount'[c] \in Nat
    BY <1>4 DEF Check, counters, history, TypeInv, TypeOK
  <2>4. ActualCount'[c] > 0
          => AttemptsCount[c] + ActualCount'[c] <= TailIndex + Below(refunded, AttemptsCount[c])
    BY <2>1, <2>2, <2>3
  <2>5. QED
    BY <2>3, <2>4 DEF Bounded, RefundedBelow, Below
<1>5. \A d \in Consumers : Bounded(d)'
  <2> TAKE d \in Consumers
  <2>1. CASE Check(d)
    BY <1>4, <2>1
  <2>2. CASE pc[d] \in {"refund", "advance"} /\ UNCHANGED <<ActualCount[d], AttemptsCount[d]>>
    BY <1>2, <2>2
  <2>3. CASE pc'[d] \notin {"refund", "advance"}
    BY <1>3, <2>3
  <2>4. CASE pc'[d] = pc[d] /\ UNCHANGED <<ActualCount[d], AttemptsCount[d]>>
    BY <2>2, <2>3, <2>4
  <2>5. ASSUME NEW c \in Consumers, Refund(c) PROVE Bounded(d)'
    BY <2>2, <2>3, <2>4, <2>5 DEF Refund, Return, Goto, locals
  <2>6. ASSUME NEW c \in Consumers, Check(c), d # c PROVE Bounded(d)'
    BY <2>4, <2>6 DEF Check, Goto
  <2>7. ASSUME NEW c \in Consumers, NEW max \in Requests, BeginDequeue(c, max) PROVE Bounded(d)'
    BY <2>3, <2>4, <2>7 DEF BeginDequeue, Goto
  <2>8. ASSUME NEW c \in Consumers, PeekAttempts(c) PROVE Bounded(d)'
    BY <2>3, <2>4, <2>8 DEF PeekAttempts, Goto
  <2>9. ASSUME NEW c \in Consumers, PeekTail(c) PROVE Bounded(d)'
    BY <2>3, <2>4, <2>9 DEF PeekTail, Goto
  <2>10. ASSUME NEW c \in Consumers, ReportEmpty(c) \/ Take(c) PROVE Bounded(d)'
    BY <2>3, <2>4, <2>10 DEF ReportEmpty, Take, Return, Goto
  <2>11. ASSUME NEW c \in Consumers, Claim(c) PROVE Bounded(d)'
    BY <2>3, <2>4, <2>11 DEF Claim, Goto
  <2>12. ASSUME NEW c \in Consumers, Advance(c) PROVE Bounded(d)'
    BY <2>3, <2>4, <2>12 DEF Advance, Goto
  <2>13. ASSUME NEW n \in Batches, Publish(n) PROVE Bounded(d)'
    BY <2>4, <2>13 DEF Publish, locals
  <2>14. CASE UNCHANGED vars
    BY <2>4, <2>14 DEF vars, locals
  <2>15. QED
    <3>1. CASE Next
      BY <2>1, <2>5, <2>6, <2>7, <2>8, <2>9, <2>10, <2>11, <2>12, <2>13, <3>1 DEF Next, DequeueStep
    <3>2. QED
      BY <2>14, <3>1
\* The highest taken ticket, before and after.
<1>6. PICK m \in 0..A : TakenBelow(m)
  BY DEF TicketInv, GrantsBounded, TakenBelow
<1>7. m \in Nat /\ m \in 0..A' /\ m <= TailIndex' + Below(refunded', m)
  <2>1. m <= TailIndex + Below(refunded, m)
    BY <1>6 DEF TakenBelow, RefundedBelow, Below
  <2>2. QED
    BY <1>0, <1>1, <2>1
<1>8. \E k \in 0..A' : /\ taken' \subseteq 0..(k - 1)
                       /\ k <= TailIndex' + Below(refunded', k)
  <2>1. ASSUME NEW c \in Consumers, Advance(c), ActualCount[c] > 0,
               AttemptsCount[c] + ActualCount[c] > m
        PROVE  \E k \in 0..A' : /\ taken' \subseteq 0..(k - 1)
                                /\ k <= TailIndex' + Below(refunded', k)
    <3> DEFINE k == AttemptsCount[c] + ActualCount[c]
    <3>1. UNCHANGED <<A, TailIndex, refunded>> /\ taken' = taken \union Kept(c)
      BY <2>1 DEF Advance
    <3>2. k \in Nat /\ AttemptsCount[c] <= k /\ AttemptsCount[c] \in Int /\ k \in Int
      OBVIOUS
    <3>3. k <= A
      <4>1. Kept(c) = Open(c) /\ k - 1 \in Kept(c)
        BY <2>1 DEF Advance, Open, Claimed, Kept
      <4>2. Open(c) \subseteq 0..(A - 1)
        BY DEF TicketInv, TicketsSettledOnce
      <4>3. QED
        BY <4>1, <4>2, <3>2
    <3>4. taken' \subseteq 0..(k - 1)
      <4>1. taken \subseteq 0..(m - 1)
        BY <1>6 DEF TakenBelow
      <4>2. 0..(m - 1) \subseteq 0..(k - 1)
        BY <1>7, <2>1, <3>2
      <4>3. Kept(c) \subseteq 0..(k - 1)
        BY <3>2 DEF Kept
      <4>4. QED
        BY <3>1, <4>1, <4>2, <4>3
    <3>5. k <= TailIndex + Below(refunded, AttemptsCount[c])
      BY <2>1 DEF Advance, TicketInv, GrantsBounded, RefundedBelow, Below
    <3>6. Below(refunded, AttemptsCount[c]) <= Below(refunded, k)
      BY <3>2, BelowMonotone DEF Below
    <3>7. Below(refunded, AttemptsCount[c]) \in Nat /\ Below(refunded, k) \in Nat
      BY <1>1, <3>2
    <3> HIDE DEF k
    <3>8. k <= TailIndex' + Below(refunded', k)
      BY <3>1, <3>2, <3>5, <3>6, <3>7
    <3>9. QED
      BY <3>1, <3>2, <3>3, <3>4, <3>8
  <2>2. ASSUME NEW c \in Consumers, Advance(c),
               ~(ActualCount[c] > 0 /\ AttemptsCount[c] + ActualCount[c] > m)
        PROVE  taken' \subseteq 0..(m - 1)
    <3>1. taken \subseteq 0..(m - 1)
      BY <1>6 DEF TakenBelow
    <3>2. Kept(c) \subseteq 0..(m - 1)
      BY <1>7, <2>2 DEF Kept
    <3>3. QED
      BY <2>2, <3>1, <3>2 DEF Advance
  <2>3. CASE taken' = taken
    BY <1>6, <1>7, <2>3 DEF TakenBelow
  <2>4. QED
    BY <1>7, <2>1, <2>2, <2>3 DEF Next, DequeueStep, Publish, BeginDequeue, PeekAttempts, PeekTail,
       ReportEmpty, Claim, Check, Refund, Take, history, vars
<1>9. QED
  <2>1. \A c \in Consumers : pc'[c] \in {"refund", "advance"} => ActualCount'[c] <= DesiredCount'[c]
    BY DEF TypeInv
  <2>2. QED
    BY <1>5, <1>8, <2>1 DEF GrantsBounded, Bounded, RefundedBelow, Below
-----------------------------------------------------------------------------
(* The invariants. *)

\* The inductive invariant holds when the queue is made.
LEMMA TicketInvInit == Init => TicketInv
<1> SUFFICES ASSUME Init PROVE TicketInv
  OBVIOUS
<1>1. TypeOK /\ TicketsSettledOnce
  BY TypeInvInit, TicketsSettledInit DEF TypeInv
<1>2. CountersMatch
  BY FS_EmptySet DEF Init, CountersMatch
<1>3. FailuresKnown
  BY DEF Init, FailuresKnown, Claimed
<1>4. GrantsBounded
  <2>1. taken = {} /\ TailIndex = 0 /\ refunded = {} /\ DequeueAttemptsCount = 0
    BY DEF Init
  <2>2. Cardinality(RefundedBelow(0)) \in Nat
    BY BelowFinite DEF RefundedBelow
  <2>3. 0 \in 0..DequeueAttemptsCount /\ taken \subseteq 0..(0 - 1)
        /\ 0 <= TailIndex + Cardinality(RefundedBelow(0))
    BY <2>1, <2>2
  <2>4. \A c \in Consumers : pc[c] \notin {"refund", "advance"}
    BY DEF Init
  <2>5. QED
    BY <2>3, <2>4 DEF GrantsBounded
<1>5. QED
  BY <1>1, <1>2, <1>3, <1>4 DEF TicketInv

\* The inductive invariant of the ticket protocol.
THEOREM TicketsCorrect == Spec => []TicketInv
<1>1. Init => TypeInv /\ TicketInv
  BY TypeInvInit, TicketInvInit
<1>2. TypeInv /\ TicketInv /\ [Next]_vars => (TypeInv /\ TicketInv)'
  <2> SUFFICES ASSUME TypeInv, TicketInv, [Next]_vars PROVE (TypeInv /\ TicketInv)'
    OBVIOUS
  <2>1. TypeInv'
    BY TypeInvNext
  <2>2. TicketsSettledOnce'
    BY TicketsSettledNext DEF TicketInv
  <2>3. CountersMatch' /\ FailuresKnown' /\ GrantsBounded'
    BY <2>1, CountersMatchNext, FailuresKnownNext, GrantsBoundedNext
  <2>4. QED
    BY <2>1, <2>2, <2>3 DEF TicketInv, TypeInv
<1>3. QED
  BY <1>1, <1>2, PTL DEF Spec

\* The inductive invariant has the types in it.
LEMMA TicketInvTypes == TicketInv => TypeInv
BY DEF TicketInv, TypeInv, GrantsBounded

\* The bound on granted tickets is the bound on HeadIndex: taken and refunded
\* tickets below m share m places.
LEMMA TakenBounded == TicketInv => HeadBehindTail
<1> SUFFICES ASSUME TicketInv PROVE HeadIndex <= TailIndex
  BY DEF HeadBehindTail
<1>1. /\ DequeueAttemptsCount \in Nat /\ TailIndex \in Nat
      /\ IsFiniteSet(taken) /\ Cardinality(taken) \in Nat
  BY TicketInvTypes, TicketsFinite DEF TicketInv, TypeOK
<1>2. PICK m \in 0..DequeueAttemptsCount : TakenBelow(m)
  BY DEF TicketInv, GrantsBounded, TakenBelow
<1>3. m \in Nat /\ taken \subseteq 0..(m - 1) /\ refunded \intersect taken = {}
  BY <1>1, <1>2 DEF TakenBelow, TicketInv, TicketsSettledOnce
<1>4. Cardinality(taken) + Cardinality(RefundedBelow(m)) <= m
  BY <1>3, SharedRoom DEF RefundedBelow
<1>5. Cardinality(RefundedBelow(m)) \in Nat
  BY <1>3, BelowFinite DEF RefundedBelow
<1>6. QED
  BY <1>1, <1>2, <1>3, <1>4, <1>5 DEF TakenBelow, TicketInv, CountersMatch

\* No consumer ever obtains an index that the producer has not published.
THEOREM HeadNeverPassesTail == Spec => []HeadBehindTail
BY TicketsCorrect, TakenBounded, PTL

\* Tickets taken and handed back are HeadIndex and DequeueFailedCount together,
\* and no more than were issued.
LEMMA TicketsAddUp ==
  ASSUME TicketInv
  PROVE  /\ Cardinality(taken \union refunded) = HeadIndex + DequeueFailedCount
         /\ HeadIndex + DequeueFailedCount <= DequeueAttemptsCount
<1> DEFINE A == DequeueAttemptsCount
<1>1. /\ A \in Nat /\ IsFiniteSet(taken) /\ IsFiniteSet(refunded)
      /\ Cardinality(taken) \in Nat /\ Cardinality(refunded) \in Nat
  BY TicketInvTypes, TicketsFinite DEF TicketInv, TypeOK
<1>2. Cardinality(taken \union refunded)
        = Cardinality(taken) + Cardinality(refunded) - Cardinality(taken \intersect refunded)
  BY <1>1, FS_Union
<1>3. Cardinality(taken \intersect refunded) = 0
  BY FS_EmptySet DEF TicketInv, TicketsSettledOnce
<1>4. IsFiniteSet(0..(A - 1)) /\ Cardinality(0..(A - 1)) = A
  BY <1>1, RangeSize
<1>5. taken \union refunded \in SUBSET (0..(A - 1))
  BY DEF TicketInv, TicketsSettledOnce
<1>6. Cardinality(taken \union refunded) <= A
  BY <1>4, <1>5, FS_Subset
<1>7. QED
  BY <1>1, <1>2, <1>3, <1>6 DEF TicketInv, CountersMatch

\* Between calls every ticket has become an index or has been handed back.
THEOREM TicketsNeverLost == Spec => []NoTicketLost
<1>1. ASSUME TicketInv PROVE NoTicketLost
  <2> DEFINE A == DequeueAttemptsCount
  <2> SUFFICES ASSUME \A c \in Consumers : pc[c] = "idle"
               PROVE  A - DequeueFailedCount = HeadIndex
    BY DEF NoTicketLost
  <2>1. A \in Nat /\ HeadIndex \in Nat /\ DequeueFailedCount \in Nat
    BY <1>1 DEF TicketInv, TypeOK
  <2>2. \A c \in Consumers : Open(c) = {}
    BY DEF Open, Claimed
  <2>3. taken \union refunded = 0..(A - 1)
    BY <1>1, <2>2 DEF TicketInv, TicketsSettledOnce
  <2>4. Cardinality(0..(A - 1)) = A
    BY <2>1, RangeSize
  <2>5. Cardinality(taken \union refunded) = HeadIndex + DequeueFailedCount
    BY <1>1, TicketsAddUp
  <2> HIDE DEF A
  <2>6. A = HeadIndex + DequeueFailedCount
    BY <2>3, <2>4, <2>5
  <2>7. QED
    BY <2>1, <2>6 DEF A
<1>2. QED
  BY <1>1, TicketsCorrect, PTL

\* The unsigned differences the consumers compute never wrap around.
THEOREM DifferencesNeverWrap == Spec => []DifferencesExact
<1>1. ASSUME TicketInv PROVE DifferencesExact
  <2>1. ASSUME NEW c \in Consumers, pc[c] = "check" PROVE FailedCount[c] <= AttemptsCount[c]
    <3>1. FailedCount[c] \in Nat /\ AttemptsCount[c] \in Nat
      BY <1>1 DEF TicketInv, TypeOK
    <3>2. FailedCount[c] <= Cardinality(RefundedBelow(AttemptsCount[c]))
      BY <1>1, <2>1 DEF TicketInv, FailuresKnown, Claimed
    <3>3. Cardinality(RefundedBelow(AttemptsCount[c])) <= AttemptsCount[c]
      BY <3>1, BelowBounded DEF RefundedBelow
    <3>4. Cardinality(RefundedBelow(AttemptsCount[c])) \in Nat
      <4>1. AttemptsCount[c] \in Int
        BY <3>1
      <4>2. QED
        BY <4>1, BelowFinite DEF RefundedBelow
    <3>5. QED
      BY <3>1, <3>2, <3>3, <3>4
  <2>2. QED
    BY <1>1, <2>1, TicketsAddUp DEF DifferencesExact, TicketInv, FailuresKnown
<1>2. QED
  BY <1>1, TicketsCorrect, PTL

-----------------------------------------------------------------------------
(* The refinement. *)

\* A new queue is a new abstract queue.
LEMMA ClaimsInit == Init => Claims!Init
BY DEF Init, Claims!Init, Reading

\* Every step publishes, acquires, releases, or changes nothing an abstract
\* queue shows.
LEMMA ClaimsNext ==
  ASSUME TypeOK, HeadBehindTail', [Next]_vars
  PROVE  [Claims!Next]_(Claims!vars)
<1> DEFINE Holding == [c \in Consumers |-> Reading(c)]
<1> USE DEF TypeOK
<1>1. ASSUME \A c \in Consumers : Reading(c)' = Reading(c), UNCHANGED <<TailIndex, HeadIndex>>
      PROVE  UNCHANGED Claims!vars
  BY <1>1 DEF Claims!vars
<1>2. ASSUME NEW n \in Batches, Publish(n) PROVE Claims!Next
  <2>1. \A c \in Consumers : Reading(c)' = Reading(c)
    BY <1>2 DEF Publish, locals, Reading
  <2>2. TailIndex' \in Nat /\ TailIndex' > TailIndex /\ HeadIndex' = HeadIndex
    BY <1>2, QueueBaseAssumption DEF Publish
  <2>3. QED
    BY <2>1, <2>2 DEF Claims!Next, Claims!Publish
<1>3. ASSUME NEW c \in Consumers, Advance(c) PROVE Claims!Next
  <2> DEFINE n == ActualCount[c]
  <2>1. n \in Nat /\ HeadIndex \in Nat /\ TailIndex \in Nat
    OBVIOUS
  <2>2. HeadIndex' = HeadIndex + n /\ TailIndex' = TailIndex
    BY <1>3 DEF Advance
  <2>3. n \in 0..(TailIndex - HeadIndex)
    BY <2>1, <2>2 DEF HeadBehindTail
  <2>4. Reading(c) = {} /\ Reading(c)' = HeadIndex..(HeadIndex + n - 1)
    BY <1>3 DEF Advance, Goto, Reading, PCs
  <2>5. \A d \in Consumers \ {c} : Reading(d)' = Reading(d)
    BY <1>3 DEF Advance, Goto, Reading
  <2> HIDE DEF n
  <2>6. Holding' = [Holding EXCEPT ![c] = HeadIndex..(HeadIndex + n - 1)]
    BY <2>4, <2>5
  <2>7. Claims!Acquire(c)
    BY <2>2, <2>3, <2>4, <2>6 DEF Claims!Acquire
  <2>8. QED
    BY <2>7 DEF Claims!Next
<1>4. ASSUME NEW c \in Consumers, Take(c) PROVE Claims!Next
  <2>1. Reading(c)' = {} /\ UNCHANGED <<TailIndex, HeadIndex>>
    BY <1>4 DEF Take, Return, Goto, Reading, counters, PCs
  <2>2. \A d \in Consumers \ {c} : Reading(d)' = Reading(d)
    BY <1>4 DEF Take, Return, Goto, Reading
  <2>3. Holding' = [Holding EXCEPT ![c] = {}]
    BY <2>1, <2>2
  <2>4. Claims!Release(c)
    BY <2>1, <2>3 DEF Claims!Release
  <2>5. QED
    BY <2>4 DEF Claims!Next
<1>5. ASSUME NEW c \in Consumers, NEW max \in Requests, BeginDequeue(c, max)
      PROVE  UNCHANGED Claims!vars
  BY <1>1, <1>5 DEF BeginDequeue, Goto, Reading, counters, PCs
<1>6. ASSUME NEW c \in Consumers, PeekAttempts(c) \/ PeekTail(c) PROVE UNCHANGED Claims!vars
  BY <1>1, <1>6 DEF PeekAttempts, PeekTail, Goto, Reading, counters, PCs
<1>7. ASSUME NEW c \in Consumers, ReportEmpty(c) PROVE UNCHANGED Claims!vars
  BY <1>1, <1>7 DEF ReportEmpty, Return, Goto, Reading, counters, PCs
<1>8. ASSUME NEW c \in Consumers, Claim(c) PROVE UNCHANGED Claims!vars
  BY <1>1, <1>8 DEF Claim, Goto, Reading, PCs
<1>9. ASSUME NEW c \in Consumers, Check(c) PROVE UNCHANGED Claims!vars
  BY <1>1, <1>9 DEF Check, Goto, Reading, counters, PCs
<1>10. ASSUME NEW c \in Consumers, Refund(c) PROVE UNCHANGED Claims!vars
  <2>1. \A d \in Consumers : Reading(d)' = Reading(d)
    <3>1. CASE ActualCount[c] = 0
      BY <1>10, <3>1 DEF Refund, Return, Goto, Reading, PCs
    <3>2. CASE ActualCount[c] # 0
      BY <1>10, <3>2 DEF Refund, Goto, locals, Reading, PCs
    <3>3. QED
      BY <3>1, <3>2
  <2>2. QED
    BY <1>1, <1>10, <2>1 DEF Refund
<1>11. CASE UNCHANGED vars
  BY <1>1, <1>11 DEF vars, counters, locals, Reading
<1> HIDE DEF TypeOK
<1>12. QED
  <2>1. CASE Next
    BY <1>2, <1>3, <1>4, <1>5, <1>6, <1>7, <1>8, <1>9, <1>10, <2>1 DEF Next, DequeueStep
  <2>2. QED
    BY <1>11, <2>1

\* The four counters hand out published indexes in order and each of them once.
THEOREM QueueBaseImplementsClaimQueue == Spec => ImplementsClaimQueue
<1>1. TypeOK /\ HeadBehindTail' /\ [Next]_vars => [Claims!Next]_(Claims!vars)
  BY ClaimsNext
<1>2. QED
  BY <1>1, ClaimsInit, TypeCorrect, HeadNeverPassesTail, PTL DEF Spec, Claims!Spec, ImplementsClaimQueue
=============================================================================
