----------------------------- MODULE QueueBase ------------------------------
(***************************************************************************)
(* The four counters of _QueueBase and the protocol by which FastQueue and *)
(* SlowQueue use them: one producer publishes items, any number of         *)
(* consumers claim them.  Blocks and payloads are left to the modules that *)
(* build on this one; here an item is its index.                           *)
(*                                                                         *)
(* A consumer draws tickets from DequeueAttemptsCount, checks them against *)
(* TailIndex, hands the ones that found no item back through               *)
(* DequeueFailedCount, and exchanges the others for indexes of HeadIndex.  *)
(* Every load and every fetch_add is an action of its own.  Dequeue is     *)
(* DequeueBulk with MaxCount = 1.  Counters are naturals: the code's       *)
(* CircularLessThan on std::size_t is < as long as no two compared values  *)
(* are 2^63 apart.                                                         *)
(***************************************************************************)
EXTENDS Integers, FiniteSets

CONSTANTS
  Consumers,  \* threads that dequeue from this producer's queue
  Batches,    \* sizes of Enqueue (1) and EnqueueBulk
  Requests,   \* MaxCount of Dequeue (1) and DequeueBulk
  MaxTail,    \* bound: items published in a behaviour
  MaxAttempts \* bound: tickets drawn after which calls no longer overlap

ASSUME QueueBaseAssumption ==
  /\ Batches \subseteq Nat \ {0}
  /\ Requests \subseteq Nat
  /\ MaxTail \in Nat
  /\ MaxAttempts \in Nat

VARIABLES
  HeadIndex, TailIndex, DequeueAttemptsCount, DequeueFailedCount,
  pc,             \* where each consumer is in Dequeue / DequeueBulk
  FailedCount,    \* locals of the call, by consumer
  AttemptsCount,
  SeenTail,
  DesiredCount,
  ActualCount,
  FirstIndex,
  taken,          \* history: tickets exchanged for an index
  refunded        \* history: tickets handed back

counters == <<HeadIndex, TailIndex, DequeueAttemptsCount, DequeueFailedCount>>
locals   == <<FailedCount, AttemptsCount, SeenTail, DesiredCount,
              ActualCount, FirstIndex>>
history  == <<taken, refunded>>
vars     == <<counters, pc, locals, history>>

PCs == {"idle", "peek", "peekTail", "peekAttempts", "peeked",
        "check", "refund", "advance", "take"}

Zero == [c \in Consumers |-> 0]

Lesser(m, n) == IF m < n THEN m ELSE n

Init ==
  /\ HeadIndex = 0 /\ TailIndex = 0
  /\ DequeueAttemptsCount = 0 /\ DequeueFailedCount = 0
  /\ pc = [c \in Consumers |-> "idle"]
  /\ FailedCount = Zero /\ AttemptsCount = Zero /\ SeenTail = Zero
  /\ DesiredCount = Zero /\ ActualCount = Zero /\ FirstIndex = Zero
  /\ taken = {} /\ refunded = {}

-----------------------------------------------------------------------------
(* The producer: the store to TailIndex that ends Enqueue and EnqueueBulk. *)

Publish(n) ==
  /\ TailIndex + n <= MaxTail
  /\ TailIndex' = TailIndex + n
  /\ UNCHANGED <<HeadIndex, DequeueAttemptsCount, DequeueFailedCount, pc, locals, history>>

-----------------------------------------------------------------------------
(* The consumers. *)

Goto(c, label) == pc' = [pc EXCEPT ![c] = label]

\* Mutant: the failures are loaded again after the ticket was drawn.
AvailableReloaded(c, tail) == tail - (AttemptsCount[c] - DequeueFailedCount)

\* Items c believes to be unclaimed, from a tail and what it last read of the
\* attempts and failures; negative where the code's difference wraps around.
Available(c, tail) == tail - (AttemptsCount[c] - FailedCount[c])

Return(c) ==
  /\ Goto(c, "idle")
  /\ FailedCount'   = [FailedCount   EXCEPT ![c] = 0]
  /\ AttemptsCount' = [AttemptsCount EXCEPT ![c] = 0]
  /\ SeenTail'      = [SeenTail      EXCEPT ![c] = 0]
  /\ DesiredCount'  = [DesiredCount  EXCEPT ![c] = 0]
  /\ ActualCount'   = [ActualCount   EXCEPT ![c] = 0]
  /\ FirstIndex'    = [FirstIndex    EXCEPT ![c] = 0]

\* Overlapping calls can keep handing tickets back, so the bound is on them.
BeginDequeue(c, max) ==
  /\ pc[c] = "idle"
  /\ \/ DequeueAttemptsCount < MaxAttempts
     \/ \A d \in Consumers \ {c} : pc[d] = "idle"
  /\ FailedCount'  = [FailedCount  EXCEPT ![c] = DequeueFailedCount]
  /\ DesiredCount' = [DesiredCount EXCEPT ![c] = max]
  /\ Goto(c, "peek")
  /\ UNCHANGED <<counters, AttemptsCount, SeenTail, ActualCount, FirstIndex, history>>

\* The two loads of the first test are operands whose order the language
\* leaves to the compiler.
PeekAttempts(c) ==
  /\ pc[c] \in {"peek", "peekAttempts"}
  /\ AttemptsCount' = [AttemptsCount EXCEPT ![c] = DequeueAttemptsCount]
  /\ Goto(c, IF pc[c] = "peek" THEN "peekTail" ELSE "peeked")
  /\ UNCHANGED <<counters, FailedCount, SeenTail, DesiredCount, ActualCount, FirstIndex, history>>

PeekTail(c) ==
  /\ pc[c] \in {"peek", "peekTail"}
  /\ SeenTail' = [SeenTail EXCEPT ![c] = TailIndex]
  /\ Goto(c, IF pc[c] = "peek" THEN "peekAttempts" ELSE "peeked")
  /\ UNCHANGED <<counters, FailedCount, AttemptsCount, DesiredCount, ActualCount, FirstIndex, history>>

ReportEmpty(c) ==
  /\ pc[c] = "peeked"
  /\ Available(c, SeenTail[c]) <= 0
  /\ Return(c)
  /\ UNCHANGED <<counters, history>>

\* DequeueAttemptsCount.fetch_add: c draws DesiredCount consecutive tickets.
Claim(c) ==
  /\ pc[c] = "peeked"
  /\ Available(c, SeenTail[c]) > 0
  /\ LET n == Lesser(Available(c, SeenTail[c]), DesiredCount[c])
     IN  /\ DesiredCount' = [DesiredCount EXCEPT ![c] = n]
         /\ DequeueAttemptsCount' = DequeueAttemptsCount + n
  /\ AttemptsCount' = [AttemptsCount EXCEPT ![c] = DequeueAttemptsCount]
  /\ SeenTail' = [SeenTail EXCEPT ![c] = 0]  \* not read again
  /\ Goto(c, "check")
  /\ UNCHANGED <<HeadIndex, TailIndex, DequeueFailedCount,
                 FailedCount, ActualCount, FirstIndex, history>>

\* Mutant: DequeueBulk without the test of the second count.
CheckUntested(c) ==
  /\ pc[c] = "check"
  /\ LET n == Lesser(Available(c, TailIndex), DesiredCount[c])
     IN  /\ ActualCount' = [ActualCount EXCEPT ![c] = n]
         /\ Goto(c, IF n = DesiredCount[c] THEN "advance" ELSE "refund")
  /\ FailedCount' = [FailedCount EXCEPT ![c] = 0]
  /\ UNCHANGED <<counters, AttemptsCount, SeenTail, DesiredCount, FirstIndex, history>>

\* The second, decisive load of TailIndex.
Check(c) ==
  /\ pc[c] = "check"
  /\ LET available == Available(c, TailIndex)
         n == IF available > 0 THEN Lesser(available, DesiredCount[c]) ELSE 0
     IN  /\ ActualCount' = [ActualCount EXCEPT ![c] = n]
         /\ Goto(c, IF available > 0 /\ n = DesiredCount[c] THEN "advance" ELSE "refund")
  /\ FailedCount' = [FailedCount EXCEPT ![c] = 0]  \* not read again
  /\ UNCHANGED <<counters, AttemptsCount, SeenTail, DesiredCount, FirstIndex, history>>

\* The tickets c keeps, and those it has to hand back.
Kept(c)    == AttemptsCount[c]..(AttemptsCount[c] + ActualCount[c] - 1)
Surplus(c) == (AttemptsCount[c] + ActualCount[c])..(AttemptsCount[c] + DesiredCount[c] - 1)

\* Mutant: a call that keeps nothing forgets to hand its tickets back.
RefundForgotten(c) ==
  /\ pc[c] = "refund"
  /\ IF ActualCount[c] = 0
     THEN Return(c) /\ UNCHANGED DequeueFailedCount
     ELSE /\ DequeueFailedCount' = DequeueFailedCount + (DesiredCount[c] - ActualCount[c])
          /\ Goto(c, "advance") /\ UNCHANGED locals
  /\ refunded' = refunded \union Surplus(c)
  /\ UNCHANGED <<HeadIndex, TailIndex, DequeueAttemptsCount, taken>>

\* Mutant: a partly served call hands back the tickets it keeps, too.
RefundWhole(c) ==
  /\ pc[c] = "refund"
  /\ DequeueFailedCount' = DequeueFailedCount + DesiredCount[c]
  /\ refunded' = refunded \union Surplus(c)
  /\ IF ActualCount[c] = 0
     THEN Return(c)
     ELSE Goto(c, "advance") /\ UNCHANGED locals
  /\ UNCHANGED <<HeadIndex, TailIndex, DequeueAttemptsCount, taken>>

\* DequeueFailedCount.fetch_add; nothing kept ends the call.
Refund(c) ==
  /\ pc[c] = "refund"
  /\ DequeueFailedCount' = DequeueFailedCount + (DesiredCount[c] - ActualCount[c])
  /\ refunded' = refunded \union Surplus(c)
  /\ IF ActualCount[c] = 0
     THEN Return(c)
     ELSE Goto(c, "advance") /\ UNCHANGED locals
  /\ UNCHANGED <<HeadIndex, TailIndex, DequeueAttemptsCount, taken>>

\* HeadIndex.fetch_add: the kept tickets become the indexes of c's items.
Advance(c) ==
  /\ pc[c] = "advance"
  /\ FirstIndex' = [FirstIndex EXCEPT ![c] = HeadIndex]
  /\ HeadIndex' = HeadIndex + ActualCount[c]
  /\ taken' = taken \union Kept(c)
  /\ Goto(c, "take")
  /\ UNCHANGED <<TailIndex, DequeueAttemptsCount, DequeueFailedCount, FailedCount,
                 AttemptsCount, SeenTail, DesiredCount, ActualCount, refunded>>

\* The items have been moved out of their slots.
Take(c) ==
  /\ pc[c] = "take"
  /\ Return(c)
  /\ UNCHANGED <<counters, history>>

DequeueStep(c) ==
  \/ PeekAttempts(c) \/ PeekTail(c) \/ ReportEmpty(c) \/ Claim(c)
  \/ Check(c) \/ Refund(c) \/ Advance(c) \/ Take(c)

Next ==
  \/ \E n \in Batches : Publish(n)
  \/ \E c \in Consumers, max \in Requests : BeginDequeue(c, max)
  \/ \E c \in Consumers : DequeueStep(c)

Spec == Init /\ [][Next]_vars

\* A thread inside a call is scheduled again.  Nobody has to begin a call.
Fairness == \A c \in Consumers : WF_vars(DequeueStep(c))

FairSpec == Spec /\ Fairness

-----------------------------------------------------------------------------
(* Properties. *)

\* Every variable holds a value of its kind.
TypeOK ==
  /\ HeadIndex \in Nat /\ TailIndex \in Nat
  /\ DequeueAttemptsCount \in Nat /\ DequeueFailedCount \in Nat
  /\ pc \in [Consumers -> PCs]
  /\ FailedCount \in [Consumers -> Nat] /\ AttemptsCount \in [Consumers -> Nat]
  /\ SeenTail \in [Consumers -> Nat]    /\ DesiredCount \in [Consumers -> Nat]
  /\ ActualCount \in [Consumers -> Nat] /\ FirstIndex \in [Consumers -> Nat]
  /\ taken \in SUBSET Nat /\ refunded \in SUBSET Nat

\* No consumer ever obtains an index that is not published yet, although it
\* checked its ticket with a failure count read before it drew the ticket and
\* advances HeadIndex some steps after the check.
HeadBehindTail == HeadIndex <= TailIndex

\* Tickets are never lost: when no call is in progress every ticket was either
\* exchanged for an index or handed back.  One ticket too many outstanding and
\* the last item of the queue would look claimed for ever; one too few and two
\* consumers could get an index nobody filled.
NoTicketLost ==
  (\A c \in Consumers : pc[c] = "idle")
    => DequeueAttemptsCount - DequeueFailedCount = HeadIndex

\* The unsigned difference of attempts and failures never wraps around, neither
\* for the counters nor for the stale copies a consumer computes with.
DifferencesExact ==
  /\ HeadIndex + DequeueFailedCount <= DequeueAttemptsCount
  /\ \A c \in Consumers :
       pc[c] \in {"peekTail", "peeked", "check"}
         => FailedCount[c] <= AttemptsCount[c]

\* What a consumer reads is its own: the ranges of indexes that two consumers
\* are moving items out of do not overlap, and lie below HeadIndex.
Reading(c) == IF pc[c] = "take"
              THEN FirstIndex[c]..(FirstIndex[c] + ActualCount[c] - 1)
              ELSE {}

\* Dequeue and DequeueBulk hand out published indexes in order, each of them
\* once, in one step each: the counters implement the abstract queue.
Claims == INSTANCE ClaimQueue WITH published <- TailIndex,
                                   acquired  <- HeadIndex,
                                   holding   <- [c \in Consumers |-> Reading(c)]
ImplementsClaimQueue == Claims!Spec

\* A consumer that keeps asking gets every published item once the others have
\* left their calls: no leftover of their spurious failures, such as a ticket
\* nobody handed back, hides an item from it.  (Consumers that keep overlapping
\* can reject each other's tickets for ever.)
LoneConsumerDrains ==
  \A c \in Consumers :
    /\ <>[](\A d \in Consumers \ {c} : pc[d] = "idle")
    /\ []<><<\E max \in Requests \ {0} : BeginDequeue(c, max)>>_vars
    => \A n \in 1..MaxTail : TailIndex >= n ~> HeadIndex >= n

-----------------------------------------------------------------------------
(* The inductive invariant behind HeadBehindTail.  A ticket t is granted     *)
(* only if t is smaller than TailIndex plus the failures counted before t    *)
(* was drawn, and those failures are tickets below t.  Whatever happens to   *)
(* the tickets later, that bound stays true of t, and the largest taken      *)
(* ticket bounds the number of taken tickets.                                *)

Claimed(c) == pc[c] \in {"check", "refund", "advance"}

\* The tickets c has drawn and not settled.
Open(c) ==
  LET n == IF pc[c] = "advance" THEN ActualCount[c] ELSE DesiredCount[c]
  IN  IF Claimed(c) THEN AttemptsCount[c]..(AttemptsCount[c] + n - 1) ELSE {}

RefundedBelow(t) == refunded \intersect (0..(t - 1))

\* Every ticket drawn is taken, handed back, or open at exactly one consumer.
TicketsSettledOnce ==
  /\ taken \subseteq 0..(DequeueAttemptsCount - 1)
  /\ refunded \subseteq 0..(DequeueAttemptsCount - 1)
  /\ taken \intersect refunded = {}
  /\ \A c \in Consumers :
       /\ Open(c) \subseteq 0..(DequeueAttemptsCount - 1)
       /\ Open(c) \intersect (taken \union refunded) = {}
       /\ \A d \in Consumers \ {c} : Open(c) \intersect Open(d) = {}
  /\ \A t \in 0..(DequeueAttemptsCount - 1) :
       t \in taken \union refunded \/ \E c \in Consumers : t \in Open(c)

\* The counters count the tickets.
CountersMatch ==
  /\ HeadIndex = Cardinality(taken)
  /\ DequeueFailedCount = Cardinality(refunded)

\* The failures a consumer knows of are among the tickets below its own.
FailuresKnown ==
  \A c \in Consumers :
    /\ pc[c] # "idle" => FailedCount[c] <= DequeueFailedCount
    /\ pc[c] \in {"peekTail", "peeked"} => FailedCount[c] <= AttemptsCount[c]
    /\ Claimed(c) => FailedCount[c] <= Cardinality(RefundedBelow(AttemptsCount[c]))

\* Kept tickets are bounded by the tail and the failures below them.
GrantsBounded ==
  /\ \A c \in Consumers :
       pc[c] \in {"refund", "advance"} /\ ActualCount[c] > 0
         => AttemptsCount[c] + ActualCount[c]
              <= TailIndex + Cardinality(RefundedBelow(AttemptsCount[c]))
  /\ \A c \in Consumers :
       pc[c] \in {"refund", "advance"} => ActualCount[c] <= DesiredCount[c]
  /\ \E m \in 0..DequeueAttemptsCount :
       /\ taken \subseteq 0..(m - 1)
       /\ m <= TailIndex + Cardinality(RefundedBelow(m))

TicketInv ==
  /\ TypeOK
  /\ TicketsSettledOnce
  /\ CountersMatch
  /\ FailuresKnown
  /\ GrantsBounded
=============================================================================
