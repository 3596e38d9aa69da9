----------------------- MODULE LightWeightSemaphore_proofs --------------------
(***************************************************************************)
(* The semaphore of the blocking queue, for any number of signals and any  *)
(* mixture of timeouts: at most one announcement, at most one token in the *)
(* kernel, no signal lost.                                                 *)
(***************************************************************************)
EXTENDS LightWeightSemaphore, TLAPS

-----------------------------------------------------------------------------
(* The inductive invariant. *)

\* The waiter has subtracted one for its announcement and not yet added it again.
Announced == wpc \in {"acquire", "timed", "restore"}

\* Tokens the kernel has, or is about to get from a signaller under way.
Tokens == Sem + (IF spc = "release" THEN 1 ELSE 0)

\* Where the waiter stands tells how often Count and the kernel disagree: only an
\* announced waiter makes Count -1, and a signal that finds it so makes a token,
\* which only that waiter takes.  Only Wait, which has a timeout, spins.
Phases ==
  /\ Announced => \/ Count = -1 /\ Tokens = 0
                  \/ Count >= 0 /\ Tokens = 1
  /\ wpc = "reacquire" => Count >= 0 /\ Tokens = 1
  /\ ~Announced /\ wpc # "reacquire" => Count >= 0 /\ Tokens = 0
  /\ wpc = "take" => Count > 0
  /\ wpc \in {"spin", "subtract"} => Timeout # "try"

\* Every signal that has not been granted is in Count, the announcement taken off.
Kept == Count + (IF Announced THEN 1 ELSE 0) >= signalled - granted

SemInv == TypeOK /\ Phases /\ Kept

-----------------------------------------------------------------------------

\* A new semaphore has neither announcement nor token.
LEMMA SemInvInit == Init => SemInv
BY SemaphoreAssumption DEF Init, SemInv, TypeOK, Phases, Kept, Announced, Tokens

\* Every step of waiter and signaller keeps them in agreement.
LEMMA SemInvNext == SemInv /\ [Next]_semVars => SemInv'
<1> SUFFICES ASSUME SemInv, [Next]_semVars PROVE SemInv'
  OBVIOUS
<1> USE SemaphoreAssumption DEF SemInv, TypeOK, Phases, Kept, Announced, Tokens
<1>1. ASSUME NEW timeout \in Timeouts \union {"try"}, BeginWait(timeout) PROVE SemInv'
  BY <1>1 DEF BeginWait, signaller
<1>2. CASE LoadPositive
  BY <1>2 DEF LoadPositive, signaller
<1>3. CASE LoadOther
  BY <1>3 DEF LoadOther, signaller
<1>4. CASE Take
  BY <1>4 DEF Take, Grant, signaller
<1>5. CASE Subtract
  <2>1. CASE Count > 0
    BY <1>5, <2>1 DEF Subtract, Grant, signaller
  <2>2. CASE Count = 0
    BY <1>5, <2>2 DEF Subtract, signaller
  <2>3. QED
    BY <1>5, <2>1, <2>2 DEF Subtract
<1>6. CASE Acquire
  BY <1>6 DEF Acquire, Grant, signaller
<1>7. CASE Expire
  BY <1>7 DEF Expire, signaller
<1>8. CASE Restore
  BY <1>8 DEF Restore, signaller
<1>9. CASE WaitReturn
  BY <1>9 DEF WaitReturn, signaller
<1>10. CASE Signal
  BY <1>10 DEF Signal, waiter
<1>11. CASE Release
  BY <1>11 DEF Release, waiter
<1>12. CASE UNCHANGED semVars
  BY <1>12 DEF semVars, waiter, signaller
<1>13. QED
  BY <1>1, <1>2, <1>3, <1>4, <1>5, <1>6, <1>7, <1>8, <1>9, <1>10, <1>11, <1>12
  DEF Next, WaitStep

-----------------------------------------------------------------------------
(* Theorems. *)

\* The invariant holds for every set of timeouts and number of signals.
THEOREM SemaphoreCorrect == Spec => []SemInv
BY SemInvInit, SemInvNext, PTL DEF Spec

\* Signal's assertion holds, and the binary semaphore is never released while it
\* is up.
THEOREM OneWaiterAnnounced == Spec => []OneAnnounced
<1>1. SemInv => OneAnnounced
  BY DEF SemInv, TypeOK, Phases, Announced, Tokens, OneAnnounced
<1>2. QED
  BY <1>1, SemaphoreCorrect, PTL

\* Between calls every signal not yet granted is there for TryWait.
THEOREM SignalsNeverLost == Spec => []SignalsKept
<1>1. SemInv => SignalsKept
  BY DEF SemInv, TypeOK, Kept, Announced, SignalsKept
<1>2. QED
  BY <1>1, SemaphoreCorrect, PTL
=============================================================================
