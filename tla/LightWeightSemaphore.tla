------------------------ MODULE LightWeightSemaphore -------------------------
(***************************************************************************)
(* LightWeightSemaphore: a counter that goes to -1 when its one waiter is  *)
(* about to sleep on a std::binary_semaphore, so that neither side calls   *)
(* the kernel when it need not.  The assertion in Signal allows one        *)
(* waiter; BlockingReaderWriterQueue has one.  The 1024 turns of the spin  *)
(* are any number of turns.                                                *)
(***************************************************************************)
EXTENDS Integers

CONSTANTS
  Timeouts,   \* of Wait: "none" is a negative one, "zero", "some" a positive one
  MaxSignals, \* bound: calls of Signal in a behaviour
  MaxCount    \* bound: Count beyond which a timed-out waiter waits for the kernel

ASSUME SemaphoreAssumption ==
  /\ Timeouts \subseteq {"none", "zero", "some"}
  /\ MaxSignals \in Nat /\ MaxCount \in Nat

VARIABLES
  Count, Sem,
  wpc, Timeout,   \* the waiter: its place in Wait or TryWait, its timeout
  spc,            \* the signaller is between its two steps
  signalled,      \* history: calls of Signal that changed Count
  granted         \* history: waits that returned true

waiter == <<wpc, Timeout, granted>>
signaller == <<spc, signalled>>
semVars == <<Count, Sem, waiter, signaller>>

Init ==
  /\ Count = 0 /\ Sem = 0
  /\ wpc = "idle" /\ Timeout = "try"
  /\ spc = "idle"
  /\ signalled = 0 /\ granted = 0

-----------------------------------------------------------------------------
(* The waiter. *)

Grant == wpc' = "true" /\ granted' = granted + 1

\* TryWait, or the one at the beginning of Wait.
BeginWait(timeout) ==
  /\ wpc = "idle"
  /\ wpc' = "try" /\ Timeout' = timeout
  /\ UNCHANGED <<Count, Sem, granted, signaller>>

\* Count.Load() > 0, in TryWait and in the spin.
LoadPositive ==
  /\ wpc \in {"try", "spin"} /\ Count > 0
  /\ wpc' = "take"
  /\ UNCHANGED <<Count, Sem, Timeout, granted, signaller>>

LoadOther ==
  /\ wpc \in {"try", "spin"} /\ Count <= 0
  /\ wpc' = CASE wpc = "spin"                      -> "subtract"
              [] wpc = "try" /\ Timeout = "try"    -> "false"
              [] wpc = "try" /\ Timeout # "try"    -> "spin"
  /\ UNCHANGED <<Count, Sem, Timeout, granted, signaller>>

Take ==
  /\ wpc = "take"
  /\ Count' = Count - 1
  /\ Grant
  /\ UNCHANGED <<Sem, Timeout, signaller>>

\* The spin is over: announce the waiter.
Subtract ==
  /\ wpc = "subtract"
  /\ Count' = Count - 1
  /\ IF Count > 0
     THEN Grant
     ELSE /\ wpc' = CASE Timeout = "none" -> "acquire"
                      [] Timeout = "some" -> "timed"
                      [] Timeout = "zero" -> "restore"
          /\ UNCHANGED granted
  /\ UNCHANGED <<Sem, Timeout, signaller>>

\* acquire, try_acquire_for and the try_acquire after a timeout.
Acquire ==
  /\ wpc \in {"acquire", "timed", "reacquire"} /\ Sem > 0
  /\ Sem' = Sem - 1
  /\ Grant
  /\ UNCHANGED <<Count, Timeout, signaller>>

Expire ==
  /\ \/ wpc = "timed"
     \/ wpc = "reacquire" /\ Sem = 0 /\ Count < MaxCount
  /\ wpc' = "restore"
  /\ UNCHANGED <<Count, Sem, Timeout, granted, signaller>>

\* Mutant: a late signal is taken for none, and its release stays.
RestoreQuits ==
  /\ wpc = "restore"
  /\ Count' = Count + 1
  /\ wpc' = "false"
  /\ UNCHANGED <<Sem, Timeout, granted, signaller>>

\* Mutant: a waiter that gives up stays announced.
RestoreForgotten ==
  /\ wpc = "restore"
  /\ wpc' = "false"
  /\ UNCHANGED <<Count, Sem, Timeout, granted, signaller>>

\* Take the announcement back, unless a signal came first.
Restore ==
  /\ wpc = "restore"
  /\ Count' = Count + 1
  /\ wpc' = IF Count < 0 THEN "false" ELSE "reacquire"
  /\ UNCHANGED <<Sem, Timeout, granted, signaller>>

WaitReturn ==
  /\ wpc \in {"true", "false"}
  /\ wpc' = "idle" /\ Timeout' = "try"
  /\ UNCHANGED <<Count, Sem, granted, signaller>>

WaitStep ==
  LoadPositive \/ LoadOther \/ Take \/ Subtract \/ Acquire \/ Expire \/ Restore

-----------------------------------------------------------------------------
(* The signaller. *)

\* Mutant: two signals in a row release once.
SignalLate ==
  /\ spc = "idle" /\ signalled < MaxSignals
  /\ Count' = Count + 1 /\ signalled' = signalled + 1
  /\ spc' = IF Count < -1 THEN "release" ELSE "idle"
  /\ UNCHANGED <<Sem, waiter>>

Signal ==
  /\ spc = "idle" /\ signalled < MaxSignals
  /\ Count' = Count + 1 /\ signalled' = signalled + 1
  /\ spc' = IF Count < 0 THEN "release" ELSE "idle"
  /\ UNCHANGED <<Sem, waiter>>

Release ==
  /\ spc = "release"
  /\ Sem' = Sem + 1
  /\ spc' = "idle"
  /\ UNCHANGED <<Count, waiter, signalled>>

-----------------------------------------------------------------------------

Next ==
  \/ \E timeout \in Timeouts \union {"try"} : BeginWait(timeout)
  \/ WaitStep \/ WaitReturn
  \/ Signal \/ Release

Spec == Init /\ [][Next]_semVars

\* Both threads go on with their calls, and the waiter waits again.
FairSpec ==
  /\ Spec
  /\ WF_semVars(WaitStep \/ WaitReturn) /\ WF_semVars(Release)
  /\ WF_semVars(BeginWait("none"))

-----------------------------------------------------------------------------
(* Properties. *)

\* Every variable holds a value of its kind.
TypeOK ==
  /\ Count \in Int /\ Sem \in Nat
  /\ wpc \in {"idle", "try", "spin", "take", "subtract", "acquire", "timed",
              "restore", "reacquire", "true", "false"}
  /\ Timeout \in Timeouts \union {"try"}
  /\ spc \in {"idle", "release"}
  /\ signalled \in 0..MaxSignals /\ granted \in Nat

\* No signal is lost between counter and kernel, however waits time out: when
\* nobody is in a call, TryWait finds every signal no wait returned true for.
\* (It may find more: see Restore.)
SignalsKept ==
  wpc = "idle" /\ spc = "idle" => Count >= signalled - granted

\* Signal's assertion: at most one thread is announced.  The kernel's semaphore is
\* binary: another release() while it is up is undefined behaviour.
OneAnnounced == Count >= -1 /\ Sem <= 1

\* A waiter that sleeps is woken: every signal is granted in the end.
SignalsGranted == \A n \in 1..MaxSignals : signalled >= n ~> granted >= n
=============================================================================
