---------------------- MODULE BlockingReaderWriterQueue ----------------------
(***************************************************************************)
(* BlockingReaderWriterQueue: the ring of ReaderWriterQueue and a          *)
(* LightWeightSemaphore that counts its items.  The producer signals after *)
(* it has stored an item; the consumer takes one only after a wait that    *)
(* returned true, and then counts on the ring not being empty.             *)
(***************************************************************************)
EXTENDS ReaderWriterQueue

CONSTANTS
  Timeouts,  \* of DequeueWaitFor; Dequeue has "none"
  MaxCount   \* bound: see LightWeightSemaphore

ASSUME BlockingAssumption ==
  Timeouts \subseteq {"none", "zero", "some"} /\ MaxCount \in Nat

VARIABLES
  Count, Sem, wpc, Timeout, spc, signalled, granted,  \* the semaphore's
  op                                                  \* what the consumer waits for

Semaphore == INSTANCE LightWeightSemaphore WITH MaxSignals <- MaxItems

waiting == <<Count, Sem, wpc, Timeout, spc, signalled, granted, op>>
blockingVars == <<vars, waiting>>

BlockingInit == Init /\ Semaphore!Init /\ op = "dequeue"

-----------------------------------------------------------------------------
(* The producer: every Enqueue and TryEnqueue that succeeds signals. *)

BlockingEnqueue(mode) ==
  /\ spc = "idle" /\ enqueued = signalled
  /\ BeginEnqueue(mode)
  /\ UNCHANGED waiting

InnerEnqueueStep == EnqueueStep /\ UNCHANGED waiting

\* Mutant: the signal precedes the store that publishes the item.
SignalItemEarly ==
  /\ \/ ppc \in {"store", "publish"} /\ enqueued = signalled
     \/ ppc = "idle" /\ enqueued > signalled
  /\ Semaphore!Signal
  /\ UNCHANGED <<vars, op>>

SignalItem ==
  /\ ppc = "idle" /\ enqueued > signalled
  /\ Semaphore!Signal
  /\ UNCHANGED <<vars, op>>

ReleaseWaiter == Semaphore!Release /\ UNCHANGED <<vars, op>>

EnqueueCall == InnerEnqueueStep \/ SignalItem \/ ReleaseWaiter

-----------------------------------------------------------------------------
(* The consumer: TryDequeue and Pop try the semaphore, Dequeue and          *)
(* DequeueWaitFor wait; Peek does neither.                                  *)

BeginWait(timeout, o) ==
  /\ cpc = "idle"
  /\ o = "pop" => timeout = "try"
  /\ Semaphore!BeginWait(timeout)
  /\ op' = o
  /\ UNCHANGED vars

WaitStep == Semaphore!WaitStep /\ UNCHANGED <<vars, op>>

WaitFalse ==
  /\ wpc = "false"
  /\ Semaphore!WaitReturn
  /\ UNCHANGED <<vars, op>>

InnerDequeue ==
  /\ wpc = "true"
  /\ BeginDequeue(op)
  /\ UNCHANGED waiting

InnerDequeueStep == (DequeueStep /\ ~Return) /\ UNCHANGED waiting

DequeueReturn ==
  /\ wpc = "true"
  /\ Return /\ Semaphore!WaitReturn
  /\ UNCHANGED op

Peek ==
  /\ wpc = "idle"
  /\ BeginDequeue("peek")
  /\ UNCHANGED waiting

PeekReturn ==
  /\ wpc = "idle"
  /\ Return
  /\ UNCHANGED waiting

DequeueCall ==
  \/ WaitStep \/ WaitFalse \/ InnerDequeue \/ InnerDequeueStep \/ DequeueReturn \/ PeekReturn

-----------------------------------------------------------------------------

BlockingNext ==
  \/ \E mode \in Modes : BlockingEnqueue(mode)
  \/ EnqueueCall
  \/ \E timeout \in Timeouts \union {"try"}, o \in {"dequeue", "pop"} : BeginWait(timeout, o)
  \/ DequeueCall \/ Peek

BlockingSpec == BlockingInit /\ [][BlockingNext]_blockingVars

\* Both threads finish their calls, and the consumer calls Dequeue again and again.
FairBlockingSpec ==
  /\ BlockingSpec
  /\ WF_blockingVars(EnqueueCall) /\ WF_blockingVars(DequeueCall)
  /\ SF_blockingVars(BeginWait("none", "dequeue"))

-----------------------------------------------------------------------------
(* Properties. *)

\* The assertions that the ring has the item the wait was granted for.
DequeueSucceeds == wpc = "true" => cpc # "empty"

\* A dequeue that blocks is woken: every item is taken in the end.
ItemsDelivered == \A n \in 1..MaxItems : enqueued >= n ~> dequeued >= n
=============================================================================
