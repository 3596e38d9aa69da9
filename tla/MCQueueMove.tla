----------------------------- MODULE MCQueueMove -----------------------------
(* Two queues and two producers. *)
EXTENDS QueueMove
=============================================================================
