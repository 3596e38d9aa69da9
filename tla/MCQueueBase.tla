---------------------------- MODULE MCQueueBase -----------------------------
(* QueueBase for TLC.  No symmetry: the run checks a liveness property. *)
EXTENDS QueueBase
=============================================================================
