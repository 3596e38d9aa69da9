---------------------------- MODULE MCBlockingQueue ---------------------------
(* BlockingReaderWriterQueue for TLC. *)
EXTENDS BlockingReaderWriterQueue
=============================================================================
