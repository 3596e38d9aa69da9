------------------------- MODULE MCReaderWriterQueue -------------------------
(* ReaderWriterQueue for TLC. *)
EXTENDS ReaderWriterQueue
=============================================================================
