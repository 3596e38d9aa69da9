----------------------------- MODULE MCHashTable -----------------------------
(***************************************************************************)
(* Three threads with colliding ids and a first table of two slots.        *)
(***************************************************************************)
EXTENDS HashTable

CONSTANT Once    \* the thread that makes one call; the others make two

MCMaxCalls == [t \in Threads |-> IF t = Once THEN 1 ELSE 2]
MCHash == [t \in Threads |-> 3]
=============================================================================
