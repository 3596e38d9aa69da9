---------------------------- MODULE MCSlowQueue ------------------------------
(* SlowQueue for TLC: consumers are interchangeable, and so are blocks. *)
EXTENDS SlowQueue, TLC

Symmetry == Permutations(Consumers) \union Permutations(Blocks)
=============================================================================
