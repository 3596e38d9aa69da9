--------------------------- MODULE MCBlockManager ----------------------------
(* BlockManager for TLC: a pool of one block, the other blocks from the heap.  *)
(* No symmetry: the run checks a liveness property.                            *)
EXTENDS BlockManager

CONSTANT p1
OnePoolBlock == <<p1>>
=============================================================================
