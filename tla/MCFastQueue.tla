---------------------------- MODULE MCFastQueue ------------------------------
(* FastQueue for TLC: consumers are interchangeable. *)
EXTENDS FastQueue, TLC

Symmetry == Permutations(Consumers)

\* In a call for one item, or in every call, the allocations may throw.
SingleFailures == {"index", "block"} \X {1}
AllFailures == {"index", "block"} \X ({1} \union Batches)

\* FailuresAbsorbed asks nothing of the states behind these.
HarmNotDone == harm # "done"
=============================================================================
