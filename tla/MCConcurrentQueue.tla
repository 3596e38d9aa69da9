-------------------------- MODULE MCConcurrentQueue --------------------------
(***************************************************************************)
(* Three producer threads and two consumers, in several programs.          *)
(***************************************************************************)
EXTENDS ConcurrentQueue, TLC

CONSTANTS c1, c2

Program(types, kinds1, calls1, kinds2, calls2, maxNodes, maxItems) ==
  [types |-> types, nodes |-> maxNodes, items |-> maxItems,
   kinds |-> (c1 :> kinds1 @@ c2 :> kinds2), calls |-> (c1 :> calls1 @@ c2 :> calls2)]

\* Tokens come and go and nobody dequeues.
Recycling == Program(Types, {}, 0, {}, 0, 4, 2)
\* Two producers, one consumer with a token and one without.
Overlap == Program(Types, {"token", "tokenBulk"}, 2, {"best", "walk", "walkBulk"}, 1, 2, 2)
\* Two tokens that move each other on.
Rotation == Program({"Implicit"}, {"token"}, 2, {"tokenBulk"}, 1, 2, 2)
\* Three producers and one consumer that mixes all the ways to dequeue.
Alone == Program({"Implicit"}, Kinds, 3, {}, 0, 3, 2)

MCPlans == {Recycling, Overlap, Rotation, Alone}
Symmetry == Permutations(Producers)
=============================================================================
