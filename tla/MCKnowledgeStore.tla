-------------------------- MODULE MCKnowledgeStore --------------------------
(***************************************************************************)
(* The override store with knowledge cards in it: one shipped card and one *)
(* that only an override can add.                                          *)
(***************************************************************************)
EXTENDS KnowledgeStore, TLC

CONSTANTS a, b, c, shipped, added, old, new

Shipped == shipped :> old

CardDrafts == [entry : {shipped, added}, status : {"approved", "retired"}, text : {new}]

RequestSymmetry == Permutations({a, b, c})
=============================================================================
