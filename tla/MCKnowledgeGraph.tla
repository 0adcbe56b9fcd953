--------------------------- MODULE MCKnowledgeGraph ---------------------------
(* Entities and values that differ in their names only; an attribute and a    *)
(* relation have the same name.                                               *)
EXTENDS KnowledgeGraph, TLC

Alike == Permutations(Entities) \cup Permutations(Values)
=============================================================================
