------------------------------ MODULE WorldModel ------------------------------
(***************************************************************************)
(* What the knowledge graph is for: the statements that are believed now,  *)
(* one value for each attribute of an entity and any number of relations.  *)
(***************************************************************************)
CONSTANTS Attribution, Relation  \* statements of either kind

VARIABLE believed

WorldInit == believed = {}

SameAttribute(s, t) == s.subject = t.subject /\ s.predicate = t.predicate

Assign(s) ==
  /\ s \in Attribution
  /\ believed' = { t \in believed : ~(t \in Attribution /\ SameAttribute(s, t)) } \cup {s}

Relate(s) ==
  /\ s \in Relation
  /\ believed' = believed \cup {s}

Doubt(s) == believed' = believed \ {s}

WorldNext == \E s \in Attribution \cup Relation : Assign(s) \/ Relate(s) \/ Doubt(s)

WorldSpec == WorldInit /\ [][WorldNext]_believed
=============================================================================
