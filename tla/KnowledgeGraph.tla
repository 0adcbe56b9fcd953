---------------------------- MODULE KnowledgeGraph ----------------------------
(***************************************************************************)
(* The knowledge graph of an experiment: GraphStore, the updates that      *)
(* GraphUpdater applies to it, and the loop over the frames that shows the *)
(* model a part of it and applies what the model answers.  One thread does *)
(* all of it, so that an update is a step.                                 *)
(*                                                                         *)
(* A fact is what it says and whether it is still valid; its id is its     *)
(* place in the order of recording.  Confidence, time and provenance only  *)
(* decide what is rejected and how entities rank, which are free choices.  *)
(***************************************************************************)
EXTENDS Integers, Sequences, FiniteSets

CONSTANTS
  Entities, Attributes, Predicates, Values,
  NoValue,
  RequireKnown,  \* require_known_entities
  MaxEntities,   \* RetrievalConfig.max_entities
  Frames,        \* frames of the experiment
  MaxUpdates     \* bound: updates in one answer

ASSUME GraphAssumption ==
  /\ NoValue \notin Values
  /\ RequireKnown \in BOOLEAN
  /\ MaxEntities \in Nat \ {0}
  /\ Frames \in Nat /\ MaxUpdates \in Nat

VARIABLES
  known,   \* _entities
  mirror,  \* the attributes kept on each entity
  facts,   \* _facts, in the order of their recording
  shown,   \* ids of the facts in the prompt
  frame,   \* frames prompted so far
  left     \* updates of the answer that are still to be applied

vars == <<known, mirror, facts, shown, frame, left>>

Attribution ==
  [kind : {"attribute"}, subject : Entities, predicate : Attributes, object : Values]

Relation ==
  [kind : {"relation"}, subject : Entities, predicate : Predicates, object : Entities]

GraphInit ==
  /\ known = {}
  /\ mirror = [e \in Entities |-> [a \in Attributes |-> NoValue]]
  /\ facts = << >>
  /\ shown = {}
  /\ frame = 0
  /\ left = 0

-----------------------------------------------------------------------------
(* facts_for_entity, of the attribute only, and facts_for_relation.          *)
\* Mutant: a fact that already says the same is left.
AttributeFactsBut(s) ==
  { i \in DOMAIN facts :
      /\ facts[i].valid /\ facts[i].says \in Attribution
      /\ facts[i].says.subject = s.subject /\ facts[i].says.predicate = s.predicate
      /\ facts[i].says.object # s.object }

\* Mutant: a relation of the same name is taken for an attribute.
FactsOfThatName(s) ==
  { i \in DOMAIN facts :
      /\ facts[i].valid
      /\ facts[i].says.subject = s.subject /\ facts[i].says.predicate = s.predicate }

AttributeFacts(s) ==
  { i \in DOMAIN facts :
      /\ facts[i].valid /\ facts[i].says \in Attribution
      /\ facts[i].says.subject = s.subject /\ facts[i].says.predicate = s.predicate }

RelationFacts(s) == { i \in DOMAIN facts : facts[i].valid /\ facts[i].says = s }

\* Mutant: what is invalid is removed.
Deleted(ids) ==
  LET stays == { i \in DOMAIN facts : i \notin ids }
      nth(n) == CHOOSE i \in stays : Cardinality({ j \in stays : j < i }) = n - 1
  IN  [n \in 1..Cardinality(stays) |-> facts[nth(n)]]

Invalidated(ids) ==
  [i \in DOMAIN facts |-> IF i \in ids THEN [facts[i] EXCEPT !.valid = FALSE] ELSE facts[i]]

Fact(s) == [says |-> s, valid |-> TRUE]

(* _ensure_entity                                                            *)
Ensure(ids) ==
  /\ RequireKnown => ids \subseteq known
  /\ known' = known \cup ids

\* Mutant: a value that is mirrored already is not written again.
MirroredOnce(s) ==
  [mirror EXCEPT ![s.subject][s.predicate] = IF @ = NoValue THEN s.object ELSE @]

Mirrored(s) == [mirror EXCEPT ![s.subject][s.predicate] = s.object]

-----------------------------------------------------------------------------
(* retrieve_salient_subgraph: the best entities within the limits, at least  *)
(* one, and the valid facts about them.  The answer to the prompt, if there  *)
(* is one, has some number of updates.                                       *)
Retrieve ==
  /\ left = 0 /\ frame < Frames
  /\ frame' = frame + 1
  /\ \E best \in SUBSET known :
       /\ Cardinality(best) <= MaxEntities /\ (known # {} => best # {})
       /\ shown' = { i \in DOMAIN facts :
                       /\ facts[i].valid
                       /\ \/ facts[i].says.subject \in best
                          \/ facts[i].says \in Relation /\ facts[i].says.object \in best }
  /\ left' \in 0..MaxUpdates
  /\ UNCHANGED <<known, mirror, facts>>

(* The update that is next in the answer.                                    *)
Update ==
  /\ left > 0
  /\ left' = left - 1
  /\ UNCHANGED <<shown, frame>>

AddEntity(e) ==
  /\ Update
  /\ known' = known \cup {e}
  /\ UNCHANGED <<mirror, facts>>

SetAttribute(s) ==
  /\ Update
  /\ Ensure({s.subject})
  /\ facts' = Append(Invalidated(AttributeFacts(s)), Fact(s))
  /\ mirror' = Mirrored(s)

AddRelation(s) ==
  /\ Update
  /\ Ensure({s.subject, s.object})
  /\ facts' = IF RelationFacts(s) = {} THEN Append(facts, Fact(s)) ELSE facts
  /\ UNCHANGED mirror

RemoveRelation(s) ==
  /\ Update
  /\ facts' = Invalidated(RelationFacts(s))
  /\ UNCHANGED <<known, mirror>>

(* An id comes from the prompt, and may be invalid since.                    *)
InvalidateFact(i) ==
  /\ Update
  /\ facts[i].valid
  /\ facts' = Invalidated({i})
  /\ UNCHANGED <<known, mirror>>

(* A malformed update, one of low confidence, of an unknown entity where it  *)
(* must be known, or of a fact that is not there or not valid any more.      *)
Reject ==
  /\ Update
  /\ UNCHANGED <<known, mirror, facts>>

GraphNext ==
  \/ Retrieve
  \/ \E e \in Entities : AddEntity(e)
  \/ \E s \in Attribution : SetAttribute(s)
  \/ \E s \in Relation : AddRelation(s) \/ RemoveRelation(s)
  \/ \E i \in shown : InvalidateFact(i)
  \/ Reject

GraphSpec == GraphInit /\ [][GraphNext]_vars

-----------------------------------------------------------------------------
Said == [says : Attribution \cup Relation, valid : BOOLEAN]

GraphTypeOK ==
  /\ known \subseteq Entities
  /\ mirror \in [Entities -> [Attributes -> Values \cup {NoValue}]]
  /\ facts \in Seq(Said)
  /\ shown \subseteq DOMAIN facts
  /\ frame \in 0..Frames
  /\ left \in 0..MaxUpdates

(* Two facts that are both valid never give one attribute two values, nor    *)
(* say the same twice, so that taking back the one that was shown is enough. *)
Rivals(s, t) ==
  /\ s.kind = t.kind /\ s.subject = t.subject /\ s.predicate = t.predicate
  /\ s.kind = "relation" => s.object = t.object

OneBelief ==
  \A i, j \in DOMAIN facts :
    facts[i].valid /\ facts[j].valid /\ Rivals(facts[i].says, facts[j].says) => i = j

(* What the valid facts say behaves like a world in which values are         *)
(* replaced, relations come and go, and nothing changes by itself.           *)
Believed == { facts[i].says : i \in { j \in DOMAIN facts : facts[j].valid } }

World == INSTANCE WorldModel WITH believed <- Believed

ImplementsWorldModel == World!WorldSpec

(* Nothing that was said is forgotten or changed, and what was given up is   *)
(* not believed again but by saying it again.                                *)
HistoryIsKept ==
  [][/\ Len(facts) <= Len(facts')
     /\ \A i \in DOMAIN facts : facts'[i].says = facts[i].says
                                /\ (facts'[i].valid => facts[i].valid)]_vars

(* An entity carries the value its attribute was last given, whatever became *)
(* of that fact, and every fact is about entities that are stored.           *)
SetLast(e, a, i) ==
  LET about(j) == /\ facts[j].says \in Attribution
                  /\ facts[j].says.subject = e /\ facts[j].says.predicate = a
  IN  about(i) /\ \A j \in DOMAIN facts : about(j) => j <= i

MirrorTellsLastSet ==
  /\ \A e \in Entities, a \in Attributes :
       \/ \E i \in DOMAIN facts : SetLast(e, a, i) /\ mirror[e][a] = facts[i].says.object
       \/ mirror[e][a] = NoValue /\ ~\E i \in DOMAIN facts : SetLast(e, a, i)
  /\ \A i \in DOMAIN facts :
       /\ facts[i].says.subject \in known
       /\ facts[i].says \in Relation => facts[i].says.object \in known
=============================================================================
