------------------------- MODULE KnowledgeGraphProofs -------------------------
(***************************************************************************)
(* Theorems about the knowledge graph, for any entities, attributes,       *)
(* labels and values, and any number of frames and of updates.             *)
(***************************************************************************)
EXTENDS KnowledgeGraph, SequenceTheorems, TLAPS

Inv == GraphTypeOK /\ OneBelief

(* A statement is of one kind.                                               *)
LEMMA Kinds ==
  /\ \A s \in Attribution : s.kind = "attribute" /\ s \notin Relation
  /\ \A s \in Relation : s.kind = "relation" /\ s \notin Attribution
BY DEF Attribution, Relation

(* Facts are numbered from one, and each says something.                     *)
LEMMA FactsSay ==
  ASSUME facts \in Seq(Said)
  PROVE  /\ DOMAIN facts = 1..Len(facts) /\ Len(facts) \in Nat
         /\ \A i \in DOMAIN facts :
              facts[i].says \in Attribution \cup Relation /\ facts[i].valid \in BOOLEAN
<1>1. /\ DOMAIN facts = 1..Len(facts) /\ Len(facts) \in Nat
      /\ \A i \in DOMAIN facts : facts[i] \in Said
  OBVIOUS
<1>2. \A f \in Said : f.says \in Attribution \cup Relation /\ f.valid \in BOOLEAN
  BY DEF Said
<1> QED
  BY <1>1, <1>2

(* What the operations leave of the facts that were there.                   *)
LEMMA InvalidatedFacts ==
  ASSUME facts \in Seq(Said), NEW ids
  PROVE  /\ Invalidated(ids) \in Seq(Said)
         /\ DOMAIN Invalidated(ids) = DOMAIN facts
         /\ Len(Invalidated(ids)) = Len(facts)
         /\ \A i \in DOMAIN facts :
              /\ Invalidated(ids)[i].says = facts[i].says
              /\ Invalidated(ids)[i].valid <=> (facts[i].valid /\ i \notin ids)
<1>1. /\ DOMAIN facts = 1..Len(facts) /\ Len(facts) \in Nat
      /\ \A i \in DOMAIN facts : facts[i] \in Said
  OBVIOUS
<1>2. \A i \in DOMAIN facts :
        /\ Invalidated(ids)[i] \in Said
        /\ Invalidated(ids)[i].says = facts[i].says
        /\ Invalidated(ids)[i].valid <=> (facts[i].valid /\ i \notin ids)
  BY <1>1 DEF Invalidated, Said
<1>3. DOMAIN Invalidated(ids) = 1..Len(facts)
  BY <1>1 DEF Invalidated
<1>4. Invalidated(ids) \in Seq(Said) /\ Len(Invalidated(ids)) = Len(facts)
  <2> DEFINE new == Invalidated(ids)
  <2>1. new \in [1..Len(facts) -> Said]
    BY <1>1, <1>2, <1>3 DEF Invalidated
  <2> HIDE DEF new
  <2>2. new \in Seq(Said)
    BY <1>1, <2>1, SeqDef
  <2>3. DOMAIN new = 1..Len(new) /\ Len(new) \in Nat /\ DOMAIN new = 1..Len(facts)
    BY <2>1, <2>2, LenProperties
  <2>4. \A i \in Nat : i \in 1..Len(new) <=> i \in 1..Len(facts)
    BY <2>3
  <2>5. Len(new) <= Len(facts)
    BY <1>1, <2>3, <2>4
  <2>6. Len(facts) <= Len(new)
    BY <1>1, <2>3, <2>4
  <2>7. Len(facts) \in Nat /\ Len(new) \in Nat
    BY <1>1, <2>3
  <2>8. Len(new) = Len(facts)
    BY <2>5, <2>6, <2>7
  <2> QED
    BY <2>2, <2>8 DEF new
<1> QED
  BY <1>1, <1>2, <1>3, <1>4

(* Every step of the facts invalidates some and may record one.              *)
Step(ids, added) ==
  /\ ids \subseteq DOMAIN facts
  /\ \/ ids = {} /\ added = {} /\ facts' = facts
     \/ added = {} /\ facts' = Invalidated(ids)
     \/ \E s \in Attribution \cup Relation :
          added = {s} /\ facts' = Append(Invalidated(ids), Fact(s))

After(ids, added) ==
  /\ facts' \in Seq(Said)
  /\ Len(facts) <= Len(facts')
  /\ \A i \in DOMAIN facts :
       /\ i \in DOMAIN facts'
       /\ facts'[i].says = facts[i].says
       /\ facts'[i].valid <=> (facts[i].valid /\ i \notin ids)
  /\ \A i \in DOMAIN facts' \ DOMAIN facts :
       /\ i = Len(facts) + 1
       /\ facts'[i].says \in added /\ facts'[i].valid
  /\ added # {} => Len(facts) + 1 \in DOMAIN facts' \ DOMAIN facts
  /\ \A s, t \in added : s = t /\ s \in Attribution \cup Relation

LEMMA Steps ==
  ASSUME facts \in Seq(Said), NEW ids, NEW added, Step(ids, added)
  PROVE  After(ids, added)
<1> DEFINE kept == IF facts' = facts THEN facts ELSE Invalidated(ids)
<1>1. /\ DOMAIN facts = 1..Len(facts) /\ Len(facts) \in Nat
      /\ \A i \in DOMAIN facts : facts[i].valid \in BOOLEAN
  BY FactsSay
<1>2. CASE ids = {} /\ added = {} /\ facts' = facts
  BY <1>1, <1>2 DEF After
<1>3. CASE added = {} /\ facts' = Invalidated(ids)
  BY <1>1, <1>3, InvalidatedFacts DEF After
<1>4. ASSUME NEW s \in Attribution \cup Relation, added = {s},
             facts' = Append(Invalidated(ids), Fact(s))
      PROVE  After(ids, added)
  <2> DEFINE new == Invalidated(ids)
  <2>1. /\ new \in Seq(Said) /\ Len(new) = Len(facts)
        /\ \A i \in DOMAIN facts : /\ new[i].says = facts[i].says
                                   /\ new[i].valid <=> (facts[i].valid /\ i \notin ids)
    BY InvalidatedFacts
  <2>2. facts' = Append(new, Fact(s)) /\ Fact(s) \in Said
    BY <1>4 DEF Fact, Said
  <2> HIDE DEF new
  <2>3. /\ facts' \in Seq(Said) /\ Len(facts') = Len(facts) + 1
        /\ \A i \in 1..Len(facts) : facts'[i] = new[i]
        /\ facts'[Len(facts) + 1] = Fact(s)
    BY <2>1, <2>2, AppendProperties
  <2>4. DOMAIN facts' = 1..(Len(facts) + 1)
    BY <2>3, LenProperties
  <2> QED
    BY <1>1, <1>4, <2>1, <2>3, <2>4 DEF After, Fact
<1> QED
  BY <1>2, <1>3, <1>4 DEF Step

(* What a step records has no valid rival that it leaves.                    *)
Clears(ids, added) ==
  \A s \in added, i \in DOMAIN facts :
    facts[i].valid /\ Rivals(facts[i].says, s) => i \in ids

LEMMA SetClears ==
  ASSUME GraphTypeOK, NEW s \in Attribution, SetAttribute(s)
  PROVE  Step(AttributeFacts(s), {s}) /\ Clears(AttributeFacts(s), {s})
<1>1. \A i \in DOMAIN facts : facts[i].says \in Attribution \cup Relation
  BY FactsSay DEF GraphTypeOK
<1>2. Clears(AttributeFacts(s), {s})
  BY <1>1, Kinds DEF Clears, Rivals, AttributeFacts
<1> QED
  BY <1>2 DEF SetAttribute, Step, AttributeFacts

LEMMA AddClears ==
  ASSUME GraphTypeOK, NEW s \in Relation, AddRelation(s), RelationFacts(s) = {}
  PROVE  Step({}, {s}) /\ Clears({}, {s})
<1>1. \A i \in DOMAIN facts : facts[i].says \in Attribution \cup Relation
  BY FactsSay DEF GraphTypeOK
<1>2. Clears({}, {s})
  <2> SUFFICES ASSUME NEW i \in DOMAIN facts, facts[i].valid, Rivals(facts[i].says, s)
               PROVE  FALSE
    BY DEF Clears
  <2>1. facts[i].says \in Relation
    BY <1>1, Kinds DEF Rivals
  <2>2. facts[i].says = s
    BY <2>1, Kinds DEF Rivals, Relation
  <2> QED
    BY <2>2 DEF RelationFacts
<1>3. Invalidated({}) = facts
  <2>1. \A i \in DOMAIN facts : Invalidated({})[i] = facts[i]
    BY DEF Invalidated
  <2> QED
    BY <2>1, LenProperties DEF Invalidated, GraphTypeOK
<1> QED
  BY <1>2, <1>3 DEF AddRelation, Step

(* Every step of the system is one of the facts.                             *)
LEMMA StepOfFacts ==
  ASSUME GraphTypeOK, [GraphNext]_vars
  PROVE  \E ids, added : Step(ids, added) /\ Clears(ids, added)
<1>1. Clears({}, {}) /\ \A ids : Clears(ids, {})
  BY DEF Clears
<1>2. CASE UNCHANGED facts
  <2>1. Step({}, {})
    BY <1>2 DEF Step
  <2> QED
    BY <1>1, <2>1
<1>3. ASSUME NEW s \in Attribution, SetAttribute(s)
      PROVE  \E ids, added : Step(ids, added) /\ Clears(ids, added)
  BY <1>3, SetClears
<1>4. ASSUME NEW s \in Relation, AddRelation(s), RelationFacts(s) = {}
      PROVE  \E ids, added : Step(ids, added) /\ Clears(ids, added)
  BY <1>4, AddClears
<1>5. ASSUME NEW s \in Relation, RemoveRelation(s)
      PROVE  \E ids, added : Step(ids, added) /\ Clears(ids, added)
  <2>1. Step(RelationFacts(s), {})
    BY <1>5 DEF RemoveRelation, Step, RelationFacts
  <2> QED
    BY <1>1, <2>1
<1>6. ASSUME NEW i \in shown, InvalidateFact(i)
      PROVE  \E ids, added : Step(ids, added) /\ Clears(ids, added)
  <2>1. Step({i}, {})
    BY <1>6 DEF InvalidateFact, Step, GraphTypeOK
  <2> QED
    BY <1>1, <2>1
<1> QED
  BY <1>2, <1>3, <1>4, <1>5, <1>6
     DEF GraphNext, Retrieve, AddEntity, AddRelation, Reject, vars

LEMMA TypesHold == GraphTypeOK /\ [GraphNext]_vars => GraphTypeOK'
<1> SUFFICES ASSUME GraphTypeOK, [GraphNext]_vars PROVE GraphTypeOK'
  OBVIOUS
<1>1. PICK ids, added : Step(ids, added)
  BY StepOfFacts
<1>2. facts' \in Seq(Said) /\ DOMAIN facts \subseteq DOMAIN facts'
  BY <1>1, Steps DEF GraphTypeOK, After
<1>3. shown' \subseteq DOMAIN facts'
  BY <1>2 DEF GraphNext, GraphTypeOK, Retrieve, AddEntity, SetAttribute, AddRelation, RemoveRelation,
              InvalidateFact, Reject, Update, vars
<1>4. known' \subseteq Entities
  BY DEF GraphNext, GraphTypeOK, Retrieve, AddEntity, SetAttribute, AddRelation, RemoveRelation,
         InvalidateFact, Reject, Ensure, vars, Attribution, Relation
<1>5. mirror' \in [Entities -> [Attributes -> Values \cup {NoValue}]]
  <2>1. ASSUME NEW s \in Attribution, SetAttribute(s) PROVE <1>5
    <3>1. s.subject \in Entities /\ s.predicate \in Attributes /\ s.object \in Values
      BY DEF Attribution
    <3> QED
      BY <2>1, <3>1 DEF SetAttribute, Mirrored, GraphTypeOK
  <2>2. CASE UNCHANGED mirror
    BY <2>2 DEF GraphTypeOK
  <2> QED
    BY <2>1, <2>2 DEF GraphNext, Retrieve, AddEntity, AddRelation, RemoveRelation, InvalidateFact,
                      Reject, vars
<1>6. frame' \in 0..Frames /\ left' \in 0..MaxUpdates
  <2>1. Retrieve \/ Update \/ UNCHANGED vars
    BY DEF GraphNext, AddEntity, SetAttribute, AddRelation, RemoveRelation, InvalidateFact, Reject
  <2>2. frame \in 0..Frames /\ left \in 0..MaxUpdates
    BY DEF GraphTypeOK
  <2>3. CASE Retrieve
    BY <2>2, <2>3, GraphAssumption DEF Retrieve
  <2>4. CASE Update
    BY <2>2, <2>4, GraphAssumption DEF Update
  <2>5. CASE UNCHANGED vars
    BY <2>2, <2>5 DEF vars
  <2> QED
    BY <2>1, <2>3, <2>4, <2>5
<1> QED
  BY <1>2, <1>3, <1>4, <1>5, <1>6 DEF GraphTypeOK

LEMMA OneBeliefStays ==
  ASSUME Inv, NEW ids, NEW added, Step(ids, added), Clears(ids, added)
  PROVE  OneBelief'
<1>1. After(ids, added)
  BY Steps DEF Inv, GraphTypeOK
<1> SUFFICES ASSUME NEW i \in DOMAIN facts', NEW j \in DOMAIN facts', facts'[i].valid, facts'[j].valid,
                    Rivals(facts'[i].says, facts'[j].says)
             PROVE  i = j
  BY DEF OneBelief
<1>2. CASE i \in DOMAIN facts /\ j \in DOMAIN facts
  BY <1>1, <1>2 DEF After, Inv, OneBelief
<1>3. CASE i \notin DOMAIN facts /\ j \notin DOMAIN facts
  BY <1>1, <1>3 DEF After
<1>4. CASE i \in DOMAIN facts /\ j \notin DOMAIN facts
  BY <1>1, <1>4 DEF After, Clears
<1>5. CASE i \notin DOMAIN facts /\ j \in DOMAIN facts
  <2>1. Rivals(facts'[j].says, facts'[i].says)
    BY DEF Rivals
  <2> QED
    BY <1>1, <1>5, <2>1 DEF After, Clears
<1> QED
  BY <1>2, <1>3, <1>4, <1>5

LEMMA Initially == GraphInit => Inv
BY EmptySeq, GraphAssumption DEF GraphInit, Inv, GraphTypeOK, OneBelief

LEMMA InvHolds == GraphSpec => []Inv
<1>1. Inv /\ [GraphNext]_vars => Inv'
  BY TypesHold, StepOfFacts, OneBeliefStays DEF Inv
<1> QED
  BY Initially, <1>1, PTL DEF GraphSpec

(* Every variable of the graph keeps its type; what a prompt showed stays a  *)
(* recorded fact.                                                            *)
THEOREM GraphTypeCorrect == GraphSpec => []GraphTypeOK
<1>1. Inv => GraphTypeOK
  BY DEF Inv
<1> QED
  BY InvHolds, <1>1, PTL

(* At most one valid fact gives an attribute of an entity a value, and at    *)
(* most one says that a relation holds.                                      *)
THEOREM OneBeliefHolds == GraphSpec => []OneBelief
<1>1. Inv => OneBelief
  BY DEF Inv
<1> QED
  BY InvHolds, <1>1, PTL

(* No fact is ever removed or rewritten, or becomes valid again.             *)
THEOREM HistoryIsKeptHolds == GraphSpec => HistoryIsKept
<1> DEFINE Kept == /\ Len(facts) <= Len(facts')
                   /\ \A i \in DOMAIN facts : facts'[i].says = facts[i].says
                                              /\ (facts'[i].valid => facts[i].valid)
<1>1. Inv /\ [GraphNext]_vars => [Kept]_vars
  <2> SUFFICES ASSUME Inv, [GraphNext]_vars PROVE Kept
    OBVIOUS
  <2>1. PICK ids, added : Step(ids, added)
    BY StepOfFacts DEF Inv
  <2> QED
    BY <2>1, Steps DEF Inv, GraphTypeOK, After
<1> QED
  BY InvHolds, <1>1, PTL DEF GraphSpec, HistoryIsKept

(* What is believed after a step: what it leaves and what it records.        *)
LEMMA BelievedAfter ==
  ASSUME facts \in Seq(Said), NEW ids, NEW added, Step(ids, added)
  PROVE  \A t : t \in Believed' <=>
           \/ t \in added
           \/ \E i \in DOMAIN facts : facts[i].valid /\ i \notin ids /\ facts[i].says = t
<1>1. After(ids, added)
  BY Steps
<1>2. \A t : t \in Believed' <=> \E i \in DOMAIN facts' : facts'[i].valid /\ facts'[i].says = t
  BY DEF Believed
<1> SUFFICES ASSUME NEW t
             PROVE  (\E i \in DOMAIN facts' : facts'[i].valid /\ facts'[i].says = t) <=>
                      \/ t \in added
                      \/ \E i \in DOMAIN facts : facts[i].valid /\ i \notin ids /\ facts[i].says = t
  BY <1>2
<1>3. ASSUME NEW i \in DOMAIN facts', facts'[i].valid, facts'[i].says = t, t \notin added
      PROVE  \E j \in DOMAIN facts : facts[j].valid /\ j \notin ids /\ facts[j].says = t
  <2>1. i \in DOMAIN facts
    BY <1>1, <1>3 DEF After
  <2> QED
    BY <1>1, <1>3, <2>1 DEF After
<1>4. ASSUME t \in added
      PROVE  \E i \in DOMAIN facts' : facts'[i].valid /\ facts'[i].says = t
  <2> DEFINE last == Len(facts) + 1
  <2>1. last \in DOMAIN facts' \ DOMAIN facts
    BY <1>1, <1>4 DEF After
  <2>2. facts'[last].says \in added /\ facts'[last].valid
    BY <1>1, <2>1 DEF After
  <2>3. facts'[last].says = t
    BY <1>1, <1>4, <2>2 DEF After
  <2> QED
    BY <2>1, <2>2, <2>3
<1>5. ASSUME NEW i \in DOMAIN facts, facts[i].valid, i \notin ids, facts[i].says = t
      PROVE  \E j \in DOMAIN facts' : facts'[j].valid /\ facts'[j].says = t
  BY <1>1, <1>5 DEF After
<1> QED
  BY <1>3, <1>4, <1>5

(* Setting an attribute assigns it.                                          *)
LEMMA SetAssigns ==
  ASSUME Inv, NEW s \in Attribution, SetAttribute(s)
  PROVE  World!Assign(s)
<1>1. Step(AttributeFacts(s), {s}) /\ facts \in Seq(Said)
  BY SetClears DEF Inv, GraphTypeOK
<1>2. \A t : t \in Believed' <=>
        \/ t = s
        \/ \E i \in DOMAIN facts : facts[i].valid /\ i \notin AttributeFacts(s) /\ facts[i].says = t
  BY <1>1, BelievedAfter
<1>3. \A t : t \in Believed <=> \E i \in DOMAIN facts : facts[i].valid /\ facts[i].says = t
  BY DEF Believed
<1>4. \A i \in DOMAIN facts :
        facts[i].valid => (i \in AttributeFacts(s) <=>
          facts[i].says \in Attribution /\ World!SameAttribute(s, facts[i].says))
  BY DEF AttributeFacts, World!SameAttribute
<1>5. \A t : t \in Believed' <=>
        t = s \/ (t \in Believed /\ ~(t \in Attribution /\ World!SameAttribute(s, t)))
  BY <1>2, <1>3, <1>4
<1>6. Believed' = { t \in Believed : ~(t \in Attribution /\ World!SameAttribute(s, t)) } \cup {s}
  BY <1>5
<1> QED
  BY <1>6 DEF World!Assign

(* Adding a relation relates, unless it is there already.                    *)
LEMMA AddRelates ==
  ASSUME Inv, NEW s \in Relation, AddRelation(s), RelationFacts(s) = {}
  PROVE  World!Relate(s)
<1>1. Step({}, {s}) /\ facts \in Seq(Said)
  BY AddClears DEF Inv, GraphTypeOK
<1>2. \A t : t \in Believed' <=>
        t = s \/ \E i \in DOMAIN facts : facts[i].valid /\ facts[i].says = t
  BY <1>1, BelievedAfter
<1>3. Believed' = Believed \cup {s}
  BY <1>2 DEF Believed
<1> QED
  BY <1>3 DEF World!Relate

(* Removing a relation, or one fact, gives up what it says.                  *)
LEMMA RemoveDoubts ==
  ASSUME Inv, NEW s \in Relation, RemoveRelation(s)
  PROVE  World!Doubt(s)
<1>1. Step(RelationFacts(s), {}) /\ facts \in Seq(Said)
  BY DEF RemoveRelation, Step, RelationFacts, Inv, GraphTypeOK
<1>2. \A t : t \in Believed' <=>
        \E i \in DOMAIN facts : facts[i].valid /\ i \notin RelationFacts(s) /\ facts[i].says = t
  BY <1>1, BelievedAfter
<1>3. Believed' = Believed \ {s}
  BY <1>2 DEF Believed, RelationFacts
<1> QED
  BY <1>3 DEF World!Doubt

LEMMA InvalidateDoubts ==
  ASSUME Inv, NEW i \in shown, InvalidateFact(i)
  PROVE  World!Doubt(facts[i].says) /\ facts[i].says \in Attribution \cup Relation
<1>1. i \in DOMAIN facts /\ facts \in Seq(Said)
  BY DEF Inv, GraphTypeOK
<1>2. Step({i}, {}) /\ facts[i].valid
  BY <1>1 DEF InvalidateFact, Step
<1>3. \A t : t \in Believed' <=>
        \E j \in DOMAIN facts : facts[j].valid /\ j # i /\ facts[j].says = t
  BY <1>1, <1>2, BelievedAfter
<1>4. \A j \in DOMAIN facts : facts[j].valid /\ facts[j].says = facts[i].says => j = i
  BY <1>1, <1>2 DEF Inv, OneBelief, Rivals
<1>5. \A t : t \in Believed' <=> t \in Believed /\ t # facts[i].says
  <2>1. \A t : t \in Believed <=> \E j \in DOMAIN facts : facts[j].valid /\ facts[j].says = t
    BY DEF Believed
  <2> QED
    BY <1>3, <1>4, <2>1
<1>6. Believed' = Believed \ {facts[i].says}
  BY <1>5
<1> QED
  BY <1>1, <1>6, FactsSay DEF World!Doubt

(* The valid facts are a world in which an attribute has its last value and  *)
(* nothing changes but by an update that says so.                            *)
THEOREM GraphImplementsWorldModel == GraphSpec => ImplementsWorldModel
<1>1. GraphInit => World!WorldInit
  BY DEF GraphInit, World!WorldInit, Believed
<1>2. Inv /\ [GraphNext]_vars => [World!WorldNext]_Believed
  <2> SUFFICES ASSUME Inv, [GraphNext]_vars PROVE World!WorldNext \/ Believed' = Believed
    OBVIOUS
  <2>1. CASE UNCHANGED facts
    BY <2>1 DEF Believed
  <2>2. ASSUME NEW s \in Attribution, SetAttribute(s) PROVE World!WorldNext
    BY <2>2, SetAssigns DEF World!WorldNext
  <2>3. ASSUME NEW s \in Relation, AddRelation(s), RelationFacts(s) = {} PROVE World!WorldNext
    BY <2>3, AddRelates DEF World!WorldNext
  <2>4. ASSUME NEW s \in Relation, RemoveRelation(s) PROVE World!WorldNext
    BY <2>4, RemoveDoubts DEF World!WorldNext
  <2>5. ASSUME NEW i \in shown, InvalidateFact(i) PROVE World!WorldNext
    BY <2>5, InvalidateDoubts DEF World!WorldNext
  <2> QED
    BY <2>1, <2>2, <2>3, <2>4, <2>5
       DEF GraphNext, Retrieve, AddEntity, AddRelation, Reject, vars
<1> QED
  BY InvHolds, <1>1, <1>2, PTL DEF GraphSpec, ImplementsWorldModel, World!WorldSpec

-----------------------------------------------------------------------------
(* The two conjuncts of MirrorTellsLastSet.                                  *)
MirrorTells(e, a) ==
  \/ \E i \in DOMAIN facts : SetLast(e, a, i) /\ mirror[e][a] = facts[i].says.object
  \/ mirror[e][a] = NoValue /\ ~\E i \in DOMAIN facts : SetLast(e, a, i)

SaysOfKnown ==
  \A i \in DOMAIN facts :
    /\ facts[i].says.subject \in known
    /\ facts[i].says \in Relation => facts[i].says.object \in known

About(t, e, a) == t \in Attribution /\ t.subject = e /\ t.predicate = a

(* An attribute is still told by its last fact when none is recorded of it.  *)
LEMMA MirrorStays ==
  ASSUME NEW e, NEW a, NEW ids, NEW added, facts \in Seq(Said), After(ids, added),
         \A t \in added : ~About(t, e, a), mirror'[e][a] = mirror[e][a], MirrorTells(e, a)
  PROVE  MirrorTells(e, a)'
<1>1. \A i \in DOMAIN facts' :
        \/ i \in DOMAIN facts /\ facts'[i].says = facts[i].says
        \/ i \notin DOMAIN facts /\ ~About(facts'[i].says, e, a)
  BY DEF After
<1>2. \A i \in DOMAIN facts : i \in DOMAIN facts' /\ facts'[i].says = facts[i].says
  BY DEF After
<1>3. \A i \in DOMAIN facts' : SetLast(e, a, i)' <=> i \in DOMAIN facts /\ SetLast(e, a, i)
  <2>1. \A i \in DOMAIN facts' :
          SetLast(e, a, i)' <=> /\ About(facts'[i].says, e, a)
                                /\ \A j \in DOMAIN facts' : About(facts'[j].says, e, a) => j <= i
    BY DEF SetLast, About
  <2>2. \A i \in DOMAIN facts :
          SetLast(e, a, i) <=> /\ About(facts[i].says, e, a)
                               /\ \A j \in DOMAIN facts : About(facts[j].says, e, a) => j <= i
    BY DEF SetLast, About
  <2> HIDE DEF SetLast, About
  <2> QED BY <1>1, <1>2, <2>1, <2>2
<1>4. CASE mirror[e][a] = NoValue /\ ~\E i \in DOMAIN facts : SetLast(e, a, i)
  BY <1>3, <1>4 DEF MirrorTells
<1>5. ASSUME NEW i \in DOMAIN facts, SetLast(e, a, i), mirror[e][a] = facts[i].says.object
      PROVE  MirrorTells(e, a)'
  BY <1>2, <1>3, <1>5 DEF MirrorTells
<1> QED BY <1>4, <1>5 DEF MirrorTells

(* An attribute that is set is told by the fact that says so.                *)
LEMMA MirrorIsSet ==
  ASSUME GraphTypeOK, NEW s \in Attribution, SetAttribute(s)
  PROVE  /\ MirrorTells(s.subject, s.predicate)'
         /\ \A e \in Entities, a \in Attributes :
              ~About(s, e, a) => mirror'[e][a] = mirror[e][a]
<1>1. s.subject \in Entities /\ s.predicate \in Attributes /\ s.object \in Values
  BY DEF Attribution
<1>2. mirror' = [mirror EXCEPT ![s.subject][s.predicate] = s.object]
  BY DEF SetAttribute, Mirrored
<1>3. mirror'[s.subject][s.predicate] = s.object
  BY <1>1, <1>2 DEF GraphTypeOK
<1>4. \A e \in Entities, a \in Attributes : ~About(s, e, a) => mirror'[e][a] = mirror[e][a]
  BY <1>1, <1>2 DEF GraphTypeOK, About
<1>5. /\ facts' \in Seq(Said) /\ Len(facts) \in Nat
      /\ Len(facts') = Len(facts) + 1 /\ facts'[Len(facts) + 1] = Fact(s)
  <2>1. /\ Invalidated(AttributeFacts(s)) \in Seq(Said)
        /\ Len(Invalidated(AttributeFacts(s))) = Len(facts)
    BY InvalidatedFacts DEF GraphTypeOK
  <2>2. Fact(s) \in Said
    BY DEF Fact, Said
  <2>3. facts' = Append(Invalidated(AttributeFacts(s)), Fact(s))
    BY DEF SetAttribute
  <2> QED BY <2>1, <2>2, <2>3, AppendProperties, LenProperties
<1>6. PICK n \in DOMAIN facts' : n = Len(facts) + 1 /\ \A j \in DOMAIN facts' : j <= n
  BY <1>5, LenProperties
<1>7. facts'[n].says = s
  BY <1>5, <1>6 DEF Fact
<1>8. SetLast(s.subject, s.predicate, n)'
  BY <1>6, <1>7 DEF SetLast
<1> QED BY <1>3, <1>4, <1>6, <1>7, <1>8 DEF MirrorTells

LEMMA MirrorInv ==
  ASSUME GraphTypeOK, MirrorTellsLastSet, [GraphNext]_vars
  PROVE  MirrorTellsLastSet'
<1>1. /\ facts \in Seq(Said) /\ SaysOfKnown
      /\ \A e \in Entities, a \in Attributes : MirrorTells(e, a)
  BY DEF GraphTypeOK, MirrorTellsLastSet, MirrorTells, SaysOfKnown
<1>2. \A s \in Attribution \cup Relation : s.subject \in Entities
  BY DEF Attribution, Relation
<1> SUFFICES SaysOfKnown' /\ \A e \in Entities, a \in Attributes : MirrorTells(e, a)'
  BY DEF MirrorTellsLastSet, MirrorTells, SaysOfKnown
<1>3. ASSUME NEW ids, NEW added, Step(ids, added), known \subseteq known',
             \A t \in added : /\ t.subject \in known'
                              /\ t \in Relation => t.object \in known'
      PROVE  SaysOfKnown'
  <2>1. After(ids, added)
    BY <1>1, <1>3, Steps
  <2> SUFFICES ASSUME NEW i \in DOMAIN facts'
               PROVE  /\ facts'[i].says.subject \in known'
                      /\ facts'[i].says \in Relation => facts'[i].says.object \in known'
    BY DEF SaysOfKnown
  <2>2. CASE i \in DOMAIN facts
    <3>1. facts'[i].says = facts[i].says
      BY <2>1, <2>2 DEF After
    <3>2. known \subseteq known'
      BY <1>3
    <3> QED BY <1>1, <2>2, <3>1, <3>2 DEF SaysOfKnown
  <2>3. CASE i \notin DOMAIN facts
    <3>1. PICK t \in added : t = facts'[i].says
      BY <2>1, <2>3 DEF After
    <3>2. t.subject \in known' /\ (t \in Relation => t.object \in known')
      BY <1>3
    <3> QED BY <3>1, <3>2
  <2> QED BY <2>2, <2>3
<1>4. ASSUME NEW ids, NEW added, Step(ids, added), added \subseteq Relation,
             mirror' = mirror
      PROVE  \A e \in Entities, a \in Attributes : MirrorTells(e, a)'
  <2>1. \A t \in added, e \in Entities, a \in Attributes : ~About(t, e, a)
    BY <1>4, Kinds DEF About
  <2> QED BY <1>1, <1>4, <2>1, Steps, MirrorStays
<1>5. ASSUME NEW s \in Attribution, SetAttribute(s)
      PROVE  SaysOfKnown' /\ \A e \in Entities, a \in Attributes : MirrorTells(e, a)'
  <2>1. Step(AttributeFacts(s), {s}) /\ After(AttributeFacts(s), {s})
    BY <1>1, <1>5, SetClears, Steps
  <2>2. known' = known \cup {s.subject} /\ s \notin Relation
    BY <1>5, Kinds DEF SetAttribute, Ensure
  <2>3. SaysOfKnown'
    BY <1>3, <2>1, <2>2
  <2>4. ASSUME NEW e \in Entities, NEW a \in Attributes PROVE MirrorTells(e, a)'
    <3>1. CASE About(s, e, a)
      <4>1. e = s.subject /\ a = s.predicate
        BY <3>1 DEF About
      <4> QED BY <1>5, <4>1, MirrorIsSet
    <3>2. CASE ~About(s, e, a)
      BY <1>1, <1>5, <2>1, <3>2, MirrorIsSet, MirrorStays
    <3> QED BY <3>1, <3>2
  <2> QED BY <2>3, <2>4
<1>6. CASE UNCHANGED facts /\ UNCHANGED mirror /\ known \subseteq known'
  <2>1. Step({}, {})
    BY <1>6 DEF Step
  <2> QED BY <1>3, <1>4, <1>6, <2>1
<1>7. ASSUME NEW s \in Relation, AddRelation(s)
      PROVE  SaysOfKnown' /\ \A e \in Entities, a \in Attributes : MirrorTells(e, a)'
  <2>1. known' = known \cup {s.subject, s.object} /\ mirror' = mirror
    BY <1>7 DEF AddRelation, Ensure
  <2>2. CASE RelationFacts(s) = {}
    <3>1. Step({}, {s})
      BY <1>7, <2>2, AddClears
    <3> QED BY <1>3, <1>4, <2>1, <3>1
  <2>3. CASE RelationFacts(s) # {}
    BY <1>6, <1>7, <2>1, <2>3 DEF AddRelation
  <2> QED BY <2>2, <2>3
<1>8. ASSUME NEW s \in Relation, RemoveRelation(s)
      PROVE  SaysOfKnown' /\ \A e \in Entities, a \in Attributes : MirrorTells(e, a)'
  <2>1. Step(RelationFacts(s), {}) /\ known' = known /\ mirror' = mirror
    BY <1>8 DEF RemoveRelation, Step, RelationFacts
  <2> QED BY <1>3, <1>4, <2>1
<1>9. ASSUME NEW i \in shown, InvalidateFact(i)
      PROVE  SaysOfKnown' /\ \A e \in Entities, a \in Attributes : MirrorTells(e, a)'
  <2>1. Step({i}, {}) /\ known' = known /\ mirror' = mirror
    BY <1>9 DEF InvalidateFact, Step, GraphTypeOK
  <2> QED BY <1>3, <1>4, <2>1
<1>10. CASE Retrieve \/ Reject \/ UNCHANGED vars \/ \E e \in Entities : AddEntity(e)
  BY <1>6, <1>10 DEF Retrieve, Reject, AddEntity, vars
<1> QED
  BY <1>5, <1>7, <1>8, <1>9, <1>10 DEF GraphNext

(* The value kept on an entity is the one its attribute was last given, also *)
(* when that fact has been taken back since, and no fact is about an entity  *)
(* that is not stored (set_attribute, _ensure_entity).                       *)
THEOREM MirrorTellsLastSetHolds == GraphSpec => []MirrorTellsLastSet
<1>1. GraphInit => MirrorTellsLastSet
  BY EmptySeq DEF GraphInit, MirrorTellsLastSet
<1>2. Inv /\ MirrorTellsLastSet /\ [GraphNext]_vars => MirrorTellsLastSet'
  BY MirrorInv DEF Inv
<1> QED
  BY InvHolds, <1>1, <1>2, PTL DEF GraphSpec
=============================================================================
