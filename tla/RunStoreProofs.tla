----------------------------- MODULE RunStoreProofs ----------------------------
(***************************************************************************)
(* What the operations of the run store leave in the manifests, and how    *)
(* many of them recording a run leaves.                                    *)
(***************************************************************************)
EXTENDS RunStore, SequenceTheorems, FiniteSetTheorems, WellFoundedInduction, TLAPS

Manifests == [AllRuns -> Statuses]

(* Recording a run writes one manifest and may remove others.                *)
LEMMA Saved ==
  ASSUME NEW r \in AllRuns, NEW status \in Statuses, manifest \in Manifests, SaveRun(r, status)
  PROVE  /\ manifest' \in Manifests
         /\ \A q \in AllRuns : manifest'[q] \in {"none", status, manifest[q]}
<1> DEFINE kept == ToSet(Kept(Touched(r)))
<1>1. manifest' = [q \in AllRuns |->
                     IF q \notin kept THEN "none" ELSE IF q = r THEN status ELSE manifest[q]]
  BY DEF SaveRun
<1> HIDE DEF kept
<1> QED
  BY <1>1 DEF Manifests, Statuses

(* A conditional update changes the manifest of its run only.                *)
LEMMA Updated ==
  ASSUME NEW r \in AllRuns, NEW status \in Statuses, NEW expected \in Statuses,
         manifest \in Manifests, UpdateRunIfStatus(r, expected, status)
  PROVE  /\ manifest' \in Manifests
         /\ \A q \in AllRuns :
              manifest'[q] = manifest[q]
              \/ (q = r /\ manifest[q] = expected /\ manifest'[q] = status)
<1>1. CASE manifest[r] = expected /\ WriteStatus(r, status)
  BY <1>1 DEF WriteStatus, Manifests
<1>2. CASE UNCHANGED storeVars
  BY <1>2 DEF storeVars
<1> QED
  BY <1>1, <1>2 DEF UpdateRunIfStatus

(* So does the final one, and it leaves a terminal status alone.             *)
LEMMA Finalized ==
  ASSUME NEW r \in AllRuns, NEW status \in Statuses, manifest \in Manifests,
         FinalizeRun(r, status)
  PROVE  /\ manifest' \in Manifests
         /\ \A q \in AllRuns :
              manifest'[q] = manifest[q]
              \/ (q = r /\ manifest[q] \notin Terminal /\ manifest'[q] = status)
<1>1. CASE manifest[r] \notin Terminal \cup {"none"} /\ WriteStatus(r, status)
  BY <1>1 DEF WriteStatus, Manifests
<1>2. CASE UNCHANGED storeVars
  BY <1>2 DEF storeVars
<1> QED
  BY <1>1, <1>2 DEF FinalizeRun
-----------------------------------------------------------------------------
(* Every non-empty set of natural numbers has a least element.               *)
LEMMA LeastOf ==
  ASSUME NEW T, T \subseteq Nat, T # {}
  PROVE  \E n \in T : \A m \in T : n <= m
<1> DEFINE R == OpToRel(<, Nat)
<1>1. IsWellFoundedOn(R, Nat)
  BY NatLessThanWellFounded
<1>2. \A x, y \in Nat : y < x => <<y, x>> \in R
  BY DEF OpToRel
<1> HIDE DEF R
<1>3. PICK x \in T : \A y \in T : ~(<<y, x>> \in R)
  BY <1>1, WFMin
<1>4. ASSUME NEW y \in T PROVE x <= y
  <2>1. ~(y < x)
    BY <1>2, <1>3, <1>4, Zenon
  <2> QED
    BY <2>1
<1> QED
  BY <1>4

(* Taking a directory out leaves a sequence of directories.                  *)
LEMMA RemovedIsSeq ==
  ASSUME NEW S, NEW s \in Seq(S), NEW e
  PROVE  RemoveFirst(s, e) \in Seq(S)
<1> DEFINE I == { i \in 1..Len(s) : s[i] = e }
<1>1. CASE I = {}
  BY <1>1 DEF RemoveFirst
<1>2. CASE I # {}
  <2>1. PICK k \in I : \A m \in I : k <= m
    <3>1. I \subseteq Nat
      OBVIOUS
    <3> HIDE DEF I
    <3> QED
      BY <1>2, <3>1, LeastOf
  <2>2. Min(I) \in I
    BY <2>1 DEF Min
  <2>3. RemoveFirst(s, e) = RemoveAt(s, Min(I))
    BY <1>2 DEF RemoveFirst, SelectInSeq
  <2>4. PICK i \in 1..Len(s) : i = Min(I)
    BY <2>2
  <2>5. SubSeq(s, 1, i - 1) \in Seq(S) /\ SubSeq(s, i + 1, Len(s)) \in Seq(S)
    OBVIOUS
  <2> QED
    BY <2>3, <2>4, <2>5 DEF RemoveAt
<1> QED
  BY <1>1, <1>2

(* The directory that was written last is the last one.                      *)
LEMMA TouchedIsLast ==
  ASSUME dirs \in Seq(AllRuns), NEW r \in AllRuns
  PROVE  /\ Touched(r) \in Seq(AllRuns)
         /\ Len(Touched(r)) > 0
         /\ Touched(r)[Len(Touched(r))] = r
<1>1. PICK s \in Seq(AllRuns) : s = RemoveFirst(dirs, r)
  BY RemovedIsSeq
<1> QED
  BY <1>1 DEF Touched

(* Eviction leaves at most MaxRuns directories, the last one among them.     *)
LEMMA KeptIsShort ==
  ASSUME NEW S, NEW s \in Seq(S), Len(s) > 0
  PROVE  /\ Kept(s) \in Seq(S)
         /\ Len(Kept(s)) \in 1..MaxRuns
         /\ Kept(s)[Len(Kept(s))] = s[Len(s)]
<1>1. CASE Len(s) > MaxRuns
  <2>1. MaxRuns \in Nat /\ MaxRuns > 0 /\ Len(s) \in Nat
    BY StoreAssumption
  <2>2. Kept(s) = SubSeq(s, Len(s) - MaxRuns + 1, Len(s))
    BY <1>1 DEF Kept
  <2>3. \A i \in (Len(s) - MaxRuns + 1)..Len(s) : s[i] \in S
    BY <1>1, <2>1
  <2>4. /\ Kept(s) \in Seq(S)
        /\ Len(Kept(s)) = MaxRuns
        /\ \A i \in 1..MaxRuns : Kept(s)[i] = s[Len(s) - MaxRuns + i]
    BY <1>1, <2>1, <2>2, <2>3, SubSeqProperties
  <2> QED
    BY <1>1, <2>1, <2>4
<1>2. CASE ~(Len(s) > MaxRuns)
  BY <1>2, StoreAssumption DEF Kept
<1> QED
  BY <1>1, <1>2

(* A sequence has no more elements than places.                              *)
LEMMA ElementsAreFew ==
  ASSUME NEW S, NEW s \in Seq(S)
  PROVE  IsFiniteSet(ToSet(s)) /\ Cardinality(ToSet(s)) <= Len(s)
<1>1. Len(s) \in Nat /\ ToSet(s) = { s[i] : i \in 1..Len(s) }
  BY DEF ToSet
<1>2. IsFiniteSet(1..Len(s)) /\ Cardinality(1..Len(s)) = Len(s)
  BY <1>1, FS_Interval, SMTT(30)
<1>3. [i \in 1..Len(s) |-> s[i]] \in Surjection(1..Len(s), ToSet(s))
  BY <1>1 DEF Surjection
<1> QED
  BY <1>2, <1>3, FS_Surjection

(* Recording a run that has no manifest leaves fewer than MaxRuns others,    *)
(* and each of those as it was.                                              *)
LEMMA SavedAmongFew ==
  ASSUME NEW r \in AllRuns, NEW status \in Statuses, manifest \in Manifests,
         dirs \in Seq(AllRuns), manifest[r] = "none", SaveRun(r, status)
  PROVE  /\ dirs' \in Seq(AllRuns)
         /\ \E evicted \in SUBSET { q \in AllRuns : manifest[q] # "none" } :
              /\ Cardinality({ q \in AllRuns : manifest[q] # "none" } \ evicted) < MaxRuns
              /\ manifest' = [q \in AllRuns |-> IF q = r THEN status
                                               ELSE IF q \in evicted THEN "none"
                                               ELSE manifest[q]]
<1>1. PICK kept \in Seq(AllRuns) :
        kept = Kept(Touched(r)) /\ Len(kept) \in 1..MaxRuns /\ kept[Len(kept)] = r
  BY TouchedIsLast, KeptIsShort
<1>2. /\ dirs' = kept
      /\ manifest' = [q \in AllRuns |-> IF q \notin ToSet(kept) THEN "none"
                                       ELSE IF q = r THEN status ELSE manifest[q]]
  BY <1>1 DEF SaveRun
<1>3. r \in ToSet(kept) /\ ToSet(kept) \subseteq AllRuns
  BY <1>1 DEF ToSet
<1>4. PICK n \in Nat : n = Cardinality(ToSet(kept) \ {r}) /\ n < MaxRuns
  <2>1. IsFiniteSet(ToSet(kept)) /\ Cardinality(ToSet(kept)) <= Len(kept)
    BY ElementsAreFew
  <2>2. /\ IsFiniteSet(ToSet(kept) \ {r})
        /\ Cardinality(ToSet(kept) \ {r}) = Cardinality(ToSet(kept)) - 1
    BY <1>3, <2>1, FS_RemoveElement
  <2>3. Cardinality(ToSet(kept)) \in Nat /\ Cardinality(ToSet(kept) \ {r}) \in Nat
    BY <2>1, <2>2, FS_CardinalityType
  <2> QED
    BY <1>1, <2>1, <2>2, <2>3, StoreAssumption
<1> DEFINE recorded == { q \in AllRuns : manifest[q] # "none" }
           evicted == recorded \ ToSet(kept)
<1>5. Cardinality(recorded \ evicted) < MaxRuns
  <2>1. recorded \ evicted \in SUBSET (ToSet(kept) \ {r})
    OBVIOUS
  <2>2. IsFiniteSet(ToSet(kept) \ {r})
    BY ElementsAreFew, FS_RemoveElement
  <2> HIDE DEF recorded, evicted
  <2>3. /\ IsFiniteSet(recorded \ evicted)
        /\ Cardinality(recorded \ evicted) <= Cardinality(ToSet(kept) \ {r})
    BY <2>1, <2>2, FS_Subset
  <2>4. Cardinality(recorded \ evicted) \in Nat
    BY <2>3, FS_CardinalityType
  <2> QED
    BY <1>4, <2>3, <2>4, StoreAssumption
<1>6. manifest' = [q \in AllRuns |-> IF q = r THEN status
                                   ELSE IF q \in evicted THEN "none" ELSE manifest[q]]
  BY <1>2, <1>3
<1> QED
  BY <1>1, <1>2, <1>5, <1>6
=============================================================================
