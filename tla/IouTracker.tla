------------------------------ MODULE IouTracker ------------------------------
(***************************************************************************)
(* IouTracker: frame-to-frame association of detections to tracks.  The    *)
(* tracks claim detections in their order, the oldest first, each the free *)
(* one that overlaps its predicted box most; a track without one coasts    *)
(* along its velocity, and a detection without a track starts a new one.   *)
(*                                                                         *)
(* Coordinates are integers instead of floats, and an overlap is a         *)
(* fraction of two of them.                                                *)
(***************************************************************************)
EXTENDS Integers, Sequences, FiniteSets, SequencesExt

CONSTANTS
  Boxes,        \* the boxes a detection may have
  MaxDetections,\* bound: detections in an update
  MinIou,       \* options_.min_iou, a fraction
  MaxCoastAge,  \* options_.max_coast_age
  ClassAware    \* options_.class_aware

Box == [label : STRING, x : Int, y : Int, w : Nat, h : Nat]

ASSUME TrackerAssumption ==
  /\ Boxes \subseteq Box
  /\ MaxDetections \in Nat
  /\ MinIou \in [num : Nat, den : Nat \ {0}] /\ MinIou.num <= MinIou.den
  /\ MaxCoastAge \in Nat
  /\ ClassAware \in BOOLEAN

VARIABLES
  tracks, nextTrackId,  \* tracks_, next_track_id_
  detections            \* the argument of the last update

trackerVars == <<tracks, nextTrackId, detections>>

TrackerInit == tracks = << >> /\ nextTrackId = 1 /\ detections = << >>

-----------------------------------------------------------------------------
(* Fractions.                                                                *)

Above(a, b) == a.num * b.den > b.num * a.den
AtLeast(a, b) == ~Above(b, a)

Larger(a, b) == IF a > b THEN a ELSE b
Smaller(a, b) == IF a < b THEN a ELSE b

(* How far two intervals overlap, given by centre and length, in half units. *)
Shared(c, l, d, m) ==
  Larger(0, Smaller(2 * c + l, 2 * d + m) - Larger(2 * c - l, 2 * d - m))

Iou(a, b) ==
  LET intersection == Shared(a.x, a.w, b.x, b.w) * Shared(a.y, a.h, b.y, b.h)
      union == 4 * a.w * a.h + 4 * b.w * b.h - intersection
  IN  IF union = 0 THEN [num |-> 0, den |-> 1] ELSE [num |-> intersection, den |-> union]

-----------------------------------------------------------------------------
Predicted(t) == [t.box EXCEPT !.x = @ + t.vx, !.y = @ + t.vy]

(* The detections among free that a track may claim.                         *)
\* Mutant: labels are not compared.
CandidatesAnyClass(t, dets, free) ==
  { i \in free : AtLeast(Iou(Predicted(t), dets[i]), MinIou) }

Candidates(t, dets, free) ==
  { i \in free : /\ ClassAware => dets[i].label = t.box.label
                 /\ AtLeast(Iou(Predicted(t), dets[i]), MinIou) }

(* The best one is the first of those with the largest overlap.              *)
Best(t, dets, candidates) ==
  LET Score(i) == Iou(Predicted(t), dets[i])
  IN  CHOOSE i \in candidates :
        \A j \in candidates : IF j < i THEN Above(Score(i), Score(j))
                                       ELSE AtLeast(Score(i), Score(j))

Matched(t, d) ==
  [t EXCEPT !.vx = d.x - t.box.x, !.vy = d.y - t.box.y, !.box = d,
            !.age = @ + 1, !.coast = 0]

Coasted(t) ==
  [t EXCEPT !.box = Predicted(t), !.age = @ + 1, !.coast = @ + 1]

Created(id, d) == [id |-> id, box |-> d, vx |-> 0, vy |-> 0, age |-> 1, coast |-> 0]

(* One round of the loop over the tracks, and of the one over the detections *)
(* after it.  A round knows the tracks kept so far, the detections still     *)
(* free and the next id.                                                     *)
\* Mutant: the detection is not marked as matched.
AssociateTwice(dets, acc, t) ==
  LET candidates == Candidates(t, dets, acc.free)
      best == Best(t, dets, candidates)
  IN  IF candidates # {}
      THEN [acc EXCEPT !.kept = Append(@, Matched(t, dets[best]))]
      ELSE IF t.coast < MaxCoastAge
           THEN [acc EXCEPT !.kept = Append(@, Coasted(t))]
           ELSE acc

Associate(dets, acc, t) ==
  LET candidates == Candidates(t, dets, acc.free)
      best == Best(t, dets, candidates)
  IN  IF candidates # {}
      THEN [acc EXCEPT !.kept = Append(@, Matched(t, dets[best])), !.free = @ \ {best}]
      ELSE IF t.coast < MaxCoastAge
           THEN [acc EXCEPT !.kept = Append(@, Coasted(t))]
           ELSE acc

Begin(dets, acc, i) ==
  IF i \in acc.free
  THEN [kept |-> Append(acc.kept, Created(acc.nextId, dets[i])),
        free |-> acc.free \ {i}, nextId |-> acc.nextId + 1]
  ELSE acc

Update(dets) ==
  LET N == Len(tracks)
      round[n \in 0..(N + Len(dets))] ==
        IF n = 0 THEN [kept |-> << >>, free |-> DOMAIN dets, nextId |-> nextTrackId]
        ELSE IF n <= N THEN Associate(dets, round[n - 1], tracks[n])
        ELSE Begin(dets, round[n - 1], n - N)
      last == round[N + Len(dets)]
  IN  tracks' = last.kept /\ nextTrackId' = last.nextId /\ detections' = dets

DetectionLists == UNION { [1..n -> Boxes] : n \in 0..MaxDetections }

-----------------------------------------------------------------------------
Updated == { i \in DOMAIN tracks : tracks[i].coast = 0 }

(* Every detection is one track's and no other's, old or new.                *)
EachDetectionOnce ==
  /\ Cardinality(Updated) = Len(detections)
  /\ \A d \in ToSet(detections) :
       Cardinality({ i \in DOMAIN detections : detections[i] = d })
         = Cardinality({ i \in Updated : tracks[i].box = d })

(* An update keeps a track as one track of its class, and gives it up only   *)
(* when it has coasted all it may, and not later; it coasts only if each     *)
(* detection it could have claimed went to an older track.                   *)
WithId(id, ts) == { t \in ToSet(ts) : t.id = id }

TracksPersist ==
  \A i \in DOMAIN tracks :
    LET t == tracks[i]
        now == WithId(t.id, tracks')
        claimable == Candidates(t, detections', DOMAIN detections')
    IN  /\ Cardinality(now) <= 1
        /\ \A u \in now : /\ ClassAware => u.box.label = t.box.label
                          /\ u.coast <= MaxCoastAge
        /\ now = {} => t.coast = MaxCoastAge
        /\ (\A u \in now : u.coast > 0) =>
             \A k \in claimable : \E j \in 1..(i - 1) :
               \E u \in WithId(tracks[j].id, tracks') :
                 u.coast = 0 /\ u.box = detections'[k]
=============================================================================
