---------------------------- MODULE TemporalLabels ----------------------------
(***************************************************************************)
(* One sample of the distillation pipeline: the rules a label must pass,   *)
(* the controls an evaluation derives from it, and the times its frames    *)
(* have for the student, in training and when it is served.                *)
(*                                                                         *)
(* Times are integers in a unit far above the tolerance of the rules; a    *)
(* frame is its time, a text the highest frame number it names.            *)
(***************************************************************************)
EXTENDS Integers, Sequences, SequencesExt

CONSTANTS
  Times,       \* of frames and of evidence
  MaxFrames,
  Directions,
  Opposite,    \* _REVERSE_DIRECTION_MAP, and itself for any other
  Refs,        \* frame numbers that texts name
  Periods,     \* 1 / effective_fps
  Tick,        \* of the served timebase
  NoTarget, NoPeriod

(* TemporalTarget, with times among the given ones                           *)
TargetAmong(times) ==
  [detected : BOOLEAN, change : Directions, start : times, end : times,
   complete : BOOLEAN, sure : BOOLEAN]

ASSUME LabelAssumption ==
  /\ Times \subseteq Nat /\ Refs \subseteq Nat /\ MaxFrames \in Nat
  /\ Opposite \in [Directions -> Directions]
  /\ \A d \in Directions : Opposite[Opposite[d]] = d
  /\ Periods \subseteq Nat \ {0} /\ Tick \in Nat \ {0}
  /\ NoPeriod \notin Periods
  /\ NoTarget \notin TargetAmong(Int)

VARIABLES
  sample,  \* a TemporalSample
  stage,   \* what was done with it
  result   \* what came of that

labelVars == <<sample, stage, result>>

Frames == SeqOf(Times, MaxFrames)

(* What from_dict refuses has no target.                                     *)
Sample == [frames : Frames, static : BOOLEAN, refs : Refs,
           target : TargetAmong(Times) \cup {NoTarget}]

-----------------------------------------------------------------------------
(* The rules of VALIDATORS                                                   *)
Ordered(frames) == \A i \in 2..Len(frames) : frames[i] >= frames[i - 1]

EvidenceWithin(frames, target) ==
  target.start >= Head(frames) /\ target.end <= Last(frames)

Accepted(s) ==
  /\ s.frames # << >>
  /\ s.target # NoTarget
  /\ s.target.complete /\ s.target.sure
  /\ Ordered(s.frames)
  /\ s.target.end >= s.target.start
  /\ EvidenceWithin(s.frames, s.target)
  /\ s.refs <= Len(s.frames)
  /\ ~(s.static /\ s.target.detected)

-----------------------------------------------------------------------------
(* _evidence_bucket                                                          *)
Bucket(start, first, last) ==
  LET duration == last - first
  IN  IF duration <= 0 \/ 3 * (start - first) < duration THEN "early"
      ELSE IF 3 * (start - first) < 2 * duration THEN "mid" ELSE "late"

(* compare_sample: what it says of a prediction, all of which may be right.  *)
FullMarks(predicted, truth) ==
  LET p == predicted.target
      t == truth.target
  IN  /\ p # NoTarget
      /\ t # NoTarget =>
           /\ p.detected = t.detected
           /\ t.detected =>
                /\ p.change = t.change
                /\ Bucket(p.start, Head(predicted.frames), Last(predicted.frames)) =
                     Bucket(t.start, Head(truth.frames), Last(truth.frames))

Sorted(frames) ==
  LET order == CHOOSE p \in Bijection(DOMAIN frames, DOMAIN frames) :
                 \A i, j \in DOMAIN frames : i < j => frames[p[i]] <= frames[p[j]]
  IN  [i \in DOMAIN frames |-> frames[order[i]]]

(* apply_transform, where a prediction keeps the times of the frames         *)
Transformed(s, transform) ==
  CASE transform = "chronological" -> [s EXCEPT !.frames = Sorted(@)]
    [] transform = "reversed" -> [s EXCEPT !.frames = Reverse(@)]
    [] transform = "duplicated_frame" /\ s.frames # << >> ->
         [s EXCEPT !.frames = Append(@, Last(@))]
    [] transform = "single_terminal_frame" /\ s.frames # << >> ->
         [s EXCEPT !.frames = <<Last(@)>>]
    [] OTHER -> s

Lower(a, b) == IF a < b THEN a ELSE b
Upper(a, b) == IF a < b THEN b ELSE a

\* Mutant: the ends of the evidence keep their places.
MirroredUnswapped(target, first, last) ==
  [target EXCEPT !.change = Opposite[@],
                 !.start = last + first - target.start,
                 !.end = last + first - target.end]

(* The target of the same scene run backwards                                *)
Mirrored(target, first, last) ==
  LET a == last + first - target.start
      b == last + first - target.end
  IN  [target EXCEPT !.change = Opposite[@],
                     !.start = IF last > first THEN Lower(a, b) ELSE @,
                     !.end = IF last > first THEN Upper(a, b) ELSE @]

(* _derive_control_target                                                    *)
Control(s, transform) ==
  CASE transform = "reversed" /\ s.target # NoTarget /\ s.frames # << >> ->
         LET times == Sorted(s.frames)
         IN  [s EXCEPT !.frames = times,
                       !.target = Mirrored(@, Head(times), Last(times))]
    [] transform = "reversed" /\ s.target # NoTarget /\ s.frames = << >> ->
         [s EXCEPT !.target.change = Opposite[@]]
    [] transform = "shuffled" -> [s EXCEPT !.target = NoTarget]
    [] OTHER -> s

-----------------------------------------------------------------------------
Distance(a, b) == IF a < b THEN b - a ELSE a - b

\* Mutant: the average rate has to fit.
RegularOnAverage(frames, period) ==
  Len(frames) > 1 =>
    10 * Distance(Last(frames) - Head(frames), (Len(frames) - 1) * period)
      <= (Len(frames) - 1) * period

(* The second rule of derive_video_timing_metadata                           *)
Regular(frames, period) ==
  \A i \in 1..(Len(frames) - 1) : 10 * Distance(frames[i + 1] - frames[i], period) <= period

(* A sample that is native video, exported by _sample_to_sft_example and     *)
(* taken by _tokenize: the times its frames have for the processor, counted  *)
(* in whole frames at the recorded rate (build_video_processor_kwargs).      *)
Tokenised(s, period) ==
  IF period = NoPeriod \/ ~Regular(s.frames, period) THEN << >>
  ELSE [i \in DOMAIN s.frames |-> (i - 1) * period]

(* Python's round of n / d                                                   *)
Rounded(n, d) ==
  LET half == 2 * (n % d) - d
  IN  (n \div d) + (IF half > 0 \/ (half = 0 /\ (n \div d) % 2 = 1) THEN 1 ELSE 0)

(* build_video_metadata of the worker: the frame numbers at its timebase     *)
ServedIndices(frames) ==
  LET index[i \in DOMAIN frames] ==
        LET n == Rounded(frames[i] - Head(frames), Tick)
        IN  IF i = 1 THEN n ELSE Upper(n, index[i - 1] + 1)
  IN  [i \in DOMAIN frames |-> index[i]]

-----------------------------------------------------------------------------
LabelInit == sample \in Sample /\ stage = "pending" /\ result = << >>

(* validate_sample                                                           *)
Validate ==
  /\ stage = "pending"
  /\ stage' = IF Accepted(sample) THEN "accepted" ELSE "rejected"
  /\ UNCHANGED <<sample, result>>

(* evaluate_transforms with a student that answers what is expected of it    *)
Evaluate(transform) ==
  /\ stage = "accepted"
  /\ stage' = transform
  /\ result' = [predicted |-> [Transformed(sample, transform)
                                 EXCEPT !.target = Control(sample, transform).target],
                truth |-> Control(sample, transform)]
  /\ UNCHANGED sample

Tokenise(period) ==
  /\ stage = "accepted"
  /\ stage' = "tokenised"
  /\ result' = Tokenised(sample, period)
  /\ UNCHANGED sample

(* read_request refuses times that do not increase.                          *)
Serve ==
  /\ stage = "accepted"
  /\ \A i \in 2..Len(sample.frames) : sample.frames[i] > sample.frames[i - 1]
  /\ stage' = "served"
  /\ result' = ServedIndices(sample.frames)
  /\ UNCHANGED sample

Transforms ==
  {"chronological", "reversed", "shuffled", "duplicated_frame", "single_terminal_frame"}

LabelNext ==
  \/ Validate
  \/ \E transform \in Transforms : Evaluate(transform)
  \/ \E period \in Periods \cup {NoPeriod} : Tokenise(period)
  \/ Serve

LabelSpec == LabelInit /\ [][LabelNext]_labelVars

-----------------------------------------------------------------------------
(* An evaluation asks for what a label may say: the target it derives for    *)
(* frames in reverse passes the rules again and the one derived from that is *)
(* the label, and the answer it asks for has full marks where the frames     *)
(* still have their order (evaluate_transforms, _derive_control_target and   *)
(* compare_sample against VALIDATORS).                                       *)
ControlsAreFair ==
  /\ stage = "reversed" =>
       /\ Accepted(result.truth)
       /\ Control(result.truth, "reversed") = sample
  /\ stage \in {"chronological", "duplicated_frame"} => FullMarks(result.predicted, result.truth)

(* No frame of a video has a time for the student that is off by more than a *)
(* tenth of what passed since the first frame in training, or by more than   *)
(* half a tick when the frames are a tick apart and are served: rounded and  *)
(* pushed apart, the errors do not add up (derive_video_timing_metadata,     *)
(* build_video_metadata).                                                    *)
VideosKeepTheirTime ==
  /\ stage = "tokenised" =>
       \A i \in DOMAIN result :
         10 * Distance(sample.frames[i] - Head(sample.frames), result[i]) <= result[i]
  /\ stage = "served" /\ (\A i \in 2..Len(sample.frames) :
                            sample.frames[i] - sample.frames[i - 1] >= Tick) =>
       \A i \in DOMAIN result :
         2 * Distance(sample.frames[i] - Head(sample.frames), result[i] * Tick) <= Tick

(* Full marks for the answer asked for to frames in reverse: not so, since   *)
(* a prediction whose frames go back in time is always an early one.         *)
ReversedHasFullMarks ==
  stage = "reversed" => FullMarks(result.predicted, result.truth)
=============================================================================
