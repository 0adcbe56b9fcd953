---------------------------- MODULE FrameExtraction ----------------------------
(***************************************************************************)
(* Frames of a recorded bag as files: the extraction script, which reads   *)
(* the messages of one topic and writes a directory of images and then its *)
(* manifest, and the store that looks frames up for the web console.       *)
(*                                                                         *)
(* Times are integers in a unit that divides the shortest interval.  The   *)
(* content of an image is the place of its message in the recording.  The  *)
(* console runs one extraction at a time, each in a directory of its own,  *)
(* and any may be killed.                                                  *)
(***************************************************************************)
EXTENDS Integers, Sequences, FiniteSets

CONSTANTS
  Recordings,   \* the topics that may have been recorded
  Parameters,   \* what an extraction is asked for
  Datasets,     \* directories, the oldest first
  MinInterval,  \* 0.05 s
  Default       \* for an option that is not given

ASSUME ExtractionAssumption ==
  /\ IsFiniteSet(Datasets) /\ Datasets = 1..Cardinality(Datasets)
  /\ Default \notin Int /\ MinInterval \in Nat
  /\ \A r \in Recordings :
       /\ r \in Seq([at : Nat, decodes : BOOLEAN])
       \* A bag is read in the order of time.
       /\ \A i, j \in DOMAIN r : i <= j => r[i].at <= r[j].at
  /\ \A p \in Parameters :
       p \in [start : Nat, end : Nat \cup {Default}, duration : Nat \cup {Default},
              interval : Nat, target : Nat \cup {Default}, max : Nat \ {0}]

VARIABLES
  recording,
  store,      \* the directories: parameters, images and manifest
  extraction  \* the script that runs

extractionVars == <<recording, store, extraction>>

NoManifest == [listed |-> FALSE]
NoDirectory == [made |-> FALSE, manifest |-> NoManifest]
NoExtraction == [pc |-> "none"]

(* A file that is not there, or not whole                                    *)
Partial == 0

ExtractionInit ==
  /\ recording \in Recordings
  /\ store = [d \in Datasets |-> NoDirectory]
  /\ extraction = NoExtraction

-----------------------------------------------------------------------------
(* _compute_effective_end_offset                                             *)
EffectiveEnd(p) ==
  CASE p.end # Default -> p.end
    [] p.end = Default /\ p.duration # Default -> p.start + p.duration
    [] OTHER -> Default

(* Of the bag, which is taken to be no longer than the topic                 *)
Duration == recording[Len(recording)].at - recording[1].at

(* The interval asked for, or the one that gives about the target; to a whole*)
(* unit, which is the same to times that are whole.                          *)
Interval(p) ==
  LET available == (IF EffectiveEnd(p) = Default THEN Duration ELSE EffectiveEnd(p)) - p.start
      share == (available + p.target - 1) \div p.target
  IN  IF p.target = Default \/ p.target = 0 THEN p.interval
      ELSE IF share < MinInterval THEN MinInterval ELSE share

Offset(place) == recording[place].at - recording[1].at

(* _api_extract_start: an end that is not after the start is not refused.    *)
StartExtraction(d, p) ==
  /\ extraction = NoExtraction
  /\ ~store[d].made /\ \A older \in 1..(d - 1) : store[older].made
  /\ store' = [store EXCEPT ![d] = [made |-> TRUE, asked |-> p, images |-> << >>,
                                    manifest |-> NoManifest]]
  /\ extraction' = [pc |-> "read", dataset |-> d, next |-> 1, frames |-> << >>]
  /\ UNCHANGED recording

Asked == store[extraction.dataset].asked

(* The loop goes on: has_next, and fewer frames than there may be.           *)
Reading ==
  /\ extraction.pc = "read"
  /\ extraction.next <= Len(recording)
  /\ Len(extraction.frames) < Asked.max

PastEnd ==
  /\ Offset(extraction.next) >= Asked.start
  /\ EffectiveEnd(Asked) # Default /\ Offset(extraction.next) > EffectiveEnd(Asked)

LastSampled == extraction.frames[Len(extraction.frames)]

\* Mutant: what is due is counted from the start, and so may come too soon.
DueOnGrid ==
  Offset(extraction.next) >= Asked.start + Len(extraction.frames) * Interval(Asked)

Due ==
  /\ Offset(extraction.next) >= Asked.start
  /\ extraction.frames # << >> =>
       Offset(extraction.next) - Offset(LastSampled) >= Interval(Asked)

Skip ==
  /\ Reading /\ ~PastEnd
  /\ ~(Due /\ recording[extraction.next].decodes)
  /\ extraction' = [extraction EXCEPT !.next = @ + 1]
  /\ UNCHANGED <<recording, store>>

\* Mutant: a file is numbered as its message is.
NumberOfMessage == extraction.next

(* frame_count                                                               *)
Number == Len(extraction.frames) + 1

Put(images, n, content) ==
  [i \in 1..(IF n > Len(images) THEN n ELSE Len(images)) |->
     IF i = n THEN content ELSE IF i \in DOMAIN images THEN images[i] ELSE Partial]

(* The file of the image is opened, and written.                             *)
OpenImage ==
  /\ Reading /\ ~PastEnd
  /\ Due /\ recording[extraction.next].decodes
  /\ store' = [store EXCEPT ![extraction.dataset].images = Put(@, Number, Partial)]
  /\ extraction' = [extraction EXCEPT !.pc = "write"]
  /\ UNCHANGED recording

WriteImage ==
  /\ extraction.pc = "write"
  /\ store' = [store EXCEPT ![extraction.dataset].images = Put(@, Number, extraction.next)]
  /\ extraction' = [extraction EXCEPT !.pc = "read", !.frames = Append(@, extraction.next),
                                      !.next = @ + 1]
  /\ UNCHANGED recording

(* The manifest is written beside and put in place.                          *)
PutManifest ==
  /\ extraction.pc = "read"
  /\ Reading => PastEnd
  /\ store' = [store EXCEPT ![extraction.dataset].manifest =
                 [listed |-> TRUE,
                  stamps |-> [i \in DOMAIN extraction.frames |->
                                recording[extraction.frames[i]].at]]]
  /\ extraction' = NoExtraction
  /\ UNCHANGED recording

(* Without ROS, without the topic, or killed                                 *)
ExtractionEnds ==
  /\ extraction # NoExtraction
  /\ extraction' = NoExtraction
  /\ UNCHANGED <<recording, store>>

ExtractionNext ==
  \/ \E d \in Datasets, p \in Parameters : StartExtraction(d, p)
  \/ Skip \/ OpenImage \/ WriteImage \/ PutManifest
  \/ ExtractionEnds

ExtractionSpec == ExtractionInit /\ [][ExtractionNext]_extractionVars

-----------------------------------------------------------------------------
Listed(d) == store[d].manifest.listed

(* get_frame_path, for frames counted from 1, and what is in the file        *)
FrameOf(d, i) ==
  IF Listed(d) /\ i \in DOMAIN store[d].manifest.stamps /\ i \in DOMAIN store[d].images
  THEN store[d].images[i] ELSE Partial

(* Whatever was killed, a frame that a manifest lists is there, whole, and   *)
(* is the image that was recorded at the time it is listed with (main,       *)
(* load_frame_manifest, get_frame_path).                                     *)
ManifestTellsFiles ==
  \A d \in Datasets : Listed(d) =>
    \A i \in DOMAIN store[d].manifest.stamps :
      /\ FrameOf(d, i) \in DOMAIN recording
      /\ recording[FrameOf(d, i)].decodes
      /\ recording[FrameOf(d, i)].at = store[d].manifest.stamps[i]

(* The frames of a manifest are in the window that was asked for, no two are *)
(* closer than the interval, and nothing that could be decoded was left out  *)
(* but for that, or for the number of frames (main's loop).                  *)
FramesAreSampled ==
  \A d \in Datasets : Listed(d) =>
    LET p == store[d].asked
        taken == [i \in DOMAIN store[d].manifest.stamps |->
                    store[d].manifest.stamps[i] - recording[1].at]
        InWindow(t) == t >= p.start /\ (EffectiveEnd(p) # Default => t <= EffectiveEnd(p))
    IN  /\ Len(taken) <= p.max
        /\ \A i \in DOMAIN taken : InWindow(taken[i])
        /\ \A i \in 2..Len(taken) : taken[i] - taken[i - 1] >= Interval(p)
        /\ Len(taken) < p.max =>
             \A m \in DOMAIN recording :
               recording[m].decodes /\ InWindow(Offset(m)) =>
                 \E i \in DOMAIN taken :
                   \/ taken[i] = Offset(m)
                   \/ taken[i] < Offset(m) /\ Offset(m) - taken[i] < Interval(p)

(* What a manifest says is there, and is what was asked for.                 *)
ManifestTellsFrames == ManifestTellsFiles /\ FramesAreSampled
=============================================================================
