---------------------------- MODULE SequenceCatalog ----------------------------
(***************************************************************************)
(* Sequences of frames in the web console: the catalog found on disk, kept *)
(* by the server and replaced whenever a browser lists it, and the frames  *)
(* an experiment over a sequence takes by it while the disk changes.       *)
(*                                                                         *)
(* There is one sequence of each kind: a scene of samples that are linked  *)
(* and have an image each, a video clip, and the recording of one message  *)
(* that FrameExtraction extracts.  The frames of one request are modelled: *)
(* each has a directory of its own.                                        *)
(***************************************************************************)
EXTENDS FrameExtraction

CONSTANTS
  Tokens,        \* samples
  NoToken,
  FirstToken,    \* first_sample_token of the scene
  NextToken,     \* next of each sample
  Keyframes,     \* samples with a keyframe of the channel
  ClipLength,    \* frames of the video
  Annotated,     \* lengths its annotations may give it; 0: none
  Selections,    \* frame_indices of requests
  MaxSelection,  \* _SEQ_MAX_FRAME_SELECTION
  MaxImageChanges     \* bound: images that come or go

ASSUME CatalogAssumption ==
  /\ IsFiniteSet(Tokens) /\ NoToken \notin Tokens
  /\ FirstToken \in Tokens \cup {NoToken}
  /\ NextToken \in [Tokens -> Tokens \cup {NoToken}]
  /\ Keyframes \subseteq Tokens
  /\ ClipLength \in Nat /\ Annotated \subseteq Nat /\ MaxSelection \in Nat /\ MaxImageChanges \in Nat
  /\ Selections \subseteq Seq(Int) \cup {Default}

VARIABLES
  images,   \* the samples whose image is on disk
  probe,    \* the length of the clip by its file and by its annotations
  catalog,  \* _sequence_catalog_entries
  request,  \* a handler of _api_sequences_experiment
  changes

sequenceVars == <<images, probe, catalog, request, changes>>
catalogVars == <<extractionVars, sequenceVars>>

NoCatalog == [kept |-> FALSE]
NoRequest == [pc |-> "none"]

CatalogInit ==
  /\ ExtractionInit
  /\ images \in SUBSET Keyframes
  /\ probe \in [file : {0, ClipLength}, annotations : Annotated]
  /\ catalog = NoCatalog
  /\ request = NoRequest
  /\ changes = 0

-----------------------------------------------------------------------------
(* discover_nuscenes_scenes: the walk along the samples, which ends at one   *)
(* without a next or at one it has seen                                      *)
Visit(walk) ==
  IF walk.at = NoToken \/ walk.at \in walk.seen THEN walk
  ELSE [at |-> NextToken[walk.at], seen |-> walk.seen \cup {walk.at},
        refs |-> IF walk.at \in images THEN Append(walk.refs, walk.at) ELSE walk.refs]

Walk ==
  LET walk[n \in 0..Cardinality(Tokens)] ==
        IF n = 0 THEN [at |-> FirstToken, seen |-> {}, refs |-> << >>] ELSE Visit(walk[n - 1])
  IN  walk[Cardinality(Tokens)].refs

(* discover_jaad_clips: a clip has the number of its frames, 0 if nothing    *)
(* tells it, and no references.                                              *)
ClipFrames == IF probe.file # 0 THEN probe.file ELSE probe.annotations

(* discover_ros_static_fixtures: a bag with one image                        *)
Fixture == IF Len(recording) = 1 THEN <<1>> ELSE << >>

(* _build_sequence_list                                                      *)
Discovered == [kept |-> TRUE, scene |-> Walk, clip |-> ClipFrames, fixture |-> Fixture]

(* _api_list_sequences                                                       *)
ListSequences ==
  /\ catalog' = Discovered
  /\ UNCHANGED <<extractionVars, images, probe, request, changes>>

(* An image is installed or removed.                                         *)
ImageChanges(t) ==
  /\ changes < MaxImageChanges
  /\ changes' = changes + 1
  /\ images' = IF t \in images THEN images \ {t} ELSE images \cup {t}
  /\ UNCHANGED <<extractionVars, probe, catalog, request>>

Kinds == {"scene", "clip", "fixture"}

(* The request has the catalog, which _get_sequence_entries builds if none   *)
(* is kept; that of a bag that is no fixture is not found.                   *)
Resolve(kind, selection) ==
  LET entries == IF catalog.kept THEN catalog ELSE Discovered
  IN  /\ request = NoRequest
      /\ kind = "fixture" => entries.fixture # << >>
      /\ catalog' = entries
      /\ request' = [pc |-> "select", kind |-> kind, asked |-> selection, entries |-> entries]
      /\ UNCHANGED <<extractionVars, images, probe, changes>>

(* frame_count of the entry                                                  *)
Count(entries, kind) == IF kind = "clip" THEN entries.clip ELSE Len(entries[kind])

Refused == request' = NoRequest

(* Repetitions are dropped, the first of them stays.                         *)
Once(seq, index) ==
  IF \E j \in DOMAIN seq : seq[j] = index THEN seq ELSE Append(seq, index)

Selected(asked) ==
  LET seq[n \in 0..Len(asked)] == IF n = 0 THEN << >> ELSE Once(seq[n - 1], asked[n])
  IN  seq[Len(asked)]

Select ==
  LET entries == request.entries
      count == Count(entries, request.kind)
      asked == request.asked
      indices == IF asked # Default THEN Selected(asked)
                 ELSE [i \in 1..count |-> i - 1]
  IN  /\ request.pc = "select"
      /\ IF \/ asked = Default /\ request.kind = "clip"
            \/ asked # Default /\ count > 0 /\ \E i \in DOMAIN asked : asked[i] \notin 0..(count - 1)
            \/ asked # Default /\ Len(indices) > MaxSelection
            \/ indices = << >>
         THEN Refused
         ELSE request' = [pc |-> "frames", kind |-> request.kind, asked |-> asked, entries |-> entries,
                            indices |-> indices, frames |-> << >>]
      /\ UNCHANGED <<extractionVars, images, probe, catalog, changes>>

-----------------------------------------------------------------------------
NoFrame == [kind |-> "none"]

(* The newest directory of the bag that has the frame                        *)
FixtureFrame(i) ==
  LET having == {d \in Datasets : Listed(d) /\ store[d].manifest.stamps # << >>
                                  /\ FrameOf(d, i + 1) # Partial}
  IN  IF having = {} THEN NoFrame
      ELSE [kind |-> "fixture", of |-> FrameOf(CHOOSE d \in having : \A e \in having : e <= d, i + 1)]

\* Mutant: a frame is looked up in the catalog the server has now.
LookedUpNow == catalog

LookedUp == request.entries

(* materialize_sequence_frame and _get_fixture_frame_from_store              *)
Materialized(i) ==
  LET entries == LookedUp
  IN  CASE request.kind = "scene" ->
             IF i + 1 \in DOMAIN entries.scene /\ entries.scene[i + 1] \in images
             THEN [kind |-> "scene", of |-> entries.scene[i + 1]] ELSE NoFrame
        [] request.kind = "clip" ->
             IF i \in 0..(ClipLength - 1) /\ (entries.clip > 0 => i < entries.clip)
             THEN [kind |-> "clip", of |-> i] ELSE NoFrame
        [] request.kind = "fixture" -> FixtureFrame(i)

(* source_id of the record: of the reference, or made of the index           *)
SourceOf(i) ==
  [kind |-> request.kind,
   of |-> IF request.kind # "clip" /\ i + 1 \in DOMAIN request.entries[request.kind]
          THEN request.entries[request.kind][i + 1] ELSE i]

(* One more frame is copied, or the request fails.                           *)
TakeFrame ==
  /\ request.pc = "frames" /\ Len(request.frames) < Len(request.indices)
  /\ LET i == request.indices[Len(request.frames) + 1]
         frame == Materialized(i)
     IN  IF frame = NoFrame THEN Refused
         ELSE request' = [request EXCEPT !.frames =
                            Append(@, [index |-> i, image |-> frame, source |-> SourceOf(i)])]
  /\ UNCHANGED <<extractionVars, images, probe, catalog, changes>>

(* The experiment has its frames.                                            *)
HandOver ==
  /\ request.pc = "frames" /\ Len(request.frames) = Len(request.indices)
  /\ Refused
  /\ UNCHANGED <<extractionVars, images, probe, catalog, changes>>

CatalogNext ==
  \/ ExtractionNext /\ UNCHANGED sequenceVars
  \/ ListSequences
  \/ \E t \in Keyframes : ImageChanges(t)
  \/ \E kind \in Kinds, selection \in Selections : Resolve(kind, selection)
  \/ Select
  \/ TakeFrame
  \/ HandOver

CatalogSpec == CatalogInit /\ [][CatalogNext]_catalogVars

-----------------------------------------------------------------------------
(* Each frame an experiment has is the one its record names, once, in the    *)
(* order asked for, and no more than there may be: whatever browsers list,   *)
(* extractions end and images come or go while they are copied               *)
(* (_api_sequences_experiment).                                              *)
RecordsTellFrames ==
  request.pc = "frames" =>
    /\ request.asked # Default => Len(request.indices) <= MaxSelection
    /\ \A i, j \in DOMAIN request.frames :
         /\ request.frames[i].index = request.indices[i]
         /\ request.frames[i].image = request.frames[i].source
         /\ i # j => request.frames[i].source # request.frames[j].source
=============================================================================
