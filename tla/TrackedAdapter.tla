---------------------------- MODULE TrackedAdapter ----------------------------
(***************************************************************************)
(* TrackedObservationAdapter: pairs each camera image with the detections  *)
(* of the same stamp, runs the tracker over them and publishes both as one *)
(* observation.  One image and one detection array wait at a time.  The    *)
(* node spins one thread, so a callback is one step.                       *)
(*                                                                         *)
(* An image, and the detection array computed from it, is its stamp; 0 is  *)
(* an empty optional.  The two topics are best effort: each delivers in    *)
(* order and may lose messages, and how far they drift apart is the        *)
(* detector's latency.                                                     *)
(***************************************************************************)
EXTENDS IouTracker

CONSTANTS
  MaxLag,       \* bound: images taken while an earlier one is on its way
  MaxImages,    \* bound: images
  MaxRestarts   \* bound: times the adapter is started again

ASSUME AdapterAssumption ==
  /\ MaxLag \in Nat
  /\ MaxImages \in Nat
  /\ MaxRestarts \in Nat

VARIABLES
  \* The adapter.
  latestImage, latestDetections,
  staleDrops, mismatchDrops, publishedCount, nextSourceSequence,
  \* The environment.
  camera,           \* the stamp of the last image taken
  lagged,           \* an image was taken before the last one was dealt with
  images, arrays,   \* messages under way on the two topics
  lost,             \* messages lost under way or by a restart
  arrived,         \* messages the present adapter took
  restarts,
  observations      \* what was published, oldest first

waitingVars == <<latestImage, latestDetections>>
countVars == <<staleDrops, mismatchDrops>>
publishVars == <<publishedCount, nextSourceSequence, observations>>
adapterVars ==
  <<trackerVars, waitingVars, countVars, publishVars, camera, lagged, images, arrays, lost,
    arrived, restarts>>

AdapterInit ==
  /\ TrackerInit
  /\ latestImage = 0 /\ latestDetections = 0
  /\ staleDrops = 0 /\ mismatchDrops = 0
  /\ publishedCount = 0 /\ nextSourceSequence = 1
  /\ arrived = 0
  /\ camera = 0 /\ lagged = FALSE /\ images = << >> /\ arrays = << >>
  /\ lost = 0 /\ restarts = 0 /\ observations = << >>

-----------------------------------------------------------------------------
(* build_observation and what follows it.                                    *)
PublishObservation(stamp) ==
  /\ \E dets \in DetectionLists : Update(dets)
  /\ observations' = Append(observations, [stamp |-> stamp, source |-> nextSourceSequence])
  /\ nextSourceSequence' = nextSourceSequence + 1
  /\ publishedCount' = publishedCount + 1

\* Mutant: on a mismatch the newer message is given up.
MatchDropsNewer(image, array) ==
  IF image = 0 \/ array = 0
  THEN /\ latestImage' = image /\ latestDetections' = array
       /\ UNCHANGED <<trackerVars, mismatchDrops, publishVars>>
  ELSE IF image # array
  THEN /\ IF image < array THEN latestImage' = image /\ latestDetections' = 0
                           ELSE latestImage' = 0 /\ latestDetections' = array
       /\ mismatchDrops' = mismatchDrops + 1
       /\ UNCHANGED <<trackerVars, publishVars>>
  ELSE /\ PublishObservation(image)
       /\ latestImage' = 0 /\ latestDetections' = 0
       /\ UNCHANGED mismatchDrops

(* try_publish_latest_match, with what the slots hold after the callback     *)
(* stored its message.                                                       *)
TryPublishLatestMatch(image, array) ==
  IF image = 0 \/ array = 0
  THEN /\ latestImage' = image /\ latestDetections' = array
       /\ UNCHANGED <<trackerVars, mismatchDrops, publishVars>>
  ELSE IF image # array
  THEN /\ IF image < array THEN latestImage' = 0 /\ latestDetections' = array
                           ELSE latestImage' = image /\ latestDetections' = 0
       /\ mismatchDrops' = mismatchDrops + 1
       /\ UNCHANGED <<trackerVars, publishVars>>
  ELSE /\ PublishObservation(image)
       /\ latestImage' = 0 /\ latestDetections' = 0
       /\ UNCHANGED mismatchDrops

\* Mutant: an image that is replaced is not counted.
ImageCallbackUncounted ==
  /\ images # << >>
  /\ images' = Tail(images)
  /\ arrived' = arrived + 1
  /\ TryPublishLatestMatch(Head(images), latestDetections)
  /\ UNCHANGED <<staleDrops, camera, lagged, arrays, lost, restarts>>

ImageCallback ==
  /\ images # << >>
  /\ images' = Tail(images)
  /\ arrived' = arrived + 1
  /\ staleDrops' = IF latestImage # 0 THEN staleDrops + 1 ELSE staleDrops
  /\ TryPublishLatestMatch(Head(images), latestDetections)
  /\ UNCHANGED <<camera, lagged, arrays, lost, restarts>>

DetectionsCallback ==
  /\ arrays # << >>
  /\ arrays' = Tail(arrays)
  /\ arrived' = arrived + 1
  /\ staleDrops' = IF latestDetections # 0 THEN staleDrops + 1 ELSE staleDrops
  /\ TryPublishLatestMatch(latestImage, Head(arrays))
  /\ UNCHANGED <<camera, lagged, images, lost, restarts>>

-----------------------------------------------------------------------------
(* The camera, the detector and the topics, and a restart of the node.       *)
Capture ==
  /\ camera < MaxImages
  /\ Len(images) <= MaxLag /\ Len(arrays) <= MaxLag
  /\ camera' = camera + 1
  /\ lagged' = (lagged \/ images # << >> \/ arrays # << >>)
  /\ images' = Append(images, camera + 1)
  /\ arrays' = Append(arrays, camera + 1)
  /\ UNCHANGED <<trackerVars, waitingVars, countVars, publishVars, lost, arrived, restarts>>

LoseMessage ==
  /\ \/ images # << >> /\ images' = Tail(images) /\ UNCHANGED arrays
     \/ arrays # << >> /\ arrays' = Tail(arrays) /\ UNCHANGED images
  /\ lost' = lost + 1
  /\ UNCHANGED <<trackerVars, waitingVars, countVars, publishVars, camera, lagged, arrived, restarts>>

InSlots == (IF latestImage = 0 THEN 0 ELSE 1) + (IF latestDetections = 0 THEN 0 ELSE 1)

Restart ==
  /\ restarts < MaxRestarts
  /\ restarts' = restarts + 1
  /\ tracks' = << >> /\ nextTrackId' = 1 /\ detections' = << >>
  /\ latestImage' = 0 /\ latestDetections' = 0
  /\ staleDrops' = 0 /\ mismatchDrops' = 0
  /\ publishedCount' = 0 /\ nextSourceSequence' = 1
  /\ arrived' = 0
  /\ lost' = lost + InSlots
  /\ UNCHANGED <<observations, camera, lagged, images, arrays>>

Quiet == images = << >> /\ arrays = << >>

(* No more images: the bound is reached.                                     *)
CameraOff == camera = MaxImages /\ Quiet /\ UNCHANGED adapterVars

AdapterNext ==
  ImageCallback \/ DetectionsCallback \/ Capture \/ LoseMessage \/ Restart \/ CameraOff

AdapterSpec == AdapterInit /\ [][AdapterNext]_adapterVars

-----------------------------------------------------------------------------
(* Between callbacks at most one slot is taken, as what could be paired was, *)
(* and every message taken waits, was paired, or is in exactly one of the *)
(* two drop counters.                                                        *)
MessagesAreCounted ==
  /\ latestImage = 0 \/ latestDetections = 0
  /\ arrived = InSlots + 2 * publishedCount + staleDrops + mismatchDrops
  /\ nextSourceSequence = publishedCount + 1

(* As long as the detector keeps up with the camera, a lost message costs    *)
(* its own frame and no other: the message left behind gives way to the      *)
(* next pair.                                                                *)
LossCostsOneFrame == Quiet /\ ~lagged => Len(observations) + lost >= camera

(* Between two restarts a track is kept through every update that it can be  *)
(* kept through.                                                             *)
TracksPersistBetweenRestarts == [][restarts' = restarts => TracksPersist]_trackerVars

(* Every detection is followed, and each once, or its loss is counted.       *)
DetectionsAreFollowed == MessagesAreCounted /\ LossCostsOneFrame /\ EachDetectionOnce
=============================================================================
