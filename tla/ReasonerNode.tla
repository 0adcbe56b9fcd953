----------------------------- MODULE ReasonerNode -----------------------------
(***************************************************************************)
(* VlmReasonerNode: the ROS executor thread samples camera images (or      *)
(* tracked observations) into a one-slot queue, and one worker thread      *)
(* takes the slot's frame, converts it, calls the inference backend and    *)
(* publishes the result.  queue_mutex_ guards the slot, the set of         *)
(* accepted source sequences and the worker's flags; an action below is    *)
(* one critical section, or one stretch of code that touches only what     *)
(* its thread owns.                                                        *)
(*                                                                         *)
(* A frame is the sequence number it was given, the source sequence of a   *)
(* tracked observation (0 for none) and whether its image can be           *)
(* converted.  Message stamps are small integers.  The ROS clock is seen   *)
(* only through the time since the last inference began, which is all the  *)
(* worker asks of it.                                                      *)
(***************************************************************************)
EXTENDS ObservationHistory

CONSTANTS
  UseTracked,       \* use_tracked_observations_
  DropOldFrames,    \* drop_old_frames
  SamplePeriod,     \* sample_period_seconds
  MinVlmInterval,   \* min_vlm_interval_seconds
  UseSimTime,       \* use_sim_time: the clock stops with the ROS context
  Stamps,           \* header stamps a message may carry
  Sources,          \* source_sequence values an observation may carry
  InOrderSources,   \* the observation topic delivers sources in order
  ClockSlack,       \* how far the ROS clock may be set back
  MaxReceived,      \* bound: messages delivered
  MaxClockJumps,    \* bound: times the ROS clock is set back
  NoFrame           \* an empty std::optional<PendingFrame>

Frame == [seq : Nat, src : Nat, ok : BOOLEAN]
Result == [seq : Nat, src : Nat, outcome : {"answer", "error", "unconverted"}]

ASSUME NodeAssumption ==
  /\ UseTracked \in BOOLEAN
  /\ DropOldFrames \in BOOLEAN
  /\ SamplePeriod \in Nat
  /\ MinVlmInterval \in Nat
  /\ UseSimTime \in BOOLEAN
  /\ Stamps \subseteq Int
  /\ Sources \subseteq Nat
  /\ InOrderSources \in BOOLEAN
  /\ ClockSlack \in Nat
  /\ MaxReceived \in Nat
  /\ MaxClockJumps \in Nat
  /\ NoFrame \notin Frame

VARIABLES
  \* Owned by the executor thread.
  mpc,               \* where the thread that owns the node is
  received, sampled, \* stats_
  haveLastTime, lastSampledTime,
  \* Guarded by queue_mutex_.
  pending,           \* pending_frame_
  dropped,           \* stats_.dropped
  workerRunning,     \* worker_running_
  initComplete,      \* backend_init_complete_
  hasActive, activeSource,
  accepted,          \* accepted_source_sequences_
  haveCompleted, lastCompleted,
  \* Owned by the worker thread.
  wpc,               \* where worker_loop is
  frame,             \* the local variable frame
  success, failure,  \* stats_
  haveLastVlm,
  elapsed,           \* now() - last_vlm_time_, at most MinVlmInterval
  \* The environment, and what subscribers see.
  clockJumps,
  lastDelivered,     \* the last source sequence the topic delivered
  published          \* the results published, oldest first

executorVars == <<mpc, received, sampled, haveLastTime, lastSampledTime>>
slotVars == <<pending, dropped>>
sourceVars == <<hasActive, activeSource, accepted, haveCompleted, lastCompleted>>
workerVars == <<wpc, frame, success, failure, haveLastVlm>>
clockVars == <<elapsed, clockJumps>>
vars ==
  <<executorVars, slotVars, workerRunning, initComplete, sourceVars, workerVars,
    clockVars, lastDelivered, published, historyVars>>

NodeInit ==
  /\ mpc = "starting"
  /\ received = 0 /\ sampled = 0
  /\ haveLastTime = FALSE /\ lastSampledTime = 0
  /\ pending = NoFrame /\ dropped = 0
  /\ workerRunning = TRUE /\ initComplete = FALSE
  /\ hasActive = FALSE /\ activeSource = 0 /\ accepted = {}
  /\ haveCompleted = FALSE /\ lastCompleted = 0
  /\ wpc = "init" /\ frame = NoFrame
  /\ success = 0 /\ failure = 0
  /\ haveLastVlm = FALSE /\ elapsed = MinVlmInterval
  /\ clockJumps = 0 /\ lastDelivered = 0 /\ published = << >>
  /\ HistoryInit

-----------------------------------------------------------------------------
(* Construction.  start_worker blocks until the worker has initialised the   *)
(* backend; a failure after that stops the worker again.                     *)

BackendInitialized ==
  /\ wpc = "init"
  /\ initComplete' = TRUE
  /\ wpc' = "wait"
  /\ UNCHANGED <<executorVars, slotVars, workerRunning, sourceVars, frame, success,
                 failure, haveLastVlm, clockVars, lastDelivered, published,
                 historyVars>>

BackendInitFails ==
  /\ wpc = "init"
  /\ initComplete' = TRUE
  /\ workerRunning' = FALSE
  /\ wpc' = "failed_init"
  /\ UNCHANGED <<executorVars, slotVars, sourceVars, frame, success, failure,
                 haveLastVlm, clockVars, lastDelivered, published, historyVars>>

StartWorkerReturns ==
  /\ mpc = "starting" /\ initComplete /\ wpc # "failed_init"
  /\ mpc' = "spinning"
  /\ UNCHANGED <<received, sampled, haveLastTime, lastSampledTime, slotVars,
                 workerRunning, initComplete, sourceVars, workerVars, clockVars,
                 lastDelivered, published, historyVars>>

StartWorkerThrows ==
  /\ mpc = "starting" /\ initComplete /\ wpc = "failed_init"
  /\ mpc' = "gone"
  /\ UNCHANGED <<received, sampled, haveLastTime, lastSampledTime, slotVars,
                 workerRunning, initComplete, sourceVars, workerVars, clockVars,
                 lastDelivered, published, historyVars>>

(* stop_worker, from the destructor once the executor has stopped spinning,  *)
(* or from the constructor when an endpoint cannot be created.               *)
\* Mutant: the flag the worker waits for is never cleared.
StopWorkerUnflagged ==
  /\ mpc = "spinning" \/ (mpc = "starting" /\ initComplete /\ wpc # "failed_init")
  /\ mpc' = "joining"
  /\ UNCHANGED <<received, sampled, haveLastTime, lastSampledTime, slotVars,
                 workerRunning, initComplete, sourceVars, workerVars, clockVars,
                 lastDelivered, published, historyVars>>

StopWorker ==
  /\ mpc = "spinning" \/ (mpc = "starting" /\ initComplete /\ wpc # "failed_init")
  /\ mpc' = "joining"
  /\ workerRunning' = FALSE
  /\ UNCHANGED <<received, sampled, haveLastTime, lastSampledTime, slotVars,
                 initComplete, sourceVars, workerVars, clockVars, lastDelivered,
                 published, historyVars>>

WorkerJoined ==
  /\ mpc = "joining" /\ wpc = "exited"
  /\ mpc' = "gone"
  /\ UNCHANGED <<received, sampled, haveLastTime, lastSampledTime, slotVars,
                 workerRunning, initComplete, sourceVars, workerVars, clockVars,
                 lastDelivered, published, historyVars>>

-----------------------------------------------------------------------------
(* The subscription callbacks.                                               *)

TooSoon(stamp) ==
  /\ haveLastTime
  /\ stamp >= lastSampledTime
  /\ stamp - lastSampledTime < SamplePeriod

Sampled(stamp) ==
  /\ haveLastTime' = TRUE
  /\ lastSampledTime' = stamp

Delivered ==
  /\ mpc = "spinning"
  /\ received < MaxReceived
  /\ received' = received + 1
  /\ UNCHANGED <<mpc, workerRunning, initComplete, workerVars, clockVars, published,
                 historyVars>>

(* The slot is overwritten whatever drop_old_frames says; the flag only      *)
(* decides whether the frame that was there counts as dropped.               *)
\* Mutant: the slot keeps the frame it has and the new one is dropped.
EnqueueKeepsOld(f) ==
  /\ pending' = IF pending = NoFrame THEN f ELSE pending
  /\ dropped' = IF pending # NoFrame /\ DropOldFrames THEN dropped + 1 ELSE dropped

Enqueue(f) ==
  /\ pending' = f
  /\ dropped' = IF pending # NoFrame /\ DropOldFrames THEN dropped + 1 ELSE dropped

ImageTooSoon(stamp) ==
  /\ ~UseTracked /\ Delivered
  /\ TooSoon(stamp)
  /\ UNCHANGED <<sampled, haveLastTime, lastSampledTime, slotVars, sourceVars,
                 lastDelivered>>

ImageSampled(stamp, ok) ==
  /\ ~UseTracked /\ Delivered
  /\ ~TooSoon(stamp)
  /\ Sampled(stamp)
  /\ sampled' = sampled + 1
  /\ Enqueue([seq |-> sampled + 1, src |-> 0, ok |-> ok])
  /\ UNCHANGED <<sourceVars, lastDelivered>>

\* Mutant: off by one at the last completed source.
SeenStrictly(src) ==
  /\ src # 0
  /\ \/ haveCompleted /\ src < lastCompleted
     \/ src \in accepted
     \/ hasActive /\ src = activeSource

Seen(src) ==
  /\ src # 0
  /\ \/ haveCompleted /\ src <= lastCompleted
     \/ src \in accepted
     \/ hasActive /\ src = activeSource

ObservationDelivered(src) ==
  /\ UseTracked /\ Delivered
  /\ InOrderSources /\ src # 0 => src >= lastDelivered
  /\ lastDelivered' = IF src # 0 THEN src ELSE lastDelivered

ObservationTooSoon(stamp, src) ==
  /\ ObservationDelivered(src)
  /\ TooSoon(stamp)
  /\ UNCHANGED <<sampled, haveLastTime, lastSampledTime, slotVars, sourceVars>>

ObservationSeen(stamp, src) ==
  /\ ObservationDelivered(src)
  /\ ~TooSoon(stamp)
  /\ Seen(src)
  /\ Sampled(stamp)
  /\ UNCHANGED <<sampled, slotVars, sourceVars>>

\* Mutant: the source of the replaced frame stays in the accepted set.
ObservationSampledLeaks(stamp, src, ok) ==
  /\ ObservationDelivered(src)
  /\ ~TooSoon(stamp)
  /\ ~Seen(src)
  /\ Sampled(stamp)
  /\ Enqueue([seq |-> sampled, src |-> src, ok |-> ok])
  /\ sampled' = sampled + 1
  /\ accepted' = accepted \cup ({src} \ {0})
  /\ UNCHANGED <<hasActive, activeSource, haveCompleted, lastCompleted>>

ObservationSampled(stamp, src, ok) ==
  /\ ObservationDelivered(src)
  /\ ~TooSoon(stamp)
  /\ ~Seen(src)
  /\ Sampled(stamp)
  /\ Enqueue([seq |-> sampled, src |-> src, ok |-> ok])
  /\ sampled' = sampled + 1
  /\ LET replaced == IF pending # NoFrame /\ DropOldFrames THEN {pending.src} ELSE {}
     IN  accepted' = (accepted \ replaced) \cup ({src} \ {0})
  /\ UNCHANGED <<hasActive, activeSource, haveCompleted, lastCompleted>>

-----------------------------------------------------------------------------
(* worker_loop.  At "wait" it holds queue_mutex_ with something to do, or    *)
(* sleeps on queue_cv_ until it has.                                         *)

Throttled ==
  /\ MinVlmInterval > 0 /\ haveLastVlm
  /\ 0 <= elapsed /\ elapsed < MinVlmInterval

\* Mutant: a stopped worker exits without draining the slot.
WorkerExitsAtOnce ==
  /\ wpc = "wait"
  /\ ~workerRunning
  /\ wpc' = "exited"
  /\ UNCHANGED <<executorVars, slotVars, workerRunning, initComplete, sourceVars,
                 frame, success, failure, haveLastVlm, clockVars, lastDelivered,
                 published, historyVars>>

WorkerExits ==
  /\ wpc = "wait"
  /\ pending = NoFrame /\ ~workerRunning
  /\ wpc' = "exited"
  /\ UNCHANGED <<executorVars, slotVars, workerRunning, initComplete, sourceVars,
                 frame, success, failure, haveLastVlm, clockVars, lastDelivered,
                 published, historyVars>>

WorkerThrottled ==
  /\ wpc = "wait"
  /\ pending # NoFrame /\ Throttled
  /\ wpc' = "throttled"
  /\ UNCHANGED <<executorVars, slotVars, workerRunning, initComplete, sourceVars,
                 frame, success, failure, haveLastVlm, clockVars, lastDelivered,
                 published, historyVars>>

(* wait_for ends by its own steady clock, or at once when the worker is      *)
(* being stopped; the loop then looks at everything afresh.                  *)
\* Mutant: a wait without a time limit.
WorkerThrottleEndsOnStop ==
  /\ wpc = "throttled"
  /\ ~workerRunning
  /\ wpc' = "wait"
  /\ UNCHANGED <<executorVars, slotVars, workerRunning, initComplete, sourceVars,
                 frame, success, failure, haveLastVlm, clockVars, lastDelivered,
                 published, historyVars>>

WorkerThrottleEnds ==
  /\ wpc = "throttled"
  /\ wpc' = "wait"
  /\ UNCHANGED <<executorVars, slotVars, workerRunning, initComplete, sourceVars,
                 frame, success, failure, haveLastVlm, clockVars, lastDelivered,
                 published, historyVars>>

WorkerDequeues ==
  /\ wpc = "wait"
  /\ pending # NoFrame /\ ~Throttled
  /\ frame' = pending
  /\ pending' = NoFrame
  /\ hasActive' = (hasActive \/ pending.src # 0)
  /\ activeSource' = IF pending.src # 0 THEN pending.src ELSE activeSource
  /\ haveLastVlm' = TRUE
  /\ elapsed' = 0
  /\ wpc' = "convert"
  /\ UNCHANGED <<executorVars, dropped, workerRunning, initComplete, accepted,
                 haveCompleted, lastCompleted, success, failure, clockJumps,
                 lastDelivered, published, historyVars>>

WorkerConverts ==
  /\ wpc = "convert" /\ frame.ok
  /\ BeginRequest
  /\ wpc' = "infer"
  /\ UNCHANGED <<executorVars, slotVars, workerRunning, initComplete, sourceVars,
                 frame, success, failure, haveLastVlm, clockVars, lastDelivered,
                 published>>

WorkerConversionFails ==
  /\ wpc = "convert" /\ ~frame.ok
  /\ BeginRequest
  /\ failure' = failure + 1
  /\ wpc' = "unconverted"
  /\ UNCHANGED <<executorVars, slotVars, workerRunning, initComplete, sourceVars,
                 frame, success, haveLastVlm, clockVars, lastDelivered, published>>

Publish(outcome) ==
  published' = Append(published, [seq |-> frame.seq, src |-> frame.src,
                                  outcome |-> outcome])

(* The rest of the catch block, up to its critical section.                  *)
WorkerReportsConversion ==
  /\ wpc = "unconverted"
  /\ \E prompt \in PromptSizes : FinishRequest(FALSE, 0, prompt)
  /\ Publish("unconverted")
  /\ wpc' = "abandon"
  /\ UNCHANGED <<executorVars, slotVars, workerRunning, initComplete, sourceVars,
                 frame, success, failure, haveLastVlm, clockVars, lastDelivered>>

(* backend_->infer answers, reports a failure or throws.                     *)
WorkerInfers(ok, text) ==
  /\ wpc = "infer"
  /\ success' = IF ok THEN success + 1 ELSE success
  /\ failure' = IF ok THEN failure ELSE failure + 1
  /\ \E prompt \in PromptSizes : FinishRequest(ok, text, prompt)
  /\ Publish(IF ok THEN "answer" ELSE "error")
  /\ wpc' = "release"
  /\ UNCHANGED <<executorVars, slotVars, workerRunning, initComplete, sourceVars,
                 frame, haveLastVlm, clockVars, lastDelivered>>

(* Both ends of an iteration give the source sequence back; only a request   *)
(* that reached the backend makes it the last completed one.                 *)
WorkerReleases ==
  /\ wpc \in {"release", "abandon"}
  /\ IF frame.src # 0
     THEN /\ hasActive' = FALSE
          /\ activeSource' = 0
          /\ accepted' = accepted \ {frame.src}
          /\ IF wpc = "release"
             THEN haveCompleted' = TRUE /\ lastCompleted' = frame.src
             ELSE UNCHANGED <<haveCompleted, lastCompleted>>
     ELSE UNCHANGED sourceVars
  /\ frame' = NoFrame
  /\ wpc' = "wait"
  /\ UNCHANGED <<executorVars, slotVars, workerRunning, initComplete, success,
                 failure, haveLastVlm, clockVars, lastDelivered, published,
                 historyVars>>

-----------------------------------------------------------------------------
(* The ROS clock.  In simulation it stands still once the context is shut    *)
(* down, which happens before the node is destroyed.                         *)

ClockRuns == UseSimTime => mpc \in {"starting", "spinning"}

ClockTicks ==
  /\ ClockRuns
  /\ elapsed < MinVlmInterval
  /\ elapsed' = elapsed + 1
  /\ UNCHANGED <<executorVars, slotVars, workerRunning, initComplete, sourceVars,
                 workerVars, clockJumps, lastDelivered, published, historyVars>>

ClockSetBack ==
  /\ ClockRuns
  /\ clockJumps < MaxClockJumps
  /\ clockJumps' = clockJumps + 1
  /\ \E e \in -ClockSlack .. MinVlmInterval :
       e < elapsed /\ elapsed' = e
  /\ UNCHANGED <<executorVars, slotVars, workerRunning, initComplete, sourceVars,
                 workerVars, lastDelivered, published, historyVars>>

-----------------------------------------------------------------------------
WorkerStep ==
  \/ BackendInitialized \/ BackendInitFails
  \/ WorkerExits \/ WorkerThrottled \/ WorkerThrottleEnds \/ WorkerDequeues
  \/ WorkerConverts \/ WorkerConversionFails \/ WorkerReportsConversion
  \/ \E ok \in BOOLEAN, text \in TextSizes : WorkerInfers(ok, text)
  \/ WorkerReleases

OwnerStep ==
  \/ StartWorkerReturns \/ StartWorkerThrows \/ StopWorker \/ WorkerJoined

CallbackStep ==
  \E stamp \in Stamps :
    \/ ImageTooSoon(stamp)
    \/ \E ok \in BOOLEAN : ImageSampled(stamp, ok)
    \/ \E src \in Sources :
         \/ ObservationTooSoon(stamp, src)
         \/ ObservationSeen(stamp, src)
         \/ \E ok \in BOOLEAN : ObservationSampled(stamp, src, ok)

ClockStep == ClockTicks \/ ClockSetBack

(* The node is gone: the process may sit in main or exit.                    *)
Gone == mpc = "gone" /\ UNCHANGED vars

Next == WorkerStep \/ OwnerStep \/ CallbackStep \/ ClockStep \/ Gone

Spec == NodeInit /\ [][Next]_vars

(* The worker thread is scheduled and the backend answers (the IPC backend   *)
(* bounds every read and write by a socket timeout), time passes, and the    *)
(* owner's thread goes on once what it waits for has happened.  Nothing      *)
(* forces messages to arrive or the node to be stopped.                      *)
Fairness ==
  /\ WF_vars(WorkerStep)
  /\ WF_vars(ClockTicks)
  /\ WF_vars(StartWorkerReturns \/ StartWorkerThrows)
  /\ WF_vars(WorkerJoined)

FairSpec == Spec /\ Fairness

-----------------------------------------------------------------------------
(* Properties.                                                               *)

InFlight == wpc \in {"convert", "infer", "unconverted", "release", "abandon"}

FlagsOK ==
  /\ haveLastTime \in BOOLEAN
  /\ workerRunning \in BOOLEAN
  /\ initComplete \in BOOLEAN
  /\ hasActive \in BOOLEAN
  /\ haveCompleted \in BOOLEAN
  /\ haveLastVlm \in BOOLEAN

DataOK ==
  /\ mpc \in {"starting", "spinning", "joining", "gone"}
  /\ received \in Nat /\ sampled \in Nat
  /\ lastSampledTime \in Int
  /\ pending \in Frame \cup {NoFrame}
  /\ dropped \in Nat
  /\ activeSource \in Nat
  /\ accepted \subseteq Nat
  /\ lastCompleted \in Nat
  /\ wpc \in {"init", "failed_init", "wait", "throttled", "convert", "infer",
              "unconverted", "release", "abandon", "exited"}
  /\ frame \in Frame \cup {NoFrame}
  /\ InFlight => frame # NoFrame
  /\ success \in Nat /\ failure \in Nat
  /\ elapsed \in Int
  /\ clockJumps \in Nat /\ lastDelivered \in Nat
  /\ published \in Seq(Result)

NodeTypeOK == FlagsOK /\ DataOK

(* The counters the destructor reports add up: every frame sampled was       *)
(* dropped, answered or failed, and a stop in the middle of anything loses   *)
(* none, because the worker drains the slot before it exits.                 *)
CountersBalance ==
  mpc = "gone" /\ DropOldFrames => sampled = dropped + success + failure

(* accepted_source_sequences_ holds exactly the sources of the frame that    *)
(* waits and of the frame in flight: it never grows with the stream, and a   *)
(* source given up by a dropped or unconvertible frame can come again.       *)
AcceptedIsLive ==
  DropOldFrames =>
    accepted = ((IF pending = NoFrame THEN {} ELSE {pending.src})
                \cup (IF InFlight THEN {frame.src} ELSE {})) \ {0}

(* The active-frame flags describe the frame in flight, and nothing else.    *)
ActiveIsInFlight ==
  /\ hasActive <=> (InFlight /\ frame.src # 0)
  /\ activeSource = IF hasActive THEN frame.src ELSE 0

(* When the topic delivers sources in order, however often it repeats them,  *)
(* no source reaches the backend twice and answers come in source order.     *)
SourcesInferredOnce ==
  InOrderSources =>
    \A i, j \in 1..Len(published) :
      /\ i < j
      /\ published[i].src # 0 /\ published[j].src # 0
      /\ published[i].outcome # "unconverted"
      => published[i].src < published[j].src

(* The node implements the latest-only policy.  Tracked observations are     *)
(* numbered from 0, images from 1.                                           *)
Ordinal(seq) == IF UseTracked THEN seq + 1 ELSE seq

Latest == INSTANCE LatestOnly WITH
  offered    <- sampled,
  slot       <- IF pending = NoFrame THEN 0 ELSE Ordinal(pending.seq),
  busy       <- IF wpc \in {"convert", "infer", "unconverted"}
                THEN Ordinal(frame.seq) ELSE 0,
  superseded <- dropped,
  served     <- [i \in 1..Len(published) |-> Ordinal(published[i].seq)]

ImplementsLatestOnly == Latest!LatestSpec

(* Stopping the node ends: stop_worker's join returns whatever the worker    *)
(* was doing.                                                                *)
ShutdownCompletes == (mpc = "joining") ~> (mpc = "gone")

(* A frame that waits does not wait for ever: it is taken or replaced, even  *)
(* while the rate limit holds the worker back and the clock is set back.     *)
PendingIsResolved ==
  \A n \in 0..MaxReceived :
    (pending # NoFrame /\ pending.seq = n) ~> (pending = NoFrame \/ pending.seq # n)

(* Both: neither a frame nor a shutdown is left hanging.                     *)
NothingHangs == ShutdownCompletes /\ PendingIsResolved
=============================================================================
