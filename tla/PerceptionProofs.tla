--------------------------- MODULE PerceptionProofs ---------------------------
(***************************************************************************)
(* What is true, for every value of their parameters, of the reasoner node,*)
(* of the adapter that gives it its tracked observations, and of a sample  *)
(* of the distillation pipeline: the times its frames have for a model and *)
(* the labels that an evaluation asks for.                                 *)
(***************************************************************************)
EXTENDS ReasonerNode, TrackedAdapter, TemporalLabels, FiniteSetTheorems,
        FunctionTheorems, SequenceTheorems, WellFoundedInduction, TLAPS

(* The Boolean flags, which no step of the node gives another kind of value. *)
LEMMA FlagsStep == FlagsOK /\ [Next]_vars => FlagsOK'
<1> SUFFICES ASSUME FlagsOK, [Next]_vars PROVE FlagsOK'
  OBVIOUS
<1> USE DEF FlagsOK, executorVars, slotVars, sourceVars, workerVars, clockVars
<1>1. CASE WorkerStep
  <2>1. CASE BackendInitialized
    BY <2>1, Zenon DEF BackendInitialized
  <2>2. CASE BackendInitFails
    BY <2>2, Zenon DEF BackendInitFails
  <2>3. CASE WorkerExits
    BY <2>3, Zenon DEF WorkerExits
  <2>4. CASE WorkerThrottled
    BY <2>4, Zenon DEF WorkerThrottled
  <2>5. CASE WorkerThrottleEnds
    BY <2>5, Zenon DEF WorkerThrottleEnds
  <2>6. CASE WorkerDequeues
    BY <2>6, Zenon DEF WorkerDequeues
  <2>7. CASE WorkerConverts
    BY <2>7, Zenon DEF WorkerConverts
  <2>8. CASE WorkerConversionFails
    BY <2>8, Zenon DEF WorkerConversionFails
  <2>9. CASE WorkerReportsConversion
    BY <2>9, Zenon DEF WorkerReportsConversion
  <2>10. CASE WorkerReleases
    BY <2>10, Zenon DEF WorkerReleases
  <2>11. ASSUME NEW ok \in BOOLEAN, NEW text \in TextSizes, WorkerInfers(ok, text)
         PROVE  FlagsOK'
    BY <2>11, Zenon DEF WorkerInfers
  <2> QED
    BY <1>1, <2>1, <2>2, <2>3, <2>4, <2>5, <2>6, <2>7, <2>8, <2>9, <2>10, <2>11, Zenon
       DEF WorkerStep
<1>2. CASE OwnerStep
  <2>1. CASE StartWorkerReturns
    BY <2>1, Zenon DEF StartWorkerReturns
  <2>2. CASE StartWorkerThrows
    BY <2>2, Zenon DEF StartWorkerThrows
  <2>3. CASE StopWorker
    BY <2>3, Zenon DEF StopWorker
  <2>4. CASE WorkerJoined
    BY <2>4, Zenon DEF WorkerJoined
  <2> QED
    BY <1>2, <2>1, <2>2, <2>3, <2>4, Zenon DEF OwnerStep
<1>3. CASE CallbackStep
  <2> USE DEF Delivered, Sampled, ObservationDelivered
  <2>1. ASSUME NEW stamp \in Stamps, ImageTooSoon(stamp)
        PROVE  FlagsOK'
    BY <2>1, Zenon DEF ImageTooSoon
  <2>2. ASSUME NEW stamp \in Stamps, NEW ok \in BOOLEAN, ImageSampled(stamp, ok)
        PROVE  FlagsOK'
    BY <2>2, Zenon DEF ImageSampled
  <2>3. ASSUME NEW stamp \in Stamps, NEW src \in Sources, ObservationTooSoon(stamp, src)
        PROVE  FlagsOK'
    BY <2>3, Zenon DEF ObservationTooSoon
  <2>4. ASSUME NEW stamp \in Stamps, NEW src \in Sources, ObservationSeen(stamp, src)
        PROVE  FlagsOK'
    BY <2>4, Zenon DEF ObservationSeen
  <2>5. ASSUME NEW stamp \in Stamps, NEW src \in Sources, NEW ok \in BOOLEAN,
               ObservationSampled(stamp, src, ok)
        PROVE  FlagsOK'
    BY <2>5, Zenon DEF ObservationSampled
  <2> QED
    BY <1>3, <2>1, <2>2, <2>3, <2>4, <2>5, Zenon DEF CallbackStep
<1>4. CASE ClockStep
  BY <1>4, Zenon DEF ClockStep, ClockTicks, ClockSetBack
<1>5. CASE UNCHANGED vars
  BY <1>5, Zenon DEF vars
<1> QED
  BY <1>1, <1>2, <1>3, <1>4, <1>5 DEF Next, Gone

(* The other variables.                                                      *)
LEMMA DataStep == DataOK /\ [Next]_vars => DataOK'
<1> SUFFICES ASSUME DataOK, [Next]_vars PROVE DataOK'
  OBVIOUS
<1> USE NodeAssumption DEF DataOK, InFlight, executorVars, slotVars, sourceVars,
                           workerVars, clockVars
<1>1. CASE WorkerStep
  <2>1. CASE BackendInitialized
    BY <2>1 DEF BackendInitialized
  <2>2. CASE BackendInitFails
    BY <2>2 DEF BackendInitFails
  <2>3. CASE WorkerExits
    BY <2>3 DEF WorkerExits
  <2>4. CASE WorkerThrottled
    BY <2>4 DEF WorkerThrottled
  <2>5. CASE WorkerThrottleEnds
    BY <2>5 DEF WorkerThrottleEnds
  <2>6. CASE WorkerDequeues
    BY <2>6 DEF WorkerDequeues, Frame
  <2>7. CASE WorkerConverts
    BY <2>7 DEF WorkerConverts
  <2>8. CASE WorkerConversionFails
    BY <2>8 DEF WorkerConversionFails
  <2>9. CASE WorkerReportsConversion
    BY <2>9 DEF WorkerReportsConversion, Publish, Frame, Result
  <2>10. CASE WorkerReleases
    <3>1. activeSource' \in Nat /\ accepted' \subseteq Nat /\ lastCompleted' \in Nat
      <4>1. CASE frame.src # 0
        <5>1. frame.src \in Nat
          BY <2>10 DEF WorkerReleases, Frame
        <5>2. /\ activeSource' = 0
              /\ accepted' = accepted \ {frame.src}
              /\ lastCompleted' = frame.src \/ lastCompleted' = lastCompleted
          BY <2>10, <4>1, Zenon DEF WorkerReleases
        <5> QED
          BY <5>1, <5>2
      <4>2. CASE frame.src = 0
        BY <2>10, <4>2 DEF WorkerReleases
      <4> QED
        BY <4>1, <4>2
    <3> QED
      BY <2>10, <3>1 DEF WorkerReleases
  <2>11. ASSUME NEW ok \in BOOLEAN, NEW text \in TextSizes, WorkerInfers(ok, text)
        PROVE  DataOK'
    BY <2>11 DEF WorkerInfers, Publish, Frame, Result
  <2> QED
    BY <1>1, <2>1, <2>2, <2>3, <2>4, <2>5, <2>6, <2>7, <2>8, <2>9, <2>10, <2>11 DEF WorkerStep
<1>2. CASE OwnerStep
  <2>1. CASE StartWorkerReturns
    BY <2>1 DEF StartWorkerReturns
  <2>2. CASE StartWorkerThrows
    BY <2>2 DEF StartWorkerThrows
  <2>3. CASE StopWorker
    BY <2>3 DEF StopWorker
  <2>4. CASE WorkerJoined
    BY <2>4 DEF WorkerJoined
  <2> QED
    BY <1>2, <2>1, <2>2, <2>3, <2>4 DEF OwnerStep
<1>3. CASE CallbackStep
  <2>1. PICK stamp \in Stamps :
          \/ ImageTooSoon(stamp)
          \/ \E ok \in BOOLEAN : ImageSampled(stamp, ok)
          \/ \E src \in Sources :
               \/ ObservationTooSoon(stamp, src)
               \/ ObservationSeen(stamp, src)
               \/ \E ok \in BOOLEAN : ObservationSampled(stamp, src, ok)
    BY <1>3 DEF CallbackStep
  <2>2. CASE ImageTooSoon(stamp)
    BY <2>2 DEF ImageTooSoon, Delivered
  <2>3. ASSUME NEW ok \in BOOLEAN, ImageSampled(stamp, ok)
        PROVE  DataOK'
    BY <2>3 DEF ImageSampled, Delivered, Sampled, Enqueue, Frame
  <2>4. ASSUME NEW src \in Sources, ObservationTooSoon(stamp, src)
        PROVE  DataOK'
    BY <2>4 DEF ObservationTooSoon, ObservationDelivered, Delivered
  <2>5. ASSUME NEW src \in Sources, ObservationSeen(stamp, src)
        PROVE  DataOK'
    BY <2>5 DEF ObservationSeen, ObservationDelivered, Delivered, Sampled
  <2>6. ASSUME NEW src \in Sources, NEW ok \in BOOLEAN,
               ObservationSampled(stamp, src, ok)
        PROVE  DataOK'
    <3>1. pending' \in Frame /\ sampled' \in Nat /\ dropped' \in Nat
      BY <2>6 DEF ObservationSampled, Enqueue, Frame
    <3>2. accepted' \subseteq Nat /\ lastDelivered' \in Nat /\ lastSampledTime' \in Int
      BY <2>6 DEF ObservationSampled, ObservationDelivered, Sampled
    <3> QED
      BY <2>6, <3>1, <3>2 DEF ObservationSampled, ObservationDelivered, Delivered
  <2> QED
    BY <2>1, <2>2, <2>3, <2>4, <2>5, <2>6
<1>4. CASE ClockStep
  <2>1. CASE ClockTicks
    BY <2>1 DEF ClockTicks
  <2>2. CASE ClockSetBack
    <3>1. elapsed' \in Int /\ clockJumps' \in Nat
      BY <2>2 DEF ClockSetBack
    <3> QED
      BY <2>2, <3>1 DEF ClockSetBack
  <2> QED
    BY <1>4, <2>1, <2>2 DEF ClockStep
<1>5. CASE UNCHANGED vars
  <2>1. UNCHANGED <<mpc, received, sampled, lastSampledTime, pending, dropped,
                    activeSource, accepted, lastCompleted, wpc, frame, success,
                    failure, elapsed, clockJumps, lastDelivered, published>>
    BY <1>5, Zenon DEF vars
  <2> QED
    BY <2>1
<1> QED
  BY <1>1, <1>2, <1>3, <1>4, <1>5 DEF Next, Gone

(* Every variable of the node keeps its type, and the worker never handles   *)
(* a frame it does not have.                                                 *)
THEOREM NodeTypeCorrect == Spec => []NodeTypeOK
<1>1. NodeInit => FlagsOK
  BY Zenon DEF NodeInit, FlagsOK
<1>2. NodeInit => DataOK
  BY NodeAssumption DEF NodeInit, DataOK, InFlight
<1> QED
  BY <1>1, <1>2, FlagsStep, DataStep, PTL DEF Spec, NodeTypeOK

-----------------------------------------------------------------------------
(* The counters.  Where the two threads are determines whether the slot can  *)
(* still be filled, and a frame is counted exactly once wherever it is.      *)

Lifecycle ==
  /\ wpc = "init" => ~initComplete
  /\ mpc = "spinning" => workerRunning
  /\ mpc = "starting" /\ wpc # "failed_init" => workerRunning
  /\ mpc = "starting" => pending = NoFrame
  /\ mpc \in {"spinning", "joining"} => wpc \notin {"init", "failed_init"}
  /\ mpc = "gone" => wpc \in {"failed_init", "exited"} /\ pending = NoFrame
  /\ wpc = "exited" => mpc \in {"joining", "gone"} /\ pending = NoFrame

Waiting == IF pending = NoFrame THEN 0 ELSE 1

Working == IF wpc \in {"convert", "infer"} THEN 1 ELSE 0

Balance == DropOldFrames => sampled = dropped + success + failure + Waiting + Working

LEMMA LifecycleStep == NodeTypeOK /\ Lifecycle /\ [Next]_vars => Lifecycle'
<1> SUFFICES ASSUME NodeTypeOK, Lifecycle, [Next]_vars PROVE Lifecycle'
  OBVIOUS
<1> USE NodeAssumption DEF Lifecycle, NodeTypeOK, DataOK, FlagsOK, executorVars,
        slotVars, sourceVars, workerVars, clockVars
<1>1. CASE WorkerStep
  <2>1. CASE BackendInitialized
    BY <2>1 DEF BackendInitialized
  <2>2. CASE BackendInitFails
    BY <2>2 DEF BackendInitFails
  <2>3. CASE WorkerExits
    BY <2>3 DEF WorkerExits
  <2>4. CASE WorkerThrottled
    BY <2>4 DEF WorkerThrottled
  <2>5. CASE WorkerThrottleEnds
    BY <2>5 DEF WorkerThrottleEnds
  <2>6. CASE WorkerDequeues
    BY <2>6 DEF WorkerDequeues
  <2>7. CASE WorkerConverts
    BY <2>7 DEF WorkerConverts
  <2>8. CASE WorkerConversionFails
    BY <2>8 DEF WorkerConversionFails
  <2>9. CASE WorkerReportsConversion
    BY <2>9 DEF WorkerReportsConversion
  <2>10. CASE WorkerReleases
    BY <2>10 DEF WorkerReleases
  <2>11. ASSUME NEW ok \in BOOLEAN, NEW text \in TextSizes, WorkerInfers(ok, text)
        PROVE  Lifecycle'
    BY <2>11 DEF WorkerInfers
  <2> QED
    BY <1>1, <2>1, <2>2, <2>3, <2>4, <2>5, <2>6, <2>7, <2>8, <2>9, <2>10, <2>11 DEF WorkerStep
<1>2. CASE OwnerStep
  <2>1. CASE StartWorkerReturns
    BY <2>1 DEF StartWorkerReturns
  <2>2. CASE StartWorkerThrows
    BY <2>2 DEF StartWorkerThrows
  <2>3. CASE StopWorker
    BY <2>3 DEF StopWorker
  <2>4. CASE WorkerJoined
    BY <2>4 DEF WorkerJoined
  <2> QED
    BY <1>2, <2>1, <2>2, <2>3, <2>4 DEF OwnerStep
<1>3. CASE CallbackStep
  <2>1. ASSUME NEW stamp \in Stamps, ImageTooSoon(stamp)
        PROVE  Lifecycle'
    BY <2>1 DEF ImageTooSoon, Delivered
  <2>2. ASSUME NEW stamp \in Stamps, NEW ok \in BOOLEAN, ImageSampled(stamp, ok)
        PROVE  Lifecycle'
    BY <2>2 DEF ImageSampled, Delivered, Enqueue, Frame
  <2>3. ASSUME NEW stamp \in Stamps, NEW src \in Sources, ObservationTooSoon(stamp, src)
        PROVE  Lifecycle'
    BY <2>3 DEF ObservationTooSoon, ObservationDelivered, Delivered
  <2>4. ASSUME NEW stamp \in Stamps, NEW src \in Sources, ObservationSeen(stamp, src)
        PROVE  Lifecycle'
    BY <2>4 DEF ObservationSeen, ObservationDelivered, Delivered
  <2>5. ASSUME NEW stamp \in Stamps, NEW src \in Sources, NEW ok \in BOOLEAN,
               ObservationSampled(stamp, src, ok)
        PROVE  Lifecycle'
    BY <2>5 DEF ObservationSampled, ObservationDelivered, Delivered, Enqueue, Frame
  <2> QED
    BY <1>3, <2>1, <2>2, <2>3, <2>4, <2>5 DEF CallbackStep
<1>4. CASE ClockStep
  BY <1>4 DEF ClockStep, ClockTicks, ClockSetBack
<1>5. CASE UNCHANGED vars
  <2>1. UNCHANGED <<mpc, wpc, pending, workerRunning, initComplete>>
    BY <1>5, Zenon DEF vars
  <2> QED
    BY <2>1
<1> QED
  BY <1>1, <1>2, <1>3, <1>4, <1>5 DEF Next, Gone

LEMMA BalanceStep == DataOK /\ Balance /\ [Next]_vars => Balance'
<1> SUFFICES ASSUME DataOK, Balance, [Next]_vars PROVE Balance'
  OBVIOUS
<1> USE NodeAssumption DEF Balance, Waiting, Working, DataOK, executorVars,
        slotVars, sourceVars, workerVars, clockVars
<1>1. CASE WorkerStep
  <2>1. CASE BackendInitialized
    BY <2>1 DEF BackendInitialized
  <2>2. CASE BackendInitFails
    BY <2>2 DEF BackendInitFails
  <2>3. CASE WorkerExits
    BY <2>3 DEF WorkerExits
  <2>4. CASE WorkerThrottled
    BY <2>4 DEF WorkerThrottled
  <2>5. CASE WorkerThrottleEnds
    BY <2>5 DEF WorkerThrottleEnds
  <2>6. CASE WorkerDequeues
    BY <2>6 DEF WorkerDequeues
  <2>7. CASE WorkerConverts
    BY <2>7 DEF WorkerConverts
  <2>8. CASE WorkerConversionFails
    BY <2>8 DEF WorkerConversionFails
  <2>9. CASE WorkerReportsConversion
    BY <2>9 DEF WorkerReportsConversion
  <2>10. CASE WorkerReleases
    BY <2>10 DEF WorkerReleases
  <2>11. ASSUME NEW ok \in BOOLEAN, NEW text \in TextSizes, WorkerInfers(ok, text)
        PROVE  Balance'
    BY <2>11 DEF WorkerInfers
  <2> QED
    BY <1>1, <2>1, <2>2, <2>3, <2>4, <2>5, <2>6, <2>7, <2>8, <2>9, <2>10, <2>11 DEF WorkerStep
<1>2. CASE OwnerStep
  <2>1. CASE StartWorkerReturns
    BY <2>1 DEF StartWorkerReturns
  <2>2. CASE StartWorkerThrows
    BY <2>2 DEF StartWorkerThrows
  <2>3. CASE StopWorker
    BY <2>3 DEF StopWorker
  <2>4. CASE WorkerJoined
    BY <2>4 DEF WorkerJoined
  <2> QED
    BY <1>2, <2>1, <2>2, <2>3, <2>4 DEF OwnerStep
<1>3. CASE CallbackStep
  <2>1. ASSUME NEW stamp \in Stamps, ImageTooSoon(stamp)
        PROVE  Balance'
    BY <2>1 DEF ImageTooSoon, Delivered
  <2>2. ASSUME NEW stamp \in Stamps, NEW ok \in BOOLEAN, ImageSampled(stamp, ok)
        PROVE  Balance'
    BY <2>2 DEF ImageSampled, Delivered, Enqueue, Frame
  <2>3. ASSUME NEW stamp \in Stamps, NEW src \in Sources, ObservationTooSoon(stamp, src)
        PROVE  Balance'
    BY <2>3 DEF ObservationTooSoon, ObservationDelivered, Delivered
  <2>4. ASSUME NEW stamp \in Stamps, NEW src \in Sources, ObservationSeen(stamp, src)
        PROVE  Balance'
    BY <2>4 DEF ObservationSeen, ObservationDelivered, Delivered
  <2>5. ASSUME NEW stamp \in Stamps, NEW src \in Sources, NEW ok \in BOOLEAN,
               ObservationSampled(stamp, src, ok)
        PROVE  Balance'
    BY <2>5 DEF ObservationSampled, ObservationDelivered, Delivered, Enqueue, Frame
  <2> QED
    BY <1>3, <2>1, <2>2, <2>3, <2>4, <2>5 DEF CallbackStep
<1>4. CASE ClockStep
  BY <1>4 DEF ClockStep, ClockTicks, ClockSetBack
<1>5. CASE UNCHANGED vars
  <2>1. UNCHANGED <<wpc, pending, sampled, dropped, success, failure>>
    BY <1>5, Zenon DEF vars
  <2> QED
    BY <2>1
<1> QED
  BY <1>1, <1>2, <1>3, <1>4, <1>5 DEF Next, Gone

(* Once the node is gone, every frame it sampled has been dropped, answered  *)
(* or reported as failed, for every configuration that counts its drops.     *)
THEOREM CountersBalanceHolds == Spec => []CountersBalance
<1>1. NodeInit => Lifecycle /\ Balance
  BY DEF NodeInit, Lifecycle, Balance, Waiting, Working
<1>2. NodeTypeOK /\ Lifecycle /\ Balance => CountersBalance
  BY DEF NodeTypeOK, DataOK, Lifecycle, Balance, Waiting, Working, CountersBalance
<1>3. NodeTypeOK => DataOK
  BY DEF NodeTypeOK
<1> QED
  BY <1>1, <1>2, <1>3, NodeTypeCorrect, LifecycleStep, BalanceStep, PTL DEF Spec

-----------------------------------------------------------------------------
(* Duplicate suppression.  A source is accepted only when nothing that waits *)
(* or is in flight has it, so giving it back frees it for good.              *)

DistinctSources ==
  DropOldFrames /\ InFlight /\ pending # NoFrame =>
    (pending.src = frame.src => pending.src = 0)

ImagesHaveNoSource == ~UseTracked /\ pending # NoFrame => pending.src = 0

SourceInv ==
  AcceptedIsLive /\ ActiveIsInFlight /\ DistinctSources /\ ImagesHaveNoSource

LEMMA SourceStep == NodeTypeOK /\ SourceInv /\ [Next]_vars => SourceInv'
<1> SUFFICES ASSUME NodeTypeOK, SourceInv, [Next]_vars PROVE SourceInv'
  OBVIOUS
<1> USE NodeAssumption DEF SourceInv, AcceptedIsLive, ActiveIsInFlight,
        DistinctSources, ImagesHaveNoSource, InFlight, NodeTypeOK, DataOK, FlagsOK, executorVars,
        slotVars, sourceVars, workerVars, clockVars
<1>1. CASE WorkerStep
  <2>1. CASE BackendInitialized
    BY <2>1 DEF BackendInitialized
  <2>2. CASE BackendInitFails
    BY <2>2 DEF BackendInitFails
  <2>3. CASE WorkerExits
    BY <2>3 DEF WorkerExits
  <2>4. CASE WorkerThrottled
    BY <2>4 DEF WorkerThrottled
  <2>5. CASE WorkerThrottleEnds
    BY <2>5 DEF WorkerThrottleEnds
  <2>6. CASE WorkerConverts
    BY <2>6 DEF WorkerConverts
  <2>7. CASE WorkerConversionFails
    BY <2>7 DEF WorkerConversionFails
  <2>8. CASE WorkerReportsConversion
    BY <2>8 DEF WorkerReportsConversion
  <2>9. CASE WorkerDequeues
    BY <2>9 DEF WorkerDequeues, Frame
  <2>10. CASE WorkerReleases
    BY <2>10 DEF WorkerReleases, Frame
  <2>11. ASSUME NEW ok \in BOOLEAN, NEW text \in TextSizes, WorkerInfers(ok, text)
        PROVE  SourceInv'
    BY <2>11 DEF WorkerInfers
  <2> QED
    BY <1>1, <2>1, <2>2, <2>3, <2>4, <2>5, <2>6, <2>7, <2>8, <2>9, <2>10, <2>11
       DEF WorkerStep
<1>2. CASE OwnerStep
  <2>1. CASE StartWorkerReturns
    BY <2>1 DEF StartWorkerReturns
  <2>2. CASE StartWorkerThrows
    BY <2>2 DEF StartWorkerThrows
  <2>3. CASE StopWorker
    BY <2>3 DEF StopWorker
  <2>4. CASE WorkerJoined
    BY <2>4 DEF WorkerJoined
  <2> QED
    BY <1>2, <2>1, <2>2, <2>3, <2>4 DEF OwnerStep
<1>3. CASE CallbackStep
  <2>1. ASSUME NEW stamp \in Stamps, ImageTooSoon(stamp)
        PROVE  SourceInv'
    BY <2>1 DEF ImageTooSoon, Delivered
  <2>2. ASSUME NEW stamp \in Stamps, NEW ok \in BOOLEAN, ImageSampled(stamp, ok)
        PROVE  SourceInv'
    <3>1. /\ pending' # NoFrame
          /\ pending'.src = 0
          /\ pending # NoFrame => pending.src = 0
      BY <2>2 DEF ImageSampled, Enqueue, Frame
    <3>2. UNCHANGED <<wpc, frame, hasActive, activeSource, accepted>>
      BY <2>2 DEF ImageSampled, Delivered
    <3> QED
      BY <3>1, <3>2
  <2>3. ASSUME NEW stamp \in Stamps, NEW src \in Sources, ObservationTooSoon(stamp, src)
        PROVE  SourceInv'
    BY <2>3 DEF ObservationTooSoon, ObservationDelivered, Delivered
  <2>4. ASSUME NEW stamp \in Stamps, NEW src \in Sources, ObservationSeen(stamp, src)
        PROVE  SourceInv'
    BY <2>4 DEF ObservationSeen, ObservationDelivered, Delivered
  <2>5. ASSUME NEW stamp \in Stamps, NEW src \in Sources, NEW ok \in BOOLEAN,
               ObservationSampled(stamp, src, ok)
        PROVE  SourceInv'
    <3>1. /\ pending' = [seq |-> sampled, src |-> src, ok |-> ok]
          /\ pending' # NoFrame
          /\ pending'.src = src
      BY <2>5 DEF ObservationSampled, Enqueue, Frame
    <3>2. /\ src # 0 => src \notin accepted
          /\ UNCHANGED <<wpc, frame, hasActive, activeSource>>
      BY <2>5 DEF ObservationSampled, ObservationDelivered, Delivered, Seen
    <3>3. ActiveIsInFlight'
      BY <3>2
    <3>4. DistinctSources'
      BY <3>1, <3>2
    <3>5. ASSUME DropOldFrames
          PROVE  AcceptedIsLive'
      <4>1. CASE pending = NoFrame
        <5>1. accepted' = accepted \cup ({src} \ {0})
          BY <2>5, <4>1 DEF ObservationSampled
        <5> QED
          BY <3>1, <3>2, <3>5, <4>1, <5>1
      <4>2. CASE pending # NoFrame
        <5>1. accepted' = (accepted \ {pending.src}) \cup ({src} \ {0})
          BY <2>5, <3>5, <4>2 DEF ObservationSampled
        <5> QED
          BY <3>1, <3>2, <3>5, <4>2, <5>1
      <4> QED
        BY <4>1, <4>2
    <3>6. ImagesHaveNoSource'
      BY <2>5 DEF ObservationSampled, ObservationDelivered
    <3> QED
      BY <3>3, <3>4, <3>5, <3>6
  <2> QED
    BY <1>3, <2>1, <2>2, <2>3, <2>4, <2>5 DEF CallbackStep
<1>4. CASE ClockStep
  BY <1>4 DEF ClockStep, ClockTicks, ClockSetBack
<1>5. CASE UNCHANGED vars
  <2>1. UNCHANGED <<accepted, pending, frame, wpc, hasActive, activeSource>>
    BY <1>5, Zenon DEF vars
  <2> QED
    BY <2>1
<1> QED
  BY <1>1, <1>2, <1>3, <1>4, <1>5 DEF Next, Gone

(* The accepted set never holds more than the frame that waits and the frame *)
(* in flight, and the flags the callback consults describe the latter.       *)
THEOREM AcceptedIsLiveHolds == Spec => [](AcceptedIsLive /\ ActiveIsInFlight)
<1>1. NodeInit => SourceInv
  BY DEF NodeInit, SourceInv, AcceptedIsLive, ActiveIsInFlight, DistinctSources,
         ImagesHaveNoSource, InFlight
<1>2. SourceInv => AcceptedIsLive /\ ActiveIsInFlight
  BY DEF SourceInv
<1> QED
  BY <1>1, <1>2, NodeTypeCorrect, SourceStep, PTL DEF Spec

-----------------------------------------------------------------------------
(* The order of the sources.  On an ordered topic the sources of what is     *)
(* completed, of the frame in flight and of the frame that waits increase,   *)
(* and none is beyond the last one delivered; so what the worker publishes   *)
(* next is beyond all it has published.                                      *)

Held(f) == f # NoFrame /\ f.src # 0

SourcesIncrease ==
  /\ ~haveCompleted => lastCompleted = 0
  /\ InFlight /\ Held(frame) =>
       lastCompleted < frame.src /\ frame.src <= lastDelivered
  /\ Held(pending) => lastCompleted < pending.src /\ pending.src <= lastDelivered
  /\ InFlight /\ Held(frame) /\ Held(pending) => frame.src < pending.src

(* The source of an answer is the last completed one from the moment the     *)
(* worker has given it back.                                                 *)
Settled(src) ==
  \/ src <= lastCompleted
  \/ wpc = "release" /\ Held(frame) /\ src <= frame.src

AnswersSettled ==
  \A i \in 1..Len(published) :
    published[i].src # 0 /\ published[i].outcome # "unconverted"
      => Settled(published[i].src)

OrderInv ==
  InOrderSources => SourcesIncrease /\ AnswersSettled /\ SourcesInferredOnce

(* A result published for the frame in flight is beyond every answer so far. *)
LEMMA PublishInOrder ==
  ASSUME DataOK, ActiveIsInFlight, InOrderSources, SourcesIncrease, AnswersSettled,
         SourcesInferredOnce, frame \in Frame, wpc \in {"infer", "unconverted"},
         NEW outcome, outcome \in {"answer", "error", "unconverted"},
         Publish(outcome), UNCHANGED <<frame, lastCompleted>>,
         outcome # "unconverted" => wpc' = "release"
  PROVE  AnswersSettled' /\ SourcesInferredOnce'
<1>1. published \in Seq(Result)
  BY DEF DataOK
<1>2. [seq |-> frame.seq, src |-> frame.src, outcome |-> outcome] \in Result
  BY DEF Frame, Result
<1>3. /\ Len(published) \in Nat
      /\ Len(published') = Len(published) + 1
      /\ \A i \in 1..Len(published) : published'[i] = published[i]
      /\ published'[Len(published) + 1]
           = [seq |-> frame.seq, src |-> frame.src, outcome |-> outcome]
  BY <1>1, <1>2 DEF Publish
<1>4. \A i \in 1..Len(published) : published[i].src \in Nat
  <2>1. \A i \in 1..Len(published) : published[i] \in Result
    BY <1>1
  <2> QED
    BY <2>1 DEF Result
<1>5. /\ frame # NoFrame /\ frame.src \in Nat /\ lastCompleted \in Nat
      /\ frame.src # 0 => lastCompleted < frame.src
  BY NodeAssumption DEF DataOK, Frame, InFlight, SourcesIncrease, Held
<1>6. \A i \in 1..Len(published) :
        published[i].src # 0 /\ published[i].outcome # "unconverted"
          => published[i].src <= lastCompleted
  BY DEF AnswersSettled, Settled
<1>7. AnswersSettled'
  <2> SUFFICES ASSUME NEW i \in 1..Len(published'),
                      published'[i].src # 0, published'[i].outcome # "unconverted"
               PROVE  \/ published'[i].src <= lastCompleted'
                      \/ /\ wpc' = "release" /\ frame' # NoFrame /\ frame'.src # 0
                         /\ published'[i].src <= frame'.src
    BY DEF AnswersSettled, Settled, Held
  <2>1. CASE i \in 1..Len(published)
    BY <1>3, <1>6, <2>1
  <2>2. CASE i = Len(published) + 1
    BY <1>3, <1>5, <2>2
  <2> QED
    BY <1>3, <2>1, <2>2
<1>8. SourcesInferredOnce'
  <2> SUFFICES ASSUME NEW i \in 1..Len(published'), NEW j \in 1..Len(published'),
                      i < j, published'[i].src # 0, published'[j].src # 0,
                      published'[i].outcome # "unconverted"
               PROVE  published'[i].src < published'[j].src
    BY DEF SourcesInferredOnce
  <2>1. i \in 1..Len(published)
    BY <1>3
  <2>2. CASE j \in 1..Len(published)
    BY <1>3, <2>1, <2>2 DEF SourcesInferredOnce
  <2>3. CASE j = Len(published) + 1
    BY <1>3, <1>4, <1>5, <1>6, <2>1, <2>3
  <2> QED
    BY <1>3, <2>2, <2>3
<1> QED
  BY <1>7, <1>8

LEMMA OrderStep ==
  NodeTypeOK /\ ActiveIsInFlight /\ OrderInv /\ [Next]_vars => OrderInv'
<1> SUFFICES ASSUME NodeTypeOK, ActiveIsInFlight, OrderInv, [Next]_vars, InOrderSources
             PROVE  (SourcesIncrease /\ AnswersSettled /\ SourcesInferredOnce)'
  BY DEF OrderInv
<1>0. DataOK /\ SourcesIncrease /\ AnswersSettled /\ SourcesInferredOnce
  BY DEF OrderInv, NodeTypeOK
\* What only the frame in flight and the completed source can disturb.
<1>a. ASSUME UNCHANGED <<frame, lastCompleted, published>>,
             wpc = "release" => wpc' = "release"
      PROVE  AnswersSettled' /\ SourcesInferredOnce'
  BY <1>0, <1>a DEF AnswersSettled, Settled, Held, SourcesInferredOnce
\* A step that leaves every source where it is.
<1>b. ASSUME UNCHANGED <<frame, pending, haveCompleted, lastCompleted, lastDelivered>>,
             InFlight' => InFlight
      PROVE  SourcesIncrease'
  BY <1>0, <1>b DEF SourcesIncrease, Held
<1> USE NodeAssumption DEF executorVars, slotVars, sourceVars, workerVars, clockVars
<1>1. CASE WorkerStep
  <2>1. CASE \/ BackendInitialized \/ BackendInitFails \/ WorkerExits
             \/ WorkerThrottled \/ WorkerThrottleEnds \/ WorkerConverts
             \/ WorkerConversionFails
    <3>1. /\ UNCHANGED <<frame, pending, haveCompleted, lastCompleted, lastDelivered,
                         published>>
          /\ wpc # "release"
          /\ InFlight' => InFlight
      BY <2>1 DEF BackendInitialized, BackendInitFails, WorkerExits, WorkerThrottled,
         WorkerThrottleEnds, WorkerConverts, WorkerConversionFails, InFlight
    <3> QED
      BY <1>a, <1>b, <3>1
  <2>2. CASE WorkerDequeues
    <3>1. /\ frame' = pending /\ pending' = NoFrame
          /\ wpc = "wait" /\ wpc' = "convert"
          /\ UNCHANGED <<haveCompleted, lastCompleted, lastDelivered, published>>
      BY <2>2 DEF WorkerDequeues
    <3>2. SourcesIncrease'
      BY <1>0, <3>1 DEF SourcesIncrease, Held
    <3>3. AnswersSettled' /\ SourcesInferredOnce'
      BY <1>0, <3>1 DEF AnswersSettled, Settled, SourcesInferredOnce
    <3> QED
      BY <3>2, <3>3
  <2>3. CASE WorkerReportsConversion
    <3>1. /\ frame \in Frame /\ wpc = "unconverted" /\ Publish("unconverted")
          /\ UNCHANGED <<frame, pending, haveCompleted, lastCompleted, lastDelivered>>
          /\ InFlight
      BY <1>0, <2>3 DEF WorkerReportsConversion, DataOK, InFlight
    <3> QED
      BY <1>0, <1>b, <3>1, PublishInOrder
  <2>4. ASSUME NEW ok \in BOOLEAN, NEW text \in TextSizes, WorkerInfers(ok, text)
        PROVE  (SourcesIncrease /\ AnswersSettled /\ SourcesInferredOnce)'
    <3>1. /\ frame \in Frame /\ wpc = "infer" /\ wpc' = "release"
          /\ Publish(IF ok THEN "answer" ELSE "error")
          /\ UNCHANGED <<frame, pending, haveCompleted, lastCompleted, lastDelivered>>
          /\ InFlight
      BY <1>0, <2>4 DEF WorkerInfers, DataOK, InFlight
    <3>2. SourcesIncrease'
      BY <1>b, <3>1
    <3>3. AnswersSettled' /\ SourcesInferredOnce'
      BY <1>0, <3>1, PublishInOrder
    <3> QED
      BY <3>2, <3>3
  <2>5. CASE WorkerReleases
    <3>1. /\ InFlight /\ frame \in Frame /\ frame # NoFrame /\ frame.src \in Nat
          /\ frame' = NoFrame /\ wpc' = "wait" /\ ~InFlight'
          /\ UNCHANGED <<pending, lastDelivered, published>>
      BY <1>0, <2>5 DEF WorkerReleases, DataOK, InFlight, Frame
    <3>2. \/ /\ wpc = "release" /\ frame.src # 0
             /\ haveCompleted' = TRUE /\ lastCompleted' = frame.src
          \/ /\ wpc = "abandon" \/ frame.src = 0
             /\ UNCHANGED <<haveCompleted, lastCompleted>>
      BY <2>5 DEF WorkerReleases
    <3>3. /\ lastCompleted \in Nat
          /\ pending # NoFrame => pending.src \in Nat
      BY <1>0 DEF DataOK, Frame
    <3>4. SourcesIncrease'
      BY <1>0, <3>1, <3>2, <3>3 DEF SourcesIncrease, Held
    <3>5. AnswersSettled'
      <4>1. published \in Seq(Result)
        BY <1>0 DEF DataOK
      <4>2. \A i \in 1..Len(published) : published[i] \in Result
        BY <4>1
      <4>3. \A i \in 1..Len(published) : published[i].src \in Nat
        BY <4>2 DEF Result
      <4> QED
        BY <1>0, <3>1, <3>2, <3>3, <4>3 DEF AnswersSettled, Settled, Held, SourcesIncrease
    <3>6. SourcesInferredOnce'
      BY <1>0, <3>1 DEF SourcesInferredOnce
    <3> QED
      BY <3>4, <3>5, <3>6
  <2> QED
    BY <1>1, <2>1, <2>2, <2>3, <2>4, <2>5 DEF WorkerStep
<1>2. CASE OwnerStep
  <2>1. UNCHANGED <<frame, pending, haveCompleted, lastCompleted, lastDelivered,
                    published, wpc>>
    BY <1>2 DEF OwnerStep, StartWorkerReturns, StartWorkerThrows, StopWorker,
                WorkerJoined
  <2> QED
    BY <1>a, <1>b, <2>1 DEF InFlight
<1>3. CASE CallbackStep
  <2>0. UNCHANGED <<wpc, frame, published, haveCompleted, lastCompleted>>
    BY <1>3 DEF CallbackStep, ImageTooSoon, ImageSampled, ObservationTooSoon,
       ObservationSeen, ObservationSampled, ObservationDelivered, Delivered
  <2>1. AnswersSettled' /\ SourcesInferredOnce'
    BY <1>a, <2>0
  <2>2. /\ lastDelivered \in Nat /\ lastCompleted \in Nat
        /\ pending # NoFrame => pending.src \in Nat
        /\ frame # NoFrame => frame.src \in Nat
    BY <1>0 DEF DataOK, Frame
  <2>3. ASSUME NEW stamp \in Stamps, ImageTooSoon(stamp)
        PROVE  SourcesIncrease'
    BY <1>b, <2>0, <2>3 DEF ImageTooSoon, InFlight
  <2>4. ASSUME NEW stamp \in Stamps, NEW ok \in BOOLEAN, ImageSampled(stamp, ok)
        PROVE  SourcesIncrease'
    <3>1. pending'.src = 0 /\ UNCHANGED lastDelivered
      BY <2>4 DEF ImageSampled, Enqueue
    <3> QED
      BY <1>0, <2>0, <3>1 DEF SourcesIncrease, Held, InFlight
  <2>5. ASSUME NEW src \in Sources, ObservationDelivered(src), UNCHANGED pending
        PROVE  SourcesIncrease'
    <3>1. lastDelivered <= lastDelivered' /\ lastDelivered' \in Nat
      BY <2>2, <2>5 DEF ObservationDelivered
    <3> QED
      BY <1>0, <2>0, <2>2, <2>5, <3>1 DEF SourcesIncrease, Held, InFlight
  <2>6. ASSUME NEW stamp \in Stamps, NEW src \in Sources, NEW ok \in BOOLEAN,
               ObservationSampled(stamp, src, ok)
        PROVE  SourcesIncrease'
    <3>1. pending'.src = src /\ src \in Nat
      BY <2>6 DEF ObservationSampled, Enqueue
    <3>2. /\ lastDelivered <= lastDelivered' /\ lastDelivered' \in Nat
          /\ src # 0 => lastDelivered' = src
      BY <2>2, <2>6 DEF ObservationSampled, ObservationDelivered
    <3>3. src # 0 => ~(haveCompleted /\ src <= lastCompleted)
                     /\ ~(hasActive /\ src = activeSource)
      BY <2>6 DEF ObservationSampled, Seen
    <3>4. src # 0 => lastCompleted < src
      BY <1>0, <2>2, <3>1, <3>3 DEF SourcesIncrease
    <3>5. InFlight /\ Held(frame) => hasActive /\ activeSource = frame.src
      BY DEF ActiveIsInFlight, Held
    <3>6. src # 0 /\ InFlight /\ Held(frame) => frame.src < src
      BY <1>0, <2>2, <2>6, <3>1, <3>2, <3>3, <3>5 DEF SourcesIncrease, Held
    <3> QED
      BY <1>0, <2>0, <2>2, <3>1, <3>2, <3>4, <3>6 DEF SourcesIncrease, Held, InFlight
  <2>7. ASSUME NEW stamp \in Stamps, NEW src \in Sources,
               ObservationTooSoon(stamp, src) \/ ObservationSeen(stamp, src)
        PROVE  SourcesIncrease'
    BY <2>5, <2>7 DEF ObservationTooSoon, ObservationSeen
  <2>8. SourcesIncrease'
    BY <1>3, <2>3, <2>4, <2>6, <2>7 DEF CallbackStep
  <2> QED
    BY <2>1, <2>8
<1>4. CASE ClockStep
  <2>1. UNCHANGED <<frame, pending, haveCompleted, lastCompleted, lastDelivered,
                    published, wpc>>
    BY <1>4 DEF ClockStep, ClockTicks, ClockSetBack
  <2> QED
    BY <1>a, <1>b, <2>1 DEF InFlight
<1>5. CASE UNCHANGED vars
  <2>1. UNCHANGED <<frame, pending, haveCompleted, lastCompleted, lastDelivered,
                    published, wpc>>
    BY <1>5, Zenon DEF vars
  <2> QED
    BY <1>a, <1>b, <2>1 DEF InFlight
<1> QED
  BY <1>1, <1>2, <1>3, <1>4, <1>5 DEF Next, Gone

(* On an ordered topic, whatever it repeats, whatever is dropped or cannot   *)
(* be converted and with or without drop_old_frames, no source is answered   *)
(* twice and the answers come in the order of their sources.                 *)
THEOREM SourcesInferredOnceHolds == Spec => []SourcesInferredOnce
<1>1. NodeInit => SourceInv
  BY DEF NodeInit, SourceInv, AcceptedIsLive, ActiveIsInFlight, DistinctSources,
         ImagesHaveNoSource, InFlight
<1>2. NodeInit => OrderInv
  BY DEF NodeInit, OrderInv, SourcesIncrease, AnswersSettled, SourcesInferredOnce,
         InFlight, Held
<1>3. SourceInv => ActiveIsInFlight
  BY DEF SourceInv
<1>4. OrderInv => SourcesInferredOnce
  BY DEF OrderInv, SourcesInferredOnce
<1> QED
  BY <1>1, <1>2, <1>3, <1>4, NodeTypeCorrect, SourceStep, OrderStep, PTL DEF Spec

-----------------------------------------------------------------------------
(* The refinement.  Frames are numbered from 1 in the order they are sampled *)
(* once tracked observations, which count from 0, are shifted by one; so a   *)
(* full slot and a busy worker never look empty or idle to the policy.       *)

Numbered ==
  /\ pending # NoFrame => Ordinal(pending.seq) # 0
  /\ InFlight => Ordinal(frame.seq) # 0

SlotOf == IF pending = NoFrame THEN 0 ELSE Ordinal(pending.seq)
BusyOf == IF wpc \in {"convert", "infer", "unconverted"} THEN Ordinal(frame.seq) ELSE 0
ServedOf == [i \in 1..Len(published) |-> Ordinal(published[i].seq)]

LEMMA NumberedStep == DataOK /\ Numbered /\ [Next]_vars => Numbered'
<1> SUFFICES ASSUME DataOK, Numbered, [Next]_vars PROVE Numbered'
  OBVIOUS
<1> USE NodeAssumption DEF Numbered, Ordinal, InFlight, DataOK, executorVars,
        slotVars, sourceVars, workerVars, clockVars
<1>1. CASE WorkerStep
  BY <1>1 DEF WorkerStep, BackendInitialized, BackendInitFails, WorkerExits,
     WorkerThrottled, WorkerThrottleEnds, WorkerDequeues, WorkerConverts,
     WorkerConversionFails, WorkerReportsConversion, WorkerInfers, WorkerReleases
<1>2. CASE OwnerStep
  <2>1. CASE StartWorkerReturns
    BY <2>1 DEF StartWorkerReturns
  <2>2. CASE StartWorkerThrows
    BY <2>2 DEF StartWorkerThrows
  <2>3. CASE StopWorker
    BY <2>3 DEF StopWorker
  <2>4. CASE WorkerJoined
    BY <2>4 DEF WorkerJoined
  <2> QED
    BY <1>2, <2>1, <2>2, <2>3, <2>4 DEF OwnerStep
<1>3. CASE CallbackStep
  <2>1. \/ UNCHANGED <<pending, wpc, frame>>
        \/ /\ UNCHANGED <<wpc, frame>>
           /\ \E seq \in Nat, src \in Nat, ok \in BOOLEAN :
                /\ pending' = [seq |-> seq, src |-> src, ok |-> ok]
                /\ ~UseTracked => seq # 0
    BY <1>3 DEF CallbackStep, ImageTooSoon, ImageSampled, ObservationTooSoon,
       ObservationSeen, ObservationSampled, ObservationDelivered, Delivered, Enqueue
  <2> QED
    BY <2>1 DEF Frame
<1>4. CASE ClockStep
  BY <1>4 DEF ClockStep, ClockTicks, ClockSetBack
<1>5. CASE UNCHANGED vars
  <2>1. UNCHANGED <<pending, frame, wpc>>
    BY <1>5, Zenon DEF vars
  <2> QED
    BY <2>1
<1> QED
  BY <1>1, <1>2, <1>3, <1>4, <1>5 DEF Next, Gone

(* Publishing a result appends its frame to what the policy has served.      *)
LEMMA PublishServes ==
  ASSUME DataOK, frame \in Frame, NEW outcome,
         outcome \in {"answer", "error", "unconverted"}, Publish(outcome)
  PROVE  ServedOf' = Append(ServedOf, Ordinal(frame.seq))
<1>1. published \in Seq(Result)
  BY DEF DataOK
<1>2. [seq |-> frame.seq, src |-> frame.src, outcome |-> outcome] \in Result
  BY DEF Frame, Result
<1> DEFINE r == [seq |-> frame.seq, src |-> frame.src, outcome |-> outcome]
<1>3. published' = Append(published, r)
  BY DEF Publish
<1>4. /\ Len(published') = Len(published) + 1
      /\ \A i \in 1..Len(published) : published'[i] = published[i]
      /\ published'[Len(published) + 1] = r
  BY <1>1, <1>2, <1>3
<1> QED
  BY <1>1, <1>4 DEF ServedOf, Ordinal, Frame, Result

(* With drop_old_frames the node implements the latest-only policy: it       *)
(* refines a one-slot, one-server specification in which the newest input    *)
(* always wins, every superseded one is counted, and each input that is      *)
(* taken is served once.                                                     *)
THEOREM NodeImplementsLatestOnly ==
  ASSUME DropOldFrames
  PROVE  Spec => ImplementsLatestOnly
<1>1. NodeInit => Latest!LatestInit
  BY DEF NodeInit, Latest!LatestInit
<1>2. NodeInit => Numbered
  BY DEF NodeInit, Numbered, InFlight
<1>3. DataOK /\ Numbered /\ [Next]_vars => [Latest!LatestNext]_Latest!latestVars
  <2> SUFFICES ASSUME DataOK, Numbered, [Next]_vars
               PROVE  Latest!LatestNext \/ UNCHANGED Latest!latestVars
    OBVIOUS
  <2> USE NodeAssumption DEF executorVars, slotVars, sourceVars, workerVars, clockVars
  <2>0. ASSUME UNCHANGED <<sampled, dropped, published, pending, frame, wpc>>
        PROVE  UNCHANGED Latest!latestVars
    BY <2>0, Zenon DEF Latest!latestVars
  <2>1. CASE WorkerStep
    <3>1. CASE WorkerDequeues
      <4>1. /\ SlotOf # 0 /\ BusyOf = 0
            /\ BusyOf' = SlotOf /\ SlotOf' = 0
            /\ UNCHANGED <<sampled, dropped, published>>
        BY <3>1 DEF WorkerDequeues, SlotOf, BusyOf, Numbered
      <4>2. Latest!Take
        BY <4>1 DEF Latest!Take, SlotOf, BusyOf
      <4> QED
        BY <4>2 DEF Latest!LatestNext
    <3>2. CASE WorkerReportsConversion
      <4>1. frame \in Frame
        BY <3>2 DEF WorkerReportsConversion, DataOK, InFlight
      <4>2. ServedOf' = Append(ServedOf, Ordinal(frame.seq))
        BY <3>2, <4>1, PublishServes DEF WorkerReportsConversion
      <4>3. /\ BusyOf # 0 /\ BusyOf = Ordinal(frame.seq) /\ BusyOf' = 0
            /\ UNCHANGED <<sampled, dropped, pending>>
        BY <3>2 DEF WorkerReportsConversion, BusyOf, Numbered, InFlight
      <4>4. Latest!Finish
        BY <4>2, <4>3 DEF Latest!Finish, SlotOf, BusyOf, ServedOf
      <4> QED
        BY <4>4 DEF Latest!LatestNext
    <3>3. ASSUME NEW ok \in BOOLEAN, NEW text \in TextSizes, WorkerInfers(ok, text)
          PROVE  Latest!LatestNext
      <4>1. frame \in Frame
        BY <3>3 DEF WorkerInfers, DataOK, InFlight
      <4>2. ServedOf' = Append(ServedOf, Ordinal(frame.seq))
        BY <3>3, <4>1, PublishServes DEF WorkerInfers
      <4>3. /\ BusyOf # 0 /\ BusyOf = Ordinal(frame.seq) /\ BusyOf' = 0
            /\ UNCHANGED <<sampled, dropped, pending>>
        BY <3>3 DEF WorkerInfers, BusyOf, Numbered, InFlight
      <4>4. Latest!Finish
        BY <4>2, <4>3 DEF Latest!Finish, SlotOf, BusyOf, ServedOf
      <4> QED
        BY <4>4 DEF Latest!LatestNext
    <3>4. CASE \/ BackendInitialized \/ BackendInitFails \/ WorkerExits
               \/ WorkerThrottled \/ WorkerThrottleEnds \/ WorkerConverts
               \/ WorkerConversionFails \/ WorkerReleases
      <4>1. UNCHANGED <<sampled, dropped, published, pending>>
        BY <3>4 DEF BackendInitialized, BackendInitFails, WorkerExits, WorkerThrottled,
           WorkerThrottleEnds, WorkerConverts, WorkerConversionFails, WorkerReleases
      <4>2. UNCHANGED BusyOf
        BY <3>4 DEF BackendInitialized, BackendInitFails, WorkerExits, WorkerThrottled,
           WorkerThrottleEnds, WorkerConverts, WorkerConversionFails, WorkerReleases,
           BusyOf
      <4> QED
        BY <4>1, <4>2, Zenon DEF Latest!latestVars, BusyOf
    <3> QED
      BY <2>1, <3>1, <3>2, <3>3, <3>4 DEF WorkerStep
  <2>2. CASE OwnerStep
    BY <2>0, <2>2 DEF OwnerStep, StartWorkerReturns, StartWorkerThrows, StopWorker,
                      WorkerJoined
  <2>3. CASE CallbackStep
    <3>1. \/ UNCHANGED <<sampled, dropped, published, pending, frame, wpc>>
          \/ /\ UNCHANGED <<published, frame, wpc>>
             /\ sampled' = sampled + 1
             /\ dropped' = IF pending # NoFrame THEN dropped + 1 ELSE dropped
             /\ \E seq \in Nat, src \in Nat, ok \in BOOLEAN :
                  /\ pending' = [seq |-> seq, src |-> src, ok |-> ok]
                  /\ Ordinal(seq) = sampled + 1
      BY <2>3 DEF CallbackStep, ImageTooSoon, ImageSampled, ObservationTooSoon,
         ObservationSeen, ObservationSampled, ObservationDelivered, Delivered,
         Enqueue, Ordinal, DataOK
    <3>2. CASE UNCHANGED <<sampled, dropped, published, pending, frame, wpc>>
      BY <2>0, <3>2
    <3>3. CASE /\ UNCHANGED <<published, frame, wpc>>
               /\ sampled' = sampled + 1
               /\ dropped' = IF pending # NoFrame THEN dropped + 1 ELSE dropped
               /\ \E seq \in Nat, src \in Nat, ok \in BOOLEAN :
                    /\ pending' = [seq |-> seq, src |-> src, ok |-> ok]
                    /\ Ordinal(seq) = sampled + 1
      <4>1. SlotOf' = sampled + 1
        BY <3>3 DEF SlotOf, Frame
      <4>2. SlotOf = 0 <=> pending = NoFrame
        BY DEF SlotOf, Numbered
      <4>3. Latest!Offer
        BY <3>3, <4>1, <4>2 DEF Latest!Offer, SlotOf, BusyOf, ServedOf
      <4> QED
        BY <4>3 DEF Latest!LatestNext
    <3> QED
      BY <3>1, <3>2, <3>3
  <2>4. CASE ClockStep
    BY <2>0, <2>4 DEF ClockStep, ClockTicks, ClockSetBack
  <2>5. CASE UNCHANGED vars
    BY <2>0, <2>5, Zenon DEF vars
  <2> QED
    BY <2>1, <2>2, <2>3, <2>4, <2>5 DEF Next, Gone
<1>4. NodeTypeOK => DataOK
  BY DEF NodeTypeOK
<1> QED
  BY <1>1, <1>2, <1>3, <1>4, NodeTypeCorrect, NumberedStep, PTL
     DEF Spec, ImplementsLatestOnly, Latest!LatestSpec

-----------------------------------------------------------------------------
(* The prompt history.  The total of its sizes is a recursive function, and  *)
(* what is needed of it is shown by looking at the least index where it      *)
(* would fail.                                                               *)

(* Every non-empty set of natural numbers has a least element.               *)
LEMMA LeastOf ==
  ASSUME NEW T, T \subseteq Nat, T # {}
  PROVE  \E n \in T : \A m \in T : n <= m
<1> DEFINE R == OpToRel(<, Nat)
<1>1. IsWellFoundedOn(R, Nat)
  BY NatLessThanWellFounded
<1>2. \A x, y \in Nat : y < x => <<y, x>> \in R
  BY DEF OpToRel
<1> HIDE DEF R
<1>3. PICK x \in T : \A y \in T : ~(<<y, x>> \in R)
  BY <1>1, WFMin
<1>4. ASSUME NEW y \in T PROVE x <= y
  <2>1. ~(y < x)
    BY <1>2, <1>3, <1>4, Zenon
  <2> QED
    BY <2>1
<1> QED
  BY <1>4

(* A function defined by recursion on an initial interval exists.            *)
Recursion(f, N, base, step) ==
  \A n \in 0..N : f[n] = IF n = 0 THEN base ELSE step[n][f[n - 1]]

LEMMA RecursionExists ==
  ASSUME NEW N \in Nat, NEW S, NEW base \in S, NEW step \in [1..N -> [S -> S]]
  PROVE  \E f \in [0..N -> S] : Recursion(f, N, base, step)
<1> DEFINE UpTo(n) == \E f \in [0..n -> S] :
                        \A m \in 0..n : f[m] = IF m = 0 THEN base ELSE step[m][f[m - 1]]
           T == { n \in 0..N : ~UpTo(n) }
<1>1. UpTo(0)
  <2>1. PICK f : f = [m \in 0..0 |-> base]
    OBVIOUS
  <2>2. f \in [0..0 -> S] /\ f[0] = base /\ \A m \in 0..0 : m = 0
    BY <2>1
  <2>3. \A m \in 0..0 : f[m] = IF m = 0 THEN base ELSE step[m][f[m - 1]]
    BY <2>2, Zenon
  <2> QED
    BY <2>2, <2>3
<1>2. ASSUME NEW n \in 1..N, UpTo(n - 1) PROVE UpTo(n)
  <2>1. PICK f \in [0..(n - 1) -> S] :
          \A m \in 0..(n - 1) : f[m] = IF m = 0 THEN base ELSE step[m][f[m - 1]]
    BY <1>2
  <2>2. PICK e \in S : e = step[n][f[n - 1]]
    BY <2>1
  <2> DEFINE g == [m \in 0..n |-> IF m = n THEN e ELSE f[m]]
  <2>3. g \in [0..n -> S]
    BY <2>1
  <2>4. ASSUME NEW m \in 0..n
        PROVE  g[m] = IF m = 0 THEN base ELSE step[m][g[m - 1]]
    <3>1. CASE m = 0
      <4>1. 0 \in 0..(n - 1) /\ n # 0
        OBVIOUS
      <4>2. g[m] = f[0] /\ f[0] = base
        BY <2>1, <3>1, <4>1
      <4> QED
        BY <3>1, <4>2, Zenon
    <3>2. CASE m # 0
      <4>1. m - 1 \in 0..(n - 1) /\ m - 1 # n
        BY <3>2
      <4>2. g[m - 1] = f[m - 1]
        BY <4>1
      <4>3. CASE m = n
        BY <2>2, <3>2, <4>2, <4>3
      <4>4. CASE m # n
        <5>1. m \in 0..(n - 1) /\ g[m] = f[m]
          BY <4>4
        <5> HIDE DEF g
        <5> QED
          BY <2>1, <3>2, <4>2, <5>1
      <4> QED
        BY <4>3, <4>4
    <3> QED
      BY <3>1, <3>2
  <2> HIDE DEF g
  <2> QED
    BY <2>3, <2>4
<1>3. T = {}
  <2> SUFFICES ASSUME T # {} PROVE FALSE
    OBVIOUS
  <2>0. T \subseteq Nat
    OBVIOUS
  <2>1. PICK n \in T : \A m \in T : n <= m
    <3> HIDE DEF T
    <3> QED
      BY <2>0, LeastOf
  <2> HIDE DEF UpTo
  <2>2. n \in 1..N /\ n - 1 \in 0..N
    BY <1>1, <2>1
  <2>3. UpTo(n - 1)
    BY <2>1, <2>2
  <2> QED
    BY <1>2, <2>1, <2>2, <2>3
<1> QED
  BY <1>3 DEF Recursion

Entry == [req: Nat, chars: Nat]

Sums(f, h) == f = [n \in 0..Len(h) |-> IF n = 0 THEN 0 ELSE f[n - 1] + h[n].chars]

LEMMA SumExists ==
  ASSUME NEW h \in Seq(Entry)
  PROVE  \E f \in [0..Len(h) -> Nat] : Sums(f, h)
<1>1. PICK N \in Nat, zero \in Nat : N = Len(h) /\ zero = 0
  OBVIOUS
<1> DEFINE step == [m \in 1..N |-> [x \in Nat |-> x + h[m].chars]]
<1>2. ASSUME NEW m \in 1..N PROVE h[m].chars \in Nat
  <2>1. h[m] \in Entry
    BY <1>1
  <2> QED
    BY <2>1 DEF Entry
<1>3. step \in [1..N -> [Nat -> Nat]]
  <2>1. \A m \in 1..N : [x \in Nat |-> x + h[m].chars] \in [Nat -> Nat]
    BY <1>2
  <2> QED
    BY <2>1
<1>4. \A m \in 1..N, x \in Nat : step[m][x] = x + h[m].chars
  OBVIOUS
<1> HIDE DEF step
<1>5. PICK f \in [0..N -> Nat] : Recursion(f, N, zero, step)
  BY <1>3, RecursionExists
<1>6. \A m \in 0..N : f[m] = IF m = 0 THEN 0 ELSE f[m - 1] + h[m].chars
  BY <1>1, <1>4, <1>5 DEF Recursion
<1>7. f = [n \in 0..N |-> IF n = 0 THEN 0 ELSE f[n - 1] + h[n].chars]
  BY <1>6
<1> QED
  BY <1>1, <1>7 DEF Sums

LEMMA SumsAgree ==
  ASSUME NEW h \in Seq(Entry), NEW g \in Seq(Entry), Len(h) <= Len(g),
         \A i \in 1..Len(h) : g[i] = h[i],
         NEW f, Sums(f, h), NEW k, Sums(k, g)
  PROVE  \A n \in 0..Len(h) : f[n] = k[n]
<1> DEFINE T == {n \in 0..Len(h) : f[n] # k[n]}
<1>1. \A n \in 0..Len(h) : f[n] = IF n = 0 THEN 0 ELSE f[n - 1] + h[n].chars
  BY DEF Sums
<1>2. \A n \in 0..Len(g) : k[n] = IF n = 0 THEN 0 ELSE k[n - 1] + g[n].chars
  BY DEF Sums
<1>3. T = {}
  <2> SUFFICES ASSUME T # {} PROVE FALSE
    OBVIOUS
  <2>0. T \subseteq Nat
    OBVIOUS
  <2>1. PICK n \in T : \A m \in T : n <= m
    <3> HIDE DEF T
    <3> QED
      BY <2>0, LeastOf
  <2>2. n \in 1..Len(h) /\ n - 1 \in 0..Len(h) /\ n \in 0..Len(g)
    BY <1>1, <1>2, <2>1
  <2>3. f[n - 1] = k[n - 1]
    BY <2>1, <2>2
  <2>4. f[n] = f[n - 1] + h[n].chars /\ k[n] = k[n - 1] + g[n].chars /\ g[n] = h[n]
    BY <1>1, <1>2, <2>2
  <2> QED
    BY <2>1, <2>3, <2>4
<1> QED
  BY <1>3

LEMMA SizeIsSum ==
  ASSUME NEW h \in Seq(Entry)
  PROVE  \E f \in [0..Len(h) -> Nat] : Sums(f, h) /\ SizeChars(h) = f[Len(h)]
<1>1. SizeChars(h) = (CHOOSE f : Sums(f, h))[Len(h)]
  BY DEF SizeChars, Sums
<1>2. PICK g : g = CHOOSE f : Sums(f, h)
  OBVIOUS
<1>3. Sums(g, h)
  BY <1>2, SumExists
<1>4. PICK f \in [0..Len(h) -> Nat] : Sums(f, h)
  BY SumExists
<1>5. g[Len(h)] = f[Len(h)]
  BY <1>3, <1>4, SumsAgree
<1> QED
  BY <1>1, <1>2, <1>4, <1>5

LEMMA SizeOfAppend ==
  ASSUME NEW h \in Seq(Entry), NEW e \in Entry
  PROVE  /\ SizeChars(h) \in Nat
         /\ SizeChars(Append(h, e)) = SizeChars(h) + e.chars
<1>1. PICK f \in [0..Len(h) -> Nat] : Sums(f, h) /\ SizeChars(h) = f[Len(h)]
  BY SizeIsSum
<1>2. PICK g : g = Append(h, e)
  OBVIOUS
<1>3. /\ g \in Seq(Entry) /\ Len(g) = Len(h) + 1 /\ g[Len(h) + 1] = e
      /\ \A i \in 1..Len(h) : g[i] = h[i]
  BY <1>2
<1>4. PICK k \in [0..Len(g) -> Nat] : Sums(k, g) /\ SizeChars(g) = k[Len(g)]
  BY <1>3, SizeIsSum
<1>5. f[Len(h)] = k[Len(h)]
  BY <1>1, <1>3, <1>4, SumsAgree
<1>6. k[Len(g)] = k[Len(h)] + g[Len(g)].chars
  BY <1>3, <1>4 DEF Sums
<1> QED
  BY <1>1, <1>2, <1>3, <1>4, <1>5, <1>6

LEMMA SizeOfNone == SizeChars(<< >>) = 0
<1>1. << >> \in Seq(Entry)
  OBVIOUS
<1>2. PICK f \in [0..Len(<< >>) -> Nat] : Sums(f, << >>) /\ SizeChars(<< >>) = f[Len(<< >>)]
  BY <1>1, SizeIsSum
<1> QED
  BY <1>2 DEF Sums

(* What is left of a history in n steps of pop_front                         *)
LEMMA PopFrontIs ==
  ASSUME NEW h \in Seq(Entry), NEW n \in 0..Len(h)
  PROVE  /\ PopFront(h, n) \in Seq(Entry)
         /\ Len(PopFront(h, n)) = Len(h) - n
         /\ \A i \in 1..(Len(h) - n) : PopFront(h, n)[i] = h[n + i]
  BY DEF PopFront

LEMMA PopFrontTwice ==
  ASSUME NEW h \in Seq(Entry), NEW n \in 0..Len(h), NEW m \in 0..(Len(h) - n)
  PROVE  PopFront(PopFront(h, n), m) = PopFront(h, n + m)
  BY DEF PopFront

LEMMA PopFrontOfAppend ==
  ASSUME NEW h \in Seq(Entry), NEW e \in Entry, NEW n \in 0..Len(h)
  PROVE  PopFront(Append(h, e), n) = Append(PopFront(h, n), e)
<1>1. PICK g, p, q :
        g = Append(h, e) /\ p = PopFront(g, n) /\ q = Append(PopFront(h, n), e)
  OBVIOUS
<1>2. /\ g \in Seq(Entry) /\ Len(g) = Len(h) + 1 /\ g[Len(h) + 1] = e
      /\ \A i \in 1..Len(h) : g[i] = h[i]
  BY <1>1
<1>3. /\ p \in Seq(Entry) /\ Len(p) = Len(h) + 1 - n
      /\ \A i \in 1..(Len(h) + 1 - n) : p[i] = g[n + i]
  <2>1. n \in 0..Len(g) /\ Len(g) - n = Len(h) + 1 - n
    BY <1>2
  <2> QED
    BY <1>1, <1>2, <2>1, PopFrontIs
<1>4. /\ q \in Seq(Entry) /\ Len(q) = Len(h) - n + 1 /\ q[Len(h) - n + 1] = e
      /\ \A i \in 1..(Len(h) - n) : q[i] = h[n + i]
  <2>1. PICK r : r = PopFront(h, n)
    OBVIOUS
  <2>2. /\ r \in Seq(Entry) /\ Len(r) = Len(h) - n
        /\ \A i \in 1..(Len(h) - n) : r[i] = h[n + i]
    BY <2>1, PopFrontIs
  <2>3. q = Append(r, e)
    BY <1>1, <2>1
  <2> QED
    BY <2>2, <2>3
<1>5. ASSUME NEW i \in 1..Len(p) PROVE p[i] = q[i]
  <2>1. PICK l \in Nat : l = Len(h) /\ n \in 0..l /\ i \in 1..(l + 1 - n)
    BY <1>3
  <2>2. CASE i = l + 1 - n
    BY <1>2, <1>3, <1>4, <2>1, <2>2
  <2>3. CASE i # l + 1 - n
    <3>1. i \in 1..(l - n) /\ n + i \in 1..l
      BY <2>1, <2>3
    <3>2. p[i] = g[n + i] /\ g[n + i] = h[n + i] /\ q[i] = h[n + i]
      BY <1>2, <1>3, <1>4, <2>1, <3>1
    <3> QED
      BY <3>2, Zenon
  <2> QED
    BY <2>2, <2>3
<1>6. Len(p) = Len(q)
  BY <1>3, <1>4
<1>7. p = q
  BY <1>3, <1>4, <1>5, <1>6, SeqEqual
<1> QED
  BY <1>1, <1>7

LEMMA TrimmedIs ==
  ASSUME NEW h \in Seq(Entry)
  PROVE  \E n \in 0..Len(h) :
           /\ Trimmed(h) = PopFront(h, n) /\ PopsEnough(h, n)
           /\ \A m \in 0..(n - 1) : ~PopsEnough(h, m)
<1> DEFINE T == {n \in 0..Len(h) : PopsEnough(h, n)}
<1>1. Len(h) \in T /\ T \subseteq Nat
  BY DEF PopsEnough
<1>2. PICK n \in T : \A m \in T : n <= m
  <2> HIDE DEF T
  <2> QED
    BY <1>1, LeastOf
<1>3. n \in 0..Len(h) /\ PopsEnough(h, n) /\ \A m \in 0..(n - 1) : ~PopsEnough(h, m)
  BY <1>2
<1> QED
  BY <1>3 DEF Trimmed

LEMMA FitsOfAppend ==
  ASSUME NEW h \in Seq(Entry), NEW e \in Entry, Fits(Append(h, e))
  PROVE  Fits(h)
<1>1. Len(Append(h, e)) = Len(h) + 1 /\ e.chars \in Nat
  BY DEF Entry
<1>2. SizeChars(h) \in Nat /\ SizeChars(Append(h, e)) = SizeChars(h) + e.chars
  BY SizeOfAppend
<1> QED
  BY <1>1, <1>2, HistoryAssumption DEF Fits

LEMMA FitsNone == Fits(<< >>)
  BY SizeOfNone, HistoryAssumption DEF Fits

(***************************************************************************)
(* The history is a suffix of the window that fits, and no longer one does;  *)
(* what it holds is younger than the reset counter tells.                    *)
(***************************************************************************)
HistoryTypeOK ==
  /\ history \in Seq(Entry) /\ window \in Seq(Entry)
  /\ sinceReset \in Nat /\ requests \in Nat /\ lastFailure \in Nat
  /\ open \in BOOLEAN
  /\ context \in Seq(Nat)

LongestKept ==
  \E n \in 0..Len(window) :
    /\ history = PopFront(window, n) /\ Fits(history)
    /\ \A m \in 0..(n - 1) : ~Fits(PopFront(window, m))

(* An entry of h may be one of the history.                                  *)
YoungIn(h) ==
  \A i \in 1..Len(h) :
    /\ h[i].req <= requests /\ (open => h[i].req < requests)
    /\ requests - h[i].req < sinceReset + (IF open THEN 1 ELSE 0)

FailureIsPast == lastFailure <= requests /\ (open => lastFailure < requests)

HistoryInv ==
  /\ HistoryTypeOK /\ LongestKept /\ YoungIn(history) /\ FailureIsPast
  /\ ErrorsIsolate /\ ContextIsFresh

LEMMA BeginRequestKeeps ==
  ASSUME HistoryInv, BeginRequest
  PROVE  HistoryInv'
<1>1. HistoryTypeOK /\ YoungIn(history) /\ FailureIsPast /\ ErrorsIsolate /\ LongestKept
  BY DEF HistoryInv
<1>2. /\ ~open /\ open' = TRUE /\ requests' = requests + 1
      /\ context' = Rendered(history') /\ lastFailure' = lastFailure
  BY DEF BeginRequest
<1>3. \/ ResetDue /\ history' = << >> /\ sinceReset' = 0 /\ window' = << >>
      \/ ~ResetDue /\ UNCHANGED <<history, sinceReset, window>>
  BY DEF BeginRequest
<1>4. history' \in Seq(Entry) /\ window' \in Seq(Entry) /\ sinceReset' \in Nat
  <2>1. << >> \in Seq(Entry) /\ 0 \in Nat
    OBVIOUS
  <2> QED
    BY <1>1, <1>3, <2>1, Zenon DEF HistoryTypeOK
<1>5. context' \in Seq(Nat) /\ \A i \in 1..Len(context') :
                                 i \in 1..Len(history') /\ context'[i] = history'[i].req
  <2>1. CASE Structured \/ ContextInTemplate
    <3>1. context' = [i \in 1..Len(history') |-> history'[i].req]
      BY <1>2, <2>1 DEF Rendered
    <3>2. \A i \in 1..Len(history') : history'[i] \in Entry
      BY <1>4
    <3>3. \A i \in 1..Len(history') : history'[i].req \in Nat
      BY <3>2 DEF Entry
    <3>4. Len(history') \in Nat
      BY <1>4
    <3> QED
      BY <3>1, <3>3, <3>4
  <2>2. CASE ~(Structured \/ ContextInTemplate)
    <3>1. context' = << >>
      BY <1>2, <2>2 DEF Rendered
    <3> QED
      BY <3>1
  <2> QED
    BY <2>1, <2>2
<1>6. HistoryTypeOK'
  <2>1. requests' \in Nat /\ lastFailure' \in Nat /\ open' \in BOOLEAN
    BY <1>1, <1>2 DEF HistoryTypeOK
  <2> QED
    BY <1>4, <1>5, <2>1, Zenon DEF HistoryTypeOK
<1>7. LongestKept'
  <2>1. CASE ResetDue
    <3>1. PopFront(<< >>, 0) = << >>
      BY DEF PopFront
    <3>2. history' = << >> /\ window' = << >>
      BY <1>3, <2>1
    <3>3. history' = PopFront(window', 0) /\ Fits(history')
      BY <3>1, <3>2, FitsNone
    <3> QED
      BY <3>2, <3>3 DEF LongestKept
  <2>2. CASE ~ResetDue
    BY <1>1, <1>3, <2>2 DEF LongestKept
  <2> QED
    BY <2>1, <2>2
<1>8. \A i \in 1..Len(history') :
        /\ history'[i] = history[i] /\ i \in 1..Len(history) /\ ~ResetDue
        /\ sinceReset' = sinceReset /\ history' # << >>
  BY <1>1, <1>3 DEF HistoryTypeOK
<1>9. \A i \in 1..Len(history) : history[i] \in Entry /\ history[i].req \in Nat
  <2>1. \A i \in 1..Len(history) : history[i] \in Entry
    BY <1>1 DEF HistoryTypeOK
  <2> QED
    BY <2>1 DEF Entry
<1>10. YoungIn(history)'
  <2>1. SUFFICES ASSUME NEW i \in 1..Len(history')
                 PROVE  /\ history'[i].req <= requests' /\ (open' => history'[i].req < requests')
                        /\ requests' - history'[i].req < sinceReset' + (IF open' THEN 1 ELSE 0)
    BY DEF YoungIn
  <2>2. PICK r \in Nat, q \in Nat, s \in Nat : r = history[i].req /\ q = requests /\ s = sinceReset
    BY <1>1, <1>8, <1>9 DEF HistoryTypeOK
  <2>3. history'[i].req = r /\ requests' = q + 1 /\ sinceReset' = s
    BY <1>2, <1>8, <2>2
  <2>4. r <= q /\ q - r < s
    BY <1>1, <1>2, <1>8, <2>2 DEF YoungIn
  <2> QED
    BY <1>2, <2>3, <2>4
<1>11. FailureIsPast'
  BY <1>1, <1>2 DEF FailureIsPast, HistoryTypeOK
<1>12. ErrorsIsolate'
  BY <1>1, <1>2, <1>8 DEF ErrorsIsolate
<1>13. ContextIsFresh'
  <2>1. SUFFICES ASSUME ResetPolicy = "every_n_requests", NEW i \in 1..Len(context')
                 PROVE  requests' - context'[i] < ResetInterval
    BY DEF ContextIsFresh
  <2>2. i \in 1..Len(history) /\ context'[i] = history[i].req /\ ~ResetDue /\ history # << >>
    BY <1>3, <1>5, <1>8
  <2>3. sinceReset < ResetInterval
    BY <1>1, <2>1, <2>2, HistoryAssumption DEF ResetDue, HistoryTypeOK
  <2> QED
    <3>1. history[i].req \in Nat /\ requests - history[i].req < sinceReset
      BY <1>1, <1>2, <1>9, <2>2 DEF YoungIn, HistoryTypeOK
    <3>2. requests \in Nat /\ sinceReset \in Nat /\ ResetInterval \in Nat
      BY <1>1, HistoryAssumption DEF HistoryTypeOK
    <3> QED
      BY <1>2, <2>2, <2>3, <3>1, <3>2
<1> QED
  BY <1>6, <1>7, <1>10, <1>11, <1>12, <1>13 DEF HistoryInv

LEMMA RetainKeeps ==
  ASSUME HistoryInv, open, NEW text \in Nat, NEW prompt \in Nat, Retain(text, prompt),
         open' = FALSE, UNCHANGED <<context, requests, lastFailure>>
  PROVE  HistoryInv'
<1>1. HistoryTypeOK /\ YoungIn(history) /\ FailureIsPast /\ ErrorsIsolate /\ LongestKept
  BY DEF HistoryInv
<1>2. PICK e \in Entry :
        /\ e.req = requests /\ sinceReset' = sinceReset + 1
        /\ history' = Trimmed(Append(history, e)) /\ window' = Append(window, e)
  <2>1. [req |-> requests, chars |-> EntryChars(text, prompt)] \in Entry
    BY <1>1 DEF HistoryTypeOK, Entry, EntryChars
  <2> QED
    BY <2>1 DEF Retain
<1>3. PICK h : h = Append(history, e)
  OBVIOUS
<1>4. /\ h \in Seq(Entry) /\ Len(h) = Len(history) + 1 /\ h[Len(history) + 1] = e
      /\ \A i \in 1..Len(history) : h[i] = history[i]
  BY <1>1, <1>3 DEF HistoryTypeOK
<1>5. PICK n \in 0..Len(h) :
        /\ history' = PopFront(h, n) /\ PopsEnough(h, n)
        /\ \A m \in 0..(n - 1) : ~PopsEnough(h, m)
  BY <1>2, <1>3, <1>4, TrimmedIs
<1>6. /\ history' \in Seq(Entry) /\ Len(history') = Len(h) - n
      /\ \A i \in 1..Len(history') : n + i \in 1..Len(h) /\ history'[i] = h[n + i]
  <2>1. /\ history' \in Seq(Entry) /\ Len(history') = Len(h) - n
        /\ \A i \in 1..(Len(h) - n) : history'[i] = h[n + i]
    BY <1>4, <1>5, PopFrontIs
  <2>2. Len(h) \in Nat
    BY <1>4
  <2> QED
    BY <2>1, <2>2
<1>7. HistoryTypeOK'
  <2>1. window' \in Seq(Entry) /\ sinceReset' \in Nat
    BY <1>1, <1>2 DEF HistoryTypeOK
  <2>2. open' \in BOOLEAN
    OBVIOUS
  <2> QED
    BY <1>1, <1>6, <2>1, <2>2, Zenon DEF HistoryTypeOK
<1>8. \A i \in 1..Len(h) : h[i] \in Entry /\ h[i].req \in Nat
  <2>1. \A i \in 1..Len(h) : h[i] \in Entry
    BY <1>4
  <2> QED
    BY <2>1 DEF Entry
<1>9. \A i \in 1..Len(h) :
        \/ i \in 1..Len(history) /\ h[i] = history[i] /\ h[i].req < requests
        \/ i = Len(history) + 1 /\ h[i] = e
  <2>1. Len(history) \in Nat
    BY <1>1 DEF HistoryTypeOK
  <2> QED
    BY <1>1, <1>4, <2>1 DEF YoungIn
<1>10. \A i \in 1..Len(h) : h[i].req <= requests /\ requests - h[i].req < sinceReset + 1
  <2>1. SUFFICES ASSUME NEW i \in 1..Len(h)
                 PROVE  h[i].req <= requests /\ requests - h[i].req < sinceReset + 1
    OBVIOUS
  <2>2. requests \in Nat /\ sinceReset \in Nat /\ h[i].req \in Nat
    BY <1>1, <1>8 DEF HistoryTypeOK
  <2>3. CASE i \in 1..Len(history) /\ h[i] = history[i]
    BY <1>1, <2>2, <2>3 DEF YoungIn
  <2>4. CASE h[i] = e
    BY <1>2, <2>2, <2>4
  <2> QED
    BY <1>9, <2>3, <2>4
<1>11. YoungIn(history)'
  <2>1. SUFFICES ASSUME NEW i \in 1..Len(history')
                 PROVE  /\ history'[i].req <= requests'
                        /\ requests' - history'[i].req < sinceReset'
    BY <1>1, <1>2 DEF YoungIn, HistoryTypeOK
  <2>2. n + i \in 1..Len(h) /\ history'[i] = h[n + i]
    BY <1>6
  <2> QED
    BY <1>2, <1>10, <2>2
<1>12. FailureIsPast'
  BY <1>1 DEF FailureIsPast
<1>13. ErrorsIsolate'
  <2>1. \A i, j \in 1..Len(h) : i < j => h[i].req < h[j].req
    <3>1. SUFFICES ASSUME NEW i \in 1..Len(h), NEW j \in 1..Len(h), i < j
                   PROVE  h[i].req < h[j].req
      OBVIOUS
    <3>2. Len(history) \in Nat
      BY <1>1 DEF HistoryTypeOK
    <3>3. i \in 1..Len(history) /\ h[i] = history[i] /\ h[i].req < requests
      BY <1>4, <1>9, <3>1, <3>2
    <3>4. CASE h[j] = e
      BY <1>2, <3>3, <3>4
    <3>5. CASE j \in 1..Len(history) /\ h[j] = history[j]
      BY <1>1, <3>1, <3>3, <3>5 DEF ErrorsIsolate
    <3> QED
      BY <1>9, <3>4, <3>5
  <2>2. ResetPolicy = "on_error" => \A i \in 1..Len(h) : h[i].req > lastFailure
    BY <1>1, <1>2, <1>9 DEF ErrorsIsolate, FailureIsPast
  <2>3. \A i, j \in 1..Len(history') : i < j => history'[i].req < history'[j].req
    <3>1. SUFFICES ASSUME NEW i \in 1..Len(history'), NEW j \in 1..Len(history'), i < j
                   PROVE  history'[i].req < history'[j].req
      OBVIOUS
    <3>2. /\ n + i \in 1..Len(h) /\ history'[i] = h[n + i]
          /\ n + j \in 1..Len(h) /\ history'[j] = h[n + j]
      BY <1>6
    <3>3. n + i < n + j
      BY <3>1
    <3> QED
      BY <2>1, <3>2, <3>3
  <2> QED
    BY <1>6, <2>2, <2>3 DEF ErrorsIsolate
<1>14. ContextIsFresh'
  BY DEF HistoryInv, ContextIsFresh
<1>15. LongestKept'
  <2>1. PICK k \in 0..Len(window) :
          /\ history = PopFront(window, k) /\ Fits(history)
          /\ \A m \in 0..(k - 1) : ~Fits(PopFront(window, m))
    BY <1>1 DEF LongestKept
  <2>2. PICK w : w = Append(window, e)
    OBVIOUS
  <2>3. w \in Seq(Entry) /\ Len(w) = Len(window) + 1 /\ window \in Seq(Entry) /\ w = window'
    BY <1>1, <1>2, <2>2 DEF HistoryTypeOK
  <2>4. h = PopFront(w, k) /\ Len(h) = Len(w) - k
    <3>1. PopFront(Append(window, e), k) = Append(PopFront(window, k), e)
      BY <2>3, PopFrontOfAppend
    <3>2. h = PopFront(w, k)
      BY <1>3, <2>1, <2>2, <3>1
    <3>3. k \in 0..Len(w)
      BY <2>1, <2>3
    <3> QED
      BY <2>3, <3>2, <3>3, PopFrontIs
  <2>5. history' = PopFront(w, k + n) /\ k + n \in 0..Len(w)
    <3>1. k \in 0..Len(w) /\ n \in 0..(Len(w) - k)
      BY <1>5, <2>1, <2>3, <2>4
    <3>2. PopFront(PopFront(w, k), n) = PopFront(w, k + n)
      BY <2>3, <3>1, PopFrontTwice
    <3> QED
      BY <1>5, <2>3, <2>4, <3>1, <3>2
  <2>6. Fits(history')
    <3>1. CASE n = Len(h)
      <4>1. history' = << >>
        BY <1>6, <3>1
      <4> QED
        BY <4>1, FitsNone
    <3>2. CASE n # Len(h)
      BY <1>5, <3>2 DEF PopsEnough
    <3> QED
      BY <3>1, <3>2
  <2>7. \A m \in 0..(k + n - 1) : ~Fits(PopFront(w, m))
    <3>1. SUFFICES ASSUME NEW m \in 0..(k + n - 1), Fits(PopFront(w, m)) PROVE FALSE
      OBVIOUS
    <3>2. CASE m < k
      <4>1. m \in 0..Len(window) /\ m \in 0..(k - 1)
        BY <2>1, <3>2
      <4>2. PopFront(w, m) = Append(PopFront(window, m), e)
        BY <2>2, <2>3, <4>1, PopFrontOfAppend
      <4>3. PopFront(window, m) \in Seq(Entry)
        BY <2>3, <4>1, PopFrontIs
      <4>4. Fits(PopFront(window, m))
        BY <3>1, <4>2, <4>3, FitsOfAppend
      <4> QED
        BY <2>1, <4>1, <4>4
    <3>3. CASE m >= k
      <4>1. m - k \in 0..(n - 1) /\ m - k \in 0..(Len(w) - k) /\ k + (m - k) = m /\ k \in 0..Len(w)
        BY <1>4, <1>5, <2>1, <2>3, <2>4, <3>3
      <4>2. PopFront(h, m - k) = PopFront(w, m)
        BY <2>3, <2>4, <4>1, PopFrontTwice
      <4>3. PopsEnough(h, m - k)
        BY <3>1, <4>2 DEF PopsEnough
      <4> QED
        BY <1>5, <4>1, <4>3
    <3> QED
      BY <2>1, <3>2, <3>3
  <2>8. history' = PopFront(window', k + n) /\ k + n \in 0..Len(window')
    BY <2>3, <2>5
  <2>9. \A m \in 0..(k + n - 1) : ~Fits(PopFront(window', m))
    BY <2>3, <2>7
  <2> QED
    BY <2>6, <2>8, <2>9 DEF LongestKept
<1> QED
  BY <1>7, <1>11, <1>12, <1>13, <1>14, <1>15 DEF HistoryInv

LEMMA FinishRequestKeeps ==
  ASSUME HistoryInv, NEW ok \in BOOLEAN, NEW text \in Nat, NEW prompt \in Nat,
         FinishRequest(ok, text, prompt)
  PROVE  HistoryInv'
<1>1. /\ HistoryTypeOK /\ YoungIn(history) /\ FailureIsPast /\ ErrorsIsolate /\ LongestKept
      /\ ContextIsFresh
  BY DEF HistoryInv
<1>2. /\ open /\ open' = FALSE /\ UNCHANGED <<context, requests>>
      /\ lastFailure' = IF ok THEN lastFailure ELSE requests
  BY DEF FinishRequest
<1>3. FailureIsPast' /\ lastFailure' \in Nat
  BY <1>1, <1>2 DEF FailureIsPast, HistoryTypeOK
<1>4. ContextIsFresh'
  BY <1>1, <1>2 DEF ContextIsFresh
<1>5. CASE ResetPolicy = "on_error" /\ ~ok /\ ForgetOnError
  <2>1. history' = << >> /\ window' = << >> /\ sinceReset' = 0
    BY <1>5 DEF ForgetOnError
  <2>2. HistoryTypeOK'
    <3>1. history' \in Seq(Entry) /\ window' \in Seq(Entry) /\ sinceReset' \in Nat
      BY <2>1
    <3>2. open' \in BOOLEAN
      BY <1>2
    <3> QED
      BY <1>1, <1>2, <1>3, <3>1, <3>2, Zenon DEF HistoryTypeOK
  <2>3. LongestKept'
    <3>1. PopFront(<< >>, 0) = << >>
      BY DEF PopFront
    <3>2. history' = PopFront(window', 0) /\ Fits(history')
      BY <2>1, <3>1, FitsNone
    <3> QED
      BY <2>1, <3>2 DEF LongestKept
  <2>4. YoungIn(history)' /\ ErrorsIsolate'
    BY <2>1 DEF YoungIn, ErrorsIsolate
  <2> QED
    BY <1>3, <1>4, <2>2, <2>3, <2>4 DEF HistoryInv
<1>6. CASE ok /\ text > 0 /\ MaxEntries > 0 /\ Retain(text, prompt)
  BY <1>2, <1>6, RetainKeeps
<1>7. CASE /\ ResetPolicy = "on_error" => ok
           /\ ~ok \/ text = 0 \/ MaxEntries = 0
           /\ sinceReset' = sinceReset + 1
           /\ UNCHANGED <<history, window>>
  <2>1. HistoryTypeOK'
    <3>1. sinceReset' \in Nat
      BY <1>1, <1>7 DEF HistoryTypeOK
    <3>2. open' \in BOOLEAN
      BY <1>2
    <3> QED
      BY <1>1, <1>2, <1>3, <1>7, <3>1, <3>2, Zenon DEF HistoryTypeOK
  <2>2. LongestKept'
    BY <1>1, <1>7 DEF LongestKept
  <2>3. YoungIn(history)'
    BY <1>1, <1>2, <1>7 DEF YoungIn, HistoryTypeOK
  <2>4. ErrorsIsolate'
    BY <1>1, <1>2, <1>7 DEF ErrorsIsolate
  <2> QED
    BY <1>3, <1>4, <2>1, <2>2, <2>3, <2>4 DEF HistoryInv
<1> QED
  BY <1>5, <1>6, <1>7 DEF FinishRequest

LEMMA HistoryInitInv == HistoryInit => HistoryInv
<1> SUFFICES ASSUME HistoryInit PROVE HistoryInv
  OBVIOUS
<1>1. history = << >> /\ window = << >> /\ context = << >>
  BY DEF HistoryInit
<1>2. PopFront(<< >>, 0) = << >>
  BY DEF PopFront
<1>3. LongestKept
  BY <1>1, <1>2, FitsNone DEF LongestKept
<1>4. HistoryTypeOK
  <2>1. /\ history \in Seq(Entry) /\ window \in Seq(Entry) /\ context \in Seq(Nat)
        /\ open \in BOOLEAN
    <3>1. << >> \in Seq(Entry) /\ << >> \in Seq(Nat)
      OBVIOUS
    <3>2. open \in BOOLEAN
      BY DEF HistoryInit
    <3> QED
      BY <1>1, <3>1, <3>2, Zenon
  <2> QED
    BY <2>1 DEF HistoryInit, HistoryTypeOK
<1>5. YoungIn(history) /\ ErrorsIsolate /\ ContextIsFresh
  BY <1>1 DEF YoungIn, ErrorsIsolate, ContextIsFresh
<1>6. FailureIsPast
  BY DEF HistoryInit, FailureIsPast
<1> QED
  BY <1>3, <1>4, <1>5, <1>6 DEF HistoryInv

LEMMA LongestIsExact == HistoryInv => HistoryIsExact
<1> SUFFICES ASSUME HistoryInv PROVE HistoryIsLongestSuffix
  BY DEF HistoryInv, HistoryIsExact
<1>1. PICK n \in 0..Len(window) :
        /\ history = PopFront(window, n) /\ Fits(history)
        /\ \A m \in 0..(n - 1) : ~Fits(PopFront(window, m))
  BY DEF HistoryInv, LongestKept
<1>2. window \in Seq(Entry)
  BY DEF HistoryInv, HistoryTypeOK
<1>3. ASSUME NEW m \in 0..Len(window), Fits(PopFront(window, m))
      PROVE  Len(PopFront(window, m)) <= Len(history)
  <2>1. m >= n
    BY <1>1, <1>3
  <2>2. Len(history) = Len(window) - n /\ Len(PopFront(window, m)) = Len(window) - m
    BY <1>1, <1>2, PopFrontIs
  <2>3. Len(window) \in Nat
    BY <1>2
  <2> QED
    BY <1>1, <2>1, <2>2, <2>3
<1> QED
  BY <1>1, <1>3 DEF HistoryIsLongestSuffix

(* The history is touched by the worker alone, in two of its steps.          *)
LEMMA HistoryMoves ==
  ASSUME [Next]_vars
  PROVE  \/ UNCHANGED historyVars
         \/ BeginRequest
         \/ \E ok \in BOOLEAN, text \in TextSizes \cup {0}, prompt \in PromptSizes :
              FinishRequest(ok, text, prompt)
<1>1. CASE WorkerStep
  <2>1. CASE WorkerConverts \/ WorkerConversionFails
    BY <2>1 DEF WorkerConverts, WorkerConversionFails
  <2>2. CASE WorkerReportsConversion
    BY <2>2 DEF WorkerReportsConversion
  <2>3. ASSUME NEW ok \in BOOLEAN, NEW text \in TextSizes, WorkerInfers(ok, text)
        PROVE  \E prompt \in PromptSizes : FinishRequest(ok, text, prompt)
    BY <2>3 DEF WorkerInfers
  <2>4. CASE \/ BackendInitialized \/ BackendInitFails \/ WorkerExits \/ WorkerThrottled
             \/ WorkerThrottleEnds \/ WorkerDequeues \/ WorkerReleases
    BY <2>4, Zenon
       DEF BackendInitialized, BackendInitFails, WorkerExits, WorkerThrottled,
           WorkerThrottleEnds, WorkerDequeues, WorkerReleases
  <2> QED
    BY <1>1, <2>1, <2>2, <2>3, <2>4 DEF WorkerStep
<1>2. CASE OwnerStep
  BY <1>2, Zenon
     DEF OwnerStep, StartWorkerReturns, StartWorkerThrows, StopWorker, WorkerJoined
<1>3. CASE CallbackStep
  BY <1>3, Zenon
     DEF CallbackStep, ImageTooSoon, ImageSampled, ObservationTooSoon, ObservationSeen,
         ObservationSampled, ObservationDelivered, Delivered
<1>4. CASE ClockStep
  BY <1>4, Zenon DEF ClockStep, ClockTicks, ClockSetBack
<1>5. CASE UNCHANGED vars
  BY <1>5, Zenon DEF vars
<1> QED
  BY <1>1, <1>2, <1>3, <1>4, <1>5 DEF Next, Gone

LEMMA HistoryStep == HistoryInv /\ [Next]_vars => HistoryInv'
<1> SUFFICES ASSUME HistoryInv, [Next]_vars PROVE HistoryInv'
  OBVIOUS
<1>1. CASE UNCHANGED historyVars
  BY <1>1
     DEF historyVars, HistoryInv, HistoryTypeOK, LongestKept, YoungIn, FailureIsPast,
         ErrorsIsolate, ContextIsFresh
<1>2. CASE BeginRequest
  BY <1>2, BeginRequestKeeps
<1>3. ASSUME NEW ok \in BOOLEAN, NEW text \in TextSizes \cup {0}, NEW prompt \in PromptSizes,
             FinishRequest(ok, text, prompt)
      PROVE  HistoryInv'
  <2>1. text \in Nat /\ prompt \in Nat
    BY HistoryAssumption
  <2> QED
    BY <1>3, <2>1, FinishRequestKeeps
<1> QED
  BY <1>1, <1>2, <1>3, HistoryMoves

(* What the node remembers is the longest suffix of what was answered since  *)
(* the last reset that is within both limits, in order, and nothing from     *)
(* before an error that resets it: for all sizes, limits and policies.       *)
THEOREM HistoryIsExactHolds == Spec => []HistoryIsExact
<1>1. NodeInit => HistoryInv
  BY HistoryInitInv DEF NodeInit
<1> QED
  BY <1>1, HistoryStep, LongestIsExact, PTL DEF Spec

(* With a reset at every N requests no prompt carries an answer of N or more *)
(* requests ago, for every N.                                                *)
THEOREM ContextIsFreshHolds == Spec => []ContextIsFresh
<1>1. NodeInit => HistoryInv
  BY HistoryInitInv DEF NodeInit
<1>2. HistoryInv => ContextIsFresh
  BY DEF HistoryInv
<1> QED
  BY <1>1, <1>2, HistoryStep, PTL DEF Spec

-----------------------------------------------------------------------------
(* Overlaps are fractions, which are compared by multiplying crosswise.      *)
Fraction == [num: Nat, den: Nat \ {0}]

LEMMA ProductOfNaturals ==
  ASSUME NEW x \in Nat, NEW y \in Nat
  PROVE  x * y \in Nat
  OBVIOUS

LEMMA ProductGrows ==
  ASSUME NEW x \in Nat, NEW y \in Nat, NEW z \in Nat, x <= y
  PROVE  x * z <= y * z
  OBVIOUS

LEMMA ProductGrowsStrictly ==
  ASSUME NEW x \in Nat, NEW y \in Nat, NEW z \in Nat \ {0}
  PROVE  x < y <=> x * z < y * z
  OBVIOUS

(* What is above something is above all that is not.                         *)
LEMMA AboveThrough ==
  ASSUME NEW a \in Fraction, NEW b \in Fraction, NEW c \in Fraction, Above(a, b), ~Above(c, b)
  PROVE  Above(a, c)
<1>1. PICK an \in Nat, ad \in Nat \ {0} : an = a.num /\ ad = a.den
  BY DEF Fraction
<1>2. PICK bn \in Nat, bd \in Nat \ {0} : bn = b.num /\ bd = b.den
  BY DEF Fraction
<1>3. PICK cn \in Nat, cd \in Nat \ {0} : cn = c.num /\ cd = c.den
  BY DEF Fraction
<1>4. bn * ad < an * bd /\ cn * bd <= bn * cd
  BY <1>1, <1>2, <1>3 DEF Above
<1>5. (bn * ad) * cd < (an * bd) * cd
  BY <1>4, ProductOfNaturals, ProductGrowsStrictly
<1>6. (cn * bd) * ad <= (bn * cd) * ad
  BY <1>4, ProductOfNaturals, ProductGrows
<1>7. (cn * ad) * bd < (an * cd) * bd
  BY <1>5, <1>6
<1>8. cn * ad < an * cd
  BY <1>7, ProductOfNaturals, ProductGrowsStrictly
<1> QED
  BY <1>1, <1>3, <1>8 DEF Above

(* Two intervals share no more than one of them has, so that a union is no   *)
(* less than nothing and an overlap is a fraction.                           *)
LEMMA SharedIsWithin ==
  ASSUME NEW c \in Int, NEW l \in Nat, NEW d \in Int, NEW m \in Nat
  PROVE  Shared(c, l, d, m) \in Nat /\ Shared(c, l, d, m) <= 2 * l
<1>1. Shared(c, l, d, m) \in {0, 2 * c + l - (2 * c - l), 2 * d + m - (2 * c - l),
                              2 * c + l - (2 * d - m), 2 * d + m - (2 * d - m)}
  BY DEF Shared, Larger, Smaller
<1> QED
  BY DEF Shared, Larger, Smaller

LEMMA IouIsFraction ==
  ASSUME NEW a \in Box, NEW b \in Box
  PROVE  Iou(a, b) \in Fraction
<1>1. PICK ax \in Int, ay \in Int, aw \in Nat, ah \in Nat :
        ax = a.x /\ ay = a.y /\ aw = a.w /\ ah = a.h
  BY DEF Box
<1>2. PICK bx \in Int, by \in Int, bw \in Nat, bh \in Nat :
        bx = b.x /\ by = b.y /\ bw = b.w /\ bh = b.h
  BY DEF Box
<1>3. PICK s \in Nat : s = Shared(ax, aw, bx, bw) /\ s <= 2 * aw
  BY SharedIsWithin
<1>4. PICK r \in Nat : r = Shared(ay, ah, by, bh) /\ r <= 2 * ah
  BY SharedIsWithin
<1>5. PICK i \in Nat : i = s * r
  BY ProductOfNaturals
<1>6. i <= 4 * aw * ah
  <2>1. s * r <= (2 * aw) * r
    BY <1>3, ProductGrows
  <2>2. r * (2 * aw) <= (2 * ah) * (2 * aw)
    BY <1>4, ProductGrows
  <2> QED
    BY <1>5, <2>1, <2>2
<1>7. PICK u \in Int : u = 4 * aw * ah + 4 * bw * bh - i
  BY ProductOfNaturals
<1>8. u \in Nat
  <2>1. 4 * bw * bh \in Nat
    BY ProductOfNaturals
  <2> QED
    BY <1>6, <1>7, <2>1
<1>9. Iou(a, b) = IF u = 0 THEN [num |-> 0, den |-> 1] ELSE [num |-> i, den |-> u]
  BY <1>1, <1>2, <1>3, <1>4, <1>5, <1>7 DEF Iou
<1> QED
  BY <1>8, <1>9 DEF Fraction

Track == [id: Nat, box: Box, vx: Int, vy: Int, age: Nat, coast: Nat]

LEMMA PredictedIsBox ==
  ASSUME NEW t \in Track
  PROVE  Predicted(t) \in Box
<1>1. t.box \in Box /\ t.vx \in Int /\ t.vy \in Int
  BY DEF Track
<1>2. PICK x \in Int, y \in Int : x = t.box.x + t.vx /\ y = t.box.y + t.vy
  BY <1>1 DEF Box
<1>3. Predicted(t) = [t.box EXCEPT !.x = x, !.y = y]
  BY <1>2 DEF Predicted
<1> QED
  BY <1>1, <1>3 DEF Box

(* Some candidate is the best: there is no least number of detections among  *)
(* the first of which none would be.                                         *)
LEMMA BestIsCandidate ==
  ASSUME NEW t \in Track, NEW dets \in Seq(Box), NEW C, C \subseteq 1..Len(dets), C # {}
  PROVE  Best(t, dets, C) \in C
<1> DEFINE Score(i) == Iou(Predicted(t), dets[i])
           First(i, D) == \A j \in D : IF j < i THEN Above(Score(i), Score(j))
                                                ELSE AtLeast(Score(i), Score(j))
           UpTo(n) == C \cap (1..n)
           T == { n \in 0..Len(dets) : UpTo(n) # {} /\ ~\E i \in UpTo(n) : First(i, UpTo(n)) }
<1>1. \A i \in 1..Len(dets) : Score(i) \in Fraction
  BY PredictedIsBox, IouIsFraction
<1>0. ASSUME NEW n \in 0..Len(dets)
      PROVE  UpTo(n) \subseteq C /\ \A i \in C : i \in UpTo(n) <=> i <= n
  OBVIOUS
<1>2. T = {}
  <2> SUFFICES ASSUME T # {} PROVE FALSE
    OBVIOUS
  <2>1. PICK n \in T : \A m \in T : n <= m
    <3>1. T \subseteq Nat
      OBVIOUS
    <3> HIDE DEF T
    <3> QED
      BY <3>1, LeastOf
  <2>2. n \in 1..Len(dets) /\ n - 1 \in 0..Len(dets)
    BY <2>1
  <2>3. UpTo(n) # {} /\ ~\E i \in UpTo(n) : First(i, UpTo(n))
    BY <2>1
  <2>4. UpTo(n - 1) # {} => \E i \in UpTo(n - 1) : First(i, UpTo(n - 1))
    <3>1. n - 1 \notin T
      <4> HIDE DEF T
      <4>1. ~(n <= n - 1)
        BY <2>2
      <4> QED
        BY <2>1, <4>1, Zenon
    <3> QED
      BY <2>2, <3>1
  <2> HIDE DEF T, UpTo
  <2>5. \A i \in C : i \in UpTo(n) <=> i \in UpTo(n - 1) \/ i = n
    <3>1. \A i \in C : i \in UpTo(n) <=> i <= n
      BY <1>0, <2>2
    <3>2. \A i \in C : i \in UpTo(n - 1) <=> i <= n - 1
      BY <1>0, <2>2
    <3>3. \A i \in C : i <= n <=> i <= n - 1 \/ i = n
      BY <2>2
    <3> QED
      BY <3>1, <3>2, <3>3
  <2>14. UpTo(n) \subseteq C /\ UpTo(n - 1) \subseteq C
    BY <1>0, <2>2
  <2>6. \A i \in UpTo(n - 1) : i \in 1..Len(dets) /\ i < n
    <3>1. \A i \in C : i \in UpTo(n - 1) <=> i <= n - 1
      BY <1>0, <2>2
    <3>2. \A i \in C : i \in 1..Len(dets) /\ (i <= n - 1 => i < n)
      BY <2>2
    <3> QED
      BY <2>14, <3>1, <3>2
  <2>7. n \in C
    <3>1. CASE n \notin C
      <4>1. UpTo(n) = UpTo(n - 1)
        BY <2>5, <2>14, <3>1
      <4> QED
        BY <2>3, <2>4, <4>1, Zenon
    <3> QED
      BY <3>1
  <2>8. AtLeast(Score(n), Score(n))
    <3>1. \A f \in Fraction : ~Above(f, f)
      BY DEF Above, Fraction
    <3> QED
      BY <1>1, <2>2, <3>1 DEF AtLeast
  <2>9. UpTo(n - 1) # {}
    <3>1. CASE UpTo(n - 1) = {}
      <4>1. n \in UpTo(n) /\ \A j \in UpTo(n) : j = n
        BY <2>5, <2>14, <2>7, <3>1
      <4>2. ~(n < n)
        BY <2>2
      <4>3. First(n, UpTo(n))
        BY <2>8, <4>1, <4>2
      <4> QED
        BY <2>3, <4>1, <4>3
    <3> QED
      BY <3>1
  <2>10. PICK b \in UpTo(n - 1) : First(b, UpTo(n - 1))
    BY <2>4, <2>9
  <2>11. b \in 1..Len(dets) /\ b < n /\ b \in UpTo(n) /\ n \in UpTo(n)
    BY <2>5, <2>14, <2>6, <2>7
  <2>12. CASE Above(Score(n), Score(b))
    <3>1. ASSUME NEW j \in UpTo(n - 1) PROVE Above(Score(n), Score(j))
      <4>1. j \in 1..Len(dets)
        BY <2>6
      <4>2. Above(Score(b), Score(j)) \/ ~Above(Score(j), Score(b))
        BY <2>10 DEF AtLeast
      <4>3. ~Above(Score(j), Score(b))
        <5>1. \A f, g \in Fraction : Above(f, g) => ~Above(g, f)
          BY DEF Above, Fraction
        <5> QED
          BY <1>1, <2>11, <4>1, <4>2, <5>1
      <4> QED
        BY <1>1, <2>2, <2>11, <2>12, <4>1, <4>3, AboveThrough
    <3>2. ASSUME NEW j \in UpTo(n)
          PROVE  IF j < n THEN Above(Score(n), Score(j)) ELSE AtLeast(Score(n), Score(j))
      <4>1. CASE j \in UpTo(n - 1)
        BY <2>6, <3>1, <4>1
      <4>2. CASE j = n
        <5>1. ~(n < n)
          BY <2>2
        <5> QED
          BY <2>8, <4>2, <5>1
      <4> QED
        BY <2>5, <2>14, <4>1, <4>2
    <3>3. First(n, UpTo(n))
      BY <3>2
    <3> QED
      BY <2>3, <2>11, <3>3
  <2>13. CASE ~Above(Score(n), Score(b))
    <3>1. ASSUME NEW j \in UpTo(n)
          PROVE  IF j < b THEN Above(Score(b), Score(j)) ELSE AtLeast(Score(b), Score(j))
      <4>1. CASE j \in UpTo(n - 1)
        BY <2>10, <4>1
      <4>2. CASE j = n
        <5>1. ~(n < b)
          BY <2>2, <2>11
        <5> QED
          BY <2>13, <4>2, <5>1 DEF AtLeast
      <4> QED
        BY <2>5, <2>14, <4>1, <4>2
    <3>2. First(b, UpTo(n))
      BY <3>1
    <3> QED
      BY <2>3, <2>11, <3>2
  <2> QED
    BY <2>12, <2>13
<1>3. UpTo(Len(dets)) = C
  OBVIOUS
<1>4. \E i \in C : First(i, C)
  <2>1. Len(dets) \in 0..Len(dets)
    OBVIOUS
  <2> HIDE DEF UpTo, First
  <2> QED
    BY <1>2, <1>3, <2>1
<1>5. Best(t, dets, C) = CHOOSE i \in C : First(i, C)
  BY DEF Best
<1> QED
  <2> HIDE DEF First
  <2> QED
    BY <1>4, <1>5

-----------------------------------------------------------------------------
(* Claims: each detection that is not free any more is that of one track.    *)
Claimed(f, dets, free, ts) ==
  /\ f \in [(1..Len(dets)) \ free -> 1..Len(ts)]
  /\ \A k \in (1..Len(dets)) \ free : ts[f[k]].coast = 0 /\ ts[f[k]].box = dets[k]
  /\ \A k, l \in (1..Len(dets)) \ free : f[k] = f[l] => k = l
  /\ \A p \in 1..Len(ts) : ts[p].coast = 0 => \E k \in (1..Len(dets)) \ free : f[k] = p

(* A track that claims a free detection, or begins with it, takes its place  *)
(* among the claims; one that coasts leaves them as they are.                *)
LEMMA ClaimOne ==
  ASSUME NEW dets \in Seq(Box), NEW free, free \subseteq 1..Len(dets), NEW ts \in Seq(Track),
         NEW f, Claimed(f, dets, free, ts), NEW k \in free,
         NEW u \in Track, u.coast = 0, u.box = dets[k]
  PROVE  \E g : Claimed(g, dets, free \ {k}, Append(ts, u))
<1> DEFINE D == (1..Len(dets)) \ free
           E == (1..Len(dets)) \ (free \ {k})
           us == Append(ts, u)
           g == [j \in E |-> IF j = k THEN Len(ts) + 1 ELSE f[j]]
<1>1. Len(us) = Len(ts) + 1 /\ us[Len(ts) + 1] = u /\ \A p \in 1..Len(ts) : us[p] = ts[p]
  BY AppendProperties
<1>2. E = D \cup {k} /\ k \notin D
  OBVIOUS
<1>3. f \in [D -> 1..Len(ts)]
  BY DEF Claimed
<1>4. g[k] = Len(ts) + 1 /\ \A j \in D : g[j] = f[j] /\ f[j] \in 1..Len(ts)
  BY <1>2, <1>3
<1>5. Len(ts) \in Nat
  OBVIOUS
<1>6. g \in [E -> 1..Len(us)]
  <2>1. (\A p \in 1..Len(ts) : p \in 1..Len(us)) /\ Len(ts) + 1 \in 1..Len(us)
    BY <1>1, <1>5
  <2>2. \A j \in E : g[j] \in 1..Len(us)
    <3> HIDE DEF g, E, D, us
    <3> QED
      BY <1>2, <1>4, <2>1
  <2> QED
    BY <2>2
<1> HIDE DEF g, D, E, us
<1>7. \A j \in E : us[g[j]].coast = 0 /\ us[g[j]].box = dets[j]
  <2>1. \A j \in D : ts[f[j]].coast = 0 /\ ts[f[j]].box = dets[j]
    BY DEF Claimed, D
  <2> QED
    BY <1>1, <1>2, <1>4, <2>1
<1>8. \A i, j \in E : g[i] = g[j] => i = j
  <2>1. \A i, j \in D : f[i] = f[j] => i = j
    BY DEF Claimed, D
  <2>2. \A p \in 1..Len(ts) : p # Len(ts) + 1
    BY <1>5
  <2> QED
    BY <1>2, <1>4, <2>1, <2>2
<1>9. \A p \in 1..Len(us) : us[p].coast = 0 => \E j \in E : g[j] = p
  <2>1. \A p \in 1..Len(ts) : ts[p].coast = 0 => \E j \in D : f[j] = p
    BY DEF Claimed, D
  <2>2. \A p \in 1..Len(us) : p \in 1..Len(ts) \/ p = Len(ts) + 1
    BY <1>1, <1>5
  <2> QED
    BY <1>1, <1>2, <1>4, <2>1, <2>2
<1>10. (1..Len(dets)) \ (free \ {k}) = E
  BY DEF E
<1>11. Claimed(g, dets, free \ {k}, us)
  BY <1>6, <1>7, <1>8, <1>9, <1>10, Zenon DEF Claimed
<1> QED
  BY <1>11 DEF us

LEMMA ClaimNone ==
  ASSUME NEW dets \in Seq(Box), NEW free, NEW ts \in Seq(Track),
         NEW f, Claimed(f, dets, free, ts), NEW u \in Track, u.coast # 0
  PROVE  Claimed(f, dets, free, Append(ts, u))
<1> DEFINE D == (1..Len(dets)) \ free
           us == Append(ts, u)
<1>1. Len(us) = Len(ts) + 1 /\ us[Len(ts) + 1] = u /\ \A p \in 1..Len(ts) : us[p] = ts[p]
  BY AppendProperties
<1>2. Len(ts) \in Nat
  OBVIOUS
<1> HIDE DEF us
<1>3. f \in [D -> 1..Len(ts)]
  BY DEF Claimed
<1>4. f \in [D -> 1..Len(us)]
  BY <1>1, <1>2, <1>3
<1>5. \A k \in D : us[f[k]].coast = 0 /\ us[f[k]].box = dets[k]
  BY <1>1, <1>3 DEF Claimed
<1>6. \A p \in 1..Len(us) : us[p].coast = 0 => \E k \in D : f[k] = p
  <2>1. \A p \in 1..Len(ts) : ts[p].coast = 0 => \E j \in D : f[j] = p
    BY DEF Claimed
  <2>2. \A p \in 1..Len(us) : p \in 1..Len(ts) \/ p = Len(ts) + 1
    BY <1>1, <1>2
  <2> QED
    BY <1>1, <2>1, <2>2
<1> QED
  BY <1>4, <1>5, <1>6 DEF Claimed, us

(* When nothing is free, claims are one to one from the detections to the    *)
(* tracks that do not coast.                                                 *)
LEMMA ClaimsCount ==
  ASSUME NEW dets \in Seq(Box), NEW ts \in Seq(Track), NEW f, Claimed(f, dets, {}, ts)
  PROVE  LET updated == { p \in 1..Len(ts) : ts[p].coast = 0 }
         IN  /\ Cardinality(updated) = Len(dets)
             /\ \A d : Cardinality({ i \in 1..Len(dets) : dets[i] = d })
                         = Cardinality({ p \in updated : ts[p].box = d })
<1> DEFINE D == 1..Len(dets)
           U == { p \in 1..Len(ts) : ts[p].coast = 0 }
<1>1. IsFiniteSet(D) /\ Cardinality(D) = Len(dets)
  BY FS_Interval
<1>2. /\ \A k \in D : f[k] \in U /\ ts[f[k]].box = dets[k]
      /\ \A k, l \in D : f[k] = f[l] => k = l
      /\ \A p \in U : \E k \in D : f[k] = p
      /\ f \in [D -> U]
  BY DEF Claimed
<1> HIDE DEF D, U
<1>3. Cardinality(U) = Cardinality(D)
  <2>1. f \in Bijection(D, U)
    BY <1>2 DEF Bijection, Injection, Surjection, IsInjective
  <2> QED
    BY <1>1, <2>1, FS_Bijection, Fun_ExistsBij
<1>4. ASSUME NEW d
      PROVE  Cardinality({ i \in D : dets[i] = d }) = Cardinality({ p \in U : ts[p].box = d })
  <2> DEFINE C == { i \in D : dets[i] = d }
             V == { p \in U : ts[p].box = d }
             g == [i \in C |-> f[i]]
  <2>1. IsFiniteSet(C)
    BY <1>1, FS_Subset
  <2>2. g \in Bijection(C, V)
    <3>1. \A i \in C : g[i] = f[i] /\ g[i] \in V
      BY <1>2
    <3>2. \A i, j \in C : g[i] = g[j] => i = j
      BY <1>2
    <3>3. \A p \in V : \E i \in C : g[i] = p
      BY <1>2
    <3>4. g \in [C -> V]
      BY <3>1
    <3> HIDE DEF g, C, V
    <3> QED
      BY <3>2, <3>3, <3>4 DEF Bijection, Injection, Surjection, IsInjective
  <2> HIDE DEF g, C, V
  <2>3. Cardinality(C) = Cardinality(V)
    BY <2>1, <2>2, FS_Bijection, Fun_ExistsBij
  <2> QED
    BY <2>3 DEF C, V
<1> QED
  BY <1>1, <1>3, <1>4 DEF D, U

-----------------------------------------------------------------------------
(* What is known after n rounds of an update of the tracks old.              *)
Acc(dets) == [kept: Seq(Track), free: SUBSET (1..Len(dets)), nextId: Nat]

IdsIncrease(ts) == \A p, q \in 1..Len(ts) : p < q => ts[p].id < ts[q].id

NumbersOK(old, n, a) ==
  /\ IdsIncrease(a.kept)
  /\ \A p \in 1..Len(a.kept) : a.kept[p].id < a.nextId /\ a.kept[p].coast <= MaxCoastAge
  /\ \A j \in 1..Len(old) : old[j].id < a.nextId
  /\ \A p \in 1..Len(a.kept), j \in 1..Len(old) : n < j => a.kept[p].id < old[j].id

ClassesOK(old, a) ==
  ClassAware =>
    \A p \in 1..Len(a.kept), j \in 1..Len(old) :
      a.kept[p].id = old[j].id => a.kept[p].box.label = old[j].box.label

(* The k-th detection went to one of the first n tracks.                     *)
Taken(old, dets, k, n, a) ==
  \E i \in 1..n, p \in 1..Len(a.kept) :
    a.kept[p].id = old[i].id /\ a.kept[p].coast = 0 /\ a.kept[p].box = dets[k]

Fate(old, dets, j, a) ==
  \/ \E p \in 1..Len(a.kept) : a.kept[p].id = old[j].id /\ a.kept[p].coast = 0
  \/ /\ \A k \in Candidates(old[j], dets, 1..Len(dets)) : Taken(old, dets, k, j - 1, a)
     /\ \/ old[j].coast = MaxCoastAge
        \/ \E p \in 1..Len(a.kept) : a.kept[p].id = old[j].id

RoundOK(old, dets, n, a) ==
  /\ a \in Acc(dets)
  /\ NumbersOK(old, n, a) /\ ClassesOK(old, a)
  /\ \E f : Claimed(f, dets, a.free, a.kept)
  /\ n <= Len(old) => \A k \in (1..Len(dets)) \ a.free : Taken(old, dets, k, n, a)
  /\ \A j \in 1..Len(old) : j <= n => Fate(old, dets, j, a)
  /\ \A k \in 1..Len(dets) : k <= n - Len(old) => k \notin a.free

(* What the tracks are between two updates.                                  *)
TracksOK(ts, next) ==
  /\ ts \in Seq(Track) /\ next \in Nat
  /\ IdsIncrease(ts)
  /\ \A p \in 1..Len(ts) : ts[p].id < next /\ ts[p].coast <= MaxCoastAge

(* What was taken stays so, since tracks are only added.                     *)
Extends(a, b) ==
  /\ Len(a.kept) <= Len(b.kept)
  /\ \A p \in 1..Len(a.kept) : b.kept[p] = a.kept[p]

(* What became of a track, and who took a detection, is not changed by       *)
(* tracks that are added.                                                    *)
LEMMA FatesStay ==
  ASSUME NEW old \in Seq(Track), NEW dets \in Seq(Box), NEW a \in Acc(dets), NEW b \in Acc(dets),
         Extends(a, b)
  PROVE  /\ \A k, m \in Int, n \in Int : m <= n /\ Taken(old, dets, k, m, a) => Taken(old, dets, k, n, b)
         /\ \A j \in 1..Len(old) : Fate(old, dets, j, a) => Fate(old, dets, j, b)
<1>1. \A p \in 1..Len(a.kept) : p \in 1..Len(b.kept) /\ b.kept[p] = a.kept[p]
  BY DEF Extends, Acc
<1>2. ASSUME NEW k \in Int, NEW m \in Int, NEW n \in Int, m <= n, Taken(old, dets, k, m, a)
      PROVE  Taken(old, dets, k, n, b)
  <2>1. \A i \in 1..m : i \in 1..n
    BY <1>2
  <2> QED
    BY <1>1, <1>2, <2>1 DEF Taken
<1>3. ASSUME NEW j \in 1..Len(old), Fate(old, dets, j, a) PROVE Fate(old, dets, j, b)
  <2>1. CASE \E p \in 1..Len(a.kept) : a.kept[p].id = old[j].id /\ a.kept[p].coast = 0
    BY <1>1, <2>1 DEF Fate
  <2>2. CASE /\ \A k \in Candidates(old[j], dets, 1..Len(dets)) : Taken(old, dets, k, j - 1, a)
             /\ \/ old[j].coast = MaxCoastAge
                \/ \E p \in 1..Len(a.kept) : a.kept[p].id = old[j].id
    <3>1. \A k \in Candidates(old[j], dets, 1..Len(dets)) : Taken(old, dets, k, j - 1, b)
      <4>1. \A k \in Candidates(old[j], dets, 1..Len(dets)) : k \in Int
        BY DEF Candidates
      <4>2. j - 1 \in Int /\ j - 1 <= j - 1
        OBVIOUS
      <4> QED
        BY <1>2, <2>2, <4>1, <4>2
    <3> QED
      BY <1>1, <2>2, <3>1 DEF Fate
  <2> QED
    BY <1>3, <2>1, <2>2 DEF Fate
<1> QED
  BY <1>2, <1>3

(* What the three ways to make a track give.                                 *)
LEMMA MatchedIs ==
  ASSUME NEW t \in Track, NEW d \in Box
  PROVE  /\ Matched(t, d) \in Track
         /\ Matched(t, d).id = t.id /\ Matched(t, d).box = d /\ Matched(t, d).coast = 0
<1>1. t.box \in Box /\ t.age \in Nat
  BY DEF Track
<1>2. PICK x \in Int, y \in Int, m \in Nat :
        x = d.x - t.box.x /\ y = d.y - t.box.y /\ m = t.age + 1
  BY <1>1 DEF Box
<1>3. PICK u : u = [t EXCEPT !.vx = x, !.vy = y, !.box = d, !.age = m, !.coast = 0]
  OBVIOUS
<1>4. Matched(t, d) = u
  BY <1>2, <1>3 DEF Matched
<1>5. u \in Track
  BY <1>3 DEF Track
<1>6. u.id = t.id /\ u.box = d /\ u.coast = 0
  BY <1>3 DEF Track
<1> QED
  BY <1>4, <1>5, <1>6

LEMMA CoastedIs ==
  ASSUME NEW t \in Track
  PROVE  /\ Coasted(t) \in Track
         /\ Coasted(t).id = t.id /\ Coasted(t).coast = t.coast + 1
         /\ Coasted(t).box.label = t.box.label
<1>1. t.box \in Box /\ t.age \in Nat /\ t.coast \in Nat
  BY DEF Track
<1>2. PICK m \in Nat, c \in Nat, d \in Box :
        m = t.age + 1 /\ c = t.coast + 1 /\ d = Predicted(t)
  BY <1>1, PredictedIsBox
<1>3. PICK u : u = [t EXCEPT !.box = d, !.age = m, !.coast = c]
  OBVIOUS
<1>4. Coasted(t) = u
  BY <1>2, <1>3 DEF Coasted
<1>5. u \in Track
  BY <1>3 DEF Track
<1>6. u.id = t.id /\ u.box = d /\ u.coast = c
  BY <1>3 DEF Track
<1>7. d.label = t.box.label
  BY <1>1, <1>2 DEF Predicted, Box
<1> QED
  BY <1>2, <1>4, <1>5, <1>6, <1>7

LEMMA CreatedIs ==
  ASSUME NEW id \in Nat, NEW d \in Box
  PROVE  /\ Created(id, d) \in Track
         /\ Created(id, d).id = id /\ Created(id, d).box = d /\ Created(id, d).coast = 0
  BY DEF Created, Track

LEMMA AccFields ==
  ASSUME NEW dets \in Seq(Box), NEW a \in Acc(dets)
  PROVE  /\ a.kept \in Seq(Track) /\ a.free \subseteq 1..Len(dets) /\ a.nextId \in Nat
         /\ Len(a.kept) \in Nat
  BY DEF Acc

(* The three outcomes of a round.                                            *)
LEMMA AssociateIs ==
  ASSUME NEW dets \in Seq(Box), NEW a \in Acc(dets), NEW t \in Track
  PROVE  \E b \in Acc(dets) :
           /\ b = Associate(dets, a, t) /\ b.nextId = a.nextId
           /\ \/ \E k \in Candidates(t, dets, a.free) :
                   b.kept = Append(a.kept, Matched(t, dets[k])) /\ b.free = a.free \ {k}
              \/ /\ Candidates(t, dets, a.free) = {} /\ t.coast < MaxCoastAge
                 /\ b.kept = Append(a.kept, Coasted(t)) /\ b.free = a.free
              \/ Candidates(t, dets, a.free) = {} /\ ~(t.coast < MaxCoastAge) /\ b = a
<1> DEFINE C == Candidates(t, dets, a.free)
           best == Best(t, dets, C)
<1>0. a.kept \in Seq(Track) /\ a.free \subseteq 1..Len(dets) /\ a.nextId \in Nat
  BY AccFields
<1>1. C \subseteq a.free
  BY DEF Candidates
<1> HIDE DEF C, best
<1>2. CASE C # {}
  <2>1. best \in C
    BY <1>0, <1>1, <1>2, BestIsCandidate DEF best
  <2>2. PICK u \in Track : u = Matched(t, dets[best])
    <3>1. dets[best] \in Box
      BY <1>0, <1>1, <2>1
    <3> QED
      BY <3>1, MatchedIs
  <2>3. PICK ks \in Seq(Track), fs \in SUBSET (1..Len(dets)) :
          ks = Append(a.kept, u) /\ fs = a.free \ {best}
    BY <1>0, AppendProperties
  <2>4. PICK b : b = [a EXCEPT !.kept = ks, !.free = fs]
    OBVIOUS
  <2>5. Associate(dets, a, t) = b
    BY <1>2, <2>2, <2>3, <2>4 DEF Associate, C, best
  <2>6. b \in Acc(dets) /\ b.kept = ks /\ b.free = fs /\ b.nextId = a.nextId
    BY <2>4 DEF Acc
  <2> QED
    BY <2>1, <2>2, <2>3, <2>5, <2>6 DEF C
<1>3. CASE C = {} /\ t.coast < MaxCoastAge
  <2>2. PICK u \in Track : u = Coasted(t)
    BY CoastedIs
  <2>3. PICK ks \in Seq(Track) : ks = Append(a.kept, u)
    BY <1>0, AppendProperties
  <2>4. PICK b : b = [a EXCEPT !.kept = ks]
    OBVIOUS
  <2>5. Associate(dets, a, t) = b
    BY <1>3, <2>2, <2>3, <2>4 DEF Associate, C
  <2>6. b \in Acc(dets) /\ b.kept = ks /\ b.free = a.free /\ b.nextId = a.nextId
    BY <2>4 DEF Acc
  <2> QED
    BY <1>3, <2>2, <2>3, <2>5, <2>6 DEF C
<1>4. CASE C = {} /\ ~(t.coast < MaxCoastAge)
  <2>1. Associate(dets, a, t) = a
    BY <1>4 DEF Associate, C
  <2> QED
    BY <1>4, <2>1 DEF C
<1> QED
  BY <1>2, <1>3, <1>4

(* A track that is kept, and one that begins, keep numbers and classes.      *)
LEMMA KeptIsNumbered ==
  ASSUME NEW old, NEW next, TracksOK(old, next), NEW dets \in Seq(Box),
         NEW n \in 1..Len(old), NEW a \in Acc(dets), NumbersOK(old, n - 1, a), ClassesOK(old, a),
         NEW u \in Track, u.id = old[n].id, u.coast <= MaxCoastAge,
         ClassAware => u.box.label = old[n].box.label,
         NEW b \in Acc(dets), b.kept = Append(a.kept, u), b.nextId = a.nextId
  PROVE  Extends(a, b) /\ NumbersOK(old, n, b) /\ ClassesOK(old, b)
<1>1. PICK N \in Nat : N = Len(a.kept)
  BY AccFields
<1>2. Len(b.kept) = N + 1 /\ b.kept[N + 1] = u /\ \A p \in 1..N : b.kept[p] = a.kept[p]
  BY <1>1, AccFields, AppendProperties
<1>3. \A p \in 1..(N + 1) : p \in 1..N \/ p = N + 1
  BY <1>1
<1>4. /\ old \in Seq(Track) /\ Len(old) \in Nat
      /\ \A i, j \in 1..Len(old) : i < j => old[i].id < old[j].id
  BY DEF TracksOK, IdsIncrease
<1>5. /\ \A p \in 1..N : a.kept[p].id \in Nat
      /\ \A j \in 1..Len(old) : old[j].id \in Nat
  <2>1. \A p \in 1..N : a.kept[p] \in Track
    BY <1>1, AccFields
  <2>2. \A j \in 1..Len(old) : old[j] \in Track
    BY <1>4
  <2> QED
    BY <2>1, <2>2 DEF Track
<1>6. Extends(a, b)
  BY <1>1, <1>2 DEF Extends
<1>7. \A p \in 1..N : a.kept[p].id < u.id
  BY <1>1 DEF NumbersOK
<1>8. NumbersOK(old, n, b)
  <2>1. IdsIncrease(b.kept)
    <3>1. \A p, q \in 1..N : p < q => a.kept[p].id < a.kept[q].id
      BY <1>1 DEF NumbersOK, IdsIncrease
    <3>2. \A p \in 1..N : ~(N + 1 < p)
      BY <1>1
    <3>3. ~(N + 1 < N + 1)
      BY <1>1
    <3>4. ASSUME NEW p \in 1..(N + 1), NEW q \in 1..(N + 1), p < q
          PROVE  b.kept[p].id < b.kept[q].id
      BY <1>2, <1>3, <1>7, <3>1, <3>2, <3>3, <3>4
    <3> QED
      BY <1>2, <3>4 DEF IdsIncrease
  <2>2. \A p \in 1..Len(b.kept) : b.kept[p].id < b.nextId /\ b.kept[p].coast <= MaxCoastAge
    BY <1>1, <1>2, <1>3 DEF NumbersOK
  <2>3. \A j \in 1..Len(old) : old[j].id < b.nextId
    BY DEF NumbersOK
  <2>4. ASSUME NEW p \in 1..Len(b.kept), NEW j \in 1..Len(old), n < j
        PROVE  b.kept[p].id < old[j].id
    <3>1. n - 1 < j
      BY <2>4
    <3>2. \A q \in 1..N : a.kept[q].id < old[j].id
      BY <1>1, <3>1 DEF NumbersOK
    <3>3. u.id < old[j].id
      BY <1>4, <2>4
    <3> QED
      BY <1>2, <1>3, <3>2, <3>3
  <2> QED
    BY <2>1, <2>2, <2>3, <2>4 DEF NumbersOK
<1>9. ClassesOK(old, b)
  <2>1. ASSUME ClassAware, NEW p \in 1..Len(b.kept), NEW j \in 1..Len(old),
               b.kept[p].id = old[j].id
        PROVE  b.kept[p].box.label = old[j].box.label
    <3>1. CASE p \in 1..N
      BY <1>1, <1>2, <2>1, <3>1 DEF ClassesOK
    <3>2. CASE p = N + 1
      <4>1. j = n
        <5>1. PICK x \in Nat : x = old[n].id /\ x = old[j].id
          BY <1>2, <1>5, <2>1, <3>2
        <5>2. (j < n => x < x) /\ (n < j => x < x)
          BY <1>4, <5>1
        <5> QED
          BY <5>1, <5>2
      <4> QED
        BY <1>2, <2>1, <3>2, <4>1
    <3> QED
      BY <1>2, <1>3, <3>1, <3>2
  <2> QED
    BY <2>1 DEF ClassesOK
<1> QED
  BY <1>6, <1>8, <1>9

LEMMA BegunIsNumbered ==
  ASSUME NEW old, NEW next, TracksOK(old, next), NEW dets \in Seq(Box),
         NEW n \in Nat, Len(old) < n, NEW a \in Acc(dets), NumbersOK(old, n - 1, a),
         ClassesOK(old, a),
         NEW u \in Track, u.id = a.nextId, u.coast = 0,
         NEW b \in Acc(dets), b.kept = Append(a.kept, u), b.nextId = a.nextId + 1
  PROVE  Extends(a, b) /\ NumbersOK(old, n, b) /\ ClassesOK(old, b)
<1>1. PICK N \in Nat : N = Len(a.kept)
  BY AccFields
<1>2. Len(b.kept) = N + 1 /\ b.kept[N + 1] = u /\ \A p \in 1..N : b.kept[p] = a.kept[p]
  BY <1>1, AccFields, AppendProperties
<1>3. \A p \in 1..(N + 1) : p \in 1..N \/ p = N + 1
  BY <1>1
<1>4. old \in Seq(Track) /\ Len(old) \in Nat
  BY DEF TracksOK
<1>5. /\ \A p \in 1..N : a.kept[p].id \in Nat
      /\ \A j \in 1..Len(old) : old[j].id \in Nat
      /\ a.nextId \in Nat
  <2>1. \A p \in 1..N : a.kept[p] \in Track
    BY <1>1, AccFields
  <2>2. \A j \in 1..Len(old) : old[j] \in Track
    BY <1>4
  <2> QED
    BY <2>1, <2>2, AccFields DEF Track
<1>6. Extends(a, b)
  BY <1>1, <1>2 DEF Extends
<1>7. \A p \in 1..N : a.kept[p].id < a.nextId /\ a.kept[p].coast <= MaxCoastAge
  BY <1>1 DEF NumbersOK
<1>8. \A j \in 1..Len(old) : old[j].id < a.nextId
  BY DEF NumbersOK
<1>9. NumbersOK(old, n, b)
  <2>1. IdsIncrease(b.kept)
    <3>1. \A p, q \in 1..N : p < q => a.kept[p].id < a.kept[q].id
      BY <1>1 DEF NumbersOK, IdsIncrease
    <3>2. \A p \in 1..N : ~(N + 1 < p)
      BY <1>1
    <3>3. ~(N + 1 < N + 1)
      BY <1>1
    <3>4. ASSUME NEW p \in 1..(N + 1), NEW q \in 1..(N + 1), p < q
          PROVE  b.kept[p].id < b.kept[q].id
      BY <1>2, <1>3, <1>7, <3>1, <3>2, <3>3, <3>4
    <3> QED
      BY <1>2, <3>4 DEF IdsIncrease
  <2>2. \A p \in 1..Len(b.kept) : b.kept[p].id < b.nextId /\ b.kept[p].coast <= MaxCoastAge
    <3>1. \A p \in 1..N : a.kept[p].id < a.nextId + 1
      BY <1>5, <1>7
    <3>2. a.nextId < a.nextId + 1 /\ 0 <= MaxCoastAge
      BY <1>5, TrackerAssumption
    <3> QED
      BY <1>2, <1>3, <1>7, <3>1, <3>2
  <2>3. \A j \in 1..Len(old) : old[j].id < b.nextId
    BY <1>5, <1>8
  <2>4. \A p \in 1..Len(b.kept), j \in 1..Len(old) : n < j => b.kept[p].id < old[j].id
    BY <1>4
  <2> QED
    BY <2>1, <2>2, <2>3, <2>4 DEF NumbersOK
<1>10. ClassesOK(old, b)
  <2>1. ASSUME ClassAware, NEW p \in 1..Len(b.kept), NEW j \in 1..Len(old),
               b.kept[p].id = old[j].id
        PROVE  b.kept[p].box.label = old[j].box.label
    <3>1. CASE p \in 1..N
      BY <1>1, <1>2, <2>1, <3>1 DEF ClassesOK
    <3>2. p # N + 1
      <4>1. PICK x \in Nat : x = old[j].id
        BY <1>5
      <4>2. x # a.nextId
        BY <1>5, <1>8, <4>1
      <4> QED
        BY <1>2, <2>1, <4>1, <4>2
    <3> QED
      BY <1>2, <1>3, <3>1, <3>2
  <2> QED
    BY <2>1 DEF ClassesOK
<1> QED
  BY <1>6, <1>9, <1>10

(* What is known before the first round, and after each round of the two     *)
(* loops.                                                                    *)
LEMMA RoundInitially ==
  ASSUME NEW old, NEW next, TracksOK(old, next), NEW dets \in Seq(Box)
  PROVE  RoundOK(old, dets, 0, [kept |-> << >>, free |-> DOMAIN dets, nextId |-> next])
<1>1. PICK a : a = [kept |-> << >>, free |-> 1..Len(dets), nextId |-> next]
  OBVIOUS
<1>2. a \in Acc(dets) /\ a.kept = << >> /\ a.free = 1..Len(dets) /\ a.nextId = next
  BY <1>1 DEF Acc, TracksOK
<1>3. Len(a.kept) = 0 /\ 1..0 = {}
  BY <1>2
<1>4. NumbersOK(old, 0, a) /\ ClassesOK(old, a)
  BY <1>2, <1>3 DEF NumbersOK, ClassesOK, IdsIncrease, TracksOK
<1>5. \E f : Claimed(f, dets, a.free, a.kept)
  <2>1. PICK f : f = [k \in {} |-> 1]
    OBVIOUS
  <2>2. (1..Len(dets)) \ a.free = {}
    BY <1>2
  <2>3. f \in [{} -> 1..Len(a.kept)]
    BY <2>1
  <2> QED
    BY <1>3, <2>2, <2>3 DEF Claimed
<1>6. Len(old) \in Nat /\ Len(dets) \in Nat
  BY DEF TracksOK
<1>7. /\ \A k \in (1..Len(dets)) \ a.free : FALSE
      /\ \A j \in 1..Len(old) : ~(j <= 0)
      /\ \A k \in 1..Len(dets) : ~(k <= 0 - Len(old))
  BY <1>2, <1>6
<1>8. RoundOK(old, dets, 0, a)
  BY <1>2, <1>4, <1>5, <1>7 DEF RoundOK
<1> QED
  BY <1>1, <1>8

LEMMA AssociateKeeps ==
  ASSUME NEW old, NEW next, TracksOK(old, next), NEW dets \in Seq(Box),
         NEW n \in 1..Len(old), NEW a, RoundOK(old, dets, n - 1, a)
  PROVE  RoundOK(old, dets, n, Associate(dets, a, old[n]))
<1>1. /\ old \in Seq(Track) /\ Len(old) \in Nat /\ Len(dets) \in Nat /\ n - 1 \in Int
      /\ n - 1 <= n /\ n - 1 <= Len(old) /\ n \in Int
  BY DEF TracksOK
<1>2. PICK t \in Track : t = old[n]
  BY <1>1
<1>3. a \in Acc(dets) /\ NumbersOK(old, n - 1, a) /\ ClassesOK(old, a)
  BY DEF RoundOK
<1>4. PICK f : Claimed(f, dets, a.free, a.kept)
  BY DEF RoundOK
<1>5. \A k \in (1..Len(dets)) \ a.free : Taken(old, dets, k, n - 1, a)
  BY <1>1 DEF RoundOK
<1>6. \A j \in 1..Len(old) : j <= n - 1 => Fate(old, dets, j, a)
  BY DEF RoundOK
<1>7. a.kept \in Seq(Track) /\ a.free \subseteq 1..Len(dets) /\ a.nextId \in Nat /\ Len(a.kept) \in Nat
  BY <1>3, AccFields
<1>8. PICK b \in Acc(dets) :
        /\ b = Associate(dets, a, t) /\ b.nextId = a.nextId
        /\ \/ \E k \in Candidates(t, dets, a.free) :
                b.kept = Append(a.kept, Matched(t, dets[k])) /\ b.free = a.free \ {k}
           \/ /\ Candidates(t, dets, a.free) = {} /\ t.coast < MaxCoastAge
              /\ b.kept = Append(a.kept, Coasted(t)) /\ b.free = a.free
           \/ Candidates(t, dets, a.free) = {} /\ ~(t.coast < MaxCoastAge) /\ b = a
  BY <1>2, <1>3, AssociateIs
<1>9. /\ t.coast \in Nat /\ t.coast <= MaxCoastAge /\ MaxCoastAge \in Nat
      /\ t.id = old[n].id
  BY <1>2, TrackerAssumption DEF TracksOK, Track
<1>10. \A k \in 1..Len(dets) : ~(k <= n - Len(old))
  BY <1>1
(* What is left to show: the claims, and the fate of this track.             *)
<1>11. ASSUME Extends(a, b), NumbersOK(old, n, b), ClassesOK(old, b),
              \E g : Claimed(g, dets, b.free, b.kept),
              \A k \in (1..Len(dets)) \ b.free : k \in a.free => Taken(old, dets, k, n, b),
              Fate(old, dets, n, b)
       PROVE  RoundOK(old, dets, n, b)
  <2>1. \A k \in (1..Len(dets)) \ b.free : Taken(old, dets, k, n, b)
    <3>1. ASSUME NEW k \in 1..Len(dets), k \notin a.free PROVE Taken(old, dets, k, n, b)
      <4>1. Taken(old, dets, k, n - 1, a) /\ k \in Int
        BY <1>5, <3>1
      <4> QED
        BY <1>1, <1>3, <1>11, <4>1, FatesStay
    <3> QED
      BY <1>11, <3>1
  <2>2. \A j \in 1..Len(old) : j <= n => Fate(old, dets, j, b)
    <3>1. \A j \in 1..Len(old) : j <= n => j = n \/ j <= n - 1
      OBVIOUS
    <3>2. \A j \in 1..Len(old) : j <= n - 1 => Fate(old, dets, j, b)
      BY <1>1, <1>3, <1>6, <1>11, FatesStay
    <3> QED
      BY <1>11, <3>1, <3>2
  <2> QED
    BY <1>10, <1>11, <2>1, <2>2 DEF RoundOK
(* A track without a candidate: what it could have claimed was taken.        *)
<1>12. ASSUME Candidates(t, dets, a.free) = {}, Extends(a, b),
              \/ old[n].coast = MaxCoastAge
              \/ \E p \in 1..Len(b.kept) : b.kept[p].id = old[n].id
       PROVE  Fate(old, dets, n, b)
  <2>1. \A k \in Candidates(old[n], dets, 1..Len(dets)) : k \in 1..Len(dets) /\ k \notin a.free
    BY <1>2, <1>12 DEF Candidates
  <2>2. ASSUME NEW k \in Candidates(old[n], dets, 1..Len(dets))
        PROVE  Taken(old, dets, k, n - 1, b)
    <3>1. Taken(old, dets, k, n - 1, a) /\ k \in Int /\ n - 1 <= n - 1
      BY <1>1, <1>5, <2>1
    <3> QED
      BY <1>1, <1>3, <1>12, <3>1, FatesStay
  <2> QED
    BY <1>12, <2>2 DEF Fate
<1>13. CASE \E k \in Candidates(t, dets, a.free) :
              b.kept = Append(a.kept, Matched(t, dets[k])) /\ b.free = a.free \ {k}
  <2>1. PICK k \in Candidates(t, dets, a.free) :
          b.kept = Append(a.kept, Matched(t, dets[k])) /\ b.free = a.free \ {k}
    BY <1>13
  <2>2. k \in a.free /\ k \in 1..Len(dets) /\ (ClassAware => dets[k].label = t.box.label)
    BY <1>7, <2>1 DEF Candidates
  <2>3. PICK u \in Track : /\ u = Matched(t, dets[k]) /\ u.id = t.id
                           /\ u.box = dets[k] /\ u.coast = 0
    <3>1. dets[k] \in Box
      BY <2>2
    <3> QED
      BY <3>1, MatchedIs
  <2>4. Extends(a, b) /\ NumbersOK(old, n, b) /\ ClassesOK(old, b)
    <3>1. b.kept = Append(a.kept, u) /\ u.id = old[n].id /\ u.coast <= MaxCoastAge
      BY <1>2, <1>9, <2>1, <2>3
    <3>2. ClassAware => u.box.label = old[n].box.label
      BY <1>2, <2>2, <2>3
    <3> QED
      BY <1>3, <1>8, <3>1, <3>2, KeptIsNumbered
  <2>5. \E g : Claimed(g, dets, b.free, b.kept)
    <3>1. \E g : Claimed(g, dets, a.free \ {k}, Append(a.kept, u))
      BY <1>4, <1>7, <2>2, <2>3, ClaimOne
    <3> QED
      BY <2>1, <2>3, <3>1
  <2>6. PICK p \in 1..Len(b.kept) : b.kept[p] = u
    <3>1. Len(a.kept) + 1 \in 1..Len(b.kept) /\ b.kept[Len(a.kept) + 1] = u
      BY <1>7, <2>1, <2>3, AppendProperties
    <3> QED
      BY <3>1
  <2>7. Fate(old, dets, n, b)
    BY <1>9, <2>3, <2>6 DEF Fate
  <2>8. Taken(old, dets, k, n, b)
    <3>1. n \in 1..n
      OBVIOUS
    <3> QED
      BY <1>9, <2>3, <2>6, <3>1 DEF Taken
  <2>9. \A i \in (1..Len(dets)) \ b.free : i \in a.free => Taken(old, dets, i, n, b)
    BY <2>1, <2>8
  <2> QED
    BY <1>2, <1>8, <1>11, <2>4, <2>5, <2>7, <2>9
<1>14. CASE /\ Candidates(t, dets, a.free) = {} /\ t.coast < MaxCoastAge
            /\ b.kept = Append(a.kept, Coasted(t)) /\ b.free = a.free
  <2>1. PICK u \in Track : /\ u = Coasted(t) /\ u.id = t.id /\ u.coast = t.coast + 1
                           /\ u.box.label = t.box.label
    BY CoastedIs
  <2>2. u.coast # 0 /\ u.coast <= MaxCoastAge
    BY <1>9, <1>14, <2>1
  <2>3. Extends(a, b) /\ NumbersOK(old, n, b) /\ ClassesOK(old, b)
    <3>1. b.kept = Append(a.kept, u) /\ u.id = old[n].id
      BY <1>2, <1>14, <2>1
    <3>2. ClassAware => u.box.label = old[n].box.label
      BY <1>2, <2>1
    <3> QED
      BY <1>3, <1>8, <2>2, <3>1, <3>2, KeptIsNumbered
  <2>4. \E g : Claimed(g, dets, b.free, b.kept)
    BY <1>4, <1>7, <1>14, <2>1, <2>2, ClaimNone
  <2>5. \E p \in 1..Len(b.kept) : b.kept[p].id = old[n].id
    <3>1. Len(a.kept) + 1 \in 1..Len(b.kept) /\ b.kept[Len(a.kept) + 1] = u
      BY <1>7, <1>14, <2>1, AppendProperties
    <3> QED
      BY <1>9, <2>1, <3>1
  <2>6. Fate(old, dets, n, b)
    BY <1>12, <1>14, <2>3, <2>5
  <2>7. \A i \in (1..Len(dets)) \ b.free : i \notin a.free
    BY <1>14
  <2> QED
    BY <1>2, <1>8, <1>11, <2>3, <2>4, <2>6, <2>7
<1>15. CASE Candidates(t, dets, a.free) = {} /\ ~(t.coast < MaxCoastAge) /\ b = a
  <2>1. Extends(a, b) /\ ClassesOK(old, b)
    BY <1>3, <1>7, <1>15 DEF Extends
  <2>2. NumbersOK(old, n, b)
    <3>1. \A j \in 1..Len(old) : n < j => n - 1 < j
      OBVIOUS
    <3> QED
      BY <1>3, <1>15, <3>1 DEF NumbersOK
  <2>3. old[n].coast = MaxCoastAge
    BY <1>2, <1>9, <1>15
  <2>4. Fate(old, dets, n, b)
    BY <1>12, <1>15, <2>1, <2>3
  <2>5. \A i \in (1..Len(dets)) \ b.free : i \notin a.free
    BY <1>15
  <2> QED
    BY <1>2, <1>4, <1>8, <1>11, <1>15, <2>1, <2>2, <2>4, <2>5
<1> QED
  BY <1>8, <1>13, <1>14, <1>15

LEMMA BeginIs ==
  ASSUME NEW dets \in Seq(Box), NEW a \in Acc(dets), NEW i \in a.free
  PROVE  \E b \in Acc(dets) :
           /\ b = Begin(dets, a, i) /\ b.kept = Append(a.kept, Created(a.nextId, dets[i]))
           /\ b.free = a.free \ {i} /\ b.nextId = a.nextId + 1
<1>1. a.kept \in Seq(Track) /\ a.free \subseteq 1..Len(dets) /\ a.nextId \in Nat
  BY AccFields
<1>2. PICK u \in Track : u = Created(a.nextId, dets[i])
  <2>1. dets[i] \in Box
    BY <1>1
  <2> QED
    BY <1>1, <2>1, CreatedIs
<1>3. PICK ks \in Seq(Track) : ks = Append(a.kept, u)
  BY <1>1, AppendProperties
<1>4. PICK fs \in SUBSET (1..Len(dets)) : fs = a.free \ {i}
  BY <1>1
<1>5. PICK m \in Nat : m = a.nextId + 1
  BY <1>1
<1>6. PICK b : b = [kept |-> ks, free |-> fs, nextId |-> m]
  OBVIOUS
<1>7. Begin(dets, a, i) = b
  BY <1>2, <1>3, <1>4, <1>5, <1>6 DEF Begin
<1>8. b \in Acc(dets) /\ b.kept = ks /\ b.free = fs /\ b.nextId = m
  BY <1>6 DEF Acc
<1> QED
  BY <1>2, <1>3, <1>4, <1>5, <1>7, <1>8

LEMMA BeginKeeps ==
  ASSUME NEW old, NEW next, TracksOK(old, next), NEW dets \in Seq(Box),
         NEW i \in 1..Len(dets), NEW a, RoundOK(old, dets, Len(old) + i - 1, a)
  PROVE  RoundOK(old, dets, Len(old) + i, Begin(dets, a, i))
<1>1. PICK N \in Nat, n \in Nat : N = Len(old) /\ n = N + i
  BY DEF TracksOK
<1>2. /\ old \in Seq(Track) /\ Len(dets) \in Nat /\ N < n /\ Len(old) + i - 1 = n - 1
      /\ ~(n <= Len(old)) /\ \A j \in 1..Len(old) : j <= n - 1
  BY <1>1 DEF TracksOK
<1>3. a \in Acc(dets) /\ NumbersOK(old, n - 1, a) /\ ClassesOK(old, a)
  BY <1>2 DEF RoundOK
<1>4. PICK f : Claimed(f, dets, a.free, a.kept)
  BY DEF RoundOK
<1>5. \A j \in 1..Len(old) : Fate(old, dets, j, a)
  BY <1>2 DEF RoundOK
<1>6. a.kept \in Seq(Track) /\ a.free \subseteq 1..Len(dets) /\ a.nextId \in Nat
  BY <1>3, AccFields
<1>7. \A k \in 1..Len(dets) : k <= n - Len(old) => k = i \/ k \notin a.free
  <2>1. \A k \in 1..Len(dets) : k <= n - Len(old) => k = i \/ k <= (n - 1) - Len(old)
    BY <1>1
  <2>2. \A k \in 1..Len(dets) : k <= (n - 1) - Len(old) => k \notin a.free
    BY <1>2 DEF RoundOK
  <2> QED
    BY <2>1, <2>2
<1>8. CASE i \in a.free
  <2>1. PICK u \in Track : /\ u = Created(a.nextId, dets[i]) /\ u.id = a.nextId
                           /\ u.box = dets[i] /\ u.coast = 0
    BY <1>6, CreatedIs
  <2>2. PICK b \in Acc(dets) :
          /\ b = Begin(dets, a, i) /\ b.kept = Append(a.kept, u) /\ b.free = a.free \ {i}
          /\ b.nextId = a.nextId + 1
    <3>1. PICK b \in Acc(dets) :
            /\ b = Begin(dets, a, i) /\ b.kept = Append(a.kept, Created(a.nextId, dets[i]))
            /\ b.free = a.free \ {i} /\ b.nextId = a.nextId + 1
      BY <1>3, <1>8, BeginIs
    <3> QED
      BY <2>1, <3>1
  <2>6. Extends(a, b) /\ NumbersOK(old, n, b) /\ ClassesOK(old, b)
    BY <1>1, <1>2, <1>3, <2>1, <2>2, BegunIsNumbered
  <2>7. \E g : Claimed(g, dets, b.free, b.kept)
    <3>1. \E g : Claimed(g, dets, a.free \ {i}, Append(a.kept, u))
      BY <1>4, <1>6, <1>8, <2>1, ClaimOne
    <3> QED
      BY <2>2, <3>1
  <2>8. \A j \in 1..Len(old) : Fate(old, dets, j, b)
    BY <1>2, <1>3, <1>5, <2>6, FatesStay
  <2>9. \A k \in 1..Len(dets) : k <= n - Len(old) => k \notin b.free
    BY <1>7, <2>2
  <2> QED
    BY <1>1, <1>2, <2>2, <2>6, <2>7, <2>8, <2>9 DEF RoundOK
<1>9. CASE i \notin a.free
  <2>1. Begin(dets, a, i) = a
    BY <1>9 DEF Begin
  <2>2. NumbersOK(old, n, a)
    <3>1. \A j \in 1..Len(old) : n < j => n - 1 < j
      BY <1>1
    <3> QED
      BY <1>3, <3>1 DEF NumbersOK
  <2>3. \A k \in 1..Len(dets) : k <= n - Len(old) => k \notin a.free
    BY <1>7, <1>9
  <2> QED
    BY <1>1, <1>2, <1>3, <1>4, <1>5, <2>1, <2>2, <2>3 DEF RoundOK
<1> QED
  BY <1>8, <1>9

(* The rounds of an update, which a recursive function takes.                *)
Rounds(r, old, next, dets) ==
  r = [n \in 0..(Len(old) + Len(dets)) |->
         IF n = 0 THEN [kept |-> << >>, free |-> DOMAIN dets, nextId |-> next]
         ELSE IF n <= Len(old) THEN Associate(dets, r[n - 1], old[n])
         ELSE Begin(dets, r[n - 1], n - Len(old))]

LEMMA RoundsKeep ==
  ASSUME NEW old, NEW next, TracksOK(old, next), NEW dets \in Seq(Box),
         NEW r, Rounds(r, old, next, dets)
  PROVE  \A n \in 0..(Len(old) + Len(dets)) : RoundOK(old, dets, n, r[n])
<1>1. PICK N \in Nat, M \in Nat : N = Len(old) /\ M = N + Len(dets)
  BY DEF TracksOK
<1> DEFINE T == { n \in 0..M : ~RoundOK(old, dets, n, r[n]) }
<1>2. T = {}
  <2> SUFFICES ASSUME T # {} PROVE FALSE
    OBVIOUS
  <2>1. PICK n \in T : \A m \in T : n <= m
    <3>1. T \subseteq Nat
      OBVIOUS
    <3> HIDE DEF T
    <3> QED
      BY <3>1, LeastOf
  <2>2. n \in 0..M /\ ~RoundOK(old, dets, n, r[n])
    OBVIOUS
  <2>3. CASE n = 0
    <3>1. 0 \in 0..M /\ r[0] = [kept |-> << >>, free |-> DOMAIN dets, nextId |-> next]
      BY <1>1, <2>2 DEF Rounds
    <3> QED
      BY <2>2, <2>3, <3>1, RoundInitially
  <2>4. CASE n # 0
    <3>1. n - 1 \in 0..M /\ ~(n <= n - 1)
      BY <2>2, <2>4
    <3>2. RoundOK(old, dets, n - 1, r[n - 1])
      BY <2>1, <3>1
    <3>3. CASE n <= N
      <4>1. n \in 1..Len(old) /\ r[n] = Associate(dets, r[n - 1], old[n])
        BY <1>1, <2>2, <2>4, <3>3 DEF Rounds
      <4> QED
        BY <2>2, <3>2, <4>1, AssociateKeeps
    <3>4. CASE ~(n <= N)
      <4>1. PICK i \in 1..Len(dets) : i = n - N /\ n = N + i /\ n - 1 = N + i - 1
        <5>1. /\ n - N \in 1..Len(dets)
              /\ n - N = n - N /\ n = N + (n - N) /\ n - 1 = N + (n - N) - 1
          BY <1>1, <2>2, <3>4
        <5> QED
          BY <5>1
      <4>2. r[n] = Begin(dets, r[n - 1], i)
        BY <1>1, <2>2, <2>4, <3>4, <4>1 DEF Rounds
      <4> QED
        BY <1>1, <2>2, <3>2, <4>1, <4>2, BeginKeeps
    <3> QED
      BY <3>3, <3>4
  <2> QED
    BY <2>3, <2>4
<1> QED
  BY <1>1, <1>2

(* The recursive function of an update exists, so that the last round is     *)
(* what the lemma above says.                                                *)
LEMMA RoundsExist ==
  ASSUME NEW old, NEW next, TracksOK(old, next), NEW dets \in Seq(Box)
  PROVE  \E r : Rounds(r, old, next, dets)
<1>1. PICK N \in Nat, M \in Nat : N = Len(old) /\ M = N + Len(dets)
  BY DEF TracksOK
<1>2. PICK start \in Acc(dets) : start = [kept |-> << >>, free |-> DOMAIN dets, nextId |-> next]
  <2>1. << >> \in Seq(Track) /\ next \in Nat /\ DOMAIN dets = 1..Len(dets)
    BY DEF TracksOK
  <2> QED
    BY <2>1 DEF Acc
<1> DEFINE After(n, x) == IF n <= N THEN Associate(dets, x, old[n]) ELSE Begin(dets, x, n - N)
           step == [n \in 1..M |-> [x \in Acc(dets) |-> After(n, x)]]
<1>3. step \in [1..M -> [Acc(dets) -> Acc(dets)]]
  <2>1. ASSUME NEW n \in 1..M, NEW x \in Acc(dets) PROVE After(n, x) \in Acc(dets)
    <3>1. CASE n <= N
      <4>1. old[n] \in Track
        BY <1>1, <3>1 DEF TracksOK
      <4>2. Associate(dets, x, old[n]) \in Acc(dets)
        BY <4>1, AssociateIs
      <4> QED
        BY <3>1, <4>2
    <3>2. CASE ~(n <= N)
      <4>1. Begin(dets, x, n - N) \in Acc(dets)
        <5>1. CASE n - N \in x.free
          BY <5>1, BeginIs
        <5>2. CASE n - N \notin x.free
          BY <5>2 DEF Begin
        <5> QED
          BY <5>1, <5>2
      <4> QED
        BY <3>2, <4>1
    <3> QED
      BY <3>1, <3>2
  <2> HIDE DEF After
  <2> QED
    BY <2>1
<1>4. \A n \in 1..M, x \in Acc(dets) : step[n][x] = After(n, x)
  OBVIOUS
<1> HIDE DEF step, After
<1>5. PICK r \in [0..M -> Acc(dets)] : Recursion(r, M, start, step)
  BY <1>3, RecursionExists
<1>6. ASSUME NEW n \in 0..M, n # 0 PROVE r[n] = After(n, r[n - 1])
  <2>1. n \in 1..M /\ r[n - 1] \in Acc(dets)
    BY <1>6
  <2>2. r[n] = step[n][r[n - 1]]
    BY <1>5, <1>6 DEF Recursion
  <2> QED
    BY <1>4, <2>1, <2>2
<1>7. r[0] = start
  BY <1>5 DEF Recursion
<1>8. r = [n \in 0..M |-> IF n = 0 THEN start ELSE After(n, r[n - 1])]
  BY <1>6, <1>7
<1> QED
  BY <1>1, <1>2, <1>8 DEF Rounds, After

LEMMA UpdateIs ==
  ASSUME TracksOK(tracks, nextTrackId), NEW dets \in Seq(Box), Update(dets)
  PROVE  \E a : /\ RoundOK(tracks, dets, Len(tracks) + Len(dets), a)
                /\ tracks' = a.kept /\ nextTrackId' = a.nextId /\ detections' = dets
<1>1. PICK old, next : old = tracks /\ next = nextTrackId
  OBVIOUS
<1>2. PICK r : r = CHOOSE f : Rounds(f, old, next, dets)
  OBVIOUS
<1>3. Rounds(r, old, next, dets)
  BY <1>1, <1>2, RoundsExist
<1>4. PICK n : n = Len(old) + Len(dets)
  OBVIOUS
<1>5. tracks' = r[n].kept /\ nextTrackId' = r[n].nextId /\ detections' = dets
  BY <1>1, <1>2, <1>4 DEF Update, Rounds
<1>6. RoundOK(old, dets, n, r[n])
  <2>1. n \in 0..(Len(old) + Len(dets))
    BY <1>1, <1>4 DEF TracksOK
  <2> QED
    BY <1>1, <1>3, <2>1, RoundsKeep
<1> QED
  BY <1>1, <1>4, <1>5, <1>6

(* What an update leaves: tracks with increasing ids, every detection on one *)
(* of them, and the tracks before it either kept, coasting or given up as    *)
(* they should be.                                                           *)
LEMMA UpdateFollows ==
  ASSUME TracksOK(tracks, nextTrackId), NEW dets \in Seq(Box), Update(dets)
  PROVE  /\ TracksOK(tracks', nextTrackId') /\ detections' = dets
         /\ EachDetectionOnce' /\ TracksPersist
<1>1. PICK old, next : old = tracks /\ next = nextTrackId
  OBVIOUS
<1>2. PICK N \in Nat, M \in Nat : N = Len(old) /\ M = Len(dets)
  BY <1>1 DEF TracksOK
<1>3. PICK a : RoundOK(old, dets, N + M, a) /\ tracks' = a.kept /\ nextTrackId' = a.nextId
               /\ detections' = dets
  BY <1>1, <1>2, UpdateIs
<1>4. PICK ts : ts = a.kept
  OBVIOUS
<1>5. a \in Acc(dets) /\ NumbersOK(old, N + M, a) /\ ClassesOK(old, a)
  BY <1>3 DEF RoundOK
<1>6. ts \in Seq(Track) /\ a.nextId \in Nat /\ a.free \subseteq 1..M /\ Len(ts) \in Nat
  BY <1>2, <1>4, <1>5, AccFields
<1>7. a.free = {}
  <2>1. \A k \in 1..M : k <= N + M - N
    BY <1>2
  <2>2. \A k \in 1..M : k \notin a.free
    BY <1>2, <1>3, <2>1 DEF RoundOK
  <2> QED
    BY <1>6, <2>2
<1>8. PICK f : Claimed(f, dets, {}, ts)
  BY <1>3, <1>4, <1>7 DEF RoundOK
<1>9. \A j \in 1..N : Fate(old, dets, j, a)
  <2>1. \A j \in 1..N : j <= N + M
    BY <1>2
  <2> QED
    BY <1>2, <1>3, <2>1 DEF RoundOK
<1>10. \A p, q \in 1..Len(ts) : p < q => ts[p].id < ts[q].id
  BY <1>4, <1>5 DEF NumbersOK, IdsIncrease
<1>11. \A p \in 1..Len(ts) : ts[p].id < a.nextId /\ ts[p].coast <= MaxCoastAge
  BY <1>4, <1>5 DEF NumbersOK
<1>12. TracksOK(ts, a.nextId)
  BY <1>6, <1>10, <1>11 DEF TracksOK, IdsIncrease
<1>13. \A p \in 1..Len(ts) : ts[p].id \in Nat /\ ts[p].coast \in Nat
  <2>1. \A p \in 1..Len(ts) : ts[p] \in Track
    BY <1>6
  <2> QED
    BY <2>1 DEF Track
<1>14. \A p, q \in 1..Len(ts) : ts[p].id = ts[q].id => p = q
  <2>1. SUFFICES ASSUME NEW p \in 1..Len(ts), NEW q \in 1..Len(ts), ts[p].id = ts[q].id
                 PROVE  p = q
    OBVIOUS
  <2>2. PICK x \in Nat : x = ts[p].id /\ x = ts[q].id
    BY <1>13, <2>1
  <2>3. (p < q => x < x) /\ (q < p => x < x)
    BY <1>10, <2>2
  <2> QED
    BY <2>2, <2>3
<1>15. ToSet(ts) = { ts[p] : p \in 1..Len(ts) } /\ DOMAIN ts = 1..Len(ts)
  BY <1>6 DEF ToSet
<1>16. EachDetectionOnce'
  <2> DEFINE updated == { p \in 1..Len(ts) : ts[p].coast = 0 }
  <2>1. /\ Cardinality(updated) = Len(dets)
        /\ \A d : Cardinality({ i \in 1..Len(dets) : dets[i] = d })
                    = Cardinality({ p \in updated : ts[p].box = d })
    BY <1>6, <1>8, ClaimsCount
  <2>2. Updated' = updated
    BY <1>3, <1>4, <1>15 DEF Updated
  <2>3. DOMAIN dets = 1..Len(dets)
    OBVIOUS
  <2> HIDE DEF updated
  <2>4. ASSUME NEW d
        PROVE  Cardinality({ i \in DOMAIN dets : dets[i] = d })
                 = Cardinality({ i \in updated : ts[i].box = d })
    BY <2>1, <2>3
  <2>5. tracks' = ts /\ detections' = dets
    BY <1>3, <1>4
  <2>6. ASSUME NEW d
        PROVE  Cardinality({ i \in DOMAIN detections' : detections'[i] = d })
                 = Cardinality({ i \in Updated' : tracks'[i].box = d })
    <3>1. { i \in DOMAIN detections' : detections'[i] = d } = { i \in DOMAIN dets : dets[i] = d }
      BY <2>5
    <3>2. { i \in Updated' : tracks'[i].box = d } = { i \in updated : ts[i].box = d }
      BY <2>2, <2>5
    <3> QED
      BY <2>4, <3>1, <3>2, Zenon
  <2>7. Cardinality(Updated') = Len(detections')
    BY <2>1, <2>2, <2>5
  <2> QED
    BY <2>6, <2>7 DEF EachDetectionOnce
<1>17. TracksPersist
  <2>1. DOMAIN tracks = 1..N /\ tracks = old /\ tracks' = ts /\ detections' = dets
    BY <1>1, <1>2, <1>3, <1>4 DEF TracksOK
  <2> SUFFICES ASSUME NEW i \in 1..N
               PROVE  LET now == WithId(old[i].id, ts)
                          claimable == Candidates(old[i], dets, DOMAIN dets)
                      IN  /\ Cardinality(now) <= 1
                          /\ \A u \in now : /\ ClassAware => u.box.label = old[i].box.label
                                            /\ u.coast <= MaxCoastAge
                          /\ now = {} => old[i].coast = MaxCoastAge
                          /\ (\A u \in now : u.coast > 0) =>
                               \A k \in claimable : \E j \in 1..(i - 1) :
                                 \E u \in WithId(old[j].id, ts) : u.coast = 0 /\ u.box = dets[k]
    BY <2>1 DEF TracksPersist
  <2>2. PICK t \in Track : t = old[i]
    BY <1>1, <1>2 DEF TracksOK
  <2>3. PICK now : now = WithId(t.id, ts)
    OBVIOUS
  <2>4. \A u : u \in now <=> \E p \in 1..Len(ts) : u = ts[p] /\ ts[p].id = t.id
    BY <1>15, <2>3 DEF WithId
  <2>5. Cardinality(now) <= 1
    <3>1. CASE now = {}
      BY <3>1, FS_EmptySet
    <3>2. CASE now # {}
      <4>1. PICK u : u \in now
        BY <3>2
      <4>2. now = {u}
        BY <1>14, <2>4, <4>1
      <4>3. Cardinality({u}) = 1
        BY FS_Singleton
      <4> QED
        BY <4>2, <4>3
    <3> QED
      BY <3>1, <3>2
  <2>6. \A u \in now : (ClassAware => u.box.label = t.box.label) /\ u.coast <= MaxCoastAge
    BY <1>2, <1>4, <1>5, <1>11, <2>2, <2>4 DEF ClassesOK
  <2>7. now = {} => t.coast = MaxCoastAge
    BY <1>4, <1>9, <2>2, <2>4 DEF Fate
  <2>8. ASSUME \A u \in now : u.coast > 0, NEW k \in Candidates(t, dets, DOMAIN dets)
        PROVE  \E j \in 1..(i - 1) :
                 \E u \in WithId(old[j].id, ts) : u.coast = 0 /\ u.box = dets[k]
    <3>1. ~\E p \in 1..Len(ts) : ts[p].id = t.id /\ ts[p].coast = 0
      BY <2>4, <2>8
    <3>2. DOMAIN dets = 1..Len(dets)
      OBVIOUS
    <3>3. Taken(old, dets, k, i - 1, a)
      BY <1>4, <1>9, <2>2, <2>8, <3>1, <3>2 DEF Fate
    <3>4. PICK j \in 1..(i - 1), p \in 1..Len(ts) :
            ts[p].id = old[j].id /\ ts[p].coast = 0 /\ ts[p].box = dets[k]
      BY <1>4, <3>3 DEF Taken
    <3>5. ts[p] \in WithId(old[j].id, ts)
      BY <1>15, <3>4 DEF WithId
    <3> QED
      BY <3>4, <3>5
  <2> QED
    BY <2>2, <2>3, <2>5, <2>6, <2>7, <2>8
<1> QED
  BY <1>3, <1>4, <1>12, <1>16, <1>17

(* What the detector sends are lists of boxes.                               *)
LEMMA DetectionListsAreSequences ==
  ASSUME NEW dets \in DetectionLists
  PROVE  dets \in Seq(Box)
<1>1. PICK n \in Nat : dets \in [1..n -> Boxes]
  BY TrackerAssumption DEF DetectionLists
<1>2. \A i \in 1..n : dets[i] \in Box
  BY <1>1, TrackerAssumption
<1> QED
  BY <1>1, <1>2

-----------------------------------------------------------------------------
(* The adapter: what it has, and where the messages of the last image are.   *)
AdapterTypeOK ==
  /\ latestImage \in Nat /\ latestDetections \in Nat
  /\ staleDrops \in Nat /\ mismatchDrops \in Nat /\ arrived \in Nat
  /\ publishedCount \in Nat /\ nextSourceSequence \in Nat
  /\ camera \in Nat /\ lagged \in BOOLEAN /\ lost \in Nat /\ restarts \in Nat
  /\ images \in Seq(Nat \ {0}) /\ arrays \in Seq(Nat \ {0})
  /\ observations \in Seq([stamp: Nat, source: Nat])

(* While the detector keeps up, all frames but the last are accounted for,   *)
(* and the last one is when a message of it is lost, unless the other waits. *)
LastIsUnderWay ==
  ~lagged =>
    LET settled == Len(observations) + lost
    IN  /\ images \in {<< >>, <<camera>>} /\ arrays \in {<< >>, <<camera>>}
        /\ latestImage <= camera /\ latestDetections <= camera
        /\ camera <= settled + 1
        /\ Quiet => camera <= settled
        /\ images # << >> /\ arrays # << >> => latestImage < camera /\ latestDetections < camera
        /\ images # << >> /\ arrays = << >> => camera <= settled \/ latestDetections = camera
        /\ images = << >> /\ arrays # << >> => camera <= settled \/ latestImage = camera

AdapterInv ==
  /\ AdapterTypeOK /\ TracksOK(tracks, nextTrackId) /\ EachDetectionOnce
  /\ MessagesAreCounted /\ LastIsUnderWay

LEMMA AdapterInvInitially == AdapterInit => AdapterInv
<1> SUFFICES ASSUME AdapterInit PROVE AdapterInv
  OBVIOUS
<1>1. << >> \in Seq(Track) /\ << >> \in Seq(Nat \ {0}) /\ << >> \in Seq([stamp: Nat, source: Nat])
      /\ Len(<< >>) = 0 /\ 1..0 = {} /\ DOMAIN << >> = {}
  OBVIOUS
<1>2. TracksOK(tracks, nextTrackId)
  BY <1>1 DEF AdapterInit, TrackerInit, TracksOK, IdsIncrease
<1>3. EachDetectionOnce
  <2>1. tracks = << >> /\ detections = << >>
    BY DEF AdapterInit, TrackerInit
  <2>2. Updated = {} /\ ToSet(detections) = {}
    BY <2>1 DEF Updated, ToSet
  <2> QED
    BY <2>1, <2>2, FS_EmptySet DEF EachDetectionOnce
<1>4. AdapterTypeOK
  BY <1>1 DEF AdapterInit, AdapterTypeOK
<1>5. MessagesAreCounted /\ LastIsUnderWay
  BY DEF AdapterInit, MessagesAreCounted, LastIsUnderWay, InSlots, Quiet
<1> QED
  BY <1>2, <1>3, <1>4, <1>5 DEF AdapterInv

(* What the tracker has after a callback, and what the match leaves.         *)
LEMMA MatchFollows ==
  ASSUME AdapterInv, NEW image \in Nat, NEW array \in Nat, TryPublishLatestMatch(image, array)
  PROVE  /\ TracksOK(tracks', nextTrackId') /\ EachDetectionOnce'
         /\ [TracksPersist]_trackerVars
<1>1. TracksOK(tracks, nextTrackId) /\ EachDetectionOnce
  BY DEF AdapterInv
<1>2. CASE UNCHANGED trackerVars
  <2>1. tracks' = tracks /\ nextTrackId' = nextTrackId /\ detections' = detections
    BY <1>2 DEF trackerVars
  <2>2. EachDetectionOnce'
    BY <1>1, <2>1 DEF EachDetectionOnce, Updated
  <2> QED
    BY <1>1, <1>2, <2>1, <2>2
<1>3. CASE PublishObservation(image)
  <2>1. PICK dets \in DetectionLists : Update(dets)
    BY <1>3 DEF PublishObservation
  <2> QED
    BY <1>1, <2>1, DetectionListsAreSequences, UpdateFollows
<1> QED
  BY <1>2, <1>3 DEF TryPublishLatestMatch

(* The slots and the counters after a match.                                 *)
LEMMA MatchIs ==
  ASSUME AdapterTypeOK, nextSourceSequence = publishedCount + 1,
         NEW image \in Nat, NEW array \in Nat, TryPublishLatestMatch(image, array)
  PROVE  \E n \in Nat :
           /\ n = Len(observations') - Len(observations)
           /\ observations' \in Seq([stamp: Nat, source: Nat])
           /\ publishedCount' = publishedCount + n
           /\ nextSourceSequence' = nextSourceSequence + n
           /\ \/ /\ image = 0 \/ array = 0
                 /\ n = 0 /\ latestImage' = image /\ latestDetections' = array
                 /\ mismatchDrops' = mismatchDrops
              \/ /\ image # 0 /\ array # 0 /\ image # array
                 /\ n = 0 /\ mismatchDrops' = mismatchDrops + 1
                 /\ IF image < array THEN latestImage' = 0 /\ latestDetections' = array
                                     ELSE latestImage' = image /\ latestDetections' = 0
              \/ /\ image # 0 /\ image = array
                 /\ n = 1 /\ latestImage' = 0 /\ latestDetections' = 0
                 /\ mismatchDrops' = mismatchDrops
<1>1. /\ observations \in Seq([stamp: Nat, source: Nat]) /\ nextSourceSequence \in Nat
      /\ publishedCount \in Nat
  BY DEF AdapterTypeOK
<1>2. Len(observations) \in Nat
  BY <1>1
<1>3. CASE image # 0 /\ image = array
  <2>1. PICK o \in [stamp: Nat, source: Nat] : o = [stamp |-> image, source |-> nextSourceSequence]
    BY <1>1
  <2>2. /\ observations' = Append(observations, o)
        /\ nextSourceSequence' = nextSourceSequence + 1
        /\ publishedCount' = publishedCount + 1
        /\ latestImage' = 0 /\ latestDetections' = 0 /\ mismatchDrops' = mismatchDrops
    BY <1>3, <2>1 DEF TryPublishLatestMatch, PublishObservation
  <2>3. observations' \in Seq([stamp: Nat, source: Nat])
        /\ Len(observations') = Len(observations) + 1
    BY <1>1, <2>1, <2>2, AppendProperties
  <2>4. 1 = Len(observations') - Len(observations)
    BY <1>2, <2>3
  <2> QED
    BY <1>3, <2>2, <2>3, <2>4
<1>4. CASE image = 0 \/ array = 0 \/ image # array
  <2>1. /\ UNCHANGED publishVars
        /\ \/ /\ image = 0 \/ array = 0
              /\ latestImage' = image /\ latestDetections' = array
              /\ mismatchDrops' = mismatchDrops
           \/ /\ image # 0 /\ array # 0 /\ image # array
              /\ mismatchDrops' = mismatchDrops + 1
              /\ IF image < array THEN latestImage' = 0 /\ latestDetections' = array
                                  ELSE latestImage' = image /\ latestDetections' = 0
    BY <1>4 DEF TryPublishLatestMatch
  <2>2. 0 = Len(observations') - Len(observations) /\ observations' = observations
        /\ publishedCount' = publishedCount + 0 /\ nextSourceSequence' = nextSourceSequence + 0
    BY <1>1, <1>2, <2>1 DEF publishVars
  <2> QED
    BY <1>1, <2>1, <2>2
<1> QED
  BY <1>3, <1>4

LEMMA HeadAndTail ==
  ASSUME NEW ms \in Seq(Nat \ {0}), ms # << >>
  PROVE  /\ Head(ms) \in Nat \ {0} /\ Tail(ms) \in Seq(Nat \ {0})
         /\ \A c : ms = <<c>> => Head(ms) = c /\ Tail(ms) = << >>
<1>1. Head(ms) \in Nat \ {0} /\ Tail(ms) \in Seq(Nat \ {0})
  BY HeadTailProperties
<1>2. ASSUME NEW c, ms = <<c>> PROVE Head(ms) = c /\ Tail(ms) = << >>
  <2>1. Len(ms) = 1 /\ ms[1] = c
    BY <1>2
  <2>2. Len(Tail(ms)) = 0 /\ Head(ms) = c
    BY <2>1, HeadTailProperties
  <2> QED
    BY <1>1, <2>2, EmptySeq
<1> QED
  BY <1>1, <1>2

(* The callbacks of the two topics; and below, the steps of the camera and   *)
(* of the transport, and a restart, none of which updates a track.           *)
LEMMA ImageCallbackKeeps ==
  ASSUME AdapterInv, ImageCallback
  PROVE  AdapterInv' /\ [TracksPersist]_trackerVars
<1>1. /\ AdapterTypeOK /\ MessagesAreCounted /\ LastIsUnderWay
      /\ nextSourceSequence = publishedCount + 1
  BY DEF AdapterInv, MessagesAreCounted
<1>2. PICK image \in Nat \ {0} :
        /\ image = Head(images) /\ images # << >>
        /\ \A c : images = <<c>> => image = c /\ Tail(images) = << >>
  BY <1>1, HeadAndTail DEF ImageCallback, AdapterTypeOK
<1>3. TryPublishLatestMatch(image, latestDetections)
  BY <1>2 DEF ImageCallback
<1>4. /\ images' = Tail(images) /\ arrived' = arrived + 1
      /\ staleDrops' = IF latestImage # 0 THEN staleDrops + 1 ELSE staleDrops
      /\ UNCHANGED <<camera, lagged, arrays, lost, restarts>>
  BY DEF ImageCallback
<1>5. /\ TracksOK(tracks', nextTrackId') /\ EachDetectionOnce'
      /\ [TracksPersist]_trackerVars
  BY <1>1, <1>3, MatchFollows DEF AdapterTypeOK
<1>6. PICK n \in Nat :
        /\ n = Len(observations') - Len(observations)
        /\ observations' \in Seq([stamp: Nat, source: Nat])
        /\ publishedCount' = publishedCount + n
        /\ nextSourceSequence' = nextSourceSequence + n
        /\ \/ /\ latestDetections = 0
              /\ n = 0 /\ latestImage' = image /\ latestDetections' = 0
              /\ mismatchDrops' = mismatchDrops
           \/ /\ latestDetections # 0 /\ image # latestDetections
              /\ n = 0 /\ mismatchDrops' = mismatchDrops + 1
              /\ IF image < latestDetections
                 THEN latestImage' = 0 /\ latestDetections' = latestDetections
                 ELSE latestImage' = image /\ latestDetections' = 0
           \/ /\ image = latestDetections
              /\ n = 1 /\ latestImage' = 0 /\ latestDetections' = 0
              /\ mismatchDrops' = mismatchDrops
  <2>1. PICK array \in Nat : array = latestDetections
    BY <1>1 DEF AdapterTypeOK
  <2>2. image # 0 /\ TryPublishLatestMatch(image, array)
    BY <1>3, <2>1
  <2>3. PICK n \in Nat :
          /\ n = Len(observations') - Len(observations)
          /\ observations' \in Seq([stamp: Nat, source: Nat])
          /\ publishedCount' = publishedCount + n
          /\ nextSourceSequence' = nextSourceSequence + n
          /\ \/ /\ image = 0 \/ array = 0
                /\ n = 0 /\ latestImage' = image /\ latestDetections' = array
                /\ mismatchDrops' = mismatchDrops
             \/ /\ image # 0 /\ array # 0 /\ image # array
                /\ n = 0 /\ mismatchDrops' = mismatchDrops + 1
                /\ IF image < array THEN latestImage' = 0 /\ latestDetections' = array
                                    ELSE latestImage' = image /\ latestDetections' = 0
             \/ /\ image # 0 /\ image = array
                /\ n = 1 /\ latestImage' = 0 /\ latestDetections' = 0
                /\ mismatchDrops' = mismatchDrops
    BY <1>1, <2>2, MatchIs
  <2> QED
    BY <2>1, <2>2, <2>3
<1>7. AdapterTypeOK'
  <2>1. latestImage' \in Nat /\ latestDetections' \in Nat
    <3>1. latestImage \in Nat /\ latestDetections \in Nat
      BY <1>1 DEF AdapterTypeOK
    <3>2. /\ latestImage' \in {0, image, latestDetections}
          /\ latestDetections' \in {0, image, latestDetections}
      BY <1>6
    <3> QED
      BY <3>1, <3>2
  <2>2. mismatchDrops' \in Nat /\ publishedCount' \in Nat /\ nextSourceSequence' \in Nat
    <3>1. /\ mismatchDrops \in Nat /\ publishedCount \in Nat /\ nextSourceSequence \in Nat
          /\ n \in Nat
      BY <1>1 DEF AdapterTypeOK
    <3>2. mismatchDrops' = mismatchDrops \/ mismatchDrops' = mismatchDrops + 1
      BY <1>6
    <3> QED
      BY <1>6, <3>1, <3>2
  <2>3. staleDrops' \in Nat /\ arrived' \in Nat
    BY <1>1, <1>4 DEF AdapterTypeOK
  <2>4. images' \in Seq(Nat \ {0})
    BY <1>1, <1>2, <1>4, HeadAndTail DEF AdapterTypeOK
  <2> QED
    BY <1>1, <1>4, <1>6, <2>1, <2>2, <2>3, <2>4 DEF AdapterTypeOK
<1>8. MessagesAreCounted'
  <2>1. PICK i \in Nat, d \in Nat, x \in Nat, y \in Nat, p \in Nat, m \in Nat, w \in Nat :
          /\ i = latestImage /\ d = latestDetections /\ x = staleDrops /\ y = mismatchDrops
          /\ p = publishedCount /\ m = arrived /\ w = InSlots
    BY <1>1 DEF AdapterTypeOK, InSlots
  <2>2. /\ i = 0 \/ d = 0
        /\ m = w + 2 * p + x + y
        /\ w = IF i = 0 /\ d = 0 THEN 0 ELSE 1
    BY <1>1, <2>1 DEF MessagesAreCounted, InSlots
  <2>3. /\ arrived' = m + 1 /\ publishedCount' = p + n /\ nextSourceSequence' = p + n + 1
        /\ staleDrops' = IF i # 0 THEN x + 1 ELSE x
    BY <1>1, <1>4, <1>6, <2>1
  <2>4. /\ latestImage' = 0 \/ latestDetections' = 0
        /\ InSlots' = IF latestImage' = 0 /\ latestDetections' = 0 THEN 0 ELSE 1
    BY <1>6, <2>1, <2>2 DEF InSlots
  <2>5. PICK v \in Nat, z \in Nat, q \in Nat :
          v = InSlots' /\ z = staleDrops' /\ q = mismatchDrops'
    BY <1>7, <2>4 DEF AdapterTypeOK
  <2>6. /\ z = IF i # 0 THEN x + 1 ELSE x
        /\ \/ d = 0 /\ n = 0 /\ q = y /\ v = 1
           \/ d # 0 /\ n = 0 /\ q = y + 1 /\ v = 1
           \/ d # 0 /\ n = 1 /\ q = y /\ v = 0
    BY <1>2, <1>6, <2>1, <2>3, <2>4, <2>5
  <2>7. m + 1 = v + 2 * (p + n) + z + q
    BY <2>2, <2>6
  <2> QED
    BY <2>3, <2>4, <2>5, <2>7 DEF MessagesAreCounted
<1>9. LastIsUnderWay'
  <2>1. SUFFICES ASSUME ~lagged' PROVE LastIsUnderWay'
    BY DEF LastIsUnderWay
  <2>2. PICK s \in Nat : s = Len(observations) + lost
    BY <1>1 DEF AdapterTypeOK
  <2>3. s + n = Len(observations') + lost'
    <3>1. Len(observations) \in Nat /\ Len(observations') \in Nat /\ lost \in Nat
      BY <1>1, <1>6 DEF AdapterTypeOK
    <3> QED
      BY <1>4, <1>6, <2>2, <3>1
  <2>4. /\ images = <<camera>> /\ arrays \in {<< >>, <<camera>>}
        /\ latestImage <= camera /\ latestDetections <= camera /\ camera <= s + 1
        /\ arrays # << >> => latestImage < camera /\ latestDetections < camera
        /\ arrays = << >> => camera <= s \/ latestDetections = camera
    BY <1>1, <1>2, <1>4, <2>1, <2>2 DEF LastIsUnderWay
  <2>5. images' = << >> /\ image = camera
    BY <1>2, <1>4, <2>4
  <2>6. /\ latestImage' <= camera /\ latestDetections' <= camera /\ camera <= s + n + 1
        /\ arrays = << >> => camera <= s + n
        /\ arrays # << >> => latestImage' = camera
    BY <1>1, <1>2, <1>6, <2>4, <2>5 DEF AdapterTypeOK
  <2> QED
    BY <1>4, <2>3, <2>4, <2>5, <2>6 DEF LastIsUnderWay, Quiet
<1> QED
  BY <1>5, <1>7, <1>8, <1>9 DEF AdapterInv

LEMMA DetectionsCallbackKeeps ==
  ASSUME AdapterInv, DetectionsCallback
  PROVE  AdapterInv' /\ [TracksPersist]_trackerVars
<1>1. /\ AdapterTypeOK /\ MessagesAreCounted /\ LastIsUnderWay
      /\ nextSourceSequence = publishedCount + 1
  BY DEF AdapterInv, MessagesAreCounted
<1>2. PICK array \in Nat \ {0} :
        /\ array = Head(arrays) /\ arrays # << >>
        /\ \A c : arrays = <<c>> => array = c /\ Tail(arrays) = << >>
  BY <1>1, HeadAndTail DEF DetectionsCallback, AdapterTypeOK
<1>3. TryPublishLatestMatch(latestImage, array)
  BY <1>2 DEF DetectionsCallback
<1>4. /\ arrays' = Tail(arrays) /\ arrived' = arrived + 1
      /\ staleDrops' = IF latestDetections # 0 THEN staleDrops + 1 ELSE staleDrops
      /\ UNCHANGED <<camera, lagged, images, lost, restarts>>
  BY DEF DetectionsCallback
<1>5. /\ TracksOK(tracks', nextTrackId') /\ EachDetectionOnce'
      /\ [TracksPersist]_trackerVars
  BY <1>1, <1>3, MatchFollows DEF AdapterTypeOK
<1>6. PICK n \in Nat :
        /\ n = Len(observations') - Len(observations)
        /\ observations' \in Seq([stamp: Nat, source: Nat])
        /\ publishedCount' = publishedCount + n
        /\ nextSourceSequence' = nextSourceSequence + n
        /\ \/ /\ latestImage = 0
              /\ n = 0 /\ latestDetections' = array /\ latestImage' = 0
              /\ mismatchDrops' = mismatchDrops
           \/ /\ latestImage # 0 /\ array # latestImage
              /\ n = 0 /\ mismatchDrops' = mismatchDrops + 1
              /\ IF array < latestImage
                 THEN latestDetections' = 0 /\ latestImage' = latestImage
                 ELSE latestDetections' = array /\ latestImage' = 0
           \/ /\ array = latestImage
              /\ n = 1 /\ latestDetections' = 0 /\ latestImage' = 0
              /\ mismatchDrops' = mismatchDrops
  <2>1. PICK image \in Nat : image = latestImage
    BY <1>1 DEF AdapterTypeOK
  <2>2. array # 0 /\ TryPublishLatestMatch(image, array)
    BY <1>3, <2>1
  <2>3. PICK n \in Nat :
          /\ n = Len(observations') - Len(observations)
          /\ observations' \in Seq([stamp: Nat, source: Nat])
          /\ publishedCount' = publishedCount + n
          /\ nextSourceSequence' = nextSourceSequence + n
          /\ \/ /\ image = 0 \/ array = 0
                /\ n = 0 /\ latestImage' = image /\ latestDetections' = array
                /\ mismatchDrops' = mismatchDrops
             \/ /\ image # 0 /\ array # 0 /\ image # array
                /\ n = 0 /\ mismatchDrops' = mismatchDrops + 1
                /\ IF image < array THEN latestImage' = 0 /\ latestDetections' = array
                                    ELSE latestImage' = image /\ latestDetections' = 0
             \/ /\ image # 0 /\ image = array
                /\ n = 1 /\ latestImage' = 0 /\ latestDetections' = 0
                /\ mismatchDrops' = mismatchDrops
    BY <1>1, <2>2, MatchIs
  <2> QED
    BY <2>1, <2>2, <2>3
<1>7. AdapterTypeOK'
  <2>1. latestImage' \in Nat /\ latestDetections' \in Nat
    <3>1. latestImage \in Nat /\ latestDetections \in Nat
      BY <1>1 DEF AdapterTypeOK
    <3>2. /\ latestImage' \in {0, latestImage, array}
          /\ latestDetections' \in {0, latestImage, array}
      BY <1>6
    <3> QED
      BY <3>1, <3>2
  <2>2. mismatchDrops' \in Nat /\ publishedCount' \in Nat /\ nextSourceSequence' \in Nat
    <3>1. /\ mismatchDrops \in Nat /\ publishedCount \in Nat /\ nextSourceSequence \in Nat
          /\ n \in Nat
      BY <1>1 DEF AdapterTypeOK
    <3>2. mismatchDrops' = mismatchDrops \/ mismatchDrops' = mismatchDrops + 1
      BY <1>6
    <3> QED
      BY <1>6, <3>1, <3>2
  <2>3. staleDrops' \in Nat /\ arrived' \in Nat
    BY <1>1, <1>4 DEF AdapterTypeOK
  <2>4. arrays' \in Seq(Nat \ {0})
    BY <1>1, <1>2, <1>4, HeadAndTail DEF AdapterTypeOK
  <2> QED
    BY <1>1, <1>4, <1>6, <2>1, <2>2, <2>3, <2>4 DEF AdapterTypeOK
<1>8. MessagesAreCounted'
  <2>1. PICK i \in Nat, d \in Nat, x \in Nat, y \in Nat, p \in Nat, m \in Nat, w \in Nat :
          /\ i = latestDetections /\ d = latestImage /\ x = staleDrops /\ y = mismatchDrops
          /\ p = publishedCount /\ m = arrived /\ w = InSlots
    BY <1>1 DEF AdapterTypeOK, InSlots
  <2>2. /\ i = 0 \/ d = 0
        /\ m = w + 2 * p + x + y
        /\ w = IF i = 0 /\ d = 0 THEN 0 ELSE 1
    BY <1>1, <2>1 DEF MessagesAreCounted, InSlots
  <2>3. /\ arrived' = m + 1 /\ publishedCount' = p + n /\ nextSourceSequence' = p + n + 1
        /\ staleDrops' = IF i # 0 THEN x + 1 ELSE x
    BY <1>1, <1>4, <1>6, <2>1
  <2>4. /\ latestDetections' = 0 \/ latestImage' = 0
        /\ InSlots' = IF latestDetections' = 0 /\ latestImage' = 0 THEN 0 ELSE 1
    BY <1>6, <2>1, <2>2 DEF InSlots
  <2>5. PICK v \in Nat, z \in Nat, q \in Nat :
          v = InSlots' /\ z = staleDrops' /\ q = mismatchDrops'
    BY <1>7, <2>4 DEF AdapterTypeOK
  <2>6. /\ z = IF i # 0 THEN x + 1 ELSE x
        /\ \/ d = 0 /\ n = 0 /\ q = y /\ v = 1
           \/ d # 0 /\ n = 0 /\ q = y + 1 /\ v = 1
           \/ d # 0 /\ n = 1 /\ q = y /\ v = 0
    BY <1>2, <1>6, <2>1, <2>3, <2>4, <2>5
  <2>7. m + 1 = v + 2 * (p + n) + z + q
    BY <2>2, <2>6
  <2> QED
    BY <2>3, <2>4, <2>5, <2>7 DEF MessagesAreCounted
<1>9. LastIsUnderWay'
  <2>1. SUFFICES ASSUME ~lagged' PROVE LastIsUnderWay'
    BY DEF LastIsUnderWay
  <2>2. PICK s \in Nat : s = Len(observations) + lost
    BY <1>1 DEF AdapterTypeOK
  <2>3. s + n = Len(observations') + lost'
    <3>1. Len(observations) \in Nat /\ Len(observations') \in Nat /\ lost \in Nat
      BY <1>1, <1>6 DEF AdapterTypeOK
    <3> QED
      BY <1>4, <1>6, <2>2, <3>1
  <2>4. /\ arrays = <<camera>> /\ images \in {<< >>, <<camera>>}
        /\ latestDetections <= camera /\ latestImage <= camera /\ camera <= s + 1
        /\ images # << >> => latestDetections < camera /\ latestImage < camera
        /\ images = << >> => camera <= s \/ latestImage = camera
    BY <1>1, <1>2, <1>4, <2>1, <2>2 DEF LastIsUnderWay
  <2>5. arrays' = << >> /\ array = camera
    BY <1>2, <1>4, <2>4
  <2>6. /\ latestDetections' <= camera /\ latestImage' <= camera /\ camera <= s + n + 1
        /\ images = << >> => camera <= s + n
        /\ images # << >> => latestDetections' = camera
    BY <1>1, <1>2, <1>6, <2>4, <2>5 DEF AdapterTypeOK
  <2> QED
    BY <1>4, <2>3, <2>4, <2>5, <2>6 DEF LastIsUnderWay, Quiet
<1> QED
  BY <1>5, <1>7, <1>8, <1>9 DEF AdapterInv

(* Nothing that concerns the tracker or what was received.                   *)
LEMMA AdapterIdle ==
  ASSUME AdapterInv, UNCHANGED <<trackerVars, waitingVars, countVars, publishVars, arrived>>,
         camera' \in Nat, lagged' \in BOOLEAN, lost' \in Nat, restarts' \in Nat,
         images' \in Seq(Nat \ {0}), arrays' \in Seq(Nat \ {0}), LastIsUnderWay'
  PROVE  AdapterInv' /\ [TracksPersist]_trackerVars
<1>1. /\ AdapterTypeOK /\ MessagesAreCounted /\ TracksOK(tracks, nextTrackId)
      /\ EachDetectionOnce
  BY DEF AdapterInv
<1>2. /\ latestImage' = latestImage /\ latestDetections' = latestDetections
      /\ staleDrops' = staleDrops /\ mismatchDrops' = mismatchDrops /\ arrived' = arrived
      /\ publishedCount' = publishedCount /\ nextSourceSequence' = nextSourceSequence
      /\ observations' = observations
      /\ tracks' = tracks /\ nextTrackId' = nextTrackId /\ detections' = detections
  BY DEF trackerVars, waitingVars, countVars, publishVars
<1>3. AdapterTypeOK'
  BY <1>1, <1>2 DEF AdapterTypeOK
<1>4. MessagesAreCounted'
  BY <1>1, <1>2 DEF MessagesAreCounted, InSlots
<1>5. EachDetectionOnce'
  BY <1>1, <1>2 DEF EachDetectionOnce, Updated
<1> QED
  BY <1>1, <1>2, <1>3, <1>4, <1>5 DEF AdapterInv

LEMMA CaptureKeeps ==
  ASSUME AdapterInv, Capture
  PROVE  AdapterInv' /\ [TracksPersist]_trackerVars
<1>1. AdapterTypeOK /\ LastIsUnderWay
  BY DEF AdapterInv
<1>2. PICK c \in Nat : c = camera
  BY <1>1 DEF AdapterTypeOK
<1>3. /\ camera' = c + 1 /\ lagged' = (lagged \/ images # << >> \/ arrays # << >>)
      /\ images' = Append(images, c + 1) /\ arrays' = Append(arrays, c + 1)
      /\ UNCHANGED <<trackerVars, waitingVars, countVars, publishVars, lost, arrived, restarts>>
  BY <1>2 DEF Capture
<1>4. images' \in Seq(Nat \ {0}) /\ arrays' \in Seq(Nat \ {0})
  <2>1. c + 1 \in Nat \ {0}
    OBVIOUS
  <2> QED
    BY <1>1, <1>3, <2>1, AppendProperties DEF AdapterTypeOK
<1>5. LastIsUnderWay'
  <2>1. SUFFICES ASSUME ~lagged' PROVE LastIsUnderWay'
    BY DEF LastIsUnderWay
  <2>2. ~lagged /\ images = << >> /\ arrays = << >>
    BY <1>1, <1>3, <2>1 DEF AdapterTypeOK
  <2>3. images' = <<c + 1>> /\ arrays' = <<c + 1>>
    BY <1>3, <2>2
  <2>4. PICK s \in Nat : s = Len(observations) + lost
    BY <1>1 DEF AdapterTypeOK
  <2>5. c <= s /\ latestImage <= c /\ latestDetections <= c
    BY <1>1, <1>2, <2>2, <2>4 DEF LastIsUnderWay, Quiet
  <2>6. /\ s = Len(observations') + lost'
        /\ latestImage' = latestImage /\ latestDetections' = latestDetections
    BY <1>3, <2>4 DEF publishVars, waitingVars
  <2>7. /\ c + 1 <= s + 1 /\ latestImage < c + 1 /\ latestDetections < c + 1
        /\ latestImage <= c + 1 /\ latestDetections <= c + 1
    BY <1>1, <2>5 DEF AdapterTypeOK
  <2>8. images' # << >> /\ arrays' # << >>
    BY <2>3
  <2> QED
    BY <1>3, <2>3, <2>6, <2>7, <2>8 DEF LastIsUnderWay, Quiet
<1>6. camera' \in Nat /\ lagged' \in BOOLEAN /\ lost' \in Nat /\ restarts' \in Nat
  BY <1>1, <1>3 DEF AdapterTypeOK
<1> QED
  BY <1>3, <1>4, <1>5, <1>6, AdapterIdle

LEMMA LoseMessageKeeps ==
  ASSUME AdapterInv, LoseMessage
  PROVE  AdapterInv' /\ [TracksPersist]_trackerVars
<1>1. AdapterTypeOK /\ LastIsUnderWay
  BY DEF AdapterInv
<1>2. /\ \/ images # << >> /\ images' = Tail(images) /\ arrays' = arrays
         \/ arrays # << >> /\ arrays' = Tail(arrays) /\ images' = images
      /\ lost' = lost + 1
      /\ UNCHANGED <<trackerVars, waitingVars, countVars, publishVars, camera, lagged, arrived,
                     restarts>>
  BY DEF LoseMessage
<1>3. images' \in Seq(Nat \ {0}) /\ arrays' \in Seq(Nat \ {0})
  BY <1>1, <1>2, HeadAndTail DEF AdapterTypeOK
<1>4. LastIsUnderWay'
  <2>1. SUFFICES ASSUME ~lagged' PROVE LastIsUnderWay'
    BY DEF LastIsUnderWay
  <2>2. PICK s \in Nat : s = Len(observations) + lost
    BY <1>1 DEF AdapterTypeOK
  <2>3. s + 1 = Len(observations') + lost'
    <3>1. Len(observations) \in Nat /\ lost \in Nat
      BY <1>1 DEF AdapterTypeOK
    <3> QED
      BY <1>2, <2>2, <3>1 DEF publishVars
  <2>4. /\ images \in {<< >>, <<camera>>} /\ arrays \in {<< >>, <<camera>>}
        /\ latestImage <= camera /\ latestDetections <= camera /\ camera <= s + 1
    BY <1>2, <1>1, <2>1, <2>2 DEF LastIsUnderWay
  <2>5. images' \in {<< >>, <<camera>>} /\ arrays' \in {<< >>, <<camera>>}
        /\ ~(images' # << >> /\ arrays' # << >>)
    BY <1>1, <1>2, <2>4, HeadAndTail DEF AdapterTypeOK
  <2>6. camera <= s + 1 + 1
    BY <1>1, <2>4 DEF AdapterTypeOK
  <2>7. latestImage' = latestImage /\ latestDetections' = latestDetections /\ camera' = camera
    BY <1>2 DEF waitingVars
  <2> QED
    BY <2>3, <2>4, <2>5, <2>6, <2>7 DEF LastIsUnderWay, Quiet
<1>5. camera' \in Nat /\ lagged' \in BOOLEAN /\ lost' \in Nat /\ restarts' \in Nat
  BY <1>1, <1>2 DEF AdapterTypeOK
<1> QED
  BY <1>2, <1>3, <1>4, <1>5, AdapterIdle

LEMMA RestartKeeps ==
  ASSUME AdapterInv, Restart
  PROVE  AdapterInv'
<1>1. AdapterTypeOK /\ LastIsUnderWay
  BY DEF AdapterInv
<1>2. /\ tracks' = << >> /\ nextTrackId' = 1 /\ detections' = << >>
      /\ latestImage' = 0 /\ latestDetections' = 0
      /\ staleDrops' = 0 /\ mismatchDrops' = 0 /\ arrived' = 0
      /\ publishedCount' = 0 /\ nextSourceSequence' = 1
      /\ lost' = lost + InSlots
      /\ UNCHANGED <<observations, camera, lagged, images, arrays>>
  BY DEF Restart
<1>3. << >> \in Seq(Track) /\ Len(<< >>) = 0 /\ 1..0 = {} /\ DOMAIN << >> = {}
  OBVIOUS
<1>4. TracksOK(tracks', nextTrackId')
  BY <1>2, <1>3 DEF TracksOK, IdsIncrease
<1>5. EachDetectionOnce'
  <2>1. Updated' = {} /\ ToSet(detections') = {} /\ Len(detections') = 0
    BY <1>2, <1>3 DEF Updated, ToSet
  <2> QED
    BY <2>1, FS_EmptySet DEF EachDetectionOnce
<1>6. lost' \in Nat /\ restarts' \in Nat
  BY <1>1, <1>2 DEF AdapterTypeOK, InSlots, Restart
<1>7. AdapterTypeOK'
  BY <1>1, <1>2, <1>6 DEF AdapterTypeOK
<1>8. MessagesAreCounted'
  BY <1>2 DEF MessagesAreCounted, InSlots
<1>9. LastIsUnderWay'
  <2>1. SUFFICES ASSUME ~lagged' PROVE LastIsUnderWay'
    BY DEF LastIsUnderWay
  <2>2. PICK s \in Nat, d \in Nat : s = Len(observations) + lost /\ d = InSlots
    BY <1>1 DEF AdapterTypeOK, InSlots
  <2>3. s + d = Len(observations') + lost'
    <3>1. Len(observations) \in Nat /\ lost \in Nat
      BY <1>1 DEF AdapterTypeOK
    <3> QED
      BY <1>2, <2>2, <3>1
  <2>4. PICK c \in Nat : c = camera
    BY <1>1 DEF AdapterTypeOK
  <2>5. /\ images \in {<< >>, <<c>>} /\ arrays \in {<< >>, <<c>>} /\ c <= s + 1
        /\ Quiet => c <= s
        /\ images # << >> /\ arrays = << >> => c <= s \/ latestDetections = c
        /\ images = << >> /\ arrays # << >> => c <= s \/ latestImage = c
    BY <1>1, <1>2, <2>1, <2>2, <2>4 DEF LastIsUnderWay
  <2>6. images # << >> \/ arrays # << >> => c # 0
    BY <1>1, <2>5 DEF AdapterTypeOK
  <2>7. /\ latestDetections = c /\ c # 0 => c <= s + d
        /\ latestImage = c /\ c # 0 => c <= s + d
        /\ c <= s => c <= s + d
        /\ c <= s + d + 1
    BY <1>1, <2>2, <2>5 DEF InSlots, AdapterTypeOK
  <2>8. images # << >> /\ arrays # << >> => 0 < c
    BY <2>6
  <2> QED
    BY <1>2, <2>3, <2>4, <2>5, <2>6, <2>7, <2>8 DEF LastIsUnderWay, Quiet
<1> QED
  BY <1>4, <1>5, <1>7, <1>8, <1>9 DEF AdapterInv

LEMMA AdapterStep ==
  ASSUME AdapterInv, [AdapterNext]_adapterVars
  PROVE  AdapterInv' /\ [restarts' = restarts => TracksPersist]_trackerVars
<1>1. CASE UNCHANGED adapterVars
  <2>1. AdapterInv' /\ UNCHANGED trackerVars
    BY <1>1 DEF adapterVars, trackerVars, waitingVars, countVars, publishVars, AdapterInv,
       AdapterTypeOK, EachDetectionOnce, Updated, MessagesAreCounted, LastIsUnderWay, InSlots, Quiet
  <2> QED
    BY <2>1
<1>2. CASE Restart
  <2>1. restarts' # restarts
    BY <1>2 DEF Restart, AdapterInv, AdapterTypeOK
  <2> QED
    BY <1>2, <2>1, RestartKeeps
<1> QED
  BY <1>1, <1>2, ImageCallbackKeeps, DetectionsCallbackKeeps, CaptureKeeps, LoseMessageKeeps
     DEF AdapterNext, CameraOff

LEMMA AdapterInvHolds == AdapterSpec => []AdapterInv
<1>1. AdapterInv /\ [AdapterNext]_adapterVars => AdapterInv'
  BY AdapterStep
<1> QED
  BY AdapterInvInitially, <1>1, PTL DEF AdapterSpec

(* Whatever the two topics lose and however far they drift apart, every      *)
(* message is paired or counted as dropped; while the detector keeps up a    *)
(* lost message costs its own frame only; and after every update each        *)
(* detection is one track's and no other's.                                  *)
THEOREM DetectionsAreFollowedHolds == AdapterSpec => []DetectionsAreFollowed
<1>1. AdapterInv => DetectionsAreFollowed
  <2> SUFFICES ASSUME AdapterInv PROVE DetectionsAreFollowed
    OBVIOUS
  <2>1. LossCostsOneFrame
    <3>1. Len(observations) \in Nat /\ lost \in Nat /\ camera \in Nat
      BY DEF AdapterInv, AdapterTypeOK
    <3>2. Quiet /\ ~lagged => camera <= Len(observations) + lost
      BY DEF AdapterInv, LastIsUnderWay
    <3> QED
      BY <3>1, <3>2 DEF LossCostsOneFrame
  <2> QED
    BY <2>1 DEF AdapterInv, DetectionsAreFollowed
<1> QED
  BY AdapterInvHolds, <1>1, PTL

(* Between two restarts an update keeps each track as one track of its       *)
(* class, gives it up when it has coasted all it may and not later, and lets *)
(* it coast only if each detection it could claim went to an older one.      *)
THEOREM TracksPersistHold == AdapterSpec => TracksPersistBetweenRestarts
<1>1. AdapterInv /\ [AdapterNext]_adapterVars => [restarts' = restarts => TracksPersist]_trackerVars
  BY AdapterStep
<1> QED
  BY AdapterInvHolds, <1>1, PTL DEF AdapterSpec, TracksPersistBetweenRestarts
-----------------------------------------------------------------------------
(* The times a student is told of: what it is served with, and what it was   *)
(* trained with.  Rounding is off by half a tick at most.                    *)
LEMMA RoundedIsNear ==
  ASSUME NEW n \in Nat, NEW d \in Nat \ {0}
  PROVE  /\ Rounded(n, d) \in Nat
         /\ 2 * Distance(n, Rounded(n, d) * d) <= d
<1>1. PICK q \in Nat, r \in Nat : q = n \div d /\ r = n % d
  OBVIOUS
<1>2. r < d /\ n = q * d + r
  BY <1>1
<1>3. PICK p \in Nat : p = q * d
  BY <1>2
<1>4. (q + 1) * d = p + d
  BY <1>3
<1>5. CASE 2 * r - d > 0 \/ (2 * r - d = 0 /\ q % 2 = 1)
  <2>1. Rounded(n, d) = q + 1
    BY <1>1, <1>5 DEF Rounded
  <2>2. 2 * Distance(n, p + d) <= d
    BY <1>2, <1>3, <1>5 DEF Distance
  <2> QED
    BY <1>4, <2>1, <2>2
<1>6. CASE ~(2 * r - d > 0 \/ (2 * r - d = 0 /\ q % 2 = 1))
  <2>1. Rounded(n, d) = q
    BY <1>1, <1>6 DEF Rounded
  <2>2. 2 * Distance(n, p) <= d
    BY <1>2, <1>3, <1>6 DEF Distance
  <2> QED
    BY <1>3, <2>1, <2>2
<1> QED
  BY <1>5, <1>6

(* The recursive function that numbers the frames that are served.           *)
Numbers(index, frames) ==
  index = [i \in DOMAIN frames |->
             IF i = 1 THEN Rounded(frames[i] - Head(frames), Tick)
             ELSE Upper(Rounded(frames[i] - Head(frames), Tick), index[i - 1] + 1)]

Increasing(frames) == \A i \in 2..Len(frames) : frames[i] > frames[i - 1]

(* Times that increase are not before the first.                             *)
LEMMA FirstIsLeast ==
  ASSUME NEW frames \in Seq(Nat), Increasing(frames)
  PROVE  \A i \in 1..Len(frames) : frames[i] - Head(frames) \in Nat
<1> DEFINE T == { i \in 1..Len(frames) : ~(Head(frames) <= frames[i]) }
<1>1. T = {}
  <2> SUFFICES ASSUME T # {} PROVE FALSE
    OBVIOUS
  <2>1. PICK i \in T : \A j \in T : i <= j
    <3>1. T \subseteq Nat
      OBVIOUS
    <3> HIDE DEF T
    <3> QED
      BY <3>1, LeastOf
  <2>2. i # 1
    BY <2>1
  <2>3. i - 1 \in 1..Len(frames) /\ i \in 2..Len(frames) /\ i - 1 \notin T
    BY <2>1, <2>2
  <2>4. frames[i - 1] < frames[i]
    BY <2>3 DEF Increasing
  <2>5. frames[i] \in Nat /\ frames[i - 1] \in Nat /\ Head(frames) \in Nat
    <3> HIDE DEF T
    <3>1. i \in 1..Len(frames) /\ frames # << >>
      BY <2>3
    <3> QED
      BY <2>3, <3>1
  <2>6. Head(frames) <= frames[i - 1]
    BY <2>3
  <2> QED
    BY <2>1, <2>4, <2>5, <2>6
<1>2. ASSUME NEW i \in 1..Len(frames) PROVE frames[i] - Head(frames) \in Nat
  <2>1. Head(frames) <= frames[i]
    BY <1>1
  <2>2. frames[i] \in Nat /\ Head(frames) \in Nat
    OBVIOUS
  <2> QED
    BY <2>1, <2>2
<1> QED
  BY <1>2

(* There is such a function, and it is what is served.                       *)
LEMMA NumbersExist ==
  ASSUME NEW frames \in Seq(Nat), Increasing(frames)
  PROVE  \E index : Numbers(index, frames)
<1>1. PICK N \in Nat, zero \in Nat : N = Len(frames) /\ zero = 0
  OBVIOUS
<1> DEFINE After(i, x) == IF i = 1 THEN Rounded(frames[i] - Head(frames), Tick)
                          ELSE Upper(Rounded(frames[i] - Head(frames), Tick), x + 1)
           step == [i \in 1..N |-> [x \in Nat |-> After(i, x)]]
<1>2. ASSUME NEW i \in 1..N, NEW x \in Nat PROVE After(i, x) \in Nat
  <2>1. Rounded(frames[i] - Head(frames), Tick) \in Nat
    BY <1>1, LabelAssumption, FirstIsLeast, RoundedIsNear
  <2> QED
    BY <2>1 DEF Upper
<1>3. step \in [1..N -> [Nat -> Nat]]
  <2> HIDE DEF After
  <2> QED
    BY <1>2
<1>4. \A i \in 1..N, x \in Nat : step[i][x] = After(i, x)
  OBVIOUS
<1> HIDE DEF step
<1>5. PICK f \in [0..N -> Nat] : Recursion(f, N, zero, step)
  BY <1>3, RecursionExists
<1> DEFINE index == [i \in 1..N |-> f[i]]
<1>6. index = [i \in 1..N |-> After(i, index[i - 1])]
  <2>1. ASSUME NEW i \in 1..N PROVE f[i] = After(i, index[i - 1])
    <3>1. f[i] = step[i][f[i - 1]] /\ f[i - 1] \in Nat
      BY <1>5 DEF Recursion
    <3>2. f[i] = After(i, f[i - 1])
      BY <1>4, <3>1
    <3>3. CASE i = 1
      BY <3>2, <3>3
    <3>4. CASE i # 1
      <4>1. index[i - 1] = f[i - 1]
        BY <3>4
      <4> QED
        BY <3>2, <4>1
    <3> QED
      BY <3>3, <3>4
  <2> HIDE DEF After
  <2> QED
    BY <2>1
<1>7. DOMAIN frames = 1..N
  BY <1>1
<1> HIDE DEF index
<1> QED
  BY <1>6, <1>7 DEF Numbers

LEMMA ServedIndicesAre ==
  ASSUME NEW frames \in Seq(Nat), Increasing(frames)
  PROVE  Numbers(ServedIndices(frames), frames)
<1>1. PICK index : Numbers(index, frames)
  BY NumbersExist
<1> DEFINE R(g) == g = [i \in DOMAIN frames |->
                          IF i = 1 THEN Rounded(frames[i] - Head(frames), Tick)
                          ELSE Upper(Rounded(frames[i] - Head(frames), Tick), g[i - 1] + 1)]
           chosen == CHOOSE g : R(g)
<1>2. R(index)
  BY <1>1, Zenon DEF Numbers
<1>3. R(chosen)
  <2> HIDE DEF R
  <2> QED
    BY <1>2
<1>4. ServedIndices(frames) = [i \in DOMAIN frames |-> chosen[i]]
  BY Zenon DEF ServedIndices
<1> HIDE DEF chosen
<1>5. chosen = [i \in DOMAIN frames |-> chosen[i]]
  BY <1>3
<1>6. ServedIndices(frames) = chosen
  BY <1>4, <1>5, Zenon
<1> QED
  BY <1>3, <1>6, Zenon DEF Numbers

(* A number that is pushed past the one before.                              *)
LEMMA PushedIsNear ==
  ASSUME NEW d \in Nat \ {0}, NEW n \in Nat, NEW m \in Nat, n >= m + d,
         NEW k \in Nat, NEW r \in Nat, r <= k,
         2 * Distance(m, k * d) <= d, 2 * Distance(n, r * d) <= d
  PROVE  2 * Distance(n, (k + 1) * d) <= d
<1>1. PICK p \in Nat, q \in Nat : p = k * d /\ q = r * d
  OBVIOUS
<1>2. (k + 1) * d = p + d /\ q <= p
  BY <1>1
<1>3. 2 * (p - m) <= d
  BY <1>1 DEF Distance
<1>4. 2 * (n - q) <= d
  BY <1>1 DEF Distance
<1>5. 2 * (p + d - n) <= d
  BY <1>3
<1>6. n <= p + d
  BY <1>2, <1>4
<1> QED
  BY <1>2, <1>5, <1>6 DEF Distance

(* Frames a tick apart are numbered to within half a tick: a number that is  *)
(* rounded is, and one that is pushed past the one before is too late for a  *)
(* frame that comes a tick or more after that one's, which is early enough.  *)
TickApart(frames) == \A i \in 2..Len(frames) : frames[i] - frames[i - 1] >= Tick

LEMMA ServedIsNear ==
  ASSUME NEW frames \in Seq(Nat), Increasing(frames), TickApart(frames)
  PROVE  LET index == ServedIndices(frames)
         IN  /\ DOMAIN index = 1..Len(frames)
             /\ \A i \in 1..Len(frames) :
                  2 * Distance(frames[i] - Head(frames), index[i] * Tick) <= Tick
<1>1. PICK index : index = ServedIndices(frames) /\ Numbers(index, frames)
  BY ServedIndicesAre
<1>2. PICK d \in Nat \ {0} : d = Tick
  BY LabelAssumption
<1>3. PICK N \in Nat : N = Len(frames) /\ DOMAIN frames = 1..N
  OBVIOUS
<1>4. \A i \in 1..N : index[i] = IF i = 1 THEN Rounded(frames[i] - Head(frames), d)
                       ELSE Upper(Rounded(frames[i] - Head(frames), d), index[i - 1] + 1)
  BY <1>1, <1>2, <1>3 DEF Numbers
<1> DEFINE Near(i) == /\ index[i] \in Nat
                      /\ 2 * Distance(frames[i] - Head(frames), index[i] * d) <= d
           T == { i \in 1..N : ~Near(i) }
<1>5. ASSUME NEW i \in 1..N, i = 1 \/ Near(i - 1) PROVE Near(i)
  <2>1. PICK n \in Nat : n = frames[i] - Head(frames)
    BY <1>3, FirstIsLeast
  <2>2. PICK r \in Nat : r = Rounded(n, d) /\ 2 * Distance(n, r * d) <= d
    BY RoundedIsNear
  <2>3. CASE i = 1 \/ index[i] = r
    <3>1. index[i] = r
      BY <1>4, <2>1, <2>2, <2>3
    <3> QED
      BY <2>1, <2>2, <3>1
  <2>4. CASE i # 1 /\ index[i] # r
    <3>1. i - 1 \in 1..N /\ i \in 2..Len(frames)
      BY <1>3, <2>4
    <3>2. PICK k \in Nat : k = index[i - 1]
      BY <1>5, <2>4
    <3>3. index[i] = k + 1 /\ r <= k
      BY <1>4, <2>1, <2>2, <2>4, <3>2 DEF Upper
    <3>4. PICK m \in Nat : m = frames[i - 1] - Head(frames)
      BY <1>3, <3>1, FirstIsLeast
    <3>5. n >= m + d
      <4>1. frames[i] - frames[i - 1] >= d
        BY <1>2, <3>1 DEF TickApart
      <4>2. PICK a \in Nat, b \in Nat, h \in Nat :
              a = frames[i] /\ b = frames[i - 1] /\ h = Head(frames)
        BY <1>3, <3>1
      <4>3. n = a - h /\ m = b - h /\ a - b >= d
        BY <2>1, <3>4, <4>1, <4>2
      <4> QED
        BY <4>3
    <3>6. 2 * Distance(m, k * d) <= d
      BY <1>5, <2>4, <3>2, <3>4
    <3>7. 2 * Distance(n, (k + 1) * d) <= d
      BY <2>2, <3>3, <3>5, <3>6, PushedIsNear
    <3> QED
      BY <2>1, <3>3, <3>7
  <2> QED
    BY <2>3, <2>4
<1>6. T = {}
  <2> SUFFICES ASSUME T # {} PROVE FALSE
    OBVIOUS
  <2>1. PICK i \in T : \A j \in T : i <= j
    <3>1. T \subseteq Nat
      OBVIOUS
    <3> HIDE DEF T
    <3> QED
      BY <3>1, LeastOf
  <2> HIDE DEF Near
  <2>2. i \in 1..N /\ ~Near(i) /\ (i # 1 => i - 1 \in 1..N /\ i - 1 \notin T)
    BY <2>1
  <2>3. i = 1 \/ Near(i - 1)
    BY <2>2
  <2> QED
    BY <1>5, <2>2, <2>3
<1>7. DOMAIN index = 1..N
  BY <1>1, <1>3 DEF Numbers
<1> QED
  BY <1>1, <1>2, <1>3, <1>6, <1>7

(* The times told in training: a step is off by a tenth of the period, so    *)
(* that the frame is by a tenth of its time.                                 *)
LEMMA TokenisedIsNear ==
  ASSUME NEW frames \in Seq(Nat), NEW p \in Nat \ {0}, Regular(frames, p)
  PROVE  \A i \in 1..Len(frames) :
           10 * Distance(frames[i] - Head(frames), (i - 1) * p) <= (i - 1) * p
<1> DEFINE Near(i) == 10 * Distance(frames[i] - Head(frames), (i - 1) * p) <= (i - 1) * p
           T == { i \in 1..Len(frames) : ~Near(i) }
<1>1. ASSUME NEW i \in 1..Len(frames), i = 1 \/ Near(i - 1) PROVE Near(i)
  <2>1. PICK f \in Nat, h \in Nat : f = frames[i] /\ h = Head(frames)
    OBVIOUS
  <2>2. CASE i = 1
    <3>1. f = h /\ (i - 1) * p = 0
      BY <2>1, <2>2
    <3>2. f - h = 0 /\ 10 * Distance(0, 0) <= 0
      BY <3>1 DEF Distance
    <3> QED
      BY <2>1, <3>1, <3>2, Zenon
  <2>3. CASE i # 1
    <3>1. i - 1 \in 1..(Len(frames) - 1)
      BY <2>3
    <3>2. PICK g \in Nat : g = frames[i - 1]
      BY <3>1
    <3>3. 10 * Distance(f - g, p) <= p
      BY <2>1, <3>1, <3>2 DEF Regular
    <3>4. PICK q \in Nat : q = (i - 1 - 1) * p
      BY <3>1
    <3>5. (i - 1) * p = q + p
      BY <3>4
    <3>6. 10 * Distance(g - h, q) <= q
      BY <1>1, <2>1, <2>3, <3>2, <3>4
    <3>7. 10 * Distance(f - h, q + p) <= q + p
      BY <3>3, <3>6 DEF Distance
    <3> QED
      BY <2>1, <3>5, <3>7
  <2> QED
    BY <2>2, <2>3
<1>2. T = {}
  <2> SUFFICES ASSUME T # {} PROVE FALSE
    OBVIOUS
  <2>1. PICK i \in T : \A j \in T : i <= j
    <3>1. T \subseteq Nat
      OBVIOUS
    <3> HIDE DEF T
    <3> QED
      BY <3>1, LeastOf
  <2> HIDE DEF Near
  <2>2. i \in 1..Len(frames) /\ ~Near(i) /\ (i # 1 => i - 1 \in 1..Len(frames) /\ i - 1 \notin T)
    BY <2>1
  <2>3. i = 1 \/ Near(i - 1)
    BY <2>2
  <2> QED
    BY <1>1, <2>2, <2>3
<1> QED
  BY <1>2

(* What came of a sample is what was made of it as it is.                    *)
TimesInv ==
  /\ sample.frames \in Seq(Nat)
  /\ stage = "tokenised" => \E period \in Periods \cup {NoPeriod} : result = Tokenised(sample, period)
  /\ stage = "served" => result = ServedIndices(sample.frames) /\ Increasing(sample.frames)

LEMMA TimesInvHolds == LabelSpec => []TimesInv
<1>1. LabelInit => TimesInv
  <2> SUFFICES ASSUME LabelInit PROVE TimesInv
    OBVIOUS
  <2>1. sample.frames \in SeqOf(Times, MaxFrames)
    BY DEF LabelInit, Sample, Frames
  <2>2. PICK m \in 0..MaxFrames : sample.frames \in [1..m -> Times]
    BY <2>1 DEF SeqOf
  <2>3. m \in Nat /\ Times \subseteq Nat
    BY LabelAssumption
  <2>4. PICK frames : frames = sample.frames
    OBVIOUS
  <2>5. frames \in [1..m -> Nat]
    BY <2>2, <2>3, <2>4
  <2>6. frames \in Seq(Nat)
    BY <2>3, <2>5
  <2> QED
    BY <2>4, <2>6 DEF LabelInit, TimesInv
<1>2. TimesInv /\ [LabelNext]_labelVars => TimesInv'
  <2> SUFFICES ASSUME TimesInv, [LabelNext]_labelVars PROVE TimesInv'
    OBVIOUS
  <2>1. CASE Validate
    BY <2>1 DEF Validate, TimesInv
  <2>2. ASSUME NEW transform \in Transforms, Evaluate(transform) PROVE TimesInv'
    BY <2>2 DEF Evaluate, Transforms, TimesInv
  <2>3. ASSUME NEW period \in Periods \cup {NoPeriod}, Tokenise(period) PROVE TimesInv'
    BY <2>3 DEF Tokenise, TimesInv
  <2>4. CASE Serve
    BY <2>4 DEF Serve, TimesInv, Increasing
  <2>5. CASE UNCHANGED labelVars
    BY <2>5 DEF labelVars, TimesInv
  <2> QED
    BY <2>1, <2>2, <2>3, <2>4, <2>5 DEF LabelNext
<1> QED
  BY <1>1, <1>2, PTL DEF LabelSpec

(* Of any sample that is tokenised or served, for every period and tick, no  *)
(* frame has a time that is off by more than a tenth of what passed since    *)
(* the first, or by more than half a tick if the frames are a tick apart     *)
(* (derive_video_timing_metadata, build_video_metadata).                     *)
THEOREM VideosKeepTheirTimeHolds == LabelSpec => []VideosKeepTheirTime
<1>1. TimesInv => VideosKeepTheirTime
  <2> SUFFICES ASSUME TimesInv PROVE VideosKeepTheirTime
    OBVIOUS
  <2>1. PICK frames \in Seq(Nat) : frames = sample.frames
    BY DEF TimesInv
  <2>2. ASSUME stage = "tokenised", NEW i \in DOMAIN result
        PROVE  10 * Distance(frames[i] - Head(frames), result[i]) <= result[i]
    <3>1. PICK p \in Periods \cup {NoPeriod} : result = Tokenised(sample, p)
      BY <2>2 DEF TimesInv
    <3>2. p # NoPeriod /\ Regular(frames, p)
      BY <2>1, <2>2, <3>1 DEF Tokenised
    <3>3. result = [j \in DOMAIN frames |-> (j - 1) * p]
      BY <2>1, <3>1, <3>2 DEF Tokenised
    <3>4. p \in Nat \ {0} /\ i \in 1..Len(frames) /\ result[i] = (i - 1) * p
      BY <2>2, <3>2, <3>3, LabelAssumption
    <3>5. 10 * Distance(frames[i] - Head(frames), (i - 1) * p) <= (i - 1) * p
      BY <3>2, <3>4, TokenisedIsNear
    <3> QED
      BY <3>4, <3>5
  <2>3. ASSUME stage = "served", TickApart(frames), NEW i \in DOMAIN result
        PROVE  2 * Distance(frames[i] - Head(frames), result[i] * Tick) <= Tick
    <3>1. result = ServedIndices(frames) /\ Increasing(frames)
      BY <2>1, <2>3 DEF TimesInv
    <3> QED
      BY <2>3, <3>1, ServedIsNear
  <2> QED
    BY <2>1, <2>2, <2>3 DEF VideosKeepTheirTime, TickApart
<1> QED
  BY TimesInvHolds, <1>1, PTL
-----------------------------------------------------------------------------
(* What an evaluation asks for.  Each time of an ordered list is below those *)
(* after it, so that an order to sort it by moves none of them: what comes   *)
(* first up to a time that went down, or from one that went up, would have   *)
(* too few places to come from.                                              *)
LEMMA OrderedIsMonotone ==
  ASSUME NEW N \in Nat, NEW frames \in [1..N -> Nat], Ordered(frames), Len(frames) = N
  PROVE  \A i, j \in 1..N : i <= j => frames[i] <= frames[j]
<1> DEFINE T == { j \in 1..N : \E i \in 1..j : ~(frames[i] <= frames[j]) }
<1>1. T = {}
  <2> SUFFICES ASSUME T # {} PROVE FALSE
    OBVIOUS
  <2>1. PICK j \in T : \A k \in T : j <= k
    <3>1. T \subseteq Nat
      OBVIOUS
    <3> HIDE DEF T
    <3> QED
      BY <3>1, LeastOf
  <2>2. j \in 1..N
    BY <2>1
  <2>3. PICK i \in 1..j : ~(frames[i] <= frames[j])
    BY <2>1
  <2>4. i # j
    BY <2>2, <2>3
  <2>5. j - 1 \in 1..N /\ j \in 2..N /\ i \in 1..(j - 1)
    BY <2>2, <2>3, <2>4
  <2>6. PICK a \in Nat, b \in Nat, c \in Nat : a = frames[i] /\ b = frames[j - 1] /\ c = frames[j]
    <3>1. i \in 1..N /\ j - 1 \in 1..N /\ j \in 1..N
      BY <2>2, <2>5
    <3>2. frames[i] \in Nat /\ frames[j - 1] \in Nat /\ frames[j] \in Nat
      BY <3>1
    <3> QED
      BY <3>2
  <2>7. j - 1 \notin T
    BY <2>1, <2>5
  <2>8. frames[i] <= frames[j - 1]
    BY <2>5, <2>7
  <2>9. frames[j] >= frames[j - 1]
    BY <2>5 DEF Ordered
  <2>10. ~(a <= c) /\ a <= b /\ c >= b
    BY <2>3, <2>6, <2>8, <2>9
  <2> QED
    BY <2>10
<1> QED
  BY <1>1

(* An interval with one place less has one element less.                     *)
LEMMA IntervalsCount ==
  ASSUME NEW N \in Nat, NEW k \in 1..N
  PROVE  /\ Cardinality(1..(k - 1)) < Cardinality(1..k) /\ IsFiniteSet(1..k) /\ IsFiniteSet(1..(k - 1))
         /\ Cardinality((k + 1)..N) < Cardinality(k..N) /\ IsFiniteSet(k..N) /\ IsFiniteSet((k + 1)..N)
<1>1. 1 \in Int /\ k - 1 \in Int /\ k \in Int /\ k + 1 \in Int /\ N \in Int /\ k >= 1 /\ k <= N
  OBVIOUS
<1>2. /\ IsFiniteSet(1..(k - 1)) /\ Cardinality(1..(k - 1)) = k - 1
      /\ IsFiniteSet(1..k) /\ Cardinality(1..k) = k
  <2>1. Cardinality(1..(k - 1)) = IF 1 > k - 1 THEN 0 ELSE k - 1 - 1 + 1
    BY <1>1, FS_Interval
  <2>2. Cardinality(1..k) = IF 1 > k THEN 0 ELSE k - 1 + 1
    BY <1>1, FS_Interval
  <2> QED
    BY <1>1, <2>1, <2>2, FS_Interval
<1>3. /\ IsFiniteSet((k + 1)..N) /\ Cardinality((k + 1)..N) = N - k
      /\ IsFiniteSet(k..N) /\ Cardinality(k..N) = N - k + 1
  <2>1. Cardinality((k + 1)..N) = IF k + 1 > N THEN 0 ELSE N - (k + 1) + 1
    BY <1>1, FS_Interval
  <2>2. Cardinality(k..N) = IF k > N THEN 0 ELSE N - k + 1
    BY <1>1, FS_Interval
  <2> QED
    BY <1>1, <2>1, <2>2, FS_Interval
<1> QED
  BY <1>1, <1>2, <1>3

LEMMA SortedIsItself ==
  ASSUME NEW frames \in Seq(Nat), Ordered(frames)
  PROVE  Sorted(frames) = frames
<1>1. PICK N \in Nat : N = Len(frames) /\ DOMAIN frames = 1..N /\ frames \in [1..N -> Nat]
  OBVIOUS
<1> DEFINE Sorts(p) == \A i, j \in DOMAIN frames : i < j => frames[p[i]] <= frames[p[j]]
           order == CHOOSE p \in Bijection(DOMAIN frames, DOMAIN frames) : Sorts(p)
<1>2. \A i, j \in 1..N : i <= j => frames[i] <= frames[j]
  BY <1>1, OrderedIsMonotone
<1>3. order \in Bijection(1..N, 1..N) /\ Sorts(order)
  <2>1. PICK p : p = [i \in 1..N |-> i]
    OBVIOUS
  <2>2. p \in Bijection(1..N, 1..N)
    BY <2>1 DEF Bijection, Injection, Surjection, IsInjective
  <2>3. Sorts(p)
    BY <1>1, <1>2, <2>1
  <2> HIDE DEF Sorts
  <2>4. \E q \in Bijection(DOMAIN frames, DOMAIN frames) : Sorts(q)
    BY <1>1, <2>2, <2>3
  <2>5. order \in Bijection(DOMAIN frames, DOMAIN frames) /\ Sorts(order)
    BY <2>4
  <2> QED
    BY <1>1, <2>5
<1>4. Sorted(frames) = [i \in DOMAIN frames |-> frames[order[i]]]
  BY Zenon DEF Sorted
<1> HIDE DEF order
<1>5. order \in [1..N -> 1..N] /\ \A i, j \in 1..N : order[i] = order[j] => i = j
  BY <1>3 DEF Bijection, Injection, IsInjective
<1>6. \A i, j \in 1..N : i <= j => frames[order[i]] <= frames[order[j]]
  <2>1. \A i \in 1..N : order[i] \in 1..N
    BY <1>5
  <2>2. \A i \in 1..N : frames[order[i]] \in Nat
    BY <1>1, <2>1
  <2> QED
    BY <1>1, <1>3, <2>2
<1>7. ASSUME NEW k \in 1..N PROVE frames[order[k]] = frames[k]
  <2>1. order[k] \in 1..N
    BY <1>5
  <2>2. PICK a \in Nat, b \in Nat : a = frames[order[k]] /\ b = frames[k]
    BY <1>1, <2>1
  <2>3. CASE a < b
    <3>1. ASSUME NEW i \in 1..k PROVE order[i] \in 1..(k - 1)
      <4>1. i \in 1..N /\ order[i] \in 1..N
        BY <1>5
      <4>2. PICK o \in 1..N, c \in Nat : o = order[i] /\ c = frames[o]
        BY <1>1, <4>1
      <4>3. c <= a
        BY <1>6, <2>2, <4>1, <4>2
      <4>4. k <= o => b <= c
        BY <1>2, <2>2, <4>2
      <4> QED
        BY <2>3, <4>2, <4>3, <4>4
    <3>2. PICK f : f = [i \in 1..k |-> order[i]]
      OBVIOUS
    <3>3. f \in [1..k -> 1..(k - 1)]
      BY <3>1, <3>2
    <3>4. Cardinality(1..(k - 1)) < Cardinality(1..k) /\ IsFiniteSet(1..k) /\ IsFiniteSet(1..(k - 1))
      BY IntervalsCount
    <3>5. PICK i \in 1..k, j \in 1..k : i # j /\ f[i] = f[j]
      BY <3>3, <3>4, FS_PigeonHole
    <3> QED
      BY <1>5, <3>2, <3>5
  <2>4. CASE b < a
    <3>1. ASSUME NEW i \in k..N PROVE order[i] \in (k + 1)..N
      <4>1. i \in 1..N /\ order[i] \in 1..N
        BY <1>5
      <4>2. PICK o \in 1..N, c \in Nat : o = order[i] /\ c = frames[o]
        BY <1>1, <4>1
      <4>3. a <= c
        BY <1>6, <2>2, <4>1, <4>2
      <4>4. o <= k => c <= b
        BY <1>2, <2>2, <4>2
      <4> QED
        BY <2>4, <4>2, <4>3, <4>4
    <3>2. PICK f : f = [i \in k..N |-> order[i]]
      OBVIOUS
    <3>3. f \in [k..N -> (k + 1)..N]
      BY <3>1, <3>2
    <3>4. Cardinality((k + 1)..N) < Cardinality(k..N) /\ IsFiniteSet(k..N) /\ IsFiniteSet((k + 1)..N)
      BY IntervalsCount
    <3>5. PICK i \in k..N, j \in k..N : i # j /\ f[i] = f[j]
      BY <3>3, <3>4, FS_PigeonHole
    <3> QED
      BY <1>5, <3>2, <3>5
  <2> QED
    BY <2>2, <2>3, <2>4
<1>8. frames = [i \in 1..N |-> frames[i]]
  BY <1>1
<1> QED
  BY <1>1, <1>4, <1>7, <1>8

(* A scene run backwards twice is the scene.                                 *)
LEMMA MirroredTwice ==
  ASSUME NEW t \in TargetAmong(Int), t.start <= t.end, NEW first \in Int, NEW last \in Int
  PROVE  LET u == Mirrored(t, first, last)
         IN  /\ u \in TargetAmong(Int) /\ u.start <= u.end
             /\ u.detected = t.detected /\ u.complete = t.complete /\ u.sure = t.sure
             /\ t.start >= first /\ t.end <= last => u.start >= first /\ u.end <= last
             /\ Mirrored(u, first, last) = t
<1>1. PICK c \in Directions, s \in Int, e \in Int :
        c = t.change /\ s = t.start /\ e = t.end /\ s <= e
  BY DEF TargetAmong
<1>2. PICK d \in Directions : d = Opposite[c] /\ Opposite[d] = c
  BY LabelAssumption
<1>3. CASE last > first
  <2>1. PICK a \in Int, b \in Int : a = last + first - s /\ b = last + first - e /\ b <= a
    BY <1>1
  <2>2. PICK u : u = [t EXCEPT !.change = d, !.start = b, !.end = a]
    OBVIOUS
  <2>3. /\ u \in TargetAmong(Int) /\ u.change = d /\ u.start = b /\ u.end = a
        /\ u.detected = t.detected /\ u.complete = t.complete /\ u.sure = t.sure
    BY <2>2 DEF TargetAmong
  <2>4. Lower(a, b) = b /\ Upper(a, b) = a
    BY <2>1 DEF Lower, Upper
  <2>5. Mirrored(t, first, last) = u
    BY <1>1, <1>2, <1>3, <2>1, <2>2, <2>4 DEF Mirrored, TargetAmong
  <2>6. last + first - b = e /\ last + first - a = s /\ Lower(e, s) = s /\ Upper(e, s) = e
    BY <1>1, <2>1 DEF Lower, Upper
  <2>7. Mirrored(u, first, last) = [u EXCEPT !.change = c, !.start = s, !.end = e]
    BY <1>2, <1>3, <2>3, <2>6 DEF Mirrored, TargetAmong
  <2>8. Mirrored(u, first, last) = t
    BY <1>1, <2>2, <2>7 DEF TargetAmong
  <2>9. s >= first /\ e <= last => b >= first /\ a <= last
    BY <2>1
  <2> QED
    BY <1>1, <2>1, <2>3, <2>5, <2>8, <2>9
<1>4. CASE ~(last > first)
  <2>1. PICK u : u = [t EXCEPT !.change = d]
    OBVIOUS
  <2>2. /\ u \in TargetAmong(Int) /\ u.change = d /\ u.start = s /\ u.end = e
        /\ u.detected = t.detected /\ u.complete = t.complete /\ u.sure = t.sure
    BY <1>1, <2>1 DEF TargetAmong
  <2>3. Mirrored(t, first, last) = u
    BY <1>1, <1>2, <1>4, <2>1 DEF Mirrored, TargetAmong
  <2>4. Mirrored(u, first, last) = [u EXCEPT !.change = c]
    BY <1>2, <1>4, <2>2 DEF Mirrored, TargetAmong
  <2>5. Mirrored(u, first, last) = t
    BY <1>1, <2>1, <2>4 DEF TargetAmong
  <2> QED
    BY <1>1, <2>2, <2>3, <2>5
<1> QED
  BY <1>3, <1>4

(* A label that was accepted, in reverse: a target that is accepted too, and *)
(* the label again when it is reversed once more.                            *)
LEMMA ReversedIsAccepted ==
  ASSUME NEW s \in Sample, Accepted(s)
  PROVE  /\ Accepted(Control(s, "reversed"))
         /\ Control(Control(s, "reversed"), "reversed") = s
         /\ Sorted(s.frames) = s.frames
<1>1. PICK frames \in Seq(Nat), target \in TargetAmong(Int) :
        frames = s.frames /\ target = s.target /\ frames # << >> /\ target # NoTarget
  <2>1. s.frames \in SeqOf(Times, MaxFrames) /\ s.target \in TargetAmong(Times) \cup {NoTarget}
    BY DEF Sample, Frames
  <2>2. PICK m \in 0..MaxFrames : s.frames \in [1..m -> Times]
    BY <2>1 DEF SeqOf
  <2>3. m \in Nat /\ Times \subseteq Nat /\ Times \subseteq Int
    BY LabelAssumption
  <2>4. PICK frames : frames = s.frames
    OBVIOUS
  <2>5. frames \in [1..m -> Nat]
    BY <2>2, <2>3, <2>4
  <2>6. frames \in Seq(Nat)
    BY <2>3, <2>5
  <2>7. s.target \in TargetAmong(Times) /\ s.frames # << >> /\ s.target # NoTarget
    BY <2>1 DEF Accepted
  <2>8. s.target \in TargetAmong(Int)
    BY <2>3, <2>7 DEF TargetAmong
  <2> QED
    BY <2>4, <2>6, <2>7, <2>8
<1>2. Ordered(frames) /\ Sorted(frames) = frames
  BY <1>1, SortedIsItself DEF Accepted
<1>3. PICK first \in Int, last \in Int : first = Head(frames) /\ last = Last(frames)
  <2>1. PICK n \in Nat : n = Len(frames) /\ n # 0
    BY <1>1
  <2>2. 1 \in 1..n /\ n \in 1..n
    BY <2>1
  <2>3. Head(frames) = frames[1] /\ Last(frames) = frames[n] /\ frames[1] \in Nat /\ frames[n] \in Nat
    BY <1>1, <2>1, <2>2 DEF Last
  <2> QED
    BY <2>3
<1>4. target.start <= target.end /\ target.start >= first /\ target.end <= last
  <2>1. target.end >= target.start /\ target.start >= first /\ target.end <= last
    BY <1>1, <1>3 DEF Accepted, EvidenceWithin
  <2>2. target.start \in Int /\ target.end \in Int
    BY DEF TargetAmong
  <2> QED
    BY <2>1, <2>2
<1>5. PICK u : u = Mirrored(target, first, last)
  OBVIOUS
<1>6. /\ u \in TargetAmong(Int) /\ u.start <= u.end /\ u.start >= first /\ u.end <= last
      /\ u.detected = target.detected /\ u.complete = target.complete /\ u.sure = target.sure
      /\ Mirrored(u, first, last) = target
  BY <1>4, <1>5, MirroredTwice
<1>7. u # NoTarget /\ u.start \in Int /\ u.end \in Int
  BY <1>6, LabelAssumption DEF TargetAmong
<1>8. PICK r : r = [s EXCEPT !.frames = frames, !.target = u]
  OBVIOUS
<1>9. s = [frames |-> frames, static |-> s.static, refs |-> s.refs, target |-> target]
  BY <1>1 DEF Sample
<1>10. r = [frames |-> frames, static |-> s.static, refs |-> s.refs, target |-> u]
  BY <1>8, <1>9
<1>11. Control(s, "reversed") = r
  BY <1>1, <1>2, <1>3, <1>5, <1>8 DEF Control
<1>12. Control(r, "reversed") = s
  <2>1. r.frames = frames /\ r.target = u
    BY <1>10
  <2>2. Control(r, "reversed") = [r EXCEPT !.frames = frames, !.target = Mirrored(u, first, last)]
    BY <1>1, <1>2, <1>3, <1>7, <2>1 DEF Control
  <2> QED
    BY <1>6, <1>9, <1>10, <2>2
<1>13. Accepted(r)
  <2>1. r.frames = frames /\ r.target = u /\ r.static = s.static /\ r.refs = s.refs
    BY <1>10
  <2>2. u.end >= u.start /\ EvidenceWithin(frames, u)
    BY <1>3, <1>6, <1>7 DEF EvidenceWithin
  <2>3. /\ target.complete /\ target.sure /\ s.refs <= Len(frames)
        /\ ~(s.static /\ target.detected)
    BY <1>1 DEF Accepted
  <2> QED
    BY <1>1, <1>2, <1>6, <1>7, <2>1, <2>2, <2>3, Zenon DEF Accepted
<1> QED
  BY <1>1, <1>2, <1>11, <1>12, <1>13

(* Samples that are evaluated were accepted, and what is expected is derived *)
(* of the sample as it is.                                                   *)
Answered(transform) ==
  [predicted |-> [Transformed(sample, transform) EXCEPT !.target = Control(sample, transform).target],
   truth |-> Control(sample, transform)]

ControlsInv ==
  /\ sample \in Sample
  /\ stage \in Transforms \cup {"accepted"} => Accepted(sample)
  /\ stage \in Transforms => result = Answered(stage)

LEMMA ControlsInvHolds == LabelSpec => []ControlsInv
<1>1. LabelInit => ControlsInv
  BY DEF LabelInit, ControlsInv, Transforms
<1>2. ControlsInv /\ [LabelNext]_labelVars => ControlsInv'
  <2> SUFFICES ASSUME ControlsInv, [LabelNext]_labelVars PROVE ControlsInv'
    OBVIOUS
  <2>1. CASE Validate
    BY <2>1 DEF Validate, ControlsInv, Transforms
  <2>2. ASSUME NEW transform \in Transforms, Evaluate(transform) PROVE ControlsInv'
    <3>1. sample' = sample /\ stage' = transform /\ Accepted(sample) /\ sample \in Sample
      BY <2>2 DEF Evaluate, ControlsInv
    <3>2. result' = Answered(transform)
      BY <2>2, Zenon DEF Evaluate, Answered
    <3>3. Answered(stage)' = Answered(transform)
      BY <3>1, Zenon DEF Answered
    <3> QED
      BY <3>1, <3>2, <3>3 DEF ControlsInv
  <2>3. ASSUME NEW period \in Periods \cup {NoPeriod}, Tokenise(period) PROVE ControlsInv'
    BY <2>3 DEF Tokenise, ControlsInv, Transforms
  <2>4. CASE Serve
    BY <2>4 DEF Serve, ControlsInv, Transforms
  <2>5. CASE UNCHANGED labelVars
    BY <2>5 DEF labelVars, ControlsInv, Answered
  <2> QED
    BY <2>1, <2>2, <2>3, <2>4, <2>5 DEF LabelNext
<1> QED
  BY <1>1, <1>2, PTL DEF LabelSpec

(* For every label that was accepted: the target derived for frames in       *)
(* reverse passes the rules and gives the label when it is reversed again,   *)
(* and what is asked for to frames in order has full marks                   *)
(* (ChronologyEvaluator, compare_sample, VALIDATORS).                        *)
THEOREM ControlsAreFairHolds == LabelSpec => []ControlsAreFair
<1>1. ControlsInv => ControlsAreFair
  <2> SUFFICES ASSUME ControlsInv PROVE ControlsAreFair
    OBVIOUS
  <2>1. ASSUME stage = "reversed"
        PROVE  Accepted(result.truth) /\ Control(result.truth, "reversed") = sample
    <3>1. sample \in Sample /\ Accepted(sample) /\ result = Answered("reversed")
      BY <2>1 DEF ControlsInv, Transforms
    <3>2. result.truth = Control(sample, "reversed")
      BY <3>1 DEF Answered
    <3> QED
      BY <3>1, <3>2, ReversedIsAccepted
  <2>2. ASSUME stage \in {"chronological", "duplicated_frame"}
        PROVE  FullMarks(result.predicted, result.truth)
    <3>1. sample \in Sample /\ Accepted(sample) /\ result = Answered(stage)
      BY <2>2 DEF ControlsInv, Transforms
    <3>2. Control(sample, stage) = sample
      BY <2>2 DEF Control
    <3>3. PICK frames : frames = Transformed(sample, stage).frames
      OBVIOUS
    <3>4. Transformed(sample, stage) = [sample EXCEPT !.frames = frames]
      BY <2>2, <3>1, <3>3 DEF Transformed, Sample, Accepted
    <3>5. /\ result.predicted.frames = frames /\ result.predicted.target = sample.target
          /\ result.truth = sample
      BY <3>1, <3>2, <3>4 DEF Answered, Sample
    <3>6. Head(frames) = Head(sample.frames) /\ Last(frames) = Last(sample.frames)
      <4>1. CASE stage = "chronological"
        <5>1. frames = Sorted(sample.frames)
          BY <3>1, <3>3, <4>1 DEF Transformed, Sample
        <5> QED
          BY <3>1, <5>1, ReversedIsAccepted
      <4>2. CASE stage = "duplicated_frame"
        <5>1. frames = Append(sample.frames, Last(sample.frames)) /\ sample.frames # << >>
          BY <3>1, <3>3, <4>2 DEF Transformed, Sample, Accepted
        <5>2. PICK m \in Nat : sample.frames \in [1..m -> Times]
          BY <3>1 DEF Sample, Frames, SeqOf
        <5> QED
          BY <5>1, <5>2 DEF Last
      <4> QED
        BY <2>2, <4>1, <4>2
    <3>7. sample.target # NoTarget
      BY <3>1 DEF Accepted
    <3> QED
      BY <3>5, <3>6, <3>7 DEF FullMarks
  <2> QED
    BY <2>1, <2>2 DEF ControlsAreFair
<1> QED
  BY ControlsInvHolds, <1>1, PTL
=============================================================================
