---------------------------- MODULE ExperimentRuns ----------------------------
(***************************************************************************)
(* Experiments of the web console: the requests that start and cancel      *)
(* them, the background thread of each, the slot that admits one at a      *)
(* time, and the records they write.  One kind runs over an extracted      *)
(* dataset, the other over frames of a sequence.  Runs of other kinds are  *)
(* recorded meanwhile, and finished runs are reviewed.                     *)
(*                                                                         *)
(* Each action is one critical section, one operation of the run store or  *)
(* of the file system, or one frame.  An operation on a file may fail.     *)
(***************************************************************************)
EXTENDS RunStore, ExperimentEngine

CONSTANTS
  OfSequence,  \* experiments of /api/sequences/experiment; others use a dataset
  NoRun,
  MaxFaults    \* bound: failures of file operations

ASSUME ExperimentAssumption ==
  /\ Experiments \subseteq AllRuns
  /\ OfSequence \subseteq Experiments
  /\ NoRun \notin AllRuns
  /\ MaxFaults \in Nat

VARIABLES
  active,      \* _active_experiment_id
  events,      \* the runs in _experiment_cancel_events
  cancelling,  \* runs whose event a cancel request holds and has not set yet
  cancelled,   \* runs whose event is set
  handler,     \* places of the threads: of the request that starts a run
  worker,      \*   and of its background thread
  verdict,     \* final status, once decided
  reviewing,   \* finished runs a review of which is about to be written
  others,      \* runs of other kinds that were recorded
  faults       \* failures so far

slotVars == <<active, events>>
cancelVars == <<cancelling, cancelled>>
placeVars == <<handler, worker, verdict>>
outsideVars == <<reviewing, others>>

vars ==
  <<storeVars, engineVars, slotVars, cancelVars, placeVars, outsideVars, faults>>

ExperimentInit ==
  /\ StoreInit
  /\ EngineInit
  /\ active = NoRun
  /\ events = {} /\ cancelling = {} /\ cancelled = {}
  /\ handler = [r \in Experiments |-> "idle"]
  /\ worker = [r \in Experiments |-> "none"]
  /\ verdict = [r \in Experiments |-> "none"]
  /\ reviewing = {} /\ others = {}
  /\ faults = 0

Fails == faults < MaxFaults /\ faults' = faults + 1

Works == UNCHANGED faults

(* mkdir of a directory inside the one of a run.                             *)
MakeDirectory(r) ==
  /\ dirs' = IF r \in ToSet(dirs) THEN dirs ELSE Append(dirs, r)
  /\ UNCHANGED manifest

-----------------------------------------------------------------------------
(* The request that starts a run.  An exception after the claim ends it with *)
(* the slot taken.                                                           *)
HandlerGoes(r, from, to) ==
  /\ handler[r] = from
  /\ handler' = [handler EXCEPT ![r] = to]
  /\ UNCHANGED <<engineVars, cancelVars, verdict, outsideVars>>

OnlyHandler == UNCHANGED <<storeVars, slotVars, worker>>

(* The early gate, then the validation of the request and the frames of a    *)
(* sequence; either may end it, and so may the second look at the slot.      *)
Gate(r) ==
  /\ active = NoRun
  /\ HandlerGoes(r, "idle", "checked")
  /\ Works /\ OnlyHandler

Reject(r) ==
  /\ \/ HandlerGoes(r, "idle", "rejected")
     \/ HandlerGoes(r, "checked", "rejected")
  /\ Works /\ OnlyHandler

\* Mutant: the gate has looked already.
ClaimUnseen(r) ==
  /\ HandlerGoes(r, "checked", "claimed")
  /\ active' = r
  /\ Works /\ UNCHANGED <<storeVars, events, worker>>

Claim(r) ==
  /\ active = NoRun
  /\ HandlerGoes(r, "checked", "claimed")
  /\ active' = r
  /\ Works /\ UNCHANGED <<storeVars, events, worker>>

(* The directory of the artifacts, of the first kind only.                   *)
MakeArtifacts(r) ==
  /\ r \notin OfSequence
  /\ HandlerGoes(r, "claimed", "made")
  /\ MakeDirectory(r)
  /\ Works /\ UNCHANGED <<slotVars, worker>>

Register(r) ==
  /\ HandlerGoes(r, IF r \in OfSequence THEN "claimed" ELSE "made", "registered")
  /\ events' = events \cup {r}
  /\ Works /\ UNCHANGED <<storeVars, active, worker>>

Record(r) ==
  /\ \/ r \in OfSequence /\ HandlerGoes(r, "registered", "recorded") /\ SaveRun(r, "starting")
     \/ r \notin OfSequence /\ HandlerGoes(r, "registered", "saved") /\ SaveRun(r, "running")
  /\ Works /\ UNCHANGED <<slotVars, worker>>

Advance(r) ==
  /\ HandlerGoes(r, "recorded", "saved")
  /\ UpdateRunIfStatus(r, "starting", "running")
  /\ Works /\ UNCHANGED <<slotVars, worker>>

Launch(r) ==
  /\ HandlerGoes(r, "saved", "launched")
  /\ worker' = [worker EXCEPT ![r] = "begin"]
  /\ Works /\ UNCHANGED <<storeVars, slotVars>>

HandlerFails(r) ==
  /\ \/ r \notin OfSequence /\ HandlerGoes(r, "claimed", "unrecorded")
     \/ HandlerGoes(r, "registered", "unrecorded")
     \/ HandlerGoes(r, "recorded", "abandoned")
  /\ Fails /\ OnlyHandler

HandlerStep(r) ==
  \/ Gate(r) \/ Reject(r) \/ Claim(r) \/ MakeArtifacts(r) \/ Register(r)
  \/ Record(r) \/ Advance(r) \/ Launch(r)

-----------------------------------------------------------------------------
(* The background thread.                                                    *)
WorkerGoes(r, from, to) ==
  /\ worker[r] = from
  /\ worker' = [worker EXCEPT ![r] = to]
  /\ UNCHANGED <<cancelVars, handler, outsideVars>>

KeepVerdict == UNCHANGED <<verdict, engineVars>>

Quietly == Works /\ KeepVerdict /\ UNCHANGED <<storeVars, slotVars>>

(* run_experiment makes the directory again if it was evicted.               *)
Begin(r) ==
  /\ WorkerGoes(r, "begin", "loop")
  /\ IF r \in OfSequence THEN UNCHANGED storeVars ELSE MakeDirectory(r)
  /\ Works /\ KeepVerdict /\ UNCHANGED slotVars

NextFrame(r) ==
  /\ r \notin cancelled /\ done[r] < Frames[r]
  /\ WorkerGoes(r, "loop", "infer")
  /\ Quietly

Infer(r) ==
  /\ WorkerGoes(r, "infer", IF r \in OfSequence THEN "loop" ELSE "report")
  /\ \E ok \in BOOLEAN, length \in Lengths : RunFrame(r, ok, length)
  /\ Works /\ UNCHANGED <<verdict, storeVars, slotVars>>

(* on_frame: the progress, in the record if it is still there.               *)
\* Mutant: a record is written whatever was there.
ReportFrameAnyway(r) ==
  /\ WorkerGoes(r, "report", "loop")
  /\ WriteStatus(r, "running")
  /\ Works /\ KeepVerdict /\ UNCHANGED slotVars

ReportFrame(r) ==
  /\ WorkerGoes(r, "report", "loop")
  /\ UpdateRunIfStatus(r, "running", "running")
  /\ Works /\ KeepVerdict /\ UNCHANGED slotVars

(* The artifacts need their directory, which eviction removes.               *)
EndLoop(r) ==
  /\ r \in cancelled \/ done[r] = Frames[r]
  /\ \/ r \in OfSequence /\ WorkerGoes(r, "loop", "free")
     \/ r \notin OfSequence /\ r \in ToSet(dirs) /\ WorkerGoes(r, "loop", "decide")
     \/ r \notin OfSequence /\ r \notin ToSet(dirs) /\ WorkerGoes(r, "loop", "raised")
  /\ LeaveEngine(r)
  /\ Works /\ UNCHANGED <<verdict, storeVars, slotVars>>

(* Running the client, a file operation inside run_experiment, or the last   *)
(* one of finalize_run.                                                      *)
WorkerRaises(r) ==
  /\ \/ WorkerGoes(r, "infer", "raised")
     \/ /\ r \notin OfSequence
        /\ \E from \in {"begin", "report", "loop", "finalize"} : WorkerGoes(r, from, "raised")
  /\ LeaveEngine(r)
  /\ Fails /\ UNCHANGED <<verdict, storeVars, slotVars>>

(* An evicted record has nothing to be read or written, so nothing fails.    *)
\* Mutant: the exception is only logged.
RecordNoFailure(r) ==
  /\ WorkerGoes(r, "raised", "free")
  /\ verdict' = [verdict EXCEPT ![r] = "failed"]
  /\ Works /\ UNCHANGED <<storeVars, engineVars, slotVars>>

RecordFailure(r) ==
  /\ WorkerGoes(r, "raised", "free")
  /\ \/ FinalizeRun(r, "failed") /\ Works
     \/ manifest[r] # "none" /\ UNCHANGED storeVars /\ Fails
  /\ verdict' = [verdict EXCEPT ![r] = "failed"]
  /\ UNCHANGED <<engineVars, slotVars>>

(* The event may be set when every frame is done.                            *)
\* Mutant: whether the loop was broken is not looked at.
DecideCompleted(r) ==
  /\ WorkerGoes(r, "decide", "finalize")
  /\ verdict' = [verdict EXCEPT ![r] = "completed"]
  /\ Works /\ UNCHANGED <<engineVars, storeVars, slotVars>>

Decide(r) ==
  /\ WorkerGoes(r, "decide", "finalize")
  /\ verdict' = [verdict EXCEPT ![r] =
                   IF r \notin cancelled THEN "completed"
                   ELSE IF r \in OfSequence THEN "cancelled" ELSE "stopped"]
  /\ Works /\ UNCHANGED <<engineVars, storeVars, slotVars>>

(* A failure here ends the thread of the second kind without a record.       *)
Finalize(r) ==
  /\ WorkerGoes(r, "finalize", IF r \in OfSequence THEN "done" ELSE "free")
  /\ \/ FinalizeRun(r, verdict[r]) /\ Works
     \/ r \in OfSequence /\ manifest[r] # "none" /\ UNCHANGED storeVars /\ Fails
  /\ KeepVerdict /\ UNCHANGED slotVars

\* Mutant: after a failure the slot is not given back.
FreeOnSuccess(r) ==
  /\ WorkerGoes(r, "free", "forget")
  /\ active' = IF active = r /\ verdict[r] # "failed" THEN NoRun ELSE active
  /\ Works /\ KeepVerdict /\ UNCHANGED <<storeVars, events>>

(* The finally block: before the record is final, of the second kind.        *)
Free(r) ==
  /\ WorkerGoes(r, "free", "forget")
  /\ active' = IF active = r THEN NoRun ELSE active
  /\ Works /\ KeepVerdict /\ UNCHANGED <<storeVars, events>>

Forget(r) ==
  /\ WorkerGoes(r, "forget", IF r \in OfSequence /\ verdict[r] # "failed" THEN "decide" ELSE "done")
  /\ events' = events \ {r}
  /\ Works /\ KeepVerdict /\ UNCHANGED <<storeVars, active>>

WorkerStep(r) ==
  \/ Begin(r) \/ NextFrame(r) \/ Infer(r) \/ ReportFrame(r) \/ EndLoop(r)
  \/ RecordFailure(r) \/ Decide(r) \/ Finalize(r) \/ Free(r) \/ Forget(r)

-----------------------------------------------------------------------------
(* _api_experiment_cancel: the lookup under its lock, then the event.        *)
FindEvent(r) ==
  /\ r \in events
  /\ cancelling' = cancelling \cup {r}
  /\ UNCHANGED <<storeVars, engineVars, slotVars, cancelled, placeVars, outsideVars, faults>>

SetEvent(r) ==
  /\ r \in cancelling
  /\ cancelling' = cancelling \ {r}
  /\ cancelled' = cancelled \cup {r}
  /\ UNCHANGED <<storeVars, engineVars, slotVars, placeVars, outsideVars, faults>>

(* _api_upsert_review: a run is looked at, and its review written later,     *)
(* into a directory that is made again if it has gone.                       *)
OpenReview(r) ==
  /\ manifest[r] \in Terminal
  /\ reviewing' = reviewing \cup {r}
  /\ UNCHANGED <<storeVars, engineVars, slotVars, cancelVars, placeVars, others, faults>>

WriteReview(r) ==
  /\ r \in reviewing
  /\ reviewing' = reviewing \ {r}
  /\ dirs' = Touched(r)
  /\ UNCHANGED <<manifest, engineVars, slotVars, cancelVars, placeVars, others, faults>>

(* A run of another kind: ConsoleRuns says what becomes of it.               *)
RecordOther(r) ==
  /\ r \in AllRuns \ (Experiments \cup others)
  /\ others' = others \cup {r}
  /\ SaveRun(r, "starting")
  /\ UNCHANGED <<engineVars, slotVars, cancelVars, placeVars, reviewing, faults>>

ExperimentNext ==
  \/ \E r \in Experiments :
       HandlerStep(r) \/ HandlerFails(r) \/ WorkerStep(r) \/ WorkerRaises(r)
       \/ FindEvent(r) \/ SetEvent(r)
  \/ \E r \in AllRuns : OpenReview(r) \/ WriteReview(r) \/ RecordOther(r)

ExperimentSpec == ExperimentInit /\ [][ExperimentNext]_vars

(* Threads are scheduled, a request that has arrived goes on, and inferences *)
(* return, since their client is killed after the timeout.                   *)
Scheduled(r) == WorkerStep(r) \/ (handler[r] # "idle" /\ HandlerStep(r))

FairExperimentSpec ==
  ExperimentSpec /\ \A r \in Experiments : WF_vars(Scheduled(r))

-----------------------------------------------------------------------------
InExperiment(r) == worker[r] \in {"begin", "loop", "infer", "report"}

(* At most one experiment runs, although each request looks at the slot      *)
(* twice, and gives it back in another thread.                               *)
OneExperiment == \A q, r \in Experiments : InExperiment(q) /\ InExperiment(r) => q = r

(* A run that is recorded as completed had all its frames, and one that is   *)
(* recorded as stopped or cancelled was asked to.                            *)
StatusTellsExperiment ==
  \A r \in Experiments :
    /\ manifest[r] = "completed" => done[r] = Frames[r]
    /\ manifest[r] \in {"stopped", "cancelled"} => r \in cancelled

Begun ==
  others \cup
  { r \in Experiments : handler[r] \in {"recorded", "saved", "launched", "abandoned"} }

Life ==
  [r \in AllRuns |-> IF manifest[r] = "none" THEN (IF r \in Begun THEN "evicted" ELSE "new")
                     ELSE IF manifest[r] = "cancelled" THEN "stopped" ELSE manifest[r]]

(* The record of an experiment goes forward to one final status and, once    *)
(* evicted, is not brought back by what still runs or is still written.      *)
Lifecycle == INSTANCE RunLifecycle WITH Run <- AllRuns, Limit <- MaxRuns, life <- Life

ImplementsRunLifecycle == Lifecycle!LifecycleSpec

(* The slot is given back, unless a file operation failed between the claim  *)
(* and the start of the background thread.                                   *)
SlotComesBack ==
  \A r \in Experiments :
    (active = r) ~> (active # r \/ handler[r] \in {"unrecorded", "abandoned"})

(* Every experiment that was launched ends, with a record that says so; over *)
(* a dataset even if one file operation fails.                               *)
EveryExperimentEnds ==
  \A r \in Experiments :
    (handler[r] = "launched")
      ~> /\ worker[r] = "done"
         /\ \/ manifest[r] \in Terminal \cup {"cancelled", "none"}
            \/ faults > IF r \in OfSequence THEN 0 ELSE 1

(* An experiment that ends leaves a record and the slot.                     *)
ExperimentsMakeWay == SlotComesBack /\ EveryExperimentEnds

(* finalize_run asks for one of the terminal states: "transition a run from  *)
(* any non-terminal state to a terminal state" (run_store.py:94).  It does   *)
(* not hold: see the README.                                                 *)
EndedRunIsTerminal ==
  \A r \in Experiments : worker[r] = "done" => manifest[r] \in Terminal \cup {"none"}
=============================================================================
