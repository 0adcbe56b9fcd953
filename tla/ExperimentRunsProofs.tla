-------------------------- MODULE ExperimentRunsProofs -------------------------
(***************************************************************************)
(* Theorems about the console's experiments, for any number of them of     *)
(* either kind and any number of failing file operations.                  *)
(***************************************************************************)
EXTENDS ExperimentRuns, RunStoreProofs

(* The threads that have the slot.                                           *)
HandlerHolds(r) == handler[r] \in {"claimed", "made", "registered", "recorded", "saved"}

WorkerHolds(r) ==
  \/ worker[r] \in {"begin", "loop", "infer", "report", "raised", "free"}
  \/ r \notin OfSequence /\ worker[r] \in {"decide", "finalize"}

Places ==
  /\ DOMAIN handler = Experiments
  /\ DOMAIN worker = Experiments
  /\ \A r \in Experiments : worker[r] # "none" => handler[r] = "launched"

Slot == \A r \in Experiments : HandlerHolds(r) \/ WorkerHolds(r) => active = r

Inv == Places /\ Slot
-----------------------------------------------------------------------------
(* No request has been made.                                                 *)
LEMMA Initially == ExperimentInit => Inv
BY DEF ExperimentInit, Inv, Places, Slot, HandlerHolds, WorkerHolds

(* A request takes the slot only when it is free, and hands it to its thread.*)
LEMMA HandlerKeepsSlot ==
  ASSUME Inv, NEW r \in Experiments, HandlerStep(r) \/ HandlerFails(r)
  PROVE  Inv'
<1> USE ExperimentAssumption DEF Inv, Places, Slot, HandlerHolds, WorkerHolds, HandlerGoes,
      OnlyHandler, slotVars
<1>1. CASE Gate(r) \/ Reject(r) \/ HandlerFails(r)
  BY <1>1 DEF Gate, Reject, HandlerFails
<1>2. CASE Claim(r)
  BY <1>2 DEF Claim
<1>3. CASE MakeArtifacts(r) \/ Register(r) \/ Record(r) \/ Advance(r)
  BY <1>3 DEF MakeArtifacts, Register, Record, Advance
<1>4. CASE Launch(r)
  BY <1>4 DEF Launch
<1> QED
  BY <1>1, <1>2, <1>3, <1>4 DEF HandlerStep

(* The thread gives it back when it is the one that has it.                  *)
LEMMA WorkerKeepsSlot ==
  ASSUME Inv, NEW r \in Experiments, WorkerStep(r) \/ WorkerRaises(r)
  PROVE  Inv'
<1> USE DEF Inv, Places, Slot, HandlerHolds, WorkerHolds, WorkerGoes, slotVars
<1>1. CASE Begin(r) \/ NextFrame(r) \/ Infer(r) \/ ReportFrame(r)
  BY <1>1 DEF Begin, NextFrame, Infer, ReportFrame, Quietly
<1>2. CASE EndLoop(r) \/ WorkerRaises(r)
  BY <1>2 DEF EndLoop, WorkerRaises
<1>3. CASE RecordFailure(r) \/ Decide(r) \/ Finalize(r)
  BY <1>3 DEF RecordFailure, Decide, Finalize
<1>4. CASE Free(r)
  BY <1>4 DEF Free
<1>5. CASE Forget(r)
  BY <1>5 DEF Forget
<1> QED
  BY <1>1, <1>2, <1>3, <1>4, <1>5 DEF WorkerStep

(* Cancel requests, reviews and other runs leave it alone.                   *)
LEMMA OutsideKeepsSlot ==
  ASSUME Inv, UNCHANGED <<active, handler, worker>>
  PROVE  Inv'
BY DEF Inv, Places, Slot, HandlerHolds, WorkerHolds

(* What is not a step of the threads of a run.                               *)
Outside ==
  \/ \E r \in Experiments : FindEvent(r) \/ SetEvent(r)
  \/ \E r \in AllRuns : OpenReview(r) \/ WriteReview(r) \/ RecordOther(r)
  \/ UNCHANGED vars

LEMMA OutsideChanges ==
  Outside => UNCHANGED <<active, handler, worker, done, verdict>> /\ cancelled \subseteq cancelled'
BY DEF Outside, FindEvent, SetEvent, OpenReview, WriteReview, RecordOther, vars, slotVars,
   placeVars, engineVars, cancelVars

LEMMA InvHolds == ExperimentSpec => []Inv
<1>1. Inv /\ [ExperimentNext]_vars => Inv'
  <2> SUFFICES ASSUME Inv, [ExperimentNext]_vars PROVE Inv'
    OBVIOUS
  <2>1. CASE \E r \in Experiments : HandlerStep(r) \/ HandlerFails(r)
    BY <2>1, HandlerKeepsSlot
  <2>2. CASE \E r \in Experiments : WorkerStep(r) \/ WorkerRaises(r)
    BY <2>2, WorkerKeepsSlot
  <2>3. CASE Outside
    BY <2>3, OutsideChanges, OutsideKeepsSlot
  <2> QED
    BY <2>1, <2>2, <2>3 DEF ExperimentNext, Outside
<1> QED
  BY Initially, <1>1, PTL DEF ExperimentSpec

(* At most one experiment runs, whoever looks at the slot and gives it back. *)
THEOREM OneExperimentHolds == ExperimentSpec => []OneExperiment
<1>1. Inv => OneExperiment
  BY DEF Inv, Slot, WorkerHolds, OneExperiment, InExperiment
<1> QED
  BY InvHolds, <1>1, PTL

-----------------------------------------------------------------------------
(* Why the loop of a run ended, if it was not by an exception.               *)
Over(r) == done[r] = Frames[r] \/ r \in cancelled

(* What a status says of a run.                                              *)
Says(status, r) ==
  /\ status = "completed" => done[r] = Frames[r]
  /\ status \in {"stopped", "cancelled"} => r \in cancelled

Counts ==
  /\ done \in [Experiments -> Nat]
  /\ DOMAIN verdict = Experiments
  /\ \A r \in Experiments : verdict[r] \in {"none", "completed", "stopped", "cancelled", "failed"}

(* Over a sequence the slot is given back before the status is decided.      *)
Ends ==
  \A r \in Experiments :
    /\ worker[r] = "decide" => Over(r)
    /\ worker[r] \in {"free", "forget"} /\ verdict[r] # "failed" => Over(r)
    /\ worker[r] = "finalize" =>
         verdict[r] \in {"completed", "stopped", "cancelled"} /\ Says(verdict[r], r)

Told == \A r \in Experiments : Says(manifest[r], r)

TellInv == Counts /\ Ends /\ Told /\ manifest \in Manifests

(* No run has a manifest.                                                    *)
LEMMA TellsInitially == ExperimentInit => TellInv
BY ExperimentAssumption
   DEF ExperimentInit, EngineInit, StoreInit, TellInv, Counts, Ends, Told, Says, Manifests, Statuses

(* The request only records that the run begins.                             *)
LEMMA HandlerTells ==
  ASSUME Inv, TellInv, NEW r \in Experiments, HandlerStep(r) \/ HandlerFails(r)
  PROVE  TellInv'
<1>1. UNCHANGED <<done, verdict, cancelled>>
  BY DEF HandlerStep, HandlerFails, Gate, Reject, Claim, MakeArtifacts, Register, Record, Advance,
     Launch, HandlerGoes, engineVars, cancelVars
<1>2. \A q \in Experiments : worker'[q] = worker[q] \/ worker'[q] = "begin"
  BY DEF HandlerStep, HandlerFails, Gate, Reject, Claim, MakeArtifacts, Register, Record, Advance,
     Launch, OnlyHandler, Inv, Places
<1>3. Counts' /\ Ends'
  BY <1>1, <1>2 DEF TellInv, Counts, Ends, Over, Says
<1>4. /\ manifest' \in Manifests
      /\ \A q \in AllRuns : manifest'[q] \in {"none", "starting", "running", manifest[q]}
  <2>1. CASE Record(r)
    BY <2>1, Saved, ExperimentAssumption DEF Record, TellInv, Statuses
  <2>2. CASE Advance(r)
    BY <2>2, Updated, ExperimentAssumption DEF Advance, TellInv, Statuses
  <2>3. CASE UNCHANGED manifest
    BY <2>3 DEF TellInv
  <2> QED
    BY <2>1, <2>2, <2>3
       DEF HandlerStep, HandlerFails, Gate, Reject, Claim, MakeArtifacts, MakeDirectory, Register,
           Launch, OnlyHandler, storeVars
<1>5. Told'
  BY <1>1, <1>4, ExperimentAssumption DEF TellInv, Told, Says
<1> QED
  BY <1>3, <1>4, <1>5 DEF TellInv

(* A frame is run only when there is one more.                               *)
LEMMA FrameTells ==
  ASSUME Inv, TellInv, NEW r \in Experiments, Infer(r)
  PROVE  TellInv'
<1> USE DEF Infer, RunFrame, WorkerGoes, cancelVars
<1>1. /\ done' \in [Experiments -> Nat]
      /\ \A q \in Experiments : q # r => done'[q] = done[q]
      /\ done[r] # Frames[r]
  BY EngineAssumption DEF TellInv, Counts
<1>2. worker'[r] \in {"loop", "report"} /\ \A q \in Experiments : q # r => worker'[q] = worker[q]
  BY DEF Inv, Places
<1>3. Counts' /\ Ends'
  BY <1>1, <1>2 DEF TellInv, Counts, Ends, Over, Says
<1>4. Told' /\ manifest' \in Manifests
  BY <1>1 DEF TellInv, Told, Says, storeVars
<1> QED
  BY <1>3, <1>4 DEF TellInv

(* The other steps of the thread that leave the manifest or write "running". *)
LEMMA LoopTells ==
  ASSUME Inv, TellInv, NEW r \in Experiments,
         Begin(r) \/ NextFrame(r) \/ ReportFrame(r) \/ EndLoop(r) \/ WorkerRaises(r)
  PROVE  TellInv'
<1>1. UNCHANGED <<done, verdict, cancelled>>
  BY DEF Begin, NextFrame, ReportFrame, EndLoop, WorkerRaises, WorkerGoes, KeepVerdict, Quietly,
     LeaveEngine, engineVars, cancelVars
<1>2. /\ \A q \in Experiments : q # r => worker'[q] = worker[q]
      /\ worker'[r] \in {"loop", "infer", "raised", "free", "decide"}
      /\ worker'[r] \in {"free", "decide"} => Over(r)
  BY DEF Begin, NextFrame, ReportFrame, EndLoop, WorkerRaises, WorkerGoes, Quietly, Inv, Places, Over
<1>3. Counts' /\ Ends'
  BY <1>1, <1>2 DEF TellInv, Counts, Ends, Over, Says
<1>4. /\ manifest' \in Manifests
      /\ \A q \in AllRuns : manifest'[q] \in {"running", manifest[q]}
  <2>1. CASE ReportFrame(r)
    BY <2>1, Updated, ExperimentAssumption DEF ReportFrame, TellInv, Statuses
  <2>2. CASE UNCHANGED manifest
    BY <2>2 DEF TellInv
  <2> QED
    BY <2>1, <2>2 DEF Begin, NextFrame, EndLoop, WorkerRaises, Quietly, MakeDirectory, storeVars
<1>5. Told'
  BY <1>1, <1>4, ExperimentAssumption DEF TellInv, Told, Says
<1> QED
  BY <1>3, <1>4, <1>5 DEF TellInv

(* The status is decided from the event and written as decided.              *)
LEMMA EndTells ==
  ASSUME Inv, TellInv, NEW r \in Experiments,
         RecordFailure(r) \/ Decide(r) \/ Finalize(r) \/ Free(r) \/ Forget(r)
  PROVE  TellInv'
<1>1. UNCHANGED <<done, cancelled>>
  BY DEF RecordFailure, Decide, Finalize, Free, Forget, WorkerGoes, KeepVerdict, engineVars,
     cancelVars
<1>2. CASE RecordFailure(r)
  <2>1. /\ manifest' \in Manifests
        /\ \A q \in AllRuns : manifest'[q] \in {"failed", manifest[q]}
    BY <1>2, Finalized, ExperimentAssumption DEF RecordFailure, TellInv, Statuses, Terminal, storeVars
  <2>2. Told'
    BY <1>1, <2>1, ExperimentAssumption DEF TellInv, Told, Says
  <2>3. Counts' /\ Ends'
    BY <1>1, <1>2 DEF RecordFailure, WorkerGoes, TellInv, Counts, Ends, Over, Says, Inv, Places
  <2> QED
    BY <2>1, <2>2, <2>3 DEF TellInv
<1>3. CASE Decide(r)
  <2>1. verdict'[r] \in {"completed", "stopped", "cancelled"} /\ Says(verdict'[r], r)
    BY <1>3 DEF Decide, WorkerGoes, TellInv, Counts, Ends, Over, Says
  <2>2. Counts' /\ Ends'
    BY <1>1, <1>3, <2>1 DEF Decide, WorkerGoes, TellInv, Counts, Ends, Over, Says, Inv, Places
  <2> QED
    BY <1>1, <1>3, <2>2 DEF Decide, TellInv, Told, Says, storeVars
<1>4. CASE Finalize(r)
  <2>1. Says(verdict[r], r) /\ verdict[r] \in Statuses
    BY <1>4 DEF Finalize, WorkerGoes, TellInv, Counts, Ends, Statuses, Terminal
  <2>2. /\ manifest' \in Manifests
        /\ \A q \in AllRuns : manifest'[q] = manifest[q] \/ (q = r /\ manifest'[q] = verdict[r])
    BY <1>4, <2>1, Finalized, ExperimentAssumption DEF Finalize, TellInv, storeVars
  <2>3. Told'
    BY <1>1, <2>1, <2>2, ExperimentAssumption DEF TellInv, Told, Says
  <2>4. /\ UNCHANGED verdict
        /\ \A q \in Experiments : q # r => worker'[q] = worker[q]
        /\ worker'[r] \in {"free", "done"}
    BY <1>4 DEF Finalize, KeepVerdict, WorkerGoes, Inv, Places
  <2>5. verdict[r] # "failed" => Over(r)
    BY <2>1, <1>4 DEF TellInv, Counts, Ends, Finalize, WorkerGoes, Over, Says
  <2>6. Counts' /\ Ends'
    BY <1>1, <2>4, <2>5 DEF TellInv, Counts, Ends, Over, Says
  <2> QED
    BY <2>2, <2>3, <2>6 DEF TellInv
<1>5. CASE Free(r) \/ Forget(r)
  <2>1. UNCHANGED <<manifest, verdict>>
    BY <1>5 DEF Free, Forget, KeepVerdict, storeVars
  <2>2. Counts' /\ Ends'
    BY <1>1, <1>5, <2>1 DEF Free, Forget, WorkerGoes, TellInv, Counts, Ends, Over, Says, Inv, Places
  <2> QED
    BY <1>1, <2>1, <2>2 DEF TellInv, Told, Says
<1> QED
  BY <1>2, <1>3, <1>4, <1>5

(* A set event stays set, and another run only evicts.                       *)
LEMMA OutsideTells ==
  ASSUME Inv, TellInv, Outside
  PROVE  TellInv'
<1>1. UNCHANGED <<worker, done, verdict>> /\ cancelled \subseteq cancelled'
  BY OutsideChanges
<1>2. Counts' /\ Ends'
  BY <1>1 DEF TellInv, Counts, Ends, Over, Says
<1>3. /\ manifest' \in Manifests
      /\ \A q \in AllRuns : manifest'[q] \in {"none", "starting", manifest[q]}
  <2>1. ASSUME NEW r \in AllRuns, RecordOther(r) PROVE <1>3
    BY <2>1, Saved DEF RecordOther, TellInv, Statuses
  <2>2. CASE UNCHANGED manifest
    BY <2>2 DEF TellInv
  <2> QED
    BY <2>1, <2>2 DEF Outside, FindEvent, SetEvent, OpenReview, WriteReview, vars, storeVars
<1>4. Told'
  BY <1>1, <1>3, ExperimentAssumption DEF TellInv, Told, Says
<1> QED
  BY <1>2, <1>3, <1>4 DEF TellInv

(* A run recorded as completed had all its frames; one recorded as stopped   *)
(* or cancelled was asked to stop.                                           *)
THEOREM StatusTellsExperimentHolds == ExperimentSpec => []StatusTellsExperiment
<1>1. Inv /\ TellInv /\ [ExperimentNext]_vars => TellInv'
  <2> SUFFICES ASSUME Inv, TellInv, [ExperimentNext]_vars PROVE TellInv'
    OBVIOUS
  <2>1. CASE \E r \in Experiments : HandlerStep(r) \/ HandlerFails(r)
    BY <2>1, HandlerTells
  <2>2. CASE \E r \in Experiments : WorkerStep(r) \/ WorkerRaises(r)
    BY <2>2, FrameTells, LoopTells, EndTells DEF WorkerStep
  <2>3. CASE Outside
    BY <2>3, OutsideTells
  <2> QED
    BY <2>1, <2>2, <2>3 DEF ExperimentNext, Outside
<1>2. TellInv => StatusTellsExperiment
  BY DEF TellInv, Told, Says, StatusTellsExperiment
<1> QED
  BY InvHolds, TellsInitially, <1>1, <1>2, PTL DEF ExperimentSpec
-----------------------------------------------------------------------------
(* Only runs that were begun have a record, and one that says cancelled is   *)
(* the last that the thread of an experiment over a sequence wrote.          *)
RecordInv ==
  /\ dirs \in Seq(AllRuns)
  /\ others \subseteq AllRuns \ Experiments
  /\ \A q \in AllRuns : manifest[q] # "none" => q \in Begun
  /\ \A q \in AllRuns : manifest[q] = "cancelled" => q \in Experiments /\ worker[q] = "done"
  /\ \A r \in Experiments : verdict[r] = "cancelled" => r \in OfSequence

(* A step of the abstract specification, or none.                            *)
LifeMoves == Lifecycle!LifecycleNext \/ UNCHANGED Life

(* There is no record.                                                       *)
LEMMA RecordsInitially == ExperimentInit => RecordInv /\ Lifecycle!LifecycleInit
<1> SUFFICES ASSUME ExperimentInit PROVE RecordInv /\ Lifecycle!LifecycleInit
  OBVIOUS
<1>1. dirs \in Seq(AllRuns)
  <2>1. << >> \in Seq(AllRuns)
    OBVIOUS
  <2> QED
    BY <2>1 DEF ExperimentInit, StoreInit
<1>2. Begun = {} /\ \A q \in AllRuns : manifest[q] = "none"
  BY DEF ExperimentInit, StoreInit, Begun
<1>3. RecordInv
  BY <1>1, <1>2 DEF ExperimentInit, RecordInv
<1>4. Lifecycle!LifecycleInit
  BY <1>2 DEF Lifecycle!LifecycleInit, Life
<1> QED
  BY <1>3, <1>4

(* Recording a run, and evicting others.                                     *)
LEMMA RecordMoves ==
  ASSUME TellInv, RecordInv, NEW r \in AllRuns, r \notin Begun,
         NEW status \in {"starting", "running"}, SaveRun(r, status), Begun' = Begun \cup {r}
  PROVE  /\ LifeMoves
         /\ dirs' \in Seq(AllRuns)
         /\ \A q \in AllRuns : manifest'[q] # "none" => q \in Begun'
         /\ \A q \in AllRuns : manifest'[q] = "cancelled" => manifest[q] = "cancelled"
<1>1. /\ manifest[r] = "none" /\ manifest \in Manifests /\ dirs \in Seq(AllRuns)
      /\ status \in Statuses
  BY DEF RecordInv, TellInv, Statuses
<1>2. /\ dirs' \in Seq(AllRuns)
      /\ \E evicted \in SUBSET { q \in AllRuns : manifest[q] # "none" } :
           /\ Cardinality({ q \in AllRuns : manifest[q] # "none" } \ evicted) < MaxRuns
           /\ manifest' = [q \in AllRuns |-> IF q = r THEN status
                                            ELSE IF q \in evicted THEN "none"
                                            ELSE manifest[q]]
  BY <1>1, SavedAmongFew
<1>3. PICK evicted \in SUBSET { q \in AllRuns : manifest[q] # "none" } :
        /\ Cardinality({ q \in AllRuns : manifest[q] # "none" } \ evicted) < MaxRuns
        /\ manifest' = [q \in AllRuns |-> IF q = r THEN status
                                         ELSE IF q \in evicted THEN "none"
                                         ELSE manifest[q]]
  BY <1>2
<1>4. Lifecycle!Recorded = { q \in AllRuns : manifest[q] # "none" }
  BY <1>1 DEF Lifecycle!Recorded, Life, Manifests, Statuses, Terminal
<1>5. Lifecycle!Record(r, evicted, status)
  <2>1. Life[r] = "new"
    BY <1>1 DEF Life
  <2>2. Life' = [q \in AllRuns |-> IF q = r THEN status
                                  ELSE IF q \in evicted THEN "evicted" ELSE Life[q]]
    <3>1. Life' = [q \in AllRuns |->
                     IF manifest'[q] = "none" THEN (IF q \in Begun \cup {r} THEN "evicted" ELSE "new")
                     ELSE IF manifest'[q] = "cancelled" THEN "stopped" ELSE manifest'[q]]
      BY DEF Life
    <3>2. \A q \in evicted : q \in Begun
      BY DEF RecordInv
    <3> QED
      BY <1>3, <3>1, <3>2 DEF Life
  <2>3. evicted \subseteq Lifecycle!Recorded /\ Cardinality(Lifecycle!Recorded \ evicted) < MaxRuns
    BY <1>3, <1>4
  <2> QED
    BY <2>1, <2>2, <2>3, Zenon DEF Lifecycle!Record, Lifecycle!Cardinality, Cardinality
<1>6. LifeMoves
  BY <1>3, <1>4, <1>5 DEF LifeMoves, Lifecycle!LifecycleNext
<1> QED
  BY <1>2, <1>3, <1>6 DEF RecordInv

(* Writing a later status over one that is not final.                        *)
LEMMA WriteMoves ==
  ASSUME TellInv, NEW r \in Experiments,
         NEW status \in {"running"} \cup Terminal \cup {"cancelled"},
         manifest[r] \in {"starting", "running"}, WriteStatus(r, status), Begun' = Begun
  PROVE  LifeMoves
<1>1. r \in AllRuns /\ manifest \in Manifests
  BY ExperimentAssumption DEF TellInv
<1>2. PICK shown \in {"running"} \cup Terminal :
        shown = IF status = "cancelled" THEN "stopped" ELSE status
  BY DEF Terminal
<1>3. Life[r] = manifest[r] /\ Life' = [Life EXCEPT ![r] = shown]
  <2>1. Life' = [q \in AllRuns |->
                   IF manifest'[q] = "none" THEN (IF q \in Begun THEN "evicted" ELSE "new")
                   ELSE IF manifest'[q] = "cancelled" THEN "stopped" ELSE manifest'[q]]
    BY DEF Life
  <2> QED
    BY <1>1, <1>2, <2>1 DEF WriteStatus, Life, Manifests, Terminal
<1>4. CASE shown = manifest[r]
  BY <1>3, <1>4 DEF LifeMoves, Life
<1>5. CASE shown = "running" /\ manifest[r] = "starting"
  BY <1>1, <1>3, <1>5 DEF LifeMoves, Lifecycle!LifecycleNext, Lifecycle!Advance
<1>6. CASE shown \in Terminal
  <2>1. Lifecycle!Conclude(r, shown) /\ shown \in {"completed", "failed", "stopped"}
    BY <1>3, <1>6 DEF Lifecycle!Conclude, Terminal
  <2> QED
    BY <1>1, <2>1 DEF LifeMoves, Lifecycle!LifecycleNext
<1> QED
  BY <1>2, <1>4, <1>5, <1>6

(* Nothing is written.                                                       *)
LEMMA NothingMoves ==
  ASSUME UNCHANGED manifest, Begun' = Begun
  PROVE  LifeMoves
BY DEF LifeMoves, Life
(* The request that starts a run.                                            *)
LEMMA HandlerRecords ==
  ASSUME Inv, TellInv, RecordInv, NEW r \in Experiments, HandlerStep(r) \/ HandlerFails(r)
  PROVE  RecordInv' /\ LifeMoves
<1> USE DEF HandlerGoes, Inv, Places
<1>1. r \in AllRuns /\ UNCHANGED <<others, verdict>>
  BY ExperimentAssumption
     DEF HandlerStep, HandlerFails, Gate, Reject, Claim, MakeArtifacts, Register, Record, Advance,
         Launch, outsideVars
<1>2. CASE Gate(r) \/ Reject(r) \/ Claim(r) \/ Register(r) \/ HandlerFails(r)
  <2>1. UNCHANGED <<manifest, dirs, worker>> /\ Begun' = Begun
    BY <1>1, <1>2 DEF Gate, Reject, Claim, Register, HandlerFails, OnlyHandler, storeVars, Begun
  <2> QED
    BY <1>1, <2>1, NothingMoves DEF RecordInv
<1>3. CASE MakeArtifacts(r)
  <2>1. UNCHANGED <<manifest, worker>> /\ Begun' = Begun /\ dirs' \in Seq(AllRuns)
    BY <1>1, <1>3 DEF MakeArtifacts, MakeDirectory, Begun, RecordInv
  <2> QED
    BY <1>1, <2>1, NothingMoves DEF RecordInv
<1>4. CASE Record(r)
  <2>1. PICK status \in {"starting", "running"} : SaveRun(r, status)
    BY <1>4 DEF Record
  <2>2. r \notin Begun /\ Begun' = Begun \cup {r} /\ UNCHANGED worker
    BY <1>1, <1>4, ExperimentAssumption DEF Record, Begun, RecordInv
  <2> QED
    BY <1>1, <2>1, <2>2, RecordMoves DEF RecordInv
<1>5. CASE Advance(r)
  <2>1. Begun' = Begun /\ UNCHANGED worker
    BY <1>1, <1>5 DEF Advance, Begun
  <2>2. CASE manifest[r] = "starting" /\ WriteStatus(r, "running")
    <3>1. LifeMoves
      BY <2>1, <2>2, WriteMoves
    <3>2. /\ manifest' = [manifest EXCEPT ![r] = "running"] /\ manifest[r] = "starting"
          /\ dirs' \in Seq(AllRuns)
      BY <1>1, <2>2, TouchedIsLast DEF WriteStatus, RecordInv
    <3>3. \A q \in AllRuns : manifest'[q] = IF q = r THEN "running" ELSE manifest[q]
      BY <3>2 DEF TellInv, Manifests
    <3> QED
      BY <1>1, <2>1, <3>1, <3>2, <3>3 DEF RecordInv
  <2>3. CASE UNCHANGED storeVars
    BY <1>1, <2>1, <2>3, NothingMoves DEF RecordInv, storeVars
  <2> QED
    BY <1>5, <2>2, <2>3 DEF Advance, UpdateRunIfStatus
<1>6. CASE Launch(r)
  <2>1. UNCHANGED <<manifest, dirs>> /\ Begun' = Begun
    BY <1>1, <1>6 DEF Launch, storeVars, Begun
  <2>2. worker' = [worker EXCEPT ![r] = "begin"] /\ worker[r] = "none"
    BY <1>6 DEF Launch
  <2> QED
    BY <1>1, <2>1, <2>2, NothingMoves DEF RecordInv
<1> QED
  BY <1>2, <1>3, <1>4, <1>5, <1>6 DEF HandlerStep

(* finalize_run by the thread of a run: the status goes to one that is final,*)
(* and to "cancelled" only with its last step.                               *)
LEMMA FinalMoves ==
  ASSUME Inv, TellInv, RecordInv, NEW r \in Experiments,
         NEW status \in Terminal \cup {"cancelled"}, FinalizeRun(r, status),
         worker[r] # "done", status = "cancelled" => worker'[r] = "done",
         \A q \in Experiments : q # r => worker'[q] = worker[q], Begun' = Begun
  PROVE  /\ LifeMoves
         /\ dirs' \in Seq(AllRuns)
         /\ \A q \in AllRuns : manifest'[q] # "none" => q \in Begun'
         /\ \A q \in AllRuns :
              manifest'[q] = "cancelled" => q \in Experiments /\ worker'[q] = "done"
<1>1. r \in AllRuns
  BY ExperimentAssumption
<1>2. CASE manifest[r] \notin Terminal \cup {"none"} /\ WriteStatus(r, status)
  <2>1. manifest[r] \in {"starting", "running"}
    BY <1>1, <1>2 DEF RecordInv, TellInv, Manifests, Statuses
  <2>2. LifeMoves
    BY <1>2, <2>1, WriteMoves
  <2>3. \A q \in AllRuns : manifest'[q] = IF q = r THEN status ELSE manifest[q]
    BY <1>2 DEF WriteStatus, TellInv, Manifests
  <2>4. dirs' \in Seq(AllRuns)
    BY <1>1, <1>2, TouchedIsLast DEF WriteStatus, RecordInv
  <2> QED
    BY <2>1, <2>2, <2>3, <2>4 DEF RecordInv
<1>3. CASE UNCHANGED storeVars
  BY <1>3, NothingMoves DEF RecordInv, storeVars
<1> QED
  BY <1>2, <1>3 DEF FinalizeRun

(* The thread of a run.                                                      *)
LEMMA WorkerRecords ==
  ASSUME Inv, TellInv, RecordInv, NEW r \in Experiments, WorkerStep(r) \/ WorkerRaises(r)
  PROVE  RecordInv' /\ LifeMoves
<1>1. /\ r \in AllRuns /\ Begun' = Begun /\ UNCHANGED others
      /\ worker[r] # "done" /\ \A q \in Experiments : q # r => worker'[q] = worker[q]
  BY ExperimentAssumption
     DEF WorkerStep, WorkerRaises, Begin, NextFrame, Infer, ReportFrame, EndLoop, RecordFailure,
         Decide, Finalize, Free, Forget, WorkerGoes, outsideVars, Begun, Inv, Places
<1>2. ASSUME UNCHANGED <<manifest, verdict>>, dirs' \in Seq(AllRuns)
      PROVE  RecordInv' /\ LifeMoves
  BY <1>1, <1>2, NothingMoves DEF RecordInv
<1>3. CASE NextFrame(r) \/ Infer(r) \/ EndLoop(r) \/ WorkerRaises(r) \/ Free(r) \/ Forget(r)
  <2>1. UNCHANGED <<manifest, verdict, dirs>>
    BY <1>3 DEF NextFrame, Infer, EndLoop, WorkerRaises, Free, Forget, Quietly, KeepVerdict, storeVars
  <2> QED
    BY <1>2, <2>1 DEF RecordInv
<1>4. CASE Begin(r)
  <2>1. UNCHANGED <<manifest, verdict>> /\ dirs' \in Seq(AllRuns)
    BY <1>1, <1>4 DEF Begin, KeepVerdict, MakeDirectory, storeVars, RecordInv
  <2> QED
    BY <1>2, <2>1
<1>5. CASE ReportFrame(r)
  <2>1. UNCHANGED verdict
    BY <1>5 DEF ReportFrame, KeepVerdict
  <2>2. CASE manifest[r] = "running" /\ WriteStatus(r, "running")
    <3>1. UNCHANGED manifest /\ dirs' \in Seq(AllRuns)
      BY <1>1, <2>2, TouchedIsLast DEF WriteStatus, RecordInv, TellInv, Manifests
    <3> QED
      BY <1>2, <2>1, <3>1
  <2>3. CASE UNCHANGED storeVars
    BY <1>2, <2>1, <2>3 DEF storeVars, RecordInv
  <2> QED
    BY <1>5, <2>2, <2>3 DEF ReportFrame, UpdateRunIfStatus
<1>6. CASE Decide(r)
  <2>1. UNCHANGED <<manifest, dirs>>
    BY <1>6 DEF Decide, storeVars
  <2>2. \A q \in Experiments : verdict'[q] = "cancelled" => q \in OfSequence
    BY <1>6 DEF Decide, RecordInv, TellInv, Counts
  <2> QED
    BY <1>1, <2>1, <2>2, NothingMoves DEF RecordInv
<1>7. CASE RecordFailure(r)
  <2>1. \A q \in Experiments : verdict'[q] = "cancelled" => q \in OfSequence
    BY <1>7 DEF RecordFailure, RecordInv, TellInv, Counts
  <2>2. CASE FinalizeRun(r, "failed")
    BY <1>1, <2>1, <2>2, FinalMoves DEF RecordInv, Terminal
  <2>3. CASE UNCHANGED storeVars
    BY <1>1, <2>1, <2>3, NothingMoves DEF RecordInv, storeVars
  <2> QED
    BY <1>7, <2>2, <2>3 DEF RecordFailure
<1>8. CASE Finalize(r)
  <2>1. /\ UNCHANGED verdict
        /\ verdict[r] \in Terminal \cup {"cancelled"}
        /\ verdict[r] = "cancelled" => worker'[r] = "done"
    BY <1>8 DEF Finalize, KeepVerdict, WorkerGoes, TellInv, Ends, Terminal, RecordInv, Inv, Places
  <2>2. CASE FinalizeRun(r, verdict[r])
    BY <1>1, <2>1, <2>2, FinalMoves DEF RecordInv
  <2>3. CASE UNCHANGED storeVars
    BY <1>2, <2>1, <2>3 DEF RecordInv, storeVars
  <2> QED
    BY <1>8, <2>2, <2>3 DEF Finalize
<1> QED
  BY <1>3, <1>4, <1>5, <1>6, <1>7, <1>8 DEF WorkerStep

(* Another run is recorded for the first time; the rest writes no manifest.  *)
LEMMA OutsideRecords ==
  ASSUME Inv, TellInv, RecordInv, Outside
  PROVE  RecordInv' /\ LifeMoves
<1>1. UNCHANGED <<worker, verdict, handler>>
  BY OutsideChanges
<1>2. CASE \E r \in AllRuns : RecordOther(r)
  <2>1. PICK r \in AllRuns : RecordOther(r)
    BY <1>2
  <2>2. r \notin Begun /\ Begun' = Begun \cup {r} /\ others' = others \cup {r} /\ r \notin Experiments
    BY <1>1, <2>1 DEF RecordOther, Begun
  <2> QED
    BY <1>1, <2>1, <2>2, RecordMoves DEF RecordOther, RecordInv
<1>3. CASE UNCHANGED <<manifest, others>> /\ dirs' \in Seq(AllRuns)
  BY <1>1, <1>3, NothingMoves DEF RecordInv, Begun
<1>4. CASE \E r \in AllRuns : WriteReview(r)
  BY <1>3, <1>4, TouchedIsLast DEF WriteReview, RecordInv
<1>5. CASE \/ \E r \in Experiments : FindEvent(r) \/ SetEvent(r)
           \/ \E r \in AllRuns : OpenReview(r)
           \/ UNCHANGED vars
  <2>1. UNCHANGED <<manifest, dirs, others>>
    BY <1>5 DEF FindEvent, SetEvent, OpenReview, vars, storeVars, outsideVars
  <2> QED
    BY <1>3, <2>1 DEF RecordInv
<1> QED
  BY <1>2, <1>4, <1>5 DEF Outside

(* The manifests of experiments behave as RunLifecycle says, whichever file  *)
(* operations fail: update_run_if_status and finalize_run never move a       *)
(* status back or replace a final one, and neither they nor a late review    *)
(* bring back a record that eviction removed.                                *)
THEOREM ExperimentsImplementRunLifecycle == ExperimentSpec => ImplementsRunLifecycle
<1>1. Inv /\ TellInv /\ RecordInv /\ [ExperimentNext]_vars
        => TellInv' /\ RecordInv' /\ [Lifecycle!LifecycleNext]_Life
  <2> SUFFICES ASSUME Inv, TellInv, RecordInv, [ExperimentNext]_vars
               PROVE  TellInv' /\ RecordInv' /\ LifeMoves
    BY DEF LifeMoves
  <2>1. CASE \E r \in Experiments : HandlerStep(r) \/ HandlerFails(r)
    BY <2>1, HandlerTells, HandlerRecords
  <2>2. CASE \E r \in Experiments : WorkerStep(r) \/ WorkerRaises(r)
    <3>1. TellInv'
      BY <2>2, FrameTells, LoopTells, EndTells DEF WorkerStep
    <3> QED
      BY <2>2, <3>1, WorkerRecords
  <2>3. CASE Outside
    BY <2>3, OutsideTells, OutsideRecords
  <2> QED
    BY <2>1, <2>2, <2>3 DEF ExperimentNext, Outside
<1> QED
  BY InvHolds, TellsInitially, RecordsInitially, <1>1, PTL
     DEF ExperimentSpec, ImplementsRunLifecycle, Lifecycle!LifecycleSpec
-----------------------------------------------------------------------------
(* What the prompt repeats.  Answers that were remembered are not empty.     *)
Answers == Nat \ {0}

(* A function defined by recursion on an initial interval exists.            *)
Recursion(f, N, base, step) ==
  \A n \in 0..N : f[n] = IF n = 0 THEN base ELSE step[n][f[n - 1]]

LEMMA RecursionExists ==
  ASSUME NEW N \in Nat, NEW S, NEW base \in S, NEW step \in [1..N -> [S -> S]]
  PROVE  \E f \in [0..N -> S] : Recursion(f, N, base, step)
<1> DEFINE UpTo(n) == \E f \in [0..n -> S] :
                        \A m \in 0..n : f[m] = IF m = 0 THEN base ELSE step[m][f[m - 1]]
           T == { n \in 0..N : ~UpTo(n) }
<1>1. UpTo(0)
  <2>1. PICK f : f = [m \in 0..0 |-> base]
    OBVIOUS
  <2>2. f \in [0..0 -> S] /\ f[0] = base /\ \A m \in 0..0 : m = 0
    BY <2>1
  <2>3. \A m \in 0..0 : f[m] = IF m = 0 THEN base ELSE step[m][f[m - 1]]
    BY <2>2, Zenon
  <2> QED
    BY <2>2, <2>3
<1>2. ASSUME NEW n \in 1..N, UpTo(n - 1) PROVE UpTo(n)
  <2>1. PICK f \in [0..(n - 1) -> S] :
          \A m \in 0..(n - 1) : f[m] = IF m = 0 THEN base ELSE step[m][f[m - 1]]
    BY <1>2
  <2>2. PICK e \in S : e = step[n][f[n - 1]]
    BY <2>1
  <2> DEFINE g == [m \in 0..n |-> IF m = n THEN e ELSE f[m]]
  <2>3. g \in [0..n -> S]
    BY <2>1
  <2>4. ASSUME NEW m \in 0..n
        PROVE  g[m] = IF m = 0 THEN base ELSE step[m][g[m - 1]]
    <3>1. CASE m = 0
      <4>1. 0 \in 0..(n - 1) /\ n # 0
        OBVIOUS
      <4>2. g[m] = f[0] /\ f[0] = base
        BY <2>1, <3>1, <4>1
      <4> QED
        BY <3>1, <4>2, Zenon
    <3>2. CASE m # 0
      <4>1. m - 1 \in 0..(n - 1) /\ m - 1 # n
        BY <3>2
      <4>2. g[m - 1] = f[m - 1]
        BY <4>1
      <4>3. CASE m = n
        BY <2>2, <3>2, <4>2, <4>3
      <4>4. CASE m # n
        <5>1. m \in 0..(n - 1) /\ g[m] = f[m]
          BY <4>4
        <5> HIDE DEF g
        <5> QED
          BY <2>1, <3>2, <4>2, <5>1
      <4> QED
        BY <4>3, <4>4
    <3> QED
      BY <3>1, <3>2
  <2> HIDE DEF g
  <2> QED
    BY <2>3, <2>4
<1>3. T = {}
  <2> SUFFICES ASSUME T # {} PROVE FALSE
    OBVIOUS
  <2>0. T \subseteq Nat
    OBVIOUS
  <2>1. PICK n \in T : \A m \in T : n <= m
    <3> HIDE DEF T
    <3> QED
      BY <2>0, LeastOf
  <2> HIDE DEF UpTo
  <2>2. n \in 1..N /\ n - 1 \in 0..N
    BY <1>1, <2>1
  <2>3. UpTo(n - 1)
    BY <2>1, <2>2
  <2> QED
    BY <1>2, <2>1, <2>2, <2>3
<1> QED
  BY <1>3 DEF Recursion

(* The lengths of the last entries of a history, joined.                     *)
Joins(f, h, N) ==
  \A n \in 0..N :
    f[n] = IF n = 0 THEN 0 ELSE f[n - 1] + h[Len(h) - n + 1] + (IF n = 1 THEN 0 ELSE 2)

LEMMA JoinsExist ==
  ASSUME NEW h \in Seq(Answers)
  PROVE  \E f \in [0..Len(h) -> Nat] : Joins(f, h, Len(h))
<1> DEFINE step == [n \in 1..Len(h) |-> [x \in Nat |->
                      x + h[Len(h) - n + 1] + (IF n = 1 THEN 0 ELSE 2)]]
<1>1. step \in [1..Len(h) -> [Nat -> Nat]]
  <2>1. ASSUME NEW n \in 1..Len(h), NEW x \in Nat
        PROVE  x + h[Len(h) - n + 1] + (IF n = 1 THEN 0 ELSE 2) \in Nat
    <3>1. Len(h) - n + 1 \in 1..Len(h)
      OBVIOUS
    <3>2. h[Len(h) - n + 1] \in Nat
      BY <3>1 DEF Answers
    <3> QED
      BY <3>2
  <2> QED
    BY <2>1
<1>2. \A n \in 1..Len(h), x \in Nat :
        step[n][x] = x + h[Len(h) - n + 1] + (IF n = 1 THEN 0 ELSE 2)
  OBVIOUS
<1> HIDE DEF step
<1>3. PICK f \in [0..Len(h) -> Nat] : Recursion(f, Len(h), 0, step)
  <2>1. Len(h) \in Nat /\ 0 \in Nat
    OBVIOUS
  <2> QED
    BY <1>1, <2>1, RecursionExists
<1>4. ASSUME NEW n \in 0..Len(h), n # 0
      PROVE  f[n] = f[n - 1] + h[Len(h) - n + 1] + (IF n = 1 THEN 0 ELSE 2)
  <2>1. n \in 1..Len(h) /\ f[n - 1] \in Nat
    BY <1>4
  <2>2. f[n] = step[n][f[n - 1]]
    BY <1>3, <1>4 DEF Recursion
  <2> QED
    BY <1>2, <2>1, <2>2
<1>5. f[0] = 0
  BY <1>3 DEF Recursion
<1> QED
  BY <1>4, <1>5 DEF Joins

LEMMA JoinsAgree ==
  ASSUME NEW h \in Seq(Answers), NEW g \in Seq(Answers), NEW N \in Nat,
         N <= Len(h), N <= Len(g),
         \A n \in 1..N : h[Len(h) - n + 1] = g[Len(g) - n + 1],
         NEW f, Joins(f, h, N), NEW k, Joins(k, g, N)
  PROVE  \A n \in 0..N : f[n] = k[n]
<1> DEFINE T == { n \in 0..N : f[n] # k[n] }
<1>1. T = {}
  <2> SUFFICES ASSUME T # {} PROVE FALSE
    OBVIOUS
  <2>0. T \subseteq Nat
    OBVIOUS
  <2>1. PICK n \in T : \A m \in T : n <= m
    <3> HIDE DEF T
    <3> QED
      BY <2>0, LeastOf
  <2>2. f[0] = 0 /\ k[0] = 0
    BY DEF Joins
  <2>3. n \in 1..N /\ n - 1 \in 0..N
    BY <2>1, <2>2
  <2>4. f[n - 1] = k[n - 1]
    BY <2>1, <2>3
  <2>5. /\ f[n] = f[n - 1] + h[Len(h) - n + 1] + (IF n = 1 THEN 0 ELSE 2)
        /\ k[n] = k[n - 1] + g[Len(g) - n + 1] + (IF n = 1 THEN 0 ELSE 2)
    BY <2>3 DEF Joins
  <2> QED
    BY <2>1, <2>3, <2>4, <2>5
<1> QED
  BY <1>1

(* The last n entries, and one more.                                         *)
LEMMA LastNIs ==
  ASSUME NEW h \in Seq(Answers), NEW n \in 0..Len(h)
  PROVE  /\ LastN(h, n) \in Seq(Answers)
         /\ Len(LastN(h, n)) = n
         /\ \A i \in 1..n : LastN(h, n)[i] = h[Len(h) - n + i]
<1>1. \A i \in (Len(h) - n + 1)..Len(h) : h[i] \in Answers
  OBVIOUS
<1>2. PICK a \in Int, b \in Int : a = Len(h) - n + 1 /\ b = Len(h)
  <2>1. Len(h) - n + 1 \in Int /\ Len(h) \in Int
    OBVIOUS
  <2> QED
    BY <2>1
<1>3. /\ SubSeq(h, a, b) \in Seq(Answers)
      /\ Len(SubSeq(h, a, b)) = IF a <= b THEN b - a + 1 ELSE 0
      /\ \A i \in 1..(b - a + 1) : SubSeq(h, a, b)[i] = h[a + i - 1]
  BY <1>1, <1>2, SubSeqProperties
<1> QED
  BY <1>2, <1>3 DEF LastN

LEMMA LastNGrows ==
  ASSUME NEW h \in Seq(Answers), NEW n \in 0..(Len(h) - 1)
  PROVE  <<h[Len(h) - n]>> \o LastN(h, n) = LastN(h, n + 1)
<1>1. PICK s, t :
        s = <<h[Len(h) - n]>> \o LastN(h, n) /\ t = LastN(h, n + 1)
  OBVIOUS
<1>2. /\ t \in Seq(Answers) /\ Len(t) = n + 1
      /\ \A i \in 1..(n + 1) : t[i] = h[Len(h) - n - 1 + i]
  <2>1. n + 1 \in 0..Len(h)
    OBVIOUS
  <2>2. /\ t \in Seq(Answers) /\ Len(t) = n + 1
        /\ \A i \in 1..(n + 1) : t[i] = h[Len(h) - (n + 1) + i]
    BY <1>1, <2>1, LastNIs
  <2>3. \A i \in 1..(n + 1) : Len(h) - (n + 1) + i = Len(h) - n - 1 + i
    OBVIOUS
  <2> QED
    BY <2>2, <2>3
<1>3. /\ s \in Seq(Answers) /\ Len(s) = n + 1
      /\ \A i \in 1..(n + 1) : s[i] = h[Len(h) - n - 1 + i]
  <2>1. PICK u \in Seq(Answers) : u = LastN(h, n) /\ Len(u) = n
                                /\ \A i \in 1..n : u[i] = h[Len(h) - n + i]
    BY LastNIs
  <2>2. s = <<h[Len(h) - n]>> \o u
    BY <1>1, <2>1
  <2>3. h[Len(h) - n] \in Answers
    OBVIOUS
  <2> QED
    BY <2>1, <2>2, <2>3
<1> QED
  BY <1>1, <1>2, <1>3, SeqEqual

LEMMA BlockLengthIs ==
  ASSUME NEW h \in Seq(Answers)
  PROVE  \E f \in [0..Len(h) -> Nat] :
           /\ Joins(f, h, Len(h))
           /\ \A n \in 0..Len(h) : BlockLength(LastN(h, n)) = f[n]
<1>1. PICK f \in [0..Len(h) -> Nat] : Joins(f, h, Len(h))
  BY JoinsExist
<1>2. ASSUME NEW n \in 0..Len(h) PROVE BlockLength(LastN(h, n)) = f[n]
  <2>1. PICK s \in Seq(Answers) :
          /\ s = LastN(h, n) /\ Len(s) = n
          /\ \A i \in 1..n : s[i] = h[Len(h) - n + i]
    BY LastNIs
  <2> DEFINE Eq(g) == g = [m \in 0..Len(s) |->
                             IF m = 0 THEN 0
                             ELSE g[m - 1] + s[Len(s) - m + 1] + (IF m = 1 THEN 0 ELSE 2)]
  <2>2. PICK k : k = CHOOSE g : Eq(g)
    OBVIOUS
  <2>3. BlockLength(s) = k[Len(s)]
    BY <2>2 DEF BlockLength
  <2>4. PICK c \in [0..Len(s) -> Nat] : Joins(c, s, Len(s))
    BY JoinsExist
  <2>5. Eq(c)
    BY <2>4 DEF Joins
  <2>6. Eq(k)
    <3> HIDE DEF Eq
    <3> QED
      BY <2>2, <2>5
  <2>7. Joins(k, s, n)
    BY <2>1, <2>6 DEF Joins
  <2>8. Joins(f, h, n)
    BY <1>1 DEF Joins
  <2>9. \A m \in 1..n : h[Len(h) - m + 1] = s[Len(s) - m + 1]
    BY <2>1
  <2>10. f[n] = k[n]
    <3>1. n \in Nat /\ n <= Len(h) /\ n <= Len(s) /\ n \in 0..n
      BY <2>1
    <3> QED
      BY <3>1, <2>7, <2>8, <2>9, JoinsAgree
  <2> QED
    BY <2>1, <2>3, <2>10
<1> QED
  BY <1>1, <1>2

(* More entries are longer.                                                  *)
LEMMA JoinsGrow ==
  ASSUME NEW h \in Seq(Answers), NEW f \in [0..Len(h) -> Nat], Joins(f, h, Len(h)),
         NEW m \in 0..Len(h), NEW n \in 0..Len(h), m < n
  PROVE  f[m] < f[n]
<1> DEFINE T == { k \in 0..Len(h) : m < k /\ ~(f[m] < f[k]) }
<1>1. T = {}
  <2> SUFFICES ASSUME T # {} PROVE FALSE
    OBVIOUS
  <2>0. T \subseteq Nat
    OBVIOUS
  <2>1. PICK k \in T : \A j \in T : k <= j
    <3> HIDE DEF T
    <3> QED
      BY <2>0, LeastOf
  <2>2. k \in 1..Len(h) /\ k - 1 \in 0..Len(h) /\ m <= k - 1
    BY <2>1
  <2>3. h[Len(h) - k + 1] \in Answers
    BY <2>2
  <2>4. f[k - 1] < f[k]
    <3>1. f[k] = f[k - 1] + h[Len(h) - k + 1] + (IF k = 1 THEN 0 ELSE 2)
      BY <2>2 DEF Joins
    <3>2. PICK c \in Nat : c = h[Len(h) - k + 1] /\ c > 0
      BY <2>3 DEF Answers
    <3>3. f[k - 1] \in Nat
      BY <2>2
    <3> QED
      BY <3>1, <3>2, <3>3
  <2>5. f[m] <= f[k - 1]
    BY <2>1, <2>2, SMTT(30)
  <2> QED
    BY <2>1, <2>2, <2>4, <2>5, SMTT(30)
<1> QED
  BY <1>1
(* The rounds of _truncate_history: what was selected after each.            *)
Got == [selected : Seq(Answers), used : Nat, full : BOOLEAN]

Selects(g, h) ==
  \A n \in 0..Len(h) :
    g[n] = IF n = 0 THEN NothingSelected ELSE Select(h[Len(h) - n + 1], g[n - 1])

LEMMA SelectIsGot ==
  ASSUME NEW entry \in Answers, NEW got \in Got
  PROVE  Select(entry, got) \in Got
<1>1. PICK s, u, b : got = [selected |-> s, used |-> u, full |-> b]
                     /\ s \in Seq(Answers) /\ u \in Nat /\ b \in BOOLEAN
  BY DEF Got
<1>2. got.selected = s /\ got.used = u /\ got.full = b
  BY <1>1
<1>3. <<entry>> \o s \in Seq(Answers)
  BY <1>1
<1>4. PICK need \in Nat : need = entry + (IF s = << >> THEN 0 ELSE 2)
  BY DEF Answers
<1>5. CASE b \/ u + need > MaxChars
  BY <1>1, <1>2, <1>4, <1>5 DEF Select, Got
<1>6. CASE ~(b \/ u + need > MaxChars)
  BY <1>1, <1>2, <1>3, <1>4, <1>6 DEF Select, Got
<1> QED
  BY <1>5, <1>6

LEMMA TruncatedIs ==
  ASSUME NEW h \in Seq(Answers), MaxChars # 0
  PROVE  \E g : Selects(g, h) /\ Truncated(h) = g[Len(h)].selected
<1> DEFINE step == [n \in 1..Len(h) |-> [x \in Got |-> Select(h[Len(h) - n + 1], x)]]
           Eq(g) == g = [n \in 0..Len(h) |->
                          IF n = 0 THEN NothingSelected ELSE Select(h[Len(h) - n + 1], g[n - 1])]
<1>1. step \in [1..Len(h) -> [Got -> Got]]
  <2>1. ASSUME NEW n \in 1..Len(h), NEW x \in Got PROVE Select(h[Len(h) - n + 1], x) \in Got
    <3>1. h[Len(h) - n + 1] \in Answers
      OBVIOUS
    <3> QED
      BY <3>1, SelectIsGot
  <2> QED
    BY <2>1
<1>2. \A n \in 1..Len(h), x \in Got : step[n][x] = Select(h[Len(h) - n + 1], x)
  OBVIOUS
<1> HIDE DEF step
<1>3. PICK f \in [0..Len(h) -> Got] : Recursion(f, Len(h), NothingSelected, step)
  <2>1. << >> \in Seq(Answers)
    OBVIOUS
  <2>2. Len(h) \in Nat /\ NothingSelected \in Got
    BY <2>1 DEF NothingSelected, Got
  <2> QED
    BY <1>1, <2>2, RecursionExists
<1>4. ASSUME NEW n \in 1..Len(h)
      PROVE  f[n] = Select(h[Len(h) - n + 1], f[n - 1])
  <2>1. n \in 0..Len(h) /\ n # 0 /\ f[n - 1] \in Got
    OBVIOUS
  <2>2. f[n] = step[n][f[n - 1]]
    BY <1>3, <2>1 DEF Recursion
  <2> QED
    BY <1>2, <2>1, <2>2
<1>5. Eq(f)
  <2>1. f[0] = NothingSelected
    BY <1>3 DEF Recursion
  <2>2. \A n \in 0..Len(h) :
          f[n] = IF n = 0 THEN NothingSelected ELSE Select(h[Len(h) - n + 1], f[n - 1])
    BY <1>4, <2>1
  <2> QED
    BY <2>2
<1>6. PICK g : g = CHOOSE k : Eq(k)
  OBVIOUS
<1>7. Eq(g)
  <2> HIDE DEF Eq
  <2> QED
    BY <1>5, <1>6
<1>8. Truncated(h) = g[Len(h)].selected
  BY <1>6 DEF Truncated
<1>9. Selects(g, h)
  BY <1>7 DEF Selects
<1> QED
  BY <1>8, <1>9

(* After n rounds: the last m entries, which fit, and one more would not, or *)
(* there was none to look at.                                                *)
SelectedIs(got, h, f, n, m) ==
  /\ got \in Got
  /\ got.selected = LastN(h, m) /\ got.used = f[m]
  /\ f[m] <= MaxChars
  /\ IF got.full THEN m < n /\ f[m + 1] > MaxChars ELSE m = n

LEMMA SelectedInitially ==
  ASSUME NEW h \in Seq(Answers), NEW f \in [0..Len(h) -> Nat], Joins(f, h, Len(h))
  PROVE  SelectedIs(NothingSelected, h, f, 0, 0)
<1>1. f[0] = 0
  BY DEF Joins
<1>2. LastN(h, 0) = << >>
  BY LastNIs
<1>3. << >> \in Seq(Answers)
  OBVIOUS
<1> QED
  BY <1>1, <1>2, <1>3, EngineAssumption DEF SelectedIs, NothingSelected, Got

LEMMA SelectedStep ==
  ASSUME NEW h \in Seq(Answers), NEW f \in [0..Len(h) -> Nat], Joins(f, h, Len(h)),
         NEW n \in 1..Len(h), NEW m \in 0..(n - 1), NEW got, SelectedIs(got, h, f, n - 1, m)
  PROVE  \E k \in 0..n : SelectedIs(Select(h[Len(h) - n + 1], got), h, f, n, k)
<1>1. PICK s, u, b : got = [selected |-> s, used |-> u, full |-> b]
                     /\ s \in Seq(Answers) /\ u \in Nat /\ b \in BOOLEAN
  BY DEF SelectedIs, Got
<1>2. got.selected = s /\ got.used = u /\ got.full = b
  BY <1>1
<1>3. PICK entry \in Answers : entry = h[Len(h) - n + 1]
  OBVIOUS
<1>4. PICK new : new = Select(entry, got)
  OBVIOUS
<1>5. new \in Got
  BY <1>1, <1>3, <1>4, SelectIsGot DEF SelectedIs
<1>6. CASE b
  <2>1. new = got
    BY <1>1, <1>2, <1>4, <1>6 DEF Select
  <2>2. m < n - 1 /\ f[m + 1] > MaxChars /\ m \in Int /\ n \in Int
    BY <1>2, <1>6 DEF SelectedIs
  <2>3. m < n /\ m \in 0..n
    BY <2>2
  <2>4. SelectedIs(new, h, f, n, m)
    BY <2>1, <2>2, <2>3 DEF SelectedIs
  <2> QED
    BY <1>3, <1>4, <2>3, <2>4
<1>7. CASE ~b
  <2>1. m = n - 1 /\ Len(s) = m /\ u = f[m] /\ m + 1 = n
    <3>1. m = n - 1 /\ u = f[m] /\ s = LastN(h, m)
      BY <1>2, <1>7 DEF SelectedIs
    <3>2. m \in 0..Len(h) /\ m + 1 = n
      BY <3>1
    <3> QED
      BY <3>1, <3>2, LastNIs
  <2>2. PICK need \in Nat : need = entry + (IF s = << >> THEN 0 ELSE 2)
    BY DEF Answers
  <2>3. f[n] = u + need /\ f[n] \in Nat
    <3>1. n \in 0..Len(h) /\ n # 0
      OBVIOUS
    <3>2. f[n] = f[n - 1] + h[Len(h) - n + 1] + (IF n = 1 THEN 0 ELSE 2) /\ f[n] \in Nat
      BY <3>1 DEF Joins
    <3>3. s = << >> <=> n = 1
      BY <1>1, <2>1
    <3>4. entry \in Nat /\ f[n] = u + entry + (IF n = 1 THEN 0 ELSE 2)
      BY <1>3, <2>1, <3>2 DEF Answers
    <3>5. need = entry + (IF n = 1 THEN 0 ELSE 2)
      BY <2>2, <3>3
    <3>6. u \in Nat
      BY <1>1
    <3> QED
      BY <3>2, <3>4, <3>5, <3>6, SMTT(30)
  <2>4. CASE u + need > MaxChars
    <3>1. new = [selected |-> s, used |-> u, full |-> TRUE]
      BY <1>1, <1>2, <1>4, <2>2, <2>4 DEF Select
    <3>2. SelectedIs(new, h, f, n, m)
      BY <1>2, <1>5, <2>1, <2>3, <2>4, <3>1 DEF SelectedIs
    <3> QED
      BY <1>3, <1>4, <2>1, <3>2
  <2>5. CASE ~(u + need > MaxChars)
    <3>1. new = [selected |-> <<entry>> \o s, used |-> u + need, full |-> FALSE]
      BY <1>1, <1>2, <1>4, <1>7, <2>2, <2>5 DEF Select
    <3>2. <<h[Len(h) - m]>> \o LastN(h, m) = LastN(h, m + 1)
      BY <2>1, LastNGrows
    <3>3. Len(h) - m = Len(h) - n + 1 /\ s = LastN(h, m)
      BY <1>2, <2>1 DEF SelectedIs
    <3>4. new.selected = LastN(h, n)
      BY <1>3, <2>1, <3>1, <3>2, <3>3
    <3>5. SelectedIs(new, h, f, n, n)
      <4>1. f[n] <= MaxChars /\ new.used = f[n] /\ new.full = FALSE
        BY <2>3, <2>5, <3>1, EngineAssumption
      <4> QED
        BY <1>5, <3>4, <4>1 DEF SelectedIs
    <3> QED
      BY <1>3, <1>4, <3>5
  <2> QED
    BY <2>4, <2>5
<1> QED
  BY <1>1, <1>6, <1>7
(* _truncate_history keeps the last entries that fit, as many as possible.   *)
LEMMA TruncatedFits ==
  ASSUME NEW h \in Seq(Answers)
  PROVE  \E n \in 0..Len(h) :
           /\ Truncated(h) = LastN(h, n)
           /\ BlockLength(LastN(h, n)) <= MaxChars
           /\ \A m \in 0..Len(h) : BlockLength(LastN(h, m)) <= MaxChars => m <= n
<1>1. PICK f \in [0..Len(h) -> Nat] :
        /\ Joins(f, h, Len(h))
        /\ \A n \in 0..Len(h) : BlockLength(LastN(h, n)) = f[n]
  BY BlockLengthIs
<1>2. Len(h) \in Nat /\ 0 \in 0..Len(h) /\ Len(h) \in 0..Len(h) /\ MaxChars \in Nat
  BY EngineAssumption
<1>3. ASSUME NEW n \in 0..Len(h), f[n] <= MaxChars, n = Len(h) \/ f[n + 1] > MaxChars,
             NEW m \in 0..Len(h), f[m] <= MaxChars
      PROVE  m <= n
  <2> SUFFICES ASSUME n < m PROVE FALSE
    OBVIOUS
  <2>1. n + 1 \in 0..Len(h) /\ n # Len(h) /\ (n + 1 = m \/ n + 1 < m)
    OBVIOUS
  <2>2. f[n + 1] <= f[m]
    BY <1>1, <2>1, JoinsGrow
  <2>3. f[n + 1] \in Nat /\ f[m] \in Nat
    BY <2>1
  <2> QED
    BY <1>2, <1>3, <2>1, <2>2, <2>3
<1>4. CASE MaxChars = 0
  <2>1. f[0] = 0
    BY <1>1 DEF Joins
  <2>2. 0 = Len(h) \/ f[0 + 1] > MaxChars
    <3> SUFFICES ASSUME Len(h) > 0 PROVE f[1] > 0
      BY <1>2, <1>4
    <3>1. 1 \in 0..Len(h) /\ 0 < 1
      BY <1>2
    <3> QED
      BY <1>1, <1>2, <2>1, <3>1, JoinsGrow
  <2>3. Truncated(h) = << >> /\ LastN(h, 0) = << >>
    BY <1>2, <1>4, LastNIs DEF Truncated
  <2> QED
    BY <1>1, <1>2, <1>3, <1>4, <2>1, <2>2, <2>3
<1>5. CASE MaxChars # 0
  <2>1. PICK g : Selects(g, h) /\ Truncated(h) = g[Len(h)].selected
    BY <1>5, TruncatedIs
  <2> DEFINE Good(n) == \E m \in 0..n : SelectedIs(g[n], h, f, n, m)
             T == { n \in 0..Len(h) : ~Good(n) }
  <2>2. Good(0)
    <3>1. g[0] = NothingSelected
      BY <1>2, <2>1 DEF Selects
    <3> QED
      BY <1>1, <3>1, SelectedInitially
  <2>3. ASSUME NEW n \in 1..Len(h), Good(n - 1) PROVE Good(n)
    <3>1. PICK m \in 0..(n - 1) : SelectedIs(g[n - 1], h, f, n - 1, m)
      BY <2>3
    <3>2. g[n] = Select(h[Len(h) - n + 1], g[n - 1])
      BY <2>1 DEF Selects
    <3> QED
      BY <1>1, <3>1, <3>2, SelectedStep
  <2>4. T = {}
    <3> SUFFICES ASSUME T # {} PROVE FALSE
      OBVIOUS
    <3>0. T \subseteq Nat
      OBVIOUS
    <3>1. PICK n \in T : \A m \in T : n <= m
      <4> HIDE DEF T
      <4> QED
        BY <3>0, LeastOf
    <3> HIDE DEF Good
    <3>2. n \in 1..Len(h) /\ n - 1 \in 0..Len(h)
      BY <2>2, <3>1
    <3>3. Good(n - 1)
      BY <3>1, <3>2
    <3> QED
      BY <2>3, <3>1, <3>2, <3>3
  <2>5. PICK n \in 0..Len(h) : SelectedIs(g[Len(h)], h, f, Len(h), n)
    BY <1>2, <2>4
  <2>6. /\ Truncated(h) = LastN(h, n) /\ f[n] <= MaxChars
        /\ n = Len(h) \/ f[n + 1] > MaxChars
    BY <2>1, <2>5 DEF SelectedIs
  <2> QED
    BY <1>1, <1>3, <2>6
<1> QED
  BY <1>4, <1>5

-----------------------------------------------------------------------------
(* What is remembered is what a limit on the entries leaves of what was said.*)
Remembered ==
  \A r \in Remembering :
    said[r] \in Seq(Answers) /\ memory[r] = Latest(said[r])

MemoryInv ==
  /\ DOMAIN said = Experiments /\ DOMAIN memory = Experiments
  /\ Remembered

(* Cutting before each answer is added or only once leaves the same.         *)
LEMMA LatestOfLatest ==
  ASSUME NEW s \in Seq(Answers), NEW e \in Answers
  PROVE  Latest(Append(Latest(s), e)) = Latest(Append(s, e))
<1>1. MaxEntries \in Nat
  BY EngineAssumption
<1>2. CASE ~(MaxEntries > 0 /\ Len(s) > MaxEntries)
  BY <1>2 DEF Latest
<1>3. CASE MaxEntries > 0 /\ Len(s) > MaxEntries
  <2>1. PICK t \in Seq(Answers) :
          /\ t = Latest(s) /\ Len(t) = MaxEntries
          /\ \A i \in 1..MaxEntries : t[i] = s[Len(s) - MaxEntries + i]
    <3>1. MaxEntries \in 0..Len(s) /\ Latest(s) = LastN(s, MaxEntries)
      BY <1>1, <1>3 DEF Latest
    <3> QED
      BY <3>1, LastNIs
  <2>2. PICK a, b : a = Append(t, e) /\ b = Append(s, e)
    OBVIOUS
  <2>3. /\ a \in Seq(Answers) /\ Len(a) = MaxEntries + 1 /\ a[MaxEntries + 1] = e
        /\ \A i \in 1..MaxEntries : a[i] = s[Len(s) - MaxEntries + i]
        /\ b \in Seq(Answers) /\ Len(b) = Len(s) + 1 /\ b[Len(s) + 1] = e
        /\ \A i \in 1..Len(s) : b[i] = s[i]
    BY <1>1, <2>1, <2>2
  <2>4. Latest(a) = LastN(a, MaxEntries) /\ Latest(b) = LastN(b, MaxEntries)
    BY <1>1, <1>3, <2>3 DEF Latest
  <2>5. MaxEntries \in 0..Len(a) /\ MaxEntries \in 0..Len(b)
    BY <1>1, <1>3, <2>3
  <2>6. PICK c \in Seq(Answers), d \in Seq(Answers) :
          /\ c = LastN(a, MaxEntries) /\ d = LastN(b, MaxEntries)
          /\ Len(c) = MaxEntries /\ Len(d) = MaxEntries
          /\ \A i \in 1..MaxEntries : c[i] = a[Len(a) - MaxEntries + i]
          /\ \A i \in 1..MaxEntries : d[i] = b[Len(b) - MaxEntries + i]
    BY <2>3, <2>5, LastNIs, ZenonT(30)
  <2>7. ASSUME NEW i \in 1..MaxEntries PROVE c[i] = d[i]
    <3>1. c[i] = a[i + 1] /\ d[i] = b[Len(s) + 1 - MaxEntries + i]
      <4>1. Len(a) - MaxEntries + i = i + 1 /\ Len(b) - MaxEntries + i = Len(s) + 1 - MaxEntries + i
        BY <1>1, <2>3
      <4> QED
        BY <2>6, <4>1
    <3>2. CASE i = MaxEntries
      BY <1>1, <2>3, <3>1, <3>2
    <3>3. CASE i # MaxEntries
      <4>1. i + 1 \in 1..MaxEntries /\ Len(s) + 1 - MaxEntries + i \in 1..Len(s)
        BY <1>1, <1>3, <3>3
      <4>2. a[i + 1] = s[Len(s) - MaxEntries + (i + 1)]
        BY <2>3, <4>1
      <4>3. b[Len(s) + 1 - MaxEntries + i] = s[Len(s) + 1 - MaxEntries + i]
        BY <2>3, <4>1
      <4>4. Len(s) - MaxEntries + (i + 1) = Len(s) + 1 - MaxEntries + i
        BY <1>1
      <4> QED
        BY <3>1, <4>2, <4>3, <4>4
    <3> QED
      BY <3>2, <3>3
  <2>8. c = d
    BY <2>6, <2>7, SeqEqual
  <2> QED
    BY <2>1, <2>2, <2>4, <2>6, <2>8
<1> QED
  BY <1>2, <1>3

LEMMA RememberedInitially == ExperimentInit => MemoryInv
<1> SUFFICES ASSUME ExperimentInit PROVE MemoryInv
  OBVIOUS
<1>1. << >> \in Seq(Answers) /\ Latest(<< >>) = << >>
  <2>1. Len(<< >>) = 0 /\ << >> \in Seq(Answers)
    OBVIOUS
  <2> QED
    BY <2>1, EngineAssumption DEF Latest
<1> QED
  BY <1>1, EngineAssumption DEF ExperimentInit, EngineInit, MemoryInv, Remembered

(* A frame's answer is appended, and a thread that leaves forgets.           *)
LEMMA RememberedStep ==
  ASSUME MemoryInv, [ExperimentNext]_vars
  PROVE  MemoryInv'
<1>1. CASE UNCHANGED <<said, memory>>
  BY <1>1 DEF MemoryInv, Remembered
<1>2. ASSUME NEW r \in Experiments, LeaveEngine(r) PROVE MemoryInv'
  <2>1. << >> \in Seq(Answers) /\ Latest(<< >>) = << >>
    <3>1. Len(<< >>) = 0 /\ << >> \in Seq(Answers)
      OBVIOUS
    <3> QED
      BY <3>1, EngineAssumption DEF Latest
  <2> QED
    BY <1>2, <2>1, EngineAssumption DEF LeaveEngine, MemoryInv, Remembered
<1>3. ASSUME NEW r \in Remembering, NEW length \in Lengths, length > 0, Remember(r, length)
      PROVE  MemoryInv'
  <2>1. r \in Experiments /\ length \in Answers
    BY <1>3, EngineAssumption DEF Answers
  <2>2. PICK s \in Seq(Answers) : s = said[r] /\ memory[r] = Latest(s)
    BY DEF MemoryInv, Remembered
  <2>3. /\ said' = [said EXCEPT ![r] = Append(s, length)]
        /\ memory' = [memory EXCEPT ![r] = Latest(Append(Latest(s), length))]
    BY <1>3, <2>2 DEF Remember
  <2>4. PICK t \in Seq(Answers) : t = Append(s, length) /\ Latest(Append(Latest(s), length)) = Latest(t)
    <3>1. Append(s, length) \in Seq(Answers)
      BY <2>1
    <3> QED
      BY <2>1, <3>1, LatestOfLatest
  <2> QED
    BY <2>1, <2>3, <2>4 DEF MemoryInv, Remembered
<1>4. ASSUME NEW r \in Experiments, Infer(r) PROVE MemoryInv'
  BY <1>1, <1>3, <1>4 DEF Infer, RunFrame
<1>5. ASSUME NEW r \in Experiments, EndLoop(r) \/ WorkerRaises(r) PROVE MemoryInv'
  BY <1>2, <1>5 DEF EndLoop, WorkerRaises
<1>6. ASSUME NEW r \in Experiments, HandlerStep(r) \/ HandlerFails(r) PROVE MemoryInv'
  <2>1. UNCHANGED <<said, memory>>
    BY <1>6 DEF HandlerStep, HandlerFails, Gate, Reject, Claim, MakeArtifacts, Register, Record,
       Advance, Launch, HandlerGoes, engineVars
  <2> QED
    BY <1>1, <2>1
<1>7. ASSUME NEW r \in Experiments, WorkerStep(r), ~Infer(r), ~EndLoop(r) PROVE MemoryInv'
  <2>1. UNCHANGED <<said, memory>>
    BY <1>7 DEF WorkerStep, Begin, NextFrame, ReportFrame, RecordFailure, Decide, Finalize, Free,
       Forget, Quietly, KeepVerdict, engineVars
  <2> QED
    BY <1>1, <2>1
<1>8. CASE Outside
  <2>1. UNCHANGED <<said, memory>>
    BY <1>8 DEF Outside, FindEvent, SetEvent, OpenReview, WriteReview, RecordOther, vars, engineVars
  <2> QED
    BY <1>1, <2>1
<1> QED
  BY <1>4, <1>5, <1>6, <1>7, <1>8 DEF ExperimentNext, Outside

(* Cutting the history twice leaves in the prompt the latest answers that    *)
(* fit both limits, as many as possible, for every value of the limits.      *)
THEOREM PromptTellsTheLatestHolds == ExperimentSpec => []PromptTellsTheLatest
<1>1. MemoryInv => PromptTellsTheLatest
  <2> SUFFICES ASSUME MemoryInv, NEW r \in Remembering
               PROVE  LET fitting == { n \in 0..Len(said[r]) :
                            n <= MaxEntries /\ BlockLength(LastN(said[r], n)) <= MaxChars }
                      IN  \E n \in fitting :
                            PromptBlock(r) = LastN(said[r], n) /\ \A m \in fitting : m <= n
    BY DEF PromptTellsTheLatest
  <2>1. PICK s \in Seq(Answers) : s = said[r] /\ memory[r] = Latest(s)
    BY DEF MemoryInv, Remembered
  <2> SUFFICES \E n \in 0..Len(s) :
                 /\ n <= MaxEntries /\ BlockLength(LastN(s, n)) <= MaxChars
                 /\ PromptBlock(r) = LastN(s, n)
                 /\ \A m \in 0..Len(s) :
                      m <= MaxEntries /\ BlockLength(LastN(s, m)) <= MaxChars => m <= n
    BY <2>1
  <2>2. MaxEntries \in Nat /\ MaxChars \in Nat /\ Len(s) \in Nat
    BY EngineAssumption
  <2>3. CASE MaxEntries = 0
    <3>1. PromptBlock(r) = << >> /\ LastN(s, 0) = << >>
      BY <2>2, <2>3, LastNIs DEF PromptBlock
    <3>2. BlockLength(LastN(s, 0)) = 0
      <4>1. PICK f \in [0..Len(s) -> Nat] :
              Joins(f, s, Len(s)) /\ \A n \in 0..Len(s) : BlockLength(LastN(s, n)) = f[n]
        BY BlockLengthIs
      <4> QED
        BY <2>2, <4>1 DEF Joins
    <3> QED
      BY <2>2, <2>3, <3>1, <3>2
  <2>4. CASE MaxEntries # 0
    <3>1. PICK k \in 0..Len(s) :
            /\ k <= MaxEntries
            /\ Latest(s) = LastN(s, k)
            /\ (k = MaxEntries \/ k = Len(s))
      <4>1. LastN(s, Len(s)) = s
        BY <2>2, LastNIs, SeqEqual
      <4> QED
        BY <2>2, <2>4, <4>1 DEF Latest
    <3>2. PICK t \in Seq(Answers) :
            /\ t = Latest(s)
            /\ Len(t) = k
            /\ \A i \in 1..k : t[i] = s[Len(s) - k + i]
      <4>1. /\ LastN(s, k) \in Seq(Answers) /\ Len(LastN(s, k)) = k
            /\ \A i \in 1..k : LastN(s, k)[i] = s[Len(s) - k + i]
        BY LastNIs
      <4> QED
        BY <3>1, <4>1
    <3>3. ASSUME NEW n \in 0..k PROVE LastN(t, n) = LastN(s, n)
      <4>1. n \in 0..Len(t) /\ n \in 0..Len(s)
        BY <3>2
      <4>2. PICK c \in Seq(Answers), d \in Seq(Answers) :
              /\ c = LastN(t, n) /\ d = LastN(s, n) /\ Len(c) = n /\ Len(d) = n
              /\ \A i \in 1..n : c[i] = t[Len(t) - n + i]
              /\ \A i \in 1..n : d[i] = s[Len(s) - n + i]
        BY <4>1, LastNIs
      <4>3. ASSUME NEW i \in 1..n PROVE c[i] = d[i]
        <5>1. k - n + i \in 1..k
          OBVIOUS
        <5>2. t[k - n + i] = s[Len(s) - k + (k - n + i)]
          BY <3>2, <5>1
        <5>3. Len(s) - k + (k - n + i) = Len(s) - n + i
          BY <2>2
        <5> QED
          BY <3>2, <4>2, <5>2, <5>3
      <4> QED
        BY <4>2, <4>3, SeqEqual
    <3>4. PICK n \in 0..Len(t) :
            /\ Truncated(t) = LastN(t, n)
            /\ BlockLength(LastN(t, n)) <= MaxChars
            /\ \A m \in 0..Len(t) : BlockLength(LastN(t, m)) <= MaxChars => m <= n
      BY TruncatedFits
    <3>5. PromptBlock(r) = Truncated(t)
      BY <2>1, <2>2, <2>4, <3>2 DEF PromptBlock
    <3>6. n \in 0..k /\ n \in 0..Len(s) /\ n <= MaxEntries
      <4>1. n \in 0..k
        BY <3>2, <3>4
      <4>2. k \in Nat /\ n \in Nat /\ k <= Len(s) /\ n <= k
        BY <2>2, <4>1
      <4>3. n <= Len(s) /\ n <= MaxEntries
        <5> HIDE <2>1, <2>4
        <5> QED
          BY <2>2, <3>1, <4>2
      <4> QED
        BY <2>2, <4>1, <4>2, <4>3
    <3>7. ASSUME NEW m \in 0..Len(s), m <= MaxEntries, BlockLength(LastN(s, m)) <= MaxChars
          PROVE  m <= n
      <4>1. m \in 0..k
        BY <2>2, <3>1, <3>7
      <4> QED
        BY <3>2, <3>3, <3>4, <3>7, <4>1
    <3> QED
      BY <3>3, <3>4, <3>5, <3>6, <3>7
  <2> QED
    BY <2>3, <2>4
<1> QED
  BY <1>1, RememberedInitially, RememberedStep, PTL DEF ExperimentSpec
=============================================================================
