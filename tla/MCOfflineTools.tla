---------------------------- MODULE MCOfflineTools ----------------------------
(* Small instances of the tools that share no state: each behaviour is one   *)
(* of a single tool, so that their states add up.                            *)
EXTENDS ModelControl, Distillation, TemporalLabels, SequenceCatalog, ExperimentStack

CONSTANTS
  Tools,
  s1, s2, s3, s4,  \* samples to label
  t1, t2, t3       \* samples of a scene

VARIABLE tool

InstanceSampleList == <<s1, s2, s3, s4>>
InstanceGroupOf == (s1 :> "a") @@ (s2 :> "a") @@ (s3 :> "b") @@ (s4 :> "c")

InstanceOpposite == ("approaching" :> "receding") @@ ("receding" :> "approaching")

(* Recordings of up to three messages, among them those of one               *)
InstanceRecordings ==
  {r \in SeqOf([at : 2..5, decodes : BOOLEAN], 3) :
     r # << >> /\ \A i \in 2..Len(r) : r[i].at >= r[i - 1].at}
InstanceParameters ==
  [start : {0, 1}, end : {Default, 2}, duration : {Default, 2}, interval : {0, 2},
   target : {Default, 2}, max : {1, 3}]
Plain ==
  [start |-> 0, end |-> Default, duration |-> Default, interval |-> 0, target |-> Default,
   max |-> 3]
Short == {[i \in 1..n |-> [at |-> 2, decodes |-> TRUE]] : n \in 1..2}

(* The last sample of the scene is linked to its first.                      *)
InstanceNextToken == (t1 :> t2) @@ (t2 :> t3) @@ (t3 :> t1)
InstanceSelections == {Default, << >>, <<1, 0, 1>>, <<-1>>, <<0, 1, 2>>}

(* A tool that is not in use stays as it is at one of its initial states.    *)
OfflineInit ==
  /\ tool \in Tools
  /\ CatalogInit
  /\ tool # "frames" => recording \in Short
  /\ tool \notin {"frames", "sequences"} => Len(recording) = 1
  /\ probe.file # 0 => probe.annotations = 0
  /\ tool # "sequences" => images = {} /\ probe = [file |-> 0, annotations |-> 0]
  /\ StackInit
  /\ ControlInit /\ (tool # "control" => envFile = NoFile)
  /\ PipelineInit
  /\ IF tool = "labels" THEN LabelInit
     ELSE /\ sample = [frames |-> << >>, static |-> FALSE, refs |-> 0, target |-> NoTarget]
          /\ stage = "none" /\ result = << >>

ByControl == tool = "control" /\ ControlNext
             /\ UNCHANGED <<tool, pipelineVars, labelVars, catalogVars, stackVars>>
ByPipeline == tool = "pipeline" /\ PipelineNext
              /\ UNCHANGED <<tool, controlVars, labelVars, catalogVars, stackVars>>
ByLabels == tool = "labels" /\ LabelNext
            /\ UNCHANGED <<tool, controlVars, pipelineVars, catalogVars, stackVars>>
(* One extraction of any kind, or several of the plainest beside a catalog   *)
ByFrames == tool = "frames" /\ ExtractionNext /\ ~store'[2].made
            /\ UNCHANGED <<tool, controlVars, pipelineVars, labelVars, sequenceVars, stackVars>>
BySequences == tool = "sequences" /\ CatalogNext
               /\ (\A d \in Datasets : store'[d].made => store'[d].asked = Plain)
               /\ UNCHANGED <<tool, controlVars, pipelineVars, labelVars, stackVars>>
ByStack == tool = "stack" /\ StackNext
           /\ UNCHANGED <<tool, controlVars, pipelineVars, labelVars, catalogVars>>

OfflineNext == ByControl \/ ByPipeline \/ ByLabels \/ ByFrames \/ BySequences \/ ByStack

offlineVars == <<tool, controlVars, pipelineVars, labelVars, catalogVars, stackVars>>

OfflineSpec == OfflineInit /\ [][OfflineNext]_offlineVars
=============================================================================
