----------------------------- MODULE Distillation -----------------------------
(***************************************************************************)
(* From frames to a trained student: the labels a teacher gives to a list  *)
(* of samples and keeps on disk, the accepted ones split and exported, and *)
(* a training that reads the export.  Each may be killed anywhere; a file  *)
(* is truncated before it is written.                                      *)
(*                                                                         *)
(* A hash is what it is the hash of.  What a fingerprint covers of a       *)
(* sample is one number; the settings of a run are the representation its  *)
(* teacher sees.  The file of a split that is cut off is one that cannot   *)
(* be loaded.                                                              *)
(***************************************************************************)
EXTENDS Integers, Sequences, FiniteSets, FiniteSetsExt

CONSTANTS
  SampleList,       \* the samples, as every run is given them
  GroupOf,          \* _group_key
  Representations,  \* input_representation
  Video,            \* those that are native video
  TrainPercent, ValPercent,
  MaxChanges,       \* bound: changes of samples
  MaxRuns           \* bound: runs of the pipeline

Samples == {SampleList[i] : i \in DOMAIN SampleList}

ASSUME PipelineAssumption ==
  /\ SampleList \in Seq(Samples) /\ Cardinality(Samples) = Len(SampleList)
  /\ DOMAIN GroupOf = Samples
  /\ Video \subseteq Representations
  /\ {TrainPercent, ValPercent} \subseteq 1..98 /\ TrainPercent + ValPercent < 100
  /\ MaxChanges \in Nat /\ MaxRuns \in Nat

VARIABLES
  inputs,    \* what the frames and the prompt profile of a sample are now
  labels,    \* the teacher's output directory
  pipeline,  \* the run that labels, splits and exports
  dataset,   \* the export directory
  training,
  runs

pipelineVars == <<inputs, labels, pipeline, dataset, training, runs>>

Absent == [state |-> "absent"]
Cut == [state |-> "cut"]
Whole(content) == [state |-> "whole", content |-> content]

Splits == {"train", "val", "test"}
DatasetFiles == Splits \cup {"manifest"}
Idle == [pc |-> "idle"]

PipelineInit ==
  /\ inputs = [s \in Samples |-> 0]
  /\ labels = [s \in Samples |-> Absent]
  /\ pipeline = Idle
  /\ dataset = [file \in DatasetFiles |-> Absent]
  /\ training = Idle
  /\ runs = 0

-----------------------------------------------------------------------------
Changes == MapThenSumSet(LAMBDA s : inputs[s], Samples)

(* New frames or another prompt profile for a sample; a run has its samples  *)
(* in memory.                                                                *)
ChangeInput(s) ==
  /\ pipeline.pc \in {"idle", "exported"} /\ Changes < MaxChanges
  /\ inputs' = [inputs EXCEPT ![s] = @ + 1]
  /\ UNCHANGED <<labels, pipeline, dataset, training, runs>>

(* TeacherLabelGenerator.run begins.                                         *)
StartRun(representation) ==
  /\ pipeline.pc \in {"idle", "exported"} /\ runs < MaxRuns
  /\ pipeline' = [pc |-> "label", samples |-> inputs, representation |-> representation,
                  results |-> << >>]
  /\ runs' = runs + 1
  /\ UNCHANGED <<inputs, labels, dataset, training>>

Current == SampleList[Len(pipeline.results) + 1]

(* _input_fingerprint                                                        *)
Fingerprint(s) == <<pipeline.samples[s], pipeline.representation>>

\* Mutant: a label is reused for the sample's name.
CachedUnderTheName(s) == labels[s].state = "whole"

Cached(s) == labels[s].state = "whole" /\ labels[s].content.fingerprint = Fingerprint(s)

Labelling == pipeline.pc = "label" /\ Len(pipeline.results) < Len(SampleList)

Reuse ==
  /\ Labelling /\ Cached(Current)
  /\ pipeline' = [pipeline EXCEPT !.results = Append(@, labels[Current].content)]
  /\ UNCHANGED <<inputs, labels, dataset, training, runs>>

(* _generate_one: the provenance is a new one, which says nothing of the     *)
(* sequence.                                                                 *)
Labelled(s, good) ==
  [sample |-> s, fingerprint |-> Fingerprint(s), good |-> good, sequence |-> "",
   of |-> Fingerprint(s)]

(* The teacher answers, and the file of the label is opened.                 *)
Generate(good) ==
  /\ Labelling /\ ~Cached(Current)
  /\ labels' = [labels EXCEPT ![Current] = Cut]
  /\ pipeline' = [pipeline EXCEPT !.pc = "write", !.results = Append(@, Labelled(Current, good))]
  /\ UNCHANGED <<inputs, dataset, training, runs>>

WriteLabel ==
  /\ pipeline.pc = "write"
  /\ LET label == pipeline.results[Len(pipeline.results)]
     IN  labels' = [labels EXCEPT ![label.sample] = Whole(label)]
  /\ pipeline' = [pipeline EXCEPT !.pc = "label"]
  /\ UNCHANGED <<inputs, dataset, training, runs>>

-----------------------------------------------------------------------------
(* validate_batch                                                            *)
AcceptedLabels ==
  {pipeline.results[i] : i \in {j \in DOMAIN pipeline.results : pipeline.results[j].good}}

\* Mutant: samples are split, whatever their group.
KeyOfSample(label) == label.sample

KeyOf(label) == GroupOf[label.sample]

(* max(1, round(n * percent / 100)), where Python rounds a half to even      *)
Share(n, percent) ==
  LET q == (n * percent) \div 100
      r == (n * percent) % 100
      rounded == q + (IF r > 50 \/ (r = 50 /\ q % 2 = 1) THEN 1 ELSE 0)
  IN  IF rounded < 1 THEN 1 ELSE rounded

AtMost(n, S) == IF n > Cardinality(S) THEN Cardinality(S) ELSE n

(* split_dataset, over every order of the keys                               *)
Split ==
  /\ pipeline.pc = "label" /\ Len(pipeline.results) = Len(SampleList)
  /\ LET keys == {KeyOf(l) : l \in AcceptedLabels}
         n == Cardinality(keys)
         Of(K) == {l \in AcceptedLabels : KeyOf(l) \in K}
     IN  \E T \in kSubset(AtMost(Share(n, TrainPercent), keys), keys) :
         \E V \in kSubset(AtMost(Share(n, ValPercent), keys \ T), keys \ T) :
           pipeline' = [pc |-> "open", file |-> "train", accepted |-> AcceptedLabels,
                        splits |-> [split \in Splits |->
                                      CASE split = "train" -> Of(T)
                                        [] split = "val" -> Of(V)
                                        [] split = "test" -> Of((keys \ T) \ V)]]
  /\ UNCHANGED <<inputs, labels, dataset, training, runs>>

(* _sample_to_sft_example                                                    *)
Example(label) ==
  [sample |-> label.sample, of |-> label.of,
   modality |-> IF label.sequence \in {"video", "temporal_images"} THEN "video" ELSE "images"]

Exported(split) == {Example(l) : l \in pipeline.splits[split]}

OpenFile ==
  /\ pipeline.pc = "open"
  /\ dataset' = [dataset EXCEPT ![pipeline.file] = Cut]
  /\ pipeline' = [pipeline EXCEPT !.pc = "export"]
  /\ UNCHANGED <<inputs, labels, training, runs>>

After(file) ==
  CASE file = "train" -> "val" [] file = "val" -> "test" [] file = "test" -> "manifest"

(* export_sft_dataset: the splits in turn, then the manifest.                *)
WriteFile ==
  /\ pipeline.pc = "export"
  /\ LET file == pipeline.file
     IN  IF file = "manifest"
         THEN /\ dataset' = [dataset EXCEPT ![file] = Whole([s \in Splits |-> Exported(s)])]
              /\ pipeline' = [pipeline EXCEPT !.pc = "exported"]
         ELSE /\ dataset' = [dataset EXCEPT ![file] = Whole(Exported(file))]
              /\ pipeline' = [pipeline EXCEPT !.pc = "open", !.file = After(file)]
  /\ UNCHANGED <<inputs, labels, training, runs>>

PipelineKilled ==
  /\ pipeline.pc \notin {"idle", "exported"}
  /\ pipeline' = Idle
  /\ UNCHANGED <<inputs, labels, dataset, training, runs>>

-----------------------------------------------------------------------------
(* run_training reads the manifest: a configuration that names one by its    *)
(* hash needs it to be there and to be that one.                             *)
CheckManifest(named) ==
  /\ training.pc = "idle"
  /\ \/ dataset["manifest"].state = "whole"
     \/ dataset["manifest"].state = "absent" /\ ~named
  /\ training' = [pc |-> "load", manifest |-> dataset["manifest"]]
  /\ UNCHANGED <<inputs, labels, pipeline, dataset, runs>>

(* load_dataset                                                              *)
LoadDataset ==
  /\ training.pc = "load"
  /\ training' = IF \A split \in {"train", "val"} : dataset[split].state = "whole"
                 THEN [pc |-> "trained", manifest |-> training.manifest,
                       train |-> dataset["train"].content, val |-> dataset["val"].content]
                 ELSE Idle
  /\ UNCHANGED <<inputs, labels, pipeline, dataset, runs>>

PipelineNext ==
  \/ \E s \in Samples : ChangeInput(s)
  \/ \E representation \in Representations : StartRun(representation)
  \/ Reuse
  \/ \E good \in BOOLEAN : Generate(good)
  \/ WriteLabel
  \/ Split
  \/ OpenFile
  \/ WriteFile
  \/ PipelineKilled
  \/ \E named \in BOOLEAN : CheckManifest(named)
  \/ LoadDataset

PipelineSpec == PipelineInit /\ [][PipelineNext]_pipelineVars

-----------------------------------------------------------------------------
(* Every label of a run, also one that was on disk, is the teacher's answer  *)
(* to what the sample is in this run and in the representation of this run,  *)
(* whatever was changed or killed before (_input_fingerprint, run).          *)
LabelsAreCurrent ==
  pipeline.pc \in {"label", "write"} =>
    \A i \in DOMAIN pipeline.results :
      /\ pipeline.results[i].sample = SampleList[i]
      /\ pipeline.results[i].of = Fingerprint(SampleList[i])

(* When an export has ended, the files are those its manifest tells of, they *)
(* have every accepted sample, and no group is in two of them: no student is *)
(* measured on a scene it was trained on (split_dataset, export_sft_dataset).*)
ExportIsWhole ==
  pipeline.pc = "exported" =>
    LET told == dataset["manifest"].content
    IN  /\ \A split \in Splits : dataset[split] = Whole(told[split])
        /\ \A a, b \in Splits : a # b =>
             {GroupOf[e.sample] : e \in told[a]} \cap {GroupOf[e.sample] : e \in told[b]} = {}
        /\ UNION {told[split] : split \in Splits} = {Example(l) : l \in pipeline.accepted}

(* A student is trained on a sample as its teacher saw it, as video or as    *)
(* single images (ADR 003: teacher temporal semantics ~= training-processor  *)
(* temporal semantics).  It is not: _generate_one does not keep what the     *)
(* export decides by.                                                        *)
RepresentationIsKept ==
  training.pc = "trained" =>
    \A e \in training.train \cup training.val : (e.modality = "video") = (e.of[2] \in Video)

(* A training whose manifest was compared reads the files the manifest tells *)
(* of (training.py:676).  Not so after an export that was killed, or beside  *)
(* one: only the manifest itself is compared.                                *)
TrainsOnItsManifest ==
  training.pc = "trained" /\ training.manifest.state = "whole" =>
    training.train = training.manifest.content["train"]
=============================================================================
