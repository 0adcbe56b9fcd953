----------------------------- MODULE ModelControl -----------------------------
(***************************************************************************)
(* modelctl and the files it decides by.  Its commands run one at a time   *)
(* and may be killed anywhere.                                             *)
(*                                                                         *)
(* The content of a directory is a number that no other content has: the   *)
(* inventory digest covers names, sizes and times.  What a profile asks of *)
(* an engine is the number of its revision in the registry; a revision     *)
(* changes a limit that the configurations of the engines repeat.          *)
(* It does not return to an earlier one, and nobody removes the files of   *)
(* an engine: a build does not remove the manifest it will replace, so     *)
(* that one that is killed would then leave half an engine that validates. *)
(* Profiles that modelctl does not support are refused by every command    *)
(* and left out, as are dry runs and the commands that only print.         *)
(***************************************************************************)
EXTENDS Integers, FiniteSets

CONSTANTS
  Models,
  Managed,      \* profiles whose engines modelctl builds
  Adopted,      \* profiles of engines that another tool built: no manifest
  Contexts,     \* what the environment says of paths and plugin
  NoFile,
  MaxWrites,    \* bound: directories written
  MaxRevisions  \* bound: revisions of a profile

Stages == {"quantized", "llm", "visual"}
Parts == {"llm", "visual"}

Manifest == [revision : Nat, prepared : [Stages -> Nat]]

ASSUME ControlAssumption ==
  /\ Managed \cap Adopted = {}
  /\ NoFile \notin Contexts /\ NoFile \notin Manifest
  /\ MaxWrites \in Nat /\ MaxRevisions \in Nat

VARIABLES
  artifacts,  \* what is prepared of a model; 0 is an empty directory
  engines,
  manifests,  \* engine-manifest.json
  revision,   \* the registry of profiles
  envFile,
  stateFile,
  writes,
  command

controlVars == <<artifacts, engines, manifests, revision, envFile, stateFile, writes, command>>

Profiles == Managed \cup Adopted
Targets == Models \X Profiles

(* An engine has all the files that are asked for, in part or whole.         *)
Engine == [files : {"missing", "partial", "whole"}, of : Nat, revision : Nat]

NoEngine == [files |-> "missing", of |-> 0, revision |-> 0]
NoCommand == [op |-> "none"]

ControlInit ==
  /\ artifacts = [m \in Models |-> [stage \in Stages |-> 0]]
  /\ engines = [t \in Targets |-> [part \in Parts |-> NoEngine]]
  /\ manifests = [t \in Targets |-> NoFile]
  /\ revision = [p \in Profiles |-> 1]
  /\ envFile \in Contexts \cup {NoFile}
  /\ stateFile = NoFile
  /\ writes = 0
  /\ command = NoCommand

fileVars == <<artifacts, engines, manifests, revision, envFile, stateFile, writes>>

At(op, pc) == command.op = op /\ command.pc = pc

-----------------------------------------------------------------------------
(* prepared_status                                                           *)
IsPrepared(m) == \A stage \in Stages : artifacts[m][stage] # 0

(* check_engine_artifacts                                                    *)
HasArtifacts(m, p) == \A part \in Parts : engines[<<m, p>>][part].files # "missing"

(* _validate_limits_against_configs: what an engine was built with           *)
LimitsFit(m, p) == \A part \in Parts : engines[<<m, p>>][part].revision = revision[p]

EngineFits(m, p) == HasArtifacts(m, p) /\ LimitsFit(m, p)

(* _engine_manifest_payload                                                  *)
Payload(m, p) == [revision |-> revision[p], prepared |-> artifacts[m]]

\* Mutant: the digest of the ONNX files is not compared.
ManifestFitsQuantized(m, p) ==
  /\ manifests[<<m, p>>] # NoFile
  /\ manifests[<<m, p>>].revision = revision[p]
  /\ manifests[<<m, p>>].prepared["quantized"] = artifacts[m]["quantized"]

ManifestFits(m, p) == manifests[<<m, p>>] = Payload(m, p)

(* validate_engine_profile, as every command calls it.                       *)
Valid(m, p) == EngineFits(m, p) /\ (p \in Managed => ManifestFits(m, p))

-----------------------------------------------------------------------------
(* Every command ends, with an error or without, or is killed.               *)
Finish == command' = NoCommand

Go(pc) == command' = [command EXCEPT !.pc = pc]

Killed == command # NoCommand /\ Finish /\ UNCHANGED fileVars

(* The directory is written anew.                                            *)
Writes(m, stage) ==
  /\ writes < MaxWrites
  /\ writes' = writes + 1
  /\ artifacts' = [artifacts EXCEPT ![m][stage] = writes + 1]
  /\ UNCHANGED <<engines, manifests, revision, envFile, stateFile>>

(* cmd_prepare and the stages of the script it runs                          *)
Prepare(m) ==
  /\ command = NoCommand
  /\ ~IsPrepared(m)
  /\ command' = [op |-> "prepare", m |-> m,
                 pc |-> IF artifacts[m]["quantized"] = 0 THEN "quantized" ELSE "llm"]
  /\ UNCHANGED fileVars

Quantize ==
  /\ At("prepare", "quantized")
  /\ Writes(command.m, "quantized")
  /\ Go("llm")

ExportLlm ==
  /\ At("prepare", "llm")
  /\ Writes(command.m, "llm")
  /\ Go("visual")

ExportVisual ==
  /\ At("prepare", "visual")
  /\ Writes(command.m, "visual")
  /\ Finish

-----------------------------------------------------------------------------
(* cmd_build                                                                 *)
Build(m, p) ==
  /\ command = NoCommand
  /\ p \in Managed /\ IsPrepared(m) /\ ~Valid(m, p)
  /\ command' = [op |-> "build", m |-> m, p |-> p, pc |-> "llm"]
  /\ UNCHANGED fileVars

(* The builder has begun to write: an engine of that part, if there was one, *)
(* is lost.                                                                  *)
BuilderBegins(part) ==
  /\ At("build", part)
  /\ \E files \in {"missing", "partial"} :
       engines' = [engines EXCEPT ![<<command.m, command.p>>][part] =
                     [files |-> files, of |-> artifacts[command.m][part],
                      revision |-> revision[command.p]]]
  /\ Go(IF part = "llm" THEN "llm running" ELSE "visual running")
  /\ UNCHANGED <<artifacts, manifests, revision, envFile, stateFile, writes>>

BuilderEnds(part) ==
  /\ At("build", IF part = "llm" THEN "llm running" ELSE "visual running")
  /\ engines' = [engines EXCEPT ![<<command.m, command.p>>][part].files = "whole"]
  /\ Go(IF part = "llm" THEN "visual" ELSE "manifest")
  /\ UNCHANGED <<artifacts, manifests, revision, envFile, stateFile, writes>>

(* Validated without a manifest, then written at once or not at all.         *)
WriteManifest ==
  /\ At("build", "manifest")
  /\ EngineFits(command.m, command.p)
  /\ manifests' = [manifests EXCEPT ![<<command.m, command.p>>] = Payload(command.m, command.p)]
  /\ Finish
  /\ UNCHANGED <<artifacts, engines, revision, envFile, stateFile, writes>>

-----------------------------------------------------------------------------
(* cmd_activate: both files are read before either is written.               *)
Activate(m, p, c) ==
  /\ command = NoCommand
  /\ Valid(m, p)
  /\ command' = [op |-> "activate", m |-> m, p |-> p, context |-> c, pc |-> "env",
                 env |-> envFile, state |-> stateFile, complete |-> TRUE]
  /\ UNCHANGED fileVars

stillVars == <<artifacts, engines, manifests, revision, writes>>

WriteEnv ==
  /\ At("activate", "env")
  /\ envFile' = command.context
  /\ Go("state")
  /\ UNCHANGED <<stillVars, stateFile>>

WriteState ==
  /\ At("activate", "state")
  /\ stateFile' = [m |-> command.m, p |-> command.p, context |-> command.context]
  /\ Finish
  /\ UNCHANGED <<stillVars, envFile>>

(* Either write may fail; each replaces its file at once, so that it then    *)
(* has changed nothing.                                                      *)
WriteFails ==
  /\ At("activate", "env") \/ At("activate", "state")
  /\ Go("restore env")
  /\ UNCHANGED fileVars

\* Mutant: only the state file is restored.
RestoreNoEnv ==
  /\ At("activate", "restore env")
  /\ Go("restore state")
  /\ UNCHANGED fileVars

(* _rollback_activation_files: what cannot be restored does not keep the     *)
(* rest from being restored.                                                 *)
RestoreEnv ==
  /\ At("activate", "restore env")
  /\ \/ envFile' = command.env /\ Go("restore state")
     \/ /\ command' = [command EXCEPT !.pc = "restore state", !.complete = FALSE]
        /\ UNCHANGED envFile
  /\ UNCHANGED <<stillVars, stateFile>>

RestoreState ==
  /\ At("activate", "restore state")
  /\ \/ stateFile' = command.state /\ Go("failed")
     \/ /\ command' = [command EXCEPT !.pc = "failed", !.complete = FALSE]
        /\ UNCHANGED stateFile
  /\ UNCHANGED <<stillVars, envFile>>

ActivationFails == At("activate", "failed") /\ Finish /\ UNCHANGED fileVars

-----------------------------------------------------------------------------
(* What others do between commands: prepared files are removed, a profile is *)
(* revised, an engine is built by other means for a profile that adopts it.  *)
RemovePrepared(m, stage) ==
  /\ command = NoCommand /\ artifacts[m][stage] # 0
  /\ artifacts' = [artifacts EXCEPT ![m][stage] = 0]
  /\ UNCHANGED <<engines, manifests, revision, envFile, stateFile, writes, command>>

ReviseProfile(p) ==
  /\ command = NoCommand /\ revision[p] < MaxRevisions
  /\ revision' = [revision EXCEPT ![p] = @ + 1]
  /\ UNCHANGED <<artifacts, engines, manifests, envFile, stateFile, writes, command>>

OtherBuilds(m, p) ==
  /\ command = NoCommand /\ p \in Adopted
  /\ \E files \in {"partial", "whole"} :
       LET e == [files |-> files, of |-> 0, revision |-> revision[p]]
       IN  engines' = [engines EXCEPT ![<<m, p>>] = [part \in Parts |-> e]]
  /\ UNCHANGED <<artifacts, manifests, revision, envFile, stateFile, writes, command>>

ControlNext ==
  \/ Killed
  \/ \E m \in Models :
       \/ Prepare(m)
       \/ \E stage \in Stages : RemovePrepared(m, stage)
       \/ \E p \in Profiles :
            Build(m, p) \/ OtherBuilds(m, p) \/ (\E c \in Contexts : Activate(m, p, c))
  \/ \E p \in Profiles : ReviseProfile(p)
  \/ Quantize \/ ExportLlm \/ ExportVisual
  \/ \E part \in Parts : BuilderBegins(part) \/ BuilderEnds(part)
  \/ WriteManifest
  \/ WriteEnv \/ WriteState \/ WriteFails \/ RestoreEnv \/ RestoreState \/ ActivationFails

ControlSpec == ControlInit /\ [][ControlNext]_controlVars

-----------------------------------------------------------------------------
(* Both engines are whole, of what is prepared now and of the profile as it  *)
(* is now.                                                                   *)
Built(m, p) ==
  \A part \in Parts :
    engines[<<m, p>>][part] =
      [files |-> "whole", of |-> artifacts[m][part], revision |-> revision[p]]

(* A managed profile becomes the active one only with engines that were      *)
(* built, to their end, from what is prepared and for what the registry      *)
(* says; builds that were killed, artifacts prepared again and profiles      *)
(* revised since all leave a manifest that tells (validate_engine_profile    *)
(* never looks into an engine).                                              *)
ActivatedIsBuilt ==
  [][stateFile' # stateFile /\ command.p \in Managed =>
       Built(command.m, command.p)]_controlVars

(* An activation that fails leaves the two files as they were, unless the    *)
(* roll back fails too, and no kill leaves an active state without the file  *)
(* that looks it up (cmd_activate).                                          *)
ActivationIsWhole ==
  /\ At("activate", "failed") /\ command.complete =>
       envFile = command.env /\ stateFile = command.state
  /\ stateFile # NoFile => envFile # NoFile
=============================================================================
