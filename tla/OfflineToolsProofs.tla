------------------------- MODULE OfflineToolsProofs ---------------------------
(***************************************************************************)
(* The tools that work on files, one after the other: each theorem is one  *)
(* of a single tool's specification.                                       *)
(***************************************************************************)
EXTENDS ModelControl, Distillation, SequenceCatalog, ExperimentStack, SequenceTheorems,
        FiniteSetTheorems, WellFoundedInduction, TLAPS

-----------------------------------------------------------------------------
(* ModelControl: a manifest that fits tells of engines that are whole and    *)
(* current, for any models, profiles and number of builds, kills and         *)
(* revisions.                                                                *)

Active == [m : Models, p : Profiles, context : Contexts]
Files == [env : Contexts \cup {NoFile}, state : Active \cup {NoFile}]

PrepareCommand == [op : {"prepare"}, m : Models, pc : {"quantized", "llm", "visual"}]
BuildCommand ==
  [op : {"build"}, m : Models, p : Managed,
   pc : {"llm", "llm running", "visual", "visual running", "manifest"}]
ActivateCommand ==
  [op : {"activate"}, m : Models, p : Profiles, context : Contexts,
   pc : {"env", "state", "restore env", "restore state", "failed"},
   env : Contexts \cup {NoFile}, state : Active \cup {NoFile}, complete : BOOLEAN]

ControlTypeOK ==
  /\ artifacts \in [Models -> [Stages -> Nat]]
  /\ engines \in [Targets -> [Parts -> Engine]]
  /\ manifests \in [Targets -> Manifest \cup {NoFile}]
  /\ revision \in [Profiles -> Nat]
  /\ envFile \in Contexts \cup {NoFile}
  /\ stateFile \in Active \cup {NoFile}
  /\ writes \in Nat
  /\ command \in {NoCommand} \cup PrepareCommand \cup BuildCommand \cup ActivateCommand

(* What is prepared has a number that was given out; a manifest tells of     *)
(* something that was prepared, and of no revision that is yet to come.      *)
NumbersAreOld ==
  /\ \A m \in Models, stage \in Stages : artifacts[m][stage] <= writes
  /\ \A m \in Models, p \in Profiles : manifests[<<m, p>>] # NoFile =>
       /\ manifests[<<m, p>>].revision <= revision[p]
       /\ \A stage \in Stages : manifests[<<m, p>>].prepared[stage] \in 1..writes

ManifestTells == \A m \in Models, p \in Managed : ManifestFits(m, p) => Built(m, p)

PartBuilt(m, p, part) ==
  engines[<<m, p>>][part] =
    [files |-> "whole", of |-> artifacts[m][part], revision |-> revision[p]]

(* A build is of what is prepared, with a manifest that does not fit.        *)
BuildGoesOn ==
  command \in BuildCommand =>
    /\ IsPrepared(command.m)
    /\ ~ManifestFits(command.m, command.p)
    /\ command.pc = "llm running" =>
         /\ engines[<<command.m, command.p>>]["llm"].of = artifacts[command.m]["llm"]
         /\ engines[<<command.m, command.p>>]["llm"].revision = revision[command.p]
    /\ command.pc \in {"visual", "visual running", "manifest"} =>
         PartBuilt(command.m, command.p, "llm")
    /\ command.pc = "visual running" =>
         /\ engines[<<command.m, command.p>>]["visual"].of = artifacts[command.m]["visual"]
         /\ engines[<<command.m, command.p>>]["visual"].revision = revision[command.p]
    /\ command.pc = "manifest" => PartBuilt(command.m, command.p, "visual")

(* Until it has written the state, an activation has left it as it was.      *)
ActivationGoesOn ==
  command \in ActivateCommand =>
    /\ command.state = stateFile
    /\ command.pc \in {"env", "state"} /\ command.p \in Managed =>
         Built(command.m, command.p)

ControlInv == ControlTypeOK /\ NumbersAreOld /\ ManifestTells /\ BuildGoesOn /\ ActivationGoesOn

LEMMA ControlInitInv == ControlInit => ControlInv
<1> SUFFICES ASSUME ControlInit PROVE ControlInv
  OBVIOUS
<1>1. ControlTypeOK
  BY DEF ControlInit, ControlTypeOK, Engine, NoEngine
<1>2. NumbersAreOld
  <2>1. \A m \in Models, stage \in Stages : artifacts[m][stage] <= writes
    BY DEF ControlInit
  <2>2. \A m \in Models, p \in Profiles : manifests[<<m, p>>] = NoFile
    BY DEF ControlInit, Targets
  <2> QED
    BY <2>1, <2>2 DEF NumbersAreOld
<1>3. ManifestTells
  <2>1. ASSUME NEW m \in Models, NEW p \in Managed PROVE ~ManifestFits(m, p)
    <3>1. manifests[<<m, p>>] = NoFile
      BY DEF ControlInit, Targets, Profiles
    <3>2. Payload(m, p) \in Manifest
      BY <1>1 DEF Payload, Manifest, ControlTypeOK, Profiles
    <3> QED
      BY <3>1, <3>2, ControlAssumption DEF ManifestFits
  <2> QED
    BY <2>1 DEF ManifestTells
<1>4. BuildGoesOn /\ ActivationGoesOn
  BY DEF ControlInit, BuildGoesOn, ActivationGoesOn, BuildCommand, ActivateCommand, NoCommand
<1> QED
  BY <1>1, <1>2, <1>3, <1>4 DEF ControlInv

(* Commands that do not touch what is prepared, built and registered         *)
LEMMA StillFacts ==
  ASSUME ControlTypeOK, NumbersAreOld, ManifestTells, UNCHANGED stillVars
  PROVE  /\ NumbersAreOld'
         /\ ManifestTells'
         /\ \A m \in Models, p \in Profiles :
              /\ Built(m, p)' = Built(m, p)
              /\ ManifestFits(m, p)' = ManifestFits(m, p)
              /\ EngineFits(m, p)' = EngineFits(m, p)
         /\ \A m \in Models : IsPrepared(m)' = IsPrepared(m)
<1>1. NumbersAreOld'
  BY DEF NumbersAreOld, stillVars
<1>2. \A m \in Models, p \in Profiles :
        /\ Built(m, p)' = Built(m, p)
        /\ ManifestFits(m, p)' = ManifestFits(m, p)
        /\ EngineFits(m, p)' = EngineFits(m, p)
  BY DEF Built, ManifestFits, Payload, EngineFits, HasArtifacts, LimitsFit, stillVars
<1>3. \A m \in Models : IsPrepared(m)' = IsPrepared(m)
  BY DEF IsPrepared, stillVars
<1>4. ManifestTells'
  BY <1>2 DEF ManifestTells, Profiles
<1> QED
  BY <1>1, <1>2, <1>3, <1>4

(* A manifest of what is there has all it is made of right.                  *)
LEMMA FitsMeans ==
  ASSUME ControlTypeOK, NumbersAreOld, NEW m \in Models, NEW p \in Profiles, ManifestFits(m, p)
  PROVE  /\ manifests[<<m, p>>] \in Manifest /\ manifests[<<m, p>>] # NoFile
         /\ manifests[<<m, p>>].revision = revision[p]
         /\ manifests[<<m, p>>].prepared = artifacts[m]
<1>1. Payload(m, p) \in Manifest
  BY DEF Payload, Manifest, ControlTypeOK
<1>2. manifests[<<m, p>>] = Payload(m, p)
  BY DEF ManifestFits
<1>3. manifests[<<m, p>>] \in Manifest
  BY <1>1, <1>2
<1>4. manifests[<<m, p>>] # NoFile
  BY <1>3, ControlAssumption
<1>5. /\ manifests[<<m, p>>].revision = revision[p]
      /\ manifests[<<m, p>>].prepared = artifacts[m]
  BY <1>2 DEF Payload
<1> QED
  BY <1>3, <1>4, <1>5

(* A valid engine of a managed profile is whole and current, and what is not *)
(* valid has a manifest that does not fit.                                   *)
LEMMA ValidIsBuilt ==
  ASSUME ControlTypeOK, ManifestTells, NEW m \in Models, NEW p \in Managed
  PROVE  /\ Valid(m, p) => Built(m, p)
         /\ ~Valid(m, p) => ~ManifestFits(m, p)
<1>1. Valid(m, p) => Built(m, p)
  BY DEF Valid, ManifestTells
<1>2. ASSUME ManifestFits(m, p) PROVE Valid(m, p)
  <2>1. Built(m, p)
    BY <1>2 DEF ManifestTells
  <2>2. ASSUME NEW part \in Parts
        PROVE  /\ engines[<<m, p>>][part].files # "missing"
               /\ engines[<<m, p>>][part].revision = revision[p]
    <3>1. engines[<<m, p>>][part] =
            [files |-> "whole", of |-> artifacts[m][part], revision |-> revision[p]]
      BY <2>1 DEF Built
    <3> QED
      BY <3>1
  <2>3. EngineFits(m, p)
    BY <2>2 DEF EngineFits, HasArtifacts, LimitsFit
  <2> QED
    BY <1>2, <2>3 DEF Valid
<1> QED
  BY <1>1, <1>2

(* Directories written, emptied and profiles revised leave no manifest that  *)
(* fits what they changed.                                                   *)
LEMMA WritesKeep ==
  ASSUME ControlInv, NEW m \in Models, NEW stage \in Stages, Writes(m, stage)
  PROVE  /\ NumbersAreOld'
         /\ ManifestTells'
         /\ artifacts' \in [Models -> [Stages -> Nat]] /\ writes' \in Nat
<1> USE DEF ControlInv
<1>1. /\ artifacts' = [artifacts EXCEPT ![m][stage] = writes + 1] /\ writes' = writes + 1
      /\ UNCHANGED <<engines, manifests, revision>>
  BY DEF Writes
<1>2. artifacts' \in [Models -> [Stages -> Nat]] /\ writes' \in Nat
  BY <1>1 DEF ControlTypeOK
<1>3. \A n \in Models, s \in Stages :
        artifacts'[n][s] = IF n = m /\ s = stage THEN writes + 1 ELSE artifacts[n][s]
  BY <1>1 DEF ControlTypeOK
<1>4. NumbersAreOld'
  <2>1. ASSUME NEW n \in Models, NEW s \in Stages PROVE artifacts'[n][s] <= writes'
    BY <1>1, <1>3, <2>1 DEF NumbersAreOld, ControlTypeOK
  <2>2. ASSUME NEW n \in Models, NEW p \in Profiles, manifests[<<n, p>>] # NoFile
        PROVE  /\ manifests[<<n, p>>].revision <= revision[p]
               /\ \A s \in Stages : manifests[<<n, p>>].prepared[s] \in 1..writes'
    <3>1. /\ manifests[<<n, p>>].revision <= revision[p]
          /\ \A s \in Stages : manifests[<<n, p>>].prepared[s] \in 1..writes
      BY <2>2 DEF NumbersAreOld
    <3>2. writes \in Nat /\ writes' = writes + 1
      BY <1>1 DEF ControlTypeOK
    <3>3. 1..writes \subseteq 1..writes'
      BY <3>2
    <3> QED
      BY <3>1, <3>3
  <2> QED
    BY <1>1, <2>1, <2>2 DEF NumbersAreOld
<1>5. ManifestTells'
  <2>1. ASSUME NEW n \in Models, NEW p \in Managed, ManifestFits(n, p)'
        PROVE  Built(n, p)'
    <3>0. p \in Profiles
      BY DEF Profiles
    <3>1. manifests[<<n, p>>] = [revision |-> revision[p], prepared |-> artifacts'[n]]
      BY <1>1, <2>1 DEF ManifestFits, Payload
    <3>2. [revision |-> revision[p], prepared |-> artifacts'[n]] \in Manifest
      BY <1>2, <3>0 DEF Manifest, ControlTypeOK
    <3>3. manifests[<<n, p>>] # NoFile /\ manifests[<<n, p>>].prepared = artifacts'[n]
      BY <3>1, <3>2, ControlAssumption
    <3>4. \A s \in Stages : artifacts'[n][s] <= writes
      BY <3>0, <3>3 DEF NumbersAreOld, ControlTypeOK
    <3>5. n # m
      BY <1>3, <3>4 DEF ControlTypeOK
    <3>6. artifacts'[n] = artifacts[n]
      BY <1>1, <3>5 DEF ControlTypeOK
    <3>7. ManifestFits(n, p)
      BY <3>1, <3>6 DEF ManifestFits, Payload
    <3>8. Built(n, p)
      BY <3>7 DEF ManifestTells
    <3> QED
      BY <1>1, <3>6, <3>8 DEF Built
  <2> QED
    BY <2>1 DEF ManifestTells
<1> QED
  BY <1>2, <1>4, <1>5

LEMMA RemoveKeeps ==
  ASSUME ControlInv, NEW m \in Models, NEW stage \in Stages, RemovePrepared(m, stage)
  PROVE  ControlInv'
<1> USE DEF ControlInv
<1>1. /\ command = NoCommand /\ artifacts' = [artifacts EXCEPT ![m][stage] = 0]
      /\ UNCHANGED <<engines, manifests, revision, envFile, stateFile, writes, command>>
  BY DEF RemovePrepared
<1>2. artifacts' \in [Models -> [Stages -> Nat]]
  BY <1>1 DEF ControlTypeOK
<1>3. \A n \in Models, s \in Stages :
        artifacts'[n][s] = IF n = m /\ s = stage THEN 0 ELSE artifacts[n][s]
  BY <1>1 DEF ControlTypeOK
<1>4. NumbersAreOld'
  BY <1>1, <1>3 DEF NumbersAreOld, ControlTypeOK
<1>5. ASSUME NEW n \in Models, NEW p \in Managed, ManifestFits(n, p)'
      PROVE  Built(n, p)'
  <2>0. p \in Profiles
    BY DEF Profiles
  <2>1. manifests[<<n, p>>] = [revision |-> revision[p], prepared |-> artifacts'[n]]
    BY <1>1, <1>5 DEF ManifestFits, Payload
  <2>2. [revision |-> revision[p], prepared |-> artifacts'[n]] \in Manifest
    BY <1>2, <2>0 DEF Manifest, ControlTypeOK
  <2>3. manifests[<<n, p>>] # NoFile /\ manifests[<<n, p>>].prepared = artifacts'[n]
    BY <2>1, <2>2, ControlAssumption
  <2>4. \A s \in Stages : artifacts'[n][s] \in 1..writes
    BY <2>0, <2>3 DEF NumbersAreOld
  <2>5. n # m
    BY <1>3, <2>4
  <2>6. artifacts'[n] = artifacts[n]
    BY <1>1, <2>5 DEF ControlTypeOK
  <2>7. ManifestFits(n, p)
    BY <2>1, <2>6 DEF ManifestFits, Payload
  <2>8. Built(n, p)
    BY <2>7 DEF ManifestTells
  <2> QED
    BY <1>1, <2>6, <2>8 DEF Built
<1>6. ControlTypeOK'
  BY <1>1, <1>2 DEF ControlTypeOK
<1>7. BuildGoesOn' /\ ActivationGoesOn'
  BY <1>1 DEF BuildGoesOn, ActivationGoesOn, BuildCommand, ActivateCommand, NoCommand
<1> QED
  BY <1>4, <1>5, <1>6, <1>7 DEF ManifestTells

LEMMA ReviseKeeps ==
  ASSUME ControlInv, NEW p \in Profiles, ReviseProfile(p)
  PROVE  ControlInv'
<1> USE DEF ControlInv
<1>1. /\ command = NoCommand /\ revision' = [revision EXCEPT ![p] = @ + 1]
      /\ UNCHANGED <<artifacts, engines, manifests, envFile, stateFile, writes, command>>
  BY DEF ReviseProfile
<1>2. revision' \in [Profiles -> Nat]
      /\ \A q \in Profiles : revision'[q] = IF q = p THEN revision[q] + 1 ELSE revision[q]
  BY <1>1 DEF ControlTypeOK
<1>3. \A q \in Profiles : revision[q] \in Nat
  BY DEF ControlTypeOK
<1>4. NumbersAreOld'
  <2>1. ASSUME NEW n \in Models, NEW q \in Profiles, manifests[<<n, q>>] # NoFile
        PROVE  manifests[<<n, q>>].revision <= revision'[q]
    <3>1. manifests[<<n, q>>].revision <= revision[q]
      BY <2>1 DEF NumbersAreOld
    <3>2. manifests[<<n, q>>] \in Manifest
      BY <2>1 DEF ControlTypeOK, Targets
    <3>3. manifests[<<n, q>>].revision \in Nat
      BY <3>2 DEF Manifest
    <3> QED
      BY <1>2, <1>3, <3>1, <3>3
  <2> QED
    BY <1>1, <2>1 DEF NumbersAreOld
<1>5. ASSUME NEW n \in Models, NEW q \in Managed, ManifestFits(n, q)'
      PROVE  Built(n, q)'
  <2>0. q \in Profiles
    BY DEF Profiles
  <2>1. manifests[<<n, q>>] = [revision |-> revision'[q], prepared |-> artifacts[n]]
    BY <1>1, <1>5 DEF ManifestFits, Payload
  <2>2. [revision |-> revision'[q], prepared |-> artifacts[n]] \in Manifest
    BY <1>2, <2>0 DEF Manifest, ControlTypeOK
  <2>3. manifests[<<n, q>>] # NoFile /\ manifests[<<n, q>>].revision = revision'[q]
    BY <2>1, <2>2, ControlAssumption
  <2>4. revision'[q] <= revision[q]
    BY <2>0, <2>3 DEF NumbersAreOld
  <2>5. revision'[q] = revision[q]
    BY <1>2, <1>3, <2>0, <2>4
  <2>6. ManifestFits(n, q)
    BY <2>1, <2>5 DEF ManifestFits, Payload
  <2>7. Built(n, q)
    BY <2>6 DEF ManifestTells
  <2> QED
    BY <1>1, <2>5, <2>7 DEF Built
<1>6. ControlTypeOK'
  BY <1>1, <1>2 DEF ControlTypeOK
<1>7. BuildGoesOn' /\ ActivationGoesOn'
  BY <1>1 DEF BuildGoesOn, ActivationGoesOn, BuildCommand, ActivateCommand, NoCommand
<1> QED
  BY <1>4, <1>5, <1>6, <1>7 DEF ManifestTells

(* What a step does to the engines of one managed profile whose manifest     *)
(* does not fit leaves every manifest telling what is so.                    *)
LEMMA EnginesChange ==
  ASSUME ControlInv, NEW m \in Models, NEW p \in Profiles,
         UNCHANGED <<artifacts, manifests, revision, writes>>,
         \A t \in Targets : t # <<m, p>> => engines'[t] = engines[t],
         p \in Managed => ~ManifestFits(m, p)
  PROVE  NumbersAreOld' /\ ManifestTells'
<1> USE DEF ControlInv
<1>1. NumbersAreOld'
  BY DEF NumbersAreOld
<1>2. ASSUME NEW n \in Models, NEW q \in Managed, ManifestFits(n, q)'
      PROVE  Built(n, q)'
  <2>1. ManifestFits(n, q)
    BY <1>2 DEF ManifestFits, Payload
  <2>2. <<n, q>> # <<m, p>> /\ <<n, q>> \in Targets
    BY <2>1 DEF Targets, Profiles
  <2>3. engines'[<<n, q>>] = engines[<<n, q>>]
    BY <2>2
  <2>4. Built(n, q)
    BY <2>1 DEF ManifestTells
  <2> QED
    BY <2>3, <2>4 DEF Built
<1> QED
  BY <1>1, <1>2 DEF ManifestTells

LEMMA OtherBuildsKeeps ==
  ASSUME ControlInv, NEW m \in Models, NEW p \in Profiles, OtherBuilds(m, p)
  PROVE  ControlInv'
<1> USE DEF ControlInv
<1>1. PICK files \in {"partial", "whole"} :
        engines' = [engines EXCEPT ![<<m, p>>] =
                      [part \in Parts |-> [files |-> files, of |-> 0, revision |-> revision[p]]]]
  BY DEF OtherBuilds
<1>2. /\ command = NoCommand /\ p \notin Managed
      /\ UNCHANGED <<artifacts, manifests, revision, envFile, stateFile, writes, command>>
  BY ControlAssumption DEF OtherBuilds
<1>3. [part \in Parts |-> [files |-> files, of |-> 0, revision |-> revision[p]]]
        \in [Parts -> Engine]
  BY DEF Engine, ControlTypeOK
<1>4. engines' \in [Targets -> [Parts -> Engine]]
      /\ \A t \in Targets : t # <<m, p>> => engines'[t] = engines[t]
  BY <1>1, <1>3 DEF ControlTypeOK
<1>5. NumbersAreOld' /\ ManifestTells'
  BY <1>2, <1>4, EnginesChange
<1>6. ControlTypeOK'
  BY <1>2, <1>4 DEF ControlTypeOK
<1>7. BuildGoesOn' /\ ActivationGoesOn'
  BY <1>2 DEF BuildGoesOn, ActivationGoesOn, BuildCommand, ActivateCommand, NoCommand
<1> QED
  BY <1>5, <1>6, <1>7

(* The kinds of command have different names.                                *)
LEMMA CommandKinds ==
  /\ NoCommand.op = "none"
  /\ \A c \in PrepareCommand : c.op = "prepare"
  /\ \A c \in BuildCommand : c.op = "build"
  /\ \A c \in ActivateCommand : c.op = "activate"
BY DEF NoCommand, PrepareCommand, BuildCommand, ActivateCommand

LEMMA PrepareKeeps ==
  ASSUME ControlInv, Quantize \/ ExportLlm \/ ExportVisual
  PROVE  ControlInv'
<1> USE DEF ControlInv
<1>1. command \in PrepareCommand
  BY CommandKinds DEF Quantize, ExportLlm, ExportVisual, At, ControlTypeOK
<1>2. command.m \in Models
  BY <1>1 DEF PrepareCommand
<1>3. PICK stage \in Stages : Writes(command.m, stage)
  BY DEF Quantize, ExportLlm, ExportVisual, Stages
<1>4. command' = NoCommand \/ command' \in PrepareCommand
  BY <1>1 DEF Quantize, ExportLlm, ExportVisual, Go, Finish, PrepareCommand
<1>5. NumbersAreOld' /\ ManifestTells'
      /\ artifacts' \in [Models -> [Stages -> Nat]] /\ writes' \in Nat
  BY <1>2, <1>3, WritesKeep
<1>6. ControlTypeOK'
  BY <1>3, <1>4, <1>5 DEF Writes, ControlTypeOK
<1>7. BuildGoesOn' /\ ActivationGoesOn'
  BY <1>4, CommandKinds DEF BuildGoesOn, ActivationGoesOn
<1> QED
  BY <1>5, <1>6, <1>7

LEMMA CommandBegins ==
  ASSUME ControlInv, NEW m \in Models,
         \/ Prepare(m)
         \/ \E p \in Profiles : Build(m, p) \/ \E c \in Contexts : Activate(m, p, c)
  PROVE  ControlInv'
<1> USE DEF ControlInv
<1>1. UNCHANGED fileVars
  BY DEF Prepare, Build, Activate
<1>2. UNCHANGED stillVars
  BY <1>1 DEF fileVars, stillVars
<1>3. NumbersAreOld' /\ ManifestTells'
  BY <1>2, StillFacts
<1>4. CASE Prepare(m)
  <2>1. command' \in PrepareCommand
    BY <1>4 DEF Prepare, PrepareCommand
  <2>2. ControlTypeOK'
    BY <1>1, <2>1 DEF ControlTypeOK, fileVars
  <2>3. BuildGoesOn' /\ ActivationGoesOn'
    BY <2>1, CommandKinds DEF BuildGoesOn, ActivationGoesOn
  <2> QED
    BY <1>3, <2>2, <2>3
<1>5. ASSUME NEW p \in Profiles, Build(m, p)
      PROVE  ControlInv'
  <2>1. /\ command' = [op |-> "build", m |-> m, p |-> p, pc |-> "llm"]
        /\ p \in Managed /\ IsPrepared(m) /\ ~Valid(m, p)
    BY <1>5 DEF Build
  <2>2. ~ManifestFits(m, p)
    BY <2>1, ValidIsBuilt
  <2>3. IsPrepared(m)' /\ ~ManifestFits(m, p)'
    BY <1>2, <2>1, <2>2, StillFacts
  <2>4. command' \in BuildCommand
    BY <2>1 DEF BuildCommand
  <2>5. ControlTypeOK'
    BY <1>1, <2>4 DEF ControlTypeOK, fileVars
  <2>6. BuildGoesOn' /\ ActivationGoesOn'
    BY <2>1, <2>3, <2>4, CommandKinds DEF BuildGoesOn, ActivationGoesOn
  <2> QED
    BY <1>3, <2>5, <2>6
<1>6. ASSUME NEW p \in Profiles, NEW c \in Contexts, Activate(m, p, c)
      PROVE  ControlInv'
  <2>1. /\ command' = [op |-> "activate", m |-> m, p |-> p, context |-> c, pc |-> "env",
                       env |-> envFile, state |-> stateFile, complete |-> TRUE]
        /\ Valid(m, p)
    BY <1>6 DEF Activate
  <2>2. p \in Managed => Built(m, p)
    BY <2>1, ValidIsBuilt
  <2>3. p \in Managed => Built(m, p)'
    BY <1>2, <2>2, StillFacts
  <2>4. command' \in ActivateCommand
    BY <2>1 DEF ActivateCommand, ControlTypeOK
  <2>5. ControlTypeOK'
    BY <1>1, <2>4 DEF ControlTypeOK, fileVars
  <2>6. stateFile' = stateFile
    BY <1>1 DEF fileVars
  <2>7. BuildGoesOn' /\ ActivationGoesOn'
    BY <2>1, <2>3, <2>4, <2>6, CommandKinds DEF BuildGoesOn, ActivationGoesOn
  <2> QED
    BY <1>3, <2>5, <2>7
<1> QED
  BY <1>4, <1>5, <1>6

LEMMA CommandEnds ==
  ASSUME ControlInv, command' = NoCommand, UNCHANGED fileVars
  PROVE  ControlInv'
<1> USE DEF ControlInv
<1>1. UNCHANGED stillVars
  BY DEF fileVars, stillVars
<1>2. NumbersAreOld' /\ ManifestTells'
  BY <1>1, StillFacts
<1>3. ControlTypeOK'
  BY DEF ControlTypeOK, fileVars
<1>4. BuildGoesOn' /\ ActivationGoesOn'
  BY CommandKinds DEF BuildGoesOn, ActivationGoesOn
<1> QED
  BY <1>2, <1>3, <1>4

(* The builder begins or ends a part of the engine of its profile.           *)
LEMMA BuilderKeeps ==
  ASSUME ControlInv, NEW part \in Parts, BuilderBegins(part) \/ BuilderEnds(part)
  PROVE  ControlInv'
<1> USE DEF ControlInv
<1>1. command \in BuildCommand
  BY CommandKinds DEF BuilderBegins, BuilderEnds, At, ControlTypeOK
<1>0. PICK m \in Models, p \in Managed : command.m = m /\ command.p = p
  BY <1>1 DEF BuildCommand
<1> DEFINE e == engines[<<m, p>>]
           e2 == engines'[<<m, p>>]
<1>2. p \in Profiles /\ <<m, p>> \in Targets
  BY DEF Profiles, Targets
<1>3. UNCHANGED <<artifacts, manifests, revision, envFile, stateFile, writes>>
  BY DEF BuilderBegins, BuilderEnds
<1>4. IsPrepared(m) /\ ~ManifestFits(m, p)
  BY <1>0, <1>1 DEF BuildGoesOn
<1>5. IsPrepared(m)' /\ ~ManifestFits(m, p)'
  <2>1. Payload(m, p)' = Payload(m, p)
    BY <1>3 DEF Payload
  <2> QED
    BY <1>3, <1>4, <2>1 DEF IsPrepared, ManifestFits
<1>6. artifacts[m] \in [Stages -> Nat] /\ revision[p] \in Nat /\ e \in [Parts -> Engine]
  BY <1>2 DEF ControlTypeOK
<1>7. CASE BuilderBegins(part)
  <2>1. PICK files \in {"missing", "partial"} :
          engines' = [engines EXCEPT ![<<m, p>>][part] =
                        [files |-> files, of |-> artifacts[m][part], revision |-> revision[p]]]
    BY <1>0, <1>7 DEF BuilderBegins
  <2>2. [files |-> files, of |-> artifacts[m][part], revision |-> revision[p]] \in Engine
    BY <1>6 DEF Engine, Parts, Stages
  <2>3. /\ engines' \in [Targets -> [Parts -> Engine]]
        /\ \A t \in Targets : t # <<m, p>> => engines'[t] = engines[t]
    BY <2>1, <2>2 DEF ControlTypeOK
  <2>4. /\ e2[part] = [files |-> files, of |-> artifacts[m][part], revision |-> revision[p]]
        /\ \A other \in Parts : other # part => e2[other] = e[other]
    BY <1>2, <2>1 DEF ControlTypeOK
  <2>5. /\ command.pc = part
        /\ command' = [command EXCEPT !.pc = IF part = "llm" THEN "llm running"
                                                            ELSE "visual running"]
    BY <1>7 DEF BuilderBegins, At, Go
  <2>6. /\ command' \in BuildCommand /\ command'.m = m /\ command'.p = p
        /\ command'.pc = IF part = "llm" THEN "llm running" ELSE "visual running"
    BY <1>0, <1>1, <2>5 DEF BuildCommand
  <2>7. BuildGoesOn'
    <3>0. /\ e2[part].of = artifacts'[m][part]
          /\ e2[part].revision = revision'[p]
      BY <1>3, <2>4
    <3>1. CASE part = "llm"
      BY <1>5, <2>6, <3>0, <3>1 DEF BuildGoesOn
    <3>2. CASE part = "visual"
      <4>1. PartBuilt(m, p, "llm")
        BY <1>0, <1>1, <2>5, <3>2 DEF BuildGoesOn
      <4>2. e2["llm"] = e["llm"]
        BY <2>4, <3>2 DEF Parts
      <4>3. PartBuilt(m, p, "llm")'
        BY <1>3, <4>1, <4>2 DEF PartBuilt
      <4> QED
        BY <1>5, <2>6, <3>0, <3>2, <4>3 DEF BuildGoesOn
    <3> QED
      BY <3>1, <3>2 DEF Parts
  <2>8. NumbersAreOld' /\ ManifestTells'
    BY <1>2, <1>3, <1>4, <2>3, EnginesChange
  <2>9. ControlTypeOK'
    BY <1>3, <2>3, <2>6 DEF ControlTypeOK
  <2>10. ActivationGoesOn'
    BY <2>6, CommandKinds DEF ActivationGoesOn
  <2> QED
    BY <2>7, <2>8, <2>9, <2>10
<1>8. CASE BuilderEnds(part)
  <2>1. engines' = [engines EXCEPT ![<<m, p>>][part].files = "whole"]
    BY <1>0, <1>8 DEF BuilderEnds
  <2>2. [e[part] EXCEPT !.files = "whole"] \in Engine
    BY <1>6 DEF Engine
  <2>3. /\ engines' \in [Targets -> [Parts -> Engine]]
        /\ \A t \in Targets : t # <<m, p>> => engines'[t] = engines[t]
    BY <1>2, <2>1, <2>2 DEF ControlTypeOK
  <2>4. /\ e2[part] = [e[part] EXCEPT !.files = "whole"]
        /\ \A other \in Parts : other # part => e2[other] = e[other]
    BY <1>2, <2>1 DEF ControlTypeOK
  <2>5. /\ command.pc = IF part = "llm" THEN "llm running" ELSE "visual running"
        /\ command' = [command EXCEPT !.pc = IF part = "llm" THEN "visual" ELSE "manifest"]
    BY <1>8 DEF BuilderEnds, At, Go
  <2>6. /\ command' \in BuildCommand /\ command'.m = m /\ command'.p = p
        /\ command'.pc = IF part = "llm" THEN "visual" ELSE "manifest"
    BY <1>0, <1>1, <2>5 DEF BuildCommand
  <2>7. e[part].of = artifacts[m][part] /\ e[part].revision = revision[p]
    BY <1>0, <1>1, <2>5 DEF BuildGoesOn, Parts
  <2>8. PartBuilt(m, p, part)'
    <3>1. e[part] \in Engine
      BY <1>6
    <3>2. e2[part] = [files |-> "whole", of |-> artifacts[m][part], revision |-> revision[p]]
      BY <2>4, <2>7, <3>1 DEF Engine
    <3> QED
      BY <1>3, <3>2 DEF PartBuilt
  <2>9. BuildGoesOn'
    <3>1. CASE part = "llm"
      BY <1>5, <2>6, <2>8, <3>1 DEF BuildGoesOn
    <3>2. CASE part = "visual"
      <4>1. PartBuilt(m, p, "llm")
        BY <1>0, <1>1, <2>5, <3>2 DEF BuildGoesOn
      <4>2. e2["llm"] = e["llm"]
        BY <2>4, <3>2 DEF Parts
      <4>3. PartBuilt(m, p, "llm")'
        BY <1>3, <4>1, <4>2 DEF PartBuilt
      <4> QED
        BY <1>5, <2>6, <2>8, <3>2, <4>3 DEF BuildGoesOn
    <3> QED
      BY <3>1, <3>2 DEF Parts
  <2>10. NumbersAreOld' /\ ManifestTells'
    BY <1>2, <1>3, <1>4, <2>3, EnginesChange
  <2>11. ControlTypeOK'
    BY <1>3, <2>3, <2>6 DEF ControlTypeOK
  <2>12. ActivationGoesOn'
    BY <2>6, CommandKinds DEF ActivationGoesOn
  <2> QED
    BY <2>9, <2>10, <2>11, <2>12
<1> QED
  BY <1>7, <1>8

LEMMA WriteManifestKeeps ==
  ASSUME ControlInv, WriteManifest
  PROVE  ControlInv'
<1> USE DEF ControlInv
<1>1. command \in BuildCommand /\ command.pc = "manifest"
  BY CommandKinds DEF WriteManifest, At, ControlTypeOK
<1>2. PICK m \in Models, p \in Managed : command.m = m /\ command.p = p
  BY <1>1 DEF BuildCommand
<1>3. p \in Profiles /\ <<m, p>> \in Targets
  BY DEF Profiles, Targets
<1>4. /\ manifests' = [manifests EXCEPT ![<<m, p>>] = Payload(m, p)]
      /\ command' = NoCommand
      /\ UNCHANGED <<artifacts, engines, revision, envFile, stateFile, writes>>
  BY <1>2 DEF WriteManifest, Finish
<1>5. IsPrepared(m) /\ PartBuilt(m, p, "llm") /\ PartBuilt(m, p, "visual")
  BY <1>1, <1>2 DEF BuildGoesOn
<1>6. Payload(m, p) \in Manifest /\ Payload(m, p).revision = revision[p]
      /\ Payload(m, p).prepared = artifacts[m]
  BY <1>3 DEF Payload, Manifest, ControlTypeOK
<1>7. /\ manifests' \in [Targets -> Manifest \cup {NoFile}]
      /\ manifests'[<<m, p>>] = Payload(m, p)
      /\ \A t \in Targets : t # <<m, p>> => manifests'[t] = manifests[t]
  BY <1>3, <1>4, <1>6 DEF ControlTypeOK
<1>8. NumbersAreOld'
  <2>1. ASSUME NEW n \in Models, NEW q \in Profiles, manifests'[<<n, q>>] # NoFile
        PROVE  /\ manifests'[<<n, q>>].revision <= revision[q]
               /\ \A stage \in Stages : manifests'[<<n, q>>].prepared[stage] \in 1..writes
    <3>1. CASE <<n, q>> = <<m, p>>
      <4>1. n = m /\ q = p
        BY <3>1
      <4>2. \A stage \in Stages : artifacts[m][stage] \in 1..writes
        BY <1>5 DEF IsPrepared, NumbersAreOld, ControlTypeOK
      <4>3. revision[p] <= revision[p]
        BY <1>3 DEF ControlTypeOK
      <4> QED
        BY <1>6, <1>7, <4>1, <4>2, <4>3
    <3>2. CASE <<n, q>> # <<m, p>>
      BY <1>7, <2>1, <3>2 DEF NumbersAreOld, Targets
    <3> QED
      BY <3>1, <3>2
  <2> QED
    BY <1>4, <2>1 DEF NumbersAreOld
<1>9. ASSUME NEW n \in Models, NEW q \in Managed, ManifestFits(n, q)'
      PROVE  Built(n, q)'
  <2>1. CASE <<n, q>> = <<m, p>>
    <3>1. Built(m, p)
      BY <1>5 DEF Built, PartBuilt, Parts
    <3>2. n = m /\ q = p
      BY <2>1
    <3> QED
      BY <1>4, <3>1, <3>2 DEF Built
  <2>2. CASE <<n, q>> # <<m, p>>
    <3>1. manifests'[<<n, q>>] = manifests[<<n, q>>]
      BY <1>7, <2>2 DEF Targets, Profiles
    <3>2. ManifestFits(n, q)
      BY <1>4, <1>9, <3>1 DEF ManifestFits, Payload
    <3>3. Built(n, q)
      BY <3>2 DEF ManifestTells
    <3> QED
      BY <1>4, <3>3 DEF Built
  <2> QED
    BY <2>1, <2>2
<1>10. ControlTypeOK'
  BY <1>4, <1>7 DEF ControlTypeOK
<1>11. BuildGoesOn' /\ ActivationGoesOn'
  BY <1>4, CommandKinds DEF BuildGoesOn, ActivationGoesOn
<1> QED
  BY <1>8, <1>9, <1>10, <1>11 DEF ManifestTells

(* The steps of an activation leave the state as the command found it until  *)
(* the last one.                                                             *)
LEMMA ActivationKeeps ==
  ASSUME ControlInv, WriteEnv \/ WriteState \/ WriteFails \/ RestoreEnv \/ RestoreState
  PROVE  ControlInv'
<1> USE DEF ControlInv
<1>1. command \in ActivateCommand
  BY CommandKinds
  DEF WriteEnv, WriteState, WriteFails, RestoreEnv, RestoreState, At, ControlTypeOK
<1>2. PICK m \in Models, p \in Profiles, c \in Contexts :
        command.m = m /\ command.p = p /\ command.context = c
  BY <1>1 DEF ActivateCommand
<1>3. UNCHANGED stillVars
  BY DEF WriteEnv, WriteState, WriteFails, RestoreEnv, RestoreState, stillVars, fileVars
<1>4. NumbersAreOld' /\ ManifestTells'
  BY <1>3, StillFacts
<1>5. command.state = stateFile
  BY <1>1 DEF ActivationGoesOn
<1>6. envFile' \in Contexts \cup {NoFile}
  BY <1>1 DEF WriteEnv, WriteState, WriteFails, RestoreEnv, RestoreState, fileVars,
              ControlTypeOK, ActivateCommand
<1>7. CASE WriteState
  <2>1. command' = NoCommand /\ stateFile' = [m |-> m, p |-> p, context |-> c]
    BY <1>2, <1>7 DEF WriteState, Finish
  <2>2. stateFile' \in Active
    BY <2>1 DEF Active
  <2>3. ControlTypeOK'
    BY <1>3, <1>6, <2>1, <2>2 DEF ControlTypeOK, stillVars
  <2>4. BuildGoesOn' /\ ActivationGoesOn'
    BY <2>1, CommandKinds DEF BuildGoesOn, ActivationGoesOn
  <2> QED
    BY <1>4, <2>3, <2>4
<1>8. CASE WriteEnv \/ WriteFails \/ RestoreEnv \/ RestoreState
  <2>1. stateFile' = stateFile
    BY <1>5, <1>8 DEF WriteEnv, WriteFails, RestoreEnv, RestoreState, fileVars
  <2>2. /\ command' \in ActivateCommand
        /\ command'.m = m /\ command'.p = p /\ command'.state = command.state
        /\ command'.pc \in {"env", "state"} => command.pc = "env"
    BY <1>1, <1>2, <1>8
    DEF WriteEnv, WriteFails, RestoreEnv, RestoreState, Go, At, ActivateCommand
  <2>3. ControlTypeOK'
    BY <1>3, <1>6, <2>1, <2>2 DEF ControlTypeOK, stillVars
  <2>4. command'.pc \in {"env", "state"} /\ p \in Managed => Built(m, p)
    BY <1>1, <1>2, <2>2 DEF ActivationGoesOn
  <2>5. Built(m, p)' = Built(m, p)
    BY <1>3, StillFacts
  <2>6. ActivationGoesOn'
    BY <1>5, <2>1, <2>2, <2>4, <2>5 DEF ActivationGoesOn
  <2>7. BuildGoesOn'
    BY <2>2, CommandKinds DEF BuildGoesOn
  <2> QED
    BY <1>4, <2>3, <2>6, <2>7
<1> QED
  BY <1>7, <1>8

LEMMA ControlStepInv == ControlInv /\ [ControlNext]_controlVars => ControlInv'
<1> SUFFICES ASSUME ControlInv, [ControlNext]_controlVars PROVE ControlInv'
  OBVIOUS
<1>1. CASE Killed
  BY <1>1, CommandEnds DEF Killed, Finish
<1>2. ASSUME NEW m \in Models, Prepare(m) PROVE ControlInv'
  BY <1>2, CommandBegins
<1>3. ASSUME NEW m \in Models, NEW stage \in Stages, RemovePrepared(m, stage) PROVE ControlInv'
  BY <1>3, RemoveKeeps
<1>4. ASSUME NEW m \in Models, NEW p \in Profiles, Build(m, p) PROVE ControlInv'
  BY <1>4, CommandBegins
<1>5. ASSUME NEW m \in Models, NEW p \in Profiles, OtherBuilds(m, p) PROVE ControlInv'
  BY <1>5, OtherBuildsKeeps
<1>6. ASSUME NEW m \in Models, NEW p \in Profiles, NEW c \in Contexts, Activate(m, p, c)
      PROVE  ControlInv'
  BY <1>6, CommandBegins
<1>7. ASSUME NEW p \in Profiles, ReviseProfile(p) PROVE ControlInv'
  BY <1>7, ReviseKeeps
<1>8. CASE Quantize \/ ExportLlm \/ ExportVisual
  BY <1>8, PrepareKeeps
<1>9. ASSUME NEW part \in Parts, BuilderBegins(part) \/ BuilderEnds(part) PROVE ControlInv'
  BY <1>9, BuilderKeeps
<1>10. CASE WriteManifest
  BY <1>10, WriteManifestKeeps
<1>11. CASE WriteEnv \/ WriteState \/ WriteFails \/ RestoreEnv \/ RestoreState
  BY <1>11, ActivationKeeps
<1>12. CASE ActivationFails
  BY <1>12, CommandEnds DEF ActivationFails, Finish
<1>13. CASE UNCHANGED controlVars
  <2>1. UNCHANGED stillVars /\ UNCHANGED <<envFile, stateFile, command>>
    BY <1>13 DEF controlVars, stillVars
  <2>2. NumbersAreOld' /\ ManifestTells'
    BY <2>1, StillFacts DEF ControlInv
  <2>3. ControlTypeOK' /\ BuildGoesOn' /\ ActivationGoesOn'
    BY <1>13
    DEF ControlInv, controlVars, ControlTypeOK, BuildGoesOn, ActivationGoesOn, IsPrepared,
        ManifestFits, Payload, PartBuilt, Built
  <2> QED
    BY <2>2, <2>3 DEF ControlInv
<1> QED
  BY <1>1, <1>2, <1>3, <1>4, <1>5, <1>6, <1>7, <1>8, <1>9, <1>10, <1>11, <1>12, <1>13
  DEF ControlNext

(* Every file that modelctl keeps has its type, for any models and profiles. *)
THEOREM ControlTypeCorrect == ControlSpec => []ControlTypeOK
<1>1. ControlInv => ControlTypeOK
  BY DEF ControlInv
<1> QED
  BY <1>1, ControlInitInv, ControlStepInv, PTL DEF ControlSpec

(* The state file is written by an activation that found its engine valid.   *)
LEMMA StateIsWritten ==
  ASSUME ControlInv, ControlNext, stateFile' # stateFile
  PROVE  WriteState
<1>1. ~UNCHANGED fileVars
  BY DEF fileVars
<1>2. CASE RestoreState
  <2>1. command \in ActivateCommand
    BY <1>2, CommandKinds DEF RestoreState, At, ControlInv, ControlTypeOK
  <2>2. command.state = stateFile
    BY <2>1 DEF ControlInv, ActivationGoesOn
  <2> QED
    BY <1>2, <2>2 DEF RestoreState
<1> QED
  BY <1>1, <1>2
  DEF ControlNext, Killed, Prepare, RemovePrepared, Build, OtherBuilds, Activate, ReviseProfile,
      Quantize, ExportLlm, ExportVisual, Writes, BuilderBegins, BuilderEnds, WriteManifest,
      WriteEnv, WriteFails, RestoreEnv, ActivationFails

(* No managed profile becomes the active one but with engines that were      *)
(* built to their end of what is prepared and for what the registry says     *)
(* (validate_engine_profile), whatever was killed, prepared or revised.      *)
THEOREM ActivatedIsBuiltHolds == ControlSpec => ActivatedIsBuilt
<1>1. ASSUME ControlInv, [ControlNext]_controlVars, stateFile' # stateFile, command.p \in Managed
      PROVE  Built(command.m, command.p)
  <2>1. ControlNext
    BY <1>1 DEF controlVars
  <2>2. WriteState
    BY <1>1, <2>1, StateIsWritten
  <2>3. command \in ActivateCommand /\ command.pc = "state"
    BY <1>1, <2>2, CommandKinds DEF WriteState, At, ControlInv, ControlTypeOK
  <2> QED
    BY <1>1, <2>3 DEF ControlInv, ActivationGoesOn
<1>2. ControlInv /\ [ControlNext]_controlVars =>
        [stateFile' # stateFile /\ command.p \in Managed =>
           Built(command.m, command.p)]_controlVars
  BY <1>1
<1> QED
  BY <1>2, ControlInitInv, ControlStepInv, PTL DEF ControlSpec, ActivatedIsBuilt

-----------------------------------------------------------------------------
(* What an activation makes of the environment file                          *)
EnvironmentGoesOn ==
  /\ stateFile # NoFile => envFile # NoFile
  /\ command \in ActivateCommand =>
       /\ command.state # NoFile => command.env # NoFile
       /\ command.pc = "state" => envFile = command.context
       /\ command.pc \in {"restore state", "failed"} /\ command.complete =>
            envFile = command.env

LEMMA EnvironmentStep ==
  ASSUME ControlInv, EnvironmentGoesOn, [ControlNext]_controlVars
  PROVE  EnvironmentGoesOn'
<1> USE DEF EnvironmentGoesOn
<1>1. CASE UNCHANGED <<envFile, stateFile, command>>
  BY <1>1
<1>2. CASE /\ UNCHANGED <<envFile, stateFile>>
           /\ command' \notin ActivateCommand
  BY <1>2
<1>3. ASSUME NEW m \in Models, NEW p \in Profiles, NEW c \in Contexts, Activate(m, p, c)
      PROVE  EnvironmentGoesOn'
  <2>1. command' = [op |-> "activate", m |-> m, p |-> p, context |-> c, pc |-> "env",
                    env |-> envFile, state |-> stateFile, complete |-> TRUE]
        /\ UNCHANGED <<envFile, stateFile>>
    BY <1>3 DEF Activate, fileVars
  <2> QED
    BY <2>1
<1>4. CASE WriteEnv \/ WriteState \/ WriteFails \/ RestoreEnv \/ RestoreState
  <2>1. /\ command \in ActivateCommand /\ command.state = stateFile
        /\ command.context \in Contexts
    BY <1>4, CommandKinds
    DEF WriteEnv, WriteState, WriteFails, RestoreEnv, RestoreState, At, ActivateCommand,
        ActivationGoesOn, ControlInv, ControlTypeOK
  <2>2. command.context # NoFile
    BY <2>1, ControlAssumption
  <2>3. CASE WriteEnv
    BY <2>1, <2>2, <2>3 DEF WriteEnv, Go, ActivateCommand
  <2>4. CASE WriteState
    BY <2>1, <2>2, <2>4, CommandKinds DEF WriteState, At, Finish
  <2>5. CASE WriteFails
    BY <2>1, <2>5 DEF WriteFails, Go, fileVars, ActivateCommand
  <2>6. CASE RestoreEnv
    BY <2>1, <2>6 DEF RestoreEnv, Go, ActivateCommand
  <2>7. CASE RestoreState
    BY <2>1, <2>7 DEF RestoreState, Go, At, ActivateCommand
  <2> QED
    BY <1>4, <2>3, <2>4, <2>5, <2>6, <2>7
<1>5. ASSUME NEW m \in Models, NEW p \in Profiles, Build(m, p)
      PROVE  EnvironmentGoesOn'
  BY <1>2, <1>5, CommandKinds DEF Build, fileVars
<1>6. ASSUME NEW m \in Models, Prepare(m)
      PROVE  EnvironmentGoesOn'
  BY <1>2, <1>6, CommandKinds DEF Prepare, fileVars
<1>7. CASE Quantize \/ ExportLlm \/ ExportVisual
  <2>1. command.op = "prepare" /\ UNCHANGED <<envFile, stateFile>>
    BY <1>7 DEF Quantize, ExportLlm, ExportVisual, At, Writes
  <2>2. command \in PrepareCommand
    BY <2>1, CommandKinds DEF ControlInv, ControlTypeOK
  <2>3. command' = NoCommand \/ command' \in PrepareCommand
    BY <1>7, <2>2 DEF Quantize, ExportLlm, ExportVisual, Go, Finish, PrepareCommand
  <2> QED
    BY <1>2, <2>1, <2>3, CommandKinds
<1>8. ASSUME NEW part \in Parts, BuilderBegins(part) \/ BuilderEnds(part)
      PROVE  EnvironmentGoesOn'
  <2>1. command.op = "build" /\ UNCHANGED <<envFile, stateFile>>
    BY <1>8 DEF BuilderBegins, BuilderEnds, At
  <2>2. command \in BuildCommand
    BY <2>1, CommandKinds DEF ControlInv, ControlTypeOK
  <2>3. command' \in BuildCommand
    BY <1>8, <2>2 DEF BuilderBegins, BuilderEnds, Go, BuildCommand
  <2> QED
    BY <1>2, <2>1, <2>3, CommandKinds
<1>9. CASE Killed \/ WriteManifest \/ ActivationFails
  BY <1>2, <1>9, CommandKinds DEF Killed, WriteManifest, ActivationFails, Finish, fileVars
<1>10. ASSUME NEW m \in Models, NEW p \in Profiles, OtherBuilds(m, p)
       PROVE  EnvironmentGoesOn'
  BY <1>1, <1>10 DEF OtherBuilds
<1>11. ASSUME NEW m \in Models, NEW stage \in Stages, RemovePrepared(m, stage)
       PROVE  EnvironmentGoesOn'
  BY <1>1, <1>11 DEF RemovePrepared
<1>12. ASSUME NEW p \in Profiles, ReviseProfile(p)
       PROVE  EnvironmentGoesOn'
  BY <1>1, <1>12 DEF ReviseProfile
<1>13. CASE UNCHANGED controlVars
  BY <1>1, <1>13 DEF controlVars
<1> QED
  BY <1>3, <1>4, <1>5, <1>6, <1>7, <1>8, <1>9, <1>10, <1>11, <1>12, <1>13 DEF ControlNext

(* An activation that fails leaves both files as they were unless the roll   *)
(* back fails too, and there is no active state without an environment file, *)
(* whatever is killed (cmd_activate, _rollback_activation_files).            *)
THEOREM ActivationIsWholeHolds == ControlSpec => []ActivationIsWhole
<1>1. ControlInit => EnvironmentGoesOn
  BY CommandKinds DEF ControlInit, EnvironmentGoesOn
<1>2. ControlInv /\ EnvironmentGoesOn => ActivationIsWhole
  <2> SUFFICES ASSUME ControlInv, EnvironmentGoesOn PROVE ActivationIsWhole
    OBVIOUS
  <2>1. ASSUME At("activate", "failed"), command.complete
        PROVE  envFile = command.env /\ stateFile = command.state
    <3>1. command \in ActivateCommand /\ command.pc = "failed"
      BY <2>1, CommandKinds DEF At, ControlInv, ControlTypeOK
    <3> QED
      BY <2>1, <3>1 DEF ControlInv, ActivationGoesOn, EnvironmentGoesOn
  <2> QED
    BY <2>1 DEF ActivationIsWhole, EnvironmentGoesOn
<1>3. ControlInv /\ EnvironmentGoesOn /\ [ControlNext]_controlVars => EnvironmentGoesOn'
  BY EnvironmentStep
<1> QED
  BY <1>1, <1>2, <1>3, ControlInitInv, ControlStepInv, PTL DEF ControlSpec

-----------------------------------------------------------------------------
(* Distillation: the labels of a run are current and its export is whole,    *)
(* for any list of samples, any groups and shares and any number of runs and *)
(* kills.                                                                    *)

Prints == Nat \X Representations

(* A label is the teacher's answer to what its fingerprint covers.           *)
Label ==
  {l \in [sample : Samples, fingerprint : Prints, good : BOOLEAN, sequence : {""}, of : Prints] :
     l.of = l.fingerprint}

LabelRun ==
  [pc : {"label", "write"}, samples : [Samples -> Nat], representation : Representations,
   results : Seq(Label)]

ExportRun ==
  [pc : {"open", "export", "exported"}, file : DatasetFiles, accepted : SUBSET Label,
   splits : [Splits -> SUBSET Label]]

PipelineTypeOK ==
  /\ inputs \in [Samples -> Nat]
  /\ labels \in [Samples -> {Absent, Cut} \cup {Whole(l) : l \in Label}]
  /\ pipeline \in {Idle} \cup LabelRun \cup ExportRun
  /\ dataset = [file \in DatasetFiles |-> dataset[file]]

(* The results of a run are labels of the first samples, as they are in it.  *)
ResultsGoOn ==
  pipeline \in LabelRun =>
    /\ Len(pipeline.results) <= Len(SampleList)
    /\ pipeline.pc = "write" => pipeline.results # << >>
    /\ \A i \in 1..Len(pipeline.results) :
         /\ pipeline.results[i].sample = SampleList[i]
         /\ pipeline.results[i].of = Fingerprint(SampleList[i])

(* What is on disk under the name of a sample is a label of it.              *)
LabelsAreFiled ==
  \A s \in Samples : labels[s].state = "whole" =>
    labels[s].content \in Label /\ labels[s].content.sample = s

InvLabels == PipelineTypeOK /\ ResultsGoOn /\ LabelsAreFiled

LEMMA PipelineKinds ==
  /\ Idle.pc = "idle"
  /\ \A p \in LabelRun : p.pc \in {"label", "write"}
  /\ \A p \in ExportRun : p.pc \in {"open", "export", "exported"}
BY DEF Idle, LabelRun, ExportRun

LEMMA InitLabels == PipelineInit => InvLabels
<1> SUFFICES ASSUME PipelineInit PROVE InvLabels
  OBVIOUS
<1>1. PipelineTypeOK
  BY DEF PipelineInit, PipelineTypeOK
<1>2. ResultsGoOn
  BY PipelineKinds DEF PipelineInit, ResultsGoOn
<1>3. LabelsAreFiled
  BY DEF PipelineInit, LabelsAreFiled, Absent
<1> QED
  BY <1>1, <1>2, <1>3 DEF InvLabels

(* The next label is of the next sample and as it is.                        *)
LEMMA OneMoreResult ==
  ASSUME InvLabels, Labelling, NEW l \in Label, NEW pc \in {"label", "write"},
         l.sample = Current, l.of = Fingerprint(Current),
         pipeline' = [pipeline EXCEPT !.pc = pc, !.results = Append(@, l)]
  PROVE  /\ pipeline' \in LabelRun
         /\ ResultsGoOn'
<1> USE DEF InvLabels
<1>1. pipeline \in LabelRun /\ pipeline.pc = "label"
  BY PipelineKinds DEF Labelling, PipelineTypeOK
<1> DEFINE done == pipeline.results
<1>2. done \in Seq(Label) /\ Len(done) \in Nat /\ Len(done) < Len(SampleList)
      /\ Len(SampleList) \in Nat
  BY <1>1, LenProperties, PipelineAssumption DEF LabelRun, Labelling
<1>3. PICK more : more = Append(done, l)
  OBVIOUS
<1>4. /\ more \in Seq(Label) /\ Len(more) = Len(done) + 1
      /\ \A i \in 1..Len(done) : more[i] = done[i]
      /\ more[Len(done) + 1] = l
  BY <1>2, <1>3, AppendProperties
<1>5. /\ pipeline' \in LabelRun /\ pipeline'.results = more
      /\ pipeline'.samples = pipeline.samples
      /\ pipeline'.representation = pipeline.representation
  BY <1>1, <1>3, <1>4 DEF LabelRun
<1>6. \A i \in 1..Len(done) : done[i].sample = SampleList[i]
                              /\ done[i].of = Fingerprint(SampleList[i])
  BY <1>1 DEF ResultsGoOn
<1>7. l.sample = SampleList[Len(done) + 1] /\ l.of = Fingerprint(SampleList[Len(done) + 1])
  BY DEF Current
<1>8. ASSUME NEW i \in 1..Len(more)
      PROVE  more[i].sample = SampleList[i] /\ more[i].of = Fingerprint(SampleList[i])
  <2>1. CASE i = Len(done) + 1
    BY <1>4, <1>7, <2>1
  <2>2. CASE i # Len(done) + 1
    <3>1. i \in 1..Len(done)
      BY <1>2, <1>4, <2>2
    <3> QED
      BY <1>4, <1>6, <3>1
  <2> QED
    BY <2>1, <2>2
<1>9. \A s : Fingerprint(s)' = Fingerprint(s)
  BY <1>5 DEF Fingerprint
<1>10. Len(more) <= Len(SampleList) /\ more # << >>
  BY <1>2, <1>4
<1> QED
  BY <1>5, <1>8, <1>9, <1>10 DEF ResultsGoOn

LEMMA CurrentIsSample ==
  ASSUME InvLabels, Labelling
  PROVE  /\ pipeline \in LabelRun /\ pipeline.pc = "label"
         /\ Current \in Samples /\ Fingerprint(Current) \in Prints
<1>1. pipeline \in LabelRun /\ pipeline.pc = "label"
  BY PipelineKinds DEF Labelling, PipelineTypeOK, InvLabels
<1>2. Len(pipeline.results) \in Nat /\ Len(pipeline.results) < Len(SampleList)
      /\ Len(SampleList) \in Nat
  BY <1>1, LenProperties, PipelineAssumption DEF LabelRun, Labelling
<1>3. Len(pipeline.results) + 1 \in 1..Len(SampleList)
  BY <1>2
<1>4. Current \in Samples
  BY <1>3, PipelineAssumption, ElementOfSeq DEF Current
<1>5. pipeline.samples[Current] \in Nat /\ pipeline.representation \in Representations
  BY <1>1, <1>4 DEF LabelRun
<1> QED
  BY <1>1, <1>4, <1>5 DEF Fingerprint, Prints

LEMMA ReuseKeeps ==
  ASSUME InvLabels, Reuse
  PROVE  InvLabels'
<1>1. Labelling /\ Cached(Current)
      /\ UNCHANGED <<inputs, labels, dataset, training, runs>>
  BY DEF Reuse
<1>2. pipeline \in LabelRun /\ pipeline.pc = "label" /\ Current \in Samples
  BY <1>1, CurrentIsSample
<1>3. PICK l \in Label : l = labels[Current].content /\ l.sample = Current
  BY <1>1, <1>2 DEF Cached, InvLabels, LabelsAreFiled
<1>4. l.of = Fingerprint(Current)
  BY <1>1, <1>3 DEF Cached, Label
<1>5. pipeline' = [pipeline EXCEPT !.results = Append(@, l)]
  BY <1>3 DEF Reuse
<1>6. pipeline' = [pipeline EXCEPT !.pc = "label", !.results = Append(@, l)]
  BY <1>2, <1>5 DEF LabelRun
<1>7. pipeline' \in LabelRun /\ ResultsGoOn'
  BY <1>1, <1>3, <1>4, <1>6, OneMoreResult
<1> QED
  BY <1>1, <1>7 DEF InvLabels, PipelineTypeOK, LabelsAreFiled

LEMMA GenerateKeeps ==
  ASSUME InvLabels, NEW good \in BOOLEAN, Generate(good)
  PROVE  InvLabels'
<1>1. /\ Labelling
      /\ labels' = [labels EXCEPT ![Current] = Cut]
      /\ pipeline' = [pipeline EXCEPT !.pc = "write",
                                      !.results = Append(@, Labelled(Current, good))]
      /\ UNCHANGED <<inputs, dataset, training, runs>>
  BY DEF Generate
<1>2. Current \in Samples /\ Fingerprint(Current) \in Prints
  BY <1>1, CurrentIsSample
<1>3. /\ Labelled(Current, good) \in Label
      /\ Labelled(Current, good).sample = Current
      /\ Labelled(Current, good).of = Fingerprint(Current)
  BY <1>2 DEF Labelled, Label
<1>4. pipeline' \in LabelRun /\ ResultsGoOn'
  BY <1>1, <1>3, OneMoreResult
<1>5. labels' \in [Samples -> {Absent, Cut} \cup {Whole(l) : l \in Label}]
  BY <1>1 DEF InvLabels, PipelineTypeOK
<1>6. LabelsAreFiled'
  BY <1>1 DEF InvLabels, PipelineTypeOK, LabelsAreFiled, Cut
<1> QED
  BY <1>1, <1>4, <1>5, <1>6 DEF InvLabels, PipelineTypeOK

LEMMA WriteLabelKeeps ==
  ASSUME InvLabels, WriteLabel
  PROVE  InvLabels'
<1>1. pipeline \in LabelRun /\ pipeline.pc = "write"
  BY PipelineKinds DEF WriteLabel, InvLabels, PipelineTypeOK
<1>2. Len(pipeline.results) \in 1..Len(pipeline.results)
  <2>1. pipeline.results \in Seq(Label) /\ pipeline.results # << >>
    BY <1>1 DEF InvLabels, ResultsGoOn, LabelRun
  <2> QED
    BY <2>1, EmptySeq, LenProperties
<1>3. PICK l \in Label : l = pipeline.results[Len(pipeline.results)]
  BY <1>1, <1>2, ElementOfSeq DEF LabelRun
<1>4. labels' = [labels EXCEPT ![l.sample] = Whole(l)]
      /\ pipeline' = [pipeline EXCEPT !.pc = "label"]
      /\ UNCHANGED <<inputs, dataset, training, runs>>
  BY <1>3 DEF WriteLabel
<1>5. pipeline' \in LabelRun /\ pipeline'.pc = "label" /\ pipeline'.results = pipeline.results
      /\ pipeline'.samples = pipeline.samples
      /\ pipeline'.representation = pipeline.representation
  BY <1>1, <1>4 DEF LabelRun
<1>6. ResultsGoOn'
  BY <1>1, <1>5 DEF InvLabels, ResultsGoOn, Fingerprint
<1>7. labels' \in [Samples -> {Absent, Cut} \cup {Whole(k) : k \in Label}]
  BY <1>3, <1>4 DEF InvLabels, PipelineTypeOK
<1>8. LabelsAreFiled'
  BY <1>3, <1>4 DEF InvLabels, PipelineTypeOK, LabelsAreFiled, Whole
<1> QED
  BY <1>4, <1>5, <1>6, <1>7, <1>8 DEF InvLabels, PipelineTypeOK

-----------------------------------------------------------------------------
KeysOf(L) == {KeyOf(l) : l \in L}

(* The splits share no group and have all that was accepted.                 *)
SplitsPartition ==
  pipeline \in ExportRun =>
    /\ \A a, b \in Splits : a # b =>
         KeysOf(pipeline.splits[a]) \cap KeysOf(pipeline.splits[b]) = {}
    /\ UNION {pipeline.splits[split] : split \in Splits} = pipeline.accepted

Written(split) == dataset[split] = Whole(Exported(split))

(* The files are written in turn.                                            *)
ExportGoesOn ==
  pipeline \in ExportRun =>
    /\ pipeline.file \in {"val", "test", "manifest"} => Written("train")
    /\ pipeline.file \in {"test", "manifest"} => Written("val")
    /\ pipeline.file = "manifest" => Written("test")
    /\ pipeline.pc = "exported" =>
         /\ pipeline.file = "manifest"
         /\ dataset["manifest"] = Whole([split \in Splits |-> Exported(split)])

InvExport == SplitsPartition /\ ExportGoesOn

LEMMA SplitKeeps ==
  ASSUME InvLabels, Split
  PROVE  InvLabels' /\ InvExport'
<1> DEFINE keys == {KeyOf(l) : l \in AcceptedLabels}
           n == Cardinality(keys)
           Of(K) == {l \in AcceptedLabels : KeyOf(l) \in K}
           Parted(T, V) ==
             [pc |-> "open", file |-> "train", accepted |-> AcceptedLabels,
              splits |-> [split \in Splits |->
                            CASE split = "train" -> Of(T)
                              [] split = "val" -> Of(V)
                              [] split = "test" -> Of((keys \ T) \ V)]]
<1>1. pipeline \in LabelRun /\ UNCHANGED <<inputs, labels, dataset, training, runs>>
  BY PipelineKinds DEF Split, InvLabels, PipelineTypeOK
<1>2. PICK T \in SUBSET keys, V \in SUBSET keys :
        V \cap T = {} /\ pipeline' = Parted(T, V)
  <2>1. PICK T \in kSubset(AtMost(Share(n, TrainPercent), keys), keys) :
          \E V \in kSubset(AtMost(Share(n, ValPercent), keys \ T), keys \ T) :
            pipeline' = Parted(T, V)
    BY Zenon DEF Split
  <2>2. PICK V \in kSubset(AtMost(Share(n, ValPercent), keys \ T), keys \ T) :
          pipeline' = Parted(T, V)
    BY <2>1
  <2> HIDE DEF Parted, keys
  <2>3. T \in SUBSET keys
    BY <2>1 DEF kSubset
  <2>4. V \in SUBSET (keys \ T)
    BY <2>2 DEF kSubset
  <2> QED
    BY <2>2, <2>3, <2>4
<1>3. AcceptedLabels \subseteq Label
  <2>1. pipeline.results \in Seq(Label)
    BY <1>1 DEF LabelRun
  <2> QED
    BY <2>1, ElementOfSeq, LenProperties DEF AcceptedLabels
<1> HIDE DEF keys
<1>4. PICK train, val, test \in SUBSET Label :
        train = Of(T) /\ val = Of(V) /\ test = Of((keys \ T) \ V)
  BY <1>3
<1>5. /\ pipeline'.pc = "open" /\ pipeline'.file = "train"
      /\ pipeline'.accepted = AcceptedLabels
      /\ pipeline'.splits \in [Splits -> SUBSET Label]
      /\ pipeline'.splits["train"] = train
      /\ pipeline'.splits["val"] = val
      /\ pipeline'.splits["test"] = test
      /\ pipeline' \in ExportRun
  BY <1>2, <1>3, <1>4 DEF Splits, ExportRun, DatasetFiles
<1>6. /\ KeysOf(train) \subseteq T /\ KeysOf(val) \subseteq V
      /\ KeysOf(test) \subseteq (keys \ T) \ V
  BY <1>4 DEF KeysOf
<1>7. \A a, b \in Splits : a # b =>
        KeysOf(pipeline'.splits[a]) \cap KeysOf(pipeline'.splits[b]) = {}
  BY <1>2, <1>5, <1>6 DEF Splits
<1>8. UNION {pipeline'.splits[split] : split \in Splits} = AcceptedLabels
  <2>1. \A l \in AcceptedLabels : KeyOf(l) \in keys
    BY DEF keys
  <2>2. train \cup val \cup test = AcceptedLabels
    BY <1>2, <1>4, <2>1
  <2>3. UNION {pipeline'.splits[split] : split \in Splits} =
          pipeline'.splits["train"] \cup pipeline'.splits["val"] \cup pipeline'.splits["test"]
    BY DEF Splits
  <2> QED
    BY <1>5, <2>2, <2>3
<1>9. SplitsPartition'
  BY <1>5, <1>7, <1>8 DEF SplitsPartition, KeysOf, KeyOf
<1>10. ExportGoesOn'
  BY <1>5 DEF ExportGoesOn
<1>11. InvLabels'
  BY <1>1, <1>5, PipelineKinds DEF InvLabels, PipelineTypeOK, ResultsGoOn, LabelsAreFiled
<1> QED
  BY <1>9, <1>10, <1>11 DEF InvExport

LEMMA ExportKeeps ==
  ASSUME InvLabels, InvExport, OpenFile \/ WriteFile
  PROVE  InvLabels' /\ InvExport'
<1>1. /\ pipeline \in ExportRun /\ pipeline.pc \in {"open", "export"}
      /\ UNCHANGED <<inputs, labels, training, runs>>
  BY PipelineKinds DEF OpenFile, WriteFile, InvLabels, PipelineTypeOK
<1>2. PICK file \in DatasetFiles : file = pipeline.file
  BY <1>1 DEF ExportRun
<1>3. /\ pipeline' \in ExportRun
      /\ pipeline'.splits = pipeline.splits /\ pipeline'.accepted = pipeline.accepted
      /\ dataset' = [f \in DatasetFiles |-> dataset'[f]]
      /\ \A f \in DatasetFiles : f # file => dataset'[f] = dataset[f]
  <2>1. CASE OpenFile
    BY <1>1, <1>2, <2>1 DEF OpenFile, ExportRun, InvLabels, PipelineTypeOK
  <2>2. CASE WriteFile /\ file = "manifest"
    BY <1>1, <1>2, <2>2 DEF WriteFile, ExportRun, InvLabels, PipelineTypeOK
  <2>3. CASE WriteFile /\ file # "manifest"
    <3>1. After(file) \in DatasetFiles
      BY <2>3 DEF After, DatasetFiles, Splits
    <3> QED
      BY <1>1, <1>2, <2>3, <3>1 DEF WriteFile, ExportRun, InvLabels, PipelineTypeOK
  <2> QED
    BY <2>1, <2>2, <2>3
<1>4. \A split : Exported(split)' = Exported(split)
  BY <1>3 DEF Exported
<1>5. SplitsPartition'
  BY <1>1, <1>3 DEF InvExport, SplitsPartition
<1>6. \A split \in Splits : split # file /\ Written(split) => Written(split)'
  BY <1>3, <1>4 DEF Written, DatasetFiles
<1>7. /\ file \in {"val", "test", "manifest"} => Written("train")
      /\ file \in {"test", "manifest"} => Written("val")
      /\ file = "manifest" => Written("test")
  BY <1>1, <1>2 DEF InvExport, ExportGoesOn
<1>8. ExportGoesOn'
  <2>1. CASE OpenFile
    <3>1. pipeline'.file = file /\ pipeline'.pc = "export"
      BY <1>1, <1>2, <2>1 DEF OpenFile, ExportRun
    <3> QED
      BY <1>6, <1>7, <3>1 DEF ExportGoesOn, Splits
  <2>2. CASE WriteFile /\ file = "manifest"
    <3>1. /\ pipeline'.file = file /\ pipeline'.pc = "exported"
          /\ dataset'["manifest"] = Whole([split \in Splits |-> Exported(split)])
      BY <1>1, <1>2, <2>2 DEF WriteFile, ExportRun, InvLabels, PipelineTypeOK
    <3>2. [split \in Splits |-> Exported(split)]' = [split \in Splits |-> Exported(split)]
      BY <1>4
    <3> QED
      BY <1>6, <1>7, <2>2, <3>1, <3>2 DEF ExportGoesOn, Splits
  <2>3. CASE WriteFile /\ file # "manifest"
    <3>1. /\ pipeline'.file = After(file) /\ pipeline'.pc = "open"
          /\ dataset'[file] = Whole(Exported(file))
      BY <1>1, <1>2, <2>3 DEF WriteFile, ExportRun, InvLabels, PipelineTypeOK
    <3>2. Written(file)'
      BY <1>4, <3>1 DEF Written
    <3>3. CASE file = "train"
      BY <3>1, <3>2, <3>3 DEF ExportGoesOn, After
    <3>4. CASE file = "val"
      BY <1>6, <1>7, <3>1, <3>2, <3>4 DEF ExportGoesOn, After, Splits
    <3>5. CASE file = "test"
      BY <1>6, <1>7, <3>1, <3>2, <3>5 DEF ExportGoesOn, After, Splits
    <3> QED
      BY <2>3, <3>3, <3>4, <3>5 DEF DatasetFiles, Splits
  <2> QED
    BY <2>1, <2>2, <2>3
<1>9. InvLabels'
  BY <1>1, <1>3, PipelineKinds DEF InvLabels, PipelineTypeOK, ResultsGoOn, LabelsAreFiled
<1> QED
  BY <1>5, <1>8, <1>9 DEF InvExport

(* Beside the labels a step that labels touches nothing of an export.        *)
LEMMA LabellingKeepsExport ==
  ASSUME InvLabels, InvLabels', InvExport, pipeline' \notin ExportRun
  PROVE  InvExport'
BY DEF InvExport, SplitsPartition, ExportGoesOn

PipelineInv == InvLabels /\ InvExport

LEMMA InitPipelineInv == PipelineInit => PipelineInv
<1>1. PipelineInit => InvExport
  BY PipelineKinds DEF PipelineInit, InvExport, SplitsPartition, ExportGoesOn
<1> QED
  BY <1>1, InitLabels DEF PipelineInv

LEMMA StepPipelineInv == PipelineInv /\ [PipelineNext]_pipelineVars => PipelineInv'
<1> SUFFICES ASSUME PipelineInv, [PipelineNext]_pipelineVars PROVE PipelineInv'
  OBVIOUS
<1> USE DEF PipelineInv
<1>1. ASSUME UNCHANGED <<labels, pipeline, dataset>>, inputs' \in [Samples -> Nat]
      PROVE  PipelineInv'
  <2>1. InvLabels'
    BY <1>1 DEF InvLabels, PipelineTypeOK, ResultsGoOn, LabelsAreFiled, Fingerprint
  <2>2. InvExport'
    BY <1>1 DEF InvExport, SplitsPartition, ExportGoesOn, Written, Exported
  <2> QED
    BY <2>1, <2>2
<1>2. ASSUME NEW s \in Samples, ChangeInput(s)
      PROVE  PipelineInv'
  <2>1. inputs' \in [Samples -> Nat]
    BY <1>2 DEF ChangeInput, InvLabels, PipelineTypeOK
  <2> QED
    BY <1>1, <1>2, <2>1 DEF ChangeInput
<1>3. ASSUME NEW representation \in Representations, StartRun(representation)
      PROVE  PipelineInv'
  <2>1. pipeline' = [pc |-> "label", samples |-> inputs, representation |-> representation,
                    results |-> << >>]
    BY <1>3 DEF StartRun
  <2>2. pipeline' \in LabelRun
    BY <2>1 DEF LabelRun, InvLabels, PipelineTypeOK
  <2>3. ResultsGoOn'
    <3>1. Len(<< >>) <= Len(SampleList)
      BY PipelineAssumption, LenProperties, EmptySeq
    <3> QED
      BY <2>1, <3>1 DEF ResultsGoOn
  <2>4. InvLabels'
    BY <1>3, <2>2, <2>3 DEF StartRun, InvLabels, PipelineTypeOK, LabelsAreFiled
  <2> QED
    BY <2>2, <2>4, LabellingKeepsExport, PipelineKinds
<1>4. CASE Reuse
  <2>1. InvLabels'
    BY <1>4, ReuseKeeps
  <2>2. pipeline'.pc = "label"
    BY <1>4, CurrentIsSample DEF Reuse, LabelRun
  <2> QED
    BY <2>1, <2>2, LabellingKeepsExport, PipelineKinds
<1>5. ASSUME NEW good \in BOOLEAN, Generate(good)
      PROVE  PipelineInv'
  <2>1. InvLabels'
    BY <1>5, GenerateKeeps
  <2>2. pipeline'.pc = "write"
    BY <1>5, CurrentIsSample DEF Generate, LabelRun
  <2> QED
    BY <2>1, <2>2, LabellingKeepsExport, PipelineKinds
<1>6. CASE WriteLabel
  <2>1. InvLabels'
    BY <1>6, WriteLabelKeeps
  <2>2. pipeline \in LabelRun
    BY <1>6, PipelineKinds DEF WriteLabel, InvLabels, PipelineTypeOK
  <2>3. pipeline'.pc = "label"
    BY <1>6, <2>2 DEF WriteLabel, LabelRun
  <2> QED
    BY <2>1, <2>3, LabellingKeepsExport, PipelineKinds
<1>7. CASE Split
  BY <1>7, SplitKeeps
<1>8. CASE OpenFile \/ WriteFile
  BY <1>8, ExportKeeps
<1>9. CASE PipelineKilled
  <2>1. pipeline' = Idle /\ UNCHANGED <<inputs, labels, dataset>>
    BY <1>9 DEF PipelineKilled
  <2>2. InvLabels'
    BY <2>1, PipelineKinds DEF InvLabels, PipelineTypeOK, ResultsGoOn, LabelsAreFiled
  <2> QED
    BY <2>1, <2>2, LabellingKeepsExport, PipelineKinds
<1>10. ASSUME NEW named \in BOOLEAN, CheckManifest(named)
       PROVE  PipelineInv'
  BY <1>1, <1>10 DEF CheckManifest, InvLabels, PipelineTypeOK
<1>11. CASE LoadDataset
  BY <1>1, <1>11 DEF LoadDataset, InvLabels, PipelineTypeOK
<1>12. CASE UNCHANGED pipelineVars
  BY <1>1, <1>12 DEF pipelineVars, InvLabels, PipelineTypeOK
<1> QED
  BY <1>2, <1>3, <1>4, <1>5, <1>6, <1>7, <1>8, <1>9, <1>10, <1>11, <1>12 DEF PipelineNext

(* A run never takes a label from disk that is of another sample, of what    *)
(* the sample was before, of another representation or cut off               *)
(* (_input_fingerprint, TeacherLabelGenerator.run).                          *)
THEOREM LabelsAreCurrentHolds == PipelineSpec => []LabelsAreCurrent
<1>1. PipelineInv => LabelsAreCurrent
  <2> SUFFICES ASSUME PipelineInv, pipeline.pc \in {"label", "write"},
                      NEW i \in DOMAIN pipeline.results
               PROVE  /\ pipeline.results[i].sample = SampleList[i]
                      /\ pipeline.results[i].of = Fingerprint(SampleList[i])
    BY DEF LabelsAreCurrent
  <2>1. pipeline \in LabelRun
    BY PipelineKinds DEF PipelineInv, InvLabels, PipelineTypeOK
  <2>2. DOMAIN pipeline.results = 1..Len(pipeline.results)
    BY <2>1, LenProperties DEF LabelRun
  <2> QED
    BY <2>1, <2>2 DEF PipelineInv, InvLabels, ResultsGoOn
<1> QED
  BY <1>1, InitPipelineInv, StepPipelineInv, PTL DEF PipelineSpec

(* An export that has ended has the files its manifest tells of, with every  *)
(* accepted sample and no group in two of them, however the shares come out  *)
(* (split_dataset, export_sft_dataset).                                      *)
THEOREM ExportIsWholeHolds == PipelineSpec => []ExportIsWhole
<1>1. PipelineInv => ExportIsWhole
  <2> SUFFICES ASSUME PipelineInv, pipeline.pc = "exported" PROVE ExportIsWhole
    BY DEF ExportIsWhole
  <2> DEFINE told == dataset["manifest"].content
  <2>1. pipeline \in ExportRun
    BY PipelineKinds DEF PipelineInv, InvLabels, PipelineTypeOK
  <2>2. \A split \in Splits : Written(split)
    BY <2>1 DEF PipelineInv, InvExport, ExportGoesOn, Splits
  <2>3. \A split \in Splits : told[split] = Exported(split)
    BY <2>1 DEF PipelineInv, InvExport, ExportGoesOn, Whole
  <2>4. \A split \in Splits :
          {GroupOf[e.sample] : e \in told[split]} = KeysOf(pipeline.splits[split])
    <3>1. \A l : Example(l).sample = l.sample
      BY DEF Example
    <3> HIDE DEF told
    <3>2. ASSUME NEW split \in Splits
          PROVE  {GroupOf[e.sample] : e \in told[split]} = KeysOf(pipeline.splits[split])
      <4>1. told[split] = {Example(l) : l \in pipeline.splits[split]}
        BY <2>3 DEF Exported
      <4> QED
        BY <3>1, <4>1 DEF KeysOf, KeyOf
    <3> QED
      BY <3>2
  <2>5. \A a, b \in Splits : a # b =>
          {GroupOf[e.sample] : e \in told[a]} \cap {GroupOf[e.sample] : e \in told[b]} = {}
    BY <2>1, <2>4 DEF PipelineInv, InvExport, SplitsPartition
  <2>6. UNION {told[split] : split \in Splits} = {Example(l) : l \in pipeline.accepted}
    <3>1. UNION {pipeline.splits[split] : split \in Splits} = pipeline.accepted
      BY <2>1 DEF PipelineInv, InvExport, SplitsPartition
    <3>2. UNION {told[split] : split \in Splits} = UNION {Exported(split) : split \in Splits}
      BY <2>3
    <3> HIDE DEF told
    <3>3. ASSUME NEW e
          PROVE  e \in UNION {Exported(split) : split \in Splits} <=>
                   e \in {Example(l) : l \in pipeline.accepted}
      BY <3>1 DEF Exported
    <3> QED
      BY <3>2, <3>3
  <2>7. \A split \in Splits : dataset[split] = Whole(told[split])
    BY <2>2, <2>3 DEF Written
  <2> QED
    BY <2>5, <2>6, <2>7 DEF ExportIsWhole
<1> QED
  BY <1>1, InitPipelineInv, StepPipelineInv, PTL DEF PipelineSpec

-----------------------------------------------------------------------------
(* Experiment stack: what the records tell at each line of the script        *)
ProcessSet ==
  {NoProcess}
    \cup [kind: {"console", "other"}, born: Nat, sent: {"none", "term", "kill"}, ours: BOOLEAN]
    \cup [kind: {"server"}, born: Nat, sent: {"none", "term", "kill"}, ours: BOOLEAN,
          engine: Engines, path: Paths, bound: BOOLEAN]

StartSet ==
  [op: {"start"},
   pc: {"conflict", "clean", "launch", "record", "own", "await",
        "lookup", "term", "wait", "killed", "failed"},
   engine: Engines, path: Paths, external: BOOLEAN, component: Components,
   started: BOOLEAN, pid: Pids \cup {NoPid}]

StopSet ==
  [op: {"stop"}, pc: {"lookup", "term", "wait", "killed", "unlink"},
   component: Components, pid: Pids \cup {NoPid}, found: BOOLEAN]

StackTypeOK ==
  /\ procs \in [Pids -> ProcessSet]
  /\ records \in [Components -> [pid: Pids \cup {NoPid}, start: Nat]]
  /\ script \in {Resting} \cup StartSet \cup StopSet
  /\ births \in Nat

(* The processes of the script, and what _record_pid writes of one.          *)
Ours(p) == Alive(p) /\ procs[p].ours

RecordedAs(p, c) == records[c] = [pid |-> p, start |-> procs[p].born]

(* A start time is not given again.                                          *)
BirthsAreCounted ==
  /\ \A p \in Pids : Alive(p) => procs[p].born \in 1..births
  /\ \A c \in Components : records[c].start \in 0..births

(* A record that fits a living process names one of the script's own.        *)
RecordedAreOurs ==
  \A p \in Pids, c \in Components : Alive(p) /\ RecordedAs(p, c) => procs[p].ours

(* Between the launch of a component and its record the script alone knows   *)
(* of it; a server of its own was recorded before.                           *)
Launched ==
  script.pc = "record" =>
    /\ script.op = "start" /\ script.pid \in Pids
    /\ Alive(script.pid) =>
         /\ procs[script.pid].ours /\ procs[script.pid].sent = "none"
         /\ \A c \in Components : ~RecordedAs(script.pid, c)
    /\ \A p \in Pids : Ours(p) /\ p # script.pid =>
         script.component = "console" /\ script.started /\ RecordedAs(p, "server")

(* What runs when a component is about to be launched, or a start has failed. *)
BeforeLaunch ==
  script.pc \in {"conflict", "clean", "launch", "failed"} =>
    /\ script.op = "start"
    /\ script.pc \in {"conflict", "clean"} => ~script.started
    /\ \A p \in Pids : Ours(p) =>
         /\ script.pc = "launch" /\ script.component = "console"
         /\ script.started /\ RecordedAs(p, "server")

(* During the rest of a start, its roll back included, all are recorded.     *)
AfterLaunch ==
  script.pc \in {"own", "await", "lookup", "term", "wait", "killed"} /\ script.op = "start" =>
    /\ script.pc = "own" => script.component = "server"
    /\ script.component = "console" =>
         \A p \in Pids : Ours(p) => 
           RecordedAs(p, "console") \/ (script.started /\ RecordedAs(p, "server"))
    /\ script.component = "server" => \A p \in Pids : Ours(p) => RecordedAs(p, "server")
    /\ script.pc = "await" /\ script.component = "server" => script.started

(* The number that a stop holds is that of the record it has read.           *)
Held ==
  script.pc \in {"term", "wait", "killed"} =>
    /\ script.pid \in Pids /\ records[script.component].pid = script.pid
    /\ Alive(script.pid) => procs[script.pid].born = records[script.component].start

StackInv ==
  /\ StackTypeOK
  /\ BirthsAreCounted /\ RecordedAreOurs
  /\ Launched /\ BeforeLaunch /\ AfterLaunch /\ Held
  /\ OwnedAreRecorded /\ SignalledAreOwned

LEMMA ProcessFields ==
  ASSUME NEW r \in ProcessSet, r # NoProcess
  PROVE  /\ r.kind \in {"console", "other", "server"} /\ r.born \in Nat
         /\ r.sent \in {"none", "term", "kill"} /\ r.ours \in BOOLEAN
         /\ r.kind = "server" =>
              /\ r.path \in Paths /\ r.bound \in BOOLEAN
              /\ [r EXCEPT !.bound = TRUE] \in ProcessSet \ {NoProcess}
              /\ [r EXCEPT !.bound = TRUE].born = r.born
              /\ [r EXCEPT !.bound = TRUE].sent = r.sent
              /\ [r EXCEPT !.bound = TRUE].ours = r.ours
         /\ \A s \in {"none", "term", "kill"} :
              /\ [r EXCEPT !.sent = s] \in ProcessSet \ {NoProcess}
              /\ [r EXCEPT !.sent = s].born = r.born
              /\ [r EXCEPT !.sent = s].sent = s
              /\ [r EXCEPT !.sent = s].ours = r.ours
         /\ [r EXCEPT !.ours = FALSE] \in ProcessSet \ {NoProcess}
         /\ [r EXCEPT !.ours = FALSE].born = r.born
         /\ [r EXCEPT !.ours = FALSE].sent = r.sent
         /\ [r EXCEPT !.ours = FALSE].ours = FALSE
<1> DEFINE Plain == [kind: {"console", "other"}, born: Nat, sent: {"none", "term", "kill"},
                     ours: BOOLEAN]
           Server == [kind: {"server"}, born: Nat, sent: {"none", "term", "kill"}, ours: BOOLEAN,
                      engine: Engines, path: Paths, bound: BOOLEAN]
<1>1. NoProcess.kind = "none"
  BY DEF NoProcess
<1>2. CASE r \in Plain
  BY <1>1, <1>2 DEF ProcessSet
<1>3. CASE r \in Server
  BY <1>1, <1>3 DEF ProcessSet
<1> QED
  BY <1>2, <1>3 DEF ProcessSet

LEMMA SentFields ==
  ASSUME NEW r \in ProcessSet, r # NoProcess, NEW s \in {"none", "term", "kill"},
         NEW t, t = [r EXCEPT !.sent = s]
  PROVE  t \in ProcessSet \ {NoProcess} /\ t.born = r.born /\ t.sent = s /\ t.ours = r.ours
<1>1. NoProcess.kind = "none"
  BY DEF NoProcess
<1>2. CASE r.kind = "server"
  BY <1>1, <1>2 DEF ProcessSet
<1>3. CASE r.kind # "server"
  BY <1>1, <1>3 DEF ProcessSet
<1> QED
  BY <1>2, <1>3

LEMMA BornFields ==
  ASSUME births \in Nat, NEW kind \in {"console", "other"}, NEW ours \in BOOLEAN
  PROVE  /\ Born(kind, ours) \in ProcessSet \ {NoProcess}
         /\ Born(kind, ours).born = births + 1
         /\ Born(kind, ours).sent = "none" /\ Born(kind, ours).ours = ours
<1>1. NoProcess.kind = "none" /\ Born(kind, ours).kind = kind
  BY DEF NoProcess, Born
<1>2. Born(kind, ours) \in ProcessSet
  BY DEF Born, ProcessSet
<1>3. Born(kind, ours) # NoProcess
  BY <1>1
<1> QED
  BY <1>2, <1>3 DEF Born

LEMMA BornServerFields ==
  ASSUME births \in Nat, NEW ours \in BOOLEAN, NEW engine \in Engines, NEW path \in Paths
  PROVE  /\ BornServer(engine, path, ours) \in ProcessSet \ {NoProcess}
         /\ BornServer(engine, path, ours).born = births + 1
         /\ BornServer(engine, path, ours).sent = "none"
         /\ BornServer(engine, path, ours).ours = ours
<1>1. NoProcess.kind = "none" /\ BornServer(engine, path, ours).kind = "server"
  BY DEF NoProcess, BornServer
<1>2. BornServer(engine, path, ours) \in ProcessSet
  BY DEF BornServer, ProcessSet
<1>3. BornServer(engine, path, ours) # NoProcess
  BY <1>1
<1> QED
  BY <1>2, <1>3 DEF BornServer

LEMMA ScriptOnly ==
  ASSUME StackInv, UNCHANGED <<procs, records, births>>,
         script' \in {Resting} \cup StartSet \cup StopSet
  PROVE  /\ StackTypeOK' /\ BirthsAreCounted' /\ RecordedAreOurs' /\ SignalledAreOwned'
         /\ script.pc # "record" => OwnedAreRecorded'
<1>1. /\ StackTypeOK /\ BirthsAreCounted /\ RecordedAreOurs /\ SignalledAreOwned
      /\ OwnedAreRecorded
  BY DEF StackInv
<1>2. StackTypeOK'
  BY <1>1 DEF StackTypeOK
<1>3. BirthsAreCounted'
  BY <1>1 DEF BirthsAreCounted, Alive
<1>4. RecordedAreOurs'
  BY <1>1 DEF RecordedAreOurs, Alive, RecordedAs
<1>5. SignalledAreOwned'
  BY <1>1 DEF SignalledAreOwned, Alive
<1>6. script.pc # "record" => OwnedAreRecorded'
  BY <1>1 DEF OwnedAreRecorded, Alive
<1> QED
  BY <1>2, <1>3, <1>4, <1>5, <1>6

LEMMA ScriptKinds ==
  ASSUME StackTypeOK
  PROVE  /\ script \in {Resting} \cup StartSet \cup StopSet
         /\ script.pc # "rest" => script \in StartSet \cup StopSet
         /\ script.pc \in {"conflict", "clean", "launch", "record", "own", "await", "failed"}
              => script \in StartSet
         /\ script.pc = "unlink" => script \in StopSet
  BY DEF StackTypeOK, StartSet, StopSet, Resting

LEMMA StartKeeps ==
  ASSUME StackInv, NEW engine \in Engines, NEW path \in Paths, NEW external \in BOOLEAN,
         Start(engine, path, external)
  PROVE  StackInv'
<1>1. UNCHANGED <<procs, records, births>> /\ script.pc # "record"
  BY DEF Start, Resting
<1>2. script' \in {Resting} \cup StartSet \cup StopSet
  BY ScriptKinds DEF StackInv, Start, StartSet, StopSet, Step, Components
<1>3. Launched' /\ Held'
  BY ScriptKinds
     DEF StackInv, Launched, Held, Start, StartSet, StopSet, Step, Resting, Alive, RecordedAs,
         Ours
<1>4. BeforeLaunch'
  <2>1. \A p \in Pids : ~Ours(p)
    <3>1. SUFFICES ASSUME NEW p \in Pids, Ours(p) PROVE FALSE
      OBVIOUS
    <3>2. PICK c \in Components : records[c] = [pid |-> p, start |-> procs[p].born]
      BY <3>1 DEF StackInv, OwnedAreRecorded, Ours, Start, Resting
    <3>3. records[c].pid = p /\ records[c].start = procs[p].born
      BY <3>2
    <3>4. LivePid(c) = p
      BY <3>1, <3>3, StackAssumption DEF LivePid, Ours
    <3> QED
      BY <3>1, <3>4, StackAssumption DEF Start, NothingRuns
  <2>2. script'.op = "start" /\ script'.pc = "conflict" /\ ~script'.started
    BY DEF Start
  <2> QED
    BY <1>1, <2>1, <2>2 DEF BeforeLaunch, Ours, Alive
<1>5. AfterLaunch'
  BY ScriptKinds
     DEF StackInv, Start, BeforeLaunch, AfterLaunch, StartSet, StopSet, Step, Resting, Alive,
         RecordedAs, Ours
<1> QED
  BY <1>1, <1>2, <1>3, <1>4, <1>5, ScriptOnly DEF StackInv

LEMMA CheckConflictKeeps ==
  ASSUME StackInv, CheckConflict
  PROVE  StackInv'
<1>1. UNCHANGED <<procs, records, births>> /\ script.pc # "record"
  BY DEF CheckConflict, Resting
<1>2. script' \in {Resting} \cup StartSet \cup StopSet
  BY ScriptKinds DEF StackInv, CheckConflict, StartSet, StopSet, Step, Components
<1>3. Launched' /\ Held'
  BY ScriptKinds
     DEF StackInv, Launched, Held, CheckConflict, StartSet, StopSet, Step, Resting, Alive,
         RecordedAs, Ours
<1>4. BeforeLaunch'
  BY ScriptKinds
     DEF StackInv, CheckConflict, BeforeLaunch, AfterLaunch, StartSet, StopSet, Step, Resting,
         Alive, RecordedAs, Ours
<1>5. AfterLaunch'
  BY ScriptKinds
     DEF StackInv, CheckConflict, BeforeLaunch, AfterLaunch, StartSet, StopSet, Step, Resting,
         Alive, RecordedAs, Ours
<1> QED
  BY <1>1, <1>2, <1>3, <1>4, <1>5, ScriptOnly DEF StackInv

LEMMA RemoveStaleSocketKeeps ==
  ASSUME StackInv, RemoveStaleSocket
  PROVE  StackInv'
<1>1. UNCHANGED <<procs, records, births>> /\ script.pc # "record"
  BY DEF RemoveStaleSocket, Resting
<1>2. script' \in {Resting} \cup StartSet \cup StopSet
  BY ScriptKinds DEF StackInv, RemoveStaleSocket, StartSet, StopSet, Step, Components
<1>3. Launched' /\ Held'
  BY ScriptKinds
     DEF StackInv, Launched, Held, RemoveStaleSocket, StartSet, StopSet, Step, Resting, Alive,
         RecordedAs, Ours
<1>4. BeforeLaunch'
  BY ScriptKinds
     DEF StackInv, RemoveStaleSocket, BeforeLaunch, AfterLaunch, StartSet, StopSet, Step,
         Resting, Alive, RecordedAs, Ours
<1>5. AfterLaunch'
  BY ScriptKinds
     DEF StackInv, RemoveStaleSocket, BeforeLaunch, AfterLaunch, StartSet, StopSet, Step,
         Resting, Alive, RecordedAs, Ours
<1> QED
  BY <1>1, <1>2, <1>3, <1>4, <1>5, ScriptOnly DEF StackInv

LEMMA OwnSocketKeeps ==
  ASSUME StackInv, OwnSocket
  PROVE  StackInv'
<1>1. UNCHANGED <<procs, records, births>> /\ script.pc # "record"
  BY DEF OwnSocket, Resting
<1>2. script' \in {Resting} \cup StartSet \cup StopSet
  BY ScriptKinds DEF StackInv, OwnSocket, StartSet, StopSet, Step, Components
<1>3. Launched' /\ Held'
  BY ScriptKinds
     DEF StackInv, Launched, Held, OwnSocket, StartSet, StopSet, Step, Resting, Alive,
         RecordedAs, Ours
<1>4. BeforeLaunch'
  BY ScriptKinds
     DEF StackInv, OwnSocket, BeforeLaunch, AfterLaunch, StartSet, StopSet, Step, Resting, Alive,
         RecordedAs, Ours
<1>5. AfterLaunch'
  BY ScriptKinds
     DEF StackInv, OwnSocket, BeforeLaunch, AfterLaunch, StartSet, StopSet, Step, Resting, Alive,
         RecordedAs, Ours
<1> QED
  BY <1>1, <1>2, <1>3, <1>4, <1>5, ScriptOnly DEF StackInv

LEMMA ReadyKeeps ==
  ASSUME StackInv, Ready
  PROVE  StackInv'
<1>1. UNCHANGED <<procs, records, births>> /\ script.pc = "await" /\ script \in StartSet
  BY ScriptKinds DEF Ready, StackInv
<1>2. CASE script' = Resting
  <2>1. script'.pc = "rest"
    BY <1>2 DEF Resting
  <2>2. Launched' /\ BeforeLaunch' /\ AfterLaunch' /\ Held'
    BY <2>1 DEF Launched, BeforeLaunch, AfterLaunch, Held
  <2> QED
    BY <1>1, <1>2, <2>2, ScriptOnly DEF StackInv
<1>3. CASE /\ script.component = "server"
           /\ script' = [script EXCEPT !.pc = "launch", !.component = "console"]
  <2>1. /\ script'.pc = "launch" /\ script'.op = "start" /\ script'.component = "console"
        /\ script'.started = script.started /\ script' \in StartSet /\ script.op = "start"
    BY <1>1, <1>3 DEF StartSet, Components
  <2>2. script.started /\ \A p \in Pids : Ours(p) => RecordedAs(p, "server")
    BY <1>1, <1>3, <2>1 DEF StackInv, AfterLaunch
  <2>3. Launched' /\ BeforeLaunch' /\ AfterLaunch' /\ Held'
    BY <1>1, <2>1, <2>2 DEF Launched, BeforeLaunch, AfterLaunch, Held, Ours, Alive, RecordedAs
  <2> QED
    BY <1>1, <2>1, <2>3, ScriptOnly DEF StackInv
<1> QED
  BY <1>2, <1>3 DEF Ready

LEMMA AwaitTimesOutKeeps ==
  ASSUME StackInv, AwaitTimesOut
  PROVE  StackInv'
<1>1. UNCHANGED <<procs, records, births>> /\ script.pc # "record"
  BY DEF AwaitTimesOut, Resting
<1>2. script' \in {Resting} \cup StartSet \cup StopSet
  BY ScriptKinds DEF StackInv, AwaitTimesOut, StartSet, StopSet, Step, Components
<1>3. Launched' /\ Held'
  BY ScriptKinds
     DEF StackInv, Launched, Held, AwaitTimesOut, StartSet, StopSet, Step, Resting, Alive,
         RecordedAs, Ours
<1>4. BeforeLaunch'
  BY ScriptKinds
     DEF StackInv, AwaitTimesOut, BeforeLaunch, AfterLaunch, StartSet, StopSet, Step, Resting,
         Alive, RecordedAs, Ours
<1>5. AfterLaunch'
  BY ScriptKinds
     DEF StackInv, AwaitTimesOut, BeforeLaunch, AfterLaunch, StartSet, StopSet, Step, Resting,
         Alive, RecordedAs, Ours
<1> QED
  BY <1>1, <1>2, <1>3, <1>4, <1>5, ScriptOnly DEF StackInv

LEMMA StopKeeps ==
  ASSUME StackInv, Stop
  PROVE  StackInv'
<1>1. UNCHANGED <<procs, records, births>> /\ script.pc # "record"
  BY DEF Stop, Resting
<1>2. script' \in {Resting} \cup StartSet \cup StopSet
  BY ScriptKinds DEF StackInv, Stop, StartSet, StopSet, Step, Components
<1>3. Launched' /\ Held'
  BY ScriptKinds
     DEF StackInv, Launched, Held, Stop, StartSet, StopSet, Step, Resting, Alive, RecordedAs,
         Ours
<1>4. BeforeLaunch'
  BY ScriptKinds
     DEF StackInv, Stop, BeforeLaunch, AfterLaunch, StartSet, StopSet, Step, Resting, Alive,
         RecordedAs, Ours
<1>5. AfterLaunch'
  BY ScriptKinds
     DEF StackInv, Stop, BeforeLaunch, AfterLaunch, StartSet, StopSet, Step, Resting, Alive,
         RecordedAs, Ours
<1> QED
  BY <1>1, <1>2, <1>3, <1>4, <1>5, ScriptOnly DEF StackInv

LEMMA RemoveSocketKeeps ==
  ASSUME StackInv, RemoveSocket
  PROVE  StackInv'
<1>1. UNCHANGED <<procs, records, births>> /\ script.pc # "record"
  BY DEF RemoveSocket, Resting
<1>2. script' \in {Resting} \cup StartSet \cup StopSet
  BY ScriptKinds DEF StackInv, RemoveSocket, StartSet, StopSet, Step, Components
<1>3. Launched' /\ Held'
  BY ScriptKinds
     DEF StackInv, Launched, Held, RemoveSocket, StartSet, StopSet, Step, Resting, Alive,
         RecordedAs, Ours
<1>4. BeforeLaunch'
  BY ScriptKinds
     DEF StackInv, RemoveSocket, BeforeLaunch, AfterLaunch, StartSet, StopSet, Step, Resting,
         Alive, RecordedAs, Ours
<1>5. AfterLaunch'
  BY ScriptKinds
     DEF StackInv, RemoveSocket, BeforeLaunch, AfterLaunch, StartSet, StopSet, Step, Resting,
         Alive, RecordedAs, Ours
<1> QED
  BY <1>1, <1>2, <1>3, <1>4, <1>5, ScriptOnly DEF StackInv

LEMMA StartFailedKeeps ==
  ASSUME StackInv, StartFailed
  PROVE  StackInv'
<1>1. UNCHANGED <<procs, records, births>> /\ script.pc # "record"
  BY DEF StartFailed, Resting
<1>2. script' \in {Resting} \cup StartSet \cup StopSet
  BY ScriptKinds DEF StackInv, StartFailed, StartSet, StopSet, Step, Components
<1>3. Launched' /\ Held'
  BY ScriptKinds
     DEF StackInv, Launched, Held, StartFailed, StartSet, StopSet, Step, Resting, Alive,
         RecordedAs, Ours
<1>4. BeforeLaunch'
  BY ScriptKinds
     DEF StackInv, StartFailed, BeforeLaunch, AfterLaunch, StartSet, StopSet, Step, Resting,
         Alive, RecordedAs, Ours
<1>5. AfterLaunch'
  BY ScriptKinds
     DEF StackInv, StartFailed, BeforeLaunch, AfterLaunch, StartSet, StopSet, Step, Resting,
         Alive, RecordedAs, Ours
<1> QED
  BY <1>1, <1>2, <1>3, <1>4, <1>5, ScriptOnly DEF StackInv

LEMMA NoneIsBorn ==
  ASSUME StackInv, procs' \in [Pids -> ProcessSet], UNCHANGED <<records, births>>,
         \A p \in Pids : Alive(p)' =>
           Alive(p) /\ procs'[p].born = procs[p].born /\ procs'[p].ours = procs[p].ours,
         script' \in {Resting} \cup StartSet \cup StopSet
  PROVE  /\ StackTypeOK' /\ BirthsAreCounted' /\ RecordedAreOurs'
         /\ \A p \in Pids : Ours(p)' => Ours(p)
         /\ \A p \in Pids, c \in Components : Alive(p)' => (RecordedAs(p, c)' <=> RecordedAs(p, c))
<1>1. StackTypeOK /\ BirthsAreCounted /\ RecordedAreOurs
  BY DEF StackInv
<1>2. StackTypeOK'
  BY <1>1 DEF StackTypeOK
<1>3. BirthsAreCounted'
  <2>1. \A c \in Components : records'[c].start \in 0..births'
    BY <1>1 DEF BirthsAreCounted
  <2>2. \A p \in Pids : Alive(p)' => procs'[p].born \in 1..births'
    BY <1>1 DEF BirthsAreCounted
  <2> QED
    BY <2>1, <2>2 DEF BirthsAreCounted
<1>4. \A p \in Pids, c \in Components : Alive(p)' => (RecordedAs(p, c)' <=> RecordedAs(p, c))
  BY DEF RecordedAs
<1>5. RecordedAreOurs'
  BY <1>1, <1>4 DEF RecordedAreOurs
<1>6. \A p \in Pids : Ours(p)' => Ours(p)
  BY DEF Ours
<1> QED
  BY <1>2, <1>3, <1>4, <1>5, <1>6

LEMMA NoneIsBornScriptStays ==
  ASSUME StackInv, procs' \in [Pids -> ProcessSet], UNCHANGED <<records, births, script>>,
         \A p \in Pids : Alive(p)' =>
           /\ Alive(p) /\ procs'[p].born = procs[p].born /\ procs'[p].ours = procs[p].ours
           /\ procs'[p].sent = procs[p].sent
  PROVE  StackInv'
<1>1. /\ StackTypeOK' /\ BirthsAreCounted' /\ RecordedAreOurs'
      /\ \A p \in Pids : Ours(p)' => Ours(p)
      /\ \A p \in Pids, c \in Components : Alive(p)' => (RecordedAs(p, c)' <=> RecordedAs(p, c))
  BY NoneIsBorn DEF StackInv, StackTypeOK
<1>2. Launched'
  <2>1. Launched
    BY DEF StackInv
  <2> QED
    BY <1>1, <2>1 DEF Launched, Ours, Components
<1>3. BeforeLaunch'
  BY <1>1 DEF StackInv, BeforeLaunch, Ours, Components
<1>4. AfterLaunch'
  BY <1>1 DEF StackInv, AfterLaunch, Ours, Components
<1>5. Held'
  BY <1>1 DEF StackInv, Held
<1>6. OwnedAreRecorded'
  <2>1. OwnedAreRecorded
    BY DEF StackInv
  <2> QED
    BY <2>1 DEF OwnedAreRecorded
<1>7. SignalledAreOwned'
  BY DEF StackInv, SignalledAreOwned
<1> QED
  BY <1>1, <1>2, <1>3, <1>4, <1>5, <1>6, <1>7 DEF StackInv

LEMMA BindKeeps ==
  ASSUME StackInv, NEW p \in Pids, Bind(p)
  PROVE  StackInv'
<1>1. procs \in [Pids -> ProcessSet]
  BY DEF StackInv, StackTypeOK
<1>2. procs[p] \in ProcessSet /\ procs[p] # NoProcess /\ procs[p].kind = "server"
  BY <1>1 DEF Bind, NoProcess
<1>3. /\ procs' = [procs EXCEPT ![p] = [@ EXCEPT !.bound = TRUE]]
      /\ UNCHANGED <<records, births, script>>
  BY DEF Bind
<1>4. /\ [procs[p] EXCEPT !.bound = TRUE] \in ProcessSet \ {NoProcess}
      /\ [procs[p] EXCEPT !.bound = TRUE].born = procs[p].born
      /\ [procs[p] EXCEPT !.bound = TRUE].sent = procs[p].sent
      /\ [procs[p] EXCEPT !.bound = TRUE].ours = procs[p].ours
  BY <1>2, ProcessFields, ZenonT(30)
<1>5. procs' \in [Pids -> ProcessSet]
  BY <1>1, <1>3, <1>4
<1>6. \A q \in Pids : Alive(q)' =>
        /\ Alive(q) /\ procs'[q].born = procs[q].born /\ procs'[q].ours = procs[q].ours
        /\ procs'[q].sent = procs[q].sent
  BY <1>1, <1>2, <1>3, <1>4 DEF Alive
<1> QED
  BY <1>3, <1>5, <1>6, NoneIsBornScriptStays

LEMMA ProcessEndsKeeps ==
  ASSUME StackInv, NEW p \in Pids, ProcessEnds(p)
  PROVE  StackInv'
<1>1. procs \in [Pids -> ProcessSet] /\ NoProcess \in ProcessSet
  BY DEF StackInv, StackTypeOK, ProcessSet
<1>2. procs' = [procs EXCEPT ![p] = NoProcess] /\ UNCHANGED <<records, births, script>>
  BY DEF ProcessEnds
<1>3. procs' \in [Pids -> ProcessSet]
  BY <1>1, <1>2
<1>4. \A q \in Pids : Alive(q)' =>
        /\ Alive(q) /\ procs'[q].born = procs[q].born /\ procs'[q].ours = procs[q].ours
        /\ procs'[q].sent = procs[q].sent
  BY <1>1, <1>2 DEF Alive
<1> QED
  BY <1>2, <1>3, <1>4, NoneIsBornScriptStays

LEMMA SignalKeeps ==
  ASSUME StackInv, NEW signal \in {"term", "kill"}, Send(signal), UNCHANGED <<records, births>>,
         script.pc \in {"term", "wait"}, NEW pc \in {"wait", "killed"}, Step(pc)
  PROVE  StackInv'
<1> DEFINE k == script.pid
<1>1. procs \in [Pids -> ProcessSet] /\ k \in Pids /\ script \in StartSet \cup StopSet
  BY ScriptKinds DEF StackInv, StackTypeOK, Held
<1>2. /\ script' \in StartSet \cup StopSet /\ script'.pc = pc
      /\ script'.op = script.op /\ script'.pid = script.pid
      /\ script'.component = script.component
      /\ script'.op = "start" => script'.started = script.started
  BY <1>1 DEF Step, StartSet, StopSet
<1>3. Alive(k) => procs[k].ours /\ procs[k] \in ProcessSet
  <2> SUFFICES ASSUME Alive(k) PROVE procs[k].ours
    BY <1>1
  <2>1. /\ script.component \in Components
        /\ records \in [Components -> [pid: Pids \cup {NoPid}, start: Nat]]
    BY <1>1 DEF StackInv, StackTypeOK, StartSet, StopSet
  <2>2. records[script.component].pid = k /\ records[script.component].start = procs[k].born
    BY DEF StackInv, Held
  <2>3. records[script.component] = [pid |-> k, start |-> procs[k].born]
    BY <2>1, <2>2
  <2> QED
    BY <1>1, <2>1, <2>3 DEF StackInv, RecordedAreOurs, RecordedAs
<1>4. Alive(k) =>
        /\ [procs[k] EXCEPT !.sent = signal] \in ProcessSet \ {NoProcess}
        /\ [procs[k] EXCEPT !.sent = signal].born = procs[k].born
        /\ [procs[k] EXCEPT !.sent = signal].ours = procs[k].ours
  <2> SUFFICES ASSUME Alive(k)
               PROVE  /\ [procs[k] EXCEPT !.sent = signal] \in ProcessSet \ {NoProcess}
                      /\ [procs[k] EXCEPT !.sent = signal].born = procs[k].born
                      /\ [procs[k] EXCEPT !.sent = signal].ours = procs[k].ours
    OBVIOUS
  <2>1. procs[k] \in ProcessSet /\ procs[k] # NoProcess /\ signal \in {"none", "term", "kill"}
    BY <1>3 DEF Alive
  <2>2. PICK t : t = [procs[k] EXCEPT !.sent = signal]
    OBVIOUS
  <2>3. t \in ProcessSet \ {NoProcess} /\ t.born = procs[k].born /\ t.ours = procs[k].ours
    BY <2>1, <2>2, SentFields
  <2> QED
    BY <2>2, <2>3
<1>5. procs' = IF Alive(k) THEN [procs EXCEPT ![k] = [@ EXCEPT !.sent = signal]] ELSE procs
  BY DEF Send
<1>6. procs' \in [Pids -> ProcessSet]
  BY <1>1, <1>4, <1>5
<1>7. \A p \in Pids : Alive(p)' =>
        /\ Alive(p) /\ procs'[p].born = procs[p].born /\ procs'[p].ours = procs[p].ours
        /\ p # k => procs'[p].sent = procs[p].sent
  BY <1>1, <1>4, <1>5 DEF Alive
<1>8. /\ StackTypeOK' /\ BirthsAreCounted' /\ RecordedAreOurs'
      /\ \A p \in Pids : Ours(p)' => Ours(p)
      /\ \A p \in Pids, c \in Components : Alive(p)' => (RecordedAs(p, c)' <=> RecordedAs(p, c))
  BY <1>2, <1>6, <1>7, NoneIsBorn
<1>9. Launched' /\ BeforeLaunch'
  BY <1>2 DEF Launched, BeforeLaunch
<1>10. AfterLaunch'
  <2>1. AfterLaunch
    BY DEF StackInv
  <2> QED
    BY <1>2, <1>8, <2>1 DEF AfterLaunch, Ours, Components
<1>11. Held'
  BY <1>1, <1>2, <1>7 DEF StackInv, Held
<1>12. OwnedAreRecorded'
  <2>1. OwnedAreRecorded /\ script.pc # "record"
    BY DEF StackInv
  <2> QED
    BY <1>7, <2>1 DEF OwnedAreRecorded
<1>13. SignalledAreOwned'
  <2>1. SignalledAreOwned
    BY DEF StackInv
  <2> QED
    BY <1>3, <1>7, <2>1 DEF SignalledAreOwned
<1> QED
  BY <1>8, <1>9, <1>10, <1>11, <1>12, <1>13 DEF StackInv


(* A process that is born is not recorded: its start time is new. *)
LEMMA OneIsBorn ==
  ASSUME StackInv, NEW p \in Pids, NEW r \in ProcessSet \ {NoProcess},
         r.born = births + 1, r.sent = "none", r.ours \in BOOLEAN,
         procs' = [procs EXCEPT ![p] = r], births' = births + 1, UNCHANGED records,
         ~Alive(p), script' \in {Resting} \cup StartSet \cup StopSet
  PROVE  /\ StackTypeOK' /\ BirthsAreCounted' /\ RecordedAreOurs' /\ SignalledAreOwned'
         /\ \A c \in Components : ~RecordedAs(p, c)'
         /\ \A q \in Pids \ {p} :
              /\ Alive(q)' <=> Alive(q)
              /\ procs'[q] = procs[q]
              /\ \A c \in Components : RecordedAs(q, c)' <=> RecordedAs(q, c)
<1>1. StackTypeOK /\ BirthsAreCounted /\ RecordedAreOurs /\ SignalledAreOwned
  BY DEF StackInv
<1>2. StackTypeOK'
  BY <1>1 DEF StackTypeOK
<1>3. procs'[p] = r /\ \A q \in Pids \ {p} : procs'[q] = procs[q]
  BY <1>1 DEF StackTypeOK
<1>4. \A q \in Pids \ {p} :
        /\ Alive(q)' <=> Alive(q)
        /\ \A c \in Components : RecordedAs(q, c)' <=> RecordedAs(q, c)
  BY <1>3 DEF Alive, RecordedAs
<1>5. \A c \in Components : ~RecordedAs(p, c)'
  <2>1. SUFFICES ASSUME NEW c \in Components, RecordedAs(p, c)' PROVE FALSE
    OBVIOUS
  <2>2. records[c].start = births + 1
    BY <1>3, <2>1 DEF RecordedAs
  <2>3. births \in Nat /\ records[c].start \in 0..births
    BY <1>1 DEF BirthsAreCounted, StackTypeOK
  <2> QED
    BY <2>2, <2>3
<1>6. BirthsAreCounted'
  <2>1. births \in Nat
    BY <1>1 DEF StackTypeOK
  <2>2. \A c \in Components : records'[c].start \in 0..births'
    BY <1>1, <2>1 DEF BirthsAreCounted
  <2>3. \A q \in Pids : Alive(q)' => procs'[q].born \in 1..births'
    BY <1>1, <1>3, <1>4, <2>1 DEF BirthsAreCounted
  <2> QED
    BY <2>2, <2>3 DEF BirthsAreCounted
<1>7. RecordedAreOurs'
  BY <1>1, <1>3, <1>4, <1>5 DEF RecordedAreOurs
<1>8. SignalledAreOwned'
  BY <1>1, <1>3, <1>4 DEF SignalledAreOwned
<1> QED
  BY <1>2, <1>3, <1>4, <1>5, <1>6, <1>7, <1>8

LEMMA UserStartsKeeps ==
  ASSUME StackInv, ~QuickReuse, NEW p \in Pids, UserStarts(p)
  PROVE  StackInv'
<1>1. births \in Nat /\ script \in {Resting} \cup StartSet \cup StopSet
  BY DEF StackInv, StackTypeOK
<1>2. PICK r \in ProcessSet \ {NoProcess} :
        /\ r.born = births + 1 /\ r.sent = "none" /\ r.ours = FALSE
        /\ procs' = [procs EXCEPT ![p] = r]
  <2>1. CASE procs' = [procs EXCEPT ![p] = Born("other", FALSE)]
    <3>1. /\ Born("other", FALSE) \in ProcessSet \ {NoProcess}
          /\ Born("other", FALSE).born = births + 1
          /\ Born("other", FALSE).sent = "none" /\ Born("other", FALSE).ours = FALSE
      BY <1>1, BornFields
    <3> QED
      BY <2>1, <3>1
  <2>2. CASE \E engine \in Engines, path \in Paths :
               procs' = [procs EXCEPT ![p] = BornServer(engine, path, FALSE)]
    <3>1. PICK engine \in Engines, path \in Paths :
                 procs' = [procs EXCEPT ![p] = BornServer(engine, path, FALSE)]
      BY <2>2
    <3>2. /\ BornServer(engine, path, FALSE) \in ProcessSet \ {NoProcess}
          /\ BornServer(engine, path, FALSE).born = births + 1
          /\ BornServer(engine, path, FALSE).sent = "none"
          /\ BornServer(engine, path, FALSE).ours = FALSE
      BY <1>1, BornServerFields
    <3> QED
      BY <3>1, <3>2
  <2> QED
    BY <2>1, <2>2 DEF UserStarts
<1>3. /\ ~Alive(p) /\ births' = births + 1 /\ UNCHANGED <<records, script>>
      /\ ~(Holding /\ script.pid = p)
  BY DEF UserStarts, Unused
<1>4. /\ StackTypeOK' /\ BirthsAreCounted' /\ RecordedAreOurs' /\ SignalledAreOwned'
      /\ \A q \in Pids \ {p} :
           /\ Alive(q)' <=> Alive(q)
           /\ procs'[q] = procs[q]
           /\ \A c \in Components : RecordedAs(q, c)' <=> RecordedAs(q, c)
  BY <1>1, <1>2, <1>3, OneIsBorn
<1>5. procs'[p] = r
  BY <1>2 DEF StackInv, StackTypeOK
<1>6. \A q \in Pids : Ours(q)' => q # p /\ Ours(q)
  BY <1>2, <1>4, <1>5 DEF Ours
<1>7. Launched'
  <2>1. Launched /\ (script.pc = "record" => script.pid # p)
    BY <1>3 DEF StackInv, Holding
  <2> QED
    BY <1>3, <1>4, <1>6, <2>1 DEF Launched, Ours, Components
<1>8. BeforeLaunch'
  BY <1>3, <1>4, <1>6 DEF StackInv, BeforeLaunch, Components
<1>9. AfterLaunch'
  BY <1>3, <1>4, <1>6 DEF StackInv, AfterLaunch, Components
<1>10. Held'
  BY <1>3, <1>4 DEF StackInv, Held, Holding
<1>11. OwnedAreRecorded'
  <2>1. OwnedAreRecorded
    BY DEF StackInv
  <2> QED
    BY <1>3, <1>4, <1>6, <2>1 DEF OwnedAreRecorded, Ours
<1> QED
  BY <1>4, <1>7, <1>8, <1>9, <1>10, <1>11 DEF StackInv

LEMMA LaunchKeeps ==
  ASSUME StackInv, NEW p \in Pids, Launch(p)
  PROVE  StackInv'
<1>1. births \in Nat /\ script \in StartSet /\ script.pc = "launch"
  BY ScriptKinds DEF StackInv, StackTypeOK, Launch
<1>2. script.engine \in Engines /\ script.path \in Paths /\ script.op = "start"
  BY <1>1 DEF StartSet
<1>3. PICK r \in ProcessSet \ {NoProcess} :
        /\ r.born = births + 1 /\ r.sent = "none" /\ r.ours = TRUE
        /\ procs' = [procs EXCEPT ![p] = r]
  <2>1. /\ Born("console", TRUE) \in ProcessSet \ {NoProcess}
        /\ Born("console", TRUE).born = births + 1
        /\ Born("console", TRUE).sent = "none" /\ Born("console", TRUE).ours = TRUE
        /\ BornServer(script.engine, script.path, TRUE) \in ProcessSet \ {NoProcess}
        /\ BornServer(script.engine, script.path, TRUE).born = births + 1
        /\ BornServer(script.engine, script.path, TRUE).sent = "none"
        /\ BornServer(script.engine, script.path, TRUE).ours = TRUE
    BY <1>1, <1>2, BornFields, BornServerFields
  <2>2. \/ procs' = [procs EXCEPT ![p] = Born("console", TRUE)]
        \/ procs' = [procs EXCEPT ![p] = BornServer(script.engine, script.path, TRUE)]
    BY DEF Launch
  <2> QED
    BY <2>1, <2>2
<1>4. /\ ~Alive(p) /\ births' = births + 1 /\ UNCHANGED records
      /\ script' = [script EXCEPT !.pc = "record", !.pid = p]
  BY DEF Launch
<1>5. /\ script' \in StartSet /\ script'.pc = "record" /\ script'.op = "start" /\ script'.pid = p
      /\ script'.component = script.component /\ script'.started = script.started
  BY <1>1, <1>2, <1>4 DEF StartSet
<1>6. /\ StackTypeOK' /\ BirthsAreCounted' /\ RecordedAreOurs' /\ SignalledAreOwned'
      /\ \A c \in Components : ~RecordedAs(p, c)'
      /\ \A q \in Pids \ {p} :
           /\ Alive(q)' <=> Alive(q)
           /\ procs'[q] = procs[q]
           /\ \A c \in Components : RecordedAs(q, c)' <=> RecordedAs(q, c)
  BY <1>3, <1>4, <1>5, OneIsBorn
<1>7. procs'[p] = r
  BY <1>3 DEF StackInv, StackTypeOK
<1>8. \A q \in Pids : Ours(q) =>
        script.component = "console" /\ script.started /\ RecordedAs(q, "server")
  BY <1>1 DEF StackInv, BeforeLaunch
<1>9. Launched'
  BY <1>3, <1>5, <1>6, <1>7, <1>8 DEF Launched, Ours, Components
<1>10. BeforeLaunch' /\ AfterLaunch' /\ Held'
  BY <1>5 DEF BeforeLaunch, AfterLaunch, Held
<1>11. OwnedAreRecorded'
  <2>1. OwnedAreRecorded /\ script.pc # "record"
    BY <1>1 DEF StackInv
  <2> QED
    BY <1>4, <1>5, <1>6, <2>1 DEF OwnedAreRecorded
<1> QED
  BY <1>6, <1>9, <1>10, <1>11 DEF StackInv


LEMMA WriteRecordKeeps ==
  ASSUME StackInv, WriteRecord
  PROVE  StackInv'
<1>0. PICK k, c : k = script.pid /\ c = script.component
  OBVIOUS
<1>1. /\ script.pc = "record" /\ script \in StartSet
      /\ procs \in [Pids -> ProcessSet]
      /\ records \in [Components -> [pid: Pids \cup {NoPid}, start: Nat]]
      /\ births \in Nat
  BY ScriptKinds DEF StackInv, StackTypeOK, WriteRecord
<1>2. c \in Components /\ script.op = "start" /\ k \in Pids
  BY <1>0, <1>1 DEF StackInv, Launched, StartSet
<1>3. PICK start :
        /\ start = IF Alive(k) THEN procs[k].born ELSE 0
        /\ records' = [records EXCEPT ![c] = [pid |-> k, start |-> start]]
  BY <1>0 DEF WriteRecord
<1>4. start \in 0..births
  BY <1>1, <1>2, <1>3 DEF StackInv, BirthsAreCounted
<1>5. /\ UNCHANGED <<procs, births>>
      /\ script' = [script EXCEPT !.pc = IF c = "server" THEN "own" ELSE "await"]
  BY <1>0 DEF WriteRecord, Step
<1>6. /\ script' \in StartSet /\ script'.op = "start" /\ script'.component = c
      /\ script'.pc = (IF c = "server" THEN "own" ELSE "await")
      /\ script'.started = script.started
  BY <1>0, <1>1, <1>2, <1>5 DEF StartSet
<1>7. /\ records'[c] = [pid |-> k, start |-> start]
      /\ \A d \in Components \ {c} : records'[d] = records[d]
      /\ records' \in [Components -> [pid: Pids \cup {NoPid}, start: Nat]]
  BY <1>1, <1>2, <1>3, <1>4
<1>8. StackTypeOK'
  BY <1>1, <1>5, <1>6, <1>7 DEF StackTypeOK
<1>9. BirthsAreCounted'
  <2>1. \A d \in Components : records'[d].start \in 0..births
    BY <1>4, <1>7 DEF StackInv, BirthsAreCounted
  <2> QED
    BY <1>5, <2>1 DEF StackInv, BirthsAreCounted, Alive
<1>10. Alive(k) => RecordedAs(k, c)' /\ procs[k].ours
  BY <1>0, <1>1, <1>3, <1>5, <1>7 DEF StackInv, Launched, RecordedAs
<1>11. \A p \in Pids, d \in Components : Alive(p) =>
         (RecordedAs(p, d)' <=> (d # c /\ RecordedAs(p, d)) \/ (d = c /\ p = k))
  <2>1. SUFFICES ASSUME NEW p \in Pids, NEW d \in Components, Alive(p)
                 PROVE  RecordedAs(p, d)' <=> (d # c /\ RecordedAs(p, d)) \/ (d = c /\ p = k)
    OBVIOUS
  <2>2. CASE d # c
    BY <1>5, <1>7, <2>2 DEF RecordedAs
  <2>3. CASE d = c /\ p = k
    BY <1>10, <2>1, <2>3
  <2>4. CASE d = c /\ p # k
    <3>1. ~RecordedAs(p, d)'
      BY <1>5, <1>7, <2>4 DEF RecordedAs
    <3> QED
      BY <2>4, <3>1
  <2> QED
    BY <2>2, <2>3, <2>4
<1>12. RecordedAreOurs'
  <2>1. RecordedAreOurs
    BY DEF StackInv
  <2> QED
    BY <1>5, <1>10, <1>11, <2>1 DEF RecordedAreOurs, Alive
<1>13. \A p \in Pids : Ours(p) /\ p # k =>
         /\ c = "console" /\ script.started /\ RecordedAs(p, "server")'
  <2>1. \A p \in Pids : Ours(p) /\ p # k =>
          /\ c = "console" /\ script.started /\ RecordedAs(p, "server")
    BY <1>0, <1>1 DEF StackInv, Launched
  <2> QED
    BY <1>11, <2>1 DEF Ours, Components
<1>14. Launched' /\ BeforeLaunch' /\ Held'
  BY <1>6 DEF Launched, BeforeLaunch, Held
<1>15. AfterLaunch'
  <2>1. \A p \in Pids : Ours(p)' <=> Ours(p)
    BY <1>5 DEF Ours, Alive
  <2>2. \A p \in Pids : Ours(p) => Alive(p)
    BY DEF Ours
  <2>3. CASE c = "server"
    BY <1>6, <1>10, <1>13, <2>1, <2>2, <2>3 DEF AfterLaunch
  <2>4. CASE c = "console"
    BY <1>6, <1>10, <1>13, <2>1, <2>2, <2>4 DEF AfterLaunch
  <2> QED
    BY <1>2, <2>3, <2>4 DEF Components
<1>16. OwnedAreRecorded'
  <2>1. SUFFICES ASSUME NEW p \in Pids, Ours(p)
                 PROVE  \E d \in Components : RecordedAs(p, d)'
    BY <1>5 DEF OwnedAreRecorded, Ours, Alive, RecordedAs
  <2>2. CASE p = k
    BY <1>2, <1>10, <2>1, <2>2 DEF Ours
  <2>3. CASE p # k
    BY <1>13, <2>1, <2>3 DEF Components
  <2> QED
    BY <2>2, <2>3
<1>17. SignalledAreOwned'
  BY <1>5 DEF StackInv, SignalledAreOwned, Alive
<1> QED
  BY <1>8, <1>9, <1>12, <1>14, <1>15, <1>16, <1>17 DEF StackInv

LEMMA ScriptKilledKeeps ==
  ASSUME StackInv, ScriptKilled
  PROVE  StackInv'
<1> DEFINE k == script.pid
<1>1. procs \in [Pids -> ProcessSet] /\ script' = Resting /\ UNCHANGED <<records, births>>
  BY DEF StackInv, StackTypeOK, ScriptKilled
<1>2. script'.pc = "rest"
  BY <1>1 DEF Resting
<1>3. Launched' /\ BeforeLaunch' /\ AfterLaunch' /\ Held'
  BY <1>2 DEF Launched, BeforeLaunch, AfterLaunch, Held
<1>4. CASE ~(script.pc = "record" /\ Alive(k))
  <2>1. UNCHANGED procs
    BY <1>4 DEF ScriptKilled
  <2>2. OwnedAreRecorded'
    BY <1>1, <1>4, <2>1 DEF StackInv, OwnedAreRecorded, Alive
  <2> QED
    BY <1>1, <1>3, <2>1, <2>2, ScriptOnly DEF StackInv
<1>5. CASE script.pc = "record" /\ Alive(k)
  <2>1. /\ k \in Pids /\ procs[k].sent = "none" /\ \A c \in Components : ~RecordedAs(k, c)
    BY <1>5 DEF StackInv, Launched
  <2>2. procs' = [procs EXCEPT ![k] = [@ EXCEPT !.ours = FALSE]]
    BY <1>5 DEF ScriptKilled
  <2>3. procs[k] \in ProcessSet /\ procs[k] # NoProcess
    BY <1>1, <1>5, <2>1 DEF Alive
  <2>4. PICK r \in ProcessSet \ {NoProcess} :
          /\ r = [procs[k] EXCEPT !.ours = FALSE] /\ r.born = procs[k].born
          /\ r.sent = procs[k].sent /\ r.ours = FALSE
    BY <2>3, ProcessFields
  <2>5. procs' = [procs EXCEPT ![k] = r]
    BY <2>2, <2>4
  <2>6. /\ procs'[k] = r /\ \A p \in Pids \ {k} : procs'[p] = procs[p]
        /\ procs' \in [Pids -> ProcessSet]
    BY <1>1, <2>1, <2>4, <2>5
  <2>7. \A p \in Pids : /\ Alive(p)' <=> Alive(p)
                        /\ procs'[p].born = procs[p].born /\ procs'[p].sent = procs[p].sent
                        /\ p # k => procs'[p].ours = procs[p].ours
    BY <1>5, <2>4, <2>6 DEF Alive
  <2>8. \A p \in Pids, c \in Components : RecordedAs(p, c)' <=> RecordedAs(p, c)
    BY <1>1, <2>7 DEF RecordedAs
  <2>9. StackTypeOK' /\ BirthsAreCounted'
    BY <1>1, <2>6, <2>7 DEF StackInv, StackTypeOK, BirthsAreCounted
  <2>10. RecordedAreOurs'
    BY <2>1, <2>7, <2>8 DEF StackInv, RecordedAreOurs
  <2>11. \A p \in Pids : Ours(p)' => p # k /\ Ours(p)
    BY <2>4, <2>6, <2>7 DEF Ours
  <2>12. OwnedAreRecorded'
    <3>1. \A p \in Pids : Ours(p) /\ p # k => RecordedAs(p, "server")
      BY <1>5 DEF StackInv, Launched
    <3> QED
      BY <2>8, <2>11, <3>1 DEF OwnedAreRecorded, Ours, RecordedAs, Components
  <2>13. SignalledAreOwned'
    BY <2>1, <2>7 DEF StackInv, SignalledAreOwned
  <2> QED
    BY <1>3, <2>9, <2>10, <2>12, <2>13 DEF StackInv
<1> QED
  BY <1>4, <1>5

LEMMA DropKeeps ==
  ASSUME StackInv, DropRecord, UNCHANGED <<procs, births>>, script' = AfterComponent,
         script.pc \in {"lookup", "wait", "killed"},
         \A p \in Pids : Alive(p) => ~RecordedAs(p, script.component)
  PROVE  StackInv'
<1>0. PICK c : c = script.component
  OBVIOUS
<1>1. /\ procs \in [Pids -> ProcessSet] /\ births \in Nat
      /\ records \in [Components -> [pid: Pids \cup {NoPid}, start: Nat]]
      /\ script \in StartSet \cup StopSet
  BY ScriptKinds DEF StackInv, StackTypeOK
<1>2. c \in Components
  BY <1>0, <1>1 DEF StartSet, StopSet
<1>3. /\ records'[c] = NoRecord /\ \A d \in Components \ {c} : records'[d] = records[d]
      /\ records' \in [Components -> [pid: Pids \cup {NoPid}, start: Nat]]
  <2>1. records' = [records EXCEPT ![c] = NoRecord]
    BY <1>0 DEF DropRecord
  <2>2. NoRecord \in [pid: Pids \cup {NoPid}, start: Nat]
    BY DEF NoRecord
  <2> QED
    BY <1>1, <1>2, <2>1, <2>2
<1>4. \A p \in Pids, d \in Components : Alive(p) => (RecordedAs(p, d)' <=> RecordedAs(p, d))
  <2>1. SUFFICES ASSUME NEW p \in Pids, NEW d \in Components, Alive(p)
                 PROVE  RecordedAs(p, d)' <=> RecordedAs(p, d)
    OBVIOUS
  <2>2. CASE d # c
    BY <1>3, <2>2 DEF RecordedAs
  <2>3. CASE d = c
    <3>1. ~RecordedAs(p, c)
      BY <1>0, <2>1
    <3>2. records'[c].pid # p
      BY <1>3, StackAssumption DEF NoRecord
    <3>3. ~RecordedAs(p, c)'
      BY <3>2 DEF RecordedAs
    <3> QED
      BY <2>3, <3>1, <3>3
  <2> QED
    BY <2>2, <2>3
<1>5. \A p \in Pids : (Alive(p)' <=> Alive(p)) /\ (Ours(p)' <=> Ours(p)) /\ (Ours(p) => Alive(p))
  BY DEF Alive, Ours
<1>6. /\ script' \in {Resting} \cup StartSet \cup StopSet
      /\ script'.pc \in {"rest", "lookup", "unlink", "failed"}
      /\ script'.pc = "lookup" /\ script'.op = "start" =>
           /\ script'.component = "server" /\ script'.started
           /\ script.op = "start" /\ c = "console"
      /\ script'.pc = "failed" =>
           /\ script'.op = "start" /\ script.op = "start"
           /\ c = "console" => ~script.started
  <2>1. CASE script \in StartSet
    <3>1. script.op = "start" /\ script.started \in BOOLEAN
      BY <2>1 DEF StartSet
    <3>2. CASE c = "console" /\ script.started
      <4>1. script' = [script EXCEPT !.pc = "lookup", !.component = "server"]
        BY <1>0, <3>1, <3>2 DEF AfterComponent
      <4>2. /\ script' \in StartSet /\ script'.pc = "lookup" /\ script'.component = "server"
            /\ script'.started = script.started
        BY <2>1, <4>1 DEF StartSet, Components
      <4> QED
        BY <3>1, <3>2, <4>2
    <3>3. CASE ~(c = "console" /\ script.started)
      <4>1. script' = [script EXCEPT !.pc = "failed"]
        BY <1>0, <3>1, <3>3 DEF AfterComponent
      <4>2. script' \in StartSet /\ script'.pc = "failed" /\ script'.op = "start"
        BY <2>1, <4>1 DEF StartSet
      <4> QED
        BY <3>1, <3>3, <4>2
    <3> QED
      BY <3>2, <3>3
  <2>2. CASE script \in StopSet
    <3>1. script.op = "stop"
      BY <2>2 DEF StopSet
    <3>2. CASE c = "console"
      <4>1. script' = [script EXCEPT !.pc = "lookup", !.component = "server"]
        BY <1>0, <3>1, <3>2 DEF AfterComponent
      <4>2. script' \in StopSet /\ script'.pc = "lookup" /\ script'.op = "stop"
        BY <2>2, <4>1 DEF StopSet, Components
      <4> QED
        BY <4>2
    <3>3. CASE c = "server" /\ script.found
      <4>1. script' = [script EXCEPT !.pc = "unlink"]
        BY <1>0, <3>1, <3>3 DEF AfterComponent
      <4>2. script' \in StopSet /\ script'.pc = "unlink"
        BY <2>2, <4>1 DEF StopSet
      <4> QED
        BY <4>2
    <3>4. CASE c = "server" /\ ~script.found
      <4>1. script' = Resting
        BY <1>0, <3>1, <3>4 DEF AfterComponent
      <4>2. script'.pc = "rest"
        BY <4>1 DEF Resting
      <4> QED
        BY <4>1, <4>2
    <3> QED
      BY <1>2, <3>2, <3>3, <3>4 DEF Components
  <2> QED
    BY <1>1, <2>1, <2>2
<1>7. StackTypeOK'
  BY <1>1, <1>3, <1>6 DEF StackTypeOK
<1>8. BirthsAreCounted'
  <2>1. \A d \in Components : records'[d].start \in 0..births
    BY <1>1, <1>3 DEF StackInv, BirthsAreCounted, NoRecord
  <2> QED
    BY <1>5, <2>1 DEF StackInv, BirthsAreCounted
<1>9. RecordedAreOurs'
  BY <1>4, <1>5 DEF StackInv, RecordedAreOurs
<1>10. Launched' /\ Held'
  BY <1>6 DEF Launched, Held
<1>11. script.op = "start" =>
         \A p \in Pids : Ours(p) => c = "console" /\ script.started /\ RecordedAs(p, "server")
  BY <1>0, <1>2, <1>5 DEF StackInv, AfterLaunch, Components
<1>12. BeforeLaunch'
  BY <1>5, <1>6, <1>11 DEF BeforeLaunch
<1>13. AfterLaunch'
  <2>1. \A p \in Pids : Ours(p) => (RecordedAs(p, "server") => RecordedAs(p, "server")')
    BY <1>4, <1>5 DEF Components
  <2> QED
    BY <1>5, <1>6, <1>11, <2>1 DEF AfterLaunch
<1>14. OwnedAreRecorded'
  <2>1. \A p \in Pids : Ours(p) => \E d \in Components : RecordedAs(p, d)
    BY DEF StackInv, OwnedAreRecorded, Ours, RecordedAs
  <2>2. \A p \in Pids : Ours(p) => \E d \in Components : RecordedAs(p, d)'
    BY <1>4, <1>5, <2>1
  <2> QED
    BY <1>5, <2>2 DEF OwnedAreRecorded, Ours, RecordedAs
<1>15. SignalledAreOwned'
  BY <1>5 DEF StackInv, SignalledAreOwned
<1> QED
  BY <1>7, <1>8, <1>9, <1>10, <1>12, <1>13, <1>14, <1>15 DEF StackInv

LEMMA LookUpKeeps ==
  ASSUME StackInv, LookUp
  PROVE  StackInv'
<1>1. /\ script \in StartSet \cup StopSet /\ script.pc = "lookup"
      /\ records \in [Components -> [pid: Pids \cup {NoPid}, start: Nat]]
      /\ UNCHANGED <<procs, births>>
  BY ScriptKinds DEF LookUp, StackInv, StackTypeOK
<1>2. script.component \in Components
  BY <1>1 DEF StartSet, StopSet
<1>3. CASE LivePid(script.component) = NoPid
  <2>1. \A p \in Pids : Alive(p) => ~RecordedAs(p, script.component)
    BY <1>3, StackAssumption DEF LivePid, RecordedAs
  <2> QED
    BY <1>1, <1>3, <2>1, DropKeeps DEF LookUp
<1>4. CASE LivePid(script.component) # NoPid
  <2>1. PICK k : k = LivePid(script.component)
    OBVIOUS
  <2>2. /\ k = records[script.component].pid /\ k # NoPid
        /\ procs[k].born = records[script.component].start
    BY <1>4, <2>1 DEF LivePid
  <2>3. k \in Pids
    BY <1>1, <1>2, <2>2
  <2>4. script' = [script EXCEPT !.pc = "term", !.pid = k] /\ UNCHANGED records
    BY <1>4, <2>1 DEF LookUp
  <2>5. /\ script' \in StartSet \cup StopSet /\ script'.pc = "term" /\ script'.pid = k
        /\ script'.op = script.op /\ script'.component = script.component
        /\ script'.op = "start" => script'.started = script.started
    BY <1>1, <2>3, <2>4 DEF StartSet, StopSet
  <2>6. Launched' /\ BeforeLaunch'
    BY <2>5 DEF Launched, BeforeLaunch
  <2>7. Held'
    BY <1>1, <2>2, <2>3, <2>4, <2>5 DEF Held
  <2>8. AfterLaunch'
    <3>1. /\ \A p \in Pids : Ours(p)' <=> Ours(p)
          /\ \A p \in Pids, d \in Components : RecordedAs(p, d)' <=> RecordedAs(p, d)
      BY <1>1, <2>4 DEF Ours, Alive, RecordedAs
    <3>2. AfterLaunch
      BY DEF StackInv
    <3> QED
      BY <1>1, <2>5, <3>1, <3>2 DEF AfterLaunch, Components
  <2> QED
    BY <1>1, <2>4, <2>5, <2>6, <2>7, <2>8, ScriptOnly DEF StackInv
<1> QED
  BY <1>3, <1>4

LEMMA ComponentStoppedKeeps ==
  ASSUME StackInv, ~SlowToEnd, ComponentStopped
  PROVE  StackInv'
<1>1. /\ script.pc \in {"wait", "killed"} /\ ~Alive(script.pid)
      /\ DropRecord /\ script' = AfterComponent /\ UNCHANGED <<procs, births>>
  BY DEF ComponentStopped
<1>2. records[script.component].pid = script.pid
  BY <1>1 DEF StackInv, Held
<1>3. \A p \in Pids : Alive(p) => ~RecordedAs(p, script.component)
  BY <1>1, <1>2 DEF RecordedAs
<1> QED
  BY <1>1, <1>3, DropKeeps

LEMMA StackInitInv == StackInit => StackInv
<1> SUFFICES ASSUME StackInit PROVE StackInv
  OBVIOUS
<1>1. /\ \A p \in Pids : ~Alive(p)
      /\ records = [c \in Components |-> [pid |-> NoPid, start |-> 0]]
      /\ script.pc = "rest" /\ births = 0
  BY DEF StackInit, Alive, NoRecord, Resting
<1>2. StackTypeOK
  BY DEF StackInit, StackTypeOK, NoRecord, ProcessSet
<1>3. BirthsAreCounted
  BY <1>1 DEF BirthsAreCounted
<1> QED
  BY <1>1, <1>2, <1>3
     DEF StackInv, RecordedAreOurs, Launched, BeforeLaunch, AfterLaunch, Held, OwnedAreRecorded,
         SignalledAreOwned

LEMMA StackStepInv ==
  ASSUME ~SlowToEnd, ~QuickReuse, StackInv, [StackNext]_stackVars
  PROVE  StackInv'
<1>1. ASSUME NEW p \in Pids, Bind(p)  PROVE StackInv'
  BY <1>1, BindKeeps
<1>2. ASSUME NEW p \in Pids, ProcessEnds(p)  PROVE StackInv'
  BY <1>2, ProcessEndsKeeps
<1>3. ASSUME NEW p \in Pids, Launch(p)  PROVE StackInv'
  BY <1>3, LaunchKeeps
<1>4. ASSUME NEW p \in Pids, UserStarts(p)  PROVE StackInv'
  BY <1>4, UserStartsKeeps
<1>5. ASSUME NEW engine \in Engines, NEW path \in Paths, NEW external \in BOOLEAN,
             Start(engine, path, external)
      PROVE  StackInv'
  BY <1>5, StartKeeps
<1>6. CASE Terminate
  BY <1>6, SignalKeeps DEF Terminate
<1>7. CASE KillComponent
  BY <1>7, SignalKeeps DEF KillComponent
<1>8. CASE UNCHANGED stackVars
  <2>1. UNCHANGED <<procs, records, births, script>> /\ procs' \in [Pids -> ProcessSet]
    BY <1>8 DEF stackVars, StackInv, StackTypeOK
  <2>2. \A p \in Pids : Alive(p)' =>
           /\ Alive(p) /\ procs'[p].born = procs[p].born /\ procs'[p].ours = procs[p].ours
           /\ procs'[p].sent = procs[p].sent
    BY <2>1 DEF Alive
  <2> QED
    BY <2>1, <2>2, NoneIsBornScriptStays
<1> QED
  BY <1>1, <1>2, <1>3, <1>4, <1>5, <1>6, <1>7, <1>8, CheckConflictKeeps, RemoveStaleSocketKeeps,
     WriteRecordKeeps, OwnSocketKeeps, ReadyKeeps, AwaitTimesOutKeeps, StopKeeps, LookUpKeeps,
     ComponentStoppedKeeps, RemoveSocketKeeps, StartFailedKeeps, ScriptKilledKeeps
     DEF StackNext

(* The script finds again what it has started, signals nothing else and      *)
(* leaves nothing behind when a start fails (_live_pid, _stop_component,     *)
(* cmd_start), if SIGKILL works in time and a number under a command is not  *)
(* given again.                                                              *)
THEOREM StackKnowsItsOwnHolds ==
  ASSUME ~SlowToEnd, ~QuickReuse
  PROVE  StackSpec => []StackKnowsItsOwn
<1>1. StackInv => StackKnowsItsOwn
  <2> SUFFICES ASSUME StackInv PROVE StackKnowsItsOwn
    OBVIOUS
  <2>1. OwnedAreRecorded /\ SignalledAreOwned
    BY DEF StackInv
  <2>2. FailedStartLeavesNone
    BY DEF StackInv, BeforeLaunch, FailedStartLeavesNone, Ours
  <2> QED
    BY <2>1, <2>2 DEF StackKnowsItsOwn
<1>2. StackInv /\ [StackNext]_stackVars => StackInv'
  BY StackStepInv
<1> QED
  BY <1>1, <1>2, StackInitInv, PTL DEF StackSpec

-----------------------------------------------------------------------------
(* FrameExtraction: a manifest tells of frames that are there and were asked *)
(* for, whatever recording, options and kills.                               *)

WindowHas(m, p) ==
  /\ Offset(m) >= p.start
  /\ EffectiveEnd(p) # Default => Offset(m) <= EffectiveEnd(p)

Spaced(m, later, p) == Offset(later) - Offset(m) >= Interval(p)

(* What frames are after the first n messages                                *)
Sampled(n, frames, p) ==
  /\ Len(frames) <= p.max
  /\ \A i \in 1..Len(frames) :
       frames[i] \in 1..n /\ recording[frames[i]].decodes /\ WindowHas(frames[i], p)
  /\ \A i \in 2..Len(frames) : Spaced(frames[i - 1], frames[i], p)
  /\ \A m \in 1..n : recording[m].decodes /\ WindowHas(m, p) =>
       \E i \in 1..Len(frames) :
         \/ Offset(frames[i]) = Offset(m)
         \/ Offset(frames[i]) < Offset(m) /\ ~Spaced(frames[i], m, p)

FrameDirectory ==
  [made : {TRUE}, asked : Parameters, images : Seq(Nat),
   manifest : {NoManifest} \cup [listed : {TRUE}, stamps : Seq(Nat)]]
RunningExtraction ==
  [pc : {"read", "write"}, dataset : Datasets, next : Nat \ {0}, frames : Seq(Nat)]

ExtractionTypeOK ==
  /\ recording \in Recordings
  /\ store \in [Datasets -> {NoDirectory} \cup FrameDirectory]
  /\ extraction \in {NoExtraction} \cup RunningExtraction

(* Nothing that could be asked for comes after what was sampled.             *)
Listing(dir, n, frames) ==
  /\ Sampled(n, frames, dir.asked)
  /\ dir.images = frames
  /\ Len(dir.manifest.stamps) = Len(frames)
  /\ \A i \in 1..Len(frames) : dir.manifest.stamps[i] = recording[frames[i]].at
  /\ Len(frames) < dir.asked.max =>
       \A m \in (n + 1)..Len(recording) : ~WindowHas(m, dir.asked)

DirectoryTells(dir) ==
  dir.manifest.listed => \E n \in 0..Len(recording), frames \in Seq(Nat) : Listing(dir, n, frames)

ManifestsTell == \A d \in Datasets : DirectoryTells(store[d])

(* While messages are read the files are the frames; a file that is being    *)
(* written is the next of them.                                              *)
FilesFollow(e, dir) ==
  /\ dir \in FrameDirectory
  /\ dir.manifest = NoManifest
  /\ e.next - 1 \in 0..Len(recording)
  /\ Sampled(e.next - 1, e.frames, dir.asked)
  /\ e.pc = "read" => dir.images = e.frames
  /\ e.pc = "write" =>
       /\ e.next <= Len(recording) /\ Len(e.frames) < dir.asked.max
       /\ recording[e.next].decodes /\ WindowHas(e.next, dir.asked)
       /\ e.frames # << >> => Spaced(e.frames[Len(e.frames)], e.next, dir.asked)
       /\ Len(dir.images) = Len(e.frames) + 1
       /\ \A i \in 1..Len(e.frames) : dir.images[i] = e.frames[i]

ExtractionGoesOn ==
  extraction # NoExtraction => FilesFollow(extraction, store[extraction.dataset])

ExtractionInv == ExtractionTypeOK /\ ManifestsTell /\ ExtractionGoesOn

LEMMA ExtractionInitInv == ExtractionInit => ExtractionInv
  BY DEF ExtractionInit, ExtractionInv, ExtractionTypeOK, ManifestsTell, DirectoryTells,
         ExtractionGoesOn, NoDirectory, NoManifest

LEMMA MessageFields ==
  ASSUME NEW r \in Seq([at : Nat, decodes : BOOLEAN])
  PROVE  /\ Len(r) \in Nat
         /\ \A i \in 1..Len(r) : r[i].at \in Nat /\ r[i].decodes \in BOOLEAN
<1>1. \A i \in 1..Len(r) : r[i] \in [at : Nat, decodes : BOOLEAN]
  BY ElementOfSeq
<1>2. \A e \in [at : Nat, decodes : BOOLEAN] : e.at \in Nat /\ e.decodes \in BOOLEAN
  OBVIOUS
<1> QED
  BY <1>1, <1>2

LEMMA OffsetsInOrder ==
  ASSUME recording \in Recordings
  PROVE  /\ Len(recording) \in Nat
         /\ \A m \in 1..Len(recording) :
              Offset(m) \in Int /\ recording[m].at \in Nat /\ recording[m].decodes \in BOOLEAN
         /\ \A m, k \in 1..Len(recording) : m <= k => Offset(m) <= Offset(k)
<1>1. PICK r \in Seq([at : Nat, decodes : BOOLEAN]) :
        r = recording /\ \A i, j \in DOMAIN r : i <= j => r[i].at <= r[j].at
  BY ExtractionAssumption
<1>2. /\ Len(r) \in Nat
      /\ \A i \in 1..Len(r) : r[i].at \in Nat /\ r[i].decodes \in BOOLEAN
  BY MessageFields
<1>3. ASSUME NEW m \in 1..Len(r)
      PROVE  Offset(m) \in Int /\ Offset(m) = r[m].at - r[1].at
  <2>1. 1 \in 1..Len(r)
    BY <1>2
  <2> QED
    BY <1>1, <1>2, <2>1 DEF Offset
<1>4. ASSUME NEW m \in 1..Len(r), NEW k \in 1..Len(r), m <= k
      PROVE  Offset(m) <= Offset(k)
  <2>1. 1 \in 1..Len(r) /\ r[m].at <= r[k].at
    BY <1>1, <1>2, <1>4
  <2>2. r[m].at \in Nat /\ r[k].at \in Nat /\ r[1].at \in Nat
    BY <1>2, <2>1
  <2>3. Offset(m) = r[m].at - r[1].at /\ Offset(k) = r[k].at - r[1].at
    BY <1>3
  <2>4. PICK o \in Int, q \in Int, a \in Nat, b \in Nat, c \in Nat :
          o = Offset(m) /\ q = Offset(k) /\ a = r[m].at /\ b = r[k].at /\ c = r[1].at
    BY <1>3, <2>2
  <2>5. o = a - c /\ q = b - c /\ a <= b
    BY <2>1, <2>3, <2>4
  <2>6. o <= q
    BY <2>5
  <2> QED
    BY <2>4, <2>6
<1> QED
  BY <1>1, <1>2, <1>3, <1>4

LEMMA IntervalIsInt ==
  ASSUME recording \in Recordings, Len(recording) > 0, NEW p \in Parameters
  PROVE  /\ Interval(p) \in Int
         /\ p.start \in Nat /\ p.max \in Nat \ {0}
         /\ EffectiveEnd(p) \in Nat \cup {Default}
<1>1. /\ p.start \in Nat /\ p.end \in Nat \cup {Default} /\ p.duration \in Nat \cup {Default}
      /\ p.interval \in Nat /\ p.target \in Nat \cup {Default} /\ p.max \in Nat \ {0}
      /\ MinInterval \in Nat /\ Default \notin Int
  BY ExtractionAssumption
<1>2. EffectiveEnd(p) \in Nat \cup {Default}
  BY <1>1 DEF EffectiveEnd
<1>3. Duration \in Int
  <2>1. Len(recording) \in 1..Len(recording) /\ 1 \in 1..Len(recording)
    BY OffsetsInOrder
  <2> QED
    BY <2>1, OffsetsInOrder DEF Duration
<1>4. PICK v : v = (IF EffectiveEnd(p) = Default THEN Duration ELSE EffectiveEnd(p)) - p.start
  OBVIOUS
<1>5. v \in Int
  BY <1>1, <1>2, <1>3, <1>4
<1>6. CASE p.target = Default \/ p.target = 0
  BY <1>1, <1>2, <1>6 DEF Interval
<1>7. CASE ~(p.target = Default \/ p.target = 0)
  <2>1. PICK t \in Nat \ {0} : t = p.target
    BY <1>1, <1>7
  <2>2. (v + t - 1) \div t \in Int
    BY <1>5
  <2> QED
    BY <1>1, <1>2, <1>4, <1>7, <2>1, <2>2 DEF Interval
<1> QED
  BY <1>6, <1>7

(* A message that is not due, does not decode or is out of the window        *)
LEMMA SkippedIsSampled ==
  ASSUME recording \in Recordings, NEW n \in 1..Len(recording), NEW frames \in Seq(Nat),
         NEW p \in Parameters, Sampled(n - 1, frames, p),
         recording[n].decodes /\ WindowHas(n, p) =>
           frames # << >> /\ ~Spaced(frames[Len(frames)], n, p)
  PROVE  Sampled(n, frames, p)
<1>1. Len(recording) \in Nat /\ Len(frames) \in Nat
  BY OffsetsInOrder
<1>2. \A i \in 1..Len(frames) : frames[i] \in 1..(n - 1)
  BY DEF Sampled
<1>3. \A i \in 1..Len(frames) : frames[i] \in 1..n
  BY <1>1, <1>2
<1>4. ASSUME recording[n].decodes, WindowHas(n, p)
      PROVE  \E i \in 1..Len(frames) :
               \/ Offset(frames[i]) = Offset(n)
               \/ Offset(frames[i]) < Offset(n) /\ ~Spaced(frames[i], n, p)
  <2>1. Len(frames) \in 1..Len(frames)
    BY <1>1, <1>4
  <2>2. PICK k \in 1..Len(recording) : k = frames[Len(frames)] /\ k <= n
    <3>1. frames[Len(frames)] \in 1..(n - 1)
      BY <1>2, <2>1
    <3>2. \A m \in 1..(n - 1) : m \in 1..Len(recording) /\ m <= n
      BY <1>1
    <3> QED
      BY <3>1, <3>2
  <2>3. Offset(k) <= Offset(n) /\ Offset(k) \in Int /\ Offset(n) \in Int
    BY <2>2, OffsetsInOrder
  <2>4. ~Spaced(k, n, p)
    BY <1>4, <2>2
  <2>5. Offset(k) = Offset(n) \/ Offset(k) < Offset(n)
    BY <2>3
  <2> QED
    BY <2>1, <2>2, <2>4, <2>5
<1>5. \A m \in 1..n : m = n \/ m \in 1..(n - 1)
  BY <1>1
<1> QED
  BY <1>3, <1>4, <1>5 DEF Sampled

LEMMA AppendedIsSampled ==
  ASSUME recording \in Recordings, NEW n \in 1..Len(recording), NEW frames \in Seq(Nat),
         NEW p \in Parameters, Sampled(n - 1, frames, p), Len(frames) < p.max,
         recording[n].decodes, WindowHas(n, p),
         frames # << >> => Spaced(frames[Len(frames)], n, p)
  PROVE  Sampled(n, Append(frames, n), p)
<1>1. Len(recording) \in Nat /\ Len(frames) \in Nat /\ p.max \in Nat /\ n \in Nat
  BY OffsetsInOrder, ExtractionAssumption, SMTT(30)
<1>2. PICK g : g = Append(frames, n)
  OBVIOUS
<1>3. /\ Len(g) = Len(frames) + 1 /\ g[Len(g)] = n
      /\ \A i \in 1..Len(frames) : g[i] = frames[i]
  BY <1>1, <1>2, AppendProperties
<1>4. \A i \in 1..Len(g) : i = Len(g) \/ i \in 1..Len(frames)
  BY <1>1, <1>3
<1>5. Len(g) <= p.max
  BY <1>1, <1>3
<1>6. \A i \in 1..Len(g) : g[i] \in 1..n /\ recording[g[i]].decodes /\ WindowHas(g[i], p)
  <2>1. \A m \in 1..(n - 1) : m \in 1..n
    BY <1>1
  <2>2. n \in 1..n
    BY <1>1
  <2> QED
    BY <1>3, <1>4, <2>1, <2>2 DEF Sampled
<1>7. ASSUME NEW i \in 2..Len(g) PROVE Spaced(g[i - 1], g[i], p)
  <2>1. i - 1 \in 1..Len(frames)
    BY <1>1, <1>3
  <2>2. CASE i = Len(g)
    <3>1. i - 1 = Len(frames) /\ frames # << >> /\ g[i] = n /\ g[i - 1] = frames[i - 1]
      BY <1>1, <1>3, <2>1, <2>2
    <3> QED
      BY <3>1
  <2>3. CASE i # Len(g)
    <3>1. i \in 2..Len(frames)
      BY <1>1, <1>3, <2>3
    <3>2. i \in 1..Len(frames)
      BY <1>1, <3>1
    <3> QED
      BY <1>3, <2>1, <3>1, <3>2 DEF Sampled
  <2> QED
    BY <2>2, <2>3
<1>8. ASSUME NEW m \in 1..n, recording[m].decodes, WindowHas(m, p)
      PROVE  \E i \in 1..Len(g) :
               \/ Offset(g[i]) = Offset(m)
               \/ Offset(g[i]) < Offset(m) /\ ~Spaced(g[i], m, p)
  <2>1. Len(g) \in 1..Len(g) /\ \A i \in 1..Len(frames) : i \in 1..Len(g)
    BY <1>1, <1>3
  <2>2. CASE m = n
    BY <1>3, <2>1, <2>2
  <2>3. CASE m # n
    <3>1. m \in 1..(n - 1)
      BY <1>1, <2>3
    <3> QED
      BY <1>3, <1>8, <2>1, <3>1 DEF Sampled
  <2> QED
    BY <2>2, <2>3
<1> QED
  BY <1>2, <1>5, <1>6, <1>7, <1>8 DEF Sampled

(* Nothing but the recording decides what is sampled.                        *)
LEMMA RecordingStays ==
  ASSUME UNCHANGED recording, NEW dir
  PROVE  /\ \A e : FilesFollow(e, dir)' <=> FilesFollow(e, dir)
         /\ DirectoryTells(dir)' <=> DirectoryTells(dir)
<1>1. \A p : Interval(p)' = Interval(p) /\ EffectiveEnd(p)' = EffectiveEnd(p)
  BY DEF Interval, EffectiveEnd, Duration
<1>2. \A m : Offset(m)' = Offset(m)
  BY DEF Offset
<1>3. /\ \A m, p : WindowHas(m, p)' <=> WindowHas(m, p)
      /\ \A m, k, p : Spaced(m, k, p)' <=> Spaced(m, k, p)
  BY <1>1, <1>2 DEF WindowHas, Spaced
<1>4. ASSUME NEW n, NEW f, NEW p PROVE Sampled(n, f, p)' <=> Sampled(n, f, p)
  BY <1>2, <1>3 DEF Sampled
<1>5. ASSUME NEW n, NEW f PROVE Listing(dir, n, f)' <=> Listing(dir, n, f)
  BY <1>3, <1>4 DEF Listing
<1> QED
  BY <1>3, <1>4, <1>5 DEF FilesFollow, DirectoryTells

(* A step that makes one directory what it says                              *)
LEMMA DirectoryStep ==
  ASSUME ExtractionInv, UNCHANGED recording,
         NEW d \in Datasets, NEW dir \in FrameDirectory, DirectoryTells(dir),
         store' = [store EXCEPT ![d] = dir],
         \/ extraction' = NoExtraction
         \/ extraction' \in RunningExtraction /\ extraction'.dataset = d
            /\ \E e : e = extraction' /\ FilesFollow(e, dir)
  PROVE  ExtractionInv'
<1>1. ExtractionTypeOK' /\ store'[d] = dir
  BY DEF ExtractionInv, ExtractionTypeOK
<1>2. ManifestsTell'
  <2>1. SUFFICES ASSUME NEW o \in Datasets PROVE DirectoryTells(store[o])'
    BY DEF ManifestsTell
  <2>2. PICK now : now = store'[o]
    OBVIOUS
  <2>3. DirectoryTells(now)
    BY <1>1, <2>2 DEF ExtractionInv, ExtractionTypeOK, ManifestsTell
  <2>4. DirectoryTells(now)'
    BY <2>3, RecordingStays
  <2> QED
    BY <2>2, <2>4
<1>3. ExtractionGoesOn'
  <2>1. CASE extraction' = NoExtraction
    BY <2>1 DEF ExtractionGoesOn, NoExtraction
  <2>2. CASE extraction' # NoExtraction
    <3>1. PICK e : e = extraction' /\ FilesFollow(e, dir) /\ e.dataset = d
      BY <2>2
    <3>2. FilesFollow(e, dir)'
      BY <3>1, RecordingStays
    <3> QED
      BY <1>1, <3>1, <3>2 DEF ExtractionGoesOn
  <2> QED
    BY <2>1, <2>2
<1> QED
  BY <1>1, <1>2, <1>3 DEF ExtractionInv

(* The parts of a script that runs                                           *)
LEMMA ScriptRuns ==
  ASSUME ExtractionInv, extraction # NoExtraction
  PROVE  \E e \in RunningExtraction, dir \in FrameDirectory :
           /\ e = extraction /\ dir = store[e.dataset] /\ FilesFollow(e, dir)
           /\ e.pc \in {"read", "write"} /\ e.dataset \in Datasets /\ e.next \in Nat \ {0}
           /\ e.frames \in Seq(Nat) /\ Len(e.frames) \in Nat
           /\ dir.asked \in Parameters /\ dir.images \in Seq(Nat) /\ dir.manifest = NoManifest
           /\ Asked = dir.asked
           /\ recording \in Recordings
<1>1. /\ extraction \in RunningExtraction
      /\ FilesFollow(extraction, store[extraction.dataset])
      /\ recording \in Recordings
  BY DEF ExtractionInv, ExtractionTypeOK, ExtractionGoesOn
<1>2. PICK e \in RunningExtraction, dir \in FrameDirectory :
        e = extraction /\ dir = store[e.dataset]
  BY <1>1 DEF FilesFollow
<1>3. FilesFollow(e, dir) /\ dir.manifest = NoManifest /\ Asked = dir.asked
  BY <1>1, <1>2 DEF FilesFollow, Asked
<1>4. /\ e.pc \in {"read", "write"} /\ e.dataset \in Datasets /\ e.next \in Nat \ {0}
      /\ e.frames \in Seq(Nat)
  BY DEF RunningExtraction
<1>5. dir.asked \in Parameters /\ dir.images \in Seq(Nat)
  BY DEF FrameDirectory
<1>6. Len(e.frames) \in Nat
  BY <1>4
<1> QED
  BY <1>1, <1>2, <1>3, <1>4, <1>5, <1>6

(* What the script decides of the next message                               *)
LEMMA NextIsDecided ==
  ASSUME ExtractionInv, NEW n \in 1..Len(recording), n = extraction.next,
         NEW frames, frames = extraction.frames, NEW p \in Parameters, p = Asked
  PROVE  /\ PastEnd => \A m \in n..Len(recording) : ~WindowHas(m, p)
         /\ ~PastEnd /\ Due =>
              WindowHas(n, p) /\ (frames # << >> => Spaced(frames[Len(frames)], n, p))
         /\ ~PastEnd /\ ~Due =>
              (WindowHas(n, p) => frames # << >> /\ ~Spaced(frames[Len(frames)], n, p))
<1>1. /\ Len(recording) \in Nat
      /\ \A m \in 1..Len(recording) : Offset(m) \in Int
      /\ \A m, k \in 1..Len(recording) : m <= k => Offset(m) <= Offset(k)
  BY OffsetsInOrder DEF ExtractionInv, ExtractionTypeOK
<1>2. /\ p.start \in Nat /\ EffectiveEnd(p) \in Nat \cup {Default}
  <2>1. recording \in Recordings /\ Len(recording) > 0
    BY <1>1 DEF ExtractionInv, ExtractionTypeOK
  <2> QED
    BY <2>1, IntervalIsInt
<1>3. PastEnd => \A m \in n..Len(recording) : ~WindowHas(m, p)
  <2> SUFFICES ASSUME PastEnd, NEW m \in n..Len(recording) PROVE ~WindowHas(m, p)
    OBVIOUS
  <2>1. EffectiveEnd(p) # Default /\ Offset(n) > EffectiveEnd(p)
    BY DEF PastEnd
  <2>2. m \in 1..Len(recording) /\ n <= m
    BY <1>1
  <2>3. PICK x \in Int, y \in Int, z \in Nat : x = Offset(n) /\ y = Offset(m) /\ z = EffectiveEnd(p)
    BY <1>1, <1>2, <2>1, <2>2
  <2>4. x <= y /\ x > z
    BY <1>1, <2>1, <2>2, <2>3
  <2>5. ~(y <= z)
    BY <2>4
  <2> QED
    BY <2>1, <2>3, <2>5 DEF WindowHas
<1>4. ~PastEnd /\ Offset(n) >= p.start => WindowHas(n, p)
  <2> SUFFICES ASSUME ~PastEnd, Offset(n) >= p.start PROVE WindowHas(n, p)
    OBVIOUS
  <2>1. CASE EffectiveEnd(p) = Default
    BY <2>1 DEF WindowHas
  <2>2. CASE EffectiveEnd(p) # Default
    <3>1. ~(Offset(n) > EffectiveEnd(p))
      BY <2>2 DEF PastEnd
    <3>2. Offset(n) <= EffectiveEnd(p)
      BY <1>1, <1>2, <2>2, <3>1
    <3> QED
      BY <3>2 DEF WindowHas
  <2> QED
    BY <2>1, <2>2
<1>5. Due <=> /\ Offset(n) >= p.start
              /\ frames # << >> => Spaced(frames[Len(frames)], n, p)
  BY DEF Due, LastSampled, Spaced
<1> QED
  BY <1>3, <1>4, <1>5 DEF WindowHas

LEMMA StartExtractionKeeps ==
  ASSUME ExtractionInv, NEW d \in Datasets, NEW p \in Parameters, StartExtraction(d, p)
  PROVE  ExtractionInv'
<1>1. PICK dir, e :
        /\ dir = [made |-> TRUE, asked |-> p, images |-> << >>, manifest |-> NoManifest]
        /\ e = [pc |-> "read", dataset |-> d, next |-> 1, frames |-> << >>]
  OBVIOUS
<1>2. << >> \in Seq(Nat) /\ Len(<< >>) = 0
  OBVIOUS
<1>3. dir \in FrameDirectory /\ e \in RunningExtraction /\ e.dataset = d
  BY <1>1, <1>2 DEF FrameDirectory, RunningExtraction
<1>4. DirectoryTells(dir)
  BY <1>1 DEF DirectoryTells, NoManifest
<1>5. Len(recording) \in Nat /\ p.max \in Nat
  BY OffsetsInOrder, ExtractionAssumption DEF ExtractionInv, ExtractionTypeOK
<1>6. Sampled(0, << >>, p)
  BY <1>2, <1>5 DEF Sampled
<1>7. /\ dir.manifest = NoManifest /\ dir.asked = p /\ dir.images = << >>
      /\ e.next - 1 = 0 /\ e.frames = << >> /\ e.pc = "read"
  BY <1>1
<1>8. FilesFollow(e, dir)
  BY <1>3, <1>5, <1>6, <1>7 DEF FilesFollow
<1> QED
  BY <1>1, <1>3, <1>4, <1>8, DirectoryStep DEF StartExtraction

LEMMA SkipKeeps ==
  ASSUME ExtractionInv, Skip
  PROVE  ExtractionInv'
<1>1. extraction # NoExtraction
  BY DEF Skip, Reading, NoExtraction
<1>2. PICK e \in RunningExtraction, dir \in FrameDirectory :
        /\ e = extraction /\ dir = store[e.dataset] /\ FilesFollow(e, dir)
        /\ e.pc \in {"read", "write"} /\ e.dataset \in Datasets /\ e.next \in Nat \ {0}
        /\ e.frames \in Seq(Nat) /\ Len(e.frames) \in Nat
        /\ dir.asked \in Parameters /\ dir.images \in Seq(Nat) /\ dir.manifest = NoManifest
        /\ Asked = dir.asked
        /\ recording \in Recordings
  BY <1>1, ScriptRuns
<1>3. e.pc = "read" /\ e.next <= Len(recording) /\ Len(recording) \in Nat
  BY <1>2, OffsetsInOrder DEF Skip, Reading
<1>4. e.next \in 1..Len(recording)
  BY <1>2, <1>3
<1>5. recording[e.next].decodes /\ WindowHas(e.next, dir.asked) =>
        e.frames # << >> /\ ~Spaced(e.frames[Len(e.frames)], e.next, dir.asked)
  BY <1>2, <1>4, NextIsDecided DEF Skip
<1>6. Sampled(e.next, e.frames, dir.asked)
  <2>1. Sampled(e.next - 1, e.frames, dir.asked)
    BY <1>2 DEF FilesFollow
  <2> QED
    BY <1>2, <1>4, <1>5, <2>1, SkippedIsSampled
<1>7. PICK f : f = [pc |-> e.pc, dataset |-> e.dataset, next |-> e.next + 1, frames |-> e.frames]
  OBVIOUS
<1>8. extraction' = f /\ f \in RunningExtraction /\ f.dataset = e.dataset
  BY <1>2, <1>7 DEF Skip, RunningExtraction
<1>9. FilesFollow(f, dir)
  <2>1. f.next - 1 = e.next /\ f.frames = e.frames /\ f.pc = "read"
    BY <1>2, <1>3, <1>7
  <2>2. dir.images = e.frames
    BY <1>2, <1>3 DEF FilesFollow
  <2>3. e.next \in 0..Len(recording)
    BY <1>4
  <2> QED
    BY <1>2, <1>6, <2>1, <2>2, <2>3 DEF FilesFollow
<1>10. store' = [store EXCEPT ![e.dataset] = dir]
  BY <1>2 DEF Skip, ExtractionInv, ExtractionTypeOK
<1>11. DirectoryTells(dir)
  BY <1>2 DEF DirectoryTells, NoManifest
<1> QED
  BY <1>2, <1>8, <1>9, <1>10, <1>11, DirectoryStep DEF Skip

LEMMA PutNext ==
  ASSUME NEW before \in Seq(Nat), NEW content \in Nat, NEW n, n = Len(before) + 1
  PROVE  /\ Put(before, n, content) \in Seq(Nat)
         /\ Len(Put(before, n, content)) = n
         /\ \A i \in 1..Len(before) : Put(before, n, content)[i] = before[i]
<1>1. Len(before) \in Nat /\ n > Len(before) /\ n \in Nat
  OBVIOUS
<1>2. Put(before, n, content) =
        [i \in 1..n |-> IF i = n THEN content ELSE IF i \in DOMAIN before THEN before[i] ELSE Partial]
  BY <1>1 DEF Put
<1>3. \A i \in 1..n : (IF i = n THEN content
                       ELSE IF i \in DOMAIN before THEN before[i] ELSE Partial) \in Nat
  BY DEF Partial
<1> QED
  BY <1>1, <1>2, <1>3, SMTT(30)

LEMMA PutLast ==
  ASSUME NEW before \in Seq(Nat), NEW content \in Nat, before # << >>
  PROVE  LET n == Len(before) IN
         /\ Put(before, n, content) \in Seq(Nat)
         /\ Len(Put(before, n, content)) = n
         /\ Put(before, n, content)[n] = content
         /\ \A i \in 1..(n - 1) : Put(before, n, content)[i] = before[i]
<1>1. PICK n \in Nat : n = Len(before) /\ n > 0 /\ ~(n > Len(before))
  OBVIOUS
<1>2. Put(before, n, content) =
        [i \in 1..n |-> IF i = n THEN content ELSE IF i \in DOMAIN before THEN before[i] ELSE Partial]
  BY <1>1 DEF Put
<1>3. \A i \in 1..n : (IF i = n THEN content
                       ELSE IF i \in DOMAIN before THEN before[i] ELSE Partial) \in Nat
  BY DEF Partial
<1>4. /\ Put(before, n, content) \in Seq(Nat)
      /\ Len(Put(before, n, content)) = n
      /\ Put(before, n, content)[n] = content
      /\ \A i \in 1..(n - 1) : Put(before, n, content)[i] = before[i]
  BY <1>1, <1>2, <1>3
<1> QED
  BY <1>1, <1>4

LEMMA FileChanged ==
  ASSUME NEW dir \in FrameDirectory, NEW files \in Seq(Nat),
         NEW now, now = [dir EXCEPT !.images = files]
  PROVE  /\ now \in FrameDirectory /\ now.images = files /\ now.asked = dir.asked
         /\ now.manifest = dir.manifest
  BY DEF FrameDirectory

LEMMA OpenImageKeeps ==
  ASSUME ExtractionInv, OpenImage
  PROVE  ExtractionInv'
<1>1. extraction # NoExtraction
  BY DEF OpenImage, Reading, NoExtraction
<1>2. PICK e \in RunningExtraction, dir \in FrameDirectory :
        /\ e = extraction /\ dir = store[e.dataset] /\ FilesFollow(e, dir)
        /\ e.pc \in {"read", "write"} /\ e.dataset \in Datasets /\ e.next \in Nat \ {0}
        /\ e.frames \in Seq(Nat) /\ Len(e.frames) \in Nat
        /\ dir.asked \in Parameters /\ dir.images \in Seq(Nat) /\ dir.manifest = NoManifest
        /\ Asked = dir.asked
        /\ recording \in Recordings
  BY <1>1, ScriptRuns
<1>3. /\ e.pc = "read" /\ e.next <= Len(recording) /\ Len(recording) \in Nat
      /\ Len(e.frames) < dir.asked.max /\ recording[e.next].decodes
  BY <1>2, OffsetsInOrder DEF OpenImage, Reading
<1>4. e.next \in 1..Len(recording)
  BY <1>2, <1>3
<1>5. /\ WindowHas(e.next, dir.asked)
      /\ e.frames # << >> => Spaced(e.frames[Len(e.frames)], e.next, dir.asked)
  BY <1>2, <1>4, NextIsDecided DEF OpenImage
<1>6. dir.images = e.frames
  BY <1>2, <1>3 DEF FilesFollow
<1>7. PICK now \in Seq(Nat) :
        /\ now = Put(e.frames, Number, Partial) /\ Len(now) = Len(e.frames) + 1
        /\ \A i \in 1..Len(e.frames) : now[i] = e.frames[i]
  <2>1. PICK before \in Seq(Nat), content \in Nat : before = e.frames /\ content = Partial
    BY <1>2 DEF Partial
  <2>2. PICK k : k = Len(before) + 1
    OBVIOUS
  <2>3. /\ Put(before, k, content) \in Seq(Nat)
        /\ Len(Put(before, k, content)) = k
        /\ \A i \in 1..Len(before) : Put(before, k, content)[i] = before[i]
    BY <2>2, PutNext
  <2>4. Number = k
    BY <1>2, <2>1, <2>2 DEF Number
  <2> QED
    BY <2>1, <2>2, <2>3, <2>4
<1>8. PICK f, file :
        f = [e EXCEPT !.pc = "write"] /\ file = [dir EXCEPT !.images = now]
  OBVIOUS
<1>9. /\ extraction' = f /\ f \in RunningExtraction /\ f.dataset = e.dataset
      /\ f.pc = "write" /\ f.next = e.next /\ f.frames = e.frames
  BY <1>2, <1>8 DEF OpenImage, RunningExtraction
<1>10. /\ file \in FrameDirectory /\ file.images = now /\ file.asked = dir.asked
       /\ file.manifest = NoManifest
  <2>1. /\ file \in FrameDirectory /\ file.images = now /\ file.asked = dir.asked
        /\ file.manifest = dir.manifest
    BY <1>8, FileChanged
  <2> QED
    BY <1>2, <2>1
<1>11. store' = [store EXCEPT ![e.dataset] = file]
  BY <1>2, <1>6, <1>7, <1>8 DEF OpenImage, ExtractionInv, ExtractionTypeOK
<1>12. FilesFollow(f, file)
  BY <1>2, <1>3, <1>5, <1>7, <1>9, <1>10 DEF FilesFollow
<1>13. DirectoryTells(file)
  BY <1>10 DEF DirectoryTells, NoManifest
<1>14. UNCHANGED recording
  BY DEF OpenImage
<1> QED
  BY <1>2, <1>9, <1>10, <1>11, <1>12, <1>13, <1>14, DirectoryStep

LEMMA WriteImageKeeps ==
  ASSUME ExtractionInv, WriteImage
  PROVE  ExtractionInv'
<1>1. extraction # NoExtraction
  BY DEF WriteImage, NoExtraction
<1>2. PICK e \in RunningExtraction, dir \in FrameDirectory :
        /\ e = extraction /\ dir = store[e.dataset] /\ FilesFollow(e, dir)
        /\ e.pc \in {"read", "write"} /\ e.dataset \in Datasets /\ e.next \in Nat \ {0}
        /\ e.frames \in Seq(Nat) /\ Len(e.frames) \in Nat
        /\ dir.asked \in Parameters /\ dir.images \in Seq(Nat) /\ dir.manifest = NoManifest
        /\ Asked = dir.asked
        /\ recording \in Recordings
  BY <1>1, ScriptRuns
<1>3. e.pc = "write"
  BY <1>2 DEF WriteImage
<1>4. /\ e.next <= Len(recording) /\ Len(e.frames) < dir.asked.max
      /\ recording[e.next].decodes /\ WindowHas(e.next, dir.asked)
      /\ e.frames # << >> => Spaced(e.frames[Len(e.frames)], e.next, dir.asked)
      /\ Len(dir.images) = Len(e.frames) + 1
      /\ \A i \in 1..Len(e.frames) : dir.images[i] = e.frames[i]
      /\ Sampled(e.next - 1, e.frames, dir.asked)
  BY <1>2, <1>3 DEF FilesFollow
<1>5. e.next \in 1..Len(recording) /\ Len(recording) \in Nat
  BY <1>2, <1>4, OffsetsInOrder
<1>6. PICK g \in Seq(Nat) : g = Append(e.frames, e.next)
  BY <1>2, AppendProperties
<1>7. Sampled(e.next, g, dir.asked)
  BY <1>2, <1>4, <1>5, <1>6, AppendedIsSampled
<1>8. g = Put(dir.images, Number, e.next)
  <2>1. PICK before \in Seq(Nat), content \in Nat : before = dir.images /\ content = e.next
    BY <1>2
  <2>2. PICK k \in Nat : k = Number /\ k = Len(before) /\ k > 0
    BY <1>2, <1>4, <2>1 DEF Number
  <2>3. PICK now \in Seq(Nat) :
          /\ now = Put(before, k, content) /\ Len(now) = k /\ now[k] = content
          /\ \A i \in 1..(k - 1) : now[i] = before[i]
    <3>1. before # << >>
      BY <2>2
    <3>2. /\ Put(before, Len(before), content) \in Seq(Nat)
          /\ Len(Put(before, Len(before), content)) = Len(before)
          /\ Put(before, Len(before), content)[Len(before)] = content
          /\ \A i \in 1..(Len(before) - 1) :
               Put(before, Len(before), content)[i] = before[i]
      BY <3>1, PutLast
    <3> QED
      BY <2>2, <3>2
  <2>4. /\ Len(g) = k /\ g[k] = content
        /\ \A i \in 1..(k - 1) : g[i] = before[i]
    <3>1. Len(e.frames) = k - 1
      BY <1>2, <1>4, <2>1, <2>2
    <3>2. /\ Len(g) = Len(e.frames) + 1 /\ g[Len(e.frames) + 1] = e.next
          /\ \A i \in 1..Len(e.frames) : g[i] = e.frames[i]
      BY <1>2, <1>6, AppendProperties
    <3> QED
      BY <1>2, <1>4, <2>1, <2>2, <3>1, <3>2
  <2>5. \A i \in 1..k : g[i] = now[i]
    <3>1. \A i \in 1..k : i = k \/ i \in 1..(k - 1)
      OBVIOUS
    <3> QED
      BY <2>3, <2>4, <3>1
  <2>6. g = now
    BY <2>3, <2>4, <2>5, SeqEqual
  <2> QED
    BY <2>1, <2>2, <2>3, <2>6
<1>9. PICK n \in Nat \ {0} : n = e.next + 1
  BY <1>2
<1>10. PICK f, file :
         /\ f = [e EXCEPT !.pc = "read", !.frames = g, !.next = n]
         /\ file = [dir EXCEPT !.images = g]
  OBVIOUS
<1>11. /\ f \in RunningExtraction /\ f.dataset = e.dataset
       /\ f.pc = "read" /\ f.next = n /\ f.frames = g
  BY <1>10 DEF RunningExtraction
<1>12. extraction' = f
  BY <1>2, <1>6, <1>9, <1>10 DEF WriteImage
<1>13. /\ file \in FrameDirectory /\ file.images = g /\ file.asked = dir.asked
       /\ file.manifest = NoManifest
  <2>1. /\ file \in FrameDirectory /\ file.images = g /\ file.asked = dir.asked
        /\ file.manifest = dir.manifest
    BY <1>10, FileChanged
  <2> QED
    BY <1>2, <2>1
<1>14. store' = [store EXCEPT ![e.dataset] = file]
  BY <1>2, <1>8, <1>10 DEF WriteImage, ExtractionInv, ExtractionTypeOK
<1>15. FilesFollow(f, file)
  <2>1. f.next - 1 = e.next /\ e.next \in 0..Len(recording)
    BY <1>2, <1>5, <1>9, <1>11
  <2> QED
    BY <1>7, <1>11, <1>13, <2>1 DEF FilesFollow
<1>16. DirectoryTells(file)
  BY <1>13 DEF DirectoryTells, NoManifest
<1>17. UNCHANGED recording
  BY DEF WriteImage
<1> QED
  BY <1>2, <1>11, <1>12, <1>13, <1>14, <1>15, <1>16, <1>17, DirectoryStep

(* All that could be asked for was among the messages that were read.        *)
LEMMA PutManifestKeeps ==
  ASSUME ExtractionInv, PutManifest
  PROVE  ExtractionInv'
<1>1. extraction # NoExtraction
  BY DEF PutManifest, NoExtraction
<1>2. PICK e \in RunningExtraction, dir \in FrameDirectory :
        /\ e = extraction /\ dir = store[e.dataset] /\ FilesFollow(e, dir)
        /\ e.pc \in {"read", "write"} /\ e.dataset \in Datasets /\ e.next \in Nat \ {0}
        /\ e.frames \in Seq(Nat) /\ Len(e.frames) \in Nat
        /\ dir.asked \in Parameters /\ dir.images \in Seq(Nat) /\ dir.manifest = NoManifest
        /\ Asked = dir.asked
        /\ recording \in Recordings
  BY <1>1, ScriptRuns
<1>3. e.pc = "read" /\ Len(recording) \in Nat
  BY <1>2, OffsetsInOrder DEF PutManifest
<1>4. PICK n \in 0..Len(recording) :
        /\ n = e.next - 1 /\ Sampled(n, e.frames, dir.asked) /\ dir.images = e.frames
  BY <1>2, <1>3 DEF FilesFollow
<1>5. PICK stamps : stamps = [i \in DOMAIN e.frames |-> recording[e.frames[i]].at]
  OBVIOUS
<1>6. /\ stamps \in Seq(Nat) /\ Len(stamps) = Len(e.frames)
      /\ \A i \in 1..Len(e.frames) : stamps[i] = recording[e.frames[i]].at
  <2>1. \A i \in 1..Len(e.frames) : e.frames[i] \in 1..n
    BY <1>4 DEF Sampled
  <2>2. \A m \in 1..n : m \in 1..Len(recording)
    BY <1>3
  <2>3. \A i \in 1..Len(e.frames) : recording[e.frames[i]].at \in Nat
    BY <1>2, <2>1, <2>2, OffsetsInOrder
  <2>4. DOMAIN e.frames = 1..Len(e.frames)
    BY <1>2
  <2> QED
    BY <1>2, <1>5, <2>3, <2>4
<1>7. Len(e.frames) < dir.asked.max => \A m \in (n + 1)..Len(recording) : ~WindowHas(m, dir.asked)
  <2> SUFFICES ASSUME Len(e.frames) < dir.asked.max, NEW m \in (n + 1)..Len(recording)
               PROVE  ~WindowHas(m, dir.asked)
    OBVIOUS
  <2>1. e.next \in 1..Len(recording) /\ e.next <= Len(recording) /\ m \in e.next..Len(recording)
    BY <1>2, <1>3, <1>4
  <2>2. Reading
    BY <1>2, <1>3, <2>1 DEF Reading
  <2> QED
    BY <1>2, <2>1, <2>2, NextIsDecided DEF PutManifest
<1>8. PICK manifest, file :
        /\ manifest = [listed |-> TRUE, stamps |-> stamps]
        /\ file = [dir EXCEPT !.manifest = manifest]
  OBVIOUS
<1>9. /\ file \in FrameDirectory /\ file.images = dir.images /\ file.asked = dir.asked
      /\ file.manifest = manifest
  <2>1. manifest \in [listed : {TRUE}, stamps : Seq(Nat)]
    BY <1>6, <1>8
  <2> QED
    BY <1>8, <2>1 DEF FrameDirectory
<1>10. Listing(file, n, e.frames)
  <2>1. file.manifest.stamps = stamps
    BY <1>8, <1>9
  <2> QED
    BY <1>4, <1>6, <1>7, <1>9, <2>1 DEF Listing
<1>11. DirectoryTells(file)
  BY <1>2, <1>10 DEF DirectoryTells
<1>12. store' = [store EXCEPT ![e.dataset] = file]
  BY <1>2, <1>5, <1>8 DEF PutManifest, ExtractionInv, ExtractionTypeOK
<1>13. UNCHANGED recording /\ extraction' = NoExtraction
  BY DEF PutManifest
<1> QED
  BY <1>2, <1>9, <1>11, <1>12, <1>13, DirectoryStep

LEMMA ExtractionEndsKeeps ==
  ASSUME ExtractionInv, ExtractionEnds
  PROVE  ExtractionInv'
<1>1. extraction # NoExtraction
  BY DEF ExtractionEnds
<1>2. PICK e \in RunningExtraction, dir \in FrameDirectory :
        /\ e = extraction /\ dir = store[e.dataset] /\ FilesFollow(e, dir)
        /\ e.pc \in {"read", "write"} /\ e.dataset \in Datasets /\ e.next \in Nat \ {0}
        /\ e.frames \in Seq(Nat) /\ Len(e.frames) \in Nat
        /\ dir.asked \in Parameters /\ dir.images \in Seq(Nat) /\ dir.manifest = NoManifest
        /\ Asked = dir.asked
        /\ recording \in Recordings
  BY <1>1, ScriptRuns
<1>3. DirectoryTells(dir)
  BY <1>2 DEF DirectoryTells, NoManifest
<1>4. store' = [store EXCEPT ![e.dataset] = dir]
  BY <1>2 DEF ExtractionEnds, ExtractionInv, ExtractionTypeOK
<1>5. UNCHANGED recording /\ extraction' = NoExtraction
  BY DEF ExtractionEnds
<1> QED
  BY <1>2, <1>3, <1>4, <1>5, DirectoryStep

LEMMA ExtractionStepInv == ExtractionInv /\ [ExtractionNext]_extractionVars => ExtractionInv'
<1> SUFFICES ASSUME ExtractionInv, [ExtractionNext]_extractionVars PROVE ExtractionInv'
  OBVIOUS
<1>1. CASE UNCHANGED extractionVars
  <2>1. UNCHANGED <<recording, store, extraction>>
    BY <1>1 DEF extractionVars
  <2>2. ExtractionTypeOK'
    BY <2>1 DEF ExtractionInv, ExtractionTypeOK
  <2>3. ManifestsTell'
    <3>1. SUFFICES ASSUME NEW d \in Datasets PROVE DirectoryTells(store[d])'
      BY DEF ManifestsTell
    <3>2. PICK dir : dir = store[d]
      OBVIOUS
    <3>3. DirectoryTells(dir)'
      BY <2>1, <3>2, RecordingStays DEF ExtractionInv, ManifestsTell
    <3> QED
      BY <2>1, <3>2, <3>3
  <2>4. ExtractionGoesOn'
    <3>1. PICK e, dir : e = extraction /\ dir = store[extraction.dataset]
      OBVIOUS
    <3>2. e # NoExtraction => FilesFollow(e, dir)'
      BY <2>1, <3>1, RecordingStays DEF ExtractionInv, ExtractionGoesOn
    <3> QED
      BY <2>1, <3>1, <3>2 DEF ExtractionGoesOn, NoExtraction
  <2> QED
    BY <2>2, <2>3, <2>4 DEF ExtractionInv
<1>2. CASE \E d \in Datasets, p \in Parameters : StartExtraction(d, p)
  BY <1>2, StartExtractionKeeps
<1> QED
  BY <1>1, <1>2, SkipKeeps, OpenImageKeeps, WriteImageKeeps, PutManifestKeeps, ExtractionEndsKeeps
     DEF ExtractionNext

LEMMA ManifestsAreTrue == ExtractionInv => ManifestTellsFrames
<1> SUFFICES ASSUME ExtractionInv PROVE ManifestTellsFrames
  OBVIOUS
<1>1. ASSUME NEW d \in Datasets, Listed(d)
      PROVE  \E n \in 0..Len(recording), frames \in Seq(Nat) : Listing(store[d], n, frames)
  BY <1>1 DEF ExtractionInv, ManifestsTell, DirectoryTells, Listed
<1>2. ASSUME NEW d \in Datasets, Listed(d)
      PROVE  store[d].asked \in Parameters /\ store[d].manifest.stamps \in Seq(Nat)
  <2>1. PICK dir \in FrameDirectory : dir = store[d] /\ dir.manifest # NoManifest
    BY <1>2 DEF ExtractionInv, ExtractionTypeOK, Listed, NoDirectory, NoManifest
  <2>2. dir.asked \in Parameters /\ dir.manifest \in [listed : {TRUE}, stamps : Seq(Nat)]
    BY <2>1 DEF FrameDirectory
  <2> QED
    BY <2>1, <2>2
<1>3. ManifestTellsFiles
  <2>1. SUFFICES ASSUME NEW d \in Datasets, Listed(d), NEW i \in DOMAIN store[d].manifest.stamps
                 PROVE  /\ FrameOf(d, i) \in DOMAIN recording
                        /\ recording[FrameOf(d, i)].decodes
                        /\ recording[FrameOf(d, i)].at = store[d].manifest.stamps[i]
    BY DEF ManifestTellsFiles
  <2>2. PICK n \in 0..Len(recording), frames \in Seq(Nat) : Listing(store[d], n, frames)
    BY <1>1, <2>1
  <2>3. i \in 1..Len(frames) /\ store[d].images = frames /\ i \in DOMAIN frames
    BY <1>2, <2>1, <2>2 DEF Listing
  <2>4. FrameOf(d, i) = frames[i]
    BY <2>1, <2>3 DEF FrameOf
  <2>5. frames[i] \in 1..n /\ recording[frames[i]].decodes
    BY <2>2, <2>3 DEF Listing, Sampled
  <2>6. frames[i] \in DOMAIN recording
    <3>1. recording \in Seq([at : Nat, decodes : BOOLEAN])
      BY ExtractionAssumption DEF ExtractionInv, ExtractionTypeOK
    <3>2. DOMAIN recording = 1..Len(recording) /\ Len(recording) \in Nat
      BY <3>1
    <3>3. \A m \in 1..n : m \in 1..Len(recording)
      BY <3>2
    <3> QED
      BY <2>5, <3>2, <3>3
  <2> QED
    BY <2>2, <2>3, <2>4, <2>5, <2>6 DEF Listing
<1>4. FramesAreSampled
  <2> SUFFICES ASSUME NEW d \in Datasets, Listed(d)
               PROVE  LET p == store[d].asked
                          taken == [i \in DOMAIN store[d].manifest.stamps |->
                                      store[d].manifest.stamps[i] - recording[1].at]
                          InWindow(t) ==
                            t >= p.start /\ (EffectiveEnd(p) # Default => t <= EffectiveEnd(p))
                      IN  /\ Len(taken) <= p.max
                          /\ \A i \in DOMAIN taken : InWindow(taken[i])
                          /\ \A i \in 2..Len(taken) : taken[i] - taken[i - 1] >= Interval(p)
                          /\ Len(taken) < p.max =>
                               \A m \in DOMAIN recording :
                                 recording[m].decodes /\ InWindow(Offset(m)) =>
                                   \E i \in DOMAIN taken :
                                     \/ taken[i] = Offset(m)
                                     \/ taken[i] < Offset(m) /\ Offset(m) - taken[i] < Interval(p)
    BY DEF FramesAreSampled
  <2>1. PICK p \in Parameters, stamps \in Seq(Nat) :
          p = store[d].asked /\ stamps = store[d].manifest.stamps
    BY <1>2
  <2>2. PICK n \in 0..Len(recording), frames \in Seq(Nat) : Listing(store[d], n, frames)
    BY <1>1
  <2>3. PICK taken : taken = [i \in DOMAIN stamps |-> stamps[i] - recording[1].at]
    OBVIOUS
  <2>4. Len(stamps) = Len(frames) /\ Len(frames) \in Nat /\ DOMAIN stamps = 1..Len(frames)
    BY <2>1, <2>2 DEF Listing
  <2>5. /\ DOMAIN taken = 1..Len(frames) /\ Len(taken) = Len(frames)
        /\ \A i \in 1..Len(frames) : taken[i] = Offset(frames[i])
    BY <2>1, <2>2, <2>3, <2>4 DEF Listing, Offset
  <2>6. Sampled(n, frames, p)
    BY <2>1, <2>2 DEF Listing
  <2>7. /\ Len(recording) \in Nat /\ DOMAIN recording = 1..Len(recording)
        /\ \A m \in 1..Len(recording) : Offset(m) \in Int
    <3>1. recording \in Seq([at : Nat, decodes : BOOLEAN])
      BY ExtractionAssumption DEF ExtractionInv, ExtractionTypeOK
    <3>2. recording \in Recordings
      BY DEF ExtractionInv, ExtractionTypeOK
    <3> QED
      BY <3>1, <3>2, OffsetsInOrder
  <2>8. Len(taken) <= p.max
    BY <2>5, <2>6 DEF Sampled
  <2>9. ASSUME NEW i \in 1..Len(frames)
        PROVE  /\ taken[i] >= p.start
               /\ EffectiveEnd(p) # Default => taken[i] <= EffectiveEnd(p)
    BY <2>5, <2>6 DEF Sampled, WindowHas
  <2>10. ASSUME NEW i \in 2..Len(frames) PROVE taken[i] - taken[i - 1] >= Interval(p)
    <3>1. i \in 1..Len(frames) /\ i - 1 \in 1..Len(frames)
      BY <2>4
    <3>2. Spaced(frames[i - 1], frames[i], p)
      BY <2>6 DEF Sampled
    <3> QED
      BY <2>5, <3>1, <3>2 DEF Spaced
  <2>11. ASSUME Len(taken) < p.max, NEW m \in 1..Len(recording), recording[m].decodes,
                Offset(m) >= p.start,
                EffectiveEnd(p) # Default => Offset(m) <= EffectiveEnd(p)
         PROVE  \E i \in 1..Len(frames) :
                  \/ taken[i] = Offset(m)
                  \/ taken[i] < Offset(m) /\ Offset(m) - taken[i] < Interval(p)
    <3>1. WindowHas(m, p)
      BY <2>11 DEF WindowHas
    <3>2. m \in 1..n
      <4>1. ~(m \in (n + 1)..Len(recording))
        BY <2>1, <2>2, <2>5, <2>11, <3>1 DEF Listing
      <4> QED
        BY <2>7, <4>1
    <3>3. PICK i \in 1..Len(frames) :
            \/ Offset(frames[i]) = Offset(m)
            \/ Offset(frames[i]) < Offset(m) /\ ~Spaced(frames[i], m, p)
      BY <2>6, <2>11, <3>1, <3>2 DEF Sampled
    <3>4. frames[i] \in 1..Len(recording)
      <4>1. frames[i] \in 1..n
        BY <2>6 DEF Sampled
      <4>2. \A k \in 1..n : k \in 1..Len(recording)
        BY <2>7
      <4> QED
        BY <4>1, <4>2
    <3>5. Interval(p) \in Int
      <4>1. recording \in Recordings /\ Len(recording) > 0
        BY <2>7 DEF ExtractionInv, ExtractionTypeOK
      <4> QED
        BY <4>1, IntervalIsInt
    <3>6. ~Spaced(frames[i], m, p) => Offset(m) - Offset(frames[i]) < Interval(p)
      <4>1. PICK x \in Int, y \in Int, z \in Int :
              x = Offset(m) /\ y = Offset(frames[i]) /\ z = Interval(p)
        BY <2>7, <3>4, <3>5
      <4>2. ~(x - y >= z) => x - y < z
        OBVIOUS
      <4> QED
        BY <4>1, <4>2 DEF Spaced
    <3> QED
      BY <2>5, <3>3, <3>6
  <2> QED
    BY <2>1, <2>3, <2>5, <2>7, <2>8, <2>9, <2>10, <2>11
<1> QED
  BY <1>3, <1>4 DEF ManifestTellsFrames

(* Whatever was recorded and asked for and wherever an extraction is killed, *)
(* a manifest lists frames that are there, whole, at their times, in the     *)
(* window, no two too close, and leaves out none that was due (main,         *)
(* load_frame_manifest, get_frame_path).                                     *)
THEOREM ManifestTellsFramesHolds == ExtractionSpec => []ManifestTellsFrames
  BY ManifestsAreTrue, ExtractionInitInv, ExtractionStepInv, PTL DEF ExtractionSpec

-----------------------------------------------------------------------------
(* SequenceCatalog: the frames of an experiment are those its records name.  *)
(* The walk along the samples and the selection are loops, given as          *)
(* functions by recursion on an initial interval.                            *)

(* Every non-empty set of natural numbers has a least element.               *)
LEMMA LeastOf ==
  ASSUME NEW T, T \subseteq Nat, T # {}
  PROVE  \E n \in T : \A m \in T : n <= m
<1> DEFINE R == OpToRel(<, Nat)
<1>1. IsWellFoundedOn(R, Nat)
  BY NatLessThanWellFounded
<1>2. \A x, y \in Nat : y < x => <<y, x>> \in R
  BY DEF OpToRel
<1> HIDE DEF R
<1>3. PICK x \in T : \A y \in T : ~(<<y, x>> \in R)
  BY <1>1, WFMin
<1>4. ASSUME NEW y \in T PROVE x <= y
  <2>1. ~(y < x)
    BY <1>2, <1>3, <1>4, Zenon
  <2> QED
    BY <2>1
<1> QED
  BY <1>4

(* A loop whose rounds stay in a set                                         *)
LEMMA LoopStays ==
  ASSUME NEW N \in Nat, NEW S, NEW f, f[0] \in S,
         \A n \in 1..N : f[n - 1] \in S => f[n] \in S
  PROVE  \A n \in 0..N : f[n] \in S
<1> DEFINE T == { n \in 0..N : f[n] \notin S }
<1>1. T = {}
  <2> SUFFICES ASSUME T # {} PROVE FALSE
    OBVIOUS
  <2>1. PICK n \in T : \A m \in T : n <= m
    <3>1. T \subseteq Nat
      OBVIOUS
    <3> HIDE DEF T
    <3> QED
      BY <3>1, LeastOf
  <2>2. n \in 0..N /\ f[n] \notin S /\ n # 0
    OBVIOUS
  <2>3. n \in 1..N /\ n - 1 \in 0..N /\ ~(n <= n - 1)
    BY <2>2
  <2>4. f[n - 1] \in S
    BY <2>1, <2>3
  <2> QED
    BY <2>2, <2>3, <2>4
<1> QED
  BY <1>1

(* A loop is described by a function.                                        *)
Rounds(f, n, base, step) ==
  \A m \in 0..n : f[m] = IF m = 0 THEN base ELSE step[m][f[m - 1]]

LEMMA LoopExists ==
  ASSUME NEW N \in Nat, NEW S, NEW base \in S, NEW step \in [1..N -> [S -> S]]
  PROVE  \E f \in [0..N -> S] : Rounds(f, N, base, step)
<1> DEFINE UpTo(n) == \E f \in [0..n -> S] : Rounds(f, n, base, step)
           T == { n \in 0..N : ~UpTo(n) }
<1>1. UpTo(0)
  <2>1. PICK f : f = [m \in 0..0 |-> base]
    OBVIOUS
  <2>2. f \in [0..0 -> S] /\ f[0] = base /\ \A m \in 0..0 : m = 0
    BY <2>1
  <2>3. Rounds(f, 0, base, step)
    BY <2>2, Zenon DEF Rounds
  <2> QED
    BY <2>2, <2>3
<1>2. ASSUME NEW n \in 1..N, UpTo(n - 1) PROVE UpTo(n)
  <2>1. PICK f \in [0..(n - 1) -> S] : Rounds(f, n - 1, base, step)
    BY <1>2
  <2>2. PICK e \in S : e = step[n][f[n - 1]]
    BY <2>1
  <2> DEFINE g == [m \in 0..n |-> IF m = n THEN e ELSE f[m]]
  <2>3. g \in [0..n -> S]
    BY <2>1
  <2>4. ASSUME NEW m \in 0..n
        PROVE  g[m] = IF m = 0 THEN base ELSE step[m][g[m - 1]]
    <3>1. CASE m = 0
      <4>1. 0 \in 0..(n - 1) /\ n # 0
        OBVIOUS
      <4>2. g[m] = f[0] /\ f[0] = base
        BY <2>1, <3>1, <4>1 DEF Rounds
      <4> QED
        BY <3>1, <4>2, Zenon
    <3>2. CASE m # 0
      <4>1. m - 1 \in 0..(n - 1) /\ m - 1 # n
        BY <3>2
      <4>2. g[m - 1] = f[m - 1]
        BY <4>1
      <4>3. CASE m = n
        BY <2>2, <3>2, <4>2, <4>3
      <4>4. CASE m # n
        <5>1. m \in 0..(n - 1) /\ g[m] = f[m]
          BY <4>4
        <5> HIDE DEF g
        <5> QED
          BY <2>1, <3>2, <4>2, <5>1 DEF Rounds
      <4> QED
        BY <4>3, <4>4
    <3> QED
      BY <3>1, <3>2
  <2> HIDE DEF g
  <2>5. Rounds(g, n, base, step)
    BY <2>4 DEF Rounds
  <2> QED
    BY <2>3, <2>5
<1>3. T = {}
  <2> SUFFICES ASSUME T # {} PROVE FALSE
    OBVIOUS
  <2>1. PICK n \in T : \A m \in T : n <= m
    <3>1. T \subseteq Nat
      OBVIOUS
    <3> HIDE DEF T
    <3> QED
      BY <3>1, LeastOf
  <2> HIDE DEF UpTo
  <2>2. n \in 1..N /\ n - 1 \in 0..N /\ ~(n <= n - 1)
    BY <1>1, <2>1
  <2>3. UpTo(n - 1)
    BY <2>1, <2>2
  <2> QED
    BY <1>2, <2>1, <2>2, <2>3
<1> QED
  BY <1>3

(* Sequences without repetitions                                             *)
Distinct(s) == \A i, j \in 1..Len(s) : i # j => s[i] # s[j]

LEMMA AppendedIsDistinct ==
  ASSUME NEW S, NEW s \in Seq(S), NEW e \in S, Distinct(s), \A i \in 1..Len(s) : s[i] # e
  PROVE  \E r \in Seq(S) :
           /\ r = Append(s, e) /\ Distinct(r)
           /\ \A i \in 1..Len(r) : r[i] = e \/ \E j \in 1..Len(s) : s[j] = r[i]
<1>1. PICK r : r = Append(s, e)
  OBVIOUS
<1>2. /\ r \in Seq(S) /\ Len(r) = Len(s) + 1 /\ r[Len(s) + 1] = e
      /\ \A i \in 1..Len(s) : r[i] = s[i]
  BY <1>1
<1>3. ASSUME NEW i \in 1..Len(r) PROVE i \in 1..Len(s) \/ i = Len(s) + 1
  BY <1>2
<1>4. ASSUME NEW i \in 1..Len(r), NEW j \in 1..Len(r), i # j PROVE r[i] # r[j]
  BY <1>2, <1>3, <1>4 DEF Distinct
<1>5. ASSUME NEW i \in 1..Len(r) PROVE r[i] = e \/ \E j \in 1..Len(s) : s[j] = r[i]
  BY <1>2, <1>3
<1>6. Distinct(r)
  BY <1>4 DEF Distinct
<1> QED
  BY <1>1, <1>2, <1>5, <1>6

Scenes == { s \in Seq(Tokens) : Distinct(s) }

Walks ==
  { w \in [at : Tokens \cup {NoToken}, seen : SUBSET Tokens, refs : Seq(Tokens)] :
      Distinct(w.refs) /\ \A i \in 1..Len(w.refs) : w.refs[i] \in w.seen }

LEMMA VisitStays ==
  ASSUME NEW w \in Walks
  PROVE  Visit(w) \in Walks
<1>1. PICK at, seen, refs : at = w.at /\ seen = w.seen /\ refs = w.refs
  OBVIOUS
<1>2. /\ at \in Tokens \cup {NoToken} /\ seen \subseteq Tokens /\ refs \in Seq(Tokens)
      /\ Distinct(refs) /\ \A i \in 1..Len(refs) : refs[i] \in seen
  BY <1>1 DEF Walks
<1>3. CASE at = NoToken \/ at \in seen
  BY <1>1, <1>3 DEF Visit
<1>4. CASE ~(at = NoToken \/ at \in seen)
  <2>1. at \in Tokens /\ NextToken[at] \in Tokens \cup {NoToken} /\ seen \cup {at} \subseteq Tokens
    BY <1>2, <1>4, CatalogAssumption
  <2>2. PICK r : r = IF at \in images THEN Append(refs, at) ELSE refs
    OBVIOUS
  <2>3. Visit(w) = [at |-> NextToken[at], seen |-> seen \cup {at}, refs |-> r]
    BY <1>1, <1>4, <2>2 DEF Visit
  <2>4. r \in Seq(Tokens) /\ Distinct(r) /\ \A i \in 1..Len(r) : r[i] \in seen \cup {at}
    <3>1. CASE at \in images
      <4>1. \A i \in 1..Len(refs) : refs[i] # at
        BY <1>2, <1>4
      <4>2. PICK a \in Seq(Tokens) :
              /\ a = Append(refs, at) /\ Distinct(a)
              /\ \A i \in 1..Len(a) : a[i] = at \/ \E j \in 1..Len(refs) : refs[j] = a[i]
        BY <1>2, <2>1, <4>1, AppendedIsDistinct
      <4>3. r = a
        BY <2>2, <3>1, <4>2
      <4> QED
        BY <1>2, <4>2, <4>3
    <3>2. CASE at \notin images
      BY <1>2, <2>2, <3>2
    <3> QED
      BY <3>1, <3>2
  <2> QED
    BY <2>1, <2>3, <2>4 DEF Walks
<1> QED
  BY <1>3, <1>4

(* A scene is listed without repetitions, however its samples are linked.    *)
LEMMA WalkIsScene == Walk \in Scenes
<1>1. PICK N \in Nat : N = Cardinality(Tokens)
  BY CatalogAssumption, FS_CardinalityType
<1>2. PICK start : start = [at |-> FirstToken, seen |-> {}, refs |-> << >>]
  OBVIOUS
<1>3. start \in Walks
  BY <1>2, CatalogAssumption DEF Walks, Distinct
<1> DEFINE step == [n \in 1..N |-> [w \in Walks |-> Visit(w)]]
           Is(f) == f = [n \in 0..N |-> IF n = 0 THEN start ELSE Visit(f[n - 1])]
<1>4. step \in [1..N -> [Walks -> Walks]]
  BY VisitStays
<1>5. \A n \in 1..N, w \in Walks : step[n][w] = Visit(w)
  OBVIOUS
<1> HIDE DEF step
<1>6. PICK f \in [0..N -> Walks] : Rounds(f, N, start, step)
  BY <1>3, <1>4, LoopExists
<1>7. ASSUME NEW n \in 0..N PROVE f[n] = IF n = 0 THEN start ELSE Visit(f[n - 1])
  <2>1. CASE n = 0
    BY <1>6, <2>1 DEF Rounds
  <2>2. CASE n # 0
    <3>1. n \in 1..N /\ f[n - 1] \in Walks
      BY <2>2
    <3>2. f[n] = step[n][f[n - 1]]
      BY <1>6, <2>2 DEF Rounds
    <3> QED
      BY <1>5, <2>2, <3>1, <3>2
  <2> QED
    BY <2>1, <2>2
<1>8. Is(f)
  BY <1>7
<1>9. PICK g : g = CHOOSE h : Is(h)
  OBVIOUS
<1>10. Is(g)
  <2> HIDE DEF Is
  <2> QED
    BY <1>8, <1>9
<1>11. \A n \in 0..N : g[n] \in Walks
  <2>1. g[0] \in Walks
    BY <1>3, <1>10
  <2>2. ASSUME NEW n \in 1..N, g[n - 1] \in Walks PROVE g[n] \in Walks
    <3>1. g[n] = Visit(g[n - 1])
      BY <1>10
    <3> QED
      BY <2>2, <3>1, VisitStays
  <2> HIDE DEF Is
  <2> QED
    BY <2>1, <2>2, LoopStays
<1>12. Walk = g[N].refs
  BY <1>1, <1>2, <1>9 DEF Walk
<1> QED
  BY <1>11, <1>12 DEF Walks, Scenes
(* What is selected: of what was asked for, each once                        *)
Chosen(S, asked) ==
  { r \in Seq(S) :
      Distinct(r) /\ \A i \in 1..Len(r) : \E j \in 1..Len(asked) : r[i] = asked[j] }

LEMMA OnceStays ==
  ASSUME NEW S, NEW asked \in Seq(S), NEW r \in Chosen(S, asked), NEW n \in 1..Len(asked)
  PROVE  Once(r, asked[n]) \in Chosen(S, asked)
<1>1. PICK e \in S : e = asked[n]
  OBVIOUS
<1>2. /\ r \in Seq(S) /\ Distinct(r) /\ DOMAIN r = 1..Len(r)
      /\ \A i \in 1..Len(r) : \E j \in 1..Len(asked) : r[i] = asked[j]
  BY DEF Chosen
<1>3. CASE \E j \in 1..Len(r) : r[j] = e
  BY <1>1, <1>2, <1>3 DEF Once
<1>4. CASE \A j \in 1..Len(r) : r[j] # e
  <2>1. PICK a \in Seq(S) :
          /\ a = Append(r, e) /\ Distinct(a)
          /\ \A i \in 1..Len(a) : a[i] = e \/ \E j \in 1..Len(r) : r[j] = a[i]
    <3>1. r \in Seq(S) /\ Distinct(r) /\ \A j \in 1..Len(r) : r[j] # e
      BY <1>2, <1>4
    <3> QED
      BY <3>1, AppendedIsDistinct
  <2>2. ASSUME NEW i \in 1..Len(a) PROVE \E j \in 1..Len(asked) : a[i] = asked[j]
    BY <1>1, <1>2, <2>1
  <2>3. Once(r, e) = a
    BY <1>2, <1>4, <2>1 DEF Once
  <2> QED
    BY <1>1, <2>1, <2>2, <2>3 DEF Chosen
<1> QED
  BY <1>3, <1>4

LEMMA SelectedIsChosen ==
  ASSUME NEW asked \in Seq(Int)
  PROVE  Selected(asked) \in Chosen(Int, asked)
<1>1. PICK N \in Nat : N = Len(asked)
  OBVIOUS
<1>2. PICK start : start = << >>
  OBVIOUS
<1>3. start \in Chosen(Int, asked)
  BY <1>2 DEF Chosen, Distinct
<1> DEFINE step == [n \in 1..N |-> [r \in Chosen(Int, asked) |-> Once(r, asked[n])]]
           Is(f) == f = [n \in 0..N |-> IF n = 0 THEN start ELSE Once(f[n - 1], asked[n])]
<1>4. step \in [1..N -> [Chosen(Int, asked) -> Chosen(Int, asked)]]
  BY <1>1, OnceStays
<1>5. \A n \in 1..N, r \in Chosen(Int, asked) : step[n][r] = Once(r, asked[n])
  OBVIOUS
<1> HIDE DEF step
<1>6. PICK f \in [0..N -> Chosen(Int, asked)] : Rounds(f, N, start, step)
  BY <1>3, <1>4, LoopExists
<1>7. ASSUME NEW n \in 0..N PROVE f[n] = IF n = 0 THEN start ELSE Once(f[n - 1], asked[n])
  <2>1. CASE n = 0
    BY <1>6, <2>1 DEF Rounds
  <2>2. CASE n # 0
    <3>1. n \in 1..N /\ f[n - 1] \in Chosen(Int, asked)
      BY <2>2
    <3>2. f[n] = step[n][f[n - 1]]
      BY <1>6, <2>2 DEF Rounds
    <3> QED
      BY <1>5, <2>2, <3>1, <3>2
  <2> QED
    BY <2>1, <2>2
<1>8. Is(f)
  BY <1>7
<1>9. PICK g : g = CHOOSE h : Is(h)
  OBVIOUS
<1>10. Is(g)
  <2> HIDE DEF Is
  <2> QED
    BY <1>8, <1>9
<1>11. \A n \in 0..N : g[n] \in Chosen(Int, asked)
  <2>1. g[0] \in Chosen(Int, asked)
    BY <1>3, <1>10
  <2>2. ASSUME NEW n \in 1..N, g[n - 1] \in Chosen(Int, asked) PROVE g[n] \in Chosen(Int, asked)
    <3>1. g[n] = Once(g[n - 1], asked[n])
      BY <1>10
    <3> QED
      BY <1>1, <2>2, <3>1, OnceStays
  <2> HIDE DEF Is
  <2> QED
    BY <2>1, <2>2, LoopStays
<1>12. Selected(asked) = g[N]
  BY <1>1, <1>2, <1>9 DEF Selected
<1> QED
  BY <1>11, <1>12
(* What the catalog has of the sequences: the fixture is there if the        *)
(* recording has one message.                                                *)
Entries == [kept : {TRUE}, scene : Scenes, clip : Nat, fixture : {<< >>, << 1 >>}]

EntriesHold(entries) ==
  entries \in Entries /\ (entries.fixture # << >> => Len(recording) = 1)

CatalogHolds == catalog = NoCatalog \/ EntriesHold(catalog)

Image == [kind : Kinds, of : Tokens \cup Int]
Frame == [index : Int, image : Image, source : Image]

Selecting == [pc : {"select"}, kind : Kinds, asked : Selections, entries : Entries]
Copying ==
  [pc : {"frames"}, kind : Kinds, asked : Selections, entries : Entries,
   indices : Seq(Int), frames : Seq(Frame)]

(* The frame at an index, by the entries of a request                        *)
Told(kind, entries, index, frame) ==
  /\ frame.index = index /\ frame.image = frame.source
  /\ kind = "scene" => /\ index + 1 \in 1..Len(entries.scene)
                       /\ frame.source = [kind |-> kind, of |-> entries.scene[index + 1]]
  /\ kind = "clip" => frame.source = [kind |-> kind, of |-> index]

Copied(r) ==
  /\ Distinct(r.indices)
  /\ r.asked # Default => Len(r.indices) <= MaxSelection
  /\ r.kind = "fixture" => \A k \in 1..Len(r.indices) : r.indices[k] = 0
  /\ Len(r.frames) <= Len(r.indices)
  /\ \A k \in 1..Len(r.frames) : Told(r.kind, r.entries, r.indices[k], r.frames[k])

RequestHolds(r) ==
  /\ r \in Selecting \cup Copying
  /\ EntriesHold(r.entries)
  /\ r.kind = "fixture" => r.entries.fixture = << 1 >>
  /\ r \in Copying => Copied(r)

SequenceInv ==
  /\ ExtractionInv
  /\ probe.file \in Nat /\ probe.annotations \in Nat
  /\ CatalogHolds
  /\ request = NoRequest \/ RequestHolds(request)

LEMMA DiscoveredHolds ==
  ASSUME probe.file \in Nat, probe.annotations \in Nat
  PROVE  EntriesHold(Discovered)
<1>1. PICK scene \in Scenes : scene = Walk
  BY WalkIsScene
<1>2. PICK clip \in Nat : clip = ClipFrames
  BY DEF ClipFrames
<1>3. PICK fixture : fixture = Fixture
  OBVIOUS
<1>4. fixture \in {<< >>, << 1 >>} /\ (fixture # << >> => Len(recording) = 1)
  BY <1>3 DEF Fixture
<1>5. Discovered = [kept |-> TRUE, scene |-> scene, clip |-> clip, fixture |-> fixture]
  BY <1>1, <1>2, <1>3 DEF Discovered
<1> QED
  BY <1>4, <1>5 DEF EntriesHold, Entries

LEMMA SequenceInitInv == CatalogInit => SequenceInv
<1> SUFFICES ASSUME CatalogInit PROVE SequenceInv
  OBVIOUS
<1>1. ExtractionInv
  BY ExtractionInitInv DEF CatalogInit
<1>2. probe.file \in Nat /\ probe.annotations \in Nat
  <2>1. ClipLength \in Nat /\ Annotated \subseteq Nat
    BY CatalogAssumption
  <2>2. probe \in [file : {0, ClipLength}, annotations : Annotated]
    BY DEF CatalogInit
  <2>3. PICK file \in {0, ClipLength}, annotations \in Annotated :
          file = probe.file /\ annotations = probe.annotations
    BY <2>2
  <2> QED
    BY <2>1, <2>3
<1>3. catalog = NoCatalog /\ request = NoRequest
  BY DEF CatalogInit
<1> QED
  BY <1>1, <1>2, <1>3 DEF SequenceInv, CatalogHolds

(* The recording is what it was, so that what was discovered still holds.    *)
LEMMA EntriesStay ==
  ASSUME UNCHANGED recording, NEW entries, EntriesHold(entries)
  PROVE  EntriesHold(entries)'
BY DEF EntriesHold

LEMMA RequestStays ==
  ASSUME UNCHANGED recording, NEW r, RequestHolds(r)
  PROVE  RequestHolds(r)'
<1>1. EntriesHold(r.entries)'
  BY EntriesStay DEF RequestHolds
<1> QED
  BY <1>1 DEF RequestHolds

LEMMA RestStays ==
  ASSUME SequenceInv, ExtractionInv', UNCHANGED <<recording, probe>>,
         NEW c, c = catalog', c = NoCatalog \/ EntriesHold(c),
         NEW r, r = request', r = NoRequest \/ RequestHolds(r)
  PROVE  SequenceInv'
<1>1. CatalogHolds'
  <2>1. c = NoCatalog \/ EntriesHold(c)'
    BY EntriesStay
  <2> QED
    BY <2>1 DEF CatalogHolds, EntriesHold, NoCatalog
<1>2. request' = NoRequest \/ RequestHolds(request)'
  <2>1. r = NoRequest \/ RequestHolds(r)'
    BY RequestStays
  <2> QED
    BY <2>1 DEF RequestHolds, EntriesHold, NoRequest
<1>3. probe'.file \in Nat /\ probe'.annotations \in Nat
  BY DEF SequenceInv
<1> QED
  BY <1>1, <1>2, <1>3 DEF SequenceInv, NoRequest
LEMMA ExtractionLeavesSequences ==
  ASSUME SequenceInv, ExtractionNext, UNCHANGED sequenceVars
  PROVE  SequenceInv'
<1>1. ExtractionInv'
  BY ExtractionStepInv DEF SequenceInv
<1>2. UNCHANGED recording
  BY DEF ExtractionNext, StartExtraction, Skip, OpenImage, WriteImage, PutManifest, ExtractionEnds
<1>3. PICK c, r : c = catalog /\ r = request
  OBVIOUS
<1>4. c = catalog' /\ r = request' /\ UNCHANGED probe
  BY <1>3 DEF sequenceVars
<1> QED
  BY <1>1, <1>2, <1>3, <1>4, RestStays DEF SequenceInv, CatalogHolds

(* A step that leaves extractions alone                                      *)
LEMMA SequencesMove ==
  ASSUME SequenceInv, UNCHANGED extractionVars, UNCHANGED probe,
         NEW c, c = catalog', c = NoCatalog \/ EntriesHold(c),
         NEW r, r = request', r = NoRequest \/ RequestHolds(r)
  PROVE  SequenceInv'
<1>1. ExtractionInv'
  BY ExtractionStepInv DEF SequenceInv
<1>2. UNCHANGED <<recording, probe>>
  BY DEF extractionVars
<1> QED
  BY <1>1, <1>2, RestStays

LEMMA ListSequencesKeeps ==
  ASSUME SequenceInv, ListSequences
  PROVE  SequenceInv'
<1>1. PICK c, r : c = Discovered /\ r = request
  OBVIOUS
<1>2. EntriesHold(c)
  BY <1>1, DiscoveredHolds DEF SequenceInv
<1>3. c = catalog' /\ r = request' /\ UNCHANGED extractionVars /\ UNCHANGED probe
  BY <1>1 DEF ListSequences
<1>4. r = NoRequest \/ RequestHolds(r)
  BY <1>1 DEF SequenceInv
<1> QED
  BY <1>2, <1>3, <1>4, SequencesMove

LEMMA ResolveKeeps ==
  ASSUME SequenceInv, NEW kind \in Kinds, NEW selection \in Selections, Resolve(kind, selection)
  PROVE  SequenceInv'
<1>1. PICK c : c = IF catalog.kept THEN catalog ELSE Discovered
  OBVIOUS
<1>2. EntriesHold(c)
  <2>1. CASE catalog.kept
    BY <1>1, <2>1 DEF SequenceInv, CatalogHolds, NoCatalog
  <2>2. CASE ~catalog.kept
    BY <1>1, <2>2, DiscoveredHolds DEF SequenceInv
  <2> QED
    BY <2>1, <2>2
<1>3. PICK r : r = [pc |-> "select", kind |-> kind, asked |-> selection, entries |-> c]
  OBVIOUS
<1>4. /\ c = catalog' /\ r = request' /\ UNCHANGED extractionVars /\ UNCHANGED probe
      /\ kind = "fixture" => c.fixture # << >>
  BY <1>1, <1>3 DEF Resolve
<1>5. RequestHolds(r)
  <2>1. c \in Entries
    BY <1>2 DEF EntriesHold
  <2>2. r \in Selecting /\ r \notin Copying
    BY <1>3, <2>1 DEF Selecting, Copying
  <2>3. kind = "fixture" => c.fixture = << 1 >>
    BY <1>4, <2>1 DEF Entries
  <2>4. r.kind = kind /\ r.entries = c
    BY <1>3
  <2> QED
    BY <1>2, <2>2, <2>3, <2>4 DEF RequestHolds
<1> QED
  BY <1>2, <1>4, <1>5, SequencesMove

(* The indices a request copies, if it is not refused                        *)
IndicesOf(asked, count) ==
  IF asked # Default THEN Selected(asked) ELSE [i \in 1..count |-> i - 1]

Unknown(kind, asked, count) ==
  \/ asked = Default /\ kind = "clip"
  \/ asked # Default /\ count > 0 /\ \E i \in DOMAIN asked : asked[i] \notin 0..(count - 1)

LEMMA IndicesAreDistinct ==
  ASSUME NEW entries \in Entries, NEW kind \in Kinds, NEW asked \in Selections,
         kind = "fixture" => entries.fixture = << 1 >>,
         NEW count, count = Count(entries, kind),
         NEW indices, indices = IndicesOf(asked, count), ~Unknown(kind, asked, count)
  PROVE  /\ indices \in Seq(Int) /\ Distinct(indices)
         /\ kind = "fixture" => \A k \in 1..Len(indices) : indices[k] = 0
<1>1. /\ entries.scene \in Seq(Tokens) /\ entries.clip \in Nat
      /\ entries.fixture \in {<< >>, << 1 >>}
  BY DEF Entries, Scenes
<1>2. count \in Nat /\ (kind = "fixture" => count = 1)
  <2>1. CASE kind = "clip"
    BY <1>1, <2>1 DEF Count
  <2>2. CASE kind = "scene"
    BY <1>1, <2>2 DEF Count
  <2>3. CASE kind = "fixture"
    BY <1>1, <2>3 DEF Count
  <2> QED
    BY <2>1, <2>2, <2>3 DEF Kinds
<1>3. CASE asked = Default
  <2>1. indices = [i \in 1..count |-> i - 1]
    BY <1>3 DEF IndicesOf
  <2>2. indices \in Seq(Int) /\ Len(indices) = count /\ \A k \in 1..count : indices[k] = k - 1
    BY <1>2, <2>1
  <2>3. Distinct(indices)
    BY <1>2, <2>2 DEF Distinct
  <2> QED
    BY <1>2, <2>2, <2>3
<1>4. CASE asked # Default
  <2>1. asked \in Seq(Int)
    BY <1>4, CatalogAssumption
  <2>2. indices \in Chosen(Int, asked)
    BY <1>4, <2>1, SelectedIsChosen DEF IndicesOf
  <2>3. ASSUME kind = "fixture", NEW k \in 1..Len(indices) PROVE indices[k] = 0
    <3>1. PICK j \in 1..Len(asked) : indices[k] = asked[j]
      BY <2>2 DEF Chosen
    <3>2. j \in DOMAIN asked
      BY <2>1
    <3>3. asked[j] \in 0..(count - 1)
      BY <1>2, <1>4, <2>3, <3>2 DEF Unknown
    <3> QED
      BY <1>2, <2>3, <3>1, <3>3
  <2> QED
    BY <2>2, <2>3 DEF Chosen
<1> QED
  BY <1>3, <1>4

LEMMA SelectKeeps ==
  ASSUME SequenceInv, Select
  PROVE  SequenceInv'
<1>1. PICK c, q : c = catalog /\ q = request
  OBVIOUS
<1>2. /\ c = catalog' /\ (c = NoCatalog \/ EntriesHold(c))
      /\ UNCHANGED extractionVars /\ UNCHANGED probe
  BY <1>1 DEF Select, SequenceInv, CatalogHolds
<1>3. q.pc = "select" /\ RequestHolds(q)
  BY <1>1 DEF Select, SequenceInv, NoRequest
<1>4. q \in Selecting
  BY <1>3 DEF RequestHolds, Copying
<1>5. PICK entries \in Entries, kind \in Kinds, asked \in Selections :
        entries = q.entries /\ kind = q.kind /\ asked = q.asked
  BY <1>4 DEF Selecting
<1>6. EntriesHold(entries) /\ (kind = "fixture" => entries.fixture = << 1 >>)
  BY <1>3, <1>5 DEF RequestHolds
<1>7. PICK count : count = Count(entries, kind)
  OBVIOUS
<1>8. PICK indices : indices = IndicesOf(asked, count)
  OBVIOUS
<1>9. PICK r : r = request'
  OBVIOUS
<1>10. \/ r = NoRequest
       \/ /\ ~Unknown(kind, asked, count)
          /\ ~(asked # Default /\ Len(indices) > MaxSelection)
          /\ r = [pc |-> "frames", kind |-> kind, asked |-> asked, entries |-> entries,
                  indices |-> indices, frames |-> << >>]
  BY <1>1, <1>5, <1>7, <1>8, <1>9 DEF Select, Refused, IndicesOf, Unknown
<1>11. ASSUME r # NoRequest PROVE RequestHolds(r)
  <2>1. /\ indices \in Seq(Int) /\ Distinct(indices)
        /\ kind = "fixture" => \A k \in 1..Len(indices) : indices[k] = 0
    BY <1>6, <1>7, <1>8, <1>10, <1>11, IndicesAreDistinct
  <2>2. r = [pc |-> "frames", kind |-> kind, asked |-> asked, entries |-> entries,
             indices |-> indices, frames |-> << >>]
    BY <1>10, <1>11
  <2>3. r \in Copying
    <3>1. << >> \in Seq(Frame)
      OBVIOUS
    <3> QED
      BY <2>1, <2>2, <3>1 DEF Copying
  <2>4. /\ r.kind = kind /\ r.asked = asked /\ r.entries = entries /\ r.indices = indices
        /\ Len(r.frames) = 0
    BY <2>2
  <2>5. asked # Default => Len(indices) <= MaxSelection
    <3>1. Len(indices) \in Nat /\ MaxSelection \in Nat
      BY <2>1, CatalogAssumption
    <3> QED
      BY <1>10, <1>11, <3>1
  <2>6. Copied(r)
    <3>1. Len(indices) \in Nat
      BY <2>1
    <3> QED
      BY <2>1, <2>4, <2>5, <3>1 DEF Copied
  <2> QED
    BY <1>6, <2>3, <2>4, <2>6 DEF RequestHolds
<1> QED
  BY <1>2, <1>9, <1>11, SequencesMove

(* The frame of a fixture is the one message, by any of its directories.     *)
LEMMA FixtureFrameIs ==
  ASSUME ExtractionInv, Len(recording) = 1, FixtureFrame(0) # NoFrame
  PROVE  FixtureFrame(0) = [kind |-> "fixture", of |-> 1]
<1>1. PICK having :
        having = { d \in Datasets : /\ Listed(d) /\ store[d].manifest.stamps # << >>
                                    /\ FrameOf(d, 0 + 1) # Partial }
  OBVIOUS
<1>2. /\ having # {}
      /\ FixtureFrame(0) =
           [kind |-> "fixture",
            of |-> FrameOf(CHOOSE d \in having : \A e \in having : e <= d, 0 + 1)]
  BY <1>1 DEF FixtureFrame
<1>3. \E d \in having : \A e \in having : e <= d
  <2>1. PICK N \in Nat : N = Cardinality(Datasets)
    BY ExtractionAssumption, FS_CardinalityType
  <2>2. having \subseteq 1..N
    BY <1>1, <2>1, ExtractionAssumption
  <2>3. PICK T : T = { N - d : d \in having }
    OBVIOUS
  <2>4. T \subseteq Nat /\ T # {}
    <3>1. ASSUME NEW d \in 1..N PROVE N - d \in Nat
      OBVIOUS
    <3>2. \A d \in having : d \in 1..N
      BY <2>2
    <3> QED
      BY <1>2, <2>3, <3>1, <3>2
  <2>5. PICK n \in T : \A m \in T : n <= m
    BY <2>4, LeastOf
  <2>6. PICK d \in having : n = N - d
    BY <2>3
  <2>7. ASSUME NEW e \in having PROVE e <= d
    <3>1. N - d <= N - e
      BY <2>3, <2>5, <2>6
    <3> QED
      BY <2>2, <3>1
  <2> QED
    BY <2>7
<1>4. PICK d \in having : d = CHOOSE x \in having : \A e \in having : e <= x
  BY <1>3
<1>5. FrameOf(d, 1) \in 1..1
  <2>1. d \in Datasets /\ Listed(d) /\ FrameOf(d, 1) # Partial
    BY <1>1
  <2>2. 1 \in DOMAIN store[d].manifest.stamps
    BY <2>1 DEF FrameOf
  <2>3. FrameOf(d, 1) \in DOMAIN recording
    BY <2>1, <2>2, ManifestsAreTrue DEF ManifestTellsFrames, ManifestTellsFiles
  <2>4. recording \in Seq([at : Nat, decodes : BOOLEAN])
    BY ExtractionAssumption DEF ExtractionInv, ExtractionTypeOK
  <2> QED
    BY <2>3, <2>4
<1>6. FrameOf(d, 0 + 1) = 1
  BY <1>5
<1> QED
  BY <1>2, <1>4, <1>6

(* The frame that is copied next is the one of its record.                   *)
LEMMA NextIsTold ==
  ASSUME SequenceInv, NEW q \in Copying, q = request, Copied(q),
         EntriesHold(q.entries), q.kind = "fixture" => q.entries.fixture = << 1 >>,
         NEW k \in 1..Len(q.indices), NEW i, i = q.indices[k], Materialized(i) # NoFrame
  PROVE  LET frame == [index |-> i, image |-> Materialized(i), source |-> SourceOf(i)]
         IN  frame \in Frame /\ Told(q.kind, q.entries, i, frame)
<1>1. PICK entries \in Entries, kind \in Kinds, indices \in Seq(Int) :
        entries = q.entries /\ kind = q.kind /\ indices = q.indices
  BY DEF Copying
<1>2. i \in Int
  BY <1>1
<1>3. PICK image, source : image = Materialized(i) /\ source = SourceOf(i)
  OBVIOUS
<1>4. PICK frame : frame = [index |-> i, image |-> image, source |-> source]
  OBVIOUS
<1>5. entries.scene \in Seq(Tokens)
  BY DEF Entries, Scenes
<1>6. CASE kind = "scene"
  <2>1. i + 1 \in 1..Len(entries.scene) /\ image = [kind |-> kind, of |-> entries.scene[i + 1]]
    BY <1>1, <1>3, <1>5, <1>6 DEF Materialized, LookedUp
  <2>2. source = [kind |-> kind, of |-> entries.scene[i + 1]]
    BY <1>1, <1>3, <1>5, <1>6, <2>1 DEF SourceOf
  <2>3. entries.scene[i + 1] \in Tokens
    BY <1>5, <2>1
  <2>4. image \in Image /\ source = image
    BY <2>1, <2>2, <2>3 DEF Image
  <2> QED
    BY <1>1, <1>2, <1>3, <1>4, <1>6, <2>1, <2>4 DEF Told, Frame
<1>7. CASE kind = "clip"
  <2>1. image = [kind |-> kind, of |-> i]
    BY <1>1, <1>3, <1>7 DEF Materialized, LookedUp
  <2>2. source = [kind |-> kind, of |-> i]
    BY <1>1, <1>3, <1>7 DEF SourceOf
  <2>3. image \in Image /\ source = image
    BY <1>2, <2>1, <2>2 DEF Image
  <2> QED
    BY <1>1, <1>2, <1>3, <1>4, <1>7, <2>1, <2>3 DEF Told, Frame
<1>8. CASE kind = "fixture"
  <2>1. i = 0 /\ entries.fixture = << 1 >> /\ Len(recording) = 1
    <3>1. i = 0 /\ entries.fixture = << 1 >>
      BY <1>1, <1>8 DEF Copied
    <3>2. << 1 >> # << >>
      OBVIOUS
    <3> QED
      BY <1>1, <3>1, <3>2 DEF EntriesHold
  <2>2. image = FixtureFrame(0)
    BY <1>1, <1>3, <1>8, <2>1 DEF Materialized, LookedUp
  <2>3. image = [kind |-> kind, of |-> 1]
    BY <1>3, <1>8, <2>1, <2>2, FixtureFrameIs DEF SequenceInv
  <2>4. source = [kind |-> kind, of |-> 1]
    <3>1. 0 + 1 \in DOMAIN << 1 >> /\ << 1 >>[0 + 1] = 1
      OBVIOUS
    <3> QED
      BY <1>1, <1>3, <1>8, <2>1, <3>1 DEF SourceOf
  <2>5. image \in Image /\ source = image
    BY <2>3, <2>4 DEF Image
  <2> QED
    BY <1>1, <1>2, <1>3, <1>4, <1>8, <2>5 DEF Told, Frame
<1> QED
  BY <1>6, <1>7, <1>8 DEF Kinds
LEMMA TakeFrameKeeps ==
  ASSUME SequenceInv, TakeFrame
  PROVE  SequenceInv'
<1>1. PICK c, q : c = catalog /\ q = request
  OBVIOUS
<1>2. /\ c = catalog' /\ (c = NoCatalog \/ EntriesHold(c))
      /\ UNCHANGED extractionVars /\ UNCHANGED probe
  BY <1>1 DEF TakeFrame, SequenceInv, CatalogHolds
<1>3. q.pc = "frames" /\ Len(q.frames) < Len(q.indices) /\ RequestHolds(q)
  BY <1>1 DEF TakeFrame, SequenceInv, NoRequest
<1>4. q \in Copying /\ Copied(q)
  BY <1>3 DEF RequestHolds, Selecting
<1>5. PICK indices \in Seq(Int), frames \in Seq(Frame) : indices = q.indices /\ frames = q.frames
  BY <1>4 DEF Copying
<1>6. PICK n \in Nat : n = Len(frames) /\ n + 1 \in 1..Len(indices)
  BY <1>3, <1>5
<1>7. PICK i : i = indices[n + 1]
  OBVIOUS
<1>8. PICK frame : frame = [index |-> i, image |-> Materialized(i), source |-> SourceOf(i)]
  OBVIOUS
<1>9. PICK r : r = request'
  OBVIOUS
<1>10. \/ r = NoRequest
       \/ /\ Materialized(i) # NoFrame
          /\ r = [q EXCEPT !.frames = Append(frames, frame)]
  BY <1>1, <1>5, <1>6, <1>7, <1>8, <1>9 DEF TakeFrame, Refused
<1>11. ASSUME r # NoRequest PROVE RequestHolds(r)
  <2>1. frame \in Frame /\ Told(q.kind, q.entries, i, frame)
    <3>1. EntriesHold(q.entries) /\ (q.kind = "fixture" => q.entries.fixture = << 1 >>)
      BY <1>3 DEF RequestHolds
    <3>2. n + 1 \in 1..Len(q.indices) /\ i = q.indices[n + 1] /\ Materialized(i) # NoFrame
      BY <1>5, <1>6, <1>7, <1>10, <1>11
    <3> QED
      BY <1>1, <1>4, <1>8, <3>1, <3>2, NextIsTold
  <2>2. PICK more \in Seq(Frame) :
          /\ more = Append(frames, frame) /\ Len(more) = n + 1 /\ more[n + 1] = frame
          /\ \A k \in 1..n : more[k] = frames[k]
    <3>1. PICK f \in Frame : f = frame
      BY <2>1
    <3>2. PICK more : more = Append(frames, f)
      OBVIOUS
    <3>3. /\ more \in Seq(Frame) /\ Len(more) = n + 1 /\ more[n + 1] = f
          /\ \A k \in 1..n : more[k] = frames[k]
      BY <1>6, <3>2
    <3> QED
      BY <3>1, <3>2, <3>3
  <2>3. /\ r \in Copying /\ r.kind = q.kind /\ r.asked = q.asked /\ r.entries = q.entries
        /\ r.indices = indices /\ r.frames = more
    BY <1>4, <1>5, <1>10, <1>11, <2>2 DEF Copying
  <2>4. ASSUME NEW k \in 1..Len(more) PROVE Told(q.kind, q.entries, indices[k], more[k])
    <3>1. CASE k = n + 1
      BY <1>7, <2>1, <2>2, <3>1
    <3>2. CASE k # n + 1
      <4>1. k \in 1..n
        BY <2>2, <3>2
      <4>2. Told(q.kind, q.entries, indices[k], frames[k])
        BY <1>4, <1>5, <1>6, <4>1 DEF Copied
      <4> QED
        BY <2>2, <4>1, <4>2
    <3> QED
      BY <3>1, <3>2
  <2>5. Len(more) <= Len(indices)
    BY <1>6, <2>2
  <2>6. Copied(r)
    BY <1>4, <1>5, <2>3, <2>4, <2>5, Zenon DEF Copied
  <2> QED
    BY <1>3, <2>3, <2>6 DEF RequestHolds
<1> QED
  BY <1>2, <1>9, <1>11, SequencesMove

LEMMA SequenceStepInv == SequenceInv /\ [CatalogNext]_catalogVars => SequenceInv'
<1> SUFFICES ASSUME SequenceInv, [CatalogNext]_catalogVars PROVE SequenceInv'
  OBVIOUS
<1>1. ASSUME UNCHANGED <<extractionVars, probe, catalog>>,
             request' = request \/ request' = NoRequest
      PROVE  SequenceInv'
  <2>1. PICK c, r : c = catalog' /\ r = request'
    OBVIOUS
  <2>2. (c = NoCatalog \/ EntriesHold(c)) /\ (r = NoRequest \/ RequestHolds(r))
    BY <1>1, <2>1 DEF SequenceInv, CatalogHolds
  <2> QED
    BY <1>1, <2>1, <2>2, SequencesMove
<1>2. CASE ExtractionNext /\ UNCHANGED sequenceVars
  BY <1>2, ExtractionLeavesSequences
<1>3. CASE ListSequences
  BY <1>3, ListSequencesKeeps
<1>4. CASE \E t \in Keyframes : ImageChanges(t)
  BY <1>1, <1>4 DEF ImageChanges
<1>5. CASE \E kind \in Kinds, selection \in Selections : Resolve(kind, selection)
  BY <1>5, ResolveKeeps
<1>6. CASE Select
  BY <1>6, SelectKeeps
<1>7. CASE TakeFrame
  BY <1>7, TakeFrameKeeps
<1>8. CASE HandOver
  BY <1>1, <1>8 DEF HandOver, Refused
<1>9. CASE UNCHANGED catalogVars
  BY <1>1, <1>9 DEF catalogVars, sequenceVars
<1> QED
  BY <1>2, <1>3, <1>4, <1>5, <1>6, <1>7, <1>8, <1>9 DEF CatalogNext

LEMMA CopiedIsTold == SequenceInv => RecordsTellFrames
<1> SUFFICES ASSUME SequenceInv, request.pc = "frames" PROVE RecordsTellFrames
  BY DEF RecordsTellFrames
<1>1. PICK q : q = request
  OBVIOUS
<1>2. q \in Copying /\ Copied(q)
  BY <1>1 DEF SequenceInv, RequestHolds, NoRequest, Selecting
<1>3. PICK indices \in Seq(Int), frames \in Seq(Frame), entries \in Entries, kind \in Kinds :
        indices = q.indices /\ frames = q.frames /\ entries = q.entries /\ kind = q.kind
  BY <1>2 DEF Copying
<1>4. /\ Len(frames) <= Len(indices) /\ Distinct(indices)
      /\ q.asked # Default => Len(indices) <= MaxSelection
      /\ kind = "fixture" => \A k \in 1..Len(indices) : indices[k] = 0
      /\ \A k \in 1..Len(frames) : Told(kind, entries, indices[k], frames[k])
  BY <1>2, <1>3 DEF Copied
<1>5. ASSUME NEW i \in 1..Len(frames)
      PROVE  frames[i].index = indices[i] /\ frames[i].image = frames[i].source
  BY <1>4 DEF Told
<1>6. ASSUME NEW i \in 1..Len(frames), NEW j \in 1..Len(frames), i # j
      PROVE  frames[i].source # frames[j].source
  <2>1. PICK a \in Int, b \in Int : a = indices[i] /\ b = indices[j] /\ a # b
    <3>1. i \in 1..Len(indices) /\ j \in 1..Len(indices)
      BY <1>4
    <3> QED
      BY <1>4, <1>6, <3>1 DEF Distinct
  <2>2. Told(kind, entries, a, frames[i]) /\ Told(kind, entries, b, frames[j])
    BY <1>4, <2>1
  <2>3. CASE kind = "scene"
    <3>1. PICK scene \in Seq(Tokens) : scene = entries.scene /\ Distinct(scene)
      BY DEF Entries, Scenes
    <3>2. /\ a + 1 \in 1..Len(scene) /\ b + 1 \in 1..Len(scene)
          /\ frames[i].source = [kind |-> kind, of |-> scene[a + 1]]
          /\ frames[j].source = [kind |-> kind, of |-> scene[b + 1]]
      BY <2>2, <2>3, <3>1 DEF Told
    <3>3. a + 1 # b + 1
      BY <2>1
    <3>4. scene[a + 1] # scene[b + 1]
      BY <3>1, <3>2, <3>3 DEF Distinct
    <3>5. frames[i].source.of = scene[a + 1] /\ frames[j].source.of = scene[b + 1]
      BY <3>2
    <3> QED
      BY <3>4, <3>5
  <2>4. CASE kind = "clip"
    <3>1. frames[i].source.of = a /\ frames[j].source.of = b
      BY <2>2, <2>4 DEF Told
    <3> QED
      BY <2>1, <3>1
  <2>5. CASE kind = "fixture"
    <3>1. i \in 1..Len(indices) /\ j \in 1..Len(indices)
      BY <1>4
    <3> QED
      BY <1>4, <2>1, <2>5, <3>1
  <2> QED
    BY <2>3, <2>4, <2>5 DEF Kinds
<1>7. DOMAIN request.frames = 1..Len(frames)
  BY <1>1, <1>3
<1> QED
  BY <1>1, <1>3, <1>4, <1>5, <1>6, <1>7 DEF RecordsTellFrames

(* However the samples of a scene are linked, whatever is asked for and      *)
(* whatever browsers, extractions and installers do meanwhile, every frame   *)
(* of an experiment is the one its record names, once, in the order asked    *)
(* for (discover_nuscenes_scenes, _api_sequences_experiment,                 *)
(* materialize_sequence_frame).                                              *)
THEOREM RecordsTellFramesHolds == CatalogSpec => []RecordsTellFrames
  BY SequenceInitInv, SequenceStepInv, CopiedIsTold, PTL DEF CatalogSpec
=============================================================================
