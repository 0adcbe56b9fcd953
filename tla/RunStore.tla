------------------------------- MODULE RunStore -------------------------------
(***************************************************************************)
(* RunStore: the console's manifests on disk.  Its lock makes every        *)
(* operation one step.  A manifest is its status, and directories are kept *)
(* in the order of their last modification, which writing a manifest is.   *)
(***************************************************************************)
EXTENDS Integers, Sequences, SequencesExt, FiniteSets

CONSTANTS
  AllRuns,   \* run ids: new_run_id never gives one out twice
  MaxRuns    \* _MAX_RUNS

ASSUME StoreAssumption == MaxRuns \in Nat \ {0}

VARIABLES
  manifest,  \* the status in each manifest.json, "none" where there is no file
  dirs       \* run directories, the least recently modified first

storeVars == <<manifest, dirs>>

Terminal == {"completed", "failed", "stopped"}

(* The last one is what an experiment over a sequence ends with.             *)
Statuses == {"none", "starting", "running"} \cup Terminal \cup {"cancelled"}

StoreInit ==
  /\ manifest = [r \in AllRuns |-> "none"]
  /\ dirs = << >>

Touched(r) == Append(RemoveFirst(dirs, r), r)

(* _evict_oldest: the directories that stay.                                 *)
Kept(ds) == IF Len(ds) > MaxRuns THEN SubSeq(ds, Len(ds) - MaxRuns + 1, Len(ds)) ELSE ds

SaveRun(r, status) ==
  LET kept == Kept(Touched(r))
  IN  /\ dirs' = kept
      /\ manifest' = [q \in AllRuns |->
                        IF q \notin ToSet(kept) THEN "none"
                        ELSE IF q = r THEN status ELSE manifest[q]]

WriteStatus(r, status) ==
  /\ manifest' = [manifest EXCEPT ![r] = status]
  /\ dirs' = Touched(r)

UpdateRunIfStatus(r, expected, status) ==
  \/ manifest[r] = expected /\ WriteStatus(r, status)
  \/ manifest[r] # expected /\ UNCHANGED storeVars

FinalizeRun(r, status) ==
  \/ manifest[r] \notin Terminal \cup {"none"} /\ WriteStatus(r, status)
  \/ manifest[r] \in Terminal \cup {"none"} /\ UNCHANGED storeVars

=============================================================================
