----------------------------- MODULE RunLifecycle -----------------------------
(***************************************************************************)
(* What the console promises of a run: it is recorded before anything else *)
(* happens to it, goes forward only, and ends with one status that stays.  *)
(* Recording a run may remove the records of others, for good.             *)
(***************************************************************************)
EXTENDS FiniteSets, Naturals

CONSTANTS Run, Limit

VARIABLE life

Recorded == { r \in Run : life[r] \notin {"new", "evicted"} }

LifecycleInit == life = [r \in Run |-> "new"]

Record(r, evicted, status) ==
  /\ life[r] = "new"
  /\ status \in {"starting", "running"}
  /\ evicted \subseteq Recorded
  /\ Cardinality(Recorded \ evicted) < Limit
  /\ life' = [q \in Run |-> IF q = r THEN status
                            ELSE IF q \in evicted THEN "evicted" ELSE life[q]]

Advance(r) ==
  /\ life[r] = "starting"
  /\ life' = [life EXCEPT ![r] = "running"]

Conclude(r, status) ==
  /\ life[r] \in {"starting", "running"}
  /\ status \in {"completed", "failed", "stopped"}
  /\ life' = [life EXCEPT ![r] = status]

LifecycleNext ==
  \E r \in Run :
    \/ \E evicted \in SUBSET Recorded, status \in {"starting", "running"} :
         Record(r, evicted, status)
    \/ Advance(r)
    \/ \E status \in {"completed", "failed", "stopped"} : Conclude(r, status)

LifecycleSpec == LifecycleInit /\ [][LifecycleNext]_life
=============================================================================
