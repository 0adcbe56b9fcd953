------------------------------ MODULE LatestOnly ------------------------------
(***************************************************************************)
(* The scheduling policy the pipeline promises: at most one request is     *)
(* active, while it is only the newest input is retained, and that one is  *)
(* submitted next.  Inputs are numbered in the order they are offered.     *)
(***************************************************************************)
EXTENDS Naturals, Sequences

VARIABLES
  offered,     \* inputs offered so far
  slot,        \* the input waiting, 0 for none
  busy,        \* the input being served, 0 for none
  superseded,  \* inputs replaced before they were served
  served       \* the inputs served, oldest first

latestVars == <<offered, slot, busy, superseded, served>>

LatestInit ==
  /\ offered = 0
  /\ slot = 0
  /\ busy = 0
  /\ superseded = 0
  /\ served = << >>

Offer ==
  /\ offered' = offered + 1
  /\ slot' = offered + 1
  /\ superseded' = IF slot = 0 THEN superseded ELSE superseded + 1
  /\ UNCHANGED <<busy, served>>

Take ==
  /\ slot # 0 /\ busy = 0
  /\ busy' = slot
  /\ slot' = 0
  /\ UNCHANGED <<offered, superseded, served>>

Finish ==
  /\ busy # 0
  /\ served' = Append(served, busy)
  /\ busy' = 0
  /\ UNCHANGED <<offered, slot, superseded>>

LatestNext == Offer \/ Take \/ Finish

LatestSpec == LatestInit /\ [][LatestNext]_latestVars

-----------------------------------------------------------------------------
LatestTypeOK ==
  /\ offered \in Nat
  /\ slot \in Nat
  /\ busy \in Nat
  /\ superseded \in Nat
  /\ served \in Seq(Nat)

(* What waits is the newest input there is.                                  *)
SlotIsNewest == slot # 0 => slot = offered

(* No input is lost without being counted.                                   *)
EveryInputAccounted ==
  offered = superseded + Len(served)
            + (IF slot = 0 THEN 0 ELSE 1) + (IF busy = 0 THEN 0 ELSE 1)

(* Inputs are served in the order they were offered, none of them twice.     *)
ServedInOrder ==
  /\ \A i, j \in 1..Len(served) : i < j => served[i] < served[j]
  /\ \A i \in 1..Len(served) :
       served[i] <= offered /\ (slot # 0 => served[i] < slot)
                            /\ (busy # 0 => served[i] < busy)
  /\ slot # 0 /\ busy # 0 => busy < slot
  /\ busy <= offered
=============================================================================
