----------------------------- MODULE MCConsoleRuns -----------------------------
(* Two runs, a stop request and the clean-up, of which any three meet.  Run  *)
(* ids are random, so that the runs may be named in the order they begin.    *)
EXTENDS ConsoleRuns

CONSTANTS
  First, Second,
  MaxActors       \* bound: runs begun, stops requested and clean-ups begun

InstanceRuns == {First, Second}

InOrder == start[Second] # "idle" => start[First] # "idle"

Begun == { r \in Runs : start[r] # "idle" } \cup { s \in Threads : stopper[s] # "idle" }

Bounded == InOrder /\ Cardinality(Begun) <= MaxActors

BoundedSpec == ConsoleInit /\ [][ConsoleNext /\ Bounded']_vars

FairBoundedSpec == BoundedSpec /\ WF_vars(Scheduled)
=============================================================================
