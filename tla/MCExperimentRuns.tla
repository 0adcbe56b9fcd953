--------------------------- MODULE MCExperimentRuns ---------------------------
(* An experiment over a dataset, one over a sequence, and another run.       *)
EXTENDS ExperimentRuns

CONSTANTS
  OverDataset, OverSequence, Other,
  DatasetFrames, SequenceFrames,
  MaxReviews       \* bound: reviews begun, of which each may be written late

InstanceExperiments == {OverDataset, OverSequence}

InstanceRuns == InstanceExperiments \cup {Other}

InstanceFrames == (OverDataset :> DatasetFrames) @@ (OverSequence :> SequenceFrames)

BoundedSpec == ExperimentInit /\ [][ExperimentNext /\ Cardinality(reviewing') <= MaxReviews]_vars

FairBoundedSpec == BoundedSpec /\ \A r \in Experiments : WF_vars(Scheduled(r))
=============================================================================
