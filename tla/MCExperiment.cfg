\* runExperiment under every driver script with the options it accepts, including those on which a phase raises.
CONSTANTS
  CommandLines <- MC_CommandLines
  BaseTopos <- MC_BaseTopos
  BriteTopos <- MC_BriteTopos
  NoNode = NoNode

SPECIFICATION FairSpec

INVARIANT DriversTypeOK
INVARIANT FlowsDeliver
INVARIANT AffectedPathsFollowFlows
INVARIANT EveryPortInGraph
INVARIANT InvocationsServed
INVARIANT DagWellFormed
INVARIANT PoolIsNearest
PROPERTY Terminates
