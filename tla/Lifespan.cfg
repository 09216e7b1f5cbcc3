\* Every combination of configured loops; a stopped process stays stopped.
SPECIFICATION FairSpec
CONSTANTS
  None = None
  MaxStuck = 1
INVARIANTS
  MillClosedLast
PROPERTIES
  ShutdownCompletes
  
  GaugeFollowsBoard
