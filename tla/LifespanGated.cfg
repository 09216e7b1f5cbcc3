\* The registry does not answer at start-up, but later.
SPECIFICATION FairSpec
CONSTANTS
  None = None
  MaxStuck = 0
PROPERTY ReconcileIsScheduled
