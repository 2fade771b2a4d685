\* Three ranks; two faults can meet in one call, and a second call can retry it.
CONSTANTS
  None = None
  Ranks = {0, 1, 2}
  MaxStep = 2
  Lengths = {1}
  MaxLaunches = 3
  MaxCalls = 2
  MaxFaults = 2
\* When the launches are used up and the workers gone, nothing is left to do.
CHECK_DEADLOCK FALSE
SPECIFICATION FairSpec
INVARIANTS
  UsableSessionsAgree
  SuccessIsSaved
PROPERTIES
  StepReturns
