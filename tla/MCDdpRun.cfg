\* One supervisor at a time over the same artifacts, three launches of two ranks.
CONSTANTS
  None = None
  Runs = {u1}
  Ranks = {0, 1}
  MaxStep = 3
  MaxVersions = 2
  Lengths = {1, 2}
  Intervals <- MCIntervals
  MaxLaunches = 3
  MaxFaults = 1
  MaxDamages = 1
  MaxKills = 1
\* Every run of the bound is over: nothing is launched any more.
CHECK_DEADLOCK FALSE
SPECIFICATION Spec
INVARIANTS
  AdmissionSuffices
  LatestNotAhead
  SuccessIsDurable
  ReplicasTogether
  ResumesFromNewest
