\* Two supervisors over the same artifacts, one of them killed.
CONSTANTS
  None = None
  Runs = {u1, u2}
  Ranks = {0, 1}
  MaxStep = 2
  MaxVersions = 2
  Lengths = {1}
  Intervals <- MCIntervals
  MaxLaunches = 2
  MaxFaults = 0
  MaxDamages = 0
  MaxKills = 1
CHECK_DEADLOCK FALSE
SPECIFICATION Spec
INVARIANT LeaseExcludesOthers
