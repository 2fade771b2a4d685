\* Liveness, on two launches and with no supervisor killed.
CONSTANTS
  None = None
  Runs = {u1}
  Ranks = {0, 1}
  MaxStep = 3
  MaxVersions = 2
  Lengths = {1, 2}
  Intervals <- MCIntervals
  MaxLaunches = 2
  MaxFaults = 1
  MaxDamages = 1
  MaxKills = 0
\* Every run of the bound is over: nothing is launched any more.
CHECK_DEADLOCK FALSE
SPECIFICATION FairSpec
PROPERTY RunEnds
