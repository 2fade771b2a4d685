\* Two processes over one checkpoint, three updates of two micro-batches, and epochs
\* of three that end inside an update.  Two faults: a segment that failed is retried
\* and fails again, or is resumed.
CONSTANTS
  None = None
  Processes = {p, q}
  OptimizerSteps = 3
  AccumulationSteps = 2
  BatchesPerEpoch = 3
  MaxRuns = 3
  MaxFaults = 2
  NoTrial = NoTrial
  Runners = {p, q}
  Works = {v, w}
  Measured = {1, 2}
  SeedCount = 2
  MaxComparisons = 3
  MaxInterrupted = 1
  MaxTampered = 1
  NoFile = NoFile
  Publishers = {p, q}
  Readers = {r, s}
  MaxPublications = 3
  MaxLoads = 3
  Operators = {a, b}
  ScheduleSteps = 2
  Times = {0, 1}
  MaxExecutions = 3
  MaxCut = 2
  Missing = Missing
  MaxStages = 5
  MaxMicrobatches = 6
SPECIFICATION FilesSpec
INVARIANTS
  SchedulesAreSound
  FilesAreExact
  DataConsumedOnce
  ExperimentsAreWhole
  BundleConsistent
PROPERTIES
  StaysVerified
