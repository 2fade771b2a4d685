\* Two processes, one run of interest and a foreign one, three steps, two contents.
CONSTANTS
  d1 = d1
  d2 = d2
  None = None
  Procs = {p1, p2}
  Runs = {run, other}
  Steps <- MCSteps
  Digests <- MCDigests
  Size <- MCSize
  MaxVersions = 2
  MaxTotalBytes = 3
  MaxCrashes = 1
  MaxFailures = 1
  MaxDamages = 1
SPECIFICATION FairSpec
INVARIANTS
  WritersAlone
  ManifestReadable
  BlobBeforeManifest
  AckedIsCandidate
  NothingAccumulates
  CleanWithoutCrash
PROPERTIES
  Implements
  LeaseIsReleased
