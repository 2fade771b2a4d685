\* Two threads, two models, four prompts.
CONSTANTS
  None = None
  Threads = {t1, t2}
  Identities = {m1, m2}
  Prompts <- MCPrompts
  TokenBytes = 1
  LogitBytes = 1
  MaxBytes = 7
  MaxEntries = 2
  MaxFailures = 1
SPECIFICATION Spec
INVARIANTS
  Accounting
  WithinBudget
  LeasesAreTrue
  SourceStays
