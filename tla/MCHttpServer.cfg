\* A stream can fail before its token, after it and with it.
CONSTANTS
  Connections = {c1, c2, c3}
  MaxConnections = 2
  MaxInflight = 1
  MaxTokens = 1
\* The process ends.
CHECK_DEADLOCK FALSE
SPECIFICATION FairSpec
INVARIANTS
  OneAnswer
  SlotsConserved
PROPERTIES
  ServerStops
