\* One connection is enough: the question is what becomes of the process.
CONSTANTS
  Connections = {c1}
  MaxConnections = 1
  MaxInflight = 1
  MaxTokens = 1
\* The process ends.
CHECK_DEADLOCK FALSE
SPECIFICATION FairSpec
PROPERTIES
  ClosesAtLifetime
