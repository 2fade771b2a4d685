\* Two callers, two ids, a cache of one answer and a queue of two.
CONSTANTS
  None = None
  small = small
  huge = huge
  Clients = {c1, c2}
  Ids = {i1, i2}
  Inputs = {small, huge}
  Cost <- MCCost
  OutputLength = 2
  MaxInflight = 2
  CacheCapacity = 1
  BucketCapacity = 3
  Rate = 2
  MaxTime = 2
\* A drained service whose clock has run out serves nobody.
CHECK_DEADLOCK FALSE
SYMMETRY MCSymmetry
SPECIFICATION Spec
INVARIANTS
  TicketsMatchCalls
  GeneratedOnce
  AnswersAreWhole
  RateBounded
  DrainIsFinal
