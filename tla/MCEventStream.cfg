SPECIFICATION FairSpec
CONSTANTS
  Bounds <- MCBounds
  MaxFaults = 1
  Limit = 2
CHECK_DEADLOCK FALSE
INVARIANTS
  TextIsConserved
  NoTextTwice
  ReplayIsGapless
PROPERTIES
  FlushedBeforeVerdict
  EverySessionEnds
