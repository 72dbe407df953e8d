SPECIFICATION FairSpec
CONSTANTS
  Entries = 1
  Length = 2
  MaxFaults = 1
CHECK_DEADLOCK FALSE
INVARIANTS
  PanelShowsWhatWasSaid
PROPERTIES
  DoneWaitsForText
  EveryReplyIsFinal
