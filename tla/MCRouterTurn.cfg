CONSTANTS
  council1 = council1
  council2 = council2
  plain1 = plain1
  plain2 = plain2
  Turn <- MCTurn
  Together <- MCTogether
  Chunk <- MCChunk
  WithColon <- MCWithColon
  Query = {q}
  NeighborPages = 1
  TopK = 2
  MaxExpanded = 2
  MaxSearches <- MCMaxSearches
  ProviderOf <- MCProviderOf
  Streaming = {council1}
  MaxRetries = 1
  ToolRounds = 1
  MaxToolCalls = 1
  MaxServerPauses = 1
  MaxText = 2
  MaxRounds = 2
  MaxPauses <- MCMaxPauses
  FactKey = {"shell"}
  Mutable = {"shell"}
  MemoryItem <- MCMemoryItem
  Learned <- MCLearned
  Mode <- MCMode
  FirstTurn = {council1, plain1, plain2}
  Titled = {plain2}
SPECIFICATION FairSpec
CHECK_DEADLOCK FALSE
INVARIANTS
  RouterTypeOK
  NothingIsReadTwice
  InterventionsAreHeard
  
PROPERTIES
  ImplementsCouncil
  FactsChangeOnTheRecord
  EveryTurnEnds
