CONSTANTS
  ToolCap = 4
  MaxBatch = 3
SPECIFICATION Spec
INVARIANTS
  EveryCallIsAnswered
  SentReplyIsVetted
PROPERTY TurnEndsUnlessToolsFail
