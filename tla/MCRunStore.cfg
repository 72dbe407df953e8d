SPECIFICATION Spec
CONSTANTS
  m1 = m1
  m2 = m2
  chat1 = chat1
  chat2 = chat2
  user = user
  Run <- MCRun
  Worker = {w1, w2}
  NoWorker = NoWorker
  ChatOf <- MCChatOf
  UserOf <- MCUserOf
  Kind <- MCKind
  MaxActive = 0
  MaxEvents = 3
SYMMETRY WorkerSymmetry
CHECK_DEADLOCK FALSE
INVARIANTS
  TypeOK
  LeaseFollowsStatus
  ExchangeIffCompleted
  LogEndsAtTerminalEvent
  StatusMatchesLog
  ActiveCapHolds
  PausedRunHasSnapshot
PROPERTIES
  ImplementsLifecycle
  CancelIsNotForgotten
