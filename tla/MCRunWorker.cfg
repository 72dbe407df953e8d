SPECIFICATION FairWorkerSpec
CONSTANTS
  magi1 = magi1
  plain1 = plain1
  plain2 = plain2
  name1 = name1
  chat = chat
  user = user
  Run = {magi1}
  Worker = {w1, w2}
  NoWorker = NoWorker
  NoRun = NoRun
  ChatOf <- MCChatOf
  UserOf <- MCUserOf
  Kind <- MCKind
  Magi <- MCMagi
  FollowUp <- MCFollowUp
  MaxActive = 2
  MaxEvents = 4
  MaxFaults = 1
CHECK_DEADLOCK FALSE
INVARIANT WorkerTypeOK
PROPERTIES
  EveryRunSettles
  SupersededSlotLetsGo
  SupersededWritesNothing
  PausedWorkIsKept
