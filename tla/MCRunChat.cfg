SPECIFICATION WorkerSpec
CONSTANTS
  magi1 = magi1
  plain1 = plain1
  plain2 = plain2
  name1 = name1
  chat = chat
  user = user
  Run = {plain1, plain2, name1}
  Worker = {w1}
  NoWorker = NoWorker
  NoRun = NoRun
  ChatOf <- MCChatOf
  UserOf <- MCUserOf
  Kind <- MCKind
  Magi <- MCMagi
  FollowUp <- MCFollowUp
  MaxActive = 2
  MaxEvents = 1
  MaxFaults = 1
CHECK_DEADLOCK FALSE
INVARIANTS
  OneActiveRunPerChat
