CONSTANTS
  first = first
  second = second
  Job = {first, second}
  Stored = stored
  Revision = {r1}
  NoRevision = NoRevision
  NoJob = NoJob
  SubjectCount = 2
  SubjectsOf <- MCSubjectsOf
  ScrapBudget = 1
  MaxCorrections = 1
  MaxTurns = 2
  StallLimit = 2
  JudgeCount = 2
  JudgesMayOmit = TRUE
  Requested <- MCRequested
  MaxFaults = 0
  Fragile = {"planner", "user_proxy_llm", "judges"}
  DesignAlone = TRUE
SPECIFICATION Spec
INVARIANT WinnerHasMajority
