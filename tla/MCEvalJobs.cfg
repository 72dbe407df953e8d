CONSTANTS
  first = first
  second = second
  Job = {first, second}
  Stored = stored
  Revision = {r1}
  NoRevision = NoRevision
  NoJob = NoJob
  SubjectCount = 2
  SubjectsOf <- MCSubjectsOf
  ScrapBudget = 1
  MaxCorrections = 1
  MaxTurns = 2
  StallLimit = 2
  JudgeCount = 2
  JudgesMayOmit = FALSE
  Requested <- MCRequested
  MaxFaults = 1
  Fragile = {"planner", "user_proxy_llm", "judges"}
  DesignAlone = TRUE
SPECIFICATION Spec
INVARIANTS
  VerifiedMeansImaged
  InstancesAreHeld
  SettledBenchmarkIsClosed
  WinnerHasMajority
