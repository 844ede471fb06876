\* The same with the startups that were interrupted.
SPECIFICATION LabFairSpec
CONSTANTS
  Ids = {s1}
  Callers = {client}
  Reaper = reaper
  MaximumSessions = 1
  MaximumParallelExecPerSession = 1
  MaximumParallelGlobalExec = 1
  NoSession = NoSession
  DiskMayFail = FALSE
  MaxCrashes = 1
  Ops = {"start", "run"}
  TTLCoversWork = TRUE
PROPERTIES
  InterruptedReclaimed
CHECK_DEADLOCK FALSE
