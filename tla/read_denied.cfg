\* File reads on sessions that stop or expire.
SPECIFICATION LabSpec
CONSTANTS
  Ids = {s1}
  Callers = {client}
  Reaper = reaper
  MaximumSessions = 1
  MaximumParallelExecPerSession = 1
  MaximumParallelGlobalExec = 1
  NoSession = NoSession
  DiskMayFail = FALSE
  MaxCrashes = 0
  Ops = {"start", "read"}
  TTLCoversWork = TRUE
INVARIANTS
  NeverPanics
CHECK_DEADLOCK FALSE
