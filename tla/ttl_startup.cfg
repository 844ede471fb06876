\* A deadline may pass while docker compose up runs.
SPECIFICATION LabSpec
CONSTANTS
  Ids = {s1}
  Callers = {client}
  Reaper = reaper
  MaximumSessions = 1
  MaximumParallelExecPerSession = 1
  MaximumParallelGlobalExec = 1
  NoSession = NoSession
  DiskMayFail = FALSE
  MaxCrashes = 0
  Ops = {"start"}
  TTLCoversWork = FALSE
INVARIANTS
  NoOrphans
CHECK_DEADLOCK FALSE
