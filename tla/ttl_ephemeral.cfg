\* A deadline may pass while an ephemeral command runs.
SPECIFICATION LabSpec
CONSTANTS
  Ids = {s1}
  Callers = {client}
  Reaper = reaper
  MaximumSessions = 1
  MaximumParallelExecPerSession = 1
  MaximumParallelGlobalExec = 1
  NoSession = NoSession
  DiskMayFail = FALSE
  MaxCrashes = 0
  Ops = {"run"}
  TTLCoversWork = FALSE
INVARIANTS
  CommandsKeepSandbox
CHECK_DEADLOCK FALSE
