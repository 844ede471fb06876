\* HTTP requests in ephemeral sandboxes.
SPECIFICATION LabSpec
CONSTANTS
  Ids = {s1}
  Callers = {client}
  Reaper = reaper
  MaximumSessions = 1
  MaximumParallelExecPerSession = 1
  MaximumParallelGlobalExec = 1
  NoSession = NoSession
  DiskMayFail = FALSE
  MaxCrashes = 0
  Ops = {"http"}
  TTLCoversWork = TRUE
INVARIANTS
  ClaimsAreTrue
CHECK_DEADLOCK FALSE
