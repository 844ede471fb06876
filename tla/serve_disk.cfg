\* The same, but for the HTTP requests whose report is a finding, with a disk
\* whose writes may fail.
SPECIFICATION LabSpec
CONSTANTS
  Ids = {s1}
  Callers = {client}
  Reaper = reaper
  MaximumSessions = 1
  MaximumParallelExecPerSession = 1
  MaximumParallelGlobalExec = 1
  NoSession = NoSession
  DiskMayFail = TRUE
  MaxCrashes = 1
  Ops = {"start", "run", "exec", "read", "stop", "reset"}
  TTLCoversWork = TRUE
INVARIANTS
  RecordOutlivesResources
  ClaimsAreTrue
PROPERTIES
  ImplementsLifecycle
CHECK_DEADLOCK FALSE
