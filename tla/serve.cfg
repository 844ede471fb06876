\* Every operation on one session, with up to two deaths of the controller at
\* any step, under fair scheduling and a Docker that answers again and again.
SPECIFICATION LabFairSpec
CONSTANTS
  Ids = {s1}
  Callers = {client}
  Reaper = reaper
  MaximumSessions = 1
  MaximumParallelExecPerSession = 1
  MaximumParallelGlobalExec = 1
  NoSession = NoSession
  DiskMayFail = FALSE
  MaxCrashes = 2
  Ops = {"start", "run", "http", "exec", "read", "stop", "reset"}
  TTLCoversWork = TRUE
INVARIANTS
  CommandsKeepSandbox
PROPERTIES
  ExpiredReclaimed
  RequestsReturn
CHECK_DEADLOCK FALSE
