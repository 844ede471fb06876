\* The request loop and the reaper over two sessions, one of them active at
\* a time; no crash.
SPECIFICATION LabSpec
CONSTANTS
  Ids = {s1, s2}
  Callers = {client}
  Reaper = reaper
  MaximumSessions = 1
  MaximumParallelExecPerSession = 1
  MaximumParallelGlobalExec = 1
  NoSession = NoSession
  DiskMayFail = FALSE
  MaxCrashes = 0
  Ops = {"start", "exec", "stop", "reset"}
  TTLCoversWork = TRUE
SYMMETRY IdSymmetry
INVARIANTS
  LabTypeOK
  ActiveWithinLimit
  ReaperSparesHealthy
CHECK_DEADLOCK FALSE
