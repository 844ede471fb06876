\* Three goroutines on one session, which has one slot of its own and competes
\* for two: both channels block.
SPECIFICATION FairSpec
CONSTANTS
  Ids = {s1}
  Callers = {c1, c2, c3}
  MaximumSessions = 1
  MaximumParallelExecPerSession = 1
  MaximumParallelGlobalExec = 2
  NoSession = NoSession
  DiskMayFail = FALSE
  MaxCrashes = 1
INVARIANTS
  SlotAccounting
PROPERTIES
  RequestSettles
  DrainEnds
CHECK_DEADLOCK FALSE
