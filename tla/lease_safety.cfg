\* Three goroutines on one session, which has one slot of its own and competes
\* for two; the methods of the manager in any order, a disk whose writes may
\* fail and two crashes.
SPECIFICATION Spec
CONSTANTS
  Ids = {s1}
  Callers = {c1, c2, c3}
  MaximumSessions = 1
  MaximumParallelExecPerSession = 1
  MaximumParallelGlobalExec = 2
  NoSession = NoSession
  DiskMayFail = TRUE
  MaxCrashes = 2
SYMMETRY Interchangeable
INVARIANTS
  TypeOK
  LeasedSessionExists
  LeaseAccounting
  NoResurrection
PROPERTIES
  ImplementsExecLeases
CHECK_DEADLOCK FALSE
