\* Three calls, of which one starts the session and one exports a file; one
\* write that goes wrong, one death of the server, pages of at most two events.
SPECIFICATION FairSpec
CONSTANTS
  Operations = {o1, o2, o3}
  Start = o1
  Exports = {o3}
  None = None
  MaxPage = 2
  MaxFaults = 1
  MaxCrashes = 1
INVARIANTS
  MCPTypeOK
  FollowsContiguously
  AnsweredOnRecord
  CallsBracketed
PROPERTIES
  RequestsAnswered
  FollowerCatchesUp
CHECK_DEADLOCK FALSE
