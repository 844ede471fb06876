\* One file, at most two processes in the sandbox, one death of the controller.
SPECIFICATION FairSpec
CONSTANTS
  Scratchfiles <- MCScratchfiles
  Payloads <- MCPayloads
  Hole = Hole
  CookieFiles = {j1}
  Cookies = {k1}
  Helpers = {h1, h2}
  Absent = Absent
  Dests = {d1}
  StatLine = 1
  Runes <- MCRunes
  Replacement = Replacement
  Deployments <- MCDeployments
  Spellings <- MCSpellings
  Workloads <- MCWorkloads
  MaxCrashes = 1
INVARIANTS
  TransfersTypeOK
  StoredStays
  OutputExact
  PagesAreWhole
  ExportsAreWhole
  CookiesKept
  GrantsNeverGrow
  GatewayResolves
  TimeoutsBounded
  PathsConfined
PROPERTIES
  RequestsEnd
CHECK_DEADLOCK FALSE
