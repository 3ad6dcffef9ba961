SPECIFICATION FairSpec
CONSTANTS
  NoAddress = NoAddress
  Written <- MCWritten
  Dns <- MCDns
  Allowed <- MCAllowed
  Exceptions <- MCExceptions
  Scenarios <- MCScenarios
  MaxAttempts = 2
INVARIANTS
  EgressIsHeld
  EvidenceIsClean
  NothingSleptThrough
  NothingLeftBehind
PROPERTIES
  SessionEnds
CHECK_DEADLOCK FALSE
