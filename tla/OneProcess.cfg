SPECIFICATION FairSpec
CONSTANTS
  NumSteps = 3
  Irreversible = {2, 3}
  Procs = {p1}
  NoProc = NoProc
  Saves = TRUE
  Overtakes = FALSE
  MaxTries = 2
INVARIANTS
  TypeOK
  ActsOnceInOrder
  RecordIsTrue
  HealedActIsApproved
PROPERTIES
  FinalRecordKept
  KeepsContract
  ClaimIsReleased
