SPECIFICATION CallsFairSpec
CONSTANTS
  Procs = {p1, p2}
  NoProc = NoProc
  Runs = {r1, r2}
  NoRun = NoRun
  LastDay = 2
  PerRun = 2
  PerDay = 2
  Threshold = 1
  MaxAttempts = 2
INVARIANTS
  TypeOK
  BudgetsHold
PROPERTIES
  AskIsDecided
CHECK_DEADLOCK FALSE
