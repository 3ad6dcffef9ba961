SPECIFICATION Spec
CONSTANTS
  a = a
  b = b
  c = c
  NumSteps = 2
  Targets = {a, b}
  Unusable = {b}
  Procs = {p1, p2}
  NoProc = NoProc
  Files <- TwoSteps
  Policies = {"immediate", "after_n_successes"}
  Required = 2
  Attempts = 2
  MaxRuns = 2
  MaxImports = 2
  MaxRollbacks = 3
INVARIANTS
  EvidenceIsReal
  RolledBackStaysBack
  OutcomesAreTold
PROPERTIES
  NothingForgotten
SYMMETRY Symmetry
CHECK_DEADLOCK FALSE
