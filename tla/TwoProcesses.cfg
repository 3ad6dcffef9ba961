SPECIFICATION ShowSpec
CONSTANTS
  NumSteps = 2
  Irreversible = {1, 2}
  Procs = {p1, p2}
  NoProc = NoProc
  Saves = FALSE
  Overtakes = TRUE
  MaxTries = 1
INVARIANTS
  OneWorker
  SharedRunIsSound
SYMMETRY Symmetry
