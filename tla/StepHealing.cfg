SPECIFICATION FairSpec
CONSTANTS
  e1 = e1
  e2 = e2
  e3 = e3
  NoElement = NoElement
  Elements = {e1, e2, e3}
  Pages <- MCPages
  Tasks <- MCTasks
  Threshold = 5
  Margin = 2
  CandidateCap = 2
  ShownToModel = 1
  MaxAttempts = 2
  AuthAttempts = 1
INVARIANTS
  NothingRepeated
PROPERTIES
  ActsOnWhatItRead
  StepEnds
