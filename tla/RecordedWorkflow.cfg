SPECIFICATION FairSpec
CONSTANTS
  it = it
  twin = twin
  row = row
  row2 = row2
  box = box
  Nodes = {it, twin, row, row2, box}
  Target = it
  Document = Document
  NoNode = NoNode
  Sites <- MCSites
  AncestorsMax = 2
  Drafts <- MCDrafts
  Overrides <- MCOverrides
  Typed <- MCTyped
  Attempts = 1
  Observations <- MCObservations
  Alternatives = 2
INVARIANTS
  TargetIsProven
  WorkflowIsTrue
PROPERTIES
  CaptureEnds
CHECK_DEADLOCK FALSE
