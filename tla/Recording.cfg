SPECIFICATION FairSpec
CONSTANTS
  Nothing = Nothing
  Fields = {field}
  Lists = {list}
  Targets = {control}
  MaxDocs = 3
  Scenarios <- MCScenarios
INVARIANTS
  StepsAreFaithful
  NavigationsCountedOnce
PROPERTIES
  GestureIsAnswered
CHECK_DEADLOCK FALSE
