SPECIFICATION CellSpec
CONSTANTS
  email = email
  submit = submit
  NoKey = NoKey
  Elsewhere = Elsewhere
  Jobs <- MCJobs
  TopRung = 2
  MaxHeals = 2
INVARIANTS
  RecordsAreTrue
  ScoresAreSound
CHECK_DEADLOCK FALSE
