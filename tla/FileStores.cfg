SPECIFICATION FairSpec
CONSTANTS
  t1 = t1
  t2 = t2
  t3 = t3
  Threads = {t1, t2, t3}
  Recording = Recording
  Document = Document
  Decisions = Decisions
  LogFile = LogFile
  NoFile = NoFile
  Versions = {1, 2}
  Workloads <- MCWorkloads
INVARIANTS
  StoredIsRead
  DecisionsAreKept
PROPERTIES
  NothingOverwritten
  EveryJobReturns
