CONSTANTS
  Keys = {k1, k2}
  NoKey = NoKey
  MaxJobs = 3
  MaxAttempts = 2
  Concurrency = 2
  FileBacked = TRUE
  WriteFaults = {"error"}
  MaxFaults = 2
SPECIFICATION FairSpec
INVARIANTS
  OneActivePerKey
  AttemptBudget
  AcceptedSurvives
  TerminalIsDurable
PROPERTIES
  ImplementsLedger
  SettlesOrStrands
CHECK_DEADLOCK FALSE
