CONSTANTS
  k1 = k1
  k2 = k2
  k3 = k3
  k4 = k4
  f1 = f1
  f2 = f2
  Keys = {k1, k2, k3, k4}
  NoKey = NoKey
  OnPr = {k1, k2, k4}
  MaxJobs = 2
  MaxAttempts = 2
  Concurrency = 2
  FileBacked = TRUE
  WriteFaults = {}
  MaxFaults = 1
  Files = {f1, f2}
  Repairable = {f1}
  FilesOf <- Different
  Edits = {e1}
  Repair = Repair
  Asked = TRUE
  Provided = TRUE
  MaxHeals = 2
  MaxApiFaults = 2
SPECIFICATION FairSpec
INVARIANT BreakerHolds
PROPERTY EditsSurvive
PROPERTY FailureAnswered
CHECK_DEADLOCK FALSE
