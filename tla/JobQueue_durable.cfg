CONSTANTS
  Keys = {k1, k2}
  NoKey = NoKey
  MaxJobs = 2
  MaxAttempts = 2
  Concurrency = 1
  FileBacked = TRUE
  WriteFaults = {}
  MaxFaults = 1
SPECIFICATION FairSpec
PROPERTY StoredJobSettles
CHECK_DEADLOCK FALSE
