CONSTANTS
  Triggers = {t1, t2}
  Notices = {n1}
  Buckets = {b1}
  NoKey = NoKey
  Installation = inst
  Installations <- OneInstallation
  InstallOf <- SameInstallation
  MaxTracked = 2
  MaxJobs = 3
  MaxAttempts = 1
  Concurrency = 1
  FileBacked = TRUE
  WriteFaults = {"error", "torn"}
  MaxFaults = 2
SPECIFICATION Spec
SYMMETRY TriggerSymmetry
INVARIANTS
  SecondJobNeedsForgetting
PROPERTIES
  ProcessedHasJob
  SuspendedStaysOut
CHECK_DEADLOCK FALSE
