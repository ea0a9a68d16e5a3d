CONSTANTS
  Commits = {push}
  Branches = {dispatch}
  Checks = {checkrun}
  Ticks = {tick}
  NoKey = NoKey
  MaxJobs = 2
  MaxAttempts = 2
  Concurrency = 2
  MaxFaults = 1
  MaxLeaks = 1
  Setups <- Deployments
SPECIFICATION FairSpec
INVARIANTS
  FinalCheckIsTrue
  CheckoutsAreCleaned
PROPERTIES
  SuccessSawRepository
  ChecksSettle
CHECK_DEADLOCK FALSE
