CONSTANTS
  MaxJobs = 3
  MaxTime = 2
  Capacities = {1, 2}
  Ttls = {1}
  Projects = {"a", "b"}
  Cves = {"c"}
  CallOf <- MCCallOf
  Tracked <- MCTracked
  MaxMishaps = 1
SPECIFICATION CallsSpec
INVARIANT CapacityHolds
PROPERTIES DropsAreDue ResumeIsSound
CHECK_DEADLOCK FALSE
