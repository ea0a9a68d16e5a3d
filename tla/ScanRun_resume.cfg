CONSTANTS
  c1 = c1
  c2 = c2
  p = p
  q = q
  d = d
  NoCve = NoCve
  NoPackage = NoPackage
  Packages = {p, q, d}
  Cves = {c1, c2}
  MaxMishaps = 0
  Projects <- WideAndNarrow
  Severity <- Severities
  Direct = {p, d}
  Denied = {d}
  Escalating = {c1}
SPECIFICATION Spec
PROPERTY ResumePreventsRework
CHECK_DEADLOCK FALSE
