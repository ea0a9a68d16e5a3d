CONSTANTS
  c1 = c1
  c2 = c2
  p = p
  q = q
  d = d
  NoCve = NoCve
  NoPackage = NoPackage
  Packages = {p, q, d}
  Cves = {c1, c2}
  MaxMishaps = 1
  Projects <- WideAndNarrow
  Severity <- Severities
  Direct = {p, d}
  Denied = {d}
  Escalating = {c1}
SPECIFICATION Spec
INVARIANT ChangesAreClaimed
INVARIANT RequestsStandAlone
PROPERTY FixesSurvive
PROPERTY NoSilentMiss
PROPERTY ResumeRespected
CHECK_DEADLOCK FALSE
