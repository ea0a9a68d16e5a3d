CONSTANTS
  r1 = r1
  r2 = r2
  r3 = r3
  a = a
  b = b
  Runs = {r1, r2, r3}
  Entries = {a, b}
  EntryOf <- SharedEntry
  KindOf <- ThreeTools
  Proving = {r1, r2}
  Refactoring = {r1}
  Deduping = {r1, r2}
  MaxCrashes = 1
SPECIFICATION FairSpec
INVARIANT LockExcludes
PROPERTY FailureRestores
PROPERTY OnlyStaleViewsClobber
PROPERTY AppliedIsTested
PROPERTY ImplementsEdits
PROPERTY EveryRunEnds
CHECK_DEADLOCK FALSE
