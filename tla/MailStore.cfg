SPECIFICATION Spec
CONSTANTS
  w1 = w1
  w2 = w2
  Folders = {f1, f2}
  Ids = {i1, i2, i3, i4}
  Writers = {w1, w2}
  Mixes <- MCMixes
  Flags = {"Deleted"}
  RuleFlags = {}
  CounterLimit = 10
  MaxOps = 3
  MaxClock = 1
  MaxUid = 5
  MaxCrashes = 1
CHECK_DEADLOCK FALSE
SYMMETRY Symmetry
INVARIANT UidsAreSound TotalsAgree
