SPECIFICATION SyncSpec
CONSTANTS
  w1 = w1  w2 = w2
  Folders = {f1}
  Ids = {i1, i2, i3}
  Writers = {w1, w2}
  Mixes <- Delivering
  Flags = {"Seen"}
  RuleFlags = {}
  CounterLimit = 10
  MaxOps = 3
  MaxClock = 2
  MaxUid = 6
  MaxCrashes = 0
  Apart = TRUE
  MaxRows = 3
INVARIANT ChangesMissNothing
\* Operations are used up.
CHECK_DEADLOCK FALSE
SYMMETRY Symmetry
