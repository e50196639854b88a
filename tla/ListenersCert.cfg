SPECIFICATION LisSpec
CONSTANTS
  LisPorts = {465, 25}
  LisDefaults <- TwoDefaults
  LisMaxEdits = 1
  LisMaxFaults = 0
INVARIANT ListenersUseCert
\* Edits are used up.
CHECK_DEADLOCK FALSE
