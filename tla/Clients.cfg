SPECIFICATION ClientsSpec
CONSTANTS
  p1 = p1  m1 = m1  m2 = m2  s1 = s1  s2 = s2  f1 = f1
  Sessions <- OneSession
  Eager <- Patient
  Ids <- TwoMessages
  MaxLines = 7
  ImSessions <- TwoSessions
  ImEager <- Hasty
  ImUids = {1, 2}
  ImFolders <- OneFolder
  ImAsks <- MarkUnmark
  ImMay <- Different
  ImMaxLines <- ThreeEach
  LisPorts = {465, 25}
  LisDefaults <- TwoDefaults
  LisMaxEdits = 2
  LisMaxFaults = 1
INVARIANT SameNumberSameMessage SessionsAgree QuietIsCurrent
PROPERTY QuitDoesAsMarked OnlyMarkedGoes EveryLineIsAnswered PortsFollowRows
\* Lines, edits and faults are used up.
CHECK_DEADLOCK FALSE
