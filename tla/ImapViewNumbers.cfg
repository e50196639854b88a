SPECIFICATION ImSpec
CONSTANTS
  s1 = s1  f1 = f1
  ImSessions <- OneSession
  ImEager <- Patient
  ImUids = {1, 2, 3}
  ImFolders <- OneFolder
  ImAsks <- Mark
  ImMay <- Storing
  ImMaxLines <- FourLines
INVARIANT StoreTakesNumbers
\* The client sends no more than its lines.
CHECK_DEADLOCK FALSE
