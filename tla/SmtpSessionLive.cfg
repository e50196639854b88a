SPECIFICATION FairSpec
CONSTANTS
  MaxSize = 1
  MaxLines = 7
  Profiles <- MCLive
PROPERTY EveryCommandAnswered SessionEnds
\* the session ends, and its lines are used up
CHECK_DEADLOCK FALSE
