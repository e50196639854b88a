SPECIFICATION SessionsSpec
CONSTANTS
  MaxSize = 1
  MaxLines = 9
  Profiles <- FourProfiles
  g1 = g1  g2 = g2
  WmIds <- TwoMails
  WmSlots <- TwoTabs
  WmWorks <- TwoTabs
  WmCasts <- WebCasts
INVARIANT RepliesInOrder BelievedIsTrue AuthBeforeMail MessagesAreWhole WebHolds
\* The session ends, and lines and requests are used up.
CHECK_DEADLOCK FALSE
