SPECIFICATION EasFair
CONSTANTS
  m1 = m1  m2 = m2
  EasIds <- TwoMails
  EasWindow = 1
  EasMaxTime = 2
  EasMaxVersion = 2
INVARIANT MissedIsExplained
PROPERTY PendingArrives PingNotices
