SPECIFICATION JobsSpec
CONSTANTS
  e1 = e1  h1 = h1
  Local = {l1}
  Ext = {e1}
  Hop = {h1}
  HopOf <- HopOfOne
  Hosts <- HostsOfOne
  MaxAttempts = 2
  MaxCrashes = 1
  MaxAdminRetries = 1
  u1 = u1  u2 = u2  b1 = b1  k1 = k1  k2 = k2
  BakSchedules <- OneSchedule
  BakCrons <- TwoCrons
  BakUsers <- TwoUsers
  BakMaxJobs = 2
  BakMaxEdits = 2
  BakMaxFaults = 1
INVARIANT DoneMeansServed CopiesBounded FailureIsReported AttachmentsKept
PROPERTY CancelStands ImplementsDelivery QueueSettles JobsEnd SchedulesFollow
\* Jobs are settled, edits and faults are used up.
CHECK_DEADLOCK FALSE
