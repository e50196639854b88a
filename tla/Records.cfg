SPECIFICATION RecordsSpec
CONSTANTS
  w1 = w1  w2 = w2  r1 = r1  r2 = r2  g1 = g1  g2 = g2  e1 = e1  a1 = a1  a2 = a2
  PMark = PMark  PArchive = PArchive  InboxTag = InboxTag  RestTag = RestTag
  Folders = {f1}
  Ids = {i1, i2}
  Writers = {w1, w2}
  Mixes <- Arriving
  Flags = {"Seen"}
  RuleFlags = {}
  CounterLimit = 10
  MaxOps = 3
  MaxClock = 2
  MaxUid = 6
  MaxCrashes = 0
  Apart = TRUE
  MaxRows = 1
  PushAccounts <- TwoAccounts
  PushSlots = {1, 2}
  PushMaxState <- TwoAndOne
  PushMaxToggles = 2
  PushMaxFaults = 1
  SubRequests = {1, 2}
  SubMaxActs = 4
  SubMaxFaults = 2
  RoomIds <- TwoRooms
  Meetings <- TwoMeetings
  RoomTimes <- SomeTimes
  RoomGuests <- SomeGuests
  RoomHandlers = {1, 2}
  RoomMaxActs = 3
  RoomMaxEdits = 1
  RetIds <- OneMessage
  RetKept <- TwoFolders
  RetTags <- FourTags
  RetPersonal <- Personal
  RetAction <- ActionOf
  RetDays <- OneDayEach
  RetRpt <- InboxOnly
  RetDpt = RestTag
  RetTtl = 1
  RetRuns = {1, 2}
  RetMaxDay = 3
  RetMaxActs = 2
  CertMaxRows = 2
  CertSlots = {1, 2}
  CertReloads = {1, 2}
  CertMaxActs = 2
  CertMaxFaults = 1
INVARIANT MissesOnlyLate  NothingForgotten SubmissionsAreTrue BookingsHold TagsAreObeyed QuotaAgrees
\* Operations, mails and days are used up.
CHECK_DEADLOCK FALSE
SYMMETRY Symmetry
