SPECIFICATION MailSpec
CONSTANTS
  u1 = u1  u2 = u2  a1 = a1  r1 = r1  x1 = x1  g1 = g1  g2 = g2
  Boxes <- TwoBoxes
  Aliases <- OneAlias
  TargetOf <- AliasOfUser
  Rooms <- OneRoom
  Outside <- OneOutside
  Envelopes <- Lists
  Ports <- Both
  MaxTries = 2
  MaxFaults = 1
  MaxSwitches = 1
  Guests = {g1, g2}
  Times = {1, 2}
  Editors = {1, 2}
  Readers = {1, 2}
  Casts <- FiveCasts
INVARIANT AcceptedIsAccounted CopiesAreCounted GuestsFollow AnswersHold
PROPERTY SenderLearns
\* The peer is done; edits and replies are used up.
CHECK_DEADLOCK FALSE
