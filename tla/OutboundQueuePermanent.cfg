SPECIFICATION Spec
CONSTANTS
  e1 = e1
  h1 = h1
  Local = {l1}
  Ext = {e1}
  Hop = {h1}
  HopOf <- MCHopOfOne
  Hosts <- MCHostsOfOne
  MaxAttempts = 2
  MaxCrashes = 0
  MaxAdminRetries = 0
INVARIANT PermanentIsFinal
CHECK_DEADLOCK FALSE
