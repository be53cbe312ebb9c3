SPECIFICATION FairSpec
CONSTANTS
  a1 = a1
  p1 = p1
  p2 = p2
  NULL = NULL
  DayLength = 24
  WeekLength = 7
  Agents = {a1}
  Topics = {p1, p2}
  Groups = {"default"}
  Homes = {p1}
  Windows <- AllQuietHours
  Beginnings <- Crews
  Moments <- Hours
  StaleAfter = 1
  Calls = {c1, c2}
  MaxArrivals = 2
  MaxEdits = 1
  MaxFailures = 1
INVARIANT PresenceTypeOK
INVARIANT PresenceConsistent
 
PROPERTY SilentGoesOffline
