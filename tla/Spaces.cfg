SPECIFICATION FairSpec
CONSTANTS
  ann = ann
  bob = bob
  club = club
  plaza = plaza
  Users = {ann, bob}
  Spaces = {club, plaza}
  Requests = {r1, r2}
  Topics = {t1}
  Consumers = {a1}
  Keys = {k1}
  Calls = {c1, c2}
  Admin = Admin
  Beginnings <- Towns
  Visibilities = {"private", "team", "public"}
  Roles = {"admin", "member", "viewer"}
  MaxArrivals = 3
  MaxFailures = 1
  NULL = NULL
INVARIANT SpacesTypeOK
INVARIANT SpacesConsistent
PROPERTY ActsWithAuthority
PROPERTY DecidedOnce
CHECK_DEADLOCK FALSE
PROPERTY EveryCallAnswered
