\* Two overlapping requests that make, change and use accounts, with every role,
\* a free address, and half-second ticks in which tokens expire.
SPECIFICATION HistorySpec
CONSTANTS
  Null = Null
  admin = admin
  user = user
  e1 = e1
  e2 = e2
  e3 = e3
  Req = {admin, user, r1, r2}
  Email = {e1, e2, e3}
  Seed = {admin, user}
  SeedEmail <- MCSeedEmail
  SeedAdmin = {admin}
  SeedInactive = {}
  Ops = {"register", "create", "update", "login", "refresh"}
  Roles = {Null, "USER", "ADMIN"}
  Actives = {Null, FALSE}
  Faults = FALSE
  AccessTTL = 2
  RefreshTTL = 4
  Second = 2
  MaxTime = 4
SYMMETRY Symmetry
INVARIANTS
  UniqueEmail
  NoSelfPromotion
  RoleInv
  RowMatchesToken
  DemotedIsNoAdmin
CHECK_DEADLOCK FALSE
