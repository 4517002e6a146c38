\* A /login or a /refresh that overlaps a deactivation of the account.
SPECIFICATION Spec
CONSTANTS
  Null = Null
  admin = admin
  user = user
  e1 = e1
  e2 = e2
  e3 = e3
  Req = {admin, user, r1, r2}
  Email = {e1, e2}
  Seed = {admin, user}
  SeedEmail <- MCSeedEmail
  SeedAdmin = {admin}
  SeedInactive = {}
  Ops = {"login", "refresh", "deactivate"}
  Roles = {Null}
  Actives = {Null}
  Faults = FALSE
  AccessTTL = 1
  RefreshTTL = 2
  Second = 1
  MaxTime = 0
SYMMETRY Symmetry
INVARIANTS
  InactiveHasNoSession
CHECK_DEADLOCK FALSE
