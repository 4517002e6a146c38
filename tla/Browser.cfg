\* One browser and three requests that overlap, fail, lose their answers or
\* outlive the cookie; the other account is inactive.
SPECIFICATION BrowserSpec
CONSTANTS
  Null = Null
  admin = admin
  user = user
  e1 = e1
  e2 = e2
  e3 = e3
  Req = {admin, user, r1, r2, r3}
  Email = {e1, e2}
  Seed = {admin, user}
  SeedEmail <- MCSeedEmail
  SeedAdmin = {admin}
  SeedInactive = {user}
  Ops = {"login", "refresh", "logout", "deactivate"}
  Roles = {Null}
  Actives = {Null}
  Faults = TRUE
  AccessTTL = 1
  RefreshTTL = 1
  Second = 1
  MaxTime = 1
SYMMETRY Symmetry
INVARIANTS
  JarFollowsStore
CHECK_DEADLOCK FALSE
