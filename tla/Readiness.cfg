\* A probe on a pool of two connections, one of which PostgreSQL has ended.
SPECIFICATION PoolSpec
CONSTANTS
  Null = Null
  admin = admin
  e1 = e1
  Req = {admin, r1}
  Email = {e1, e2}
  Seed = {admin}
  SeedEmail <- MCSeedEmail
  SeedAdmin = {admin}
  SeedInactive = {}
  Ops = {"refresh"}
  Roles = {Null}
  Actives = {Null}
  Faults = FALSE
  AccessTTL = 1
  RefreshTTL = 2
  Second = 1
  MaxTime = 0
  Conn = {c1, c2}
  Probe = {p1}
  MaxDisconnects = 1
INVARIANTS
  ReadyWhenReachable
CHECK_DEADLOCK FALSE
