\* Two requests and a probe on two connections, two of which PostgreSQL ends.
\* No symmetry: properties are temporal.
SPECIFICATION PoolSpec
CONSTANTS
  Null = Null
  admin = admin
  e1 = e1
  Req = {admin, r1, r2}
  Email = {e1, e2}
  Seed = {admin}
  SeedEmail <- MCSeedEmail
  SeedAdmin = {admin}
  SeedInactive = {}
  Ops = {"register", "refresh", "deactivate"}
  Roles = {Null}
  Actives = {Null}
  Faults = FALSE
  AccessTTL = 1
  RefreshTTL = 2
  Second = 1
  MaxTime = 0
  Conn = {c1, c2}
  Probe = {p1}
  MaxDisconnects = 2
INVARIANTS
  AllOrNothing
  PoolInv
  NoPoolDeadlock
PROPERTIES
  EveryCallAnswered
  ConnectionsReturned
  ImplementsCore
CHECK_DEADLOCK FALSE
