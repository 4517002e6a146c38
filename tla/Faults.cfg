\* Every endpoint, two requests, with statement failures, lost answers and
\* crashes at every point, with the history variables. No symmetry: a property is temporal.
SPECIFICATION FairHistorySpec
CONSTANTS
  Null = Null
  admin = admin
  user = user
  e1 = e1
  e2 = e2
  e3 = e3
  Req = {admin, user, r1, r2}
  Email = {e1, e2, e3}
  Seed = {admin, user}
  SeedEmail <- MCSeedEmail
  SeedAdmin = {admin}
  SeedInactive = {}
  Ops = {"register", "login", "refresh", "logout", "create", "update", "deactivate"}
  Roles = {Null, "USER"}
  Actives = {Null, FALSE}
  Faults = TRUE
  AccessTTL = 1
  RefreshTTL = 2
  Second = 1
  MaxTime = 0
INVARIANTS
  TypeInv
  AllOrNothing
  NoSessionLost
  DeactivatedIsLockedOut
  NoCircularWait
  LockOrder
PROPERTIES
  DeactivationRevokes
  EveryRequestAnswered
  ImplementsService
CHECK_DEADLOCK FALSE
