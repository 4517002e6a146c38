\* Three requests to /login, /refresh, /logout and PUT, in sequence and
\* overlapping, with the history variables. A PUT deactivates or re-activates, and
\* one account is inactive, so that a deactivation can overlap a re-activation.
SPECIFICATION HistorySpec
CONSTANTS
  Null = Null
  admin = admin
  user = user
  e1 = e1
  e2 = e2
  e3 = e3
  Req = {admin, user, r1, r2, r3}
  Email = {e1, e2}
  Seed = {admin, user}
  SeedEmail <- MCSeedEmail
  SeedAdmin = {admin}
  SeedInactive = {user}
  Ops = {"login", "refresh", "logout", "update"}
  Roles = {Null}
  Actives = {TRUE, FALSE}
  Faults = FALSE
  AccessTTL = 1
  RefreshTTL = 2
  Second = 1
  MaxTime = 0
SYMMETRY Symmetry
INVARIANTS
  ConsumedTokenGone
  SessionInv
  NoSessionLost
  ReuseRefused
  DeactivatedIsLockedOut
PROPERTIES
  DeactivationRevokes
  ImplementsService
CHECK_DEADLOCK FALSE
