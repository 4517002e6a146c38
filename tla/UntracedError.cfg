\* A request whose endpoint raises an exception that no handler maps.
SPECIFICATION Spec
CONSTANTS
  Request = {r1, r2}
  ClientId = {i1, i2}
  Empty = Empty
INVARIANTS
  EveryResponseTraced
CHECK_DEADLOCK FALSE
