\* Two requests, in any order or overlapping, with two client ids.
SPECIFICATION Spec
CONSTANTS
  Request = {r1, r2}
  ClientId = {i1, i2}
  Empty = Empty
INVARIANTS
  ReportedTraceIsOwn
CHECK_DEADLOCK FALSE
