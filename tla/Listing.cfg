\* A walk through the pages of three accounts, while a fourth appears and the
\* others change.
SPECIFICATION Spec
CONSTANTS
  Null = Null
  Early <- MCEarly
  Late = {4}
  Role = {"USER"}
  Name <- MCName
  EmailOf <- MCEmailOf
  Time = {1, 2, 3, 4}
  Filters <- MCFilters
  Sizes = {1, 2}
  MaxWrites = 3
INVARIANTS
  ListingTypeOK
  OnlyWanted
  NothingSkipped
  TotalCoversItems
  ListingInv
CHECK_DEADLOCK FALSE
