\* Three containers and the script race for the tables and the administrator,
\* fail and restart. No symmetry: a property is temporal.
SPECIFICATION FairSpec
CONSTANTS
  Null = Null
  Container = {c1, c2, c3}
  Script = {s1}
  MaxFaults = 2
INVARIANTS
  StartupInv
  OneBootstrapAccount
  ServingIsBootstrapped
PROPERTIES
  EveryContainerServes
CHECK_DEADLOCK FALSE
