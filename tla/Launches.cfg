CONSTANTS
  first = first
  again = again
  ann = ann
  Calls = {first, again}
  Users = {ann}
  CallerOf <- MCCallerOf
  Copies = 2
  Ttl = 1
  Leeway = 1
  Limit = 1
  Window = 2
  MaxTime = 4
  MaxRestarts = 1
SYMMETRY Symmetry
SPECIFICATION Spec
INVARIANTS
  RunsOnce
  LaunchesLimited
  SlotsHeld
CHECK_DEADLOCK FALSE
