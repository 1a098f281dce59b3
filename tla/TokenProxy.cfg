CONSTANTS
  k1 = k1
  k2 = k2
  k3 = k3
  Callers = {k1, k2, k3}
  Lifetimes = {1, 5}
  MinLifetime = 2
  MaxLifetime = 4
  RefreshAt <- MCRefreshAt
  MaxFetch = 2
  MaxCalls = 4
SPECIFICATION FairSpec
INVARIANTS
  HandedOutInTime
  WaitBounded
PROPERTIES
  CallsEnd
CHECK_DEADLOCK FALSE
