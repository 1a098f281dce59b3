CONSTANTS
  Ttl = Ttl
  adapter = adapter
  low = low
  high = high
  None = None
  Parameters <- MCParameters
  Values = {low, high}
  Policies <- MCPolicies
  Window = 1
  MaxAudit = 4
SPECIFICATION Spec
INVARIANTS
  OverridesFollowTheLog
  NothingOpenWhenOff
PROPERTY KillIsFinal
CHECK_DEADLOCK FALSE
