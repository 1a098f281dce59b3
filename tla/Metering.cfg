CONSTANTS
  s1 = s1
  s2 = s2
  u1 = u1
  alice = alice
  bob = bob
  tenant = tenant
  HoldBack = 2
  Overlap = 1
  LongestMatch = 2
  Limits = {tenant, alice}
  Ceiling <- MCCeiling
  Personas = {alice, bob}
  MaxStreams = 1
  Windows = {0, 1}
  Calls = {s1, s2, u1}
  Streaming = {s1, s2}
  Blocking = {s1, u1}
  FailClosed = {s1}
  Exempt = {}
  InProject = {s1, s2}
  PersonaOf <- MCPersonaOf
  LimitsOf <- MCLimitsOf
  Estimates = {1, 2}
  Usages = {2}
  Budget <- MCBudget
  EventSizes = {0, 1, 2}
  MaxReply = 4
  MaxHeld = 2
SPECIFICATION Spec
INVARIANTS
  ReservedIsInFlight
  OverrunBounded
  CountedOnce
  NoPartOfAMatchSent
  OverMeansSettled
CHECK_DEADLOCK FALSE
