CONSTANTS
  Watched <- MCWatched
  Contents <- MCContents
  First <- MCFirst
  Baked <- MCBaked
  NoExcludes <- MCNoExcludes
  Broken = "broken"
  Missing = "missing"
  Poison = "poison"
  Listed = "listed"
  Empty = "empty"
  Forgetful = {"routing", "policy"}
  MaxWrites = 2
  FrontDoorTools = {"search", "pages"}
  EntitledAlways = FALSE
  DefaultLevel = 1
  ClientFloors <- MCClientFloors
  FailClosed = {"desk"}
  Releases <- MCReleases
  FirstRelease = "first"
  Asks <- MCAsks
  Payloads = {0, 2}
  Calls <- MCCalls
  Tables <- MCTables
  Policies <- MCPolicies
  Floors <- MCFloors
  MaxReloads = 1
  MaxResults = 2
SPECIFICATION Spec
INVARIANTS
  NotedIsLoaded
  CopiesAgree
  DelegationNarrows
  ResultsKeepTheirLevel
  SentWhereAllowed
CHECK_DEADLOCK FALSE
