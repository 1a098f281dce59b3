CONSTANTS
  localMaas = localMaas
  local = local
  saas = saas
  localService = localService
  Unwatched = Unwatched
  r1 = r1
  r2 = r2
  Requests = {r1, r2}
  Providers <- MCOneProvider
  OpenWindow = 2
  Services = {}
  StaleAfter = 0
  Chain <- MCShortChain
  MeteredChain <- MCShortMetered
  ServiceOf <- MCAllUnwatched
  Family <- MCFamily
  ViaMaas = {localMaas}
  Profiles <- MCNoSkips
SPECIFICATION FairSpec
PROPERTIES
  ProbesSpaced
  NeverSkippedForGood
  RequestsEnd
CHECK_DEADLOCK FALSE
