CONSTANTS
  localMaas = localMaas
  local = local
  saas = saas
  localService = localService
  Unwatched = Unwatched
  r1 = r1
  r2 = r2
  Requests = {r1}
  Providers <- MCProviders
  OpenWindow = 1
  Services = {localService}
  StaleAfter = 0
  Chain <- MCChain
  MeteredChain <- MCMeteredChain
  ServiceOf <- MCServiceOf
  Family <- MCFamily
  ViaMaas = {localMaas}
  Profiles <- MCProfiles
SPECIFICATION Spec
INVARIANTS
  UnavailableMeansUntried
  FallbackJustified
CHECK_DEADLOCK FALSE
