SPECIFICATION Spec
CONSTANTS
  NONE = NONE
  REDACTED = REDACTED
  en0 = en0
  utun4 = utun4
  wlanA = wlanA
  wlanB = wlanB
  home = home
  cafe = cafe
  r1 = r1
  r2 = r2
  g1 = g1
  g2 = g2
  l1 = l1
  l2 = l2
  Interfaces = {en0, utun4}
  Underlays = {wlanA, wlanB}
  Names = {home, cafe}
  Gateways = {g1, g2}
  ResolverLists = {r1, r2}
  Leases = {l1, l2}
  Grace = 2
  FullEvery = 2
  Probes = {}
  Collectors = {}
  MaxSamples = 2
  MaxDwells = 2
  Mode = "overview"
  OsLinks <- HiddenRouteAndResolvers
  MaxOsChanges = 3
  MaxQueue = 1
  InitialPolicies = {"passive"}
  Keys = {"p"}
  MaxKeys = 2
CHECK_DEADLOCK FALSE
PROPERTIES
  ShortLossHeld
