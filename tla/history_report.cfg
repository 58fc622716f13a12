SPECIFICATION Spec
CONSTANTS
  NONE = NONE
  REDACTED = REDACTED
  wlan0 = wlan0
  eth0 = eth0
  home = home
  r1 = r1
  r2 = r2
  g1 = g1
  g2 = g2
  m1 = m1
  m2 = m2
  m3 = m3
  here = here
  there = there
  Interfaces = {wlan0, eth0}
  Underlays = {}
  Names = {home}
  Gateways = {g1, g2}
  ResolverLists = {r1}
  Leases = {}
  Grace = 1
  Probes = {}
  Collectors = {"Peers"}
  MaxSamples = 1
  MaxDwells = 1
  Observers = {here, there}
  Macs = {m1, m2}
  ThisHost = here
  WifiInterfaces = {}
  RouterOf <- Router
  OsLinks <- WifiOrCable
  InitialFiles <- SharedLogs
  MaxLives = 1
  MaxGeneration = 3
  MaxTime = 5
  MaxRecords = 5
CHECK_DEADLOCK FALSE
INVARIANTS
  EpisodesAgree
  SurfacesAgree
