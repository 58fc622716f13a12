SPECIFICATION Spec
CONSTANTS
  NONE = NONE
  REDACTED = REDACTED
  wlan0 = wlan0
  eth0 = eth0
  home = home
  r1 = r1
  r2 = r2
  g1 = g1
  g2 = g2
  m1 = m1
  m2 = m2
  m3 = m3
  here = here
  there = there
  Interfaces = {wlan0}
  Underlays = {}
  Names = {home}
  Gateways = {g1, g2}
  ResolverLists = {r1, r2}
  Leases = {}
  Grace = 1
  Probes = {}
  Collectors = {"Wifi", "Peers"}
  MaxSamples = 1
  MaxDwells = 1
  Observers = {here, there}
  Macs = {m1, m2, m3}
  ThisHost = here
  WifiInterfaces = {wlan0}
  RouterOf <- Router
  OsLinks <- Roaming
  InitialFiles <- Logs
  MaxLives = 2
  MaxGeneration = 2
  MaxTime = 2
  MaxRecords = 2
CHECK_DEADLOCK FALSE
INVARIANT
  HistoryFenced
