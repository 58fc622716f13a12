SPECIFICATION Spec
CONSTANTS
  NONE = NONE
  home = home
  tunnel = tunnel
  macA = macA
  macB = macB
  Keys = {1, 2}
  Macs = {macA, macB}
  Sources <- LinuxSources
  Prints <- Linux
  Paths = {home, tunnel}
  NetworkOf <- Networks
  GatewayOf <- ObservedGateways
  RouteGatewayOf <- RouteGateways
  InitialPaths = {tunnel}
  InitialTable <- Neighborhood
  KernelRows <- Rows
  InitialMode = "peers"
  CanNavigate = TRUE
  OperatorKeys = {"Down", "Tab"}
  Capacities = {0, 2}
  MaxChanges = 2
  MaxReads = 3
  MaxKeys = 1
  MaxExpiries = 2
CHECK_DEADLOCK FALSE
INVARIANTS
  CachedAgrees
  ChangeIsReal
PROPERTIES
  PlainAgrees
  SelectionKept
  MovesFromHighlight
