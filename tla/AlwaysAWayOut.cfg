CONSTANTS
  Hosts <- MCHosts
  Configs <- MCConfigs
  Routes <- MCRoutes
  BSDNames = {en1, en2}
  NoName = NoName
  Nodes = {n1, n2}
  Endpoints = {1, 2}
  Slots = {c1, c2}
  Texts = {"plain", "conflicting"}
SPECIFICATION HostSpec
INVARIANT AlwaysAWayOut
CHECK_DEADLOCK FALSE
