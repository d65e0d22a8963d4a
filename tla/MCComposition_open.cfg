\* Every deployment of MCComposition, for the one claim that does not hold.
SPECIFICATION Spec
CONSTANTS
  store = store
  sockets = sockets
  routing = routing
  clock = clock
  foreign = foreign
  handler = handler
  NoVersion = NoVersion
  Paths <- MCPaths
  Ambient <- MCAmbient
  BridgeReachable <- MCBridgeReachable
  Versions <- MCVersions
  Deployments <- MCDeployments
INVARIANTS
  NothingLeftOpen
\* A build ends.
CHECK_DEADLOCK FALSE
