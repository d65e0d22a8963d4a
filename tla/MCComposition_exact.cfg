\* Every deployment of MCComposition.
SPECIFICATION Spec
CONSTANTS
  store = store
  sockets = sockets
  routing = routing
  clock = clock
  foreign = foreign
  handler = handler
  NoVersion = NoVersion
  Paths <- MCPaths
  Ambient <- MCAmbient
  BridgeReachable <- MCBridgeReachable
  Versions <- MCVersions
  Deployments <- MCDeployments
INVARIANTS
  CompositionTypeOK
  LeftOpenOnlyByKeys
  RefusedOnlyByNames
  BridgesBringOnlyAllowed
  ManifestTellsComposed
\* A build ends.
CHECK_DEADLOCK FALSE
