\* One client, one reloader, then shutdown.
SPECIFICATION Spec
CONSTANTS
  Clients = {c1}
  Reloaders = {r1}
  Monitors = {}
  Publishers = {}
  Envelopes = {}
  InstancesMax = 1
  MaxGenerations = 2
  WriterFirst = TRUE
INVARIANTS
  DrainedMeansNothingInFlight
\* The host stops after shutdown.
CHECK_DEADLOCK FALSE
