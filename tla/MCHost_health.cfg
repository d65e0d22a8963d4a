\* A reload and a health call next to one client; fair threads.
SPECIFICATION FairSpec
CONSTANTS
  Clients = {c1}
  Reloaders = {r1}
  Monitors = {m1}
  Publishers = {}
  Envelopes = {}
  InstancesMax = 1
  MaxGenerations = 2
  WriterFirst = TRUE
PROPERTIES
  CheckoutReturns
\* The host stops after shutdown.
CHECK_DEADLOCK FALSE
