\* One client, two reloads that may overlap, a monitor and a publisher; one envelope; fair
\* threads.
SPECIFICATION FairSpec
CONSTANTS
  Clients = {c1}
  Reloaders = {r1, r2}
  Monitors = {m1}
  Publishers = {p1}
  Envelopes = {e1}
  InstancesMax = 1
  MaxGenerations = 3
  WriterFirst = TRUE
INVARIANTS
  HostTypeOK
  ServingPoolOpen
  SupersededPoolsClose
  EnvelopesOfServing
PROPERTIES
  ReportIsOneMoment
  ServesAsPromised
  EveryCallReturns
\* The host stops after shutdown.
CHECK_DEADLOCK FALSE
