\* Four invocations on a pool of one to two instances, every failure possible.
SPECIFICATION Spec
CONSTANTS
  Clients = {c1, c2, c3, c4}
  Instances = {i1, i2, i3}
  NoInstance = NoInstance
  InstancesMin = 1
  InstancesMax = 2
  InstanceIdle = 2
  CheckoutTimeout = 2
  InstantiateFails = TRUE
SYMMETRY Symmetry
INVARIANTS
  TypeOK
  CountersHonest
  Ceiling
  Isolation
  NoStrandedInstance
  CloseWakesEveryWaiter
  OldestFirst
PROPERTIES
  ExhaustedOnlyAtDeadline
  KeepsPromise
