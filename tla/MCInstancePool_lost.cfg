\* Four invocations, instantiate may fail.
SPECIFICATION Spec
CONSTANTS
  Clients = {c1, c2, c3, c4}
  Instances = {i1, i2, i3}
  NoInstance = NoInstance
  InstancesMin = 0
  InstancesMax = 2
  InstanceIdle = 1
  CheckoutTimeout = 2
  InstantiateFails = TRUE
SYMMETRY Symmetry
INVARIANT WaitsOnlyAtCeiling
