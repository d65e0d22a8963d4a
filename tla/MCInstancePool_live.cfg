\* Three invocations on one to two instances, instantiate never fails, fair threads.
SPECIFICATION FairSpec
CONSTANTS
  Clients = {c1, c2, c3}
  Instances = {i1, i2}
  NoInstance = NoInstance
  InstancesMin = 0
  InstancesMax = 1
  InstanceIdle = 1
  CheckoutTimeout = 2
  InstantiateFails = FALSE
INVARIANT
  NoStrandedCapacity
PROPERTIES
  EveryCheckoutReturns
  DrainCompletes
