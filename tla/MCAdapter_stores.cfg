\* Files of up to five payloads and their ends; two instances with a limit of three ticks.
SPECIFICATION FairSpec
CONSTANTS
  Names = {a}
  MaxPayloads = 5
  Instances = {i1, i2}
  EpochInterruption = TRUE
  EpochDeadlineTicks = 3
INVARIANTS
  AdapterTypeOK
  NothingMissed
  PooledIsFresh
  CallWithinLimit
PROPERTIES
  RunawayInterrupted
\* A file that is refused is the end.
CHECK_DEADLOCK FALSE
