\* A nested component with a core module and an export of its own.
SPECIFICATION Spec
CONSTANTS
  Names = {a, b}
  MaxPayloads = 3
  Instances = {}
  EpochInterruption = TRUE
  EpochDeadlineTicks = 1
INVARIANTS
  OnlyOutermost
\* Nothing is done with the component once it is loaded.
CHECK_DEADLOCK FALSE
