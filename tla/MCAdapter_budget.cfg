\* One instance of an empty component.
SPECIFICATION FairSpec
CONSTANTS
  Names = {a}
  MaxPayloads = 0
  Instances = {i1}
  EpochInterruption = TRUE
  EpochDeadlineTicks = 3
PROPERTIES
  BudgetIsWhole
\* A file that is refused is the end.
CHECK_DEADLOCK FALSE
