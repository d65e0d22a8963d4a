\* A u64 of 16 bits and a K of 16, so that products pass the width; texts of up to three
\* characters; two interfaces.
SPECIFICATION Spec
CONSTANTS
  MaxU64 = 65535
  Kibi = 16
  Interfaces = {"x", "y"}
  SizeTexts <- MCSizes
  DurationTexts <- MCDurations
  Configurations <- MCConfigurations
  LogLevels <- MCLevels
  LogRecords <- MCRecords
  HostWits <- MCWits
INVARIANTS
  SizesExact
  DurationsExact
  AcceptedFitsPool
  StreamReadsBack
  OneLineUnlessValueBreaks
  ParityMeansServed
\* There is one step.
CHECK_DEADLOCK FALSE
