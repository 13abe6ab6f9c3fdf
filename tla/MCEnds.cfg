SPECIFICATION MCSpec
CONSTANTS
  Input = 2
  MaxOutput = 1
  PipeSize = 1
  Faults = {"kill", "wait"}
INVARIANT EndsCleanly
PROPERTIES WorkEnds ReviewsSettle ApprovedRuns
CHECK_DEADLOCK FALSE
