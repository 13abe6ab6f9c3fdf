SPECIFICATION MCSpec
CONSTANTS
  NumFiles = 3
  Kept = {2}
  MaxEdits = 2
  MaxFaults = 2
  MaxReviews = 2
  Kills = TRUE
  Signals = TRUE
INVARIANTS AllWrittenOrNone OriginalsSaved EditsSurvive EveryRequestFound
PROPERTIES KeepsPromise WritesAnswersOnly
CHECK_DEADLOCK FALSE
