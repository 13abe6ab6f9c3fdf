SPECIFICATION MCSpec
CONSTANTS
  r1 = r1
  r2 = r2
  r3 = r3
  r4 = r4
  NoRun = NoRun
  Runs = {r1, r2, r3, r4}
  KeyOf <- OneOtherKey
  BaseGiven = {r3}
  HasApprovals = TRUE
  MaxFaults = 2
  MaxSnaps = 1
  MaxUser = 1
  Kills = TRUE
  Orphans = FALSE
  Interrupts = TRUE
  PathRank <- ByName
  QuickRuns = TRUE
  MaxChanges = 2
  MaxLaunchFaults = 1
INVARIANTS SlugIsOwned ResultsAreTrue StatusIsNewest LaunchIsSound
PROPERTY KeepsPreRunCommit
CHECK_DEADLOCK FALSE
