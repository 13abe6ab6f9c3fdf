SPECIFICATION MCSpec
CONSTANTS
  Presses = {"p1", "p2", "p3"}
  Faults = {"herdr", "kill", "together"}
  Ids = {1, 2}
  InitIds = {1, 2}
  Keys = {"int", "q", "l", "h", "a", "m", "s", "e", "v", "d", "Enter", "Backspace"}
  Env = {"screen", "agent", "save", "load", "refuse"}
  Settle = 1
  MaxQueue = 1
  MaxText = 1
  MaxVersion = 2
  Worktrees <- Trees
  BranchOf <- Branches
  CloneOf <- Clones
  Sessions = {"", "s1", "s2"}
  NoSession = ""
  RowCounts = {3, 6}
  MaxSends = 4
  Events = {"relocate", "finish"}
INVARIANTS NoStrayAnswer AsksWhatIsSaved PickerKeepsReviews RecordNamesPopup WindowsInTurn
CHECK_DEADLOCK FALSE
