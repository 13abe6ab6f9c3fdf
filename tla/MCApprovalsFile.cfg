SPECIFICATION MCSpec
CONSTANTS
  Adders = {"a1", "a2"}
  Droppers = {"d1"}
  Worktrees = {"w1", "w2"}
  Codes <- TwoCodes
  Saved <- CutBetween
  Faults = {"crash", "power", "disk", "broken", "unparsed"}
INVARIANTS NoneLost FileWhole
PROPERTY DropsGoneOnly
CHECK_DEADLOCK FALSE
