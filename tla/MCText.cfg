SPECIFICATION MCSpec
CONSTANTS
  Files = {"a"}
  Language <- Python
  Enders = {"w.", "one.", "two.", "three."}
  Colons = {"key:", "url:", "Why:"}
  Fillers = {"seamless"}
  LongNames = {"long"}
  Tests = {}
  Verbless = {"load"}
  Bases <- ReviewBases
  Earlier <- Decided
  Blocks <- ReviewBlocks
  Texts <- ReviewTexts
  MaxEdits = 2
INVARIANT StyleFailsRightly
PROPERTY PageKeepsComment
CHECK_DEADLOCK FALSE
