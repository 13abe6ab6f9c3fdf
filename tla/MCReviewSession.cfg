SPECIFICATION MCSpec
CONSTANTS
  a1 = a1
  a2 = a2
  s1 = s1
  s2 = s2
  x = x
  y = y
  gone = gone
  Agents = {a1, a2}
  Screens = {s1, s2}
  NumComments = 2
  FileOf <- TwoFiles
  Named = {1}
  BaseText <- Base
  Texts = {x, y}
  Gone = gone
  Suggestions = {"cut"}
  MaxEdits = 2
  MaxSends = 3
  Losses = {"crash", "save", "listing"}
INVARIANTS SessionFits ApprovedWasSeen WaitingIsListed
PROPERTY NoAnswerLost
CHECK_DEADLOCK FALSE
