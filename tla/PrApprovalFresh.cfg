\* An agent command, a popup and a phone question; nothing fails.
CONSTANTS
  Writers = {w1}
  Approvers = {a1}
  Questions = {q1}
  Runners = {r1}
  None = None
  Expiry = 1
  Faulty = FALSE
  KillIn = {}
  Reuse = FALSE
SPECIFICATION Spec
INVARIANTS
  FreshAnswer
