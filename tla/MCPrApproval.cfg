CONSTANTS
  w2 = w2
  q2 = q2
  Writers = {w1, w2}
  Approvers = {a1}
  Questions = {q1, q2}
  Runners = {r1, r2}
  None = None
  Expiry = 1
  Faulty = TRUE
  KillIn = {"none", "pending", "approved", "declined", "running", "ran"}
  Reuse = TRUE
SPECIFICATION MCSpec
INVARIANTS RunsOnce NoLostUpdate OneQuestion
PROPERTIES PostsOnce AnswerEndsQuestion
SYMMETRY Programs
