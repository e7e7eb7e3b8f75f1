SPECIFICATION Spec
CONSTANTS
  o1 = o1  a1 = a1  a2 = a2  f1 = f1  c1 = c1  c2 = c2  r1 = r1  s1 = s1  h1 = h1
  NULL = NULL
  Organizers = {o1}
  Accounts = {a1}
  Forms = {f1}
  Codes = {c1}
  Requirements = {r1}
  Submitters = {s1}
  Handlers = {h1}
  Sessions = {s1, h1}
  Times = {1, 2}
  NewStatuses = {"created"}
  Replies = {"under_review", "needs_clarification"}
  Verdicts = {"under_review", "needs_clarification", "activated"}
  OneAtATime = TRUE
  PatientReviews = FALSE
  SameSecond = FALSE
  MaxFaults = 1
INVARIANTS CanRetryWhenTold

CHECK_DEADLOCK FALSE
