SPECIFICATION Spec
CONSTANTS
  o1 = o1  a1 = a1  a2 = a2  f1 = f1  c1 = c1  c2 = c2  c3 = c3  r1 = r1  s1 = s1  s2 = s2
  NULL = NULL
  Organizers = {o1}
  Accounts = {a1, a2}
  Forms = {f1}
  Codes = {c1, c2, c3}
  Requirements = {r1}
  Submitters = {s1, s2}
  Sessions = {s1, s2}
  Times = {1}
  NewStatuses = {"created"}
  Replies = {"needs_clarification", "activated"}
  OneAtATime = FALSE
  MaxFaults = 1
INVARIANTS FinishIsAccepted ReviewedRowsAreComplete
PROPERTIES SubmissionsEnd

CHECK_DEADLOCK FALSE
