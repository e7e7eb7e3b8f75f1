SPECIFICATION Spec
CONSTANTS
  u1 = u1  u2 = u2  q1 = q1  q2 = q2  r1 = r1  r2 = r2  r3 = r3  c1 = c1  c2 = c2  c3 = c3
  NULL = NULL
  Users = {u1}
  Requests = {q1, q2}
  Rows = {r1, r2, r3}
  Codes = {c1, c2, c3}
  MaxAttempts = 2
  Patient = {}
INVARIANTS GuessLimit
SYMMETRY Symmetry
CHECK_DEADLOCK FALSE
