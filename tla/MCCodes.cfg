SPECIFICATION Spec
CONSTANTS
  u1 = u1  u2 = u2  q1 = q1  q2 = q2  r1 = r1  r2 = r2  r3 = r3  c1 = c1  c2 = c2  c3 = c3
  NULL = NULL
  Users = {u1, u2}
  Requests = {q1, q2}
  Rows = {r1, r2}
  Codes = {c1, c2}
  MaxAttempts = 3
  Patient = {u1}
INVARIANTS TypeOK GuessLimitInTurn AcceptedOnceInTurn GoodUntilSpentInTurn SpentIsSpent
PROPERTIES VerifiedByMail
SYMMETRY Symmetry
CHECK_DEADLOCK FALSE
