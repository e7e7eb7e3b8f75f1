SPECIFICATION Spec
CONSTANTS
  u1 = u1  u2 = u2  q1 = q1  q2 = q2  q3 = q3  t1 = t1  t2 = t2  t3 = t3  t4 = t4
  p1 = p1  p2 = p2
  NULL = NULL
  Users = {u1, u2}
  Requests = {q1, q2, q3}
  Tokens = {t1, t2, t3}
  Passwords = {p1, p2}
  Patient = {u1}
INVARIANTS TypeOK OneLiveTokenInTurn QuietCutsHold OldPasswordIsOut
SYMMETRY Symmetry
