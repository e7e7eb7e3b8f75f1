--------------------------- MODULE MCRefreshTokens ---------------------------
(* Small instances of RefreshTokens.                                        *)
EXTENDS RefreshTokens, TLC

CONSTANTS u1, u2, q1, q2, q3, t1, t2, t3, t4, p1, p2

(* The users of one run differ: some wait for answers.                      *)
Symmetry ==
  Permutations(Patient) \cup Permutations(Users \ Patient) \cup Permutations(Requests)
    \cup Permutations(Tokens) \cup Permutations(Passwords)
=============================================================================
