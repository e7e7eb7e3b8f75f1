--------------------------- MODULE MCOneTimeCodes ---------------------------
(* Small instances of OneTimeCodes.                                         *)
EXTENDS OneTimeCodes, TLC

CONSTANTS u1, u2, q1, q2, r1, r2, r3, c1, c2, c3

(* The users of one run differ: requests for some come in turn.             *)
Symmetry ==
  Permutations(Patient) \cup Permutations(Users \ Patient) \cup Permutations(Requests)
    \cup Permutations(Rows) \cup Permutations(Codes)
=============================================================================
