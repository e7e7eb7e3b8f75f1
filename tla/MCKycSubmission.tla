--------------------------- MODULE MCKycSubmission ---------------------------
(* A small instance of KycSubmission: two requests of one organizer.        *)
EXTENDS KycSubmission, TLC

CONSTANTS o1, a1, a2, f1, c1, c2, c3, r1, s1, s2
=============================================================================
