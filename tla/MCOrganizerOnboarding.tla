------------------------ MODULE MCOrganizerOnboarding ------------------------
(* Small instances of OrganizerOnboarding: one organizer, one or two        *)
(* accounts.                                                                *)
EXTENDS OrganizerOnboarding, TLC

CONSTANTS o1, a1, a2, f1, c1, c2, r1, s1, h1
=============================================================================
