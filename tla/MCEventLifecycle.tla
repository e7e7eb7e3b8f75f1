-------------------------- MODULE MCEventLifecycle --------------------------
(* Small instances of EventLifecycle.                                       *)
EXTENDS EventLifecycle, TLC

CONSTANTS o1, o2, e1, e2, q1, q2, q3, n1, n2

(* Bodies of PATCH: a sale moved later, an event moved earlier, an event    *)
(* and its sale moved together, a date cleared, and nothing at all.         *)
MCEdits ==
  {"sale_start" :> 2, "start" :> 1, "sale_end" :> 2,
   ("sale_start" :> 1) @@ ("start" :> 2),
   "start" :> NULL, "sale_end" :> NULL, <<>>}

Symmetry ==
  Permutations(Patient) \cup Permutations(Organizers \ Patient) \cup Permutations(Requests)
    \cup Permutations(Events) \cup Permutations(Names)
=============================================================================
