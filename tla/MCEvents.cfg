SPECIFICATION Spec
CONSTANTS
  o1 = o1  o2 = o2  e1 = e1  e2 = e2  q1 = q1  q2 = q2  q3 = q3  n1 = n1  n2 = n2
  NULL = NULL
  Organizers = {o1, o2}
  Events = {e1}
  Requests = {q1, q2}
  Names = {n1, n2}
  Times = {1, 2, 3}
  Edits <- MCEdits
  Patient = {o1}
INVARIANTS TypeOK PublishedHasTiers TiersHaveEvents
PROPERTIES NeverUnpublished BarredDoNotPublish PublishedIsFinalInTurn
SYMMETRY Symmetry
