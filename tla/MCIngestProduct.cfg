SPECIFICATION Spec
CONSTANTS
  o1 = o1  o2 = o2  a1 = a1  a2 = a2  a3 = a3  f1 = f1  c1 = c1  c2 = c2  r1 = r1
  h1 = h1  h2 = h2
  NULL = NULL
  Organizers = {o1}
  Accounts = {a1}
  Forms = {f1}
  Codes = {c1}
  Requirements = {r1}
  Handlers = {h1, h2}
  Sessions = {h1, h2}
  Times = {1, 2}
  MaxCrashes = 1
  Events <- ProductEvents
  InitialRows <- OneRow
INVARIANTS TypeOK StatusesAgree AckedAreRecorded
PROPERTIES ProductNewestWins EffectsAreRecorded
