SPECIFICATION Spec
CONSTANTS
  o1 = o1  o2 = o2  a1 = a1  a2 = a2  a3 = a3  f1 = f1  c1 = c1  c2 = c2  r1 = r1
  h1 = h1  h2 = h2
  NULL = NULL
  Organizers = {o1, o2}
  Accounts = {a1, a2, a3}
  Forms = {f1}
  Codes = {c1, c2}
  Requirements = {r1}
  Handlers = {h1, h2}
  Sessions = {h1, h2}
  Times = {1, 2}
  MaxCrashes = 1
  Events <- MixedEvents
  InitialRows <- TwoRows
PROPERTIES AccountNewestWins EventuallyAcked
