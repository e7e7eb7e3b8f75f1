SPECIFICATION Spec
CONSTANTS
  o1 = o1  a1 = a1  a2 = a2  f1 = f1  c1 = c1  c2 = c2  r1 = r1  s1 = s1  h1 = h1
  NULL = NULL
  Organizers = {o1}
  Accounts = {a1, a2}
  Forms = {f1}
  Codes = {c1, c2}
  Requirements = {r1}
  Submitters = {s1}
  Handlers = {h1}
  Sessions = {s1, h1}
  Times = {1, 2, 3}
  NewStatuses = {"created"}
  Replies = {"requested", "under_review", "needs_clarification"}
  Verdicts = {"needs_clarification", "activated", "suspended"}
  OneAtATime = TRUE
  PatientReviews = FALSE
  SameSecond = FALSE
  MaxFaults = 1
INVARIANTS TypeOK IdsBelongTogether SentCodeIsStored OneAccountPerOrganizer FinishIsAccepted Converged VerifiedByRazorpay
PROPERTIES IdsAreKept OnlyWebhooksSendBack
CHECK_DEADLOCK FALSE
