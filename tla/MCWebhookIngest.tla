--------------------------- MODULE MCWebhookIngest ---------------------------
(* Small instances of WebhookIngest: one organizer whose payout details are *)
(* complete and, in some runs, one whose stakeholder is missing.            *)
EXTENDS WebhookIngest, TLC

CONSTANTS o1, o2, a1, a2, a3, f1, c1, c2, r1, h1, h2

Complete(acct, code) ==
  [NewProfile EXCEPT !.kyc_status = "IN_REVIEW", !.provider_status = "under_review",
                     !.details = f1, !.reference_code = code, !.account_id = acct,
                     !.account_status = "created", !.stakeholder_id = acct,
                     !.product_id = acct, !.submitted = TRUE]

Partial(acct, code) ==
  [NewProfile EXCEPT !.details = f1, !.reference_code = code, !.account_id = acct,
                     !.account_status = "created"]

Product(acct, st, req, at) ==
  [kind |-> "product.route", account |-> acct, status |-> st,
   requirements |-> req, created_at |-> at]

Account(kind, acct, at) ==
  [kind |-> kind, account |-> acct, status |-> NULL,
   requirements |-> NULL, created_at |-> at]

OneRow  == {[o \in {o1} |-> Complete(a1, c1)]}
TwoRows == {(o1 :> Complete(a1, c1) @@ o2 :> Partial(a2, c2))}

(* Product events for one account: two in the same second, one untimed.    *)
ProductEvents ==
  {Product(a1, "needs_clarification", r1, 1), Product(a1, "under_review", NULL, 2),
   Product(a1, "activated", NULL, 2), Product(a1, "needs_clarification", NULL, Never)}

(* Every way a delivery can end: applied, stale, refused by a CHECK (a2's   *)
(* row has no stakeholder), no row (a3), a status this code does not know;  *)
(* and account events, one of them without created_at.                     *)
MixedEvents ==
  {Product(a2, "activated", NULL, 2), Product(a1, Unrecognized, NULL, 2),
   Product(a3, "under_review", NULL, 1), Account("account.suspended", a1, 1),
   Account("account.activated", a1, 2), Account("account.suspended", a1, Never)}
=============================================================================
