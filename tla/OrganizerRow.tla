---------------------------- MODULE OrganizerRow ----------------------------
(***************************************************************************)
(* The organizer_profiles row that KYC submission and the Razorpay         *)
(* webhooks both write: its columns, the CHECK constraints the database    *)
(* evaluates on every UPDATE, the mapping from Razorpay's status to the    *)
(* platform's own, and what an ORM flush writes.                           *)
(*                                                                         *)
(* Columns are abstracted to what the two writers tell apart.  All columns *)
(* of the submitted form are one value, `details`.  stakeholder_id and     *)
(* product_id hold the Razorpay account the stakeholder or product belongs *)
(* to, so that a row whose ids belong together can be told from one whose  *)
(* ids do not.  The two sync columns are seconds, Never standing for NULL. *)
(***************************************************************************)
EXTENDS Naturals

CONSTANTS
  Organizers,     (* rows of organizer_profiles                            *)
  Accounts,       (* linked-account ids Razorpay can hand out              *)
  Forms,          (* contents an organizer can submit                      *)
  Codes,          (* reference codes uuid4 can produce                     *)
  Requirements,   (* contents of Razorpay's "requirements" list            *)
  Sessions,       (* requests that hold a database session                 *)
  Times,          (* instants, in seconds, an event or a clock can carry   *)
  NULL            (* SQL NULL, and "nobody" for a row lock                 *)

Never == 0

ASSUME TimesAssumption == Times \subseteq Nat \ {Never}
ASSUME NullAssumption  == NULL \notin Organizers \cup Sessions \cup Accounts \cup Codes \cup Forms

KYCStatus      == {"PENDING", "IN_REVIEW", "ACTION_REQUIRED", "VERIFIED", "REJECTED"}
AccountStatus  == {"created", "suspended"}
ProviderStatus == {"requested", "under_review", "needs_clarification",
                   "activated", "suspended"}

ASSUME NullStatusAssumption == NULL \notin ProviderStatus

(* The platform's status for each status of Razorpay's product.            *)
MapStatus ==
  [s \in ProviderStatus |->
     IF s = "activated" THEN "VERIFIED"
     ELSE IF s = "suspended" THEN "REJECTED"
     ELSE IF s = "needs_clarification" THEN "ACTION_REQUIRED"
     ELSE "IN_REVIEW"]

Row == [kyc_status         : KYCStatus,
        provider_status    : ProviderStatus \cup {NULL},
        requirements       : Requirements \cup {NULL},
        details            : Forms \cup {NULL},
        reference_code     : Codes \cup {NULL},
        account_id         : Accounts \cup {NULL},
        account_status     : AccountStatus \cup {NULL},
        stakeholder_id     : Accounts \cup {NULL},
        product_id         : Accounts \cup {NULL},
        submitted          : BOOLEAN,
        activated          : BOOLEAN,
        provider_synced_at : Nat,
        account_synced_at  : Nat]

(* The row get_or_create_organizer_profile inserts: every column at its    *)
(* default.                                                                *)
NewProfile ==
  [kyc_status         |-> "PENDING",
   provider_status    |-> NULL,
   requirements       |-> NULL,
   details            |-> NULL,
   reference_code     |-> NULL,
   account_id         |-> NULL,
   account_status     |-> NULL,
   stakeholder_id     |-> NULL,
   product_id         |-> NULL,
   submitted          |-> FALSE,
   activated          |-> FALSE,
   provider_synced_at |-> Never,
   account_synced_at  |-> Never]

(* The three CHECK constraints.  A CHECK passes unless it is FALSE, so a   *)
(* comparison with a NULL provider_status does not reject the row.         *)
CheckVerifiedHasPayoutDetails(r) ==
  r.kyc_status = "VERIFIED" =>
    /\ r.account_id # NULL
    /\ r.stakeholder_id # NULL
    /\ r.product_id # NULL
    /\ r.details # NULL
    /\ r.provider_status \in {"activated", NULL}

CheckNoProviderStatusBeforePending(r) ==
  r.provider_status # NULL \/ r.kyc_status = "PENDING"

CheckActivatedImpliesVerified(r) ==
  r.provider_status = "activated" => r.kyc_status = "VERIFIED"

RowChecks(r) ==
  /\ CheckVerifiedHasPayoutDetails(r)
  /\ CheckNoProviderStatusBeforePending(r)
  /\ CheckActivatedImpliesVerified(r)

(* The unique index on razorpay_account_id.                                *)
UniqueAccounts(rows) ==
  \A o1, o2 \in Organizers :
    rows[o1].account_id # NULL /\ rows[o1].account_id = rows[o2].account_id => o1 = o2

(* Mutant of Flush: an UPDATE that writes every column of the session's    *)
(* copy, as a merge of a detached row would.                               *)
FlushEveryColumn(stored, loaded, new) == new

(* An UPDATE names only the columns whose value in the session differs     *)
(* from the value the session loaded; the others keep what the row has.    *)
Column(stored, loaded, new) == IF new # loaded THEN new ELSE stored

Flush(stored, loaded, new) ==
  [kyc_status         |-> Column(stored.kyc_status, loaded.kyc_status, new.kyc_status),
   provider_status    |-> Column(stored.provider_status, loaded.provider_status, new.provider_status),
   requirements       |-> Column(stored.requirements, loaded.requirements, new.requirements),
   details            |-> Column(stored.details, loaded.details, new.details),
   reference_code     |-> Column(stored.reference_code, loaded.reference_code, new.reference_code),
   account_id         |-> Column(stored.account_id, loaded.account_id, new.account_id),
   account_status     |-> Column(stored.account_status, loaded.account_status, new.account_status),
   stakeholder_id     |-> Column(stored.stakeholder_id, loaded.stakeholder_id, new.stakeholder_id),
   product_id         |-> Column(stored.product_id, loaded.product_id, new.product_id),
   submitted          |-> Column(stored.submitted, loaded.submitted, new.submitted),
   activated          |-> Column(stored.activated, loaded.activated, new.activated),
   provider_synced_at |-> Column(stored.provider_synced_at, loaded.provider_synced_at, new.provider_synced_at),
   account_synced_at  |-> Column(stored.account_synced_at, loaded.account_synced_at, new.account_synced_at)]
=============================================================================
