------------------------- MODULE OrganizerOnboarding -------------------------
(***************************************************************************)
(* KYC submissions and Razorpay's webhooks on the same rows, with the      *)
(* provider in between: the calls of a submission and Razorpay's reviews   *)
(* change the product of a linked account, Razorpay suspends and           *)
(* reinstates the account, every such change is announced by a webhook,    *)
(* and the webhooks are delivered in any order.                            *)
(***************************************************************************)
EXTENDS OrganizerRow, FiniteSets

CONSTANTS
  Submitters,     (* sessions that serve KYC submissions                   *)
  Handlers,       (* sessions that serve webhook deliveries                *)
  NewStatuses,    (* statuses Razorpay creates an account with             *)
  Replies,        (* statuses Razorpay answers a product call with         *)
  Verdicts,       (* statuses a review moves a product to                  *)
  OneAtATime,     (* see KycSubmission                                     *)
  PatientReviews, (* TRUE: Razorpay acts only on what a finished           *)
                  (* submission left; FALSE: at any time                   *)
  SameSecond,     (* TRUE: two announcements can carry one created_at      *)
  MaxFaults       (* bound: answers lost, requests and handlers killed     *)

ASSUME ProviderAssumption ==
  /\ Replies \cup Verdicts \subseteq ProviderStatus
  /\ NewStatuses \subseteq AccountStatus
  /\ {OneAtATime, PatientReviews, SameSecond} \subseteq BOOLEAN
  /\ MaxFaults \in Nat

(* A session serves one request: a submission or a delivery.               *)
ASSUME SessionsAssumption ==
  /\ Submitters \cup Handlers \subseteq Sessions
  /\ Submitters \cap Handlers = {}

VARIABLES
  profile, holder,                                  (* the shared table    *)
  remote, step, who, read, draft, answer, faults,   (* KycSubmission       *)
  seen, acked, pc, job, target, loaded, crashes,    (* WebhookIngest       *)
  sent,           (* webhooks Razorpay has announced                       *)
  hasty,          (* those it announced, and nobody has recorded since, at *)
                  (* a time at which a record does not reach the row       *)
  now             (* Razorpay's clock, in seconds; Times bounds it         *)

kycVars  == <<remote, step, who, read, draft, answer, faults>>
hookVars == <<seen, acked, pc, job, target, loaded, crashes>>
newsVars == <<sent, hasty, now>>
vars == <<profile, holder, kycVars, hookVars, newsVars>>

(* The entries of _EVENT_HANDLERS.  The change of a product to a status    *)
(* that has none is announced as well, by an event of no kind known here.  *)
AccountKinds  == {"account.activated", "account.suspended"}
HandledStatus == {"activated", "under_review", "needs_clarification"}
HandledKinds  == {"product.route"}
ProductKinds  == HandledKinds \cup {"other"}

ProductKind(st) == IF st \in HandledStatus THEN "product.route" ELSE "other"

Announcements ==
  {e \in [kind : ProductKinds, account : Accounts, status : Replies \cup Verdicts,
          requirements : Requirements \cup {NULL}, created_at : Times] :
     e.kind = ProductKind(e.status)}
  \cup
  [kind : AccountKinds, account : Accounts, status : {NULL},
   requirements : {NULL}, created_at : Times]

Kyc   == INSTANCE KycSubmission
Hooks == INSTANCE WebhookIngest WITH
           Events      <- Announcements,
           InitialRows <- {[o \in Organizers |-> NewProfile]},
           MaxCrashes  <- MaxFaults

ASSUME UnrecognizedAssumption == NULL # Hooks!Unrecognized

TypeOK ==
  /\ Kyc!TypeOK
  /\ Hooks!TypeOK
  /\ sent \subseteq Announcements
  /\ hasty \subseteq sent
  /\ now \in Nat
  /\ acked \subseteq sent
  /\ faults + crashes <= MaxFaults

Init ==
  /\ Kyc!Init
  /\ Hooks!Init
  /\ sent = {}
  /\ hasty = {}
  /\ now = 1

(* Razorpay announces every change of a product's status or requirements,  *)
(* and every change of an account's status after its creation.             *)
ProductNews(a) ==
  [kind |-> ProductKind(remote'[a].product), account |-> a, status |-> remote'[a].product,
   requirements |-> remote'[a].requirements, created_at |-> now]

AccountNews(a) ==
  [kind |-> IF remote'[a].status = "suspended" THEN "account.suspended" ELSE "account.activated",
   account |-> a, status |-> NULL, requirements |-> NULL, created_at |-> now]

Announce(e) ==
  /\ now \in Times
  /\ sent' = sent \cup {e}
  /\ now' \in IF SameSecond THEN {now, now + 1} ELSE {now + 1}

ProductOf(accounts, a) == <<accounts[a].product, accounts[a].requirements>>

Changed == {a \in Accounts : ProductOf(remote', a) # ProductOf(remote, a)}

Submission(s) ==
  /\ \/ \E o \in Organizers, f \in Forms : Kyc!Start(s, o, f)
     \/ Kyc!Submit(s)
     \/ Kyc!Die(s)
  /\ IF Changed = {} THEN UNCHANGED <<sent, now>>
                     ELSE \E a \in Changed : Announce(ProductNews(a))
  /\ UNCHANGED <<hasty, hookVars>>

(* A record of e does not reach the row: no row names the account yet, or  *)
(* an open submission will write the status its own call returned over it. *)
TooEarly(e) ==
  IF e.kind \in AccountKinds
    THEN \A o \in Organizers : profile[o].account_id # e.account
    ELSE \E s \in Submitters : who[s] = remote[e.account].owner

(* Razorpay announces a change it made on its own.                         *)
Decree(e) ==
  /\ Announce(e)
  /\ hasty' = IF TooEarly(e) THEN hasty \cup {e} ELSE hasty

(* A submission for the owner of a is finished and its product stored.     *)
Settled(a) ==
  \E o \in Organizers :
    /\ profile[o].account_id = a /\ profile[o].product_id = a
    /\ \A s \in Submitters : who[s] # o

(* Razorpay moves a product it has not decided on to another status or     *)
(* asks for something else, and can suspend an activated one.              *)
Reviews(a) ==
  IF Kyc!Decided(a) THEN Verdicts \cap {"suspended"} ELSE Verdicts

Review(a) ==
  /\ remote[a].product # NULL
  /\ PatientReviews => Settled(a)
  /\ \E st \in Reviews(a) : \E req \in Kyc!RequirementsFor(st) :
       remote' = [remote EXCEPT ![a].product = st, ![a].requirements = req]
  /\ a \in Changed
  /\ Decree(ProductNews(a))
  /\ UNCHANGED <<profile, holder, step, who, read, draft, answer, faults, hookVars>>

(* Razorpay suspends an account, or takes the suspension back.             *)
Suspend(a) ==
  /\ remote[a].owner # NULL
  /\ PatientReviews => Settled(a)
  /\ \E st \in AccountStatus \ {remote[a].status} : remote' = [remote EXCEPT ![a].status = st]
  /\ Decree(AccountNews(a))
  /\ UNCHANGED <<profile, holder, step, who, read, draft, answer, faults, hookVars>>

Webhook(w) ==
  /\ \/ \E e \in sent : Hooks!ReceiveNew(w, e) \/ Hooks!ReceiveDuplicate(w, e)
     \/ Hooks!Handle(w)
     \/ Hooks!Crash(w)
  /\ hasty' = {e \in hasty : TooEarly(e) \/ \A s \in seen' \ seen : s.evt # e}
  /\ UNCHANGED <<kycVars, sent, now>>

Next ==
  /\ \/ \E s \in Submitters : Submission(s)
     \/ \E a \in Accounts : Review(a) \/ Suspend(a)
     \/ \E w \in Handlers : Webhook(w)
  /\ faults' + crashes' <= MaxFaults

Spec == Init /\ [][Next]_vars

-----------------------------------------------------------------------------
(* When every announcement has been answered and nothing is running, a row *)
(* shows the status Razorpay has for its account, and the status and       *)
(* requirements it has for its product if that status has a handler.  If   *)
(* it has none (a suspended product) the row shows no status older than    *)
(* the last announced one that has.  Excepted is what was announced and    *)
(* recorded too early: before the row named the account, or while a        *)
(* submission was open that wrote another answer over it.                  *)
Quiet ==
  /\ acked = sent
  /\ \A w \in Handlers : pc[w] = "idle"
  /\ \A s \in Submitters : step[s] = "idle"

(* The last announcement about the product, or about the account, of a.    *)
Newest(a, kinds) ==
  {e \in sent : e.account = a /\ e.kind \in kinds /\
     \A f \in sent : f.account = a /\ f.kind \in kinds => f.created_at <= e.created_at}

Shows(r, status) == r.provider_status = status /\ r.kyc_status = MapStatus[status]

(* r shows the status of n, or of a later announcement about its product.  *)
ShowsSince(r, n) ==
  \E e \in sent :
    /\ e.account = n.account /\ e.kind \in ProductKinds
    /\ n.created_at <= e.created_at
    /\ Shows(r, e.status)

Converged ==
  Quiet => \A o \in Organizers : LET a == profile[o].account_id IN
    /\ profile[o].product_id # NULL =>
         /\ \A n \in Newest(a, HandledKinds) \ hasty : ShowsSince(profile[o], n)
         /\ remote[a].product \in HandledStatus /\ Newest(a, ProductKinds) \cap hasty = {} =>
              /\ Shows(profile[o], remote[a].product)
              /\ profile[o].requirements = remote[a].requirements
    /\ a # NULL /\ Newest(a, AccountKinds) \cap hasty = {} =>
         profile[o].account_status = remote[a].status

(* The organizer that may publish and be paid is one whose very account    *)
(* Razorpay has activated at some time.                                    *)
VerifiedByRazorpay ==
  \A o \in Organizers :
    profile[o].kyc_status = "VERIFIED" =>
      \E e \in sent : e.account = profile[o].account_id /\ e.status = "activated"

(* What submissions promise, with webhooks changing the row in between:    *)
(* the last flush passes the CHECKs; the ids on a row belong together and  *)
(* are never replaced; the reference code on it is the one Razorpay has;   *)
(* an account is created once per organizer and fault.                     *)
FinishIsAccepted       == Kyc!FinishIsAccepted
IdsBelongTogether      == Kyc!IdsBelongTogether
IdsAreKept             == Kyc!IdsAreKept
SentCodeIsStored       == Kyc!SentCodeIsStored
OneAccountPerOrganizer == Kyc!OneAccountPerOrganizer

(* A submission never sends a VERIFIED organizer back to review ("KYC is   *)
(* already verified for this organizer") unless Razorpay activated the     *)
(* account while it was open: only a webhook recorded in that step can.    *)
SentBack(o) ==
  profile[o].kyc_status = "VERIFIED" /\ profile'[o].kyc_status \notin {"VERIFIED", "REJECTED"}

OnlyWebhooksSendBack ==
  [][\A o \in Organizers :
       SentBack(o) =>
         \/ \E s \in seen' \ seen : s.evt.account = profile[o].account_id
         \/ \E e \in hasty : e.account = profile[o].account_id /\ e.status = "activated"]_vars

(* Razorpay does not reopen a product it has activated, so no order of     *)
(* delivery sends a VERIFIED organizer back to review.                     *)
VerdictIsKept == [][\A o \in Organizers : ~SentBack(o)]_vars

(* An organizer told "please try submitting again shortly", whose product  *)
(* id is not stored, is not refused for being under review.                *)
CanRetryWhenTold ==
  \A o \in Organizers :
    answer[o] = "retry" /\ profile[o].product_id = NULL =>
      profile[o].kyc_status # "IN_REVIEW"
=============================================================================
