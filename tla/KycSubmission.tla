---------------------------- MODULE KycSubmission ----------------------------
(***************************************************************************)
(* POST /api/organizers/kyc: one request reads the organizer's row without *)
(* locking it, then creates or edits the linked account, the stakeholder   *)
(* and the product at Razorpay, flushing to the database between the calls *)
(* and committing once, at the end.  Razorpay's side is a table of linked  *)
(* accounts; a call can be refused, fail before it has an effect, or have  *)
(* its effect and lose the answer; a request can be killed at any point.   *)
(***************************************************************************)
EXTENDS OrganizerRow, FiniteSets

CONSTANTS
  Submitters,   (* sessions that serve KYC submissions                     *)
  NewStatuses,  (* statuses Razorpay can create an account with            *)
  Replies,      (* statuses Razorpay can answer a product call with        *)
  OneAtATime,   (* TRUE: an organizer waits for one answer before the next *)
                (* submission; FALSE: requests of one organizer overlap    *)
  MaxFaults     (* bound: answers lost and requests killed                 *)

ASSUME SubmittersAssumption == Submitters \subseteq Sessions
ASSUME RepliesAssumption    ==
  Replies \subseteq ProviderStatus /\ NewStatuses \subseteq AccountStatus
ASSUME OneAtATimeAssumption == OneAtATime \in BOOLEAN
ASSUME MaxFaultsAssumption  == MaxFaults \in Nat

VARIABLES
  profile,      (* organizer_profiles, as committed                        *)
  holder,       (* holder[o]: the session that has row o locked, or NULL   *)
  remote,       (* remote[a]: the linked account a at Razorpay             *)
  step,         (* what each request does next                             *)
  who,          (* the organizer each request is for                       *)
  read,         (* the row as the request loaded it                        *)
  draft,        (* the row as the request has it now                       *)
  answer,       (* answer[o]: the last answer the organizer was given      *)
  faults        (* answers lost and requests killed so far                 *)

sessionVars == <<step, who, read, draft>>
vars == <<profile, holder, remote, sessionVars, answer, faults>>

Steps == {"idle", "details", "account.create", "account.flush",
          "stakeholder.create", "stakeholder.flush", "stakeholder.edit",
          "product.request", "product.edit", "finish"}

LinkedAccount ==
  [owner        : Organizers \cup {NULL},
   code         : Codes \cup {NULL},
   status       : AccountStatus \cup {NULL},
   stakeholder  : BOOLEAN,
   product      : ProviderStatus \cup {NULL},
   requirements : Requirements \cup {NULL}]

NoAccount == [owner |-> NULL, code |-> NULL, status |-> NULL, stakeholder |-> FALSE,
              product |-> NULL, requirements |-> NULL]

Answers == {"none", "ok", "rejected", "retry", "error"}

TypeOK ==
  /\ profile \in [Organizers -> Row]
  /\ holder \in [Organizers -> Sessions \cup {NULL}]
  /\ remote \in [Accounts -> LinkedAccount]
  /\ step \in [Submitters -> Steps]
  /\ who \in [Submitters -> Organizers \cup {NULL}]
  /\ read \in [Submitters -> Row \cup {NULL}]
  /\ draft \in [Submitters -> Row \cup {NULL}]
  /\ answer \in [Organizers -> Answers]
  /\ faults \in 0..MaxFaults
  /\ \A s \in Submitters : step[s] # "idle" =>
       who[s] \in Organizers /\ read[s] \in Row /\ draft[s] \in Row

Init ==
  /\ profile = [o \in Organizers |-> NewProfile]
  /\ holder = [o \in Organizers |-> NULL]
  /\ remote = [a \in Accounts |-> NoAccount]
  /\ step = [s \in Submitters |-> "idle"]
  /\ who = [s \in Submitters |-> NULL]
  /\ read = [s \in Submitters |-> NULL]
  /\ draft = [s \in Submitters |-> NULL]
  /\ answer = [o \in Organizers |-> "none"]
  /\ faults = 0

(* _guard_submittable_state: the four refusals, all 409.                   *)
Submittable(r) ==
  /\ r.kyc_status \notin {"VERIFIED", "REJECTED", "IN_REVIEW"}
  /\ r.account_status # "suspended"

-----------------------------------------------------------------------------
(* The database session.                                                   *)

Dirty(s)    == draft[s] # read[s]
CanWrite(s) == holder[who[s]] \in {NULL, s}

(* A flush issues an UPDATE, which locks the row, only if a column of new  *)
(* differs from what was loaded.                                           *)
FlushTo(s, new) ==
  IF new # read[s]
    THEN CanWrite(s) /\ holder' = [holder EXCEPT ![who[s]] = s]
    ELSE UNCHANGED holder

(* The row the session's UPDATEs leave.                                    *)
Written(s) == Flush(profile[who[s]], read[s], draft[s])

(* Mutant of EndRequest: the session is not closed, and keeps its locks.   *)
EndRequestStillOpen(s, a) ==
  /\ step' = [step EXCEPT ![s] = "idle"]
  /\ who' = [who EXCEPT ![s] = NULL]
  /\ read' = [read EXCEPT ![s] = NULL]
  /\ draft' = [draft EXCEPT ![s] = NULL]
  /\ answer' = [answer EXCEPT ![who[s]] = a]
  /\ UNCHANGED holder

(* The session is closed: locks are released, the answer is sent.          *)
EndRequest(s, a) ==
  /\ step' = [step EXCEPT ![s] = "idle"]
  /\ who' = [who EXCEPT ![s] = NULL]
  /\ read' = [read EXCEPT ![s] = NULL]
  /\ draft' = [draft EXCEPT ![s] = NULL]
  /\ holder' = [o \in Organizers |-> IF holder[o] = s THEN NULL ELSE holder[o]]
  /\ answer' = [answer EXCEPT ![who[s]] = a]

CommitAndAnswer(s, a) ==
  /\ profile' = [profile EXCEPT ![who[s]] = Written(s)]
  /\ EndRequest(s, a)

(* Mutant of CallRefused: the router does not commit before it answers.    *)
CallRefusedUncommitted(s) ==
  \E a \in {"rejected", "retry"} :
    EndRequest(s, a) /\ UNCHANGED <<profile, remote, faults>>

(* A RazorpayIntegrationError: the router commits what has been flushed    *)
(* and answers 400 (refused) or 502 (anything else).                       *)
CallRefused(s) ==
  \E a \in {"rejected", "retry"} :
    CommitAndAnswer(s, a) /\ UNCHANGED <<remote, faults>>

(* The call has its effect and its answer is lost: 502.                    *)
AnswerLost(s) ==
  /\ faults < MaxFaults
  /\ faults' = faults + 1
  /\ CommitAndAnswer(s, "retry")

(* The answer arrives: the session goes on with the row new.               *)
Answered(s, new, next) ==
  /\ draft' = [draft EXCEPT ![s] = new]
  /\ step' = [step EXCEPT ![s] = next]
  /\ UNCHANGED <<profile, holder, who, read, answer, faults>>

-----------------------------------------------------------------------------
(* submit_organizer_kyc.                                                   *)

(* Which call follows, by the ids the session's row has.                   *)
ProductStep(r) == IF r.product_id = NULL THEN "product.request" ELSE "product.edit"

StakeholderStep(r, resubmission) ==
  IF r.stakeholder_id = NULL THEN "stakeholder.create"
  ELSE IF resubmission THEN "stakeholder.edit"
  ELSE ProductStep(r)

(* Mutant of AccountStep: an account is created at every submission.       *)
AccountStepAlways(r, resubmission) == "account.create"

AccountStep(r, resubmission) ==
  IF r.account_id = NULL THEN "account.create" ELSE StakeholderStep(r, resubmission)

IsResubmission(s) == read[s].kyc_status = "ACTION_REQUIRED"

(* One of some values that differ in nothing but their names.              *)
OneOf(values) == IF values = {} THEN {} ELSE {CHOOSE v \in values : TRUE}

(* uuid4 never repeats a code.                                             *)
FreshCodes ==
  OneOf({c \in Codes :
           /\ \A o \in Organizers : profile[o].reference_code # c
           /\ \A a \in Accounts : remote[a].code # c
           /\ \A s \in Submitters : step[s] # "idle" => draft[s].reference_code # c})

FreshAccounts == OneOf({a \in Accounts : remote[a].owner = NULL})

(* Mutant of Start: a submission forgets the product id of the last one.   *)
StartOver(s, o, f) ==
  /\ step[s] = "idle"
  /\ OneAtATime => \A t \in Submitters : who[t] # o
  /\ Submittable(profile[o])
  /\ who' = [who EXCEPT ![s] = o]
  /\ read' = [read EXCEPT ![s] = profile[o]]
  /\ draft' = [draft EXCEPT ![s] = [profile[o] EXCEPT !.details = f, !.product_id = NULL]]
  /\ step' = [step EXCEPT ![s] = "details"]
  /\ UNCHANGED <<profile, holder, remote, answer, faults>>

(* The request loads the row without locking it, passes the guard and puts *)
(* the form's values into its copy.                                        *)
Start(s, o, f) ==
  /\ step[s] = "idle"
  /\ OneAtATime => \A t \in Submitters : who[t] # o
  /\ Submittable(profile[o])
  /\ who' = [who EXCEPT ![s] = o]
  /\ read' = [read EXCEPT ![s] = profile[o]]
  /\ draft' = [draft EXCEPT ![s] = [profile[o] EXCEPT !.details = f]]
  /\ step' = [step EXCEPT ![s] = "details"]
  /\ UNCHANGED <<profile, holder, remote, answer, faults>>

(* Mutant of SaveDetails: every submission allocates a reference code.     *)
SaveDetailsNewCode(s) ==
  /\ step[s] = "details"
  /\ \E c \in FreshCodes :
       LET new == [draft[s] EXCEPT !.reference_code = c] IN
         /\ FlushTo(s, new)
         /\ draft' = [draft EXCEPT ![s] = new]
         /\ step' = [step EXCEPT ![s] = AccountStep(new, IsResubmission(s))]
  /\ UNCHANGED <<profile, remote, who, read, answer, faults>>

(* Flush the form's columns, then a reference code if the row has none.    *)
SaveDetails(s) ==
  /\ step[s] = "details"
  /\ \E c \in IF draft[s].reference_code = NULL THEN FreshCodes ELSE {draft[s].reference_code} :
       LET new == [draft[s] EXCEPT !.reference_code = c] IN
         /\ FlushTo(s, new)
         /\ draft' = [draft EXCEPT ![s] = new]
         /\ step' = [step EXCEPT ![s] = AccountStep(new, IsResubmission(s))]
  /\ UNCHANGED <<profile, remote, who, read, answer, faults>>

CreateAccount(s) ==
  /\ step[s] = "account.create"
  /\ \/ \E a \in FreshAccounts, st \in NewStatuses :
          /\ remote' = [remote EXCEPT ![a].owner  = who[s],
                                      ![a].code   = draft[s].reference_code,
                                      ![a].status = st]
          /\ \/ Answered(s, [draft[s] EXCEPT !.account_id = a, !.account_status = st],
                         "account.flush")
             \/ AnswerLost(s)
     \/ CallRefused(s)

FlushAccount(s) ==
  /\ step[s] = "account.flush"
  /\ FlushTo(s, draft[s])
  /\ step' = [step EXCEPT ![s] = StakeholderStep(draft[s], IsResubmission(s))]
  /\ UNCHANGED <<profile, remote, who, read, draft, answer, faults>>

CreateStakeholder(s) ==
  /\ step[s] = "stakeholder.create"
  /\ \/ /\ remote' = [remote EXCEPT ![draft[s].account_id].stakeholder = TRUE]
        /\ \/ Answered(s, [draft[s] EXCEPT !.stakeholder_id = draft[s].account_id],
                       "stakeholder.flush")
           \/ AnswerLost(s)
     \/ CallRefused(s)

FlushStakeholder(s) ==
  /\ step[s] = "stakeholder.flush"
  /\ FlushTo(s, draft[s])
  /\ step' = [step EXCEPT ![s] = ProductStep(draft[s])]
  /\ UNCHANGED <<profile, remote, who, read, draft, answer, faults>>

EditStakeholder(s) ==
  /\ step[s] = "stakeholder.edit"
  /\ \/ /\ draft[s].stakeholder_id = draft[s].account_id
        /\ UNCHANGED remote
        /\ Answered(s, draft[s], ProductStep(draft[s])) \/ AnswerLost(s)
     \/ CallRefused(s)

(* Mutants of WithProduct: the status is stored unmapped; the product id   *)
(* is not stored; the platform's status is only set by a first submission. *)
WithProductUnmapped(r, st, req) ==
  [r EXCEPT !.product_id = IF @ = NULL THEN r.account_id ELSE @, !.provider_status = st,
            !.kyc_status = st, !.requirements = req, !.submitted = TRUE]

WithProductNoId(r, st, req) ==
  [r EXCEPT !.provider_status = st, !.kyc_status = MapStatus[st], !.requirements = req,
            !.submitted = TRUE, !.activated = @ \/ st = "activated"]

WithProductFirstOnly(r, st, req) ==
  [r EXCEPT !.product_id = IF @ = NULL THEN r.account_id ELSE @, !.provider_status = st,
            !.kyc_status = IF @ = "PENDING" THEN MapStatus[st] ELSE @, !.requirements = req,
            !.submitted = TRUE, !.activated = @ \/ st = "activated"]

(* The product call answers with the product's status.  The session's row  *)
(* gets the product id, if it was the request that answered, that status,  *)
(* the platform's status for it and the requirements that came along.      *)
WithProduct(r, st, req) ==
  [r EXCEPT !.product_id      = IF @ = NULL THEN r.account_id ELSE @,
            !.provider_status = st,
            !.kyc_status      = MapStatus[st],
            !.requirements    = req,
            !.submitted       = TRUE,
            !.activated       = @ \/ st = "activated"]

RequirementsFor(st) == IF st = "needs_clarification" THEN Requirements ELSE {NULL}

(* A call does not reopen a product Razorpay has decided on; otherwise it  *)
(* can move it to any status of Replies.                                   *)
Decided(a) == remote[a].product \in {"activated", "suspended"}

ReplyStatuses(a) == IF Decided(a) THEN {remote[a].product} ELSE Replies

(* Razorpay answers an edit only for a product of the account it names.    *)
ProductCall(s) ==
  /\ step[s] \in {"product.request", "product.edit"}
  /\ \/ /\ draft[s].product_id \in {NULL, draft[s].account_id}
        /\ \E st \in ReplyStatuses(draft[s].account_id) : \E req \in RequirementsFor(st) :
             /\ remote' = [remote EXCEPT ![draft[s].account_id].product = st,
                                         ![draft[s].account_id].requirements = req]
             /\ \/ Answered(s, WithProduct(draft[s], st, req), "finish")
                \/ AnswerLost(s)
     \/ CallRefused(s)

(* The last flush and the only commit of a submission without errors.  The *)
(* UPDATE has to pass the CHECKs, and FinishIsAccepted shows it always     *)
(* does.                                                                   *)
Finish(s) ==
  /\ step[s] = "finish"
  /\ Dirty(s) => CanWrite(s)
  /\ RowChecks(Written(s))
  /\ CommitAndAnswer(s, "ok")
  /\ UNCHANGED <<remote, faults>>

(* The request is killed, or an exception the router does not catch ends   *)
(* it (a status this code does not know): nothing is committed.            *)
Die(s) ==
  /\ step[s] # "idle"
  /\ faults < MaxFaults
  /\ faults' = faults + 1
  /\ EndRequest(s, "error")
  /\ UNCHANGED <<profile, remote>>

Submit(s) ==
  \/ SaveDetails(s)
  \/ CreateAccount(s)
  \/ FlushAccount(s)
  \/ CreateStakeholder(s)
  \/ FlushStakeholder(s)
  \/ EditStakeholder(s)
  \/ ProductCall(s)
  \/ Finish(s)

Next ==
  \E s \in Submitters :
    \/ \E o \in Organizers, f \in Forms : Start(s, o, f)
    \/ Submit(s)
    \/ Die(s)

(* What the worker and the database do on their own.                       *)
Work(s) ==
  \/ SaveDetails(s)
  \/ FlushAccount(s)
  \/ FlushStakeholder(s)
  \/ Finish(s)

(* A request that is not killed goes on, and PostgreSQL queues the waiters *)
(* of a row lock, so that one that waits is not passed over for ever.      *)
(* Nothing is assumed of the calls: the Razorpay client has no timeout, and*)
(* a call that never returns is a behaviour of this specification.         *)
Fairness == \A s \in Submitters : SF_vars(Work(s))

Spec == Init /\ [][Next]_vars /\ Fairness

-----------------------------------------------------------------------------
(* The account, stakeholder and product a row names belong together: later *)
(* calls name them in pairs, and Razorpay knows them only as pairs.        *)
IdsBelongTogether ==
  \A o \in Organizers :
    /\ profile[o].stakeholder_id \in {NULL, profile[o].account_id}
    /\ profile[o].product_id \in {NULL, profile[o].account_id}
    /\ profile[o].account_id # NULL => remote[profile[o].account_id].owner = o

(* The reference code on the row is the one its account was created with,  *)
(* so that Razorpay's reports can be traced back to the organizer.         *)
SentCodeIsStored ==
  \A o \in Organizers :
    profile[o].account_id # NULL =>
      remote[profile[o].account_id].code = profile[o].reference_code

(* A linked account is created at Razorpay once per organizer, plus once   *)
(* for every answer lost or request killed: an ordinary failure and a      *)
(* retry create none.                                                      *)
OneAccountPerOrganizer ==
  \A o \in Organizers :
    Cardinality({a \in Accounts : remote[a].owner = o}) <= 1 + faults

(* An id once stored is never replaced or cleared.                         *)
Keeps(old, new) == old # NULL => new = old

IdsAreKept ==
  [][\A o \in Organizers :
       /\ Keeps(profile[o].account_id, profile'[o].account_id)
       /\ Keeps(profile[o].stakeholder_id, profile'[o].stakeholder_id)
       /\ Keeps(profile[o].product_id, profile'[o].product_id)]_vars

(* A row under review, decided or sent back has everything that was needed *)
(* to get there; nothing but PENDING lets the organizer start over.        *)
ReviewedRowsAreComplete ==
  \A o \in Organizers :
    profile[o].kyc_status # "PENDING" =>
      /\ profile[o].submitted
      /\ profile[o].details # NULL
      /\ {profile[o].account_id, profile[o].stakeholder_id, profile[o].product_id}
           \subseteq Accounts

(* The last flush of a submission never violates a CHECK: after every call *)
(* succeeded at Razorpay the organizer is not answered 500 and rolled back.*)
FinishIsAccepted ==
  \A s \in Submitters : step[s] = "finish" => RowChecks(Written(s))

(* A submission ends, whichever other requests wait for the same row, if   *)
(* no call made for its organizer hangs for ever: one that hangs may hold  *)
(* the lock of the row, and does no harm to any other organizer.           *)
Calling(s) ==
  step[s] \in {"account.create", "stakeholder.create", "stakeholder.edit",
               "product.request", "product.edit"}

SubmissionsEnd ==
  \A o \in Organizers :
    (\A s \in Submitters : []<>~(who[s] = o /\ Calling(s))) =>
      \A s \in Submitters : who[s] = o ~> who[s] # o
=============================================================================
