---------------------- MODULE OrganizerOnboardingProofs ----------------------
(***************************************************************************)
(* Theorems about OrganizerOnboarding, for any number of organizers,       *)
(* requests, handlers and accounts.  The module composes KycSubmission and *)
(* WebhookIngest on one table, and so does the proof: a step of a request  *)
(* is a step of KycSubmission and leaves the handlers' invariant alone, a  *)
(* step of a handler is one of WebhookIngest and leaves the requests'      *)
(* alone, a step of Razorpay's own leaves both.  What is new is what the   *)
(* announcements say about the rows.                                       *)
(***************************************************************************)
EXTENDS OrganizerOnboarding, TLAPS

KP == INSTANCE KycSubmissionProofs
HP == INSTANCE WebhookIngestProofs WITH
        Events      <- Announcements,
        InitialRows <- {[o \in Organizers |-> NewProfile]},
        MaxCrashes  <- MaxFaults

(* What the two modules assume follows from what this one assumes.         *)
LEMMA KycAssumptions ==
  /\ KP!TimesAssumption /\ KP!NullAssumption /\ KP!NullStatusAssumption
  /\ KP!SubmittersAssumption /\ KP!RepliesAssumption /\ KP!OneAtATimeAssumption
  /\ KP!MaxFaultsAssumption
<1>1. KP!TimesAssumption
      BY TimesAssumption DEF KP!Never, Never
<1>2. KP!NullStatusAssumption
      BY NullStatusAssumption DEF KP!ProviderStatus, ProviderStatus
<1>3. KP!SubmittersAssumption
      BY SessionsAssumption
<1>4. KP!RepliesAssumption
      BY ProviderAssumption
         DEF KP!ProviderStatus, ProviderStatus, KP!AccountStatus, AccountStatus
<1>5. KP!OneAtATimeAssumption
      BY ProviderAssumption
<1>6. KP!MaxFaultsAssumption
      BY ProviderAssumption
<1> QED BY <1>1, <1>2, <1>3, <1>4, <1>5, <1>6, NullAssumption

LEMMA HooksAssumptions ==
  /\ HP!TimesAssumption /\ HP!NullAssumption /\ HP!NullStatusAssumption
  /\ HP!HandlersAssumption /\ HP!EventsAssumption /\ HP!MaxCrashesAssumption
  /\ HP!UnrecognizedAssumption /\ HP!InitialRowsAssumption
<1>1. HP!TimesAssumption
      BY TimesAssumption DEF HP!Never, Never
<1>2. HP!NullStatusAssumption
      BY NullStatusAssumption DEF HP!ProviderStatus, ProviderStatus
<1>3. HP!HandlersAssumption
      BY SessionsAssumption
<1>4. HP!EventsAssumption
      BY ProviderAssumption
         DEF HP!ProviderStatus, ProviderStatus, Announcements, HP!EventBody, HP!ProductKinds,
             HP!AccountKinds, HP!OtherKinds, AccountKinds, ProductKinds, HandledKinds
<1>5. HP!MaxCrashesAssumption
      BY ProviderAssumption
<1>6. HP!UnrecognizedAssumption
      BY UnrecognizedAssumption DEF HP!Unrecognized, Hooks!Unrecognized
<1>7. HP!InitialRowsAssumption
  <2>1. /\ NewProfile \in HP!Row /\ NewProfile.kyc_status = "PENDING"
        /\ NewProfile.provider_status = NULL /\ NewProfile.account_id = NULL
        /\ NewProfile.provider_synced_at = HP!Never /\ NewProfile.account_synced_at = HP!Never
        BY DEF NewProfile, Never, HP!Never, HP!Row, HP!KYCStatus
  <2>2. NULL # "activated"
        BY NullStatusAssumption DEF ProviderStatus
  <2>3. HP!RowChecks(NewProfile)
        BY <2>1, <2>2 DEF HP!RowChecks, HP!CheckVerifiedHasPayoutDetails,
           HP!CheckNoProviderStatusBeforePending, HP!CheckActivatedImpliesVerified
  <2>4. HP!UniqueAccounts([o \in Organizers |-> NewProfile])
        BY <2>1 DEF HP!UniqueAccounts
  <2> QED BY <2>1, <2>2, <2>3, <2>4
<1> QED BY <1>1, <1>2, <1>3, <1>4, <1>5, <1>6, <1>7, NullAssumption

-----------------------------------------------------------------------------
(* The two modules and the theorems about them speak of the same things.   *)

LEMMA SameKycType == Kyc!TypeOK <=> KP!TypeOK
BY DEF Kyc!Row, KP!Row, Kyc!KYCStatus, KP!KYCStatus, Kyc!ProviderStatus,
       KP!ProviderStatus, Kyc!AccountStatus, KP!AccountStatus, Kyc!LinkedAccount,
       KP!LinkedAccount, Kyc!Steps, KP!Steps, Kyc!Answers, KP!Answers, Kyc!TypeOK,
       KP!TypeOK

LEMMA SameRequests ==
  ASSUME NEW s
  PROVE  /\ \A o, f : Kyc!Start(s, o, f) <=> KP!Start(s, o, f)
         /\ Kyc!Submit(s) <=> KP!Submit(s)
         /\ Kyc!Die(s) <=> KP!Die(s)
<1>1. \A o, f : Kyc!Start(s, o, f) <=> KP!Start(s, o, f)
      BY DEF Kyc!Start, KP!Start, Kyc!Submittable, KP!Submittable
<1>2. Kyc!Submit(s) <=> KP!Submit(s)
      BY DEF Kyc!Submit, KP!Submit, Kyc!SaveDetails, KP!SaveDetails, Kyc!CreateAccount,
             KP!CreateAccount, Kyc!FlushAccount, KP!FlushAccount, Kyc!CreateStakeholder,
             KP!CreateStakeholder, Kyc!FlushStakeholder, KP!FlushStakeholder,
             Kyc!EditStakeholder, KP!EditStakeholder, Kyc!ProductCall, KP!ProductCall,
             Kyc!Finish, KP!Finish, Kyc!FlushTo, KP!FlushTo, Kyc!CanWrite, KP!CanWrite,
             Kyc!Dirty, KP!Dirty, Kyc!Written, KP!Written, Kyc!Flush, KP!Flush,
             Kyc!Column, KP!Column, Kyc!EndRequest, KP!EndRequest, Kyc!CommitAndAnswer,
             KP!CommitAndAnswer, Kyc!CallRefused, KP!CallRefused, Kyc!AnswerLost,
             KP!AnswerLost, Kyc!Answered, KP!Answered, Kyc!ProductStep, KP!ProductStep,
             Kyc!StakeholderStep, KP!StakeholderStep, Kyc!AccountStep, KP!AccountStep,
             Kyc!IsResubmission, KP!IsResubmission, Kyc!OneOf, KP!OneOf, Kyc!FreshCodes,
             KP!FreshCodes, Kyc!FreshAccounts, KP!FreshAccounts, Kyc!WithProduct,
             KP!WithProduct, Kyc!MapStatus, KP!MapStatus, Kyc!ProviderStatus,
             KP!ProviderStatus, Kyc!RequirementsFor, KP!RequirementsFor, Kyc!Decided,
             KP!Decided, Kyc!ReplyStatuses, KP!ReplyStatuses, Kyc!RowChecks, KP!RowChecks,
             Kyc!CheckVerifiedHasPayoutDetails, KP!CheckVerifiedHasPayoutDetails,
             Kyc!CheckNoProviderStatusBeforePending,
             KP!CheckNoProviderStatusBeforePending, Kyc!CheckActivatedImpliesVerified,
             KP!CheckActivatedImpliesVerified
<1>3. Kyc!Die(s) <=> KP!Die(s)
      BY DEF Kyc!Die, KP!Die, Kyc!EndRequest, KP!EndRequest
<1> QED BY <1>1, <1>2, <1>3

LEMMA SameKycInit == Kyc!Init <=> KP!Init
BY DEF Kyc!Init, KP!Init, Kyc!NewProfile, KP!NewProfile, Kyc!NoAccount,
       KP!NoAccount, Kyc!Never, KP!Never

LEMMA SameHooksType == Hooks!TypeOK <=> HP!TypeOK
BY DEF Hooks!Row, HP!Row, Hooks!KYCStatus, HP!KYCStatus, Hooks!ProviderStatus,
       HP!ProviderStatus, Hooks!AccountStatus, HP!AccountStatus, Hooks!TypeOK,
       HP!TypeOK, Hooks!Job, HP!Job

LEMMA SameHooksInit == Hooks!Init <=> HP!Init
BY DEF Hooks!Init, HP!Init

LEMMA SameDeliveries ==
  ASSUME NEW w
  PROVE  /\ \A e : Hooks!ReceiveNew(w, e) <=> HP!ReceiveNew(w, e)
         /\ \A e : Hooks!ReceiveDuplicate(w, e) <=> HP!ReceiveDuplicate(w, e)
         /\ Hooks!Handle(w) <=> HP!Handle(w)
         /\ Hooks!Crash(w) <=> HP!Crash(w)
<1>1. \A e : Hooks!ReceiveNew(w, e) <=> HP!ReceiveNew(w, e)
      BY DEF Hooks!ReceiveNew, HP!ReceiveNew, Hooks!Recorded, HP!Recorded, Hooks!InFlight,
             HP!InFlight, Hooks!EventTimes, HP!EventTimes, Hooks!Never, HP!Never
<1>2. \A e : Hooks!ReceiveDuplicate(w, e) <=> HP!ReceiveDuplicate(w, e)
      BY DEF Hooks!ReceiveDuplicate, HP!ReceiveDuplicate, Hooks!Recorded, HP!Recorded,
             Hooks!handlerVars, HP!handlerVars
<1>3. Hooks!Handle(w) <=> HP!Handle(w)
      BY DEF Hooks!Handle, HP!Handle, Hooks!CommitUnrouted, HP!CommitUnrouted,
             Hooks!LockRow, HP!LockRow, Hooks!CommitIgnored, HP!CommitIgnored,
             Hooks!CommitApplied, HP!CommitApplied, Hooks!RejectedByCheck,
             HP!RejectedByCheck, Hooks!Routes, HP!Routes, Hooks!OtherKinds, HP!OtherKinds,
             Hooks!ProductKinds, HP!ProductKinds, Hooks!Ignored, HP!Ignored, Hooks!Never,
             HP!Never, Hooks!ProviderStatus, HP!ProviderStatus, Hooks!Commit, HP!Commit,
             Hooks!Rollback, HP!Rollback, Hooks!GoIdle, HP!GoIdle, Hooks!Unlock,
             HP!Unlock, Hooks!Outcome, HP!Outcome, Hooks!Flush, HP!Flush, Hooks!Column,
             HP!Column, Hooks!Apply, HP!Apply, Hooks!ApplyProduct, HP!ApplyProduct,
             Hooks!ApplyAccount, HP!ApplyAccount, Hooks!MapStatus, HP!MapStatus,
             Hooks!RowChecks, HP!RowChecks, Hooks!CheckVerifiedHasPayoutDetails,
             HP!CheckVerifiedHasPayoutDetails, Hooks!CheckNoProviderStatusBeforePending,
             HP!CheckNoProviderStatusBeforePending, Hooks!CheckActivatedImpliesVerified,
             HP!CheckActivatedImpliesVerified
<1>4. Hooks!Crash(w) <=> HP!Crash(w)
      BY DEF Hooks!Crash, HP!Crash, Hooks!Rollback, HP!Rollback, Hooks!GoIdle, HP!GoIdle,
             Hooks!Unlock, HP!Unlock
<1> QED BY <1>1, <1>2, <1>3, <1>4

LEMMA SamePromises ==
  /\ Kyc!FinishIsAccepted <=> KP!FinishIsAccepted
  /\ Kyc!IdsBelongTogether <=> KP!IdsBelongTogether
  /\ Kyc!SentCodeIsStored <=> KP!SentCodeIsStored
  /\ Kyc!OneAccountPerOrganizer <=> KP!OneAccountPerOrganizer
<1>1. Kyc!FinishIsAccepted <=> KP!FinishIsAccepted
      BY DEF Kyc!FinishIsAccepted, KP!FinishIsAccepted, Kyc!Written, KP!Written,
             Kyc!Flush, KP!Flush, Kyc!Column, KP!Column, Kyc!RowChecks, KP!RowChecks,
             Kyc!CheckVerifiedHasPayoutDetails, KP!CheckVerifiedHasPayoutDetails,
             Kyc!CheckNoProviderStatusBeforePending, KP!CheckNoProviderStatusBeforePending,
             Kyc!CheckActivatedImpliesVerified, KP!CheckActivatedImpliesVerified
<1>2. Kyc!IdsBelongTogether <=> KP!IdsBelongTogether
      BY DEF Kyc!IdsBelongTogether, KP!IdsBelongTogether
<1>3. Kyc!SentCodeIsStored <=> KP!SentCodeIsStored
      BY DEF Kyc!SentCodeIsStored, KP!SentCodeIsStored
<1>4. Kyc!OneAccountPerOrganizer <=> KP!OneAccountPerOrganizer
      BY DEF Kyc!OneAccountPerOrganizer, KP!OneAccountPerOrganizer, Kyc!Cardinality, KP!Cardinality
<1> QED BY <1>1, <1>2, <1>3, <1>4

-----------------------------------------------------------------------------
(* The inductive invariant: what requests keep (KycSubmissionProofs), what *)
(* handlers keep (WebhookIngestProofs), and what Razorpay's announcements  *)
(* have to do with both.                                                   *)

NewsInv ==
  /\ sent \subseteq Announcements
  /\ hasty \subseteq sent
  /\ now \in Nat
  /\ acked \subseteq sent
  /\ faults + crashes <= MaxFaults
  /\ \A w \in Handlers : pc[w] # "idle" => job[w].evt \in sent

(* Razorpay's activations are announced, and it does not go back on them.  *)
Announced(news, a) == \E e \in news : e.account = a /\ e.status = "activated"

ActivationsInv ==
  \A a \in Accounts :
    /\ remote[a].product = "activated" => Announced(sent, a)
    /\ Announced(sent, a) => KP!Decided(a)

(* Razorpay asks for something only while it wants a clarification.        *)
AsksInv ==
  \A a \in Accounts :
    remote[a].product # "needs_clarification" => remote[a].requirements = NULL

(* "activated" on a row, or on its way to a row, was announced for the     *)
(* account that the row names; a request that is about to write anything   *)
(* but a decision has not seen the activations that came since its call,   *)
(* which are hasty then.                                                   *)
VerifiedInv ==
  /\ \A o \in Organizers :
       profile[o].provider_status = "activated" => Announced(sent, profile[o].account_id)
  /\ \A s \in Submitters : step[s] # "idle" =>
       /\ draft[s].provider_status = "activated" => Announced(sent, draft[s].account_id)
       /\ step[s] = "finish" /\ draft[s].provider_status \notin {"activated", "suspended"} =>
            \A e \in sent :
              e.account = draft[s].account_id /\ e.status = "activated" => e \in hasty

Inv ==
  /\ KP!SubmissionInv
  /\ KP!TurnInv
  /\ HP!HandlersInv
  /\ NewsInv
  /\ ActivationsInv
  /\ AsksInv
  /\ OneAtATime => VerifiedInv

LEMMA TypesFromInv ==
  ASSUME KP!SubmissionInv, HP!HandlersInv, NewsInv
  PROVE  TypeOK
BY SameKycType, SameHooksType DEF KP!SubmissionInv, HP!HandlersInv, NewsInv, TypeOK

-----------------------------------------------------------------------------
(* A step of a request.                                                    *)

(* It is one of the three kinds of step KycSubmission has.                 *)
LEMMA RequestSteps ==
  ASSUME Inv, NEW s \in Submitters, Submission(s)
  PROVE  /\ KP!Next
         /\ (\E o \in Organizers : KP!Begins(s, o)) \/ KP!Moves(s) \/ KP!Ends(s)
         /\ KP!ProductsKept(s)
         /\ UNCHANGED <<hasty, seen, acked, pc, job, target, loaded, crashes>>
<1>1. \/ \E o \in Organizers, f \in Forms : KP!Start(s, o, f)
      \/ KP!Submit(s)
      \/ KP!Die(s)
      BY SameRequests DEF Submission
<1>2. KP!Next
      BY <1>1 DEF KP!Next
<1>3. (\E o \in Organizers : KP!Begins(s, o)) \/ KP!Moves(s) \/ KP!Ends(s)
      BY <1>1, KP!RequestStep, KycAssumptions DEF Inv
<1>4. KP!ProductsKept(s)
      BY <1>3 DEF KP!Begins, KP!Moves, KP!Ends, KP!ProductsKept, KP!ProductSame
<1>5. UNCHANGED <<hasty, seen, acked, pc, job, target, loaded, crashes>>
      BY DEF Submission, hookVars
<1> QED BY <1>2, <1>3, <1>4, <1>5

(* Requests do not disturb the handlers.                                   *)
LEMMA RequestKeepsHandlers ==
  ASSUME Inv, NEW s \in Submitters, Submission(s), KP!TypeOK'
  PROVE  HP!HandlersInv'
<1>1. HP!TypeOK /\ HP!LockInv /\ HP!DedupInv /\ HP!AckedAreRecorded /\ KP!TypeOK
      BY DEF Inv, HP!HandlersInv, KP!SubmissionInv
<1>2. UNCHANGED <<seen, acked, pc, job, target, loaded, crashes>>
      BY RequestSteps
<1>3. HP!TypeOK'
  <2>1. profile' \in [Organizers -> HP!Row] /\ holder' \in [Organizers -> Sessions \cup {NULL}]
        BY DEF KP!TypeOK, KP!Row, HP!Row, KP!KYCStatus, HP!KYCStatus, KP!ProviderStatus,
           HP!ProviderStatus, KP!AccountStatus, HP!AccountStatus
  <2> QED BY <1>1, <1>2, <2>1 DEF HP!TypeOK
<1>4. HP!LockInv'
  <2> SUFFICES ASSUME NEW w \in Handlers, pc[w] = "apply"
               PROVE  /\ holder'[target[w]] = w
                      /\ loaded[w] = profile'[target[w]]
                      /\ HP!Routes(job[w].evt, target[w])'
      BY <1>2 DEF HP!LockInv
  <2>1. /\ target[w] \in Organizers /\ holder[target[w]] = w
        /\ loaded[w] = profile[target[w]] /\ HP!Routes(job[w].evt, target[w])
        BY <1>1 DEF HP!LockInv, HP!TypeOK
  <2>2. w \notin {NULL, s}
        BY SessionsAssumption, NullAssumption
  <2>3. profile'[target[w]] = profile[target[w]] /\ holder'[target[w]] = holder[target[w]]
        BY <1>1, <2>1, <2>2, RequestSteps, KP!LockedRowsKept, KycAssumptions
  <2> QED BY <1>2, <2>1, <2>3 DEF HP!Routes
<1>5. HP!DedupInv' /\ HP!AckedAreRecorded'
      BY <1>1, <1>2 DEF HP!DedupInv, HP!AckedAreRecorded, HP!Recorded
<1> QED BY <1>3, <1>4, <1>5 DEF HP!HandlersInv

(* A request changes one product at most, its own account's, and Razorpay  *)
(* announces what it does to it.  What it has decided on stays as it is.   *)
LEMMA RequestNews ==
  ASSUME Inv, NEW s \in Submitters, Submission(s)
  PROVE  LET a == draft[s].account_id IN
         \/ /\ sent' = sent /\ now' = now
            /\ \A b \in Accounts : KP!ProductSame(b)
         \/ /\ a \in Accounts /\ ~KP!Decided(a) /\ remote'[a].product \in Replies
            /\ \A b \in Accounts \ {a} : KP!ProductSame(b)
            /\ Announce(ProductNews(a))
<1> DEFINE a == draft[s].account_id
<1>1. KP!ProductsKept(s)
      BY RequestSteps
<1>2. \A b \in Accounts : b \in Changed <=> ~KP!ProductSame(b)
      BY DEF Changed, ProductOf, KP!ProductSame
<1>3. CASE Changed = {}
      BY <1>2, <1>3 DEF Submission, Changed
<1>4. CASE Changed # {}
  <2>1. PICK b \in Changed : Announce(ProductNews(b))
        BY <1>4 DEF Submission
  <2>2. b \in Accounts /\ ~KP!ProductSame(b)
        BY <1>2 DEF Changed
  <2>3. b = a /\ remote'[b].requirements \in KP!RequirementsFor(remote'[b].product)
        BY <1>1, <2>2 DEF KP!ProductsKept
  <2>4. ASSUME KP!Decided(b) PROVE FALSE
    <3>1. /\ remote'[b].product = remote[b].product
          /\ remote[b].product # "needs_clarification"
          BY <1>1, <2>2, <2>4 DEF KP!ProductsKept, KP!Decided
    <3>2. remote'[b].requirements = NULL /\ remote[b].requirements = NULL
          BY <2>2, <2>3, <3>1 DEF KP!RequirementsFor, Inv, AsksInv
    <3> QED BY <2>2, <3>1, <3>2 DEF KP!ProductSame
  <2>5. remote'[b].product \in Replies
        BY <1>1, <2>2, <2>4 DEF KP!ProductsKept
  <2>6. \A c \in Accounts \ {a} : KP!ProductSame(c)
        BY <1>1 DEF KP!ProductsKept
  <2> QED BY <2>1, <2>2, <2>3, <2>4, <2>5, <2>6
<1> QED BY <1>3, <1>4

(* An announcement of a product's status.                                  *)
LEMMA ProductNewsFacts ==
  ASSUME NEW a \in Accounts, Announce(ProductNews(a)), NewsInv,
         remote' \in [Accounts -> KP!LinkedAccount],
         remote'[a].product \in Replies \cup Verdicts
  PROVE  /\ sent' = sent \cup {ProductNews(a)} /\ sent' \subseteq Announcements /\ now' \in Nat
         /\ ProductNews(a).account = a /\ ProductNews(a).status = remote'[a].product
         /\ ProductNews(a).kind \in ProductKinds
<1>0. /\ ProductKind(remote'[a].product) \in ProductKinds /\ ProductNews(a) =
            [kind |-> ProductKind(remote'[a].product), account |-> a,
             status |-> remote'[a].product, requirements |-> remote'[a].requirements,
             created_at |-> now]
      BY DEF ProductNews, ProductKind, ProductKinds, HandledKinds
<1>1. remote'[a].requirements \in Requirements \cup {NULL}
      BY DEF KP!LinkedAccount
<1>2. ProductNews(a) \in Announcements
      BY <1>0, <1>1 DEF Announcements, Announce
<1>3. sent' = sent \cup {ProductNews(a)} /\ now' \in Nat
      BY DEF Announce, NewsInv
<1> QED BY <1>0, <1>2, <1>3 DEF NewsInv

(* The announcements a request causes are about its account, which         *)
(* Razorpay had not decided on.                                            *)
LEMMA RequestAnnounces ==
  ASSUME Inv, NEW s \in Submitters, Submission(s), KP!TypeOK'
  PROVE  /\ sent \subseteq sent' /\ sent' \subseteq Announcements /\ now' \in Nat
         /\ \A a \in Accounts : remote'[a].product # remote[a].product =>
              \E e \in sent' : e.account = a /\ e.status = remote'[a].product
         /\ \A e \in sent' \ sent :
              /\ e.account \in Accounts /\ e.account = draft[s].account_id
              /\ KP!Busy(s) /\ ~KP!Decided(e.account)
              /\ e.status = remote'[e.account].product
<1> DEFINE a == draft[s].account_id
<1>1. NewsInv /\ remote' \in [Accounts -> KP!LinkedAccount]
      BY DEF Inv, KP!TypeOK
<1>2. CASE /\ sent' = sent /\ now' = now
           /\ \A b \in Accounts : KP!ProductSame(b)
      BY <1>1, <1>2 DEF NewsInv, KP!ProductSame
<1>3. CASE /\ a \in Accounts /\ ~KP!Decided(a) /\ remote'[a].product \in Replies
           /\ \A b \in Accounts \ {a} : KP!ProductSame(b)
           /\ Announce(ProductNews(a))
  <2>1. /\ sent' = sent \cup {ProductNews(a)} /\ sent' \subseteq Announcements /\ now' \in Nat
        /\ ProductNews(a).account = a /\ ProductNews(a).status = remote'[a].product
        BY <1>1, <1>3, ProductNewsFacts
  <2>2. ASSUME sent' # sent PROVE KP!Busy(s)
    <3>1. ASSUME NEW o \in Organizers, KP!Begins(s, o) PROVE FALSE
      <4>1. Changed = {}
            BY <3>1 DEF KP!Begins, Changed, ProductOf
      <4> QED BY <2>2, <4>1 DEF Submission
    <3>2. KP!Moves(s) \/ KP!Ends(s)
          BY <3>1, RequestSteps
    <3> QED BY <3>2 DEF KP!Moves, KP!Ends
  <2> QED BY <1>3, <2>1, <2>2 DEF KP!ProductSame
<1> QED BY <1>2, <1>3, RequestNews

(* Activations are announced, and a request reopens no decided product.    *)
LEMMA RequestKeepsNews ==
  ASSUME Inv, NEW s \in Submitters, Submission(s), KP!TypeOK', faults' + crashes' <= MaxFaults
  PROVE  NewsInv' /\ ActivationsInv' /\ AsksInv'
<1>1. NewsInv /\ ActivationsInv /\ AsksInv
      BY DEF Inv
<1>2. UNCHANGED <<hasty, seen, acked, pc, job, target, loaded, crashes>>
      BY RequestSteps
<1>3. sent \subseteq sent' /\ sent' \subseteq Announcements /\ now' \in Nat
      BY RequestAnnounces
<1>4. NewsInv'
      BY <1>1, <1>2, <1>3 DEF NewsInv
<1>5. ASSUME NEW a \in Accounts
      PROVE  /\ remote'[a].product = "activated" => Announced(sent', a)
             /\ Announced(sent', a) => KP!Decided(a)'
  <2>1. CASE remote'[a].product # remote[a].product
    <3>1. \E e \in sent' : e.account = a /\ e.status = remote'[a].product
          BY <2>1, RequestAnnounces
    <3>2. a = draft[s].account_id /\ ~KP!Decided(a)
          BY <2>1, RequestSteps DEF KP!ProductsKept, KP!ProductSame
    <3>3. ASSUME NEW e \in sent', e.account = a, e.status = "activated"
          PROVE  remote'[a].product = "activated"
          BY <1>1, <3>2, <3>3, RequestAnnounces DEF ActivationsInv, Announced
    <3> QED BY <3>1, <3>3 DEF Announced, KP!Decided
  <2>2. CASE remote'[a].product = remote[a].product
    <3>1. remote'[a].product = "activated" => Announced(sent', a)
          BY <1>1, <1>3, <2>2 DEF ActivationsInv, Announced
    <3>2. ASSUME NEW e \in sent', e.account = a, e.status = "activated"
          PROVE  KP!Decided(a)'
      <4>1. CASE e \in sent
            BY <1>1, <2>2, <3>2, <4>1 DEF ActivationsInv, Announced, KP!Decided
      <4>2. CASE e \notin sent
            BY <3>2, <4>2, RequestAnnounces DEF KP!Decided
      <4> QED BY <4>1, <4>2
    <3> QED BY <3>1, <3>2 DEF Announced
  <2> QED BY <2>1, <2>2
<1>6. ActivationsInv'
      BY <1>5 DEF ActivationsInv
<1>7. AsksInv'
      BY <1>1, RequestSteps DEF AsksInv, KP!ProductsKept, KP!ProductSame, KP!RequirementsFor
<1> QED BY <1>4, <1>6, <1>7

(* Before its last call has answered, a request has nothing to verify the  *)
(* organizer with.                                                         *)
LEMMA NotYetActivated ==
  ASSUME NEW st, NEW r, NEW d, KP!Local(st, r, d), st # "finish"
  PROVE  d.provider_status # "activated"
<1>1. /\ KP!Agree(r) /\ r.kyc_status \in {"PENDING", "ACTION_REQUIRED"}
      /\ d.provider_status = r.provider_status
      BY DEF KP!Local, KP!SameStatus
<1>2. "activated" \in ProviderStatus /\ MapStatus["activated"] = "VERIFIED"
      BY DEF ProviderStatus, MapStatus
<1>3. KP!MapStatus = MapStatus
      BY DEF KP!MapStatus, MapStatus, KP!ProviderStatus, ProviderStatus
<1>4. NULL # "activated"
      BY <1>2, NullStatusAssumption
<1> QED BY <1>1, <1>2, <1>3, <1>4 DEF KP!Agree

(* A request writes "activated" only if its last call returned it, and an  *)
(* older answer only if the activation came since, for its own account.    *)
LEMMA RequestKeepsVerified ==
  ASSUME Inv, OneAtATime, NEW s \in Submitters, Submission(s),
         KP!SubmissionInv', ActivationsInv'
  PROVE  VerifiedInv'
<1>1. /\ KP!TypeOK /\ KP!SessionInv /\ KP!SubmissionInv /\ KP!TypeOK' /\ KP!SessionInv'
      /\ KP!InTurn /\ KP!ReadIsCurrent /\ KP!TiedInv /\ KP!TurnInv
      /\ NewsInv /\ ActivationsInv /\ VerifiedInv
      BY DEF Inv, KP!SubmissionInv, KP!TurnInv
<1>2. /\ (\E o \in Organizers : KP!Begins(s, o)) \/ KP!Moves(s) \/ KP!Ends(s)
      /\ KP!Next /\ hasty' = hasty
      BY RequestSteps
<1>3. sent \subseteq sent'
      BY <1>1, RequestAnnounces
<1>4. ASSUME NEW o \in Organizers, profile'[o].provider_status = "activated"
      PROVE  Announced(sent', profile'[o].account_id)
  <2>1. ASSUME profile[o].provider_status = "activated"
        PROVE  Announced(sent', profile'[o].account_id)
    <3>1. PICK e \in sent : e.account = profile[o].account_id /\ e.status = "activated"
          BY <1>1, <2>1 DEF VerifiedInv, Announced
    <3>2. e.account # NULL
          BY <1>1, <3>1, NullAssumption DEF NewsInv, Announcements
    <3>3. profile'[o].account_id = profile[o].account_id
          BY <1>1, <1>2, <3>1, <3>2, KP!IdsStep, KycAssumptions DEF KP!Extends, KP!Keeps
    <3> QED BY <1>3, <3>1, <3>3 DEF Announced
  <2>2. ASSUME profile[o].provider_status # "activated"
        PROVE  Announced(sent', profile'[o].account_id)
    <3>1. profile' # profile
          BY <1>4, <2>2
    <3>2. KP!Ends(s) /\ profile' = [profile EXCEPT ![who[s]] = KP!Written(s)] /\ KP!Busy(s)
          BY <1>2, <3>1 DEF KP!Begins, KP!Moves, KP!Ends
    <3>3. o = who[s] /\ profile'[o] = KP!Written(s)
          BY <1>1, <1>4, <2>2, <3>2 DEF KP!TypeOK
    <3>4. KP!Written(s).provider_status =
            KP!Column(profile[o].provider_status, read[s].provider_status, draft[s].provider_status)
          BY <1>1, <3>2, <3>3, KP!WrittenColumns, KycAssumptions
    <3>5. draft[s].provider_status = "activated"
          BY <1>4, <2>2, <3>3, <3>4 DEF KP!Column
    <3>6. KP!Written(s).account_id = draft[s].account_id
          BY <1>1, <3>2, KP!WrittenIds, KycAssumptions DEF KP!ReadIsCurrent, KP!SameIds
    <3> QED BY <1>1, <1>3, <3>2, <3>3, <3>5, <3>6 DEF VerifiedInv, Announced, KP!Busy
  <2> QED BY <2>1, <2>2
<1>5. ASSUME NEW t \in Submitters \ {s}
      PROVE  step'[t] = step[t] /\ draft'[t] = draft[t]
      BY <1>2 DEF KP!Begins, KP!Moves, KP!Ends, KP!Others
<1>6. ASSUME NEW t \in Submitters, step'[t] # "idle"
      PROVE  /\ KP!Local(step'[t], read'[t], draft'[t]) /\ draft'[t] \in KP!Row
      BY <1>1, <1>6 DEF KP!SessionInv, KP!Busy, KP!TypeOK
<1>7. ASSUME step'[s] = "finish"
      PROVE  /\ draft'[s].provider_status = remote'[draft'[s].account_id].product
             /\ draft'[s].account_id \in Accounts
  <2>1. KP!Moves(s)
        BY <1>2, <1>7 DEF KP!Begins, KP!Ends
  <2>2. draft'[s].account_id # NULL
        BY <1>6, <1>7 DEF KP!Local
  <2>3. draft'[s].account_id \in Accounts \cup {NULL}
        BY <1>6, <1>7 DEF KP!Row
  <2> QED BY <1>7, <2>1, <2>2, <2>3 DEF KP!Moves
<1>8. ASSUME NEW t \in Submitters, step'[t] # "idle", draft'[t].provider_status = "activated"
      PROVE  Announced(sent', draft'[t].account_id)
  <2>1. CASE t # s
        BY <1>1, <1>3, <1>5, <1>8, <2>1 DEF VerifiedInv, Announced
  <2>2. CASE t = s
    <3>1. step'[s] = "finish"
          BY <1>6, <1>8, <2>2, NotYetActivated
    <3> QED BY <1>7, <1>8, <2>2, <3>1 DEF ActivationsInv
  <2> QED BY <2>1, <2>2
<1>9. ASSUME NEW t \in Submitters, step'[t] = "finish",
             draft'[t].provider_status \notin {"activated", "suspended"},
             NEW e \in sent', e.account = draft'[t].account_id, e.status = "activated"
      PROVE  e \in hasty'
  <2>1. CASE t # s /\ e \in sent
        BY <1>1, <1>2, <1>5, <1>9, <2>1 DEF VerifiedInv
  <2>2. CASE t # s /\ e \notin sent
    <3>1. /\ e.account \in Accounts /\ e.account = draft[s].account_id /\ KP!Busy(s)
          BY <1>1, <2>2, RequestAnnounces
    <3>2. e.account = draft[t].account_id /\ KP!Busy(t) /\ e.account # NULL
          BY <1>5, <1>9, <2>2, <3>1, NullAssumption DEF KP!Busy
    <3>3. remote[e.account].owner = who[s] /\ remote[e.account].owner = who[t]
          BY <1>1, <3>1, <3>2 DEF KP!TiedInv, KP!Tied, KP!TiedIn
    <3> QED BY <1>1, <2>2, <3>1, <3>2, <3>3 DEF KP!InTurn
  <2>3. CASE t = s
    <3>1. ~KP!Decided(e.account)' /\ e.account \in Accounts
          BY <1>7, <1>9, <2>3 DEF KP!Decided
    <3>2. Announced(sent', e.account)
          BY <1>9 DEF Announced
    <3> QED BY <3>1, <3>2 DEF ActivationsInv
  <2> QED BY <2>1, <2>2, <2>3
<1> QED BY <1>4, <1>8, <1>9 DEF VerifiedInv

LEMMA SubmissionStepInv ==
  ASSUME Inv, NEW s \in Submitters, Submission(s), faults' + crashes' <= MaxFaults
  PROVE  Inv'
<1>1. KP!SubmissionInv /\ KP!TurnInv /\ KP!Next
      BY RequestSteps DEF Inv
<1>2. KP!SubmissionInv' /\ KP!TurnInv'
      BY <1>1, KP!SubmissionStep, KP!TurnStep, KycAssumptions
<1>3. KP!TypeOK'
      BY <1>2 DEF KP!SubmissionInv
<1>4. HP!HandlersInv' /\ NewsInv' /\ ActivationsInv' /\ AsksInv'
      BY <1>3, RequestKeepsHandlers, RequestKeepsNews
<1>5. OneAtATime => VerifiedInv'
      BY <1>2, <1>4, RequestKeepsVerified
<1> QED BY <1>2, <1>4, <1>5 DEF Inv

-----------------------------------------------------------------------------
(* A step of Razorpay's own.                                               *)

(* Razorpay does not announce what it has not done.                        *)
Truthful(e) ==
  /\ e \in Announcements
  /\ e.status = "activated" => remote'[e.account].product = "activated"
  /\ \A a \in Accounts :
       \/ remote'[a].product = remote[a].product
       \/ e.account = a /\ e.status = remote'[a].product

(* Only an announcement about a product can say "activated".               *)
LEMMA ActivatedIsProductNews ==
  ASSUME NEW e \in Announcements, e.status = "activated"
  PROVE  e.account \in Accounts /\ e.kind \notin AccountKinds
<1>1. NULL # "activated"
      BY NullStatusAssumption DEF ProviderStatus
<1> QED BY <1>1 DEF Announcements, ProductKinds, HandledKinds, AccountKinds

(* An activation that comes while its owner's submission is open is hasty. *)
LEMMA DecreeStep ==
  ASSUME Inv, NEW e, Truthful(e), Decree(e),
         remote' \in [Accounts -> KP!LinkedAccount], KP!AccountsSame,
         \A a \in Accounts : KP!Decided(a) => KP!Decided(a)', AsksInv',
         UNCHANGED <<profile, holder, step, who, read, draft, answer, faults, hookVars>>
  PROVE  Inv'
<1>1. /\ KP!SubmissionInv /\ KP!TurnInv /\ HP!HandlersInv /\ NewsInv /\ ActivationsInv
      /\ UNCHANGED <<seen, acked, pc, job, target, loaded, crashes>>
      BY DEF Inv, hookVars
<1>2. KP!SubmissionInv' /\ KP!TurnInv'
      BY <1>1, KP!OthersChangeAccounts, KycAssumptions
<1>3. HP!HandlersInv'
      BY <1>1 DEF HP!HandlersInv, HP!TypeOK, HP!LockInv, HP!Routes, HP!DedupInv,
         HP!AckedAreRecorded, HP!Recorded
<1>4. /\ sent' = sent \cup {e} /\ now' \in Nat
      /\ hasty' = IF TooEarly(e) THEN hasty \cup {e} ELSE hasty
      BY <1>1 DEF Decree, Announce, NewsInv
<1>5. NewsInv'
      BY <1>1, <1>4 DEF NewsInv, Truthful
<1>6. ActivationsInv'
  <2> SUFFICES ASSUME NEW a \in Accounts
               PROVE  /\ remote'[a].product = "activated" => Announced(sent', a)
                      /\ Announced(sent', a) => KP!Decided(a)'
      BY DEF ActivationsInv
  <2>1. ASSUME remote'[a].product = "activated" PROVE Announced(sent', a)
        BY <1>1, <1>4, <2>1 DEF ActivationsInv, Announced, Truthful
  <2>2. ASSUME NEW f \in sent', f.account = a, f.status = "activated" PROVE KP!Decided(a)'
    <3>1. CASE f \in sent
          BY <1>1, <2>2, <3>1 DEF ActivationsInv, Announced
    <3>2. CASE f = e
          BY <2>2, <3>2 DEF Truthful, KP!Decided
    <3> QED BY <1>4, <3>1, <3>2
  <2> QED BY <2>1, <2>2 DEF Announced
<1>7. ASSUME OneAtATime PROVE VerifiedInv'
  <2>1. VerifiedInv /\ KP!TiedInv
        BY <1>7 DEF Inv, KP!TurnInv
  <2>2. ASSUME NEW s \in Submitters, step[s] = "finish",
               draft[s].provider_status \notin {"activated", "suspended"},
               NEW f \in sent', f.account = draft[s].account_id, f.status = "activated"
        PROVE  f \in hasty'
    <3>1. CASE f \in sent
          BY <1>4, <2>1, <2>2, <3>1 DEF VerifiedInv
    <3>2. CASE f = e
      <4>1. e.account \in Accounts /\ e.kind \notin AccountKinds
            BY <2>2, <3>2, ActivatedIsProductNews DEF Truthful
      <4>2. remote[e.account].owner = who[s]
            BY <2>1, <2>2, <3>2, <4>1, NullAssumption
               DEF KP!TiedInv, KP!Tied, KP!TiedIn, KP!Busy
      <4>3. TooEarly(e)
            BY <4>1, <4>2 DEF TooEarly
      <4> QED BY <1>4, <3>2, <4>3
    <3> QED BY <1>4, <3>1, <3>2
  <2>3. /\ \A o \in Organizers :
             profile[o].provider_status = "activated" => Announced(sent', profile[o].account_id)
        /\ \A s \in Submitters : step[s] # "idle" /\ draft[s].provider_status = "activated" =>
             Announced(sent', draft[s].account_id)
        BY <1>4, <2>1 DEF VerifiedInv, Announced
  <2> QED BY <2>2, <2>3 DEF VerifiedInv
<1> QED BY <1>2, <1>3, <1>5, <1>6, <1>7 DEF Inv

LEMMA ReviewStep ==
  ASSUME Inv, NEW a \in Accounts, Review(a)
  PROVE  Inv'
<1>1. PICK st \in Reviews(a) : \E req \in Kyc!RequirementsFor(st) :
        remote' = [remote EXCEPT ![a].product = st, ![a].requirements = req]
      BY DEF Review
<1>10. PICK req \in Kyc!RequirementsFor(st) :
         remote' = [remote EXCEPT ![a].product = st, ![a].requirements = req]
      BY <1>1
<1>2. st \in Verdicts \cap ProviderStatus
      BY ProviderAssumption DEF Reviews
<1>3. req \in Requirements \cup {NULL}
      BY DEF Kyc!RequirementsFor
<1>4. KP!TypeOK /\ NewsInv /\ KP!ProviderStatus = ProviderStatus
      BY DEF Inv, KP!SubmissionInv, KP!ProviderStatus, ProviderStatus
<1>5. /\ remote' \in [Accounts -> KP!LinkedAccount] /\ KP!AccountsSame
      /\ remote'[a].product = st /\ remote'[a].requirements = req
      /\ \A b \in Accounts \ {a} : remote'[b] = remote[b]
      BY <1>10, <1>2, <1>3, <1>4, KP!ProductOnFile, KycAssumptions
<1>6. Decree(ProductNews(a)) /\ Announce(ProductNews(a))
      BY DEF Review, Decree
<1>7. Truthful(ProductNews(a))
  <2>1. /\ sent' = sent \cup {ProductNews(a)} /\ sent' \subseteq Announcements
        /\ ProductNews(a).account = a /\ ProductNews(a).status = remote'[a].product
        BY <1>2, <1>4, <1>5, <1>6, ProductNewsFacts
  <2> QED BY <1>5, <2>1 DEF Truthful
<1>8. KP!Decided(a) => st = "suspended"
      BY DEF Reviews, Kyc!Decided, KP!Decided
<1>9. \A b \in Accounts : KP!Decided(b) => KP!Decided(b)'
      BY <1>5, <1>8 DEF KP!Decided
<1>11. AsksInv'
       BY <1>5 DEF Inv, AsksInv, Kyc!RequirementsFor
<1> QED BY <1>5, <1>6, <1>7, <1>9, <1>11, DecreeStep DEF Review

LEMMA SuspendStep ==
  ASSUME Inv, NEW a \in Accounts, Suspend(a)
  PROVE  Inv'
<1>1. PICK st \in AccountStatus : remote' = [remote EXCEPT ![a].status = st]
      BY DEF Suspend
<1>2. remote \in [Accounts -> KP!LinkedAccount]
      BY DEF Inv, KP!SubmissionInv, KP!TypeOK
<1> DEFINE n == [remote[a] EXCEPT !.status = st]
<1>3. /\ n \in KP!LinkedAccount /\ n.owner = remote[a].owner /\ n.code = remote[a].code
      /\ n.product = remote[a].product /\ n.requirements = remote[a].requirements
      BY <1>2 DEF KP!LinkedAccount, KP!AccountStatus, AccountStatus
<1>4. remote' = [remote EXCEPT ![a] = n]
      BY <1>1, <1>2
<1> HIDE DEF n
<1>5. /\ remote' \in [Accounts -> KP!LinkedAccount] /\ KP!AccountsSame
      /\ \A b \in Accounts : KP!ProductSame(b)
      BY <1>2, <1>3, <1>4 DEF KP!AccountsSame, KP!ProductSame
<1>6. Decree(AccountNews(a)) /\ now \in Times
      BY DEF Suspend, Decree, Announce
<1>7. Truthful(AccountNews(a))
  <2>1. NULL # "activated"
        BY NullStatusAssumption DEF ProviderStatus
  <2>2. AccountNews(a) \in Announcements /\ AccountNews(a).status = NULL
        BY <1>6 DEF AccountNews, Announcements, AccountKinds
  <2> QED BY <1>5, <2>1, <2>2 DEF Truthful, KP!ProductSame
<1>8. (\A b \in Accounts : KP!Decided(b) => KP!Decided(b)') /\ AsksInv'
      BY <1>5 DEF KP!Decided, KP!ProductSame, Inv, AsksInv
<1> QED BY <1>5, <1>6, <1>7, <1>8, DecreeStep DEF Suspend

-----------------------------------------------------------------------------
(* A step of a handler.                                                    *)

(* It is a step of WebhookIngest.                                          *)
LEMMA WebhookSteps ==
  ASSUME Inv, NEW w \in Handlers, Webhook(w)
  PROVE  /\ HP!Next
         /\ UNCHANGED <<remote, step, who, read, draft, answer, faults, sent, now>>
         /\ hasty' = {e \in hasty : TooEarly(e) \/ \A s \in seen' \ seen : s.evt # e}
<1>1. sent \subseteq Announcements
      BY DEF Inv, NewsInv
<1>2. \/ \E e \in Announcements : HP!ReceiveNew(w, e) \/ HP!ReceiveDuplicate(w, e)
      \/ HP!Handle(w)
      \/ HP!Crash(w)
      BY <1>1, SameDeliveries DEF Webhook
<1>3. HP!Next
      BY <1>2 DEF HP!Next, HP!Deliver
<1> QED BY <1>3 DEF Webhook, kycVars

(* What a handler does to a row.                                           *)
LEMMA WebhookRows ==
  ASSUME Inv, HP!Next, NEW o \in Organizers, profile'[o] # profile[o]
  PROVE  /\ KP!Agree(profile'[o]) /\ KP!SameIds(profile[o], profile'[o])
         /\ profile'[o].details = profile[o].details
         /\ profile'[o].submitted = profile[o].submitted
         /\ \E s \in seen' \ seen :
              /\ s.evt \in sent /\ s.evt.account = profile[o].account_id
              /\ profile'[o].provider_status \in {s.evt.status, profile[o].provider_status}
<1>1. HP!HandlersInv /\ NewsInv /\ KP!RowsAgree /\ profile[o] \in HP!Row
      BY DEF Inv, KP!SubmissionInv, HP!HandlersInv, HP!TypeOK
<1>2. PICK v \in Handlers :
        /\ pc[v] = "apply" /\ holder[o] = v /\ job[v] \in HP!Job /\ HP!Routes(job[v].evt, o)
        /\ ~HP!Ignored(profile[o], job[v].evt, job[v].at)
        /\ profile'[o] = HP!Apply(profile[o], job[v].evt, job[v].at)
        /\ job[v] \in seen' \ seen
      BY <1>1, HP!HandlersChange, HooksAssumptions
<1> DEFINE e == job[v].evt
           at == job[v].at
           r  == profile[o]
           n  == profile'[o]
<1>3. e \in sent /\ e.account = r.account_id
      BY <1>1, <1>2 DEF NewsInv, HP!Routes
<1>4. /\ n.account_id = r.account_id /\ n.stakeholder_id = r.stakeholder_id
      /\ n.product_id = r.product_id /\ n.reference_code = r.reference_code
      /\ n.details = r.details /\ n.submitted = r.submitted
      BY <1>1, <1>2, HP!AppliedKeeps, HooksAssumptions
<1>5. KP!Agree(n) /\ n.provider_status \in {e.status, r.provider_status}
  <2>1. KP!MapStatus = HP!MapStatus
        BY DEF KP!MapStatus, HP!MapStatus, KP!ProviderStatus, HP!ProviderStatus
  <2>2. CASE e.kind \in HP!ProductKinds
    <3>1. n = HP!ApplyProduct(r, e, at)
          BY <1>2, <2>2 DEF HP!Apply
    <3>2. n.provider_status = e.status /\ n.kyc_status = HP!MapStatus[e.status]
          BY <1>1, <3>1, HP!ProductColumns, HooksAssumptions
    <3>3. e.status \in HP!ProviderStatus /\ e.status # NULL
          BY <1>2, <2>2, HooksAssumptions DEF HP!Ignored
    <3> QED BY <2>1, <3>2, <3>3 DEF KP!Agree
  <2>3. CASE e.kind \notin HP!ProductKinds
    <3>1. n = HP!ApplyAccount(r, e, at)
          BY <1>2, <2>3 DEF HP!Apply
    <3>2. n.provider_status = r.provider_status /\ n.kyc_status = r.kyc_status
          BY <1>1, <3>1, HP!AccountColumns, HooksAssumptions
    <3> QED BY <1>1, <3>2 DEF KP!Agree, KP!RowsAgree
  <2> QED BY <2>2, <2>3
<1> QED BY <1>2, <1>3, <1>4, <1>5 DEF KP!SameIds

(* Requests put up with it: it takes no lock of theirs and writes statuses *)
(* that agree.                                                             *)
LEMMA WebhookKeepsKyc ==
  ASSUME Inv, NEW w \in Handlers, Webhook(w), HP!HandlersInv'
  PROVE  KP!SubmissionInv' /\ KP!TurnInv'
<1>1. HP!Next /\ UNCHANGED <<remote, step, who, read, draft, answer, faults>>
      BY WebhookSteps
<1>2. KP!SubmissionInv /\ KP!TurnInv /\ KP!RowsAgree /\ HP!TypeOK /\ HP!TypeOK'
      BY DEF Inv, KP!SubmissionInv, HP!HandlersInv
<1>3. /\ profile' \in [Organizers -> KP!Row]
      /\ holder' \in [Organizers -> Sessions \cup {NULL}]
      BY <1>2 DEF HP!TypeOK, KP!Row, HP!Row, KP!KYCStatus, HP!KYCStatus, KP!ProviderStatus,
         HP!ProviderStatus, KP!AccountStatus, HP!AccountStatus
<1>4. \A o \in Organizers :
        /\ KP!Agree(profile'[o]) /\ KP!SameIds(profile[o], profile'[o])
        /\ profile'[o].details = profile[o].details
        /\ profile'[o].submitted = profile[o].submitted
  <2> TAKE o \in Organizers
  <2>1. CASE profile'[o] = profile[o]
        BY <1>2, <2>1 DEF KP!RowsAgree, KP!SameIds
  <2>2. CASE profile'[o] # profile[o]
        BY <1>1, <2>2, WebhookRows
  <2> QED BY <2>1, <2>2
<1>5. ASSUME NEW o \in Organizers, holder[o] \in Submitters PROVE holder'[o] = holder[o]
  <2>1. holder[o] \notin Handlers \cup {NULL}
        BY <1>5, SessionsAssumption, NullAssumption
  <2>2. holder \in [Organizers -> Sessions \cup {NULL}]
        BY <1>2 DEF HP!TypeOK
  <2> QED BY <1>1, <2>1, <2>2, HP!HandlersRespectLocks, HooksAssumptions
<1> QED BY <1>1, <1>2, <1>3, <1>4, <1>5, KP!OthersChangeRows, KycAssumptions

(* Only what was announced is received, recorded and answered.             *)
LEMMA WebhookKeepsNews ==
  ASSUME Inv, NEW w \in Handlers, Webhook(w), faults' + crashes' <= MaxFaults
  PROVE  NewsInv'
<1>1. NewsInv /\ HP!TypeOK
      BY DEF Inv, HP!HandlersInv
<1>2. sent' = sent /\ now' = now /\ hasty' \subseteq hasty
      BY WebhookSteps
<1>3. /\ acked' \subseteq sent
      /\ \A v \in Handlers : pc'[v] # "idle" => job'[v].evt \in sent
  <2>1. ASSUME NEW e \in sent, HP!ReceiveNew(w, e)
        PROVE  /\ acked' \subseteq sent
               /\ \A v \in Handlers : pc'[v] # "idle" => job'[v].evt \in sent
        BY <1>1, <2>1 DEF HP!ReceiveNew, NewsInv, HP!TypeOK
  <2>2. ASSUME NEW e \in sent, HP!ReceiveDuplicate(w, e)
        PROVE  /\ acked' \subseteq sent
               /\ \A v \in Handlers : pc'[v] # "idle" => job'[v].evt \in sent
        BY <1>1, <2>2 DEF HP!ReceiveDuplicate, HP!handlerVars, NewsInv
  <2>3. ASSUME pc[w] # "idle", HP!GoIdle(w), acked' \subseteq acked \cup {job[w].evt}
        PROVE  /\ acked' \subseteq sent
               /\ \A v \in Handlers : pc'[v] # "idle" => job'[v].evt \in sent
        BY <1>1, <2>3 DEF HP!GoIdle, NewsInv, HP!TypeOK
  <2>4. ASSUME NEW o \in Organizers, HP!LockRow(w, o)
        PROVE  /\ acked' \subseteq sent
               /\ \A v \in Handlers : pc'[v] # "idle" => job'[v].evt \in sent
        BY <1>1, <2>4 DEF HP!LockRow, NewsInv, HP!TypeOK
  <2>5. ASSUME HP!CommitUnrouted(w) \/ HP!CommitIgnored(w) \/ HP!CommitApplied(w)
                 \/ HP!RejectedByCheck(w) \/ HP!Crash(w)
        PROVE  pc[w] # "idle" /\ HP!GoIdle(w) /\ acked' \subseteq acked \cup {job[w].evt}
        BY <2>5 DEF HP!CommitUnrouted, HP!CommitIgnored, HP!CommitApplied, HP!RejectedByCheck,
           HP!Crash, HP!Commit, HP!Rollback
  <2>6. \/ \E e \in sent : HP!ReceiveNew(w, e) \/ HP!ReceiveDuplicate(w, e)
        \/ \E o \in Organizers : HP!LockRow(w, o)
        \/ HP!CommitUnrouted(w) \/ HP!CommitIgnored(w) \/ HP!CommitApplied(w)
              \/ HP!RejectedByCheck(w) \/ HP!Crash(w)
        BY SameDeliveries DEF Webhook, HP!Handle
  <2> QED BY <2>1, <2>2, <2>3, <2>4, <2>5, <2>6
<1> QED BY <1>1, <1>2, <1>3 DEF NewsInv

(* "activated" reaches a row only from an announcement for its account,    *)
(* and a hasty one stays hasty as long as the submission is open.          *)
LEMMA WebhookKeepsVerified ==
  ASSUME Inv, OneAtATime, NEW w \in Handlers, Webhook(w)
  PROVE  VerifiedInv'
<1>1. VerifiedInv /\ NewsInv /\ KP!TiedInv
      BY DEF Inv, KP!TurnInv
<1>2. /\ HP!Next /\ UNCHANGED <<remote, step, who, read, draft, sent>>
      /\ hasty' = {e \in hasty : TooEarly(e) \/ \A s \in seen' \ seen : s.evt # e}
      BY WebhookSteps
<1>3. ASSUME NEW o \in Organizers, profile'[o].provider_status = "activated"
      PROVE  Announced(sent, profile'[o].account_id)
  <2>1. CASE profile'[o] = profile[o]
        BY <1>1, <1>3, <2>1 DEF VerifiedInv
  <2>2. CASE profile'[o] # profile[o]
    <3>1. PICK s \in seen' \ seen :
            /\ s.evt \in sent /\ s.evt.account = profile[o].account_id
            /\ profile'[o].provider_status \in {s.evt.status, profile[o].provider_status}
          BY <1>2, <2>2, WebhookRows
    <3>2. profile'[o].account_id = profile[o].account_id
          BY <1>2, <2>2, WebhookRows DEF KP!SameIds
    <3> QED BY <1>1, <1>3, <3>1, <3>2 DEF VerifiedInv, Announced
  <2> QED BY <2>1, <2>2
<1>4. ASSUME NEW s \in Submitters, step[s] = "finish",
             draft[s].provider_status \notin {"activated", "suspended"},
             NEW e \in sent, e.account = draft[s].account_id, e.status = "activated"
      PROVE  e \in hasty'
  <2>1. e \in hasty
        BY <1>1, <1>4 DEF VerifiedInv
  <2>2. e.account \in Accounts /\ e.kind \notin AccountKinds
        BY <1>1, <1>4, ActivatedIsProductNews DEF NewsInv
  <2>3. remote[e.account].owner = who[s]
        BY <1>1, <1>4, <2>2, NullAssumption DEF KP!TiedInv, KP!Tied, KP!TiedIn, KP!Busy
  <2>4. TooEarly(e)
        BY <2>2, <2>3 DEF TooEarly
  <2> QED BY <1>2, <2>1, <2>4
<1> QED BY <1>1, <1>2, <1>3, <1>4 DEF VerifiedInv

LEMMA WebhookStepInv ==
  ASSUME Inv, NEW w \in Handlers, Webhook(w), faults' + crashes' <= MaxFaults
  PROVE  Inv'
<1>1. HP!HandlersInv /\ HP!Next /\ UNCHANGED <<remote, sent>> /\ ActivationsInv /\ AsksInv
      BY WebhookSteps DEF Inv
<1>2. HP!HandlersInv'
      BY <1>1, HP!HandlersStep, HooksAssumptions
<1>3. KP!SubmissionInv' /\ KP!TurnInv'
      BY <1>2, WebhookKeepsKyc
<1>4. ActivationsInv' /\ AsksInv'
      BY <1>1 DEF ActivationsInv, AsksInv, KP!Decided
<1> QED BY <1>2, <1>3, <1>4, WebhookKeepsNews, WebhookKeepsVerified DEF Inv

-----------------------------------------------------------------------------
(* The inductive invariant.                                                *)

LEMMA InitInv ==
  ASSUME Init
  PROVE  Inv
<1>1. KP!Init /\ HP!Init /\ sent = {} /\ hasty = {} /\ now = 1
      BY SameKycInit, SameHooksInit DEF Init
<1>2. KP!SubmissionInv /\ KP!TurnInv
      BY <1>1, KP!InitFacts, KycAssumptions
<1>3. HP!HandlersInv
      BY <1>1, HP!IndInvInit, HooksAssumptions DEF HP!IndInv
<1>4. NewsInv
      BY <1>1, ProviderAssumption DEF NewsInv, KP!Init, HP!Init
<1>5. NULL # "activated"
      BY NullStatusAssumption DEF ProviderStatus
<1>6. ActivationsInv /\ AsksInv
      BY <1>1, <1>5 DEF ActivationsInv, AsksInv, Announced, KP!Init, KP!NoAccount
<1>7. VerifiedInv
      BY <1>1, <1>5 DEF VerifiedInv, KP!Init, KP!NewProfile
<1> QED BY <1>2, <1>3, <1>4, <1>6, <1>7 DEF Inv

LEMMA StutterInv ==
  ASSUME Inv, UNCHANGED vars
  PROVE  Inv'
<1>1. UNCHANGED <<profile, holder, remote, step, who, read, draft, answer, faults, seen, acked,
                  pc, job, target, loaded, crashes, sent, hasty, now>>
      BY DEF vars, kycVars, hookVars, newsVars
<1>2. KP!SubmissionInv' /\ KP!TurnInv'
  <2>1. KP!SubmissionInv /\ KP!TurnInv /\ remote' \in [Accounts -> KP!LinkedAccount]
        BY <1>1 DEF Inv, KP!SubmissionInv, KP!TypeOK
  <2>2. KP!AccountsSame
        BY <1>1 DEF KP!AccountsSame
  <2> QED BY <1>1, <2>1, <2>2, KP!OthersChangeAccounts, KycAssumptions
<1>3. HP!HandlersInv'
      BY <1>1 DEF Inv, HP!HandlersInv, HP!TypeOK, HP!LockInv, HP!Routes, HP!DedupInv,
         HP!AckedAreRecorded, HP!Recorded
<1>4. NewsInv' /\ ActivationsInv' /\ AsksInv' /\ (OneAtATime => VerifiedInv')
      BY <1>1 DEF Inv, NewsInv, ActivationsInv, AsksInv, VerifiedInv, KP!Decided
<1> QED BY <1>2, <1>3, <1>4 DEF Inv

LEMMA StepInv == Inv /\ [Next]_vars => Inv'
<1> SUFFICES ASSUME Inv, [Next]_vars PROVE Inv'
    OBVIOUS
<1>1. CASE UNCHANGED vars
      BY <1>1, StutterInv
<1>2. CASE Next
  <2>1. ASSUME NEW s \in Submitters, Submission(s) PROVE Inv'
        BY <1>2, <2>1, SubmissionStepInv DEF Next
  <2>2. ASSUME NEW a \in Accounts, Review(a) \/ Suspend(a) PROVE Inv'
        BY <2>2, ReviewStep, SuspendStep
  <2>3. ASSUME NEW w \in Handlers, Webhook(w) PROVE Inv'
        BY <1>2, <2>3, WebhookStepInv DEF Next
  <2> QED BY <1>2, <2>1, <2>2, <2>3 DEF Next
<1> QED BY <1>1, <1>2

(* The inductive invariant holds throughout: for any organizers, requests, *)
(* handlers and accounts, whatever Razorpay decides and whenever, in any   *)
(* order of deliveries and with any answers lost and processes killed.     *)
THEOREM OnboardingInvariant == Spec => []Inv
<1>1. Init => Inv
      BY InitInv
<1> QED BY <1>1, StepInv, PTL DEF Spec

-----------------------------------------------------------------------------
(* The theorems.                                                           *)

(* Every variable keeps its type, and no webhook is received or answered   *)
(* that Razorpay has not announced.                                        *)
THEOREM OnboardingTypeCorrect == Spec => []TypeOK
<1>1. Inv => TypeOK
      BY TypesFromInv DEF Inv
<1> QED BY <1>1, OnboardingInvariant, PTL

(* The last UPDATE of a submission passes the three CHECKs whatever        *)
(* webhooks have written to the row since the request loaded it, even when *)
(* requests of one organizer overlap.                                      *)
THEOREM OnboardingFinishIsAccepted == Spec => []FinishIsAccepted
<1>1. Inv => FinishIsAccepted
      BY KP!FinishAccepted, KycAssumptions, SamePromises DEF Inv, FinishIsAccepted
<1> QED BY <1>1, OnboardingInvariant, PTL

(* When each submission waits for the answer to the one before, webhooks   *)
(* do not tear apart the account, stakeholder and product of a row.        *)
THEOREM OnboardingIdsBelongTogether == OneAtATime => (Spec => []IdsBelongTogether)
<1> SUFFICES ASSUME OneAtATime PROVE Spec => []IdsBelongTogether
    OBVIOUS
<1>1. Inv => KP!IdsBelongTogether
      BY DEF Inv, KP!TurnInv, KP!TiedInv, KP!Tied, KP!TiedIn, KP!IdsBelongTogether
<1>2. Inv => IdsBelongTogether
      BY <1>1, SamePromises DEF IdsBelongTogether
<1> QED BY <1>2, OnboardingInvariant, PTL

(* Then the code Razorpay has on file for the account is the row's.        *)
THEOREM OnboardingSentCodeIsStored == OneAtATime => (Spec => []SentCodeIsStored)
<1> SUFFICES ASSUME OneAtATime PROVE Spec => []SentCodeIsStored
    OBVIOUS
<1>1. Inv => KP!SentCodeIsStored
      BY DEF Inv, KP!TurnInv, KP!TiedInv, KP!Tied, KP!TiedIn, KP!SentCodeIsStored
<1>2. Inv => SentCodeIsStored
      BY <1>1, SamePromises DEF SentCodeIsStored
<1> QED BY <1>2, OnboardingInvariant, PTL

(* Then every linked account but one was paid for with a fault.            *)
THEOREM OnboardingOneAccountPerOrganizer == OneAtATime => (Spec => []OneAccountPerOrganizer)
<1> SUFFICES ASSUME OneAtATime PROVE Spec => []OneAccountPerOrganizer
    OBVIOUS
<1>1. Inv => KP!OneAccountPerOrganizer
      BY KP!AccountsPaidFor, KycAssumptions DEF Inv
<1>2. Inv => OneAccountPerOrganizer
      BY <1>1, SamePromises DEF OneAccountPerOrganizer
<1> QED BY <1>2, OnboardingInvariant, PTL

(* Then no step of a request, of Razorpay or of a handler replaces or      *)
(* clears an id that is stored.                                            *)
THEOREM OnboardingIdsAreKept == OneAtATime => (Spec => IdsAreKept)
<1> SUFFICES ASSUME OneAtATime PROVE Spec => IdsAreKept
    OBVIOUS
<1> DEFINE Kept == \A o \in Organizers :
                     /\ Kyc!Keeps(profile[o].account_id, profile'[o].account_id)
                     /\ Kyc!Keeps(profile[o].stakeholder_id, profile'[o].stakeholder_id)
                     /\ Kyc!Keeps(profile[o].product_id, profile'[o].product_id)
<1>1. ASSUME Inv, [Next]_vars PROVE Kept
  <2>1. CASE profile' = profile
        BY <2>1 DEF Kyc!Keeps
  <2>2. ASSUME NEW s \in Submitters, Submission(s) PROVE Kept
    <3>1. KP!SubmissionInv /\ KP!TurnInv /\ KP!Next
          BY <1>1, <2>2, RequestSteps DEF Inv
    <3>2. \A o \in Organizers : KP!Extends(profile[o], profile'[o])
          BY <3>1, KP!IdsStep, KycAssumptions
    <3> QED BY <3>2 DEF KP!Extends, KP!Keeps, Kyc!Keeps
  <2>3. ASSUME NEW w \in Handlers, Webhook(w) PROVE Kept
    <3>1. HP!Next
          BY <1>1, <2>3, WebhookSteps
    <3>2. \A o \in Organizers : profile'[o] = profile[o] \/ KP!SameIds(profile[o], profile'[o])
          BY <1>1, <3>1, WebhookRows
    <3> QED BY <3>2 DEF KP!SameIds, Kyc!Keeps
  <2>4. \/ profile' = profile
        \/ \E s \in Submitters : Submission(s)
        \/ \E w \in Handlers : Webhook(w)
        BY <1>1 DEF Next, Review, Suspend, vars
  <2> QED BY <2>1, <2>2, <2>3, <2>4
<1>2. Inv /\ [Next]_vars => [Kept]_(Kyc!vars)
      BY <1>1
<1>3. Spec => [][Kept]_(Kyc!vars)
      BY <1>2, OnboardingInvariant, PTL DEF Spec
<1> QED BY <1>3 DEF IdsAreKept, Kyc!IdsAreKept

(* A VERIFIED row shows "activated".                                       *)
LEMMA VerifiedIsActivated ==
  ASSUME NEW r \in KP!Row, KP!Agree(r)
  PROVE  /\ r.kyc_status = "VERIFIED" => r.provider_status = "activated"
         /\ r.provider_status \in {"activated", "suspended"} =>
              r.kyc_status \in {"VERIFIED", "REJECTED"}
<1>1. r.provider_status \in KP!ProviderStatus \cup {NULL}
      BY DEF KP!Row
<1>2. NULL \notin KP!ProviderStatus
      BY KycAssumptions
<1>3. ASSUME NEW p \in KP!ProviderStatus
      PROVE  /\ KP!MapStatus[p] = "VERIFIED" <=> p = "activated"
             /\ KP!MapStatus[p] = "REJECTED" <=> p = "suspended"
      BY KP!MapStatusCases, KycAssumptions
<1> QED BY <1>1, <1>2, <1>3 DEF KP!Agree, KP!ProviderStatus

(* When each submission waits for the answer to the one before, nobody is  *)
(* VERIFIED but an organizer whose own linked account, the one on the row, *)
(* Razorpay has announced as activated.                                    *)
THEOREM OnboardingVerifiedByRazorpay == OneAtATime => (Spec => []VerifiedByRazorpay)
<1> SUFFICES ASSUME OneAtATime PROVE Spec => []VerifiedByRazorpay
    OBVIOUS
<1>1. ASSUME Inv, NEW o \in Organizers, profile[o].kyc_status = "VERIFIED"
      PROVE  \E e \in sent : e.account = profile[o].account_id /\ e.status = "activated"
  <2>1. profile[o] \in KP!Row /\ KP!Agree(profile[o]) /\ VerifiedInv
        BY <1>1 DEF Inv, KP!SubmissionInv, KP!RowsAgree, KP!TypeOK
  <2>2. profile[o].provider_status = "activated"
        BY <1>1, <2>1, VerifiedIsActivated
  <2> QED BY <2>1, <2>2 DEF VerifiedInv, Announced
<1>2. Inv => VerifiedByRazorpay
      BY <1>1 DEF VerifiedByRazorpay
<1> QED BY <1>2, OnboardingInvariant, PTL

(* A request that takes VERIFIED back writes what its call returned, and   *)
(* the activation it has not seen is hasty.                                *)
LEMMA SentBackByRequest ==
  ASSUME Inv, OneAtATime, NEW s \in Submitters, Submission(s), NEW o \in Organizers, SentBack(o),
         KP!SubmissionInv'
  PROVE  \E e \in hasty : e.account = profile[o].account_id /\ e.status = "activated"
<1>1. /\ KP!SubmissionInv /\ KP!TurnInv /\ KP!TypeOK /\ KP!RowsAgree /\ KP!SessionInv
      /\ KP!ReadIsCurrent /\ VerifiedInv /\ NewsInv
      BY DEF Inv, KP!SubmissionInv, KP!TurnInv
<1>2. /\ (\E p \in Organizers : KP!Begins(s, p)) \/ KP!Moves(s) \/ KP!Ends(s)
      /\ KP!Next
      BY RequestSteps
<1>3. profile[o].kyc_status = "VERIFIED" /\ profile'[o].kyc_status \notin {"VERIFIED", "REJECTED"}
      BY DEF SentBack
<1>4. profile' = [profile EXCEPT ![who[s]] = KP!Written(s)] /\ KP!Busy(s)
      BY <1>2, <1>3 DEF KP!Begins, KP!Moves, KP!Ends
<1>5. o = who[s] /\ profile'[o] = KP!Written(s)
      BY <1>1, <1>3, <1>4 DEF KP!TypeOK
<1>6. /\ KP!Local(step[s], read[s], draft[s]) /\ draft[s] \in KP!Row
      /\ KP!SameIds(read[s], profile[who[s]])
      BY <1>1, <1>4 DEF KP!SessionInv, KP!Busy, KP!TypeOK, KP!ReadIsCurrent
<1>7. KP!Written(s).kyc_status =
        KP!Column(profile[o].kyc_status, read[s].kyc_status, draft[s].kyc_status)
      BY <1>1, <1>4, <1>5, KP!WrittenColumns, KycAssumptions
<1>8. /\ draft[s].kyc_status # read[s].kyc_status
      /\ draft[s].kyc_status \notin {"VERIFIED", "REJECTED"}
      BY <1>3, <1>5, <1>7 DEF KP!Column
<1>9. step[s] = "finish" /\ KP!Agree(draft[s])
      BY <1>6, <1>8 DEF KP!Local, KP!SameStatus
<1>10. draft[s].provider_status \notin {"activated", "suspended"}
       BY <1>6, <1>8, <1>9, VerifiedIsActivated
<1>11. PICK e \in sent : e.account = profile[o].account_id /\ e.status = "activated"
  <2>1. profile[o].provider_status = "activated"
        BY <1>1, <1>3, VerifiedIsActivated DEF KP!RowsAgree, KP!TypeOK
  <2> QED BY <1>1, <2>1 DEF VerifiedInv, Announced
<1>12. profile[o].account_id # NULL
       BY <1>1, <1>11, NullAssumption DEF NewsInv, Announcements
<1>13. KP!Written(s).account_id = draft[s].account_id
       BY <1>1, <1>4, <1>6, KP!WrittenIds, KycAssumptions DEF KP!SameIds
<1>14. profile'[o].account_id = profile[o].account_id
       BY <1>1, <1>2, <1>12, KP!IdsStep, KycAssumptions DEF KP!Extends, KP!Keeps
<1> QED BY <1>1, <1>5, <1>9, <1>10, <1>11, <1>13, <1>14 DEF VerifiedInv

(* Then a VERIFIED organizer is sent back to review only by a webhook for  *)
(* the row's account, recorded in that step, or by a submission that was   *)
(* open when Razorpay activated the account.                               *)
THEOREM OnboardingOnlyWebhooksSendBack == OneAtATime => (Spec => OnlyWebhooksSendBack)
<1> SUFFICES ASSUME OneAtATime PROVE Spec => OnlyWebhooksSendBack
    OBVIOUS
<1> DEFINE Accounted ==
      \A o \in Organizers :
        SentBack(o) =>
          \/ \E s \in seen' \ seen : s.evt.account = profile[o].account_id
          \/ \E e \in hasty : e.account = profile[o].account_id /\ e.status = "activated"
<1>1. ASSUME Inv, Inv', [Next]_vars PROVE Accounted
  <2> SUFFICES ASSUME NEW o \in Organizers, SentBack(o)
               PROVE  \/ \E s \in seen' \ seen : s.evt.account = profile[o].account_id
                      \/ \E e \in hasty :
                            e.account = profile[o].account_id /\ e.status = "activated"
      OBVIOUS
  <2>1. profile' # profile
        BY DEF SentBack
  <2>2. CASE \E s \in Submitters : Submission(s)
        BY <1>1, <2>2, SentBackByRequest DEF Inv
  <2>3. CASE \E w \in Handlers : Webhook(w)
    <3>1. HP!Next /\ profile'[o] # profile[o]
          BY <1>1, <2>3, WebhookSteps DEF SentBack
    <3> QED BY <1>1, <3>1, WebhookRows
  <2> QED BY <1>1, <2>1, <2>2, <2>3 DEF Next, Review, Suspend, vars
<1>2. Inv /\ Inv' /\ [Next]_vars => [Accounted]_vars
      BY <1>1
<1>3. Spec => [][Accounted]_vars
      BY <1>2, OnboardingInvariant, PTL DEF Spec
<1> QED BY <1>3 DEF OnlyWebhooksSendBack
-----------------------------------------------------------------------------
(* Converged.  Razorpay's clock gives every announcement a time of its own *)
(* (SameSecond = FALSE) and each submission waits for the answer to the    *)
(* one before (OneAtATime); the inductive invariant then says what the     *)
(* newest announcement about a product or an account has to do with the    *)
(* account, with the requests that are open and with the row.              *)

About(e, a, kinds) == e.account = a /\ e.kind \in kinds

NewestIn(news, a, kinds) ==
  {e \in news : About(e, a, kinds) /\
     \A f \in news : About(f, a, kinds) => f.created_at <= e.created_at}

Only(news, n) == \A f \in news : About(f, n.account, {n.kind}) => f = n

(* status is that of n, or of a later announcement about the same product. *)
Since(news, status, n) ==
  \E e \in news :
    About(e, n.account, ProductKinds) /\ n.created_at <= e.created_at /\ e.status = status

RecordedIn(records, n) == \E s \in records : s.evt = n

Tells(e, r) == e.status = r.provider_status /\ e.requirements = r.requirements

(* Announcements are in the order of their times, and a record carries the *)
(* time of its announcement.                                               *)
ClockInv ==
  /\ \A e \in sent : e.created_at < now
  /\ \A e, f \in sent : e.created_at = f.created_at => e = f
  /\ \A s \in seen : s.evt \in sent /\ s.at = s.evt.created_at
  /\ \A w \in Handlers : pc[w] # "idle" => job[w].at = job[w].evt.created_at

(* What Razorpay announced last about an account is how things are; it     *)
(* announces nothing about an account it has not created, or a product     *)
(* nobody has asked for.                                                   *)
TruthIn(m, news, a) ==
  /\ m[a].owner = NULL => m[a].product = NULL /\ \A e \in news : e.account # a
  /\ m[a].product = NULL => \A e \in news : ~About(e, a, ProductKinds)
  /\ m[a].product # NULL => NewestIn(news, a, ProductKinds) # {}
  /\ \A e \in NewestIn(news, a, ProductKinds) :
       e.status = m[a].product /\ e.requirements = m[a].requirements
  /\ (\E e \in news : About(e, a, AccountKinds)) => NewestIn(news, a, AccountKinds) # {}
  /\ \A e \in NewestIn(news, a, AccountKinds) : HP!AccountContent(e) = m[a].status

TruthInv == \A a \in Accounts : TruthIn(remote, sent, a)

(* A row carries the time of an announcement about its account, or none.   *)
SyncedIn(news, r) ==
  /\ r.provider_synced_at # Never =>
       \E e \in news : About(e, r.account_id, HandledKinds) /\ e.created_at = r.provider_synced_at
  /\ r.account_synced_at # Never =>
       \E e \in news : About(e, r.account_id, AccountKinds) /\ e.created_at = r.account_synced_at

SyncInv == \A o \in Organizers : SyncedIn(sent, profile[o])

(* An id of a product stands for a product that Razorpay has.              *)
HasProduct(m, r) == r.product_id # NULL => m[r.account_id].product # NULL

ProductsInv ==
  /\ \A o \in Organizers : HasProduct(remote, profile[o])
  /\ \A s \in Submitters : step[s] # "idle" => HasProduct(remote, draft[s])

(* Before a row names an account, no webhook reaches it, and what is       *)
(* announced about that account's status comes too early.                  *)
UnnamedInv ==
  /\ \A s \in Submitters : step[s] # "idle" /\ profile[who[s]].account_id = NULL =>
       read[s] = profile[who[s]]
  /\ \A e \in sent :
       e.kind \in AccountKinds /\ (\A o \in Organizers : profile[o].account_id # e.account) =>
         e \in hasty

(* What an open request has is what was announced last about its account,  *)
(* if not too early.                                                       *)
RequestIn(m, news, late, st, row, d) ==
  d.account_id # NULL =>
    /\ st = "finish" =>
         /\ \A n \in NewestIn(news, d.account_id, ProductKinds) : n \in late \/ Tells(n, d)
         /\ \A n \in NewestIn(news, d.account_id, HandledKinds) :
              n \in late \/ Since(news, d.provider_status, n)
    /\ row.account_id = NULL =>
         /\ st # "finish" => m[d.account_id].product = NULL
         /\ \A n \in NewestIn(news, d.account_id, HandledKinds) \ late : Only(news, n)
         /\ (\A e \in news : ~About(e, d.account_id, AccountKinds)) =>
              d.account_status = m[d.account_id].status

RequestsInv ==
  \A s \in Submitters : step[s] # "idle" =>
    RequestIn(remote, sent, hasty, step[s], profile[who[s]], draft[s])

(* A row that names an account shows what was announced last about its     *)
(* product and its status, if that has a handler, is recorded and did not  *)
(* come too early; then nothing older will replace it.  What has no        *)
(* handler reaches the row by a submission only, with a status at least as *)
(* new as the last announced one that has.                                 *)
ProductShown(news, late, records, r) ==
  /\ \A n \in NewestIn(news, r.account_id, HandledKinds) \ late :
       RecordedIn(records, n) =>
         /\ Since(news, r.provider_status, n)
         /\ r.provider_synced_at = n.created_at \/ Only(news, n)
  /\ \A n \in NewestIn(news, r.account_id, ProductKinds) \ late :
       n.kind \in HandledKinds /\ RecordedIn(records, n) => Tells(n, r)

AccountShown(m, news, late, records, r) ==
  /\ (\A e \in news : ~About(e, r.account_id, AccountKinds)) =>
       r.account_status = m[r.account_id].status
  /\ \A n \in NewestIn(news, r.account_id, AccountKinds) \ late :
       RecordedIn(records, n) =>
         r.account_status = HP!AccountContent(n) /\ r.account_synced_at = n.created_at

Shown(m, news, late, records, r) ==
  r.account_id # NULL =>
    ProductShown(news, late, records, r) /\ AccountShown(m, news, late, records, r)

ShownInv == \A o \in Organizers : Shown(remote, sent, hasty, seen, profile[o])

NewestInv ==
  /\ ClockInv
  /\ TruthInv
  /\ SyncInv
  /\ ProductsInv
  /\ UnnamedInv
  /\ RequestsInv
  /\ ShownInv

-----------------------------------------------------------------------------
(* What an announcement makes the newest.                                  *)

LEMMA AnnouncementFacts ==
  ASSUME NEW e \in Announcements
  PROVE  /\ e.account \in Accounts /\ e.account # NULL
         /\ e.created_at \in Nat /\ e.created_at # Never
         /\ e.kind \in ProductKinds \cup AccountKinds
         /\ e.kind \in ProductKinds => e.status \in ProviderStatus
<1>1. /\ e.account \in Accounts /\ e.created_at \in Times
      /\ e.kind \in ProductKinds \cup AccountKinds
      /\ e.kind \in ProductKinds => e.status \in Replies \cup Verdicts
      BY DEF Announcements, ProductKinds, HandledKinds, AccountKinds
<1> QED BY <1>1, ProviderAssumption, TimesAssumption, NullAssumption

LEMMA KindsApart ==
  /\ ProductKinds \cap AccountKinds = {} /\ HandledKinds \subseteq ProductKinds
  /\ HP!OtherKinds = ProductKinds \ HandledKinds
BY DEF ProductKinds, HandledKinds, AccountKinds, HP!OtherKinds

(* The kind of an announcement about a product says whether its status has *)
(* a handler.                                                              *)
LEMMA HandledNews ==
  ASSUME NEW e \in Announcements, e.kind \in ProductKinds, e.status \in HandledStatus
  PROVE  e.kind \in HandledKinds
BY DEF Announcements, ProductKinds, HandledKinds, AccountKinds, ProductKind

(* e is announced, later than everything before.                           *)
Told(e) ==
  /\ sent' = sent \cup {e}
  /\ e \in Announcements
  /\ \A f \in sent : f.created_at < e.created_at

(* Razorpay's clock moves on with every announcement.                      *)
LEMMA AnnounceTold ==
  ASSUME NewsInv, ClockInv, SameSecond = FALSE, NEW e \in Announcements, e.created_at = now,
         Announce(e)
  PROVE  Told(e) /\ now' = now + 1 /\ now \in Nat
BY DEF NewsInv, ClockInv, Announce, Told

(* What is announced now is the newest.                                    *)
LEMMA NewestTold ==
  ASSUME NewsInv, NEW e, Told(e), NEW a, NEW kinds
  PROVE  NewestIn(sent', a, kinds) =
           IF About(e, a, kinds) THEN {e} ELSE NewestIn(sent, a, kinds)
<1>1. e \in Announcements /\ sent' = sent \cup {e} /\ sent \subseteq Announcements
      BY DEF Told, NewsInv
<1>2. \A f \in sent : f.created_at < e.created_at /\ f.created_at \in Nat
      BY <1>1, AnnouncementFacts DEF Told
<1>3. e.created_at \in Nat
      BY <1>1, AnnouncementFacts
<1> QED BY <1>1, <1>2, <1>3 DEF NewestIn

LEMMA ToldFresh ==
  ASSUME NewsInv, NEW e, Told(e)
  PROVE  e \notin sent
<1>1. e.created_at \in Nat
      BY AnnouncementFacts DEF Told
<1> QED BY <1>1 DEF Told

LEMMA SinceKept ==
  ASSUME NEW news, NEW later, news \subseteq later, NEW status, NEW n, Since(news, status, n)
  PROVE  Since(later, status, n)
BY DEF Since

LEMMA NewestFacts ==
  ASSUME NEW news, NEW a, NEW kinds, NEW n \in NewestIn(news, a, kinds)
  PROVE  n \in news /\ About(n, a, kinds) /\ n.account = a /\ n.kind \in kinds
BY DEF NewestIn, About

(* What Razorpay says of an account that no announcement is about is what  *)
(* it said before.                                                         *)
LEMMA TruthKept ==
  ASSUME NEW a \in Accounts, TruthIn(remote, sent, a), sent' = sent, KP!ProductSame(a),
         remote'[a].owner = NULL => remote[a].owner = NULL,
         remote[a].owner # NULL => remote'[a].status = remote[a].status
  PROVE  TruthIn(remote', sent', a)
<1>1. CASE remote[a].owner = NULL
  <2>1. \A e \in sent : e.account # a
        BY <1>1 DEF TruthIn
  <2>2. NewestIn(sent, a, AccountKinds) = {} /\ \A e \in sent : ~About(e, a, AccountKinds)
        BY <2>1 DEF NewestIn, About
  <2> QED BY <2>1, <2>2 DEF TruthIn, KP!ProductSame
<1>2. CASE remote[a].owner # NULL
      BY <1>2 DEF TruthIn, KP!ProductSame
<1> QED BY <1>1, <1>2

(* An announcement tells how things are now.                               *)
LEMMA TruthTold ==
  ASSUME NewsInv, NEW e, Told(e), NEW a \in Accounts, TruthIn(remote, sent, a),
         remote'[a].owner = NULL => remote[a].owner = NULL,
         e.account = a => remote'[a].owner # NULL,
         IF About(e, a, ProductKinds)
           THEN /\ remote'[a].product = e.status /\ remote'[a].requirements = e.requirements
                /\ e.status # NULL
           ELSE KP!ProductSame(a),
         IF About(e, a, AccountKinds)
           THEN HP!AccountContent(e) = remote'[a].status
           ELSE remote[a].owner # NULL => remote'[a].status = remote[a].status
  PROVE  TruthIn(remote', sent', a)
<1>1. /\ sent' = sent \cup {e} /\ e \in sent'
      /\ NewestIn(sent', a, ProductKinds) =
           IF About(e, a, ProductKinds) THEN {e} ELSE NewestIn(sent, a, ProductKinds)
      /\ NewestIn(sent', a, AccountKinds) =
           IF About(e, a, AccountKinds) THEN {e} ELSE NewestIn(sent, a, AccountKinds)
      BY NewestTold DEF Told
<1>2. remote'[a].owner = NULL => remote'[a].product = NULL /\ \A f \in sent' : f.account # a
      BY <1>1 DEF TruthIn, About, KP!ProductSame
<1>3. /\ remote'[a].product = NULL => \A f \in sent' : ~About(f, a, ProductKinds)
      /\ remote'[a].product # NULL => NewestIn(sent', a, ProductKinds) # {}
      /\ \A f \in NewestIn(sent', a, ProductKinds) :
           f.status = remote'[a].product /\ f.requirements = remote'[a].requirements
      BY <1>1 DEF TruthIn, KP!ProductSame
<1>4. /\ (\E f \in sent' : About(f, a, AccountKinds)) => NewestIn(sent', a, AccountKinds) # {}
      /\ \A f \in NewestIn(sent', a, AccountKinds) : HP!AccountContent(f) = remote'[a].status
  <2>1. CASE About(e, a, AccountKinds)
        BY <1>1, <2>1
  <2>2. CASE ~About(e, a, AccountKinds) /\ remote[a].owner # NULL
        BY <1>1, <2>2 DEF TruthIn
  <2>3. CASE ~About(e, a, AccountKinds) /\ remote[a].owner = NULL
    <3>1. \A f \in sent : ~About(f, a, AccountKinds)
          BY <2>3 DEF TruthIn, About
    <3>2. NewestIn(sent, a, AccountKinds) = {}
          BY <3>1 DEF NewestIn
    <3> QED BY <1>1, <2>3, <3>1, <3>2
  <2> QED BY <2>1, <2>2, <2>3
<1> QED BY <1>2, <1>3, <1>4 DEF TruthIn

(* A row that stays as it is shows what it has to, for nothing announced   *)
(* in this step is recorded yet.                                           *)
LEMMA ShownKept ==
  ASSUME NewsInv, ClockInv, NEW e, sent' = sent \/ Told(e), seen' = seen,
         hasty \subseteq hasty',
         NEW r, Shown(remote, sent, hasty, seen, r),
         r.account_id # NULL =>
           \/ remote'[r.account_id].status = remote[r.account_id].status
           \/ Told(e) /\ About(e, r.account_id, AccountKinds)
  PROVE  Shown(remote', sent', hasty', seen', r)
<1> SUFFICES ASSUME r.account_id # NULL
             PROVE  /\ ProductShown(sent', hasty', seen, r)
                    /\ AccountShown(remote', sent', hasty', seen, r)
    BY DEF Shown
<1> DEFINE a == r.account_id
<1>1. ProductShown(sent, hasty, seen, r) /\ AccountShown(remote, sent, hasty, seen, r)
      BY DEF Shown
<1>2. CASE sent' = sent
  <2>1. remote'[a].status = remote[a].status \/ (\E f \in sent : About(f, a, AccountKinds))
        BY <1>2 DEF Told
  <2> QED BY <1>1, <1>2, <2>1 DEF ProductShown, AccountShown
<1>3. CASE Told(e)
  <2>1. /\ sent' = sent \cup {e} /\ e \notin sent
        /\ NewestIn(sent', a, ProductKinds) =
             IF About(e, a, ProductKinds) THEN {e} ELSE NewestIn(sent, a, ProductKinds)
        /\ NewestIn(sent', a, HandledKinds) =
             IF About(e, a, HandledKinds) THEN {e} ELSE NewestIn(sent, a, HandledKinds)
        /\ NewestIn(sent', a, AccountKinds) =
             IF About(e, a, AccountKinds) THEN {e} ELSE NewestIn(sent, a, AccountKinds)
        BY <1>3, NewestTold, ToldFresh DEF Told
  <2>2. ~RecordedIn(seen, e)
        BY <2>1 DEF ClockInv, RecordedIn
  <2>3. ProductShown(sent', hasty', seen, r)
    <3>1. ASSUME NEW n \in NewestIn(sent', a, HandledKinds) \ hasty', RecordedIn(seen, n)
          PROVE  /\ Since(sent', r.provider_status, n)
                 /\ r.provider_synced_at = n.created_at \/ Only(sent', n)
      <4>1. ~About(e, a, HandledKinds) /\ n \in NewestIn(sent, a, HandledKinds) \ hasty
            BY <2>1, <2>2, <3>1
      <4>2. n.account = a /\ {n.kind} = HandledKinds
            BY <4>1, NewestFacts DEF HandledKinds
      <4>3. Only(sent, n) => Only(sent', n)
            BY <2>1, <4>1, <4>2 DEF Only
      <4>4. Since(sent, r.provider_status, n) => Since(sent', r.provider_status, n)
            BY <2>1, SinceKept
      <4> QED BY <1>1, <3>1, <4>1, <4>3, <4>4 DEF ProductShown
    <3>2. ASSUME NEW n \in NewestIn(sent', a, ProductKinds) \ hasty', n.kind \in HandledKinds,
                 RecordedIn(seen, n)
          PROVE  Tells(n, r)
          BY <1>1, <2>1, <2>2, <3>2 DEF ProductShown
    <3> QED BY <3>1, <3>2 DEF ProductShown
  <2>4. AccountShown(remote', sent', hasty', seen, r)
        BY <1>1, <2>1, <2>2 DEF AccountShown
  <2> QED BY <2>3, <2>4
<1> QED BY <1>2, <1>3

(* An open request whose account stays as it is has what it had; what is   *)
(* announced about its product in the meantime comes too early.            *)
LEMMA RequestKept ==
  ASSUME NewsInv, NEW e, sent' = sent \/ Told(e), hasty \subseteq hasty',
         NEW st, NEW row, NEW d, RequestIn(remote, sent, hasty, st, row, d),
         NEW b, b = d.account_id,
         b # NULL =>
           /\ Told(e) /\ About(e, b, ProductKinds) => e \in hasty'
           /\ remote[b].product = NULL => remote'[b].product = NULL
           /\ \/ remote'[b].status = remote[b].status
              \/ Told(e) /\ About(e, b, AccountKinds)
  PROVE  RequestIn(remote', sent', hasty', st, row, d)
<1> SUFFICES ASSUME b # NULL PROVE RequestIn(remote', sent', hasty', st, row, d)
    BY DEF RequestIn
<1>1. CASE sent' = sent
  <2>1. remote'[b].status = remote[b].status \/ (\E f \in sent : About(f, b, AccountKinds))
        BY <1>1 DEF Told
  <2> QED BY <1>1, <2>1 DEF RequestIn
<1>2. CASE Told(e)
  <2>1. /\ sent' = sent \cup {e}
        /\ NewestIn(sent', b, ProductKinds) =
             IF About(e, b, ProductKinds) THEN {e} ELSE NewestIn(sent, b, ProductKinds)
        /\ NewestIn(sent', b, HandledKinds) =
             IF About(e, b, HandledKinds) THEN {e} ELSE NewestIn(sent, b, HandledKinds)
        BY <1>2, NewestTold DEF Told
  <2>2. ASSUME NEW n \in NewestIn(sent', b, HandledKinds) \ hasty'
        PROVE  /\ n \in NewestIn(sent, b, HandledKinds) \ hasty
               /\ Only(sent, n) => Only(sent', n)
    <3>1. ~About(e, b, HandledKinds) /\ n \in NewestIn(sent, b, HandledKinds) \ hasty
          BY <1>2, <2>1, <2>2, KindsApart DEF About
    <3>2. n.account = b /\ {n.kind} = HandledKinds
          BY <3>1, NewestFacts DEF HandledKinds
    <3> QED BY <2>1, <3>1, <3>2 DEF Only
  <2>3. st = "finish" =>
          /\ \A n \in NewestIn(sent', b, ProductKinds) : n \in hasty' \/ Tells(n, d)
          /\ \A n \in NewestIn(sent', b, HandledKinds) :
               n \in hasty' \/ Since(sent', d.provider_status, n)
        BY <1>2, <2>1, <2>2, SinceKept DEF RequestIn
  <2>4. row.account_id = NULL =>
          /\ st # "finish" => remote'[b].product = NULL
          /\ \A n \in NewestIn(sent', b, HandledKinds) \ hasty' : Only(sent', n)
          /\ (\A f \in sent' : ~About(f, b, AccountKinds)) =>
               d.account_status = remote'[b].status
        BY <2>1, <2>2 DEF RequestIn
  <2> QED BY <2>3, <2>4 DEF RequestIn
<1> QED BY <1>1, <1>2

-----------------------------------------------------------------------------
(* A step of a request.                                                    *)

(* The last step of a submission ends it.                                  *)
LEMMA FinishEnds ==
  ASSUME KP!TypeOK, NEW s \in Submitters, Submission(s), step[s] = "finish"
  PROVE  step'[s] = "idle"
<1>1. KP!Finish(s) \/ KP!Die(s)
      BY SameRequests
         DEF Submission, KP!Start, KP!Submit, KP!SaveDetails, KP!CreateAccount, KP!FlushAccount,
             KP!CreateStakeholder, KP!FlushStakeholder, KP!EditStakeholder, KP!ProductCall
<1> QED BY <1>1 DEF KP!Finish, KP!Die, KP!CommitAndAnswer, KP!EndRequest, KP!TypeOK

(* Razorpay announces a change of the request's own product, which the     *)
(* account's owner asked for, and nothing else.                            *)
LEMMA RequestTold ==
  ASSUME Inv, ClockInv, OneAtATime, SameSecond = FALSE, NEW s \in Submitters, Submission(s),
         remote' \in [Accounts -> KP!LinkedAccount]
  PROVE  \/ /\ sent' = sent /\ now' = now
            /\ \A b \in Accounts : KP!ProductSame(b)
         \/ \E e : /\ Told(e) /\ now' = now + 1 /\ now \in Nat /\ e.created_at = now
                   /\ KP!Busy(s) /\ e.account = draft[s].account_id
                   /\ remote[e.account].owner = who[s]
                   /\ e.kind \in ProductKinds /\ e.status = remote'[e.account].product
                   /\ e.status # NULL /\ e.requirements = remote'[e.account].requirements
                   /\ \A b \in Accounts \ {e.account} : KP!ProductSame(b)
<1> DEFINE a == draft[s].account_id
<1>1. NewsInv /\ KP!TiedInv
      BY DEF Inv, KP!TurnInv
<1>2. CASE /\ a \in Accounts /\ ~KP!Decided(a) /\ remote'[a].product \in Replies
           /\ \A b \in Accounts \ {a} : KP!ProductSame(b)
           /\ Announce(ProductNews(a))
  <2> DEFINE e == ProductNews(a)
  <2>1. /\ sent' = sent \cup {e} /\ sent' \subseteq Announcements
        /\ e.account = a /\ e.status = remote'[a].product /\ e.kind \in ProductKinds
        BY <1>1, <1>2, ProductNewsFacts
  <2>2. e.created_at = now /\ e.requirements = remote'[a].requirements
        BY DEF ProductNews
  <2>3. Told(e) /\ now' = now + 1 /\ now \in Nat
        BY <1>1, <1>2, <2>1, <2>2, AnnounceTold
  <2>4. e \notin sent
        BY <1>1, <2>3, ToldFresh
  <2>5. CASE KP!Busy(s)
    <3>1. remote[a].owner = who[s]
          BY <1>1, <1>2, <2>5, NullAssumption DEF KP!TiedInv, KP!Tied, KP!TiedIn
    <3>2. e.status # NULL
          BY <1>2, <2>1, ProviderAssumption, NullStatusAssumption
    <3> HIDE DEF e
    <3> QED BY <1>2, <2>1, <2>2, <2>3, <2>5, <3>1, <3>2
  <2>6. CASE ~KP!Busy(s)
    <3>1. \E o \in Organizers : KP!Begins(s, o)
          BY <2>6, RequestSteps DEF KP!Moves, KP!Ends
    <3>2. Changed = {}
          BY <3>1 DEF KP!Begins, Changed, ProductOf
    <3> QED BY <2>1, <2>4, <3>2 DEF Submission
  <2> QED BY <2>5, <2>6
<1> QED BY <1>2, RequestNews

(* What a request does at Razorpay.                                        *)
LEMMA RequestRemote ==
  ASSUME Inv, NEW s \in Submitters, Submission(s), NEW b \in Accounts
  PROVE  /\ remote[b].owner # NULL =>
              remote'[b].owner = remote[b].owner /\ remote'[b].status = remote[b].status
         /\ remote[b].product # NULL => remote'[b].product # NULL
<1>1. (\E o \in Organizers : KP!Begins(s, o)) \/ KP!Moves(s) \/ KP!Ends(s)
      BY RequestSteps
<1>2. KP!ProductsKept(s)
      BY RequestSteps
<1>3. remote[b].product # NULL => remote'[b].product # NULL
  <2>1. NULL \notin Replies
        BY ProviderAssumption, NullStatusAssumption
  <2> QED BY <1>2, <2>1 DEF KP!ProductsKept, KP!ProductSame
<1>4. remote[b].owner # NULL =>
        remote'[b].owner = remote[b].owner /\ remote'[b].status = remote[b].status
      BY <1>1 DEF KP!Begins, KP!Moves, KP!Ends, KP!AccountsSame, KP!AccountNew, KP!StatusesKept
<1> QED BY <1>3, <1>4

(* What a request does to its product is announced.                        *)
LEMMA RequestKeepsTruth ==
  ASSUME Inv, ClockInv, TruthInv, OneAtATime, SameSecond = FALSE,
         NEW s \in Submitters, Submission(s), remote' \in [Accounts -> KP!LinkedAccount]
  PROVE  ClockInv' /\ TruthInv'
<1>1. /\ NewsInv /\ KP!TypeOK
      /\ UNCHANGED <<seen, pc, job>>
      BY RequestSteps DEF Inv, KP!SubmissionInv
<1>2. \A b \in Accounts :
        /\ remote'[b].owner = NULL => remote[b].owner = NULL
        /\ remote[b].owner # NULL => remote'[b].status = remote[b].status
      BY RequestRemote
<1>3. CASE /\ sent' = sent /\ now' = now
           /\ \A b \in Accounts : KP!ProductSame(b)
  <2>1. ClockInv'
        BY <1>1, <1>3 DEF ClockInv
  <2>2. TruthInv'
        BY <1>2, <1>3, TruthKept DEF TruthInv
  <2> QED BY <2>1, <2>2
<1>4. ASSUME NEW e, Told(e), now' = now + 1, now \in Nat, e.created_at = now, KP!Busy(s),
             remote[e.account].owner = who[s], e.kind \in ProductKinds,
             e.status = remote'[e.account].product, e.status # NULL,
             e.requirements = remote'[e.account].requirements,
             \A b \in Accounts \ {e.account} : KP!ProductSame(b)
      PROVE  ClockInv' /\ TruthInv'
  <2>1. ClockInv'
    <3>1. sent' = sent \cup {e} /\ \A f \in sent : f.created_at < now /\ f.created_at \in Nat
          BY <1>1, <1>4, AnnouncementFacts DEF Told, ClockInv, NewsInv
    <3>2. \A f \in sent' : f.created_at < now'
          BY <1>4, <3>1
    <3>3. \A f, g \in sent' : f.created_at = g.created_at => f = g
          BY <1>4, <3>1 DEF ClockInv
    <3> QED BY <1>1, <3>1, <3>2, <3>3 DEF ClockInv
  <2>2. ASSUME NEW b \in Accounts PROVE TruthIn(remote', sent', b)
    <3>1. ~About(e, b, AccountKinds) /\ (About(e, b, ProductKinds) <=> b = e.account)
          BY <1>4, KindsApart DEF About
    <3>2. e.account = b => remote'[b].owner # NULL
      <4>1. who[s] # NULL
            BY <1>1, <1>4, NullAssumption DEF KP!TypeOK, KP!Busy
      <4> QED BY <1>2, <1>4, <4>1
    <3> QED BY <1>1, <1>2, <1>4, <3>1, <3>2, TruthTold DEF TruthInv
  <2> QED BY <2>1, <2>2 DEF TruthInv
<1> QED BY <1>3, <1>4, RequestTold

(* What the columns of the row are when a request commits.                 *)
LEMMA WrittenFacts ==
  ASSUME Inv, UnnamedInv, OneAtATime, NEW s \in Submitters, KP!Busy(s)
  PROVE  LET p == profile[who[s]]  d == draft[s]  n == KP!Written(s) IN
         /\ n.account_id = d.account_id /\ n.product_id = d.product_id
         /\ p.account_id # NULL =>
              /\ d.account_id = p.account_id
              /\ n.account_status = p.account_status
         /\ n.provider_synced_at = p.provider_synced_at
         /\ n.account_synced_at = p.account_synced_at
         /\ p.account_id = NULL =>
              /\ n.account_status = d.account_status
              /\ n.provider_status = d.provider_status
              /\ n.requirements = d.requirements
         /\ step[s] # "finish" =>
              n.provider_status = p.provider_status /\ n.requirements = p.requirements
         /\ n.provider_status \in {p.provider_status, d.provider_status}
         /\ n.requirements \in {p.requirements, d.requirements}
         /\ \A e : Tells(e, p) /\ Tells(e, d) => Tells(e, n)
<1> DEFINE p == profile[who[s]]
           r == read[s]
           d == draft[s]
           n == KP!Written(s)
<1>1. KP!TypeOK /\ KP!Local(step[s], r, d) /\ KP!SameIds(r, p)
      BY DEF Inv, KP!SubmissionInv, KP!SessionInv, KP!TurnInv, KP!ReadIsCurrent
<1>2. /\ n.provider_status = KP!Column(p.provider_status, r.provider_status, d.provider_status)
      /\ n.requirements = KP!Column(p.requirements, r.requirements, d.requirements)
      /\ n.account_status = KP!Column(p.account_status, r.account_status, d.account_status)
      /\ n.provider_synced_at =
           KP!Column(p.provider_synced_at, r.provider_synced_at, d.provider_synced_at)
      /\ n.account_synced_at =
           KP!Column(p.account_synced_at, r.account_synced_at, d.account_synced_at)
      BY <1>1, KP!WrittenColumns, KycAssumptions
<1>3. KP!SameIds(d, n)
      BY <1>1, KP!WrittenIds, KycAssumptions
<1>4. p.account_id = NULL => r = p
      BY DEF UnnamedInv, KP!Busy
<1>5. /\ KP!SameSync(r, d) /\ KP!Extends(r, d)
      /\ r.account_id # NULL => d.account_status = r.account_status
      /\ step[s] # "finish" =>
           d.provider_status = r.provider_status /\ d.requirements = r.requirements
      BY <1>1 DEF KP!Local, KP!SameStatus
<1> HIDE DEF p, r, d, n
<1>6. /\ n.account_id = d.account_id /\ n.product_id = d.product_id
      /\ n.provider_synced_at = p.provider_synced_at
      /\ n.account_synced_at = p.account_synced_at
      BY <1>2, <1>3, <1>5 DEF KP!SameIds, KP!SameSync, KP!Column
<1>7. p.account_id # NULL =>
        d.account_id = p.account_id /\ n.account_status = p.account_status
      BY <1>1, <1>2, <1>5 DEF KP!SameIds, KP!Extends, KP!Keeps, KP!Column
<1>8. p.account_id = NULL =>
        /\ n.account_status = d.account_status
        /\ n.provider_status = d.provider_status
        /\ n.requirements = d.requirements
      BY <1>2, <1>4 DEF KP!Column
<1>9. /\ step[s] # "finish" =>
           n.provider_status = p.provider_status /\ n.requirements = p.requirements
      /\ n.provider_status \in {p.provider_status, d.provider_status}
      /\ n.requirements \in {p.requirements, d.requirements}
      BY <1>2, <1>5 DEF KP!Column
<1>10. \A e : Tells(e, p) /\ Tells(e, d) => Tells(e, n)
       BY <1>9 DEF Tells
<1> QED BY <1>6, <1>7, <1>8, <1>9, <1>10 DEF p, d, n

(* A request that commits leaves a row that shows what it has to.          *)
LEMMA WrittenShown ==
  ASSUME Inv, NewestInv, OneAtATime, NEW s \in Submitters, KP!Busy(s)
  PROVE  Shown(remote, sent, hasty, seen, KP!Written(s))
<1> DEFINE p == profile[who[s]]
           d == draft[s]
           n == KP!Written(s)
           a == d.account_id
<1>1. /\ KP!TypeOK /\ KP!TiedInv /\ NewsInv /\ TruthInv /\ UnnamedInv
      /\ Shown(remote, sent, hasty, seen, p)
      /\ RequestIn(remote, sent, hasty, step[s], p, d)
      /\ who[s] \in Organizers /\ d \in KP!Row
      BY DEF Inv, KP!SubmissionInv, KP!TurnInv, NewestInv, ShownInv, RequestsInv, KP!Busy, KP!TypeOK
<1>2. /\ n.account_id = a
      /\ p.account_id # NULL => a = p.account_id /\ n.account_status = p.account_status
      /\ n.provider_synced_at = p.provider_synced_at
      /\ n.account_synced_at = p.account_synced_at
      /\ p.account_id = NULL =>
           /\ n.account_status = d.account_status
           /\ n.provider_status = d.provider_status
           /\ n.requirements = d.requirements
      /\ step[s] # "finish" =>
           n.provider_status = p.provider_status /\ n.requirements = p.requirements
      /\ n.provider_status \in {p.provider_status, d.provider_status}
      /\ \A e : Tells(e, p) /\ Tells(e, d) => Tells(e, n)
      BY <1>1, WrittenFacts
<1> SUFFICES ASSUME a # NULL
             PROVE  ProductShown(sent, hasty, seen, n) /\ AccountShown(remote, sent, hasty, seen, n)
    BY <1>2 DEF Shown
<1>3. CASE p.account_id # NULL
  <2>1. ProductShown(sent, hasty, seen, p) /\ AccountShown(remote, sent, hasty, seen, p)
        BY <1>1, <1>3 DEF Shown
  <2>2. AccountShown(remote, sent, hasty, seen, n)
        BY <1>2, <1>3, <2>1 DEF AccountShown
  <2>3. ASSUME NEW e \in NewestIn(sent, a, HandledKinds) \ hasty, RecordedIn(seen, e)
        PROVE  /\ Since(sent, n.provider_status, e)
               /\ n.provider_synced_at = e.created_at \/ Only(sent, e)
    <3>1. /\ Since(sent, p.provider_status, e)
          /\ p.provider_synced_at = e.created_at \/ Only(sent, e)
          BY <1>2, <1>3, <2>1, <2>3 DEF ProductShown
    <3>2. step[s] = "finish" => Since(sent, d.provider_status, e)
          BY <1>1, <2>3 DEF RequestIn
    <3> QED BY <1>2, <3>1, <3>2
  <2>4. ASSUME NEW e \in NewestIn(sent, a, ProductKinds) \ hasty, RecordedIn(seen, e),
               e.kind \in HandledKinds
        PROVE  Tells(e, n)
    <3>1. Tells(e, p)
          BY <1>2, <1>3, <2>1, <2>4 DEF ProductShown
    <3>2. CASE step[s] # "finish"
          BY <1>2, <3>1, <3>2 DEF Tells
    <3>3. CASE step[s] = "finish"
      <4>1. Tells(e, d)
            BY <1>1, <2>4, <3>3 DEF RequestIn
      <4> QED BY <1>2, <3>1, <4>1
    <3> QED BY <3>2, <3>3
  <2>5. ProductShown(sent, hasty, seen, n)
        BY <1>2, <2>3, <2>4 DEF ProductShown
  <2> QED BY <2>2, <2>5
<1>4. CASE p.account_id = NULL
  <2>1. /\ step[s] # "finish" => remote[a].product = NULL
        /\ \A e \in NewestIn(sent, a, HandledKinds) \ hasty : Only(sent, e)
        /\ (\A e \in sent : ~About(e, a, AccountKinds)) => d.account_status = remote[a].status
        /\ step[s] = "finish" =>
             /\ \A e \in NewestIn(sent, a, ProductKinds) : e \in hasty \/ Tells(e, d)
             /\ \A e \in NewestIn(sent, a, HandledKinds) :
                  e \in hasty \/ Since(sent, d.provider_status, e)
        BY <1>1, <1>4 DEF RequestIn
  <2>2. a \in Accounts
        BY <1>1 DEF KP!Row
  <2>3. /\ \A e \in NewestIn(sent, a, ProductKinds) \ hasty : Tells(e, n)
        /\ \A e \in NewestIn(sent, a, HandledKinds) \ hasty :
             Since(sent, n.provider_status, e) /\ Only(sent, e)
    <3>1. CASE step[s] = "finish"
          BY <1>2, <1>4, <2>1, <3>1 DEF Tells
    <3>2. CASE step[s] # "finish"
      <4>1. \A e \in sent : ~About(e, a, ProductKinds)
            BY <1>1, <2>1, <2>2, <3>2 DEF TruthInv, TruthIn
      <4> QED BY <4>1, KindsApart DEF NewestIn, About
    <3> QED BY <3>1, <3>2
  <2>4. ASSUME NEW e \in NewestIn(sent, a, AccountKinds) PROVE e \in hasty
    <3>1. ASSUME NEW o \in Organizers, profile[o].account_id = a PROVE FALSE
      <4>1. remote[a].owner = who[s]
            BY <1>1 DEF KP!TiedInv, KP!Tied, KP!TiedIn
      <4>2. remote[a].owner = o
            BY <1>1, <3>1 DEF KP!TiedInv, KP!Tied, KP!TiedIn
      <4> QED BY <1>4, <3>1, <4>1, <4>2
    <3> QED BY <1>1, <2>4, <3>1, NewestFacts DEF UnnamedInv
  <2>5. ProductShown(sent, hasty, seen, n)
        BY <1>2, <2>3 DEF ProductShown
  <2>6. AccountShown(remote, sent, hasty, seen, n)
        BY <1>2, <1>4, <2>1, <2>4 DEF AccountShown
  <2> QED BY <2>5, <2>6
<1> QED BY <1>3, <1>4

(* The rows after a step of a request.                                     *)
LEMMA RequestRows ==
  ASSUME KP!TypeOK, NEW s \in Submitters,
         (\E p \in Organizers : KP!Begins(s, p)) \/ KP!Moves(s) \/ KP!Ends(s),
         NEW o \in Organizers
  PROVE  \/ profile'[o] = profile[o]
         \/ /\ KP!Busy(s) /\ step'[s] = "idle" /\ o = who[s]
            /\ profile'[o] = KP!Written(s)
BY DEF KP!TypeOK, KP!Begins, KP!Moves, KP!Ends

(* Rows go on showing what they have to, the one that is written included. *)
LEMMA RequestKeepsShown ==
  ASSUME Inv, NewestInv, OneAtATime, SameSecond = FALSE, NEW s \in Submitters, Submission(s),
         remote' \in [Accounts -> KP!LinkedAccount]
  PROVE  ShownInv'
<1>1. KP!TypeOK /\ KP!TiedInv /\ NewsInv /\ ClockInv /\ ShownInv
      BY DEF Inv, KP!SubmissionInv, KP!TurnInv, NewestInv
<1>2. /\ (\E p \in Organizers : KP!Begins(s, p)) \/ KP!Moves(s) \/ KP!Ends(s)
      /\ seen' = seen /\ hasty' = hasty
      BY RequestSteps
<1>3. PICK e : sent' = sent \/ Told(e)
      BY <1>1, RequestTold
<1>4. ASSUME NEW o \in Organizers PROVE Shown(remote', sent', hasty', seen', profile'[o])
  <2> DEFINE r == profile'[o]
  <2>1. /\ Shown(remote, sent, hasty, seen, r)
        /\ r.account_id # NULL =>
             r.account_id \in Accounts /\ remote[r.account_id].owner # NULL
    <3>1. CASE r = profile[o]
      <4>1. profile[o] \in KP!Row /\ o # NULL
            BY <1>1, NullAssumption DEF KP!TypeOK
      <4>2. profile[o].account_id # NULL =>
              profile[o].account_id \in Accounts /\ remote[profile[o].account_id].owner = o
            BY <1>1, <4>1 DEF KP!TiedInv, KP!Tied, KP!TiedIn, KP!Row
      <4> QED BY <1>1, <3>1, <4>1, <4>2 DEF ShownInv
    <3>2. CASE KP!Busy(s) /\ o = who[s] /\ r = KP!Written(s)
      <4>1. Shown(remote, sent, hasty, seen, r)
            BY <3>2, WrittenShown
      <4>2. r.account_id = draft[s].account_id
            BY <3>2, WrittenFacts DEF NewestInv
      <4>3. draft[s] \in KP!Row /\ who[s] # NULL
            BY <1>1, <3>2, NullAssumption DEF KP!TypeOK, KP!Busy
      <4>4. draft[s].account_id # NULL =>
              draft[s].account_id \in Accounts /\ remote[draft[s].account_id].owner = who[s]
            BY <1>1, <3>2, <4>3 DEF KP!TiedInv, KP!Tied, KP!TiedIn, KP!Row
      <4> QED BY <4>1, <4>2, <4>3, <4>4
    <3> QED BY <1>1, <1>2, <3>1, <3>2, RequestRows
  <2>2. r.account_id # NULL => remote'[r.account_id].status = remote[r.account_id].status
        BY <2>1, RequestRemote
  <2> HIDE DEF r
  <2>3. Shown(remote', sent', hasty', seen', r)
        BY <1>1, <1>2, <1>3, <2>1, <2>2, ShownKept
  <2> QED BY <2>3 DEF r
<1> QED BY <1>4 DEF ShownInv

LEMMA RequestKeepsSync ==
  ASSUME Inv, NewestInv, OneAtATime, NEW s \in Submitters, Submission(s), sent \subseteq sent'
  PROVE  SyncInv'
<1>1. KP!TypeOK /\ NewsInv /\ SyncInv /\ UnnamedInv
      BY DEF Inv, KP!SubmissionInv, NewestInv
<1>2. (\E p \in Organizers : KP!Begins(s, p)) \/ KP!Moves(s) \/ KP!Ends(s)
      BY RequestSteps
<1>3. ASSUME NEW o \in Organizers PROVE SyncedIn(sent', profile'[o])
  <2>1. SyncedIn(sent, profile[o])
        BY <1>1 DEF SyncInv
  <2>2. CASE profile'[o] = profile[o]
        BY <2>1, <2>2 DEF SyncedIn
  <2>3. CASE KP!Busy(s) /\ o = who[s] /\ profile'[o] = KP!Written(s)
    <3>1. /\ profile'[o].provider_synced_at = profile[o].provider_synced_at
          /\ profile'[o].account_synced_at = profile[o].account_synced_at
          /\ profile[o].account_id # NULL => profile'[o].account_id = profile[o].account_id
          BY <1>1, <2>3, WrittenFacts
    <3>2. CASE profile[o].account_id # NULL
          BY <2>1, <3>1, <3>2 DEF SyncedIn
    <3>3. CASE profile[o].account_id = NULL
      <4>1. \A e \in sent : e.account # profile[o].account_id
            BY <1>1, <3>3, AnnouncementFacts DEF NewsInv
      <4> QED BY <2>1, <3>1, <4>1 DEF SyncedIn, About
    <3> QED BY <3>2, <3>3
  <2> QED BY <1>1, <1>2, <2>2, <2>3, RequestRows
<1> QED BY <1>3 DEF SyncInv

LEMMA RequestKeepsUnnamed ==
  ASSUME Inv, NewestInv, OneAtATime, SameSecond = FALSE, NEW s \in Submitters, Submission(s),
         remote' \in [Accounts -> KP!LinkedAccount]
  PROVE  UnnamedInv'
<1>1. /\ KP!TypeOK /\ KP!SubmissionInv /\ KP!TurnInv /\ KP!InTurn /\ NewsInv /\ UnnamedInv
      /\ ClockInv
      BY DEF Inv, KP!SubmissionInv, KP!TurnInv, NewestInv
<1>2. /\ (\E p \in Organizers : KP!Begins(s, p)) \/ KP!Moves(s) \/ KP!Ends(s)
      /\ KP!Next /\ hasty' = hasty
      BY RequestSteps
<1>3. ASSUME NEW t \in Submitters, step'[t] # "idle", profile'[who'[t]].account_id = NULL
      PROVE  read'[t] = profile'[who'[t]]
  <2>1. CASE t = s
    <3>1. profile' = profile
          BY <1>2, <1>3, <2>1 DEF KP!Begins, KP!Moves, KP!Ends
    <3>2. \/ read'[s] = profile[who'[s]]
          \/ KP!Busy(s) /\ who'[s] = who[s] /\ read'[s] = read[s]
          BY <1>2, <1>3, <2>1 DEF KP!Begins, KP!Moves, KP!Ends
    <3> QED BY <1>1, <1>3, <2>1, <3>1, <3>2 DEF UnnamedInv, KP!Busy
  <2>2. CASE t # s
    <3>1. step'[t] = step[t] /\ who'[t] = who[t] /\ read'[t] = read[t]
          BY <1>2, <2>2 DEF KP!Begins, KP!Moves, KP!Ends, KP!Others
    <3>2. who[t] \in Organizers /\ KP!Busy(t)
          BY <1>1, <1>3, <3>1 DEF KP!TypeOK, KP!Busy
    <3>3. profile'[who[t]] = profile[who[t]]
          BY <1>1, <1>2, <2>2, <3>2, RequestRows DEF KP!InTurn
    <3> QED BY <1>1, <1>3, <3>1, <3>3 DEF UnnamedInv
  <2> QED BY <2>1, <2>2
<1>4. ASSUME NEW e \in sent', e.kind \in AccountKinds,
             \A o \in Organizers : profile'[o].account_id # e.account
      PROVE  e \in hasty'
  <2>1. e \in sent
        BY <1>1, <1>4, RequestTold, KindsApart DEF Told
  <2>2. e.account # NULL
        BY <1>1, <2>1, AnnouncementFacts DEF NewsInv
  <2>3. \A o \in Organizers : profile[o].account_id # e.account
        BY <1>1, <1>2, <1>4, <2>2, KP!IdsStep, KycAssumptions DEF KP!Extends, KP!Keeps
  <2> QED BY <1>1, <1>2, <1>4, <2>1, <2>3 DEF UnnamedInv
<1> QED BY <1>3, <1>4 DEF UnnamedInv

(* A product id is stored when the product call has answered, and names    *)
(* the product that answered.                                              *)
LEMMA RequestKeepsProducts ==
  ASSUME Inv, Inv', NewestInv, OneAtATime, NEW s \in Submitters, Submission(s)
  PROVE  ProductsInv'
<1>1. /\ KP!TypeOK /\ KP!TypeOK' /\ KP!SessionInv' /\ KP!TiedInv /\ KP!InTurn /\ KP!ReadIsCurrent
      /\ ProductsInv /\ UnnamedInv
      BY DEF Inv, KP!SubmissionInv, KP!TurnInv, NewestInv
<1>2. (\E p \in Organizers : KP!Begins(s, p)) \/ KP!Moves(s) \/ KP!Ends(s)
      BY RequestSteps
<1>3. ASSUME NEW r \in KP!Row, NEW o, KP!Tied(o, r), HasProduct(remote, r)
      PROVE  HasProduct(remote', r)
  <2>1. r.product_id # NULL => r.account_id \in Accounts
        BY <1>3 DEF KP!Tied, KP!TiedIn, KP!Row
  <2> QED BY <1>3, <2>1, RequestRemote DEF HasProduct
<1>4. \A o \in Organizers : HasProduct(remote', profile[o])
      BY <1>1, <1>3 DEF ProductsInv, KP!TiedInv, KP!TypeOK
<1>5. \A t \in Submitters : step[t] # "idle" => HasProduct(remote', draft[t])
      BY <1>1, <1>3 DEF ProductsInv, KP!TiedInv, KP!TypeOK, KP!Busy
<1>6. ASSUME NEW o \in Organizers PROVE HasProduct(remote', profile'[o])
  <2>1. CASE profile'[o] = profile[o]
        BY <1>4, <2>1
  <2>2. CASE KP!Busy(s) /\ o = who[s] /\ profile'[o] = KP!Written(s)
    <3>1. profile'[o].account_id = draft[s].account_id /\ profile'[o].product_id = draft[s].product_id
          BY <1>1, <2>2, WrittenFacts
    <3> QED BY <1>5, <2>2, <3>1 DEF HasProduct, KP!Busy
  <2> QED BY <1>1, <1>2, <2>1, <2>2, RequestRows
<1>7. ASSUME NEW t \in Submitters, step'[t] # "idle" PROVE HasProduct(remote', draft'[t])
  <2>1. CASE t # s
    <3>1. step'[t] = step[t] /\ draft'[t] = draft[t]
          BY <1>2, <2>1 DEF KP!Begins, KP!Moves, KP!Ends, KP!Others
    <3> QED BY <1>5, <1>7, <3>1
  <2>2. ASSUME t = s, NEW o \in Organizers, KP!Begins(s, o) PROVE HasProduct(remote', draft'[t])
        BY <1>4, <2>2 DEF KP!Begins, KP!SameIds, HasProduct
  <2>3. CASE t = s /\ KP!Moves(s)
    <3>1. KP!Local(step'[s], read[s], draft'[s]) /\ KP!Busy(s)
          BY <2>3 DEF KP!Moves
    <3>2. CASE step'[s] = "finish"
      <4>1. draft'[s].provider_status = remote'[draft'[s].account_id].product
            BY <2>3, <3>2 DEF KP!Moves
      <4> QED BY <2>3, <3>1, <3>2, <4>1 DEF KP!Local, HasProduct
    <3>3. CASE step'[s] # "finish"
      <4>1. draft'[s].product_id = read[s].product_id /\ KP!Extends(read[s], draft'[s])
            BY <3>1, <3>3 DEF KP!Local
      <4>2. KP!SameIds(read[s], profile[who[s]]) /\ who[s] \in Organizers
            BY <1>1, <3>1 DEF KP!ReadIsCurrent, KP!TypeOK, KP!Busy
      <4>3. profile[who[s]].product_id \in {NULL, profile[who[s]].account_id}
            BY <1>1, <4>2 DEF KP!TiedInv, KP!Tied, KP!TiedIn
      <4>4. draft'[s].product_id # NULL =>
              /\ profile[who[s]].product_id # NULL
              /\ draft'[s].account_id = profile[who[s]].account_id
            BY <4>1, <4>2, <4>3 DEF KP!SameIds, KP!Extends, KP!Keeps
      <4> QED BY <1>4, <2>3, <4>2, <4>4 DEF HasProduct
    <3> QED BY <3>2, <3>3
  <2>4. CASE t = s /\ KP!Ends(s)
        BY <1>7, <2>4 DEF KP!Ends
  <2> QED BY <1>2, <2>1, <2>2, <2>3, <2>4
<1> QED BY <1>6, <1>7 DEF ProductsInv

(* A request knows what Razorpay announces about its product: the last     *)
(* call answered with it.                                                  *)
LEMMA RequestKeepsRequests ==
  ASSUME Inv, Inv', NewestInv, OneAtATime, SameSecond = FALSE, NEW s \in Submitters,
         Submission(s), TruthInv'
  PROVE  RequestsInv'
<1>1. /\ KP!TypeOK /\ KP!TypeOK' /\ KP!TiedInv /\ KP!InTurn
      /\ NewsInv /\ ClockInv /\ TruthInv /\ RequestsInv
      /\ remote' \in [Accounts -> KP!LinkedAccount]
      BY DEF Inv, KP!SubmissionInv, KP!TypeOK, KP!TurnInv, NewestInv
<1>2. /\ (\E p \in Organizers : KP!Begins(s, p)) \/ KP!Moves(s) \/ KP!Ends(s)
      /\ hasty' = hasty
      BY RequestSteps
<1>3. PICK e : \/ /\ sent' = sent
                  /\ \A b \in Accounts : KP!ProductSame(b)
               \/ /\ Told(e) /\ KP!Busy(s) /\ e.account = draft[s].account_id
                  /\ remote[e.account].owner = who[s] /\ e.kind \in ProductKinds
                  /\ \A b \in Accounts \ {e.account} : KP!ProductSame(b)
      BY <1>1, RequestTold
<1>4. ASSUME NEW t \in Submitters \ {s}, step'[t] # "idle"
      PROVE  RequestIn(remote', sent', hasty', step'[t], profile'[who'[t]], draft'[t])
  <2> DEFINE b == draft[t].account_id
  <2>1. step'[t] = step[t] /\ who'[t] = who[t] /\ draft'[t] = draft[t]
        BY <1>2 DEF KP!Begins, KP!Moves, KP!Ends, KP!Others
  <2>2. KP!Busy(t) /\ who[t] \in Organizers /\ draft[t] \in KP!Row /\ who[t] # NULL
        BY <1>1, <1>4, <2>1, NullAssumption DEF KP!TypeOK, KP!Busy
  <2>3. profile'[who[t]] = profile[who[t]]
        BY <1>1, <1>2, <2>2, RequestRows DEF KP!InTurn
  <2>4. RequestIn(remote, sent, hasty, step[t], profile[who[t]], draft[t])
        BY <1>1, <2>2 DEF RequestsInv, KP!Busy
  <2>5. b # NULL => b \in Accounts /\ remote[b].owner = who[t]
        BY <1>1, <2>2 DEF KP!TiedInv, KP!Tied, KP!TiedIn, KP!Row
  <2>6. b # NULL => remote'[b].status = remote[b].status
        BY <2>2, <2>5, RequestRemote
  <2>7. b # NULL /\ Told(e) /\ sent' # sent => e.account # b
        BY <1>1, <1>3, <2>2, <2>5 DEF KP!InTurn
  <2>8. b # NULL => KP!ProductSame(b)
        BY <1>1, <1>3, <2>2, <2>5 DEF KP!InTurn
  <2> HIDE DEF b
  <2>9. RequestIn(remote', sent', hasty', step[t], profile[who[t]], draft[t])
    <3>1. CASE sent' = sent
      <4>1. ~Told(e)
            BY <1>1, <3>1, ToldFresh DEF Told
      <4> QED BY <1>1, <1>2, <2>4, <2>6, <2>8, <3>1, <4>1, RequestKept DEF KP!ProductSame, b
    <3>2. CASE sent' # sent
          BY <1>1, <1>2, <1>3, <2>4, <2>6, <2>7, <2>8, <3>2, RequestKept
             DEF KP!ProductSame, About, b
    <3> QED BY <3>1, <3>2
  <2> QED BY <2>1, <2>3, <2>9
<1>5. ASSUME NEW o \in Organizers, KP!Begins(s, o)
      PROVE  RequestIn(remote', sent', hasty', step'[s], profile'[who'[s]], draft'[s])
  <2>1. /\ step'[s] = "details" /\ who'[s] = o /\ profile' = profile
        /\ draft'[s].account_id = profile[o].account_id
        BY <1>5 DEF KP!Begins, KP!SameIds
  <2> QED BY <2>1 DEF RequestIn
<1>6. ASSUME KP!Moves(s)
      PROVE  RequestIn(remote', sent', hasty', step'[s], profile'[who'[s]], draft'[s])
  <2> DEFINE b == draft'[s].account_id
  <2>1. /\ KP!Busy(s) /\ who'[s] = who[s] /\ profile' = profile /\ draft'[s] \in KP!Row
        /\ step'[s] # "idle" /\ KP!StatusesKept
        BY <1>6 DEF KP!Moves
  <2>2. step[s] # "finish"
        BY <1>1, <2>1, FinishEnds
  <2>3. RequestIn(remote, sent, hasty, step[s], profile[who[s]], draft[s])
        BY <1>1, <2>1 DEF RequestsInv, KP!Busy
  <2> SUFFICES ASSUME b # NULL
               PROVE  RequestIn(remote', sent', hasty', step'[s], profile[who[s]], draft'[s])
      BY <2>1 DEF RequestIn
  <2>4. b \in Accounts
        BY <2>1 DEF KP!Row
  <2>5. ASSUME step'[s] = "finish"
        PROVE  /\ \A n \in NewestIn(sent', b, ProductKinds) : Tells(n, draft'[s])
               /\ \A n \in NewestIn(sent', b, HandledKinds) :
                    Since(sent', draft'[s].provider_status, n)
    <3>1. \A n \in NewestIn(sent', b, ProductKinds) :
            n.status = remote'[b].product /\ n.requirements = remote'[b].requirements
          BY <2>4 DEF TruthInv, TruthIn
    <3>2. /\ draft'[s].provider_status = remote'[b].product
          /\ draft'[s].requirements = remote'[b].requirements
          BY <1>6, <2>5 DEF KP!Moves
    <3>3. ASSUME NEW n \in NewestIn(sent', b, HandledKinds)
          PROVE  Since(sent', draft'[s].provider_status, n)
      <4>1. n \in sent' /\ About(n, b, ProductKinds) /\ n.account = b
            BY NewestFacts, KindsApart DEF About
      <4>2. PICK l \in NewestIn(sent', b, ProductKinds) : TRUE
            BY <2>4, <4>1 DEF TruthInv, TruthIn
      <4>3. l \in sent' /\ About(l, b, ProductKinds) /\ n.created_at <= l.created_at
            BY <4>1, <4>2 DEF NewestIn
      <4> QED BY <3>1, <3>2, <4>1, <4>2, <4>3 DEF Since
    <3> QED BY <3>1, <3>2, <3>3 DEF Tells
  <2>6. ASSUME profile[who[s]].account_id = NULL
        PROVE  /\ step'[s] # "finish" => remote'[b].product = NULL
               /\ \A n \in NewestIn(sent', b, HandledKinds) : Only(sent', n)
               /\ (\A f \in sent' : ~About(f, b, AccountKinds)) =>
                    draft'[s].account_status = remote'[b].status
    <3>1. remote[b].product = NULL
      <4>1. CASE draft'[s].account_id = draft[s].account_id
            BY <2>2, <2>3, <2>6, <4>1 DEF RequestIn
      <4>2. CASE remote[b].owner = NULL
            BY <1>1, <2>4, <4>2 DEF TruthInv, TruthIn
      <4> QED BY <1>6, <4>1, <4>2 DEF KP!Moves, KP!AccountNew
    <3>2. step'[s] # "finish" => remote'[b].product = NULL
          BY <1>6, <2>4, <3>1 DEF KP!Moves, KP!ProductSame
    <3>3. \A f \in sent : ~About(f, b, ProductKinds)
          BY <1>1, <2>4, <3>1 DEF TruthInv, TruthIn
    <3>4. ASSUME NEW n \in NewestIn(sent', b, HandledKinds) PROVE Only(sent', n)
      <4>1. n.account = b /\ {n.kind} = HandledKinds /\ n \in sent' /\ About(n, b, ProductKinds)
            BY NewestFacts, KindsApart DEF HandledKinds, About
      <4>2. sent' = sent \cup {e}
            BY <1>3, <3>3, <4>1 DEF Told
      <4>3. \A f \in sent : ~About(f, b, HandledKinds)
            BY <3>3, KindsApart DEF About
      <4> QED BY <3>3, <4>1, <4>2, <4>3 DEF Only, About
    <3>5. ASSUME \A f \in sent' : ~About(f, b, AccountKinds)
          PROVE  draft'[s].account_status = remote'[b].status
      <4>1. CASE /\ draft'[s].account_id = draft[s].account_id
                 /\ draft'[s].account_status = draft[s].account_status
        <5>1. sent \subseteq sent'
              BY <1>3 DEF Told
        <5>2. draft[s].account_status = remote[b].status
              BY <2>3, <2>6, <3>5, <4>1, <5>1 DEF RequestIn
        <5>3. remote[b].owner = who[s] /\ who[s] # NULL
              BY <1>1, <2>1, <4>1, NullAssumption
                 DEF KP!TiedInv, KP!Tied, KP!TiedIn, KP!TypeOK, KP!Busy
        <5> QED BY <2>1, <2>4, <4>1, <5>2, <5>3 DEF KP!StatusesKept
      <4>2. CASE draft'[s].account_status = remote'[b].status
            BY <4>2
      <4> QED BY <1>6, <4>1, <4>2 DEF KP!Moves
    <3> QED BY <3>2, <3>4, <3>5
  <2> HIDE DEF b
  <2> QED BY <2>5, <2>6 DEF RequestIn, b
<1>7. ASSUME step'[s] # "idle"
      PROVE  RequestIn(remote', sent', hasty', step'[s], profile'[who'[s]], draft'[s])
      BY <1>2, <1>5, <1>6, <1>7 DEF KP!Ends
<1> QED BY <1>4, <1>7 DEF RequestsInv

LEMMA RequestKeepsNewest ==
  ASSUME Inv, Inv', NewestInv, OneAtATime, SameSecond = FALSE, NEW s \in Submitters,
         Submission(s)
  PROVE  NewestInv'
<1>1. remote' \in [Accounts -> KP!LinkedAccount] /\ ClockInv /\ TruthInv /\ KP!TypeOK'
      BY DEF Inv, KP!SubmissionInv, KP!TypeOK, NewestInv
<1>2. ClockInv' /\ TruthInv'
      BY <1>1, RequestKeepsTruth
<1>3. sent \subseteq sent'
      BY <1>1, RequestAnnounces
<1> QED BY <1>1, <1>2, <1>3, RequestKeepsSync, RequestKeepsProducts, RequestKeepsUnnamed,
           RequestKeepsRequests, RequestKeepsShown DEF NewestInv

-----------------------------------------------------------------------------
(* A step of Razorpay's own.                                               *)

LEMMA DecreeKeepsNewest ==
  ASSUME Inv, Inv', NewestInv, OneAtATime, NEW e, Told(e), now' = now + 1, now \in Nat,
         e.created_at = now,
         hasty' = IF TooEarly(e) THEN hasty \cup {e} ELSE hasty,
         remote[e.account].owner # NULL, KP!AccountsSame,
         \A a \in Accounts :
           /\ IF About(e, a, ProductKinds)
                THEN /\ remote[a].product # NULL
                     /\ remote'[a].product = e.status /\ remote'[a].requirements = e.requirements
                     /\ e.status # NULL
                ELSE KP!ProductSame(a)
           /\ IF About(e, a, AccountKinds)
                THEN HP!AccountContent(e) = remote'[a].status
                ELSE remote'[a].status = remote[a].status,
         UNCHANGED <<profile, step, who, read, draft, seen, pc, job>>
  PROVE  NewestInv'
<1>1. /\ KP!TypeOK /\ KP!TypeOK' /\ KP!TiedInv /\ NewsInv
      /\ ClockInv /\ TruthInv /\ SyncInv /\ ProductsInv /\ UnnamedInv /\ RequestsInv /\ ShownInv
      BY DEF Inv, KP!SubmissionInv, KP!TurnInv, NewestInv
<1>2. /\ sent' = sent \cup {e} /\ hasty \subseteq hasty'
      /\ e.kind \in ProductKinds \cup AccountKinds /\ e.account \in Accounts
      BY AnnouncementFacts DEF Told
<1>3. ClockInv'
  <2>1. \A f \in sent : f.created_at < now /\ f.created_at \in Nat
        BY <1>1, AnnouncementFacts DEF ClockInv, NewsInv
  <2>2. \A f \in sent' : f.created_at < now'
        BY <1>2, <2>1
  <2>3. \A f, g \in sent' : f.created_at = g.created_at => f = g
        BY <1>1, <1>2, <2>1 DEF ClockInv
  <2> QED BY <1>1, <1>2, <2>2, <2>3 DEF ClockInv
<1>4. ASSUME NEW a \in Accounts PROVE TruthIn(remote', sent', a)
      BY <1>1, TruthTold DEF TruthInv, KP!AccountsSame
<1>5. SyncInv'
      BY <1>1, <1>2 DEF SyncInv, SyncedIn
<1>6. ProductsInv'
  <2>1. \A a \in Accounts : remote[a].product # NULL => remote'[a].product # NULL
        BY DEF KP!ProductSame
  <2>2. ASSUME NEW r \in KP!Row, NEW o, KP!Tied(o, r), HasProduct(remote, r)
        PROVE  HasProduct(remote', r)
    <3>1. r.product_id # NULL => r.account_id \in Accounts
          BY <2>2 DEF KP!Tied, KP!TiedIn, KP!Row
    <3> QED BY <2>1, <2>2, <3>1 DEF HasProduct
  <2>3. \A o \in Organizers : HasProduct(remote', profile[o])
        BY <1>1, <2>2 DEF ProductsInv, KP!TiedInv, KP!TypeOK
  <2>4. \A t \in Submitters : step[t] # "idle" => HasProduct(remote', draft[t])
        BY <1>1, <2>2 DEF ProductsInv, KP!TiedInv, KP!TypeOK, KP!Busy
  <2> QED BY <2>3, <2>4 DEF ProductsInv
<1>7. UnnamedInv'
  <2>1. ASSUME e.kind \in AccountKinds, \A o \in Organizers : profile[o].account_id # e.account
        PROVE  e \in hasty'
        BY <2>1 DEF TooEarly
  <2> QED BY <1>1, <1>2, <2>1 DEF UnnamedInv
<1>8. ASSUME NEW s \in Submitters, step[s] # "idle"
      PROVE  RequestIn(remote', sent', hasty', step[s], profile[who[s]], draft[s])
  <2> DEFINE b == draft[s].account_id
  <2>1. draft[s] \in KP!Row /\ RequestIn(remote, sent, hasty, step[s], profile[who[s]], draft[s])
        BY <1>1, <1>8 DEF KP!TypeOK, RequestsInv
  <2>2. b # NULL => b \in Accounts /\ remote[b].owner = who[s]
        BY <1>1, <1>8, <2>1 DEF KP!TiedInv, KP!Tied, KP!TiedIn, KP!Row, KP!Busy
  <2>3. b # NULL /\ About(e, b, ProductKinds) => e \in hasty'
    <3>1. ProductKinds \cap AccountKinds = {}
          BY KindsApart
    <3> QED BY <2>2, <3>1 DEF About, TooEarly
  <2>4. b # NULL =>
          /\ remote[b].product = NULL => remote'[b].product = NULL
          /\ remote'[b].status = remote[b].status \/ About(e, b, AccountKinds)
        BY <2>2 DEF KP!ProductSame
  <2> HIDE DEF b
  <2> QED BY <1>1, <1>2, <2>1, <2>3, <2>4, RequestKept DEF b
<1>9. ASSUME NEW o \in Organizers PROVE Shown(remote', sent', hasty', seen', profile[o])
  <2> DEFINE r == profile[o]
  <2>1. r \in KP!Row /\ Shown(remote, sent, hasty, seen, r)
        BY <1>1 DEF KP!TypeOK, ShownInv
  <2>2. r.account_id # NULL =>
          \/ remote'[r.account_id].status = remote[r.account_id].status
          \/ About(e, r.account_id, AccountKinds)
        BY <2>1 DEF KP!Row
  <2> HIDE DEF r
  <2>3. Shown(remote', sent', hasty', seen', r)
        BY <1>1, <1>2, <2>1, <2>2, ShownKept
  <2> QED BY <2>3 DEF r
<1>10. TruthInv' /\ RequestsInv' /\ ShownInv'
       BY <1>4, <1>8, <1>9 DEF TruthInv, RequestsInv, ShownInv
<1> QED BY <1>3, <1>5, <1>6, <1>7, <1>10 DEF NewestInv

LEMMA ReviewKeepsNewest ==
  ASSUME Inv, Inv', NewestInv, OneAtATime, SameSecond = FALSE, NEW a \in Accounts, Review(a)
  PROVE  NewestInv'
<1> DEFINE e == ProductNews(a)
<1>1. KP!TypeOK /\ NewsInv /\ ClockInv /\ TruthInv /\ remote' \in [Accounts -> KP!LinkedAccount]
      BY DEF Inv, KP!SubmissionInv, KP!TypeOK, NewestInv
<1>2. /\ Announce(e) /\ hasty' = IF TooEarly(e) THEN hasty \cup {e} ELSE hasty
      /\ remote[a].product # NULL
      /\ UNCHANGED <<profile, step, who, read, draft, seen, pc, job>>
      BY DEF Review, Decree, hookVars
<1>3. PICK st \in Verdicts : \E req \in Kyc!RequirementsFor(st) :
        remote' = [remote EXCEPT ![a].product = st, ![a].requirements = req]
      BY DEF Review, Reviews
<1>4. PICK req \in Kyc!RequirementsFor(st) :
        remote' = [remote EXCEPT ![a].product = st, ![a].requirements = req]
      BY <1>3
<1> DEFINE n == [remote[a] EXCEPT !.product = st, !.requirements = req]
<1>5. /\ n.owner = remote[a].owner /\ n.code = remote[a].code /\ n.status = remote[a].status
      /\ n.product = st
      BY <1>1 DEF KP!TypeOK, KP!LinkedAccount
<1>6. remote' = [remote EXCEPT ![a] = n]
      BY <1>1, <1>4 DEF KP!TypeOK
<1> HIDE DEF n
<1>7. /\ KP!AccountsSame /\ remote'[a].product = st
      /\ \A b \in Accounts : remote'[b].status = remote[b].status
      /\ \A b \in Accounts \ {a} : KP!ProductSame(b)
      BY <1>1, <1>5, <1>6 DEF KP!TypeOK, KP!AccountsSame, KP!ProductSame
<1>8. /\ sent' = sent \cup {e} /\ sent' \subseteq Announcements
      /\ e.account = a /\ e.status = remote'[a].product /\ e.kind \in ProductKinds
      BY <1>1, <1>2, <1>7, ProductNewsFacts
<1>9. e.created_at = now /\ e.requirements = remote'[a].requirements
      BY DEF ProductNews
<1> HIDE DEF e
<1>10. Told(e) /\ now' = now + 1 /\ now \in Nat
       BY <1>1, <1>2, <1>8, <1>9, AnnounceTold
<1>11. remote[a].owner # NULL
       BY <1>1, <1>2 DEF TruthInv, TruthIn
<1>12. e.status # NULL
       BY <1>3, <1>7, <1>8, ProviderAssumption, NullStatusAssumption
<1>13. \A b : /\ About(e, b, ProductKinds) <=> b = a
              /\ ~About(e, b, AccountKinds)
       BY <1>8, KindsApart DEF About
<1> QED BY <1>2, <1>7, <1>8, <1>9, <1>10, <1>11, <1>12, <1>13, DecreeKeepsNewest

LEMMA SuspendKeepsNewest ==
  ASSUME Inv, Inv', NewestInv, OneAtATime, SameSecond = FALSE, NEW a \in Accounts, Suspend(a)
  PROVE  NewestInv'
<1> DEFINE e == AccountNews(a)
<1>1. KP!TypeOK /\ NewsInv /\ ClockInv
      BY DEF Inv, KP!SubmissionInv, NewestInv
<1>2. /\ Announce(e) /\ hasty' = IF TooEarly(e) THEN hasty \cup {e} ELSE hasty
      /\ remote[a].owner # NULL
      /\ UNCHANGED <<profile, step, who, read, draft, seen, pc, job>>
      BY DEF Suspend, Decree, hookVars
<1>3. PICK st \in AccountStatus : remote' = [remote EXCEPT ![a].status = st]
      BY DEF Suspend
<1> DEFINE n == [remote[a] EXCEPT !.status = st]
<1>4. /\ n.owner = remote[a].owner /\ n.code = remote[a].code /\ n.status = st
      /\ n.product = remote[a].product /\ n.requirements = remote[a].requirements
      BY <1>1 DEF KP!TypeOK, KP!LinkedAccount
<1>5. remote' = [remote EXCEPT ![a] = n]
      BY <1>1, <1>3 DEF KP!TypeOK
<1> HIDE DEF n
<1>6. /\ KP!AccountsSame /\ remote'[a].status = st
      /\ \A b \in Accounts \ {a} : remote'[b].status = remote[b].status
      /\ \A b \in Accounts : KP!ProductSame(b)
      BY <1>1, <1>4, <1>5 DEF KP!TypeOK, KP!AccountsSame, KP!ProductSame
<1>7. /\ e.account = a /\ e.kind \in AccountKinds /\ e.created_at = now
      /\ e.kind = "account.suspended" <=> st = "suspended"
      BY <1>6 DEF AccountNews, AccountKinds
<1>8. e \in Announcements
      BY <1>2 DEF AccountNews, Announcements, AccountKinds, Announce, ProductKinds, HandledKinds
<1> HIDE DEF e
<1>9. Told(e) /\ now' = now + 1 /\ now \in Nat
      BY <1>1, <1>2, <1>7, <1>8, AnnounceTold
<1>10. HP!AccountContent(e) = remote'[a].status
       BY <1>6, <1>7 DEF HP!AccountContent, AccountStatus
<1>11. \A b : /\ About(e, b, AccountKinds) <=> b = a
              /\ ~About(e, b, ProductKinds)
       BY <1>7, KindsApart DEF About
<1> QED BY <1>2, <1>6, <1>7, <1>9, <1>10, <1>11, DecreeKeepsNewest

-----------------------------------------------------------------------------
(* A step of a handler.                                                    *)

LEMMA SameKinds == HP!ProductKinds = HandledKinds /\ HP!AccountKinds = AccountKinds
BY DEF HP!ProductKinds, HandledKinds, HP!AccountKinds, AccountKinds

(* A delivery carries the time of its announcement.                        *)
LEMMA WebhookKeepsClock ==
  ASSUME Inv, ClockInv, NEW w \in Handlers, Webhook(w)
  PROVE  ClockInv'
<1>1. NewsInv /\ HP!TypeOK /\ HP!HandlersInv
      BY DEF Inv, HP!HandlersInv
<1>2. sent' = sent /\ now' = now /\ HP!Next
      BY WebhookSteps
<1>3. \A v \in Handlers : pc'[v] # "idle" => job'[v].at = job'[v].evt.created_at
  <2>1. ASSUME NEW e \in sent, HP!ReceiveNew(w, e)
        PROVE  \A v \in Handlers : pc'[v] # "idle" => job'[v].at = job'[v].evt.created_at
    <3>1. e.created_at # HP!Never
          BY <1>1, AnnouncementFacts DEF NewsInv, HP!Never, Never
    <3>2. job' = [job EXCEPT ![w] = [evt |-> e, at |-> e.created_at]]
          BY <2>1, <3>1 DEF HP!ReceiveNew, HP!EventTimes
    <3>3. pc' = [pc EXCEPT ![w] = "route"]
          BY <2>1 DEF HP!ReceiveNew
    <3> QED BY <1>1, <3>2, <3>3 DEF ClockInv, HP!TypeOK
  <2>2. ASSUME NEW e \in sent, HP!ReceiveDuplicate(w, e)
        PROVE  \A v \in Handlers : pc'[v] # "idle" => job'[v].at = job'[v].evt.created_at
        BY <2>2 DEF HP!ReceiveDuplicate, HP!handlerVars, ClockInv
  <2>3. ASSUME HP!GoIdle(w)
        PROVE  \A v \in Handlers : pc'[v] # "idle" => job'[v].at = job'[v].evt.created_at
        BY <1>1, <2>3 DEF HP!GoIdle, ClockInv, HP!TypeOK
  <2>4. ASSUME NEW o \in Organizers, HP!LockRow(w, o)
        PROVE  \A v \in Handlers : pc'[v] # "idle" => job'[v].at = job'[v].evt.created_at
        BY <1>1, <2>4 DEF HP!LockRow, ClockInv, HP!TypeOK
  <2>5. ASSUME HP!CommitUnrouted(w) \/ HP!CommitIgnored(w) \/ HP!CommitApplied(w)
                 \/ HP!RejectedByCheck(w) \/ HP!Crash(w)
        PROVE  HP!GoIdle(w)
        BY <2>5 DEF HP!CommitUnrouted, HP!CommitIgnored, HP!CommitApplied, HP!RejectedByCheck,
           HP!Crash, HP!Commit, HP!Rollback
  <2>6. \/ \E e \in sent : HP!ReceiveNew(w, e) \/ HP!ReceiveDuplicate(w, e)
        \/ \E o \in Organizers : HP!LockRow(w, o)
        \/ HP!CommitUnrouted(w) \/ HP!CommitIgnored(w) \/ HP!CommitApplied(w)
              \/ HP!RejectedByCheck(w) \/ HP!Crash(w)
        BY SameDeliveries DEF Webhook, HP!Handle
  <2> QED BY <2>1, <2>2, <2>3, <2>4, <2>5, <2>6
<1>4. \A j \in seen' \ seen : \E v \in Handlers : pc[v] # "idle" /\ job[v] = j
      BY <1>1, <1>2, HP!HandlersRecord, HooksAssumptions
<1>5. \A j \in seen' : j.evt \in sent /\ j.at = j.evt.created_at
      BY <1>1, <1>4 DEF ClockInv, NewsInv
<1> QED BY <1>2, <1>3, <1>5 DEF ClockInv

(* A row that changes is the row of an announcement recorded in this step, *)
(* one that is not older than what the row shows.                          *)
LEMMA WebhookApplies ==
  ASSUME Inv, ClockInv, NEW w \in Handlers, Webhook(w), NEW o \in Organizers,
         profile'[o] # profile[o]
  PROVE  \E e \in sent :
           /\ ~RecordedIn(seen, e) /\ e.account = profile[o].account_id
           /\ e.kind \in HandledKinds \cup AccountKinds
           /\ profile[o].account_id # NULL
           /\ ~HP!Ignored(profile[o], e, e.created_at)
           /\ profile'[o] = HP!Apply(profile[o], e, e.created_at)
<1>1. HP!HandlersInv /\ NewsInv /\ HP!Next
      BY WebhookSteps DEF Inv
<1>2. PICK v \in Handlers :
        /\ pc[v] = "apply" /\ HP!Routes(job[v].evt, o)
        /\ ~HP!Ignored(profile[o], job[v].evt, job[v].at)
        /\ profile'[o] = HP!Apply(profile[o], job[v].evt, job[v].at)
        /\ job[v] \in seen' \ seen
      BY <1>1, HP!HandlersChange, HooksAssumptions
<1>3. job[v].evt \in sent /\ job[v].at = job[v].evt.created_at
      BY <1>1, <1>2 DEF NewsInv, ClockInv
<1>4. ~HP!Recorded(job[v].evt)
      BY <1>1, <1>2, HP!HandlersRecord, HooksAssumptions
<1>5. job[v].evt.kind \in HandledKinds \cup AccountKinds
      BY <1>1, <1>2, <1>3, AnnouncementFacts, KindsApart DEF HP!Routes, NewsInv
<1> QED BY <1>2, <1>3, <1>4, <1>5 DEF HP!Routes, HP!Recorded, RecordedIn

(* The columns of such a row, by the kind of announcement.                 *)
LEMMA AppliedColumns ==
  ASSUME NEW r \in HP!Row, NEW e \in Announcements, e.kind \in HandledKinds \cup AccountKinds,
         NEW n, n = HP!Apply(r, e, e.created_at)
  PROVE  /\ n.account_id = r.account_id
         /\ e.kind \in HandledKinds =>
              /\ Tells(e, n) /\ n.provider_synced_at = e.created_at
              /\ n.account_status = r.account_status /\ n.account_synced_at = r.account_synced_at
         /\ e.kind \in AccountKinds =>
              /\ n.account_status = HP!AccountContent(e) /\ n.account_synced_at = e.created_at
              /\ n.provider_status = r.provider_status /\ n.requirements = r.requirements
              /\ n.provider_synced_at = r.provider_synced_at
<1>1. n.account_id = r.account_id
      BY HP!AppliedKeeps, HooksAssumptions
<1>2. CASE e.kind \in HandledKinds
  <2>1. n = HP!ApplyProduct(r, e, e.created_at) /\ e.kind \notin AccountKinds
        BY <1>2, SameKinds, KindsApart DEF HP!Apply
  <2> QED BY <1>1, <2>1, HP!ProductColumns, HooksAssumptions DEF Tells
<1>3. CASE e.kind \in AccountKinds
  <2>1. n = HP!ApplyAccount(r, e, e.created_at) /\ e.kind \notin HandledKinds
        BY <1>3, SameKinds, KindsApart DEF HP!Apply
  <2> QED BY <1>1, <2>1, HP!AccountColumns, HooksAssumptions
<1> QED BY <1>2, <1>3

(* When an announcement is ignored.                                        *)
LEMMA WhenIgnored ==
  ASSUME NEW r, NEW e \in Announcements
  PROVE  /\ e.kind \in HandledKinds =>
              (HP!Ignored(r, e, e.created_at) <=>
                 r.provider_synced_at # Never /\ e.created_at < r.provider_synced_at)
         /\ e.kind \in AccountKinds =>
              (HP!Ignored(r, e, e.created_at) <=>
                 r.account_synced_at # Never /\ e.created_at < r.account_synced_at)
<1>1. HP!ProviderStatus = ProviderStatus /\ HP!Never = Never
      BY DEF HP!ProviderStatus, ProviderStatus, HP!Never, Never
<1>2. e.kind \in HandledKinds => e.status \in ProviderStatus
      BY AnnouncementFacts, KindsApart
<1> QED BY <1>1, <1>2, SameKinds, KindsApart DEF HP!Ignored

LEMMA WebhookKeepsSync ==
  ASSUME Inv, NewestInv, NEW w \in Handlers, Webhook(w)
  PROVE  SyncInv'
<1>1. HP!TypeOK /\ NewsInv /\ ClockInv /\ SyncInv
      BY DEF Inv, HP!HandlersInv, NewestInv
<1>2. sent' = sent
      BY WebhookSteps
<1>3. ASSUME NEW o \in Organizers PROVE SyncedIn(sent, profile'[o])
  <2>1. CASE profile'[o] = profile[o]
        BY <1>1, <2>1 DEF SyncInv
  <2>2. CASE profile'[o] # profile[o]
    <3>1. PICK e \in sent :
            /\ e.account = profile[o].account_id /\ e.kind \in HandledKinds \cup AccountKinds
            /\ profile'[o] = HP!Apply(profile[o], e, e.created_at)
          BY <1>1, <2>2, WebhookApplies
    <3> DEFINE r == profile[o]
               n == profile'[o]
    <3>2. /\ e \in Announcements /\ r \in HP!Row /\ SyncedIn(sent, r)
          BY <1>1 DEF NewsInv, HP!TypeOK, SyncInv
    <3> HIDE DEF r, n
    <3>3. n = HP!Apply(r, e, e.created_at) /\ e.account = r.account_id
          BY <3>1 DEF r, n
    <3>4. /\ n.account_id = r.account_id
          /\ e.kind \in HandledKinds =>
               n.provider_synced_at = e.created_at /\ n.account_synced_at = r.account_synced_at
          /\ e.kind \in AccountKinds =>
               n.account_synced_at = e.created_at /\ n.provider_synced_at = r.provider_synced_at
          BY <3>1, <3>2, <3>3, AppliedColumns
    <3>5. SyncedIn(sent, n)
          BY <3>1, <3>2, <3>3, <3>4 DEF SyncedIn, About
    <3> QED BY <3>5 DEF n
  <2> QED BY <2>1, <2>2
<1> QED BY <1>2, <1>3 DEF SyncInv

(* A row shows the newest announcement once that is recorded: it is not    *)
(* ignored, and nothing recorded later replaces it.                        *)
LEMMA WebhookShows ==
  ASSUME Inv, NewestInv, OneAtATime, NEW w \in Handlers, Webhook(w), NEW o \in Organizers,
         profile[o].account_id # NULL
  PROVE  ProductShown(sent, hasty', seen', profile'[o])
           /\ AccountShown(remote, sent, hasty', seen', profile'[o])
<1> DEFINE r == profile[o]
           n == profile'[o]
           a == r.account_id
<1>1. /\ HP!TypeOK /\ HP!HandlersInv /\ HP!Next /\ NewsInv /\ ClockInv /\ KP!TiedInv
      /\ sent \subseteq Announcements
      BY WebhookSteps DEF Inv, HP!HandlersInv, NewestInv, KP!TurnInv, NewsInv
<1>2. /\ r \in HP!Row /\ SyncedIn(sent, r)
      /\ ProductShown(sent, hasty, seen, r) /\ AccountShown(remote, sent, hasty, seen, r)
      BY <1>1 DEF HP!TypeOK, NewestInv, SyncInv, ShownInv, Shown
<1>3. /\ seen \subseteq seen'
      /\ \A j \in seen' \ seen : ~RecordedIn(seen, j.evt)
      BY <1>1, HP!HandlersRecord, HooksAssumptions DEF HP!Recorded, RecordedIn
<1>4. \A e \in hasty : RecordedIn(seen, e) => e \in hasty'
      BY <1>3, WebhookSteps
<1>5. \/ n = r
      \/ \E e \in sent :
           /\ ~RecordedIn(seen, e) /\ e.account = a /\ e.kind \in HandledKinds \cup AccountKinds
           /\ ~HP!Ignored(r, e, e.created_at) /\ n = HP!Apply(r, e, e.created_at)
      BY <1>1, WebhookApplies
<1>6. ASSUME NEW e \in sent, RecordedIn(seen', e), ~RecordedIn(seen, e), e.account = a,
             e.kind \in HandledKinds \cup AccountKinds
      PROVE  n = IF HP!Ignored(r, e, e.created_at) THEN r ELSE HP!Apply(r, e, e.created_at)
  <2>1. PICK j \in seen' \ seen : j.evt = e
        BY <1>6 DEF RecordedIn
  <2>2. j.at = e.created_at
        BY <2>1, WebhookKeepsClock, <1>1 DEF ClockInv
  <2>3. e.kind \notin HP!OtherKinds
        BY <1>6, KindsApart
  <2>4. HP!Routes(j.evt, o)
        BY <1>6, <2>1, <2>3 DEF HP!Routes
  <2>5. \A p \in Organizers : HP!Routes(j.evt, p) => p = o
        BY <1>1, <1>6, <2>1 DEF HP!Routes, KP!TiedInv, KP!Tied, KP!TiedIn
  <2> QED BY <1>1, <2>1, <2>2, <2>4, <2>5, HP!RecordedIsApplied, HooksAssumptions
<1> HIDE DEF r, n
<1>7. n.account_id = a
      BY <1>1, <1>2, <1>5, AppliedColumns DEF a
<1> DEFINE Fits(e) ==
             /\ Since(sent, n.provider_status, e)
             /\ n.provider_synced_at = e.created_at \/ Only(sent, e)
             /\ (RecordedIn(seen, e) => Tells(e, r)) => Tells(e, n)
<1>8. ASSUME NEW e \in NewestIn(sent, a, HandledKinds), e \notin hasty', RecordedIn(seen', e)
      PROVE  Fits(e)
  <2>1. /\ e \in sent /\ e \in Announcements /\ About(e, a, HandledKinds)
        /\ e.account = a /\ e.kind \in HandledKinds /\ {e.kind} = HandledKinds
        /\ e.created_at \in Nat /\ e.created_at # Never
        /\ \A f \in sent : About(f, a, HandledKinds) => f.created_at <= e.created_at
        BY <1>1, <1>8, NewestFacts, AnnouncementFacts DEF NewestIn, HandledKinds
  <2>2. CASE RecordedIn(seen, e)
    <3>1. Since(sent, r.provider_status, e) /\ (r.provider_synced_at = e.created_at \/ Only(sent, e))
          BY <1>2, <1>4, <1>8, <2>1, <2>2 DEF ProductShown, a
    <3>2. CASE n = r
          BY <2>2, <3>1, <3>2 DEF Fits
    <3>3. ASSUME NEW f \in sent, ~RecordedIn(seen, f), f.account = a,
                 f.kind \in HandledKinds \cup AccountKinds,
                 ~HP!Ignored(r, f, f.created_at), n = HP!Apply(r, f, f.created_at)
          PROVE  Fits(e)
      <4>1. f \in Announcements /\ f.created_at \in Nat
            BY <1>1, AnnouncementFacts
      <4>2. CASE f.kind \in HandledKinds
        <5>1. f # e /\ About(f, a, HandledKinds)
              BY <2>2, <3>3, <4>2 DEF About
        <5>2. f.created_at <= e.created_at /\ f.created_at # e.created_at
              BY <1>1, <2>1, <5>1 DEF ClockInv
        <5>3. ~Only(sent, e)
              BY <2>1, <5>1 DEF Only
        <5>4. HP!Ignored(r, f, f.created_at)
              BY <2>1, <3>1, <4>1, <4>2, <5>2, <5>3, WhenIgnored
        <5> QED BY <3>3, <5>4
      <4>3. CASE f.kind \in AccountKinds
        <5>1. /\ n.provider_status = r.provider_status /\ n.requirements = r.requirements
              /\ n.provider_synced_at = r.provider_synced_at
              BY <1>2, <3>3, <4>1, <4>3, AppliedColumns
        <5> QED BY <2>2, <3>1, <5>1 DEF Fits, Tells
      <4> QED BY <3>3, <4>2, <4>3
    <3> QED BY <1>5, <3>2, <3>3
  <2>3. CASE ~RecordedIn(seen, e)
    <3>1. n = IF HP!Ignored(r, e, e.created_at) THEN r ELSE HP!Apply(r, e, e.created_at)
          BY <1>6, <1>8, <2>1, <2>3
    <3>2. ~HP!Ignored(r, e, e.created_at)
      <4>1. r.provider_synced_at # Never => r.provider_synced_at <= e.created_at
            BY <1>2, <2>1 DEF SyncedIn, a
      <4>2. r.provider_synced_at \in Nat
            BY <1>2 DEF HP!Row
      <4> QED BY <2>1, <4>1, <4>2, WhenIgnored
    <3>3. n = HP!Apply(r, e, e.created_at)
          BY <3>1, <3>2
    <3>4. Tells(e, n) /\ n.provider_synced_at = e.created_at
          BY <1>2, <2>1, <3>3, AppliedColumns
    <3>5. About(e, e.account, ProductKinds)
          BY <2>1, KindsApart DEF About
    <3> QED BY <2>1, <3>4, <3>5 DEF Fits, Since, Tells
  <2> QED BY <2>2, <2>3
<1>9. ASSUME NEW e \in NewestIn(sent, a, AccountKinds), e \notin hasty', RecordedIn(seen', e)
      PROVE  n.account_status = HP!AccountContent(e) /\ n.account_synced_at = e.created_at
  <2>1. /\ e \in sent /\ e \in Announcements /\ About(e, a, AccountKinds)
        /\ e.account = a /\ e.kind \in AccountKinds
        /\ e.created_at \in Nat /\ e.created_at # Never
        /\ \A f \in sent : About(f, a, AccountKinds) => f.created_at <= e.created_at
        BY <1>1, <1>9, NewestFacts, AnnouncementFacts DEF NewestIn
  <2>2. CASE RecordedIn(seen, e)
    <3>1. r.account_status = HP!AccountContent(e) /\ r.account_synced_at = e.created_at
          BY <1>2, <1>4, <1>9, <2>1, <2>2 DEF AccountShown, a
    <3>2. CASE n = r
          BY <3>1, <3>2
    <3>3. ASSUME NEW f \in sent, ~RecordedIn(seen, f), f.account = a,
                 f.kind \in HandledKinds \cup AccountKinds,
                 ~HP!Ignored(r, f, f.created_at), n = HP!Apply(r, f, f.created_at)
          PROVE  n.account_status = HP!AccountContent(e) /\ n.account_synced_at = e.created_at
      <4>1. f \in Announcements /\ f.created_at \in Nat
            BY <1>1, AnnouncementFacts
      <4>2. CASE f.kind \in AccountKinds
        <5>1. f # e /\ About(f, a, AccountKinds)
              BY <2>2, <3>3, <4>2 DEF About
        <5>2. f.created_at <= e.created_at /\ f.created_at # e.created_at
              BY <1>1, <2>1, <5>1 DEF ClockInv
        <5>3. HP!Ignored(r, f, f.created_at)
              BY <2>1, <3>1, <4>1, <4>2, <5>2, WhenIgnored
        <5> QED BY <3>3, <5>3
      <4>3. CASE f.kind \in HandledKinds
        <5>1. /\ n.account_status = r.account_status
              /\ n.account_synced_at = r.account_synced_at
              BY <1>2, <3>3, <4>1, <4>3, AppliedColumns
        <5> QED BY <3>1, <5>1
      <4> QED BY <3>3, <4>2, <4>3
    <3> QED BY <1>5, <3>2, <3>3
  <2>3. CASE ~RecordedIn(seen, e)
    <3>1. n = IF HP!Ignored(r, e, e.created_at) THEN r ELSE HP!Apply(r, e, e.created_at)
          BY <1>6, <1>9, <2>1, <2>3
    <3>2. ~HP!Ignored(r, e, e.created_at)
      <4>1. r.account_synced_at # Never => r.account_synced_at <= e.created_at
            BY <1>2, <2>1 DEF SyncedIn, a
      <4>2. r.account_synced_at \in Nat
            BY <1>2 DEF HP!Row
      <4> QED BY <2>1, <4>1, <4>2, WhenIgnored
    <3>3. n = HP!Apply(r, e, e.created_at)
          BY <3>1, <3>2
    <3> QED BY <1>2, <2>1, <3>3, AppliedColumns
  <2> QED BY <2>2, <2>3
<1>10. ASSUME \A e \in sent : ~About(e, a, AccountKinds)
       PROVE  n.account_status = remote[a].status
  <2>1. r.account_status = remote[a].status
        BY <1>2, <1>10 DEF AccountShown, a
  <2>2. ASSUME NEW f \in sent, f.account = a, f.kind \in HandledKinds \cup AccountKinds,
               n = HP!Apply(r, f, f.created_at)
        PROVE  n.account_status = r.account_status
    <3>1. f \in Announcements /\ f.kind \in HandledKinds
          BY <1>1, <1>10, <2>2 DEF About
    <3> QED BY <1>2, <2>2, <3>1, AppliedColumns
  <2> QED BY <1>5, <2>1, <2>2
<1>11. ASSUME NEW e \in NewestIn(sent, a, ProductKinds), e \notin hasty', RecordedIn(seen', e),
              e.kind \in HandledKinds
       PROVE  Tells(e, n)
  <2>1. e \in NewestIn(sent, a, HandledKinds)
        BY <1>11, KindsApart DEF NewestIn, About
  <2>2. RecordedIn(seen, e) => Tells(e, r)
        BY <1>2, <1>4, <1>11 DEF ProductShown, a
  <2> QED BY <1>8, <1>11, <2>1, <2>2 DEF Fits
<1>12. ProductShown(sent, hasty', seen', n)
       BY <1>7, <1>8, <1>11 DEF ProductShown, Fits
<1>13. AccountShown(remote, sent, hasty', seen', n)
       BY <1>7, <1>9, <1>10 DEF AccountShown
<1> QED BY <1>12, <1>13 DEF n

LEMMA WebhookKeepsNewest ==
  ASSUME Inv, Inv', NewestInv, OneAtATime, NEW w \in Handlers, Webhook(w)
  PROVE  NewestInv'
<1>1. /\ KP!TypeOK /\ KP!TiedInv /\ NewsInv
      /\ ClockInv /\ TruthInv /\ ProductsInv /\ UnnamedInv /\ RequestsInv
      BY DEF Inv, KP!SubmissionInv, KP!TurnInv, NewestInv
<1>2. /\ UNCHANGED <<remote, step, who, read, draft, sent>> /\ HP!Next
      /\ hasty' = {e \in hasty : TooEarly(e) \/ \A s \in seen' \ seen : s.evt # e}
      BY WebhookSteps
<1>3. ASSUME NEW o \in Organizers
      PROVE  /\ profile'[o] = profile[o] \/ profile[o].account_id # NULL
             /\ KP!SameIds(profile[o], profile'[o])
  <2>1. CASE profile'[o] = profile[o]
        BY <2>1 DEF KP!SameIds
  <2>2. CASE profile'[o] # profile[o]
        BY <1>1, <1>2, <2>2, WebhookRows, WebhookApplies
  <2> QED BY <2>1, <2>2
<1>4. ClockInv' /\ SyncInv'
      BY <1>1, WebhookKeepsClock, WebhookKeepsSync
<1>5. TruthInv'
      BY <1>1, <1>2 DEF TruthInv, TruthIn
<1>6. ProductsInv'
      BY <1>1, <1>2, <1>3 DEF ProductsInv, HasProduct, KP!SameIds
<1>7. UnnamedInv'
  <2>1. ASSUME NEW s \in Submitters, step[s] # "idle", profile'[who[s]].account_id = NULL
        PROVE  read[s] = profile'[who[s]]
    <3>1. who[s] \in Organizers
          BY <1>1, <2>1 DEF KP!TypeOK
    <3> QED BY <1>1, <1>3, <2>1, <3>1 DEF UnnamedInv, KP!SameIds
  <2>2. ASSUME NEW e \in sent, e.kind \in AccountKinds,
               \A o \in Organizers : profile'[o].account_id # e.account
        PROVE  e \in hasty'
    <3>1. \A o \in Organizers : profile[o].account_id # e.account
          BY <1>3, <2>2 DEF KP!SameIds
    <3> QED BY <1>1, <1>2, <2>2, <3>1 DEF UnnamedInv, TooEarly
  <2> QED BY <1>2, <2>1, <2>2 DEF UnnamedInv
<1>8. ASSUME NEW s \in Submitters, step[s] # "idle"
      PROVE  RequestIn(remote, sent, hasty', step[s], profile'[who[s]], draft[s])
  <2> DEFINE b == draft[s].account_id
  <2>1. /\ RequestIn(remote, sent, hasty, step[s], profile[who[s]], draft[s])
        /\ profile'[who[s]].account_id = profile[who[s]].account_id
        BY <1>1, <1>3, <1>8 DEF RequestsInv, KP!TypeOK, KP!SameIds
  <2>2. ASSUME b # NULL,
               NEW n \in NewestIn(sent, b, ProductKinds) \cup NewestIn(sent, b, HandledKinds),
               n \in hasty
        PROVE  n \in hasty'
    <3>1. n.account = b /\ n.kind \notin AccountKinds
          BY <2>2, NewestFacts, KindsApart
    <3>2. remote[b].owner = who[s]
          BY <1>1, <1>8, <2>2 DEF KP!TiedInv, KP!Tied, KP!TiedIn, KP!Busy
    <3> QED BY <1>2, <2>2, <3>1, <3>2 DEF TooEarly
  <2> QED BY <2>1, <2>2 DEF RequestIn
<1>9. RequestsInv'
      BY <1>2, <1>8 DEF RequestsInv
<1>10. ASSUME NEW o \in Organizers PROVE Shown(remote, sent, hasty', seen', profile'[o])
       BY <1>3, WebhookShows DEF Shown, KP!SameIds
<1>11. ShownInv'
       BY <1>2, <1>10 DEF ShownInv
<1> QED BY <1>4, <1>5, <1>6, <1>7, <1>9, <1>11 DEF NewestInv

-----------------------------------------------------------------------------
(* NewestInv is inductive relative to Inv.                                 *)

LEMMA InitNewest ==
  ASSUME Init, Inv
  PROVE  NewestInv
<1>1. KP!Init /\ HP!Init /\ sent = {} /\ hasty = {}
      BY SameKycInit, SameHooksInit DEF Init
<1>2. /\ \A o \in Organizers : /\ profile[o].account_id = NULL /\ profile[o].product_id = NULL
                               /\ profile[o].provider_synced_at = Never
                               /\ profile[o].account_synced_at = Never
      /\ \A s \in Submitters : step[s] = "idle"
      /\ \A a \in Accounts : remote[a].product = NULL
      /\ seen = {} /\ \A w \in Handlers : pc[w] = "idle"
      BY <1>1 DEF KP!Init, HP!Init, KP!NewProfile, KP!NoAccount, KP!Never, Never
<1>3. ClockInv /\ SyncInv /\ ProductsInv
      BY <1>1, <1>2 DEF ClockInv, SyncInv, SyncedIn, ProductsInv, HasProduct
<1>4. TruthInv
      BY <1>1, <1>2 DEF TruthInv, TruthIn, NewestIn
<1>5. UnnamedInv /\ RequestsInv /\ ShownInv
      BY <1>1, <1>2 DEF UnnamedInv, RequestsInv, ShownInv, Shown
<1> QED BY <1>3, <1>4, <1>5 DEF NewestInv

LEMMA StutterNewest ==
  ASSUME NewestInv, UNCHANGED vars
  PROVE  NewestInv'
<1>1. UNCHANGED <<profile, remote, step, who, read, draft, seen, pc, job, sent, hasty, now>>
      BY DEF vars, kycVars, hookVars, newsVars
<1>2. ClockInv' /\ TruthInv' /\ SyncInv' /\ ProductsInv' /\ UnnamedInv'
      BY <1>1 DEF NewestInv, ClockInv, TruthInv, TruthIn, SyncInv, ProductsInv, HasProduct,
         UnnamedInv
<1>3. RequestsInv' /\ ShownInv'
      BY <1>1 DEF NewestInv, RequestsInv, RequestIn, ShownInv, Shown, AccountShown
<1> QED BY <1>2, <1>3 DEF NewestInv

LEMMA StepNewest ==
  ASSUME OneAtATime, SameSecond = FALSE, Inv, Inv', NewestInv, [Next]_vars
  PROVE  NewestInv'
<1>1. CASE UNCHANGED vars
      BY <1>1, StutterNewest
<1>2. CASE Next
      BY <1>2, RequestKeepsNewest, ReviewKeepsNewest, SuspendKeepsNewest, WebhookKeepsNewest
         DEF Next
<1> QED BY <1>1, <1>2

(* When nothing is left to answer, every announcement is recorded; the     *)
(* newest is how things are, and it is on the row if it has a handler;     *)
(* otherwise the row is at least as new as the newest one that has.        *)
LEMMA ConvergedFromInv ==
  ASSUME OneAtATime, Inv, NewestInv
  PROVE  Converged
<1>1. /\ KP!TypeOK /\ KP!RowsAgree /\ KP!TiedInv /\ HP!AckedAreRecorded
      /\ TruthInv /\ ProductsInv /\ ShownInv
      BY DEF Inv, KP!SubmissionInv, KP!TurnInv, HP!HandlersInv, NewestInv
<1> SUFFICES ASSUME Quiet, NEW o \in Organizers
             PROVE  LET a == profile[o].account_id IN
                    /\ profile[o].product_id # NULL =>
                         /\ \A n \in Newest(a, HandledKinds) \ hasty : ShowsSince(profile[o], n)
                         /\ remote[a].product \in HandledStatus
                              /\ Newest(a, ProductKinds) \cap hasty = {} =>
                              /\ Shows(profile[o], remote[a].product)
                              /\ profile[o].requirements = remote[a].requirements
                    /\ a # NULL /\ Newest(a, AccountKinds) \cap hasty = {} =>
                         profile[o].account_status = remote[a].status
    BY DEF Converged
<1> DEFINE r == profile[o]
           a == r.account_id
<1>2. \A kinds : Newest(a, kinds) = NewestIn(sent, a, kinds)
      BY DEF Newest, NewestIn, About
<1>3. \A e \in sent : RecordedIn(seen, e)
      BY <1>1 DEF Quiet, HP!AckedAreRecorded, HP!Recorded, RecordedIn
<1>4. /\ r \in KP!Row /\ Shown(remote, sent, hasty, seen, r) /\ HasProduct(remote, r)
      /\ KP!Agree(r) /\ r.product_id \in {NULL, a} /\ sent \subseteq Announcements
      BY <1>1 DEF KP!TypeOK, ShownInv, ProductsInv, KP!RowsAgree, KP!TiedInv, KP!Tied, KP!TiedIn,
         Inv, NewsInv
<1>5. ASSUME a # NULL
      PROVE  /\ TruthIn(remote, sent, a)
             /\ ProductShown(sent, hasty, seen, r) /\ AccountShown(remote, sent, hasty, seen, r)
      BY <1>1, <1>4, <1>5 DEF TruthInv, Shown, KP!Row
<1>6. \A st \in ProviderStatus : r.provider_status = st => Shows(r, st)
  <2>1. KP!MapStatus = MapStatus
        BY DEF KP!MapStatus, MapStatus, KP!ProviderStatus, ProviderStatus
  <2> QED BY <1>4, <2>1, NullStatusAssumption DEF KP!Agree, Shows
<1>7. ASSUME r.product_id # NULL, NEW n \in NewestIn(sent, a, HandledKinds) \ hasty
      PROVE  ShowsSince(r, n)
  <2>1. a # NULL
        BY <1>4, <1>7
  <2>2. Since(sent, r.provider_status, n)
        BY <1>3, <1>5, <1>7, <2>1, NewestFacts DEF ProductShown
  <2>3. PICK e \in sent :
          About(e, n.account, ProductKinds) /\ n.created_at <= e.created_at
            /\ e.status = r.provider_status
        BY <2>2 DEF Since
  <2>4. e.status \in ProviderStatus
        BY <1>4, <2>3, AnnouncementFacts DEF About
  <2> QED BY <1>6, <2>3, <2>4 DEF ShowsSince, About
<1>8. ASSUME r.product_id # NULL, remote[a].product \in HandledStatus,
             NewestIn(sent, a, ProductKinds) \cap hasty = {}
      PROVE  Shows(r, remote[a].product) /\ r.requirements = remote[a].requirements
  <2>1. a # NULL /\ remote[a].product # NULL
        BY <1>4, <1>8 DEF HasProduct
  <2>2. PICK n \in NewestIn(sent, a, ProductKinds) : TRUE
        BY <1>5, <2>1 DEF TruthIn
  <2>3. n.status = remote[a].product /\ n.requirements = remote[a].requirements
        BY <1>5, <2>1 DEF TruthIn
  <2>4. n \in sent /\ n \in Announcements /\ n.kind \in ProductKinds
        BY <1>4, NewestFacts
  <2>5. n.kind \in HandledKinds /\ n.status \in ProviderStatus
        BY <1>8, <2>3, <2>4, HandledNews, AnnouncementFacts
  <2>6. Tells(n, r)
        BY <1>3, <1>5, <1>8, <2>1, <2>2, <2>4, <2>5 DEF ProductShown
  <2> QED BY <1>6, <2>3, <2>5, <2>6 DEF Tells
<1>9. ASSUME a # NULL, NewestIn(sent, a, AccountKinds) \cap hasty = {}
      PROVE  r.account_status = remote[a].status
  <2>1. CASE \A e \in sent : ~About(e, a, AccountKinds)
        BY <1>5, <1>9, <2>1 DEF AccountShown
  <2>2. CASE \E e \in sent : About(e, a, AccountKinds)
    <3>1. PICK n \in NewestIn(sent, a, AccountKinds) : TRUE
          BY <1>5, <1>9, <2>2 DEF TruthIn
    <3>2. HP!AccountContent(n) = remote[a].status
          BY <1>5, <1>9, <3>1 DEF TruthIn
    <3>3. r.account_status = HP!AccountContent(n)
          BY <1>3, <1>5, <1>9, <3>1, NewestFacts DEF AccountShown
    <3> QED BY <3>2, <3>3
  <2> QED BY <2>1, <2>2
<1> QED BY <1>2, <1>7, <1>8, <1>9

(* When each submission waits for the answer to the one before, and no two *)
(* announcements carry the same second, then as soon as nothing runs and   *)
(* every announcement is answered, a row shows what Razorpay has, if its   *)
(* status has an entry in _EVENT_HANDLERS, and otherwise nothing older     *)
(* than the last announced status that has one; whatever the order of      *)
(* deliveries, the duplicates, the faults and the statuses, but for what   *)
(* was announced and recorded too early.                                   *)
THEOREM OnboardingConverged == OneAtATime /\ SameSecond = FALSE => (Spec => []Converged)
<1> SUFFICES ASSUME OneAtATime, SameSecond = FALSE PROVE Spec => []Converged
    OBVIOUS
<1>1. Init => Inv /\ NewestInv
      BY InitInv, InitNewest
<1>2. Inv /\ NewestInv /\ [Next]_vars => (Inv /\ NewestInv)'
  <2>1. ASSUME Inv, NewestInv, [Next]_vars PROVE (Inv /\ NewestInv)'
        BY <2>1, StepInv, StepNewest
  <2> QED BY <2>1
<1>3. Inv /\ NewestInv => Converged
      BY ConvergedFromInv
<1> QED BY <1>1, <1>2, <1>3, PTL DEF Spec
=============================================================================
