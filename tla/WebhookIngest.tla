---------------------------- MODULE WebhookIngest ----------------------------
(***************************************************************************)
(* POST /webhooks/razorpay: every delivery runs in one database            *)
(* transaction that inserts the dedup row, locks the organizer's row       *)
(* (SELECT ... FOR UPDATE), applies the event and commits.  Razorpay       *)
(* delivers at least once and in any order; a handler can be killed        *)
(* between any two statements; an answer can be lost.                      *)
(***************************************************************************)
EXTENDS OrganizerRow

CONSTANTS
  Handlers,     (* sessions that serve webhook deliveries                  *)
  Events,       (* bodies Razorpay can send; sha256 of a body is the body  *)
  InitialRows,  (* tables this run can start from                          *)
  MaxCrashes    (* bound: handlers killed in one behaviour                 *)

Unrecognized == "unrecognized"

(* body["event"], keyed by the entry of _EVENT_HANDLERS it selects.        *)
ProductKinds == {"product.route"}
AccountKinds == {"account.activated", "account.suspended"}
OtherKinds   == {"other"}

EventBody ==
  [kind         : ProductKinds \cup AccountKinds \cup OtherKinds,
   account      : Accounts \cup {NULL},
   status       : ProviderStatus \cup {NULL, Unrecognized},
   requirements : Requirements \cup {NULL},
   created_at   : Times \cup {Never}]

ASSUME HandlersAssumption    == Handlers \subseteq Sessions
ASSUME EventsAssumption      == Events \subseteq EventBody
ASSUME MaxCrashesAssumption  == MaxCrashes \in Nat
ASSUME UnrecognizedAssumption == NULL # Unrecognized

(* A table before any webhook: what registration and KYC submission leave. *)
ASSUME InitialRowsAssumption ==
  \A rows \in InitialRows :
    /\ rows \in [Organizers -> Row]
    /\ UniqueAccounts(rows)
    /\ \A o \in Organizers :
         /\ RowChecks(rows[o])
         /\ rows[o].provider_status # NULL =>
              rows[o].kyc_status = MapStatus[rows[o].provider_status]
         /\ rows[o].provider_status = "activated" => rows[o].activated
         /\ rows[o].provider_synced_at = Never
         /\ rows[o].account_synced_at = Never

VARIABLES
  profile,      (* organizer_profiles, as committed                        *)
  holder,       (* holder[o]: the session that has row o locked, or NULL   *)
  seen,         (* razorpay_webhook_events, each with the time used for it *)
  acked,        (* events whose sender has had a 2xx answer                *)
  pc,           (* next statement of each handler                          *)
  job,          (* the delivery a handler is serving                       *)
  target,       (* the row a handler has locked                            *)
  loaded,       (* that row as the handler read it                         *)
  crashes       (* handlers killed so far                                  *)

handlerVars == <<pc, job, target, loaded>>
vars == <<profile, holder, seen, acked, pc, job, target, loaded, crashes>>

Job == [evt : Events, at : Times]

TypeOK ==
  /\ profile \in [Organizers -> Row]
  /\ holder \in [Organizers -> Sessions \cup {NULL}]
  /\ seen \subseteq Job
  /\ acked \subseteq Events
  /\ pc \in [Handlers -> {"idle", "route", "apply"}]
  /\ job \in [Handlers -> Job \cup {NULL}]
  /\ target \in [Handlers -> Organizers \cup {NULL}]
  /\ loaded \in [Handlers -> Row \cup {NULL}]
  /\ crashes \in 0..MaxCrashes
  /\ \A w \in Handlers :
       /\ pc[w] # "idle" => job[w] \in Job
       /\ pc[w] = "apply" => target[w] \in Organizers /\ loaded[w] \in Row

Init ==
  /\ profile \in InitialRows
  /\ holder = [o \in Organizers |-> NULL]
  /\ seen = {}
  /\ acked = {}
  /\ pc = [w \in Handlers |-> "idle"]
  /\ job = [w \in Handlers |-> NULL]
  /\ target = [w \in Handlers |-> NULL]
  /\ loaded = [w \in Handlers |-> NULL]
  /\ crashes = 0

(* The dedup row of e is committed; the dedup row of e is inserted by a    *)
(* transaction still open, so the unique index makes a second insert wait. *)
Recorded(e) == \E s \in seen : s.evt = e
InFlight(e) == \E w \in Handlers : pc[w] # "idle" /\ job[w].evt = e

(* Mutant of EventTimes: a missing created_at is not replaced.             *)
EventTimesUnchecked(e) == {e.created_at}

(* created_at, or the server's clock when the body has none.  The server's *)
(* clock is not Razorpay's: it can read any instant.                       *)
EventTimes(e) == IF e.created_at = Never THEN Times ELSE {e.created_at}

Unlock(w) == [o \in Organizers |-> IF holder[o] = w THEN NULL ELSE holder[o]]

GoIdle(w) ==
  /\ pc' = [pc EXCEPT ![w] = "idle"]
  /\ job' = [job EXCEPT ![w] = NULL]
  /\ target' = [target EXCEPT ![w] = NULL]
  /\ loaded' = [loaded EXCEPT ![w] = NULL]
  /\ holder' = Unlock(w)

(* COMMIT, then the answer, which may not arrive.                          *)
Commit(w) ==
  /\ GoIdle(w)
  /\ seen' = seen \cup {job[w]}
  /\ acked' \in {acked, acked \cup {job[w].evt}}

(* Mutant of Rollback: the error is swallowed and answered 200.            *)
RollbackAnswered(w) ==
  /\ GoIdle(w)
  /\ acked' = acked \cup {job[w].evt}
  /\ UNCHANGED <<profile, seen>>

(* Nothing of the transaction survives and no 2xx is sent.                 *)
Rollback(w) ==
  /\ GoIdle(w)
  /\ UNCHANGED <<profile, seen, acked>>

(* Mutant of ReceiveDuplicate: a duplicate is answered with an error.      *)
ReceiveDuplicateRefused(w, e) ==
  /\ pc[w] = "idle"
  /\ Recorded(e)
  /\ UNCHANGED vars

(* The insert of the dedup row violates its unique index: rollback, 200.   *)
ReceiveDuplicate(w, e) ==
  /\ pc[w] = "idle"
  /\ Recorded(e)
  /\ acked' = acked \cup {e}
  /\ UNCHANGED <<profile, holder, seen, handlerVars, crashes>>

(* Mutant of ReceiveNew: no unique index, only a look at committed rows.   *)
ReceiveNewUnindexed(w, e) ==
  /\ pc[w] = "idle"
  /\ ~Recorded(e)
  /\ \E at \in EventTimes(e) : job' = [job EXCEPT ![w] = [evt |-> e, at |-> at]]
  /\ pc' = [pc EXCEPT ![w] = "route"]
  /\ UNCHANGED <<profile, holder, seen, acked, target, loaded, crashes>>

(* No dedup row, committed or pending: the insert succeeds.                *)
ReceiveNew(w, e) ==
  /\ pc[w] = "idle"
  /\ ~Recorded(e)
  /\ ~InFlight(e)
  /\ \E at \in EventTimes(e) : job' = [job EXCEPT ![w] = [evt |-> e, at |-> at]]
  /\ pc' = [pc EXCEPT ![w] = "route"]
  /\ UNCHANGED <<profile, holder, seen, acked, target, loaded, crashes>>

(* The handler of the event runs for a row that names the event's account. *)
Routes(e, o) ==
  /\ e.kind \notin OtherKinds
  /\ e.account # NULL
  /\ profile[o].account_id = e.account

(* No account_id, no handler for the event, or no row with that account:   *)
(* the delivery is recorded and answered 200, and changes nothing else.    *)
CommitUnrouted(w) ==
  /\ pc[w] = "route"
  /\ \A o \in Organizers : ~Routes(job[w].evt, o)
  /\ Commit(w)
  /\ UNCHANGED <<profile, crashes>>

(* Mutant of LockRow: the row is read without FOR UPDATE.                  *)
ReadRowUnlocked(w, o) ==
  /\ pc[w] = "route"
  /\ Routes(job[w].evt, o)
  /\ target' = [target EXCEPT ![w] = o]
  /\ loaded' = [loaded EXCEPT ![w] = profile[o]]
  /\ pc' = [pc EXCEPT ![w] = "apply"]
  /\ UNCHANGED <<profile, holder, seen, acked, job, crashes>>

(* SELECT ... WHERE razorpay_account_id = ... FOR UPDATE.                  *)
LockRow(w, o) ==
  /\ pc[w] = "route"
  /\ Routes(job[w].evt, o)
  /\ holder[o] = NULL
  /\ holder' = [holder EXCEPT ![o] = w]
  /\ target' = [target EXCEPT ![w] = o]
  /\ loaded' = [loaded EXCEPT ![w] = profile[o]]
  /\ pc' = [pc EXCEPT ![w] = "apply"]
  /\ UNCHANGED <<profile, seen, acked, job, crashes>>

(* Mutants of Ignored: account events, or product events, are applied      *)
(* without looking at the time of the last one.                            *)
IgnoredUnorderedAccount(r, e, at) ==
  /\ e.kind \in ProductKinds
  /\ \/ r.provider_synced_at # Never /\ at < r.provider_synced_at
     \/ e.status \notin ProviderStatus

IgnoredUnorderedProduct(r, e, at) ==
  IF e.kind \in ProductKinds
    THEN e.status \notin ProviderStatus
    ELSE r.account_synced_at # Never /\ at < r.account_synced_at

(* The early returns of the two handlers.                                  *)
Ignored(r, e, at) ==
  IF e.kind \in ProductKinds
    THEN \/ r.provider_synced_at # Never /\ at < r.provider_synced_at
         \/ e.status \notin ProviderStatus
    ELSE r.account_synced_at # Never /\ at < r.account_synced_at

(* Mutant of ApplyProduct: the platform's status is not recomputed.        *)
ApplyProductUnmapped(r, e, at) ==
  [r EXCEPT !.provider_status    = e.status,
            !.requirements       = e.requirements,
            !.provider_synced_at = at,
            !.activated          = @ \/ e.status = "activated"]

(* The columns the two handlers assign.                                    *)
ApplyProduct(r, e, at) ==
  [r EXCEPT !.provider_status    = e.status,
            !.kyc_status         = MapStatus[e.status],
            !.requirements       = e.requirements,
            !.provider_synced_at = at,
            !.activated          = @ \/ e.status = "activated"]

ApplyAccount(r, e, at) ==
  [r EXCEPT !.account_status    = IF e.kind = "account.suspended" THEN "suspended" ELSE "created",
            !.account_synced_at = at]

Apply(r, e, at) ==
  IF e.kind \in ProductKinds THEN ApplyProduct(r, e, at) ELSE ApplyAccount(r, e, at)

(* The row the handler's UPDATE would leave.                               *)
Outcome(w) ==
  Flush(profile[target[w]], loaded[w], Apply(loaded[w], job[w].evt, job[w].at))

CommitIgnored(w) ==
  /\ pc[w] = "apply"
  /\ Ignored(loaded[w], job[w].evt, job[w].at)
  /\ Commit(w)
  /\ UNCHANGED <<profile, crashes>>

CommitApplied(w) ==
  /\ pc[w] = "apply"
  /\ ~Ignored(loaded[w], job[w].evt, job[w].at)
  /\ RowChecks(Outcome(w))
  /\ profile' = [profile EXCEPT ![target[w]] = Outcome(w)]
  /\ Commit(w)
  /\ UNCHANGED crashes

(* The UPDATE violates a CHECK: the request ends in a 500 and the session  *)
(* closes without a commit.                                                *)
RejectedByCheck(w) ==
  /\ pc[w] = "apply"
  /\ ~Ignored(loaded[w], job[w].evt, job[w].at)
  /\ ~RowChecks(Outcome(w))
  /\ Rollback(w)
  /\ UNCHANGED crashes

Crash(w) ==
  /\ pc[w] # "idle"
  /\ crashes < MaxCrashes
  /\ Rollback(w)
  /\ crashes' = crashes + 1

Handle(w) ==
  \/ CommitUnrouted(w)
  \/ \E o \in Organizers : LockRow(w, o)
  \/ CommitIgnored(w)
  \/ CommitApplied(w)
  \/ RejectedByCheck(w)

Deliver(e) == \E w \in Handlers : ReceiveNew(w, e) \/ ReceiveDuplicate(w, e)

Next ==
  \/ \E e \in Events : Deliver(e)
  \/ \E w \in Handlers : Handle(w) \/ Crash(w)

(* A worker that is not killed goes on; Razorpay redelivers an event until *)
(* it is answered, and a delivery reaches a free worker in the end.        *)
Fairness ==
  /\ \A w \in Handlers : WF_vars(Handle(w))
  /\ \A e \in Events : SF_vars(e \notin acked /\ Deliver(e))

Spec == Init /\ [][Next]_vars /\ Fairness

-----------------------------------------------------------------------------
(* Which recorded deliveries had a row and a status to apply.              *)
SetsProduct(e, r) ==
  e.kind \in ProductKinds /\ e.status \in ProviderStatus
    /\ e.account # NULL /\ e.account = r.account_id

SetsAccount(e, r) ==
  e.kind \in AccountKinds /\ e.account # NULL /\ e.account = r.account_id

ProductSeen(o) == {s \in seen : SetsProduct(s.evt, profile[o])}
AccountSeen(o) == {s \in seen : SetsAccount(s.evt, profile[o])}

ProductContent(e) == [status |-> e.status, requirements |-> e.requirements]
AccountContent(e) == IF e.kind = "account.suspended" THEN "suspended" ELSE "created"

(* Both streams of events implement "the newest event wins": the status    *)
(* and requirements of a row are those of one and the same event, one that *)
(* no recorded event for the row is newer than, whatever the order of      *)
(* arrival, the duplicates and the handlers killed half-way.               *)
ProductBoard == INSTANCE LatestWins WITH
  Keys     <- Organizers,
  Ids      <- Events,
  Stamps   <- Times,
  Contents <- [status : ProviderStatus \cup {NULL}, requirements : Requirements \cup {NULL}],
  Content  <- ProductContent,
  merged   <- [o \in Organizers |-> ProductSeen(o)],
  shown    <- [o \in Organizers |->
                 [stamp   |-> profile[o].provider_synced_at,
                  content |-> [status       |-> profile[o].provider_status,
                               requirements |-> profile[o].requirements]]]

AccountBoard == INSTANCE LatestWins WITH
  Keys     <- Organizers,
  Ids      <- Events,
  Stamps   <- Times,
  Contents <- AccountStatus \cup {NULL},
  Content  <- AccountContent,
  merged   <- [o \in Organizers |-> AccountSeen(o)],
  shown    <- [o \in Organizers |-> [stamp   |-> profile[o].account_synced_at,
                                     content |-> profile[o].account_status]]

ProductNewestWins == ProductBoard!Spec
AccountNewestWins == AccountBoard!Spec

(* The platform's status is the one its own mapping gives Razorpay's, and  *)
(* a VERIFIED organizer has an activation time: webhook_handlers.py sets   *)
(* four columns one after the other and must never commit some of them.    *)
StatusesAgree ==
  \A o \in Organizers :
    /\ profile[o].provider_status # NULL =>
         profile[o].kyc_status = MapStatus[profile[o].provider_status]
    /\ profile[o].provider_status = "activated" => profile[o].activated

(* A row changes only in the step that commits a dedup row not there       *)
(* before, for an event that names its account: an effect is never         *)
(* committed without its dedup row, nor applied a second time.             *)
EffectsAreRecorded ==
  [][\A o \in Organizers :
       profile'[o] # profile[o] =>
         \E s \in seen' \ seen : ~Recorded(s.evt) /\ s.evt.account = profile[o].account_id]_vars

(* A sender is answered 2xx only for an event that is durably recorded.    *)
AckedAreRecorded == \A e \in acked : Recorded(e)

(* Every event is recorded in the end, unless the row it verifies lacks    *)
(* payout details: then the CHECK rejects every attempt.                   *)
Storable(e) ==
  \A o \in Organizers :
    Routes(e, o) /\ e.kind \in ProductKinds /\ e.status = "activated" =>
      RowChecks(ApplyProduct(profile[o], e, Never))

EventuallyAcked == \A e \in Events : []Storable(e) => <>(e \in acked)
=============================================================================
