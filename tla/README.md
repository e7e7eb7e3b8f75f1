# surge-pass in TLA+

surge-pass is a FastAPI service on PostgreSQL that sells event tickets through
organizers who are paid by Razorpay. This directory specifies what is hard to
test in it: requests that share a row, calls to a provider that can fail half
way, webhooks that come late, twice or in another order, and workers that die.
Paths below are relative to `src/src/app/`.

## The system

| component | state | operations | talks to |
|---|---|---|---|
| users (`modules/users`, `core/auth.py`) | `users`, `refresh_tokens`, `otp_verifications` | register, login, refresh, logout, logout everywhere, send and confirm a code, request and confirm a reset | mail queue |
| organizers (`modules/organizers`) | `organizer_profiles` | become organizer, submit KYC, status | Razorpay (linked account, stakeholder, product) |
| webhooks (`modules/webhooks`, `organizers/webhook_handlers.py`) | `razorpay_webhook_events`, and the organizer's row | receive a delivery | called by Razorpay |
| events and tickets (`modules/events`, `modules/tickets`) | `events`, `ticket_tiers` | create, update, publish, delete, add a tier | reads `organizer_profiles.kyc_status` |
| mail (`core/email*.py`, `core/celery_app.py`, `users/tasks.py`) | the Celery queue | send | SMTP |
| migrations (`db/migrations`) | the schema, `alembic_version` | upgrade, downgrade | the rows of all tables |
| the rest (`core/config.py`, `core/encrption.py`, `db/database.py`, schemas, templates) | none of their own | configuration, column encryption, validation | |

Every request has one SQLAlchemy session (`db/database.py`), READ COMMITTED,
no retries. A session reads rows, changes its copies, and a *flush* issues an
UPDATE that names only the columns that differ from what was loaded; an UPDATE
locks its row until the transaction ends. `session` closing without a commit is
a rollback. Almost every hazard here follows from that: what a request decided
on is what it read, not what the row is when it writes.

At this commit `create_event` reads `data.max_tickets_per_user`
(`events/routers.py:55`), a field `EventCreate` does not have
(`events/schemas.py:16`), so every call of it ends in an `AttributeError` and a
rollback; nobody becomes an organizer through the API either, because
`get_or_create_organizer_profile` is called only there. A call that always
rolls back changes no state, so it is no action. `main.py` does not
include the tickets router. The organizer and event modules therefore start
from rows that are there, as the integration tests do, and model the handlers
as they are written.

Components meet in the organizer's row: KYC submission writes it (unlocked
read, lock from the first flush on, one commit at the end), two kinds of
webhook handlers write it (locked read), events read it. Razorpay meets them
from both sides: it answers the calls of a submission, and announces by webhook
what those calls and its own reviews changed.

What each component has to get right:

* webhooks: an event is applied once, its effect and its dedup row together;
  the newest event wins in every order of delivery; every event that can be
  stored is acknowledged in the end.
* KYC submission: account, stakeholder and product are created once and stored
  with what they belong to, whatever fails; the row never violates its CHECKs;
  nothing is sent to Razorpay for an organizer who is done.
* both together: once everything is delivered the row shows Razorpay's status
  of its account, and of its product as far as the status has a handler; only
  Razorpay's activation of that very
  account makes an organizer VERIFIED.
* users: a refresh token is good once; a session that was ended stays ended; a
  password that was replaced opens nothing; a code is good once, for a bounded
  number of guesses, and only for what it was mailed for.
* events: only a verified organizer publishes; only drafts change; a published
  event has tiers, and no tier outlives its event.
* migrations: the last revision is the schema the models declare, however it
  was reached; `alembic_version` names the schema that is there; an upgrade of a
  database without rows arrives.

## Modules

| module | models |
|---|---|
| `OrganizerRow` | the row, its CHECKs, `map_provider_status_to_kyc_status`, the semantics of a flush |
| `LatestWins` | abstract: a board per key that shows the newest message merged so far |
| `WebhookIngest` | `receive_razorpay_webhook`, `record_event_if_new`, `apply_product_route_event`, `apply_account_event` |
| `KycSubmission` | `get_current_organizer`, `submit_organizer_kyc`, `submit_kyc`, the guard, the calls |
| `OrganizerOnboarding` | the two before it instantiated on one table, with Razorpay's reviews, suspensions and announcements |
| `RefreshTokens` | login, refresh, logout, logout everywhere, and what a reset does to sessions |
| `OneTimeCodes` | registration, verification and reset codes from the request to the confirmation |
| `EventLifecycle` | publish, update, delete and new tiers, with KYC changes and a clock |
| `Migrations` | the sixteen revisions, upgrade and downgrade, `env.py`, the rows constraints look at |
| `*Proofs` | theorems about the module they are named after |
| `MC*` | constants and symmetry for TLC |

The modules about organizers share `OrganizerRow`; sessions, codes, events and
migrations are checked each on its own, with what the others do to them as
actions of the module.

**OrganizerRow.** All columns of the form are one value, `details`;
`stakeholder_id` and `product_id` hold the account they belong to, which is all
a property can tell about them; times are whole seconds, as `created_at` is.
`CHECK` is three-valued in SQL, so a NULL `provider_status` passes where the
model says so. `Flush(stored, loaded, new)` is the UPDATE of changed columns.

**WebhookIngest.** A handler has three positions: `idle`, `route` (the dedup
row is inserted, the transaction open) and `apply` (the row locked and read).
`ReceiveNew` waits while another open transaction has the same dedup row (the
unique index does). `LockRow` is `SELECT ... FOR UPDATE`. `CommitIgnored`,
`CommitApplied`, `CommitUnrouted` and `RejectedByCheck` are the four ways a
delivery ends; `Commit` may lose its answer; `Crash` rolls back. `seen` keeps
with every dedup row the time the handler used, a ghost that only properties
read. The signature check is left out: it comes before any state.

**KycSubmission.** One action per statement that touches the database or
Razorpay, in the order of the code: `Start` (read, guard, `_apply_kyc_input`),
`SaveDetails`, `CreateAccount`, `FlushAccount`, `CreateStakeholder` or
`EditStakeholder`, `FlushStakeholder`, `ProductCall`, `Finish`. A call can be
refused or fail without effect (`CallRefused`: the router commits what was
flushed and answers 400 or 502), take effect and lose its answer
(`AnswerLost`), and a request can die, or meet a status the code does not know
(`Die`: nothing is committed). `draft` is the session's copy and `read` what it
loaded. Since the first flush holds the row's lock until the end, writing all
differences at the commit is the same as writing them one flush at a time.
Razorpay is a table `remote` of linked accounts; it is external and does what
`razorpay_client` is used for: it answers a product call with any status in
`Replies` and does not reopen a product it has decided on.

**OrganizerOnboarding.** `Submission`, `Review`, `Suspend` and `Webhook` share
`profile` and `holder`. Every change of a product's status and every suspension
or reinstatement of an account at Razorpay is announced with the next second of
its clock (or the same second, when `SameSecond`). The kind of an announcement
follows the status (`ProductKind`): `_EVENT_HANDLERS`
(`webhooks/routers.py:28`) has entries for "activated", "under_review" and
"needs_clarification" only, so a product that becomes "requested" or
"suspended" is announced by an event of kind "other", which `WebhookIngest`
records, answers and ignores, as `webhooks/routers.py:81` does. With `PatientReviews`
Razorpay acts only on what a finished submission left; without it, at any time.
`hasty` is a ghost: the announcements made and recorded at a time at which no
record reaches the row, because no row names the account yet, or because an
open submission will write the older status its own call returned over it.

**RefreshTokens.** `LoginRead` and `RefreshRead` are the reads and the hashing,
`LoginCommit` and `RefreshCommit` the writes; between them anything can happen.
`Logout`, `LogoutAll` and `ResetPassword` decide nothing on what another
request could change, and are one step. A token's row carries two ghosts, the
login its session began with and the password that login used; `cut` remembers
how a session was ended, and whether a refresh of it was in flight. Tokens are
found by hash in the code and by id here. Access tokens are not modelled: they
are checked by signature and expire by themselves, so revocation never reaches
them.

**OneTimeCodes.** `RegisterRead` is the look-up of the address,
`RegisterCommit` the INSERT the unique index may refuse. An address is stored in
lower case and looked up as typed (`Spellings`, `Found`), so a look-up can miss
an account that is there, in the same spelling when requests overlap and in
another one always. A request is a record with the row it has loaded.
`SendRead`, `SendStore`, `SendMail` are the three parts of asking for a code
(look-up, `upsert_otp` and its commit, the task in the queue), `ConfirmRead`
and `WrongGuess` or `RightGuess` the two of using it. A guess is any code that
was ever mailed, or one that was not. The queue is a set: a mail can be read at
any later time and in any order, or never. `guesses`, `accepts` and `spent` are
ghosts.

**EventLifecycle.** `PublishStart` is `get_verified_organizer`, `PublishRead`
the event and the checks on it, `PublishCount` the count of tiers,
`PublishCommit` the UPDATE. `UpdateRead`/`UpdateCommit`,
`DeleteRead`/`DeleteCommit` and `TierRead`/`TierCommit` are the other three
handlers. `copy` is the row as loaded and `Merged` the row after an UPDATE of
the changed columns; the database checks that one, not the session's copy. An
UPDATE of a row that is gone is an error (`Fail`), a DELETE of it is none.
`Review` flips VERIFIED at any time, as a webhook can. `barred` is a ghost: an
organizer who lost VERIFIED while no publish was in flight.

**Migrations.** The schema is a set of objects: what a revision creates,
alters or drops together. `Up` and `Down` give each revision as parts, which
drop, add and update; `Upgrade` and `Downgrade` run the next part in the
transaction `tx`, or end the command (`Abort`) when a statement names an object
that is not there, or is there already, or when a row does not pass. A command
is one transaction (`env.py`), but the `autocommit_block` of a2a0a37d3631
commits what is before it and each of its statements: that is why the revision
has four parts. `Kill` ends a command anywhere. `WriteRows` is the application,
before, between and after; of the rows only what constraints tell apart is
kept. `Declared` lists, column by column, what the models declare, and
`Content` what the objects are, so that the two can be compared.

`Patient`, in `RefreshTokens`, `OneTimeCodes` and `EventLifecycle`, is the set of those who send a request only when
the last one is answered; nothing restricts the others. Properties called
`...InTurn` speak of the former, and hold while the latter interfere.

## Runs

| run | instance | shows |
|---|---|---|
| `ingest_product` | 1 organizer, 2 handlers, 4 product events, 1 crash | types, agreement of columns, `ProductNewestWins` (refinement of `LatestWins`), exactly-once effects |
| `ingest_outcomes` | 2 organizers, 3 accounts, 6 events of all kinds, 2 handlers, 1 crash | `AccountNewestWins`; liveness: every storable event is acknowledged |
| `kyc_race` | 1 organizer, 2 overlapping requests, 2 accounts, 3 codes, 1 fault | the CHECKs always pass, reviewed rows are complete; liveness: requests end if calls return |
| `onboarding` | 1 organizer, 1 submitter, 1 handler, 2 accounts and codes, 3 seconds, 1 fault or crash, calls answered with a status that has a handler or with one that has none, reviews and suspensions at any time | the ids belong together and are kept, one account per organizer and fault, the last flush passes the CHECKs; convergence of product and account status with Razorpay, as far as statuses have handlers; only a verified account verifies; a submission takes no verdict back |
| `tokens` | 2 users (1 patient), 3 requests, 3 tokens, 2 passwords | one live token of a patient user's session; ended sessions stay ended; old passwords open nothing |
| `codes` | 2 users (1 patient), 2 requests, 2 rows, 2 codes, 3 attempts | bounded guesses, accepted once, good until spent, spent codes refused; an account changes only by a mailed code, whatever is registered again |
| `events` | 2 organizers (1 patient), 1 event, 2 requests, 2 tiers, 3 instants, 6 edits | published events have tiers, tiers have events, no publication is taken back, a suspension stops publishing, a patient organizer's published event is final |
| `migrations` | 6 positions of the 16, 1 kill, 1 user, 2 purposes, 1 profile | the last revision is what the models declare, the version tells the truth but for two named states, which no command leaves; liveness: an upgrade of a database without rows arrives |
| `onboarding_late`, `onboarding_retry`, `tokens_twice`, `codes_limit` | as small as the case needs | the counterexamples below |

Bounds. Two handlers are enough for every race on one row, because a handler
waits for one row and one dedup entry at most. Four product events hold an
older one, two in one second and an untimed one; more repeat these pairs.
Two accounts allow one orphan, as many as there are faults. Two submitters
race on one row; the second organizer exists where routing matters. Three
seconds let an announcement from a submission, one from its resubmission and a
verdict be delivered in any order. `MaxCrashes`, `MaxFaults` and `MaxKills`
bound how often workers die, not when. One handler is enough in `onboarding`:
the races of handlers with each other are those of the ingestion runs. With two
handlers (5.1 million states, 3.1 up to their exchange) every property of the
run holds too. Two submitters race in `kyc_race`, without webhooks.
In `onboarding` a product is activated or suspended only by a review, in
`kyc_race`, which has none, by the answer to a call; "requested" comes from
calls only, "suspended" from reviews only, so that what has no handler comes
from both sides.
Three tokens are a login and two refreshes, or two sessions and a refresh; three
requests are a read, a write that overlaps with it and a third in between. Two
codes are a code and the one that replaced it, or one for each purpose; 3 attempts stand for
`MAX_OTP_ATTEMPTS`, which is 5, and separate the first guess, one in between
and the last. One event suffices because no handler reads two; two requests
overlap in every pair of handlers, and a run of the same module with three
requests of one organizer (2.0 million states) finds nothing else. One user
with three rows and three codes passes too. The six edits move each date,
two together, clear one that may be NULL and one that may not, and set none; of
three instants one is before, one at and one after a date.
The positions of `migrations` are the two ends, the state before the revision
with the autocommit block (12), that revision (13), the one before codes had a
purpose (5) and the one before the first organizer table (10); a command passes
through all that are in between. The largest runs are `onboarding`
(3.3 million states), `codes` (2.9) and `events` (1.7); `migrations` has
32,072.

Deadlock is checked in the ingestion, token, event and migration runs, where
something is always possible; a submission has nothing to do once every row is decided, the
onboarding clock is bounded and codes run out, so those runs say
`CHECK_DEADLOCK FALSE`.

Fairness. `WebhookIngest`: a handler that is not killed goes on (WF), and
Razorpay redelivers an event until it is answered 2xx (SF, because a delivery
needs a free worker). `KycSubmission`: a request that is not killed and does
not wait for Razorpay goes on (`Work`); strong, because it may wait for a row
lock that others take in turn, and PostgreSQL queues the waiters. Kills are
bounded, so they do not defeat it. Of the calls to Razorpay nothing is assumed:
`core/razorpay_client.py:5` sets no timeout, `organizers/utils.py:41` awaits
`asyncio.to_thread` without one, and neither does anything else end a call that
never returns. Such a call keeps the row lock of its organizer, and with it
every other submission of that organizer and every webhook for it, for ever.
`SubmissionsEnd` is therefore a statement about one organizer at a time: if no
call of its requests lasts for ever, each of its requests ends, whatever the
calls of other organizers do. Without that premise TLC finds the request that
waits. It was also checked with two organizers (no
faults, 890,179 states), an instance too large for a run.
`Migrations`: a command that is not killed goes on to its end (WF); alembic
waits for nothing but locks that requests hold for a moment.
`OrganizerOnboarding`, `RefreshTokens`, `OneTimeCodes` and `EventLifecycle`
assume none and state safety only: nothing in them waits.

Counterexamples. Each of these is a disagreement between the code and a
message, comment or test of the repository:

* `onboarding_late`: a submission sets the status without its synced time, so
  a webhook older than the submission is applied over it.
* `onboarding_retry`: after a lost answer the organizer is told to try again
  and then refused for being under review.
* `tokens_twice`: two overlapping uses of one refresh token both succeed.
* `codes_limit`: overlapping wrong guesses are counted as one.

Other races follow from the same unlocked reads, and are why some properties
are stated as narrowly as they are. Each shows in a run of the module named,
with the constant changed as said:

* of two overlapping submissions the second has read a row without account, and
  creates another one when the first has created its own and then failed at a
  later call, although
  `test_submit_kyc_retry_after_partial_failure_does_not_recreate_account` says
  of a retry that it does not; the account can end with the reference code of the
  other (`KycSubmission`, two submitters, `OneAtATime` FALSE, `MaxFaults` 0:
  `OneAccountPerOrganizer`, `SentCodeIsStored`);
* the last flush of a submission overwrites a status recorded while it was
  open, VERIFIED included, and an announcement for an account no row names yet
  is recorded and lost (`OrganizerOnboarding`, `Converged` without `hasty`);
* a submission answered "requested", a status whose event has no handler, leaves
  `kyc_requirements` as an older webhook set them, if the answer asks for
  nothing and the row the submission read did not either: the column does not
  differ from what was read, so the UPDATE does not name it. That is why
  `Converged` speaks of requirements only where the status has a handler;
  two events of one second have no order (`SameSecond` TRUE, `Converged`);
* a refresh in flight outlives a logout, and a login in flight outlives a reset
  (`RefreshTokens`: the sessions `cut` calls "busy" and "late");
* an update that saw a draft edits the published event, and a delete removes it,
  although the refusals say "Only draft events can be edited" and "Only draft
  events can be deleted" (`EventLifecycle`, `Patient` empty,
  `PublishedIsFinal`: PublishStart, PublishRead, PublishCount, UpdateRead,
  PublishCommit, UpdateCommit, after a tier was added);
* an upgrade killed or refused after the autocommit block leaves half of
  a2a0a37d3631 under the version before it; neither upgrade nor downgrade works
  on that schema (`Migrations`, the state `HalfUpgraded`, and `OnlyByHand`);
* the downgrade of 442eac7b06a4 is to "re-add the CHECK constraint on downgrade
  so schema fully reverses" (line 103 of that file), but line 105 names the
  constraint `CONSTRAINT_NAME_HERE`: the next upgrade and the next downgrade
  look for `ck_pan_number_format` and fail (`Migrations`, the state `Misnamed`).

Every property of a passing run has a mutant: an operator written next to the
definition it replaces, wrong in the way a plausible edit would be, under which
TLC finds that property violated.

## Proofs

All theorems hold for every value of the constants that satisfies the named
assumptions of the module.

**Ingestion.** `WebhookIngestProofs` proves, for any organizers, handlers,
events, times and crashes: `TypeOK`, `StatusesAgree`, `AckedAreRecorded`,
`EffectsAreRecorded`, and that ingestion implements `LatestWins` twice, for
product events (`ProductNewestWins`) and account events (`AccountNewestWins`).
`TypeOK` is inductive. `LockInv` says that a handler that applies holds the
lock of its target, that its copy is the row as committed, and that the account
of the row is the one its event names: so a flush leaves exactly what the
handler computed (`FlushCurrent`). `DedupInv` says that the event of an open
transaction is recorded by nobody and open in no other handler, and that
recorded events are distinct: so a commit adds a message that was never merged.
`ProductShowsNewest` and `AccountShowsNewest` say that a row shows a newest
recorded event of its kind. Their conjunction with `StatusesAgree`, `IndInv`,
is inductive; none of the parts is alone, since without the lock a stale copy
would overwrite a newer row, and without dedup a merge would repeat. Refinement
then needs one step per action: the commits of applied and ignored events are
`Merge`, everything else stutters.

**Sessions.** `RefreshTokensProofs` proves every property of the `tokens` run.
`SessionInv` ties a token to the login its session began with, so that what is
said of a session's user can be said of its tokens. `EndedInv` adds to
`QuietCutsHold` that no refresh in flight is of a session that was ended
quietly; `SecretInv` adds to `OldPasswordIsOut` that a login in flight that no
reset has overtaken holds the present password, and the like for refreshes;
`TurnsInv` adds to `OneLiveTokenInTurn` that a patient user has one request in
flight and that what a refresh has read is the only live token of its session.
Without the second halves no commit could be shown to be safe, because a commit
looks at nothing but what was read.

**Events.** `EventLifecycleProofs` proves every property of the `events` run.
`EventEffect` sums up what a step does to one event (nothing, publish, update,
delete) and `RequestEffect` what it does to the requests (one begins, goes on
or ends); the invariants need only these two. `TierInv` says that the tiers a
publish has counted are there as long as the event is; `BarInv` that no publish
in flight is of a barred organizer; `OwnerInv` that a request is for the owner
of what it writes; and `TurnInv` that what a patient organizer's request has
read is still so. `EventsPublishedIsFinal` concludes that the two refusals
quoted above tell the truth where every organizer is patient.

**Codes.** `OneTimeCodesProofs` proves every property of the `codes` run, for
any limit on the attempts. `RowInv` says that a row that can be used has
attempts left and that a confirmation's row is there. `CodeInv` is about codes
that nobody patient has to help with: a code is given to one user for one
purpose (`OneOwner`), is in one row (`OneRow`), is not drawn again while a row,
a mail or a request has it (`NotDrawn`), a request works on its own user's row
(`OwnRow`), and what can be used is unspent (`UnusedIsUnspent`). From it follow
`SpentIsSpent` and `VerifiedByMail`. `TurnInv` adds, for patient users, that
what a request has read of its row is still so, and that the attempts counted
in a row are the guesses made at its code; the three `...InTurn` properties are
parts of it.

**Submissions.** `KycSubmissionProofs` has two invariants. `SubmissionInv`
holds even when the requests of an organizer overlap: the two status columns of
every row go together (`RowsAgree`); a request's copy extends what it loaded,
changes no status before its last call, and has at every step the ids the step
needs (`Local`); the row has lost nothing since it was loaded (`Fills`); and a
request that waits for Razorpay has the row locked if it changed anything
(`LockInv`). That is enough for `FinishIsAccepted` and, with `CompleteInv`,
`ReviewedRowsAreComplete`: an UPDATE of the changed columns can mix two
requests' columns, but whatever it mixes is complete. `TurnInv` says what
`OneAtATime` adds: a request has loaded the ids as they still are
(`ReadIsCurrent`), a row's and a copy's ids are those of one account of the
organizer, created with that reference code (`TiedInv`), and the accounts of an
organizer are at most the faults, plus one if there is one in use (`CountInv`,
by cardinality). `Begins`, `Moves` and `Ends` sum up what a step of a request
can do; every invariant is proved against these three.

**Onboarding.** `OrganizerOnboardingProofs` composes the two proofs.
`SubmissionInv` and `TurnInv` are stated so that they survive a webhook's
change of a row's statuses (`OthersChangeRows`) and Razorpay's change of an
account (`OthersChangeAccounts`); the handlers' part of the ingestion proof,
`HandlersInv`, survives a request, because a request writes no row that
somebody else has locked (`LockedRowsKept`). The lemmas named `Same...` say
that the modules and the modules of theorems, instantiated separately, speak of
the same states and steps. On top of both stand `NewsInv` (only what Razorpay
announced is received, recorded or answered), `ActivationsInv` (an activated
product was announced, and an announced activation was not taken back) and, for
`OneAtATime`, `VerifiedInv`: "activated" on a row, or in a copy, was announced
for the account it names, and a submission about to write an older answer has
missed only activations that are hasty. The theorems are every safety property
of the `onboarding` run: `TypeOK` and `FinishIsAccepted` also where requests of
one organizer overlap, the others under `OneAtATime`, without which they are
false (see the counterexamples above). The module assumes that a session serves
submissions or deliveries, not both (`SessionsAssumption`); NULL is no
organizer, session, account, code or form.

`Converged` needs a second invariant, `NewestInv`, inductive relative to the
first, and that no two announcements carry one second (`SameSecond` FALSE: the
webhook handlers cannot order two that do). Its parts: announcements are in the
order of their times, and a delivery carries the time of its announcement
(`ClockInv`); the newest announcement about a product or an account is how
things are at Razorpay (`TruthInv`); the sync columns hold the time of some
announcement about the row's account (`SyncInv`), so that the newest one is
never ignored (the sync column of the product only that of one with a handler);
a stored product id stands for a product Razorpay has
(`ProductsInv`); before a row names an account nothing but the request writes
it, and what is announced about the status of an account no row names is hasty
(`UnnamedInv`); a request about to write the answer of its last call has what
was announced last, unless that came since and is hasty (`RequestsInv`); and a
row shows a status no older than the newest announcement that has a handler,
once that is recorded and not hasty, and carries its time, or it is the only
one there is; if nothing is newer, the row tells what it told, requirements
included (`ShownInv`). The clause about the time is the point of the proof: a
submission writes a status without its time (the
finding of `onboarding_late`), and what makes the rows right in the end all the
same is that the announcement of that very status is delivered too, or has no
handler and does no harm. For what has none the proof needs that the status
a submission writes was announced no earlier than the newest announcement that
has a handler and is not hasty (`Since`).

**Migrations.** `MigrationsProofs` proves every safety property of the
`migrations` run, for any positions commands are asked for and any number of
kills. The prover knows nothing of a recursive function, so the schemas are
written out once more (`Table`), shown to be a solution of the equation that
defines `SchemaAt` (`TableIsReached`: each is what its revision makes of the one
before), and then equal to it, from each revision to the next
(`SchemaAtTable`). `UpgradeSchema` and `DowngradeSchema` say that a revision
leads from one schema of the table to its neighbour whatever enum types linger,
except that downgrading 442eac7b06a4 leads to the misnamed check;
`NeedsAHand`, that in the two databases that need a hand the next revision, up
or down, has a statement that fails, from which `OnlyByHand` follows: once a
command has ended there, no command leads out (`StuckStays`).
`MigrationInv` says of the database, as committed and as the running command
sees it, that its schema follows its version in one of the three ways
`SchemaFollowsVersion` allows and that its rows have tables, columns and the
constraints' consent (`Sound`), and that a command stands between two parts only
inside a2a0a37d3631, with the enum values of the parts before (`BetweenParts`):
without that, the last part could be stamped on a schema that lacks one.
`HeadIsDeclared` is then a comparison of the last entry of
the table with the models, column by column (`ContentOfHead`).

Only model-checked: liveness (`EventuallyAcked`, `SubmissionsEnd`,
`UpgradeReachesHead`), which the prover cannot do under fairness.

## Not modelled

Signature checks, schemas, templates and configuration hold no state a property
here could see. Column encryption is transparent to every property but those of
`Migrations`, which tells ciphertext from plain text. `create_event`, and with
it becoming an organizer, is always rolled back (see above). SMTP is outside: a
queued mail may or may not arrive. Access tokens are checked by signature and
expire by themselves. Two events with identical bytes are one event. Offline SQL generation of alembic (`env.py`) touches no
database. In `EventLifecycle`, columns no decision reads are left out; a request
they would make the database refuse is a `Fail`. An `account.suspended` webhook
changes `razorpay_account_status` alone, and `get_verified_organizer` reads
`kyc_status` alone, so suspending an account does not stop its organizer from
publishing. Nor does suspending its product: `map_provider_status_to_kyc_status`
maps "suspended" to REJECTED, but `_EVENT_HANDLERS` has no entry for the event
that says so, and an organizer whose product a review suspends stays VERIFIED
with every delivery answered. The repository says nothing to the contrary, and
the models follow the code; `Converged` claims no more than that the row shows
nothing older.

## Plan

Every state-changing operation of the service is an action of some module, and
every safety and action property of a passing run is a theorem. What is left is
to shorten: the lemmas of `OrganizerOnboardingProofs` repeat for accounts what
they say of products.
