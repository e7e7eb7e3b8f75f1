------------------------------ MODULE Migrations ------------------------------
(***************************************************************************)
(* alembic upgrade and downgrade over the sixteen revisions of this        *)
(* repository, run by env.py: one transaction for a whole command, except  *)
(* that revision a2a0a37d3631 needs an autocommit block for ALTER TYPE,    *)
(* which commits everything before it.  A command can fail at a statement  *)
(* the schema or the rows refuse, or be killed anywhere; the application   *)
(* writes rows before, between and after.                                  *)
(*                                                                         *)
(* The schema is a set of objects: a table with what CREATE TABLE and its  *)
(* indexes give it, an enum type, a value added to one, and the columns    *)
(* and constraints that come and go together later on.  An object has two  *)
(* names where one name stands for different things at two revisions.      *)
(***************************************************************************)
EXTENDS Naturals, Sequences, FiniteSets

CONSTANTS
  Targets,      (* positions in Chain a command is asked to move to        *)
  NULL,         (* SQL NULL, and a profile that is not there               *)
  MaxKills      (* bound: commands killed                                  *)

VARIABLES
  db,           (* the database, as committed                              *)
  tx,           (* the database as the running command sees it             *)
  cmd,          (* the running command, or Idle                            *)
  part,         (* the next part of the revision it is at                  *)
  kills         (* commands killed so far                                  *)

vars == <<db, tx, cmd, part, kills>>

Chain ==
  <<"9ccae35b7725", "a7721e7bad93", "2b73f9871004", "143faa3eb61e",
    "4f21e4535a10", "9dff4578abab", "89f339d9a0f1", "ec878d6eafcc",
    "67f18eca7282", "74a1bd83c6ef", "618486e2583b", "ef6cfdcf1ade",
    "a2a0a37d3631", "442eac7b06a4", "1191ed9af378", "69b62f9d85cb">>

HeadRevision == Len(Chain)

(* The position of a revision; 0 is the database alembic has not touched.  *)
At(rev) == CHOOSE i \in 1..HeadRevision : Chain[i] = rev

ASSUME TargetsAssumption  == Targets \subseteq 0..HeadRevision
ASSUME MaxKillsAssumption == MaxKills \in Nat

-----------------------------------------------------------------------------
(* Statements.                                                             *)

(* What one part of a revision does: objects it drops and adds, those it   *)
(* makes or drops only if needed, tables that get a NOT NULL column        *)
(* without a default, and values of kyc_provider_status of which an UPDATE *)
(* replaces one by the other.                                              *)
Nothing == [drops |-> {}, adds |-> {}, ensures |-> {}, forgets |-> {}, filled |-> {},
            updates |-> {}]

Adds(objects)        == [Nothing EXCEPT !.adds = objects]
Drops(objects)       == [Nothing EXCEPT !.drops = objects]
Swaps(before, after) == [Nothing EXCEPT !.drops = before, !.adds = after]

Runs(p, schema) ==
  /\ p.drops \subseteq schema
  /\ p.adds \cap (schema \ p.drops) = {}

Applied(p, schema) ==
  ((schema \ p.drops) \cup p.adds \cup p.ensures) \ p.forgets

-----------------------------------------------------------------------------
(* The revisions: sequences of parts.  A commit separates two parts.       *)

EmptyRevision == <<Nothing>>

(* DROP TABLE takes the columns and constraints added later along, and     *)
(* leaves the types.                                                       *)
UpA7721   == <<Adds({"users", "user_role"})>>
DownA7721 == <<[Drops({"users"}) EXCEPT !.forgets = {"users.is_verified"}]>>

Up2b73   == <<Adds({"refresh_tokens"})>>
Down2b73 == <<Drops({"refresh_tokens"})>>

Up143f   == <<Adds({"otp_verifications", "one code per user"})>>
Down143f == <<[Drops({"otp_verifications", "one code per user"})
                EXCEPT !.forgets = {"otp.purpose", "otp.attempt_count"}]>>

Up4f21   == <<[Adds({"users.is_verified"}) EXCEPT !.filled = {"users"}]>>
Down4f21 == <<Drops({"users.is_verified"})>>

Up9dff   == <<[Swaps({"one code per user"}, {"one code per purpose", "otp.purpose"})
                EXCEPT !.ensures = {"otppurpose"}, !.filled = {"otp_verifications"}]>>
Down9dff == <<[Swaps({"one code per purpose", "otp.purpose"}, {"one code per user"})
                EXCEPT !.forgets = {"otppurpose"}]>>

Up89f3   == <<Adds({"otp.attempt_count"})>>
Down89f3 == <<Drops({"otp.attempt_count"})>>

Up6184 ==
  <<Adds({"organizer_profiles", "payout_account_id", "payout check on business_name",
          "events", "ticket_tiers", "kyc_status", "event_status"})>>
Down6184 ==
  <<[Drops({"ticket_tiers", "events", "organizer_profiles"})
      EXCEPT !.forgets = {"payout_account_id", "payout check on business_name"}]>>

AccountAndStatus(length) ==
  IF length = "long" THEN {"razorpay_account_id(255)", "kyc_provider_status(50)"}
                     ELSE {"razorpay_account_id(30)", "kyc_provider_status(30)"}

(* Mutant of DownEf6c: the columns are dropped IF EXISTS.                  *)
DownEf6cIfExists ==
  <<[Adds({"payout_account_id"}) EXCEPT !.forgets = AccountAndStatus("long") \cup {"kyc times"}]>>

UpEf6c   == <<Swaps({"payout_account_id"}, AccountAndStatus("long") \cup {"kyc times"})>>
DownEf6c == <<Swaps(AccountAndStatus("long") \cup {"kyc times"}, {"payout_account_id"})>>

KycObjects == {"kyc columns", "secrets as varchar", "unique ids", "value checks"}
StatusObjects == {"kyc_status index", "payout check on ids", "status checks",
                  "ck_pan_number_format"}

(* Mutant of UpA2a0: the old check of VERIFIED is not dropped before the   *)
(* new one of the same name is made.                                       *)
UpA2a0KeepsCheck ==
  <<[Swaps(AccountAndStatus("long"), AccountAndStatus("short") \cup KycObjects)
       EXCEPT !.updates = {<<"created", "requested">>, <<"rejected", NULL>>}],
    [Nothing EXCEPT !.ensures = {"kyc_status.IN_REVIEW"}],
    [Nothing EXCEPT !.ensures = {"kyc_status.ACTION_REQUIRED"}],
    Adds(StatusObjects \cup {"payout check on business_name"})>>

(* Everything a2a0a37d3631 does before its autocommit block, the two       *)
(* statements in it, each a transaction, and what comes after it.          *)
UpA2a0 ==
  <<[Swaps(AccountAndStatus("long"), AccountAndStatus("short") \cup KycObjects)
       EXCEPT !.updates = {<<"created", "requested">>, <<"rejected", NULL>>}],
    [Nothing EXCEPT !.ensures = {"kyc_status.IN_REVIEW"}],
    [Nothing EXCEPT !.ensures = {"kyc_status.ACTION_REQUIRED"}],
    Swaps({"payout check on business_name"}, StatusObjects)>>

DownA2a0 ==
  <<[Swaps(StatusObjects \cup KycObjects \cup AccountAndStatus("short"),
           AccountAndStatus("long") \cup {"payout check on business_name"})
       EXCEPT !.updates = {<<"requested", "created">>}]>>

(* Mutant of Up442e: the format check of pan_number stays.                 *)
Up442eKeepsCheck == <<Swaps({"secrets as varchar"}, {"secrets as text"})>>

Up442e   == <<Swaps({"ck_pan_number_format", "secrets as varchar"}, {"secrets as text"})>>
Down442e == <<Swaps({"secrets as text"}, {"CONSTRAINT_NAME_HERE", "secrets as varchar"})>>

Up1191   == <<Adds({"razorpay_webhook_events"})>>
Down1191 == <<Drops({"razorpay_webhook_events"})>>

Up69b6   == <<Adds({"sync times"})>>
Down69b6 == <<Drops({"sync times"})>>

Up ==
  <<EmptyRevision, UpA7721, Up2b73, Up143f, Up4f21, Up9dff, Up89f3, EmptyRevision,
    EmptyRevision, EmptyRevision, Up6184, UpEf6c, UpA2a0, Up442e, Up1191, Up69b6>>

Down ==
  <<EmptyRevision, DownA7721, Down2b73, Down143f, Down4f21, Down9dff, Down89f3, EmptyRevision,
    EmptyRevision, EmptyRevision, Down6184, DownEf6c, DownA2a0, Down442e, Down1191, Down69b6>>

-----------------------------------------------------------------------------
(* Rows: whether there are users; the purposes of the unused codes of one  *)
(* of them; an organizer, with what the constraints tell apart: business_  *)
(* name, and the ids and details of the KYC form (`plain` as typed or      *)
(* `cipher` as EncryptedString stores them, too long for VARCHAR).         *)

Purposes == {"EMAIL_VERIFICATION", "PASSWORD_RESET"}

Profile == [kyc      : {"PENDING", "IN_REVIEW", "VERIFIED", "REJECTED"},
            provider : {"created", "requested", "activated", "rejected", NULL},
            named    : BOOLEAN,
            details  : {"none", "plain", "cipher"}]

Empty == [schema |-> {}, version |-> 0, users |-> FALSE, codes |-> {}, profile |-> NULL]

(* A row passes the constraints there are.                                 *)
Passes(schema, r) ==
  /\ "payout check on business_name" \in schema =>
       (r.kyc = "VERIFIED" => r.named)
  /\ "status checks" \in schema =>
       /\ r.kyc = "VERIFIED" =>
            r.details # "none" /\ r.provider \in {"activated", NULL}
       /\ r.provider # NULL \/ r.kyc = "PENDING"
       /\ r.provider = "activated" => r.kyc = "VERIFIED"
  /\ "value checks" \in schema => r.provider \in {"requested", "activated", NULL}
  /\ "kyc_status.IN_REVIEW" \in schema \/ r.kyc # "IN_REVIEW"
  /\ "secrets as varchar" \in schema => r.details # "cipher"

(* Rows only where there are tables and columns for them.                  *)
Placed(d) ==
  /\ d.users => "users" \in d.schema
  /\ d.codes # {} => "otp_verifications" \in d.schema /\ d.users
  /\ d.profile # NULL =>
       /\ "organizer_profiles" \in d.schema /\ d.users
       /\ d.profile.provider # NULL => "kyc times" \in d.schema
       /\ d.profile.details # "none" => "kyc columns" \in d.schema

Fits(d) ==
  /\ "one code per user" \in d.schema => Cardinality(d.codes) <= 1
  /\ d.profile # NULL => Passes(d.schema, d.profile)

NoRows(d) == ~d.users /\ d.codes = {} /\ d.profile = NULL

(* What is left of the rows when columns and tables are gone and the       *)
(* UPDATEs of p have run.                                                  *)
Updated(p, provider) ==
  IF \E u \in p.updates : u[1] = provider
    THEN (CHOOSE u \in p.updates : u[1] = provider)[2]
    ELSE provider

Kept(p, schema, r) ==
  IF r = NULL \/ "organizer_profiles" \notin schema THEN NULL
  ELSE [r EXCEPT
          !.provider = IF "kyc times" \in schema
                         THEN Updated(p, @) ELSE NULL,
          !.details  = IF "kyc columns" \in schema THEN @ ELSE "none"]

After(p, d) ==
  LET schema == Applied(p, d.schema) IN
    [d EXCEPT !.schema  = schema,
              !.users   = @ /\ "users" \in schema,
              !.codes   = IF "otp_verifications" \in schema THEN @ ELSE {},
              !.profile = Kept(p, schema, @)]

(* Mutant of Possible: constraints are added without looking at the rows.  *)
PossibleUnvalidated(p, d) ==
  /\ Runs(p, d.schema)
  /\ "users" \in p.filled => ~d.users
  /\ "otp_verifications" \in p.filled => d.codes = {}

(* Every statement of p succeeds.                                          *)
Possible(p, d) ==
  /\ Runs(p, d.schema)
  /\ "users" \in p.filled => ~d.users
  /\ "otp_verifications" \in p.filled => d.codes = {}
  /\ Fits(After(p, d))

-----------------------------------------------------------------------------
(* Commands.                                                               *)

Idle == [way |-> "none", to |-> 0]

TypeOK ==
  /\ \A d \in {db, tx} : d.version \in 0..HeadRevision /\ Placed(d) /\ Fits(d)
  /\ cmd \in [way : {"none", "up", "down"}, to : 0..HeadRevision]
  /\ part \in 1..4
  /\ kills \in 0..MaxKills
  /\ cmd = Idle => tx = db

Init ==
  /\ db = Empty
  /\ tx = Empty
  /\ cmd = Idle
  /\ part = 1
  /\ kills = 0

Begin(to) ==
  /\ cmd = Idle
  /\ to # db.version
  /\ cmd' = [way |-> IF to > db.version THEN "up" ELSE "down", to |-> to]
  /\ UNCHANGED <<db, tx, part, kills>>

(* The transaction is rolled back and the command ends.                    *)
Abort ==
  /\ tx' = db
  /\ cmd' = Idle
  /\ part' = 1
  /\ UNCHANGED db

(* Mutant of Upgrade: a revision is stamped before it runs.                *)
UpgradeStampsFirst ==
  LET v == tx.version + (IF part = 1 THEN 1 ELSE 0) IN
    /\ cmd.way = "up" /\ (tx.version < cmd.to \/ part > 1)
    /\ LET p == Up[v][part]  last == part = Len(Up[v]) IN
         IF Possible(p, tx)
           THEN /\ tx' = [After(p, tx) EXCEPT !.version = v]
                /\ part' = IF last THEN 1 ELSE part + 1
                /\ db' = IF last THEN db ELSE tx'
                /\ UNCHANGED cmd
           ELSE Abort
    /\ UNCHANGED kills

(* The next part of the next revision; the revision is stamped after its   *)
(* last part, and the parts before that are committed as they end.         *)
Upgrade ==
  LET v == tx.version + 1 IN
    /\ cmd.way = "up" /\ tx.version < cmd.to
    /\ LET p == Up[v][part]  last == part = Len(Up[v]) IN
         IF Possible(p, tx)
           THEN /\ tx' = [After(p, tx) EXCEPT !.version = IF last THEN v ELSE @]
                /\ part' = IF last THEN 1 ELSE part + 1
                /\ db' = IF last THEN db ELSE tx'
                /\ UNCHANGED cmd
           ELSE Abort
    /\ UNCHANGED kills

Downgrade ==
  LET v == tx.version IN
    /\ cmd.way = "down" /\ v > cmd.to
    /\ LET p == Down[v][1] IN
         IF Possible(p, tx)
           THEN tx' = [After(p, tx) EXCEPT !.version = v - 1] /\ UNCHANGED <<db, cmd, part>>
           ELSE Abort
    /\ UNCHANGED kills

Commit ==
  /\ cmd # Idle /\ tx.version = cmd.to
  /\ db' = tx
  /\ cmd' = Idle
  /\ UNCHANGED <<tx, part, kills>>

Kill ==
  /\ cmd # Idle
  /\ kills < MaxKills
  /\ kills' = kills + 1
  /\ Abort

(* What the application of the schema's revision stores as details.        *)
Typed(schema) == {"none", IF "secrets as text" \in schema THEN "cipher" ELSE "plain"}

(* The application of whichever revision writes what the schema takes; a   *)
(* statement of the command waits for rows it has locked, and a write it   *)
(* has not reached yet counts as one before it.                            *)
WriteRows ==
  /\ tx = db
  /\ \/ \E u \in BOOLEAN : db' = [db EXCEPT !.users = u]
     \/ \E c \in SUBSET Purposes : db' = [db EXCEPT !.codes = c]
     \/ \E r \in Profile : r.details \in Typed(db.schema) /\ db' = [db EXCEPT !.profile = r]
     \/ db' = [db EXCEPT !.profile = NULL]
  /\ Placed(db') /\ Fits(db')
  /\ tx' = db'
  /\ UNCHANGED <<cmd, part, kills>>

Next ==
  \/ \E to \in Targets : Begin(to)
  \/ Upgrade
  \/ Downgrade
  \/ Commit
  \/ Kill
  \/ WriteRows

(* A command that is not killed goes on to its end.                        *)
Spec == Init /\ [][Next]_vars /\ WF_vars(Upgrade \/ Downgrade \/ Commit)

-----------------------------------------------------------------------------
(* Column by column, what the objects of a schema are in the migrations.   *)
On(table, names) == {<<table, n>> : n \in names}

Content(x) ==
  CASE x = "users" ->
         On("users", {"id", "name", "email", "password_hashed", "role", "created_at",
                      "updated_at", "ix_users_email"})
    [] x = "users.is_verified" -> On("users", {"is_verified"})
    [] x = "refresh_tokens" ->
         On(x, {"id", "user_id", "hashed_token", "user_agent", "user_ip", "created_at",
                "revoked_at", "expires_at", "ix_refresh_tokens_user_id"})
    [] x = "otp_verifications" ->
         On(x, {"id", "user_id", "email", "otp_hashed", "is_used", "created_at", "expires_at",
                "ix_otp_verifications_email", "ix_otp_verifications_user_id"})
    [] x = "otp.purpose" -> On("otp_verifications", {"purpose"})
    [] x = "otp.attempt_count" -> On("otp_verifications", {"attempt_count"})
    [] x = "organizer_profiles" ->
         On(x, {"id", "user_id", "kyc_status", "business_name", "total_events_hosted",
                "hold_period_days", "risk_flags", "created_at", "updated_at"})
    [] x = "kyc times" ->
         On("organizer_profiles", {"kyc_requirements", "kyc_submitted_at", "kyc_activated_at"})
    [] x = "kyc columns" ->
         On("organizer_profiles",
            {"razorpay_account_status", "razorpay_reference_code", "razorpay_stakeholder_id",
             "razorpay_product_id", "legal_business_name", "business_type", "contact_email",
             "contact_phone"})
    [] x = "sync times" ->
         On("organizer_profiles", {"kyc_provider_status_synced_at",
                                   "razorpay_account_status_synced_at"})
    [] x = "events" ->
         On(x, {"id", "organizer_id", "title", "description", "venue_name", "venue_address",
                "city", "status", "event_start_time", "event_end_time", "sale_start_at",
                "sale_end_at", "max_tickets_per_user", "created_at", "updated_at",
                "ck_event_end_after_start", "ck_max_tickets_positive",
                "ck_sales_close_by_event_start", "ck_sales_open_before_event_starts",
                "ix_events_city", "ix_events_organizer_id", "ix_events_status"})
    [] x = "ticket_tiers" ->
         On(x, {"id", "event_id", "name", "description", "total_capacity", "sold_count",
                "price", "created_at", "updated_at", "ck_ticket_tier_price_non_negative",
                "ck_sold_count_within_capacity", "ck_ticket_tier_capacity_positive",
                "uq_event_ticket_tier_name", "ix_ticket_tiers_event_id"})
    [] x = "razorpay_webhook_events" ->
         On(x, {"id", "event_hash", "event_type", "razorpay_account_id", "payload",
                "received_at", "ix_razorpay_webhook_events_event_hash",
                "ix_razorpay_webhook_events_event_type",
                "ix_razorpay_webhook_events_razorpay_account_id"})
    [] OTHER -> On("", {x})

(* The columns, indexes and constraints each model declares, with the      *)
(* types and values of its enums.                                          *)
DeclaredUser ==
  On("users", {"id", "name", "email", "ix_users_email", "password_hashed", "role",
               "is_verified", "created_at", "updated_at"})
  \cup On("", {"user_role"})
DeclaredRefreshToken ==
  On("refresh_tokens", {"id", "user_id", "ix_refresh_tokens_user_id", "hashed_token",
               "user_agent", "user_ip", "created_at", "revoked_at", "expires_at"})
DeclaredOTPVerification ==
  On("otp_verifications", {"id", "user_id", "ix_otp_verifications_user_id", "email",
               "ix_otp_verifications_email", "purpose", "otp_hashed", "is_used",
               "created_at", "attempt_count", "expires_at"})
  \cup On("", {"otppurpose", "one code per purpose"})
DeclaredOrganizerProfile ==
  On("organizer_profiles", {"id", "user_id", "kyc_status", "razorpay_account_status",
               "kyc_requirements", "razorpay_reference_code", "razorpay_stakeholder_id",
               "razorpay_product_id", "legal_business_name", "business_type",
               "contact_email", "contact_phone", "kyc_submitted_at", "kyc_activated_at",
               "kyc_provider_status_synced_at", "razorpay_account_status_synced_at",
               "business_name", "total_events_hosted", "hold_period_days", "risk_flags",
               "created_at", "updated_at"})
  \cup On("", {"kyc_status", "kyc_status.IN_REVIEW", "kyc_status.ACTION_REQUIRED",
               "kyc_status index", "razorpay_account_id(30)", "kyc_provider_status(30)",
               "unique ids", "secrets as text", "payout check on ids", "status checks"})
DeclaredEvent ==
  On("events", {"id", "organizer_id", "ix_events_organizer_id", "title", "description",
               "venue_name", "venue_address", "city", "ix_events_city", "status",
               "ix_events_status", "event_start_time", "event_end_time", "sale_start_at",
               "sale_end_at", "max_tickets_per_user", "created_at", "updated_at",
               "ck_event_end_after_start", "ck_sales_open_before_event_starts",
               "ck_sales_close_by_event_start", "ck_max_tickets_positive"})
  \cup On("", {"event_status"})
DeclaredTicketTier ==
  On("ticket_tiers", {"id", "event_id", "ix_ticket_tiers_event_id", "name",
               "description", "total_capacity", "sold_count", "price", "created_at",
               "updated_at", "uq_event_ticket_tier_name", "ck_ticket_tier_capacity_positive",
               "ck_sold_count_within_capacity", "ck_ticket_tier_price_non_negative"})
DeclaredRazorpayWebhookEvent ==
  On("razorpay_webhook_events", {"id", "event_hash",
               "ix_razorpay_webhook_events_event_hash", "event_type",
               "ix_razorpay_webhook_events_event_type", "razorpay_account_id",
               "ix_razorpay_webhook_events_razorpay_account_id", "payload", "received_at"})

Declared ==
  DeclaredUser \cup DeclaredRefreshToken \cup DeclaredOTPVerification
    \cup DeclaredOrganizerProfile \cup DeclaredEvent \cup DeclaredTicketTier
    \cup DeclaredRazorpayWebhookEvent

(* Whatever upgrades, downgrades, failures and killed commands led there,  *)
(* a database at the last revision has exactly the columns, indexes,       *)
(* constraints and types the models declare, plus the CHECKs of the values *)
(* of the three enums kept as text, which the models do not ask for.       *)
HeadIsDeclared ==
  db.version = HeadRevision =>
    UNION {Content(x) : x \in db.schema} = Declared \cup On("", {"value checks"})

(* The schema each revision leaves when it is reached by upgrades alone.   *)
SchemaAt[v \in 0..HeadRevision] ==
  IF v = 0 THEN {}
  ELSE LET before == SchemaAt[v - 1]
           after[k \in 0..Len(Up[v])] ==
             IF k = 0 THEN before ELSE Applied(Up[v][k], after[k - 1])
       IN after[Len(Up[v])]

(* Enum types and values that outlive the downgrade of what made them.     *)
Lingering(v) ==
  (IF v < At("a7721e7bad93") THEN {"user_role"} ELSE {}) \cup
  (IF v < At("618486e2583b") THEN {"kyc_status", "event_status"} ELSE {}) \cup
  (IF v < At("a2a0a37d3631") THEN {"kyc_status.IN_REVIEW", "kyc_status.ACTION_REQUIRED"} ELSE {})

FirstHalf == Applied(UpA2a0[1], SchemaAt[At("ef6cfdcf1ade")])

(* alembic_version tells the truth: the schema is the one its revision     *)
(* leaves, but for lingering types, and for two databases that need a      *)
(* hand: one whose upgrade ended inside or after the autocommit block of   *)
(* a2a0a37d3631, and one where 442eac7b06a4 was downgraded, which names    *)
(* the restored check CONSTRAINT_NAME_HERE.                                *)
HalfUpgraded ==
  db.version = At("ef6cfdcf1ade") /\ FirstHalf \subseteq db.schema

Misnamed ==
  db.version = At("a2a0a37d3631") /\ "CONSTRAINT_NAME_HERE" \in db.schema

SchemaFollowsVersion ==
  \/ db.schema \ Lingering(db.version) = SchemaAt[db.version]
  \/ HalfUpgraded /\ db.schema \ Lingering(db.version) = FirstHalf
  \/ Misnamed /\ db.schema \ {"CONSTRAINT_NAME_HERE"}
                   = SchemaAt[At("a2a0a37d3631")] \ {"ck_pan_number_format"}

(* Once no command is running on one of these two databases, no command    *)
(* changes its schema or its version any more: each fails at a statement   *)
(* of the first revision it runs, up or down, and leaves nothing behind.   *)
Stuck == part = 1 /\ tx = db /\ (HalfUpgraded \/ Misnamed)

OnlyByHand ==
  [][Stuck => Stuck' /\ db'.schema = db.schema /\ db'.version = db.version]_vars

(* An upgrade to the last revision of a database without rows, as the      *)
(* tests of this repository start with one, gets there unless it is        *)
(* killed, from every revision that upgrades alone led to.                 *)
Promising(k) ==
  /\ cmd = [way |-> "up", to |-> HeadRevision]
  /\ tx = db /\ db.schema = SchemaAt[db.version]
  /\ NoRows(db) /\ kills = k

UpgradeReachesHead ==
  \A k \in 0..MaxKills :
    Promising(k) ~> db.version = HeadRevision \/ ~NoRows(db) \/ kills > k
=============================================================================
