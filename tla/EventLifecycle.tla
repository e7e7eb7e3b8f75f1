--------------------------- MODULE EventLifecycle ---------------------------
(***************************************************************************)
(* Events of organizers: POST /events/{id}/publish, PATCH and DELETE       *)
(* /events/{id}, and POST /api/events/{id}/tiers, beside KYC statuses and  *)
(* a clock that change meanwhile.  Every handler reads without a lock,     *)
(* decides, and writes with one flush and commit at the end, so what it    *)
(* decided on can be stale.                                                *)
(*                                                                         *)
(* create_event is not here: it reads data.max_tickets_per_user, which     *)
(* EventCreate does not have, and every call of it is rolled back.  The    *)
(* drafts are rows that are there.  main.py does not include the tickets   *)
(* router; CreateTier is its handler all the same.                         *)
(***************************************************************************)
EXTENDS Naturals, FiniteSets

CONSTANTS
  Organizers,
  Events,       (* ids of events rows                                      *)
  Requests,     (* database sessions that serve the requests               *)
  Names,        (* names of ticket tiers                                   *)
  Times,        (* instants the clock and the date columns take            *)
  Edits,        (* bodies of PATCH: the columns set and their new values   *)
  NULL,
  Patient       (* organizers who wait for one answer before the next      *)
                (* request; requests of the others overlap                 *)

Columns == {"sale_start", "sale_end", "start"}

ASSUME TimesAssumption   == Times \subseteq Nat
ASSUME PatientAssumption == Patient \subseteq Organizers
ASSUME EditsAssumption   ==
  \A x \in Edits : DOMAIN x \subseteq Columns /\ \A c \in DOMAIN x : x[c] \in Times \cup {NULL}

VARIABLES
  verified,     (* the organizers whose kyc_status is VERIFIED             *)
  now,
  event,        (* event[e]: the events row, or NULL once deleted          *)
  tiers,        (* tiers[e]: the names of its ticket_tiers rows            *)
  step,         (* what each request does next                             *)
  who,          (* the organizer each request is for                       *)
  of,           (* the event it is about                                   *)
  copy,         (* the events row as the session loaded it                 *)
  edit,         (* the body of an update                                   *)
  barred        (* organizers who lost VERIFIED while no publish of theirs *)
                (* was in flight and have not had it back; a ghost         *)

requestVars == <<step, who, of, copy, edit>>
vars == <<verified, now, event, tiers, requestVars, barred>>

EventStatus == {"DRAFT", "PUBLISHED", "CANCELLED", "COMPLETED"}

(* event_end_time, max_tickets_per_user and the texts are left out: no     *)
(* decision reads them.                                                    *)
Event == [owner : Organizers, status : EventStatus,
          at : [Columns -> Times \cup {NULL}]]

ASSUME NullAssumption == NULL \notin Event \cup Organizers \cup Events \cup Edits \cup Times

Steps == {"idle", "publish", "count", "commit", "update", "delete", "tier"}

(* Mutant of Checks: a date may be set to NULL.                            *)
ChecksNullable(at) ==
  \/ NULL \in {at["sale_start"], at["start"]}
  \/ /\ at["sale_start"] <= at["start"]
     /\ at["sale_end"] # NULL => at["sale_end"] <= at["start"]

(* NOT NULL and the CHECK constraints on the dates of a row.               *)
Checks(at) ==
  /\ NULL \notin {at["sale_start"], at["start"]}
  /\ at["sale_start"] <= at["start"]
  /\ at["sale_end"] # NULL => at["sale_end"] <= at["start"]

TypeOK ==
  /\ verified \subseteq Organizers
  /\ now \in Times
  /\ event \in [Events -> Event \cup {NULL}]
  /\ tiers \in [Events -> SUBSET Names]
  /\ step \in [Requests -> Steps]
  /\ who \in [Requests -> Organizers \cup {NULL}]
  /\ of \in [Requests -> Events \cup {NULL}]
  /\ copy \in [Requests -> Event \cup {NULL}]
  /\ edit \in [Requests -> Edits \cup {NULL}]
  /\ barred \subseteq Organizers
  /\ \A e \in Events :
       event[e] # NULL => NULL \notin {event[e].at["sale_start"], event[e].at["start"]}
  /\ \A q \in Requests :
       /\ step[q] # "idle" => who[q] \in Organizers
       /\ step[q] \notin {"idle", "publish"} => of[q] \in Events /\ copy[q] \in Event
       /\ step[q] = "update" => edit[q] \in Edits

Init ==
  /\ verified \in SUBSET Organizers
  /\ now \in Times
  /\ event \in [Events -> {r \in Event : r.status = "DRAFT" /\ Checks(r.at)}]
  /\ tiers = [e \in Events |-> {}]
  /\ step = [q \in Requests |-> "idle"]
  /\ who = [q \in Requests |-> NULL]
  /\ of = [q \in Requests |-> NULL]
  /\ copy = [q \in Requests |-> NULL]
  /\ edit = [q \in Requests |-> NULL]
  /\ barred = {}

-----------------------------------------------------------------------------
Free(o) == o \in Patient => \A q \in Requests : who[q] # o

Become(q, s, o, e, x) ==
  /\ step' = [step EXCEPT ![q] = s]
  /\ who' = [who EXCEPT ![q] = o]
  /\ of' = [of EXCEPT ![q] = e]
  /\ copy' = [copy EXCEPT ![q] = IF e = NULL THEN NULL ELSE event[e]]
  /\ edit' = [edit EXCEPT ![q] = x]

Close(q) == Become(q, "idle", NULL, NULL, NULL)

(* fetch_event_by_id and the comparison with the caller's profile.         *)
Opens(q, e, s, x) ==
  /\ step[q] = "idle"
  /\ event[e] # NULL
  /\ Free(event[e].owner)
  /\ Become(q, s, event[e].owner, e, x)
  /\ UNCHANGED <<verified, now, event, tiers, barred>>

NotBefore(e, t) == event[e].at["start"] >= t /\ event[e].at["sale_start"] >= t

-----------------------------------------------------------------------------
(* Mutant of PublishStart: any organizer may publish.                      *)
PublishStartUnverified(q, o) ==
  /\ step[q] = "idle"
  /\ Free(o)
  /\ Become(q, "publish", o, NULL, NULL)
  /\ UNCHANGED <<verified, now, event, tiers, barred>>

(* The dependency get_verified_organizer.                                  *)
PublishStart(q, o) ==
  /\ step[q] = "idle"
  /\ Free(o)
  /\ o \in verified
  /\ Become(q, "publish", o, NULL, NULL)
  /\ UNCHANGED <<verified, now, event, tiers, barred>>

(* The event is the caller's, a draft, and neither it nor its sale has     *)
(* begun.                                                                  *)
PublishRead(q, e) ==
  /\ step[q] = "publish"
  /\ event[e] # NULL
  /\ event[e].owner = who[q]
  /\ event[e].status \notin {"PUBLISHED", "CANCELLED", "COMPLETED"}
  /\ NotBefore(e, now)
  /\ Become(q, "count", who[q], e, NULL)
  /\ UNCHANGED <<verified, now, event, tiers, barred>>

(* Mutant of PublishCount: nobody looks whether there are tiers.           *)
PublishCountNone(q) ==
  /\ step[q] = "count"
  /\ step' = [step EXCEPT ![q] = "commit"]
  /\ UNCHANGED <<verified, now, event, tiers, who, of, copy, edit, barred>>

PublishCount(q) ==
  /\ step[q] = "count"
  /\ tiers[of[q]] # {}
  /\ step' = [step EXCEPT ![q] = "commit"]
  /\ UNCHANGED <<verified, now, event, tiers, who, of, copy, edit, barred>>

(* UPDATE events SET status: only this column differs from the copy.  If   *)
(* the row is gone the UPDATE matches nothing, which the session takes as  *)
(* an error, and the request fails.                                        *)
PublishCommit(q) ==
  /\ step[q] = "commit"
  /\ event[of[q]] # NULL
  /\ event' = [event EXCEPT ![of[q]].status = "PUBLISHED"]
  /\ Close(q)
  /\ UNCHANGED <<verified, now, tiers, barred>>

-----------------------------------------------------------------------------
(* Mutant of UpdateRead: a published event can be edited too.              *)
UpdateReadAny(q, e, x) == DOMAIN x # {} /\ Opens(q, e, "update", x)

UpdateRead(q, e, x) ==
  /\ event[e] # NULL /\ event[e].status = "DRAFT"
  /\ DOMAIN x # {}
  /\ Opens(q, e, "update", x)

(* The dates after the UPDATE: a column that was set to another value than *)
(* the session loaded is written, the others keep what the row has.        *)
Merged(q) ==
  [c \in Columns |->
     IF c \in DOMAIN edit[q] /\ edit[q][c] # copy[q].at[c]
       THEN edit[q][c] ELSE event[of[q]].at[c]]

(* Mutant of UpdateCommit: every column of the copy is written.            *)
UpdateCommitWholeRow(q) ==
  /\ step[q] = "update"
  /\ event[of[q]] # NULL
  /\ Checks(Merged(q))
  /\ event' = [event EXCEPT ![of[q]] = [copy[q] EXCEPT !.at = Merged(q)]]
  /\ Close(q)
  /\ UNCHANGED <<verified, now, tiers, barred>>

(* The database checks the row as it will be.  The update does not look    *)
(* at the status again.                                                    *)
UpdateCommit(q) ==
  /\ step[q] = "update"
  /\ event[of[q]] # NULL
  /\ Checks(Merged(q))
  /\ event' = [event EXCEPT ![of[q]].at = Merged(q)]
  /\ Close(q)
  /\ UNCHANGED <<verified, now, tiers, barred>>

-----------------------------------------------------------------------------
DeleteRead(q, e) ==
  /\ event[e] # NULL /\ event[e].status = "DRAFT"
  /\ Opens(q, e, "delete", NULL)

(* The tiers the session loads are deleted by it, later ones by ON DELETE  *)
(* CASCADE.  Deleting a row that is gone is no error.                      *)
DeleteCommit(q) ==
  /\ step[q] = "delete"
  /\ event' = [event EXCEPT ![of[q]] = NULL]
  /\ tiers' = [tiers EXCEPT ![of[q]] = {}]
  /\ Close(q)
  /\ UNCHANGED <<verified, now, barred>>

-----------------------------------------------------------------------------
TierRead(q, e) ==
  /\ event[e] # NULL /\ event[e].status \in {"DRAFT", "PUBLISHED"}
  /\ NotBefore(e, now)
  /\ Opens(q, e, "tier", NULL)

(* Mutant of TierCommit: no foreign key.                                   *)
TierCommitAnyway(q, n) ==
  /\ step[q] = "tier"
  /\ tiers' = [tiers EXCEPT ![of[q]] = @ \cup {n}]
  /\ Close(q)
  /\ UNCHANGED <<verified, now, event, barred>>

(* The INSERT meets the foreign key and the unique name; otherwise the     *)
(* request fails.                                                          *)
TierCommit(q, n) ==
  /\ step[q] = "tier"
  /\ event[of[q]] # NULL
  /\ n \notin tiers[of[q]]
  /\ tiers' = [tiers EXCEPT ![of[q]] = @ \cup {n}]
  /\ Close(q)
  /\ UNCHANGED <<verified, now, event, barred>>

(* The request is refused by a guard or by a constraint, or killed: its    *)
(* transaction is rolled back.                                             *)
Fail(q) ==
  /\ step[q] # "idle"
  /\ Close(q)
  /\ UNCHANGED <<verified, now, event, tiers, barred>>

-----------------------------------------------------------------------------
Publishing(o) == \E q \in Requests : step[q] \in {"publish", "count", "commit"} /\ who[q] = o

(* A webhook changes the KYC status of o.                                  *)
Review(o) ==
  /\ verified' = IF o \in verified THEN verified \ {o} ELSE verified \cup {o}
  /\ barred' = IF o \in verified /\ ~Publishing(o) THEN barred \cup {o} ELSE barred \ {o}
  /\ UNCHANGED <<now, event, tiers, requestVars>>

Tick ==
  /\ now' \in Times
  /\ now' > now
  /\ UNCHANGED <<verified, event, tiers, requestVars, barred>>

CreateTier(q) ==
  \/ \E e \in Events : TierRead(q, e)
  \/ \E n \in Names : TierCommit(q, n)

Next ==
  \/ \E q \in Requests :
       \/ \E o \in Organizers : PublishStart(q, o)
       \/ \E e \in Events : PublishRead(q, e)
       \/ PublishCount(q)
       \/ PublishCommit(q)
       \/ \E e \in Events, x \in Edits : UpdateRead(q, e, x)
       \/ UpdateCommit(q)
       \/ \E e \in Events : DeleteRead(q, e)
       \/ DeleteCommit(q)
       \/ CreateTier(q)
       \/ Fail(q)
  \/ \E o \in Organizers : Review(o)
  \/ Tick

Spec == Init /\ [][Next]_vars

-----------------------------------------------------------------------------
Published(e) == event[e] # NULL /\ event[e].status = "PUBLISHED"

(* Tickets of a published event can be bought: it has a tier, whatever     *)
(* deletes and other requests overlapped the count that publish_event did. *)
PublishedHasTiers == \A e \in Events : Published(e) => tiers[e] # {}

(* No tier outlives its event, though create_ticket_tier may commit after  *)
(* a delete that did not see the tier.                                     *)
TiersHaveEvents == \A e \in Events : tiers[e] # {} => event[e] # NULL

(* An update or a second publish that read a draft does not take back what *)
(* another request published.                                              *)
NeverUnpublished ==
  [][\A e \in Events : Published(e) /\ event'[e] # NULL => Published(e)']_vars

(* An organizer who loses VERIFIED while no publish of theirs is in flight *)
(* publishes nothing until it is given back.                               *)
BarredDoNotPublish ==
  [][\A e \in Events : Published(e)' /\ ~Published(e) => event[e].owner \notin barred]_vars

(* "Only draft events can be edited", "Only draft events can be deleted".  *)
PublishedIsFinal ==
  [][\A e \in Events : Published(e) => event'[e] = event[e]]_vars

(* That holds for an organizer who waits for each answer, whatever the     *)
(* others, the webhooks and the clock do.                                  *)
PublishedIsFinalInTurn ==
  [][\A e \in Events :
       Published(e) /\ event[e].owner \in Patient => event'[e] = event[e]]_vars
=============================================================================
