------------------------ MODULE EventLifecycleProofs ------------------------
(***************************************************************************)
(* Theorems about EventLifecycle, for all organizers, events, requests,    *)
(* tiers, times and edits.  EventEffect says what a step can do to one     *)
(* event; the invariants say what a request that has read still knows      *)
(* about the row it is going to write.                                     *)
(***************************************************************************)
EXTENDS EventLifecycle, TLAPS

(* A request that has read an event is for its owner.                      *)
OwnerInv ==
  \A q \in Requests :
    step[q] \notin {"idle", "publish"} /\ event[of[q]] # NULL => event[of[q]].owner = who[q]

(* The tiers a publish has counted are there as long as the event is.      *)
TierInv ==
  /\ PublishedHasTiers
  /\ TiersHaveEvents
  /\ \A q \in Requests : step[q] = "commit" => event[of[q]] = NULL \/ tiers[of[q]] # {}

BarInv ==
  /\ barred \cap verified = {}
  /\ \A q \in Requests : step[q] \in {"publish", "count", "commit"} => who[q] \notin barred

(* An organizer who waits has one request, and what it read is still so.   *)
TurnInv ==
  /\ \A q, r \in Requests : who[q] = who[r] /\ who[q] \in Patient => q = r
  /\ \A q \in Requests :
       step[q] \in {"count", "commit", "update", "delete"} /\ who[q] \in Patient =>
         event[of[q]] # NULL /\ event[of[q]].status = "DRAFT"

(* The dates an update writes are dates or NULL.                           *)
LEMMA MergedType ==
  ASSUME TypeOK, NEW q \in Requests, step[q] = "update", event[of[q]] # NULL
  PROVE  Merged(q) \in [Columns -> Times \cup {NULL}]
<1>1. event[of[q]].at \in [Columns -> Times \cup {NULL}] /\ edit[q] \in Edits
      BY DEF TypeOK, Event
<1>2. \A c \in DOMAIN edit[q] : edit[q][c] \in Times \cup {NULL}
      BY <1>1, EditsAssumption
<1> QED BY <1>1, <1>2 DEF Merged

(* What a step does to one request: nothing, it ends, it begins, or it     *)
(* goes on.                                                                *)
Idle(q)  == step'[q] = "idle" /\ who'[q] = NULL
Kept(q)  == step'[q] = step[q] /\ who'[q] = who[q] /\ of'[q] = of[q]
Begun(q) ==
  /\ event' = event /\ tiers' = tiers /\ verified' = verified /\ barred' = barred
  /\ \/ /\ step'[q] = "publish" /\ who'[q] \in verified /\ Free(who'[q])
     \/ /\ step'[q] \in {"update", "delete", "tier"} /\ of'[q] \in Events
        /\ event[of'[q]] # NULL /\ who'[q] = event[of'[q]].owner /\ Free(who'[q])
        /\ step'[q] # "tier" => event[of'[q]].status = "DRAFT"

Advanced(q) ==
  /\ event' = event /\ tiers' = tiers /\ verified' = verified /\ barred' = barred
  /\ who'[q] = who[q]
  /\ \/ /\ step[q] = "publish" /\ step'[q] = "count" /\ of'[q] \in Events
        /\ event[of'[q]] # NULL /\ event[of'[q]].owner = who[q]
        /\ event[of'[q]].status = "DRAFT"
     \/ /\ step[q] = "count" /\ step'[q] = "commit" /\ of'[q] = of[q]
        /\ tiers[of[q]] # {}

(* What a step does to one event and its tiers.                            *)
Same(e) == event'[e] = event[e] /\ tiers[e] \subseteq tiers'[e]

Publishes(q, e) ==
  /\ Idle(q)
  /\ step[q] = "commit" /\ of[q] = e /\ event[e] # NULL
  /\ event'[e] = [event[e] EXCEPT !.status = "PUBLISHED"] /\ tiers'[e] = tiers[e]

Updates(q, e) ==
  /\ Idle(q)
  /\ step[q] = "update" /\ of[q] = e /\ event[e] # NULL
  /\ Checks(Merged(q))
  /\ event'[e] = [event[e] EXCEPT !.at = Merged(q)] /\ tiers'[e] = tiers[e]

Deletes(q, e) ==
  /\ Idle(q)
  /\ step[q] = "delete" /\ of[q] = e
  /\ event'[e] = NULL /\ tiers'[e] = {}

LEMMA EventEffect ==
  ASSUME TypeOK, [Next]_vars, NEW e \in Events
  PROVE  \/ Same(e) /\ (tiers'[e] = tiers[e] \/ event[e] # NULL)
         \/ \E q \in Requests : Publishes(q, e) \/ Updates(q, e) \/ Deletes(q, e)
<1> DEFINE Goal == \/ Same(e) /\ (tiers'[e] = tiers[e] \/ event[e] # NULL)
                   \/ \E q \in Requests : Publishes(q, e) \/ Updates(q, e) \/ Deletes(q, e)
<1>1. ASSUME UNCHANGED <<event, tiers>> PROVE Goal
      BY <1>1 DEF Same
<1>2. ASSUME NEW q \in Requests, PublishCommit(q) PROVE Goal
      BY <1>2 DEF PublishCommit, Close, Become, Idle, Same, Publishes, TypeOK
<1>3. ASSUME NEW q \in Requests, UpdateCommit(q) PROVE Goal
      BY <1>3 DEF UpdateCommit, Close, Become, Idle, Same, Updates, TypeOK
<1>4. ASSUME NEW q \in Requests, DeleteCommit(q) PROVE Goal
      BY <1>4 DEF DeleteCommit, Close, Become, Idle, Same, Deletes, TypeOK
<1>5. ASSUME NEW q \in Requests, NEW n \in Names, TierCommit(q, n) PROVE Goal
      BY <1>5 DEF TierCommit, Same, TypeOK
<1> QED
  <2>1. CASE \E q \in Requests : PublishCommit(q) \/ UpdateCommit(q) \/ DeleteCommit(q)
        BY <1>2, <1>3, <1>4, <2>1
  <2>2. CASE \E q \in Requests, n \in Names : TierCommit(q, n)
        BY <1>5, <2>2
  <2>3. CASE UNCHANGED <<event, tiers>>
        BY <1>1, <2>3
  <2> QED BY <2>1, <2>2, <2>3
       DEF Next, CreateTier, PublishStart, PublishRead, PublishCount, UpdateRead, DeleteRead,
           TierRead, Opens, Fail, Review, Tick, vars

LEMMA RequestEffect ==
  ASSUME TypeOK, [Next]_vars
  PROVE  \/ \A q \in Requests : Kept(q)
         \/ \E q \in Requests :
              /\ \A r \in Requests \ {q} : Kept(r)
              /\ Idle(q) \/ Begun(q) \/ Advanced(q)
<1> DEFINE Moves(q) == /\ \A r \in Requests \ {q} : Kept(r)
                       /\ Idle(q) \/ Begun(q) \/ Advanced(q)
<1> USE DEF TypeOK, Become, Kept
<1>1. ASSUME NEW q \in Requests, NEW o \in Organizers, PublishStart(q, o) PROVE Moves(q)
      BY <1>1 DEF PublishStart, Begun, Free
<1>2. ASSUME NEW q \in Requests, NEW e \in Events, PublishRead(q, e) PROVE Moves(q)
  <2>1. event[e].status = "DRAFT"
        BY <1>2 DEF PublishRead, Event, EventStatus
  <2> QED BY <1>2, <2>1 DEF PublishRead, Advanced
<1>3. ASSUME NEW q \in Requests, PublishCount(q) PROVE Moves(q)
      BY <1>3 DEF PublishCount, Advanced
<1>4. ASSUME NEW q \in Requests, NEW e \in Events, NEW s, NEW x, Opens(q, e, s, x),
             \/ s \in {"update", "delete"} /\ event[e].status = "DRAFT"
             \/ s = "tier"
      PROVE  Moves(q)
      BY <1>4 DEF Opens, Begun, Free
<1>5. ASSUME NEW q \in Requests, Close(q) PROVE Moves(q)
      BY <1>5 DEF Close, Idle
<1>6. CASE UNCHANGED requestVars
      BY <1>6 DEF requestVars
<1> QED
  <2>1. CASE \E q \in Requests, e \in Events, x \in Edits :
               UpdateRead(q, e, x) \/ DeleteRead(q, e) \/ TierRead(q, e)
        BY ONLY <1>4, <2>1 DEF UpdateRead, DeleteRead, TierRead
  <2>2. CASE \E q \in Requests, e \in Events : DeleteRead(q, e) \/ TierRead(q, e)
        BY ONLY <1>4, <2>2 DEF DeleteRead, TierRead
  <2>3. CASE \E q \in Requests : Close(q)
        BY ONLY <1>5, <2>3
  <2>4. CASE \E q \in Requests :
               \/ \E o \in Organizers : PublishStart(q, o)
               \/ \E e \in Events : PublishRead(q, e)
               \/ PublishCount(q)
        BY ONLY <1>1, <1>2, <1>3, <2>4
  <2> QED BY ONLY [Next]_vars, <1>6, <2>1, <2>2, <2>3, <2>4
       DEF Next, CreateTier, PublishCommit, UpdateCommit, DeleteCommit, TierCommit, Fail,
           Review, Tick, vars, requestVars, Kept

-----------------------------------------------------------------------------
LEMMA TypeInductive == TypeOK /\ [Next]_vars => TypeOK'
<1> SUFFICES ASSUME TypeOK, [Next]_vars PROVE TypeOK'
    OBVIOUS
<1> DEFINE RequestsOK ==
      /\ step \in [Requests -> Steps]
      /\ who \in [Requests -> Organizers \cup {NULL}]
      /\ of \in [Requests -> Events \cup {NULL}]
      /\ copy \in [Requests -> Event \cup {NULL}]
      /\ edit \in [Requests -> Edits \cup {NULL}]
      /\ \A q \in Requests :
           /\ step[q] # "idle" => who[q] \in Organizers
           /\ step[q] \notin {"idle", "publish"} => of[q] \in Events /\ copy[q] \in Event
           /\ step[q] = "update" => edit[q] \in Edits
<1> DEFINE RowsOK ==
      /\ event \in [Events -> Event \cup {NULL}]
      /\ \A e \in Events :
           event[e] # NULL => NULL \notin {event[e].at["sale_start"], event[e].at["start"]}
<1> DEFINE RestOK ==
      /\ verified \subseteq Organizers /\ barred \subseteq Organizers
      /\ now \in Times /\ tiers \in [Events -> SUBSET Names]
<1>1. ASSUME NEW q \in Requests, NEW s \in Steps, NEW o \in Organizers, NEW e \in Events,
             NEW x \in Edits \cup {NULL},
             event[e] # NULL, Become(q, s, o, e, x), s = "update" => x \in Edits
      PROVE  RequestsOK'
  <2>1. event[e] \in Event /\ e # NULL
        BY <1>1, NullAssumption DEF TypeOK
  <2> QED BY <1>1, <2>1 DEF TypeOK, Become
<1>2. ASSUME NEW q \in Requests, Close(q) PROVE RequestsOK'
      BY <1>2 DEF TypeOK, Close, Become, Steps
<1>3. ASSUME NEW q \in Requests, NEW o \in Organizers, PublishStart(q, o) PROVE RequestsOK'
      BY <1>3 DEF TypeOK, PublishStart, Become, Steps
<1>4. ASSUME NEW q \in Requests, PublishCount(q) PROVE RequestsOK'
      BY <1>4 DEF TypeOK, PublishCount, Steps
<1>5. RequestsOK'
  <2>1. ASSUME NEW q \in Requests, NEW e \in Events, PublishRead(q, e) PROVE RequestsOK'
    <3>1. who[q] \in Organizers /\ event[e] # NULL /\ Become(q, "count", who[q], e, NULL)
          BY <2>1 DEF PublishRead, TypeOK
    <3> QED BY <1>1, <3>1 DEF Steps
  <2>2. ASSUME NEW q \in Requests, NEW e \in Events, NEW s \in Steps,
               NEW x \in Edits \cup {NULL}, Opens(q, e, s, x), s = "update" => x \in Edits
        PROVE  RequestsOK'
    <3>1. event[e].owner \in Organizers /\ event[e] # NULL
          BY <2>2 DEF Opens, TypeOK, Event
    <3> QED BY <1>1, <2>2, <3>1 DEF Opens
  <2>3. CASE \E q \in Requests, e \in Events : DeleteRead(q, e) \/ TierRead(q, e)
        BY ONLY <2>2, <2>3 DEF DeleteRead, TierRead, Steps
  <2>4. CASE \E q \in Requests, e \in Events, x \in Edits : UpdateRead(q, e, x)
        BY ONLY <2>2, <2>4 DEF UpdateRead, Steps
  <2>5. CASE \E q \in Requests : Close(q)
        BY ONLY <1>2, <2>5
  <2>6. CASE UNCHANGED requestVars
        BY <2>6 DEF TypeOK, requestVars
  <2> QED BY ONLY [Next]_vars, <1>3, <1>4, <2>1, <2>3, <2>4, <2>5, <2>6
       DEF Next, CreateTier, PublishCommit, UpdateCommit, DeleteCommit, TierCommit, Fail,
           Review, Tick, vars
<1>6. RowsOK'
  <2>1. event' = [e \in Events |-> event'[e]]
        BY DEF TypeOK, Next, CreateTier, PublishStart, PublishRead, PublishCount, PublishCommit,
               UpdateRead, UpdateCommit, DeleteRead, DeleteCommit, TierRead, TierCommit, Opens,
               Fail, Review, Tick, vars
  <2>2. ASSUME NEW e \in Events
        PROVE  /\ event'[e] \in Event \cup {NULL}
               /\ event'[e] # NULL =>
                    NULL \notin {event'[e].at["sale_start"], event'[e].at["start"]}
    <3>1. CASE event'[e] = event[e] \/ event'[e] = NULL
          BY <3>1 DEF TypeOK
    <3>2. CASE \E q \in Requests : Publishes(q, e)
      <4>1. event[e] \in Event /\ event'[e] = [event[e] EXCEPT !.status = "PUBLISHED"]
            BY <3>2 DEF Publishes, TypeOK
      <4>2. event'[e] \in Event /\ event'[e].at = event[e].at
            BY ONLY <4>1 DEF Event, EventStatus
      <4> QED BY <3>2, <4>2 DEF TypeOK, Publishes
    <3>3. ASSUME NEW q \in Requests, Updates(q, e)
          PROVE  /\ event'[e] \in Event
                 /\ NULL \notin {event'[e].at["sale_start"], event'[e].at["start"]}
      <4>1. event[e] \in Event /\ event'[e] = [event[e] EXCEPT !.at = Merged(q)]
            BY <3>3 DEF Updates, TypeOK
      <4>2. Merged(q) \in [Columns -> Times \cup {NULL}]
            BY <3>3, MergedType DEF Updates
      <4>3. event'[e] \in Event /\ event'[e].at = Merged(q)
            BY ONLY <4>1, <4>2 DEF Event
      <4> QED BY <3>3, <4>3 DEF Updates, Checks
    <3> QED BY <3>1, <3>2, <3>3, EventEffect DEF Same, Deletes
  <2>3. event' \in [Events -> Event \cup {NULL}]
        BY ONLY <2>1, <2>2
  <2> QED BY ONLY <2>2, <2>3
<1>7. RestOK'
  <2>1. ASSUME NEW q \in Requests, DeleteCommit(q) \/ \E n \in Names : TierCommit(q, n)
        PROVE  RestOK'
    <3>1. CASE DeleteCommit(q)
          BY <3>1 DEF DeleteCommit, TypeOK
    <3>2. CASE \E n \in Names : TierCommit(q, n)
          BY <3>2 DEF TierCommit, TypeOK
    <3> QED BY <2>1, <3>1, <3>2
  <2>2. ASSUME NEW o \in Organizers, Review(o) PROVE RestOK'
    <3>1. verified' \subseteq Organizers /\ barred' \subseteq Organizers
          BY <2>2 DEF Review, TypeOK
    <3> QED BY <2>2, <3>1 DEF Review, TypeOK
  <2>3. CASE Tick
        BY <2>3 DEF Tick, TypeOK
  <2>4. CASE UNCHANGED <<verified, now, tiers, barred>>
        BY <2>4 DEF TypeOK
  <2> QED BY ONLY [Next]_vars, <2>1, <2>2, <2>3, <2>4
       DEF Next, CreateTier, PublishStart, PublishRead, PublishCount, PublishCommit,
           UpdateRead, UpdateCommit, DeleteRead, TierRead, Opens, Fail, vars
<1> QED BY ONLY <1>5, <1>6, <1>7 DEF TypeOK

(* Every reachable state of EventLifecycle has the declared types: a row   *)
(* in the table always has its two dates.                                  *)
THEOREM EventsTypeCorrect == Spec => []TypeOK
<1>1. Init => TypeOK
      BY NullAssumption DEF Init, TypeOK, Steps, Checks
<1> QED BY <1>1, TypeInductive, PTL DEF Spec

-----------------------------------------------------------------------------
LEMMA TierInductive == TypeOK /\ TierInv /\ [Next]_vars => TierInv'
<1> SUFFICES ASSUME TypeOK, TierInv, [Next]_vars PROVE TierInv'
    OBVIOUS
<1>1. ASSUME NEW e \in Events
      PROVE  /\ Published(e)' => tiers'[e] # {}
             /\ tiers'[e] # {} => event'[e] # NULL
             /\ event[e] = NULL \/ tiers[e] # {} => event'[e] = NULL \/ tiers'[e] # {}
  <2>1. CASE Same(e) /\ (tiers'[e] = tiers[e] \/ event[e] # NULL)
        BY <2>1 DEF Same, TierInv, PublishedHasTiers, TiersHaveEvents, Published
  <2>2. ASSUME NEW q \in Requests, Publishes(q, e)
        PROVE  event'[e] # NULL /\ tiers'[e] # {}
    <3>1. event[e] \in Event /\ event'[e] = [event[e] EXCEPT !.status = "PUBLISHED"]
          BY <2>2 DEF Publishes, TypeOK
    <3>2. event'[e] \in Event
          BY ONLY <3>1 DEF Event, EventStatus
    <3> QED BY <2>2, <3>2, NullAssumption DEF Publishes, TierInv
  <2>3. ASSUME NEW q \in Requests, Updates(q, e)
        PROVE  event'[e] # NULL /\ event'[e].status = event[e].status
    <3>1. event[e] \in Event /\ event'[e] = [event[e] EXCEPT !.at = Merged(q)]
          BY <2>3 DEF Updates, TypeOK
    <3>2. Merged(q) \in [Columns -> Times \cup {NULL}]
          BY <2>3, MergedType DEF Updates
    <3>3. event'[e] \in Event /\ event'[e].status = event[e].status
          BY ONLY <3>1, <3>2 DEF Event
    <3> QED BY <3>3, NullAssumption
  <2>4. CASE \E q \in Requests : Updates(q, e)
    <3>1. tiers'[e] = tiers[e] /\ event[e] # NULL
          BY <2>4 DEF Updates
    <3> QED BY <2>3, <2>4, <3>1 DEF TierInv, PublishedHasTiers, TiersHaveEvents, Published
  <2>5. CASE \E q \in Requests : Deletes(q, e)
        BY <2>5 DEF Deletes, Published
  <2> QED BY <2>1, <2>2, <2>4, <2>5, EventEffect
<1>2. ASSUME NEW q \in Requests, step'[q] = "commit"
      PROVE  event'[of'[q]] = NULL \/ tiers'[of'[q]] # {}
  <2>1. CASE Kept(q)
    <3>1. step[q] = "commit" /\ of'[q] = of[q] /\ of[q] \in Events
          BY <1>2, <2>1 DEF Kept, TypeOK
    <3> QED BY <1>1, <3>1 DEF TierInv
  <2>2. CASE Advanced(q)
        BY <1>2, <2>2 DEF Advanced
  <2> QED BY <1>2, <2>1, <2>2, RequestEffect DEF Idle, Begun
<1> QED BY <1>1, <1>2 DEF TierInv, PublishedHasTiers, TiersHaveEvents

LEMMA TierInvariant == Spec => []TierInv
<1>1. Init => TierInv
  <2> SUFFICES ASSUME Init PROVE TierInv
      OBVIOUS
  <2>1. \A e \in Events : event[e].status = "DRAFT"
        BY DEF Init
  <2>2. \A e \in Events : tiers[e] = {}
        BY DEF Init
  <2>3. \A q \in Requests : step[q] = "idle"
        BY DEF Init
  <2> QED BY <2>1, <2>2, <2>3 DEF TierInv, PublishedHasTiers, TiersHaveEvents, Published
<1> QED BY <1>1, TierInductive, EventsTypeCorrect, PTL DEF Spec

(* A published event has a tier: the count of a publish stays true until   *)
(* its commit, because tiers go only with their event.                     *)
THEOREM EventsPublishedHasTiers == Spec => []PublishedHasTiers
<1>1. TierInv => PublishedHasTiers
      BY DEF TierInv
<1> QED BY <1>1, TierInvariant, PTL

(* Deletes and new tiers in any order leave no tier without its event.     *)
THEOREM EventsTiersHaveEvents == Spec => []TiersHaveEvents
<1>1. TierInv => TiersHaveEvents
      BY DEF TierInv
<1> QED BY <1>1, TierInvariant, PTL

-----------------------------------------------------------------------------
(* No request takes back a publication that it did not see.                *)
THEOREM EventsNeverUnpublished == Spec => NeverUnpublished
<1>1. ASSUME TypeOK, [Next]_vars, NEW e \in Events, Published(e), event'[e] # NULL
      PROVE  Published(e)'
  <2>1. event[e] \in Event
        BY <1>1 DEF TypeOK, Published
  <2>2. CASE event'[e] = event[e]
        BY <1>1, <2>2 DEF Published
  <2>3. ASSUME NEW q \in Requests, Publishes(q, e) \/ Updates(q, e) PROVE event'[e].status = "PUBLISHED"
    <3>1. CASE Publishes(q, e)
          BY <2>1, <3>1 DEF Publishes, Event
    <3>2. CASE Updates(q, e)
          BY <1>1, <2>1, <3>2 DEF Updates, Event, Published
    <3> QED BY <2>3, <3>1, <3>2
  <2> QED BY <1>1, <2>2, <2>3, EventEffect DEF Published, Same, Deletes
<1>2. TypeOK /\ [Next]_vars =>
        [\A e \in Events : Published(e) /\ event'[e] # NULL => Published(e)']_vars
      BY <1>1
<1> QED BY <1>2, EventsTypeCorrect, PTL DEF Spec, NeverUnpublished

-----------------------------------------------------------------------------
(* A row that stays keeps its owner.                                       *)
LEMMA OwnerKept ==
  ASSUME TypeOK, [Next]_vars, NEW e \in Events, event'[e] # NULL
  PROVE  event[e] # NULL /\ event'[e].owner = event[e].owner
<1>1. CASE event'[e] = event[e]
      BY <1>1
<1>2. ASSUME NEW q \in Requests, Publishes(q, e) \/ Updates(q, e)
      PROVE  event[e] # NULL /\ event'[e].owner = event[e].owner
  <2>1. event[e] \in Event /\ event[e] # NULL
        BY <1>2 DEF Publishes, Updates, TypeOK
  <2> QED BY <1>2, <2>1 DEF Publishes, Updates, Event
<1> QED BY <1>1, <1>2, EventEffect DEF Same, Deletes

LEMMA OwnerInductive == TypeOK /\ OwnerInv /\ [Next]_vars => OwnerInv'
<1> SUFFICES ASSUME TypeOK, OwnerInv, [Next]_vars, NEW q \in Requests,
                    step'[q] \notin {"idle", "publish"}, event'[of'[q]] # NULL
             PROVE  event'[of'[q]].owner = who'[q]
    BY DEF OwnerInv
<1>1. CASE Kept(q)
  <2>1. /\ of'[q] = of[q] /\ who'[q] = who[q] /\ of[q] \in Events
        /\ step[q] \notin {"idle", "publish"}
        BY <1>1 DEF Kept, TypeOK
  <2> QED BY <2>1, OwnerKept DEF OwnerInv
<1>2. CASE Begun(q)
      BY <1>2 DEF Begun
<1>3. CASE Advanced(q)
      BY <1>3 DEF Advanced, OwnerInv
<1> QED BY <1>1, <1>2, <1>3, RequestEffect DEF Idle

LEMMA OwnerInvariant == Spec => []OwnerInv
<1>1. Init => OwnerInv
      BY DEF Init, OwnerInv
<1> QED BY <1>1, OwnerInductive, EventsTypeCorrect, PTL DEF Spec

LEMMA BarInductive == TypeOK /\ BarInv /\ [Next]_vars => BarInv'
<1> SUFFICES ASSUME TypeOK, BarInv, [Next]_vars PROVE BarInv'
    OBVIOUS
<1>1. ASSUME NEW o \in Organizers, Review(o) PROVE BarInv'
  <2>1. step' = step /\ who' = who
        BY <1>1 DEF Review, requestVars
  <2>2. CASE o \in verified /\ ~Publishing(o)
    <3>1. verified' = verified \ {o} /\ barred' = barred \cup {o}
          BY <1>1, <2>2 DEF Review
    <3>2. \A q \in Requests : step[q] \in {"publish", "count", "commit"} => who[q] # o
          BY <2>2 DEF Publishing
    <3> QED BY <2>1, <3>1, <3>2 DEF BarInv
  <2>3. CASE ~(o \in verified /\ ~Publishing(o))
    <3>1. barred' = barred \ {o} /\ verified' \subseteq verified \cup {o}
          BY <1>1, <2>3 DEF Review
    <3> QED BY <2>1, <3>1 DEF BarInv
  <2> QED BY <2>2, <2>3
<1>2. CASE verified' = verified /\ barred' = barred
  <2>1. ASSUME NEW q \in Requests, step'[q] \in {"publish", "count", "commit"}
        PROVE  who'[q] \notin barred
    <3>1. CASE Kept(q)
          BY <2>1, <3>1 DEF Kept, BarInv
    <3>2. CASE Begun(q)
          BY <2>1, <3>2 DEF Begun, BarInv
    <3>3. CASE Advanced(q)
          BY <2>1, <3>3 DEF Advanced, BarInv
    <3> QED BY <2>1, <3>1, <3>2, <3>3, RequestEffect DEF Idle
  <2> QED BY <1>2, <2>1 DEF BarInv
<1> QED BY <1>1, <1>2
     DEF Next, CreateTier, PublishStart, PublishRead, PublishCount, PublishCommit, UpdateRead,
         UpdateCommit, DeleteRead, DeleteCommit, TierRead, TierCommit, Opens, Fail, Tick, vars

(* Losing VERIFIED stops publishing, except for a publish in flight.       *)
THEOREM EventsBarredDoNotPublish == Spec => BarredDoNotPublish
<1>1. Init => BarInv
      BY DEF Init, BarInv
<1>2. Spec => []BarInv
      BY <1>1, BarInductive, EventsTypeCorrect, PTL DEF Spec
<1>3. ASSUME TypeOK, OwnerInv, BarInv, [Next]_vars, NEW e \in Events,
             Published(e)', ~Published(e)
      PROVE  event[e].owner \notin barred
  <2>1. CASE event'[e] = event[e] \/ event'[e] = NULL
        BY <1>3, <2>1 DEF Published
  <2>2. ASSUME NEW q \in Requests, Publishes(q, e) PROVE event[e].owner \notin barred
        BY <1>3, <2>2 DEF Publishes, OwnerInv, BarInv
  <2>3. ASSUME NEW q \in Requests, Updates(q, e) PROVE FALSE
    <3>1. event[e] \in Event /\ event[e] # NULL
          BY <2>3, <1>3 DEF Updates, TypeOK
    <3>2. event'[e].status = event[e].status
          BY <2>3, <3>1 DEF Updates, Event
    <3> QED BY <1>3, <3>1, <3>2 DEF Published
  <2> QED BY <1>3, <2>1, <2>2, <2>3, EventEffect DEF Same, Deletes
<1>4. TypeOK /\ OwnerInv /\ BarInv /\ [Next]_vars =>
        [\A e \in Events : Published(e)' /\ ~Published(e) => event[e].owner \notin barred]_vars
      BY <1>3
<1> QED BY <1>2, <1>4, EventsTypeCorrect, OwnerInvariant, PTL DEF Spec, BarredDoNotPublish

-----------------------------------------------------------------------------
LEMMA TurnInductive == TypeOK /\ OwnerInv /\ TurnInv /\ [Next]_vars => TurnInv'
<1> SUFFICES ASSUME TypeOK, OwnerInv, TurnInv, [Next]_vars PROVE TurnInv'
    OBVIOUS
<1>1. NULL \notin Patient
      BY NullAssumption, PatientAssumption
<1>2. ASSUME NEW q \in Requests, NEW r \in Requests, who'[q] = who'[r], who'[q] \in Patient
      PROVE  q = r
  <2>1. CASE \A s \in Requests : Kept(s)
        BY <1>2, <2>1 DEF Kept, TurnInv
  <2>2. ASSUME NEW s \in Requests, \A t \in Requests \ {s} : Kept(t), Idle(s) PROVE q = r
        BY <1>1, <1>2, <2>2 DEF Kept, Idle, TurnInv
  <2>3. ASSUME NEW s \in Requests, \A t \in Requests \ {s} : Kept(t), Begun(s) PROVE q = r
    <3>1. Free(who'[s])
          BY <2>3 DEF Begun
    <3> QED BY <1>2, <2>3, <3>1 DEF Kept, Free, TurnInv
  <2>4. ASSUME NEW s \in Requests, \A t \in Requests \ {s} : Kept(t), Advanced(s) PROVE q = r
        BY <1>2, <2>4 DEF Kept, Advanced, TurnInv
  <2> QED BY <2>1, <2>2, <2>3, <2>4, RequestEffect
<1>3. ASSUME NEW q \in Requests, step'[q] \in {"count", "commit", "update", "delete"},
             who'[q] \in Patient
      PROVE  event'[of'[q]] # NULL /\ event'[of'[q]].status = "DRAFT"
  <2>1. CASE Begun(q)
        BY <1>3, <2>1 DEF Begun
  <2>2. CASE Advanced(q)
        BY <1>3, <2>2 DEF Advanced, TurnInv
  <2>3. CASE Kept(q)
    <3>1. /\ step[q] = step'[q] /\ of'[q] = of[q] /\ who[q] \in Patient /\ of[q] \in Events
          /\ event[of[q]] # NULL /\ event[of[q]].status = "DRAFT"
          /\ event[of[q]].owner = who[q]
          BY <1>3, <2>3 DEF Kept, TypeOK, TurnInv, OwnerInv
    <3>2. ASSUME NEW r \in Requests,
                 \/ Publishes(r, of[q]) \/ Updates(r, of[q]) \/ Deletes(r, of[q])
          PROVE  FALSE
      <4>1. /\ step[r] \in {"commit", "update", "delete"} /\ of[r] = of[q]
            /\ step'[r] = "idle"
            BY <3>2 DEF Publishes, Updates, Deletes, Idle
      <4>2. who[r] = who[q]
            BY <3>1, <4>1 DEF OwnerInv
      <4>3. r = q
            BY <3>1, <4>2 DEF TurnInv
      <4> QED BY <1>3, <4>1, <4>3
    <3>3. event'[of[q]] = event[of[q]]
          BY <3>1, <3>2, EventEffect DEF Same
    <3> QED BY <3>1, <3>3
  <2> QED BY <1>3, <2>1, <2>2, <2>3, RequestEffect DEF Idle
<1> QED BY <1>2, <1>3 DEF TurnInv

LEMMA TurnInvariant == Spec => []TurnInv
<1>1. Init => TurnInv
  <2>1. Init => \A q \in Requests : step[q] = "idle" /\ who[q] = NULL
        BY DEF Init
  <2> QED BY <2>1, NullAssumption, PatientAssumption DEF TurnInv
<1> QED BY <1>1, TurnInductive, EventsTypeCorrect, OwnerInvariant, PTL DEF Spec

(* A published event of an organizer who waits for each answer neither     *)
(* changes nor goes, whatever other organizers, the webhooks and the clock *)
(* do meanwhile.                                                           *)
THEOREM EventsPublishedIsFinalInTurn == Spec => PublishedIsFinalInTurn
<1>1. ASSUME TypeOK, OwnerInv, TurnInv, [Next]_vars, NEW e \in Events,
             Published(e), event[e].owner \in Patient
      PROVE  event'[e] = event[e]
  <2>1. ASSUME NEW q \in Requests, Publishes(q, e) \/ Updates(q, e) \/ Deletes(q, e) PROVE FALSE
    <3>1. step[q] \in {"commit", "update", "delete"} /\ of[q] = e /\ event[e] # NULL
          BY <1>1, <2>1 DEF Publishes, Updates, Deletes, Published
    <3>2. who[q] = event[e].owner
          BY <1>1, <3>1 DEF OwnerInv
    <3> QED BY <1>1, <3>1, <3>2 DEF TurnInv, Published
  <2> QED BY <1>1, <2>1, EventEffect DEF Same
<1>2. TypeOK /\ OwnerInv /\ TurnInv /\ [Next]_vars =>
        [\A e \in Events :
           Published(e) /\ event[e].owner \in Patient => event'[e] = event[e]]_vars
      BY <1>1
<1> QED BY <1>2, EventsTypeCorrect, OwnerInvariant, TurnInvariant, PTL
     DEF Spec, PublishedIsFinalInTurn

(* Where every organizer waits, what the two refusals say is so: only      *)
(* drafts are edited or deleted.                                           *)
THEOREM EventsPublishedIsFinal ==
  ASSUME Patient = Organizers
  PROVE  Spec => PublishedIsFinal
<1>1. TypeOK /\ [\A e \in Events :
                   Published(e) /\ event[e].owner \in Patient => event'[e] = event[e]]_vars
        => [\A e \in Events : Published(e) => event'[e] = event[e]]_vars
  <2>1. TypeOK => \A e \in Events : Published(e) => event[e].owner \in Organizers
        BY DEF TypeOK, Published, Event
  <2> QED BY <2>1
<1> QED BY <1>1, EventsTypeCorrect, EventsPublishedIsFinalInTurn, PTL
     DEF PublishedIsFinalInTurn, PublishedIsFinal
=============================================================================
