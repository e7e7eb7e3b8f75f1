------------------------- MODULE WebhookIngestProofs -------------------------
(***************************************************************************)
(* Theorems about WebhookIngest for any number of organizers, accounts,    *)
(* events, handlers and crashes: the safety properties the runs of         *)
(* MCWebhookIngest check, and that both streams of events implement        *)
(* LatestWins.                                                             *)
(***************************************************************************)
EXTENDS WebhookIngest, OrganizerRowProofs

(* Nothing is stored that was not written under the row's lock: a handler  *)
(* about to write holds the lock, and what it read is still the row.       *)
LockInv ==
  \A w \in Handlers : pc[w] = "apply" =>
    /\ holder[target[w]] = w
    /\ loaded[w] = profile[target[w]]
    /\ Routes(job[w].evt, target[w])

(* The unique index on event_hash, across committed and open transactions. *)
DedupInv ==
  /\ \A s, t \in seen : s.evt = t.evt => s = t
  /\ \A w \in Handlers : pc[w] # "idle" => ~Recorded(job[w].evt)
  /\ \A v, w \in Handlers :
       pc[v] # "idle" /\ pc[w] # "idle" /\ job[v].evt = job[w].evt => v = w

(* What the columns of a row show is what a newest recorded event says.    *)
ProductNewestAt(o) ==
  IF ProductSeen(o) = {}
    THEN profile[o].provider_synced_at = Never
    ELSE \E n \in ProductSeen(o) :
           /\ \A m \in ProductSeen(o) : m.at <= n.at
           /\ profile[o].provider_synced_at = n.at
           /\ profile[o].provider_status = n.evt.status
           /\ profile[o].requirements = n.evt.requirements

AccountNewestAt(o) ==
  IF AccountSeen(o) = {}
    THEN profile[o].account_synced_at = Never
    ELSE \E n \in AccountSeen(o) :
           /\ \A m \in AccountSeen(o) : m.at <= n.at
           /\ profile[o].account_synced_at = n.at
           /\ profile[o].account_status = AccountContent(n.evt)

ProductShowsNewest == \A o \in Organizers : ProductNewestAt(o)
AccountShowsNewest == \A o \in Organizers : AccountNewestAt(o)

USE TimesAssumption, NullAssumption, NullStatusAssumption, HandlersAssumption,
    EventsAssumption, MaxCrashesAssumption

-----------------------------------------------------------------------------
(* Type correctness.                                                       *)

LEMMA AppliedRowType ==
  ASSUME NEW r \in Row, NEW e \in Events, NEW at \in Times, ~Ignored(r, e, at)
  PROVE  Apply(r, e, at) \in Row
<1>1. at \in Nat
  OBVIOUS
<1>2. e \in EventBody
  OBVIOUS
<1>3. CASE e.kind \in ProductKinds
  <2>1. e.status \in ProviderStatus
    BY <1>3 DEF Ignored
  <2>2. MapStatus[e.status] \in KYCStatus
    BY <2>1, MapStatusType
  <2>3. e.requirements \in Requirements \cup {NULL}
    BY <1>2 DEF EventBody
  <2>4. (r.activated \/ e.status = "activated") \in BOOLEAN
    OBVIOUS
  <2>5. ApplyProduct(r, e, at) \in Row
    BY <1>1, <2>1, <2>2, <2>3, <2>4, SetProductColumns DEF ApplyProduct
  <2>. QED
    BY <1>3, <2>5 DEF Apply
<1>4. CASE e.kind \notin ProductKinds
  <2>1. (IF e.kind = "account.suspended" THEN "suspended" ELSE "created") \in AccountStatus
    BY DEF AccountStatus
  <2>2. ApplyAccount(r, e, at) \in Row
    BY <1>1, <2>1, SetAccountColumns DEF ApplyAccount
  <2>. QED
    BY <1>4, <2>2 DEF Apply
<1>. QED
  BY <1>3, <1>4

LEMMA EventTimesType ==
  ASSUME NEW e \in Events PROVE EventTimes(e) \subseteq Times
BY DEF EventTimes, EventBody

LEMMA UnlockType ==
  ASSUME NEW w \in Handlers, TypeOK
  PROVE  Unlock(w) \in [Organizers -> Sessions \cup {NULL}]
BY DEF Unlock, TypeOK

LEMMA GoIdleType ==
  ASSUME NEW w \in Handlers, TypeOK, GoIdle(w)
  PROVE  /\ pc' \in [Handlers -> {"idle", "route", "apply"}]
         /\ job' \in [Handlers -> Job \cup {NULL}]
         /\ target' \in [Handlers -> Organizers \cup {NULL}]
         /\ loaded' \in [Handlers -> Row \cup {NULL}]
         /\ holder' \in [Organizers -> Sessions \cup {NULL}]
         /\ \A v \in Handlers :
              /\ pc'[v] # "idle" => job'[v] \in Job
              /\ pc'[v] = "apply" => target'[v] \in Organizers /\ loaded'[v] \in Row
<1>1. holder' \in [Organizers -> Sessions \cup {NULL}]
  BY UnlockType DEF GoIdle
<1>. QED
  BY <1>1 DEF GoIdle, TypeOK

LEMMA CommitType ==
  ASSUME NEW w \in Handlers, TypeOK, Commit(w), pc[w] # "idle"
  PROVE  seen' \subseteq Job /\ acked' \subseteq Events
BY DEF Commit, TypeOK, Job

LEMMA TypeStep == TypeOK /\ [Next]_vars => TypeOK'
<1> SUFFICES ASSUME TypeOK, [Next]_vars PROVE TypeOK'
  OBVIOUS
<1>1. ASSUME NEW w \in Handlers, NEW e \in Events, ReceiveNew(w, e) PROVE TypeOK'
  <2>1. PICK at \in EventTimes(e) : job' = [job EXCEPT ![w] = [evt |-> e, at |-> at]]
    BY <1>1 DEF ReceiveNew
  <2>2. [evt |-> e, at |-> at] \in Job
    BY <2>1, EventTimesType DEF Job
  <2>. QED
    BY <1>1, <2>1, <2>2 DEF ReceiveNew, TypeOK
<1>2. ASSUME NEW w \in Handlers, NEW e \in Events, ReceiveDuplicate(w, e) PROVE TypeOK'
  BY <1>2 DEF ReceiveDuplicate, handlerVars, TypeOK
<1>3. ASSUME NEW w \in Handlers, CommitUnrouted(w) PROVE TypeOK'
  BY <1>3, GoIdleType, CommitType DEF CommitUnrouted, Commit, TypeOK
<1>4. ASSUME NEW w \in Handlers, NEW o \in Organizers, LockRow(w, o) PROVE TypeOK'
  BY <1>4 DEF LockRow, TypeOK
<1>5. ASSUME NEW w \in Handlers, CommitIgnored(w) PROVE TypeOK'
  BY <1>5, GoIdleType, CommitType DEF CommitIgnored, Commit, TypeOK
<1>6. ASSUME NEW w \in Handlers, CommitApplied(w) PROVE TypeOK'
  <2>1. /\ job[w].evt \in Events /\ job[w].at \in Times
        /\ target[w] \in Organizers /\ loaded[w] \in Row
    BY <1>6 DEF CommitApplied, TypeOK, Job
  <2>2. Apply(loaded[w], job[w].evt, job[w].at) \in Row
    BY <1>6, <2>1, AppliedRowType DEF CommitApplied
  <2>3. Outcome(w) \in Row
    BY <2>1, <2>2, FlushType DEF Outcome, TypeOK
  <2>4. profile' \in [Organizers -> Row]
    BY <1>6, <2>1, <2>3 DEF CommitApplied, TypeOK
  <2>5. pc[w] # "idle" /\ Commit(w) /\ GoIdle(w) /\ crashes' = crashes
    BY <1>6 DEF CommitApplied, Commit
  <2>. QED
    BY <2>4, <2>5, GoIdleType, CommitType DEF TypeOK
<1>7. ASSUME NEW w \in Handlers, RejectedByCheck(w) PROVE TypeOK'
  BY <1>7, GoIdleType DEF RejectedByCheck, Rollback, TypeOK
<1>8. ASSUME NEW w \in Handlers, Crash(w) PROVE TypeOK'
  BY <1>8, GoIdleType DEF Crash, Rollback, TypeOK
<1>9. CASE UNCHANGED vars
  BY <1>9 DEF vars, handlerVars, TypeOK
<1>. QED
  BY <1>1, <1>2, <1>3, <1>4, <1>5, <1>6, <1>7, <1>8, <1>9 DEF Next, Deliver, Handle

-----------------------------------------------------------------------------
(* Locks and the dedup table.                                              *)

(* What handlers keep, whatever rows the table starts with and whoever     *)
(* else writes them.                                                       *)
HandlersInv ==
  /\ TypeOK
  /\ LockInv
  /\ DedupInv
  /\ AckedAreRecorded

IndInv ==
  /\ HandlersInv
  /\ UniqueAccounts(profile)
  /\ StatusesAgree
  /\ ProductShowsNewest
  /\ AccountShowsNewest

(* What a handler writes is its assignments to the current row.            *)
LEMMA AppliedOutcome ==
  ASSUME HandlersInv, NEW w \in Handlers, pc[w] = "apply",
         ~Ignored(loaded[w], job[w].evt, job[w].at)
  PROVE  /\ target[w] \in Organizers
         /\ job[w] \in Job
         /\ loaded[w] = profile[target[w]]
         /\ profile[target[w]] \in Row
         /\ Outcome(w) = Apply(profile[target[w]], job[w].evt, job[w].at)
<1>1. /\ target[w] \in Organizers /\ job[w] \in Job
      /\ loaded[w] = profile[target[w]] /\ profile[target[w]] \in Row
  BY DEF HandlersInv, TypeOK, LockInv
<1>2. job[w].evt \in Events /\ job[w].at \in Times
  BY <1>1 DEF Job
<1>3. Apply(loaded[w], job[w].evt, job[w].at) \in Row
  BY <1>1, <1>2, AppliedRowType
<1>. QED
  BY <1>1, <1>3, FlushCurrent DEF Outcome

(* The columns neither handler assigns.                                    *)
LEMMA AppliedKeeps ==
  ASSUME NEW r \in Row, NEW e, NEW at
  PROVE  LET n == Apply(r, e, at) IN
         /\ n.account_id = r.account_id
         /\ n.stakeholder_id = r.stakeholder_id
         /\ n.product_id = r.product_id
         /\ n.reference_code = r.reference_code
         /\ n.details = r.details
         /\ n.submitted = r.submitted
BY DEF Apply, ApplyProduct, ApplyAccount, Row

LEMMA GoIdleLocks ==
  ASSUME HandlersInv, NEW w \in Handlers, GoIdle(w), NEW v \in Handlers, pc'[v] = "apply"
  PROVE  /\ v # w /\ pc[v] = "apply"
         /\ target'[v] = target[v] /\ loaded'[v] = loaded[v] /\ job'[v] = job[v]
         /\ target[v] \in Organizers
         /\ holder[target[v]] = v /\ holder'[target[v]] = v
<1>1. v # w /\ pc[v] = "apply"
      /\ target'[v] = target[v] /\ loaded'[v] = loaded[v] /\ job'[v] = job[v]
  BY DEF GoIdle, HandlersInv, TypeOK
<1>2. target[v] \in Organizers /\ holder[target[v]] = v
  BY <1>1 DEF HandlersInv, TypeOK, LockInv
<1>. QED
  BY <1>1, <1>2 DEF GoIdle, Unlock

LEMMA LockStep == HandlersInv /\ [Next]_vars => LockInv'
<1> SUFFICES ASSUME HandlersInv, [Next]_vars PROVE LockInv'
  OBVIOUS
<1> USE DEF HandlersInv
<1>1. ASSUME NEW w \in Handlers, NEW e \in Events, ReceiveNew(w, e) PROVE LockInv'
  BY <1>1 DEF ReceiveNew, LockInv, TypeOK, Routes
<1>2. ASSUME NEW w \in Handlers, NEW e \in Events, ReceiveDuplicate(w, e) PROVE LockInv'
  BY <1>2 DEF ReceiveDuplicate, handlerVars, LockInv, Routes
<1>3. ASSUME NEW w \in Handlers, GoIdle(w), UNCHANGED profile PROVE LockInv'
  BY <1>3, GoIdleLocks DEF LockInv, Routes
<1>4. ASSUME NEW w \in Handlers, NEW o \in Organizers, LockRow(w, o) PROVE LockInv'
  <2>1. ASSUME NEW v \in Handlers, v # w, pc'[v] = "apply"
        PROVE  /\ holder'[target'[v]] = v
               /\ loaded'[v] = profile'[target'[v]]
               /\ Routes(job[v].evt, target[v])'
    <3>1. pc[v] = "apply" /\ target'[v] = target[v] /\ loaded'[v] = loaded[v]
      BY <1>4, <2>1 DEF LockRow, TypeOK
    <3>2. target[v] \in Organizers /\ holder[target[v]] = v /\ v # NULL
      BY <3>1 DEF TypeOK, LockInv
    <3>3. target[v] # o
      BY <1>4, <3>2 DEF LockRow
    <3>. QED
      BY <1>4, <3>1, <3>2, <3>3 DEF LockRow, LockInv, TypeOK, Routes
  <2>2. /\ holder'[target'[w]] = w
        /\ loaded'[w] = profile'[target'[w]]
        /\ Routes(job[w].evt, target[w])'
    BY <1>4 DEF LockRow, TypeOK, Routes
  <2>. QED
    BY <2>1, <2>2 DEF LockInv
<1>5. ASSUME NEW w \in Handlers, CommitApplied(w) PROVE LockInv'
  <2>1. /\ target[w] \in Organizers /\ holder[target[w]] = w
    BY <1>5 DEF CommitApplied, LockInv, TypeOK
  <2>2. GoIdle(w)
    BY <1>5 DEF CommitApplied, Commit
  <2>3. ASSUME NEW v \in Handlers, pc'[v] = "apply"
        PROVE  profile'[target[v]] = profile[target[v]]
    <3>1. target[v] # target[w]
      BY <2>1, <2>2, <2>3, GoIdleLocks
    <3>. QED
      BY <1>5, <3>1 DEF CommitApplied, TypeOK
  <2>. QED
    BY <2>2, <2>3, GoIdleLocks DEF LockInv, Routes
<1>6. CASE UNCHANGED vars
  BY <1>6 DEF vars, handlerVars, LockInv, Routes
<1>. QED
  BY <1>1, <1>2, <1>3, <1>4, <1>5, <1>6
     DEF Next, Deliver, Handle, CommitUnrouted, CommitIgnored, RejectedByCheck, Crash,
         Commit, Rollback

LEMMA CommitDedup ==
  ASSUME HandlersInv, NEW w \in Handlers, pc[w] # "idle", Commit(w)
  PROVE  DedupInv' /\ AckedAreRecorded'
<1> USE DEF HandlersInv
<1>1. job[w] \in Job
  BY DEF TypeOK
<1>2. seen' = seen \cup {job[w]}
  BY DEF Commit
<1>3. ASSUME NEW v \in Handlers, pc'[v] # "idle"
      PROVE  v # w /\ pc[v] # "idle" /\ job'[v] = job[v]
  BY <1>3 DEF Commit, GoIdle, TypeOK
<1>4. ~Recorded(job[w].evt)
  BY DEF DedupInv
<1>5. \A s, t \in seen' : s.evt = t.evt => s = t
  BY <1>2, <1>4 DEF DedupInv, Recorded
<1>6. ASSUME NEW v \in Handlers, pc'[v] # "idle" PROVE ~Recorded(job[v].evt)'
  BY <1>2, <1>3, <1>6 DEF DedupInv, Recorded
<1>7. \A u, v \in Handlers :
        pc'[u] # "idle" /\ pc'[v] # "idle" /\ job'[u].evt = job'[v].evt => u = v
  BY <1>3 DEF DedupInv
<1>8. \A e \in acked' : Recorded(e)'
  BY <1>2 DEF Commit, AckedAreRecorded, Recorded
<1>. QED
  BY <1>5, <1>6, <1>7, <1>8 DEF DedupInv, AckedAreRecorded

LEMMA DedupStep == HandlersInv /\ [Next]_vars => DedupInv' /\ AckedAreRecorded'
<1> SUFFICES ASSUME HandlersInv, [Next]_vars PROVE DedupInv' /\ AckedAreRecorded'
  OBVIOUS
<1>1. ASSUME NEW w \in Handlers, NEW e \in Events, ReceiveNew(w, e)
      PROVE  DedupInv' /\ AckedAreRecorded'
  <2>1. PICK at \in EventTimes(e) : job' = [job EXCEPT ![w] = [evt |-> e, at |-> at]]
    BY <1>1 DEF ReceiveNew
  <2>2. job'[w].evt = e
    BY <2>1 DEF HandlersInv, TypeOK
  <2>3. \A v \in Handlers : v # w => job'[v] = job[v] /\ pc'[v] = pc[v]
    BY <1>1, <2>1 DEF ReceiveNew, HandlersInv, TypeOK
  <2>. QED
    BY <1>1, <2>2, <2>3 DEF ReceiveNew, HandlersInv, DedupInv, AckedAreRecorded, Recorded, InFlight
<1>2. ASSUME NEW w \in Handlers, NEW e \in Events, ReceiveDuplicate(w, e)
      PROVE  DedupInv' /\ AckedAreRecorded'
  BY <1>2 DEF ReceiveDuplicate, handlerVars, HandlersInv, DedupInv, AckedAreRecorded, Recorded
<1>3. ASSUME NEW w \in Handlers, pc[w] # "idle", Commit(w)
      PROVE  DedupInv' /\ AckedAreRecorded'
  BY <1>3, CommitDedup
<1>4. ASSUME NEW w \in Handlers, NEW o \in Organizers, LockRow(w, o)
      PROVE  DedupInv' /\ AckedAreRecorded'
  <2>1. \A v \in Handlers : pc'[v] # "idle" => pc[v] # "idle"
    BY <1>4 DEF LockRow, HandlersInv, TypeOK
  <2>. QED
    BY <1>4, <2>1 DEF LockRow, HandlersInv, DedupInv, AckedAreRecorded, Recorded
<1>5. ASSUME NEW w \in Handlers, Rollback(w)
      PROVE  DedupInv' /\ AckedAreRecorded'
  <2>1. \A v \in Handlers : pc'[v] # "idle" => pc[v] # "idle" /\ job'[v] = job[v]
    BY <1>5 DEF Rollback, GoIdle, HandlersInv, TypeOK
  <2>. QED
    BY <1>5, <2>1 DEF Rollback, HandlersInv, DedupInv, AckedAreRecorded, Recorded
<1>6. CASE UNCHANGED vars
  BY <1>6 DEF vars, handlerVars, HandlersInv, DedupInv, AckedAreRecorded, Recorded
<1>. QED
  BY <1>1, <1>2, <1>3, <1>4, <1>5, <1>6
     DEF Next, Deliver, Handle, CommitUnrouted, CommitIgnored, CommitApplied,
         RejectedByCheck, Crash

-----------------------------------------------------------------------------
(* The row: statuses that belong together, and the newest event.           *)

(* Only an applied event changes a row, and it leaves the account id.      *)
LEMMA AccountsKept ==
  HandlersInv /\ [Next]_vars => \A o \in Organizers : profile'[o].account_id = profile[o].account_id
<1> SUFFICES ASSUME HandlersInv, [Next]_vars, NEW o \in Organizers
             PROVE  profile'[o].account_id = profile[o].account_id
  OBVIOUS
<1>1. ASSUME NEW w \in Handlers, CommitApplied(w)
      PROVE  profile'[o].account_id = profile[o].account_id
  <2>1. Outcome(w).account_id = profile[target[w]].account_id
    BY <1>1, AppliedOutcome, AppliedKeeps DEF CommitApplied
  <2>. QED
    BY <1>1, <2>1 DEF CommitApplied, HandlersInv, TypeOK
<1>2. CASE UNCHANGED profile
  BY <1>2
<1>. QED
  BY <1>1, <1>2
     DEF Next, Deliver, Handle, ReceiveNew, ReceiveDuplicate, CommitUnrouted, LockRow,
         CommitIgnored, RejectedByCheck, Crash, Rollback, vars

(* Handlers keep their invariant among other writers of the table too, as  *)
(* long as those write no row that a handler has locked.                   *)
LEMMA HandlersStep == HandlersInv /\ [Next]_vars => HandlersInv'
BY TypeStep, LockStep, DedupStep DEF HandlersInv

(* A row changes only when a handler that has it locked, for an event that *)
(* is routed to it, commits its assignments with a new dedup row.          *)
LEMMA HandlersChange ==
  ASSUME HandlersInv, Next, NEW o \in Organizers, profile'[o] # profile[o]
  PROVE  \E w \in Handlers :
           /\ pc[w] = "apply" /\ holder[o] = w /\ job[w] \in Job /\ Routes(job[w].evt, o)
           /\ ~Ignored(profile[o], job[w].evt, job[w].at)
           /\ profile'[o] = Apply(profile[o], job[w].evt, job[w].at)
           /\ job[w] \in seen' \ seen
<1>1. PICK w \in Handlers : CommitApplied(w)
  BY DEF Next, Deliver, Handle, ReceiveNew, ReceiveDuplicate, CommitUnrouted, LockRow,
         CommitIgnored, RejectedByCheck, Crash, Rollback
<1>2. o = target[w] /\ pc[w] = "apply"
  BY <1>1 DEF CommitApplied, HandlersInv, TypeOK
<1>3. holder[o] = w /\ loaded[w] = profile[o] /\ Routes(job[w].evt, o) /\ job[w] \in Job
  BY <1>2 DEF HandlersInv, LockInv, TypeOK
<1>4. ~Ignored(profile[o], job[w].evt, job[w].at)
  BY <1>1, <1>3 DEF CommitApplied
<1>5. profile'[o] = Apply(profile[o], job[w].evt, job[w].at)
  BY <1>1, <1>2, AppliedOutcome DEF CommitApplied, HandlersInv, TypeOK
<1>6. job[w] \in seen' \ seen
  BY <1>1, <1>2 DEF CommitApplied, Commit, HandlersInv, DedupInv, Recorded
<1>. QED
  BY <1>2, <1>3, <1>4, <1>5, <1>6

(* What is recorded in a step is the delivery of one handler, and an event *)
(* not recorded before.                                                    *)
LEMMA HandlersRecord ==
  ASSUME HandlersInv, Next
  PROVE  /\ seen \subseteq seen'
         /\ \A j \in seen' \ seen :
              /\ j \in Job /\ ~Recorded(j.evt)
              /\ \E w \in Handlers : pc[w] # "idle" /\ job[w] = j
<1>1. \/ seen' = seen
      \/ \E w \in Handlers : pc[w] # "idle" /\ seen' = seen \cup {job[w]}
      BY DEF Next, Deliver, Handle, ReceiveNew, ReceiveDuplicate, CommitUnrouted, LockRow,
             CommitIgnored, CommitApplied, RejectedByCheck, Crash, Rollback, Commit
<1>2. \A w \in Handlers : pc[w] # "idle" => job[w] \in Job /\ ~Recorded(job[w].evt)
      BY DEF HandlersInv, TypeOK, DedupInv
<1> QED BY <1>1, <1>2

(* A delivery that is recorded and that has a row is applied to it, unless *)
(* it is ignored.                                                          *)
LEMMA RecordedIsApplied ==
  ASSUME HandlersInv, Next, NEW j \in seen' \ seen, NEW o \in Organizers, Routes(j.evt, o),
         \A p \in Organizers : Routes(j.evt, p) => p = o
  PROVE  profile'[o] = IF Ignored(profile[o], j.evt, j.at)
                         THEN profile[o] ELSE Apply(profile[o], j.evt, j.at)
<1>1. PICK w \in Handlers : CommitUnrouted(w) \/ CommitIgnored(w) \/ CommitApplied(w)
      BY DEF Next, Deliver, Handle, ReceiveNew, ReceiveDuplicate, LockRow, RejectedByCheck,
             Crash, Rollback
<1>2. seen' = seen \cup {job[w]} /\ j = job[w]
      BY <1>1 DEF CommitUnrouted, CommitIgnored, CommitApplied, Commit
<1>3. ~CommitUnrouted(w)
      BY <1>2 DEF CommitUnrouted
<1>4. pc[w] = "apply"
      BY <1>1, <1>3 DEF CommitIgnored, CommitApplied
<1>5. target[w] \in Organizers /\ loaded[w] = profile[target[w]] /\ Routes(j.evt, target[w])
      BY <1>2, <1>4 DEF HandlersInv, TypeOK, LockInv
<1>6. target[w] = o
      BY <1>5
<1>7. CASE CommitIgnored(w)
      BY <1>2, <1>5, <1>6, <1>7 DEF CommitIgnored
<1>8. CASE CommitApplied(w)
  <2>1. ~Ignored(loaded[w], job[w].evt, job[w].at)
        BY <1>8 DEF CommitApplied
  <2>2. Outcome(w) = Apply(profile[o], j.evt, j.at)
        BY <1>2, <1>4, <1>6, <2>1, AppliedOutcome
  <2>3. profile'[o] = Outcome(w)
        BY <1>6, <1>8 DEF CommitApplied, HandlersInv, TypeOK
  <2> QED BY <1>2, <1>5, <1>6, <2>1, <2>2, <2>3
<1> QED BY <1>1, <1>3, <1>7, <1>8

(* Handlers take a lock only if nobody has it, and release only their own. *)
LEMMA HandlersRespectLocks ==
  ASSUME Next, NEW o \in Organizers, holder \in [Organizers -> Sessions \cup {NULL}],
         holder[o] \notin Handlers \cup {NULL}
  PROVE  holder'[o] = holder[o]
BY DEF Next, Deliver, Handle, ReceiveNew, ReceiveDuplicate, CommitUnrouted, LockRow,
       CommitIgnored, CommitApplied, RejectedByCheck, Crash, Rollback, Commit, GoIdle, Unlock

(* The columns the two handlers leave, one by one.                         *)
LEMMA ProductColumns ==
  ASSUME NEW r \in Row, NEW e, NEW at
  PROVE  /\ ApplyProduct(r, e, at).provider_status = e.status
         /\ ApplyProduct(r, e, at).kyc_status = MapStatus[e.status]
         /\ ApplyProduct(r, e, at).requirements = e.requirements
         /\ ApplyProduct(r, e, at).provider_synced_at = at
         /\ ApplyProduct(r, e, at).account_status = r.account_status
         /\ ApplyProduct(r, e, at).account_synced_at = r.account_synced_at
         /\ e.status = "activated" => ApplyProduct(r, e, at).activated
<1>1. ApplyProduct(r, e, at).activated = (r.activated \/ e.status = "activated")
  BY Zenon DEF ApplyProduct, Row
<1> DEFINE b == r.activated \/ e.status = "activated"
<1> HIDE DEF b
<1>2. ApplyProduct(r, e, at) =
        [r EXCEPT !.provider_status = e.status, !.kyc_status = MapStatus[e.status],
                  !.requirements = e.requirements, !.provider_synced_at = at,
                  !.activated = b]
  BY Zenon DEF ApplyProduct, b
<1>3. /\ ApplyProduct(r, e, at).provider_status = e.status
      /\ ApplyProduct(r, e, at).kyc_status = MapStatus[e.status]
      /\ ApplyProduct(r, e, at).requirements = e.requirements
      /\ ApplyProduct(r, e, at).provider_synced_at = at
      /\ ApplyProduct(r, e, at).account_status = r.account_status
      /\ ApplyProduct(r, e, at).account_synced_at = r.account_synced_at
  BY <1>2, SMT DEF Row
<1>. QED
  BY <1>1, <1>3

LEMMA AccountColumns ==
  ASSUME NEW r \in Row, NEW e, NEW at
  PROVE  /\ ApplyAccount(r, e, at).provider_status = r.provider_status
         /\ ApplyAccount(r, e, at).kyc_status = r.kyc_status
         /\ ApplyAccount(r, e, at).requirements = r.requirements
         /\ ApplyAccount(r, e, at).provider_synced_at = r.provider_synced_at
         /\ ApplyAccount(r, e, at).activated = r.activated
         /\ ApplyAccount(r, e, at).account_status = AccountContent(e)
         /\ ApplyAccount(r, e, at).account_synced_at = at
BY DEF ApplyAccount, AccountContent, Row

LEMMA StatusStep == IndInv /\ [Next]_vars => StatusesAgree'
<1> SUFFICES ASSUME IndInv, [Next]_vars PROVE StatusesAgree'
  OBVIOUS
<1>1. ASSUME NEW w \in Handlers, CommitApplied(w) PROVE StatusesAgree'
  <2> DEFINE o == target[w]
             e == job[w].evt
  <2>1. /\ o \in Organizers /\ job[w] \in Job
        /\ profile[o] \in Row /\ loaded[w] = profile[o]
        /\ profile' = [profile EXCEPT ![o] = Apply(profile[o], e, job[w].at)]
    BY <1>1, AppliedOutcome DEF CommitApplied, IndInv
  <2>2. e \in EventBody
    BY <2>1 DEF Job
  <2>3. \A p \in Organizers : p # o => profile'[p] = profile[p]
    BY <2>1 DEF IndInv, HandlersInv, TypeOK
  <2>4. profile'[o] = Apply(profile[o], e, job[w].at)
    BY <2>1 DEF IndInv, HandlersInv, TypeOK
  <2>5. CASE e.kind \in ProductKinds
    <3>1. e.status \in ProviderStatus
      BY <1>1, <2>5 DEF CommitApplied, Ignored
    <3>2. /\ profile'[o].provider_status = e.status
          /\ profile'[o].kyc_status = MapStatus[e.status]
          /\ e.status = "activated" => profile'[o].activated
      BY <2>1, <2>4, <2>5, ProductColumns DEF Apply
    <3>. QED
      BY <2>3, <3>1, <3>2 DEF StatusesAgree, IndInv
  <2>6. CASE e.kind \notin ProductKinds
    <3>1. /\ profile'[o].provider_status = profile[o].provider_status
          /\ profile'[o].kyc_status = profile[o].kyc_status
          /\ profile'[o].activated = profile[o].activated
      BY <2>1, <2>4, <2>6, AccountColumns DEF Apply
    <3>. QED
      BY <2>1, <2>3, <3>1 DEF StatusesAgree, IndInv
  <2>. QED
    BY <2>5, <2>6
<1>2. CASE UNCHANGED profile
  BY <1>2 DEF IndInv, StatusesAgree
<1>. QED
  BY <1>1, <1>2
     DEF Next, Deliver, Handle, ReceiveNew, ReceiveDuplicate, CommitUnrouted, LockRow,
         CommitIgnored, RejectedByCheck, Crash, Rollback, vars

(* Recording a delivery adds it to the history of the rows it sets.        *)
LEMMA SeenGrows ==
  ASSUME IndInv, NEW j \in Job, seen' = seen \cup {j}, NEW o \in Organizers,
         profile'[o].account_id = profile[o].account_id
  PROVE  /\ ProductSeen(o)' =
              ProductSeen(o) \cup IF SetsProduct(j.evt, profile[o]) THEN {j} ELSE {}
         /\ AccountSeen(o)' =
              AccountSeen(o) \cup IF SetsAccount(j.evt, profile[o]) THEN {j} ELSE {}
<1>1. \A e : /\ SetsProduct(e, profile'[o]) <=> SetsProduct(e, profile[o])
             /\ SetsAccount(e, profile'[o]) <=> SetsAccount(e, profile[o])
  BY DEF SetsProduct, SetsAccount
<1>. QED
  BY <1>1 DEF ProductSeen, AccountSeen

(* A delivery that sets a row is one that is routed to it.                 *)
LEMMA SetsRoutes ==
  ASSUME NEW e \in Events, NEW o \in Organizers,
         SetsProduct(e, profile[o]) \/ SetsAccount(e, profile[o])
  PROVE  Routes(e, o)
BY DEF SetsProduct, SetsAccount, Routes, OtherKinds, ProductKinds, AccountKinds

(* A delivery routed to a row sets no other.                               *)
LEMMA SetsOne ==
  ASSUME IndInv, NEW e \in Events, NEW o \in Organizers, Routes(e, o),
         NEW p \in Organizers, p # o
  PROVE  ~SetsProduct(e, profile[p]) /\ ~SetsAccount(e, profile[p])
BY DEF IndInv, UniqueAccounts, Routes, SetsProduct, SetsAccount

(* What one step does to the histories and columns of a row: nothing, a    *)
(* delivery recorded that is too old for it, or one recorded and shown.    *)
ProductKept(o) ==
  /\ ProductSeen(o)' = ProductSeen(o)
  /\ profile'[o].provider_synced_at = profile[o].provider_synced_at
  /\ profile'[o].provider_status = profile[o].provider_status
  /\ profile'[o].requirements = profile[o].requirements

AccountKept(o) ==
  /\ AccountSeen(o)' = AccountSeen(o)
  /\ profile'[o].account_synced_at = profile[o].account_synced_at
  /\ profile'[o].account_status = profile[o].account_status

ProductStale(o, j) ==
  /\ ProductSeen(o)' = ProductSeen(o) \cup {j}
  /\ profile'[o] = profile[o]
  /\ profile[o].provider_synced_at # Never /\ j.at < profile[o].provider_synced_at

AccountStale(o, j) ==
  /\ AccountSeen(o)' = AccountSeen(o) \cup {j}
  /\ profile'[o] = profile[o]
  /\ profile[o].account_synced_at # Never /\ j.at < profile[o].account_synced_at

ProductShown(o, j) ==
  /\ ProductSeen(o)' = ProductSeen(o) \cup {j}
  /\ ~(profile[o].provider_synced_at # Never /\ j.at < profile[o].provider_synced_at)
  /\ profile'[o].provider_synced_at = j.at
  /\ profile'[o].provider_status = j.evt.status
  /\ profile'[o].requirements = j.evt.requirements

AccountShown(o, j) ==
  /\ AccountSeen(o)' = AccountSeen(o) \cup {j}
  /\ ~(profile[o].account_synced_at # Never /\ j.at < profile[o].account_synced_at)
  /\ profile'[o].account_synced_at = j.at
  /\ profile'[o].account_status = AccountContent(j.evt)

(* A step concerns at most one delivery j of one row o.                    *)
ProductEffect(o, j) ==
  /\ ProductStale(o, j) \/ ProductShown(o, j)
  /\ \A p \in Organizers : p # o => ProductKept(p)

AccountEffect(o, j) ==
  /\ AccountStale(o, j) \/ AccountShown(o, j)
  /\ \A p \in Organizers : p # o => AccountKept(p)

(* j is a delivery the dedup table does not have yet.                      *)
Fresh(j) == j \in Job /\ ~Recorded(j.evt)

StepEffect ==
  /\ \/ \A p \in Organizers : ProductKept(p)
     \/ \E o \in Organizers, j \in Job : Fresh(j) /\ ProductEffect(o, j)
  /\ \/ \A p \in Organizers : AccountKept(p)
     \/ \E o \in Organizers, j \in Job : Fresh(j) /\ AccountEffect(o, j)

LEMMA StepEffectHolds == IndInv /\ [Next]_vars => StepEffect
<1> SUFFICES ASSUME IndInv, [Next]_vars PROVE StepEffect
  OBVIOUS
<1>0. \A o \in Organizers : profile'[o].account_id = profile[o].account_id
  BY AccountsKept DEF IndInv
<1>1. ASSUME UNCHANGED <<profile, seen>> PROVE StepEffect
  BY <1>1 DEF StepEffect, ProductKept, AccountKept, ProductSeen, AccountSeen
<1>2. ASSUME NEW w \in Handlers, pc[w] # "idle" PROVE Fresh(job[w])
  BY <1>2 DEF Fresh, IndInv, HandlersInv, TypeOK, DedupInv
<1>3. ASSUME NEW w \in Handlers, CommitUnrouted(w) PROVE StepEffect
  <2>1. job[w] \in Job /\ job[w].evt \in Events
    BY <1>3 DEF CommitUnrouted, IndInv, HandlersInv, TypeOK, Job
  <2>2. seen' = seen \cup {job[w]} /\ profile' = profile
    BY <1>3 DEF CommitUnrouted, Commit
  <2>3. \A o \in Organizers :
          ~SetsProduct(job[w].evt, profile[o]) /\ ~SetsAccount(job[w].evt, profile[o])
    BY <1>3, <2>1, SetsRoutes DEF CommitUnrouted
  <2>4. \A o \in Organizers :
          ProductSeen(o)' = ProductSeen(o) /\ AccountSeen(o)' = AccountSeen(o)
    BY <1>0, <2>1, <2>2, <2>3, SeenGrows
  <2>. QED
    BY <2>2, <2>4 DEF StepEffect, ProductKept, AccountKept
<1>4. ASSUME NEW w \in Handlers, pc[w] = "apply", seen' = seen \cup {job[w]},
             \A p \in Organizers : p # target[w] => profile'[p] = profile[p],
             CommitIgnored(w) \/ CommitApplied(w)
      PROVE  StepEffect
  <2>0. PICK o \in Organizers, j \in Job : o = target[w] /\ j = job[w]
    BY <1>4 DEF IndInv, HandlersInv, TypeOK
  <2> DEFINE e == j.evt
  <2>1. /\ e \in Events
        /\ loaded[w] = profile[o] /\ Routes(e, o) /\ profile[o] \in Row
        /\ Fresh(j)
    BY <1>2, <1>4, <2>0 DEF IndInv, HandlersInv, TypeOK, LockInv, Job
  <2>2. \A p \in Organizers : p # o => ProductKept(p) /\ AccountKept(p)
    <3>1. ASSUME NEW p \in Organizers, p # o
          PROVE  ProductSeen(p)' = ProductSeen(p) /\ AccountSeen(p)' = AccountSeen(p)
      <4>1. ~SetsProduct(e, profile[p]) /\ ~SetsAccount(e, profile[p])
        BY <2>0, <2>1, <3>1, SetsOne
      <4>2. seen' = seen \cup {j}
        BY <1>4, <2>0
      <4>3. profile'[p].account_id = profile[p].account_id
        BY <1>0
      <4>. QED
        BY <4>1, <4>2, <4>3, SeenGrows
    <3>. QED
      BY <1>4, <2>0, <3>1 DEF ProductKept, AccountKept
  <2>3. /\ ProductSeen(o)' =
             ProductSeen(o) \cup IF SetsProduct(e, profile[o]) THEN {j} ELSE {}
        /\ AccountSeen(o)' =
             AccountSeen(o) \cup IF SetsAccount(e, profile[o]) THEN {j} ELSE {}
    BY <1>0, <1>4, <2>0, SeenGrows
  <2>4. ASSUME CommitIgnored(w) PROVE StepEffect
    <3>1. profile' = profile /\ Ignored(profile[o], e, j.at)
      BY <2>0, <2>1, <2>4 DEF CommitIgnored
    <3>2. ProductKept(o) \/ ProductStale(o, j)
      BY <2>0, <2>1, <2>3, <3>1
         DEF ProductKept, ProductStale, Ignored, SetsProduct
    <3>3. AccountKept(o) \/ AccountStale(o, j)
      BY <2>0, <2>1, <2>3, <3>1
         DEF AccountKept, AccountStale, Ignored, SetsAccount, AccountKinds, ProductKinds
    <3>. QED
      BY <2>0, <2>1, <2>2, <3>2, <3>3 DEF StepEffect, ProductEffect, AccountEffect
  <2>5. ASSUME CommitApplied(w) PROVE StepEffect
    <3>1. profile'[o] = Apply(profile[o], e, j.at)
      BY <2>0, <2>1, <2>5, AppliedOutcome DEF CommitApplied, IndInv, HandlersInv, TypeOK
    <3>2. ~Ignored(profile[o], e, j.at)
      BY <2>0, <2>1, <2>5 DEF CommitApplied
    <3>3. e.account # NULL /\ e.account = profile[o].account_id /\ e.kind \notin OtherKinds
      BY <2>1 DEF Routes
    <3>4. CASE e.kind \in ProductKinds
      <4>1. SetsProduct(e, profile[o]) /\ ~SetsAccount(e, profile[o])
        BY <3>2, <3>3, <3>4 DEF SetsProduct, SetsAccount, Ignored, ProductKinds, AccountKinds
      <4>2. ProductShown(o, j)
        BY <2>0, <2>1, <2>3, <3>1, <3>2, <3>4, <4>1, ProductColumns
           DEF ProductShown, Ignored, Apply
      <4>3. AccountKept(o)
        BY <2>0, <2>1, <2>3, <3>1, <3>4, <4>1, ProductColumns DEF AccountKept, Apply
      <4>. QED
        BY <2>0, <2>1, <2>2, <4>2, <4>3 DEF StepEffect, ProductEffect
    <3>5. CASE e.kind \notin ProductKinds
      <4>1. e.kind \in AccountKinds
        BY <2>0, <2>1, <3>3, <3>5 DEF EventBody
      <4>2. ~SetsProduct(e, profile[o]) /\ SetsAccount(e, profile[o])
        BY <3>3, <3>5, <4>1 DEF SetsProduct, SetsAccount
      <4>3. AccountShown(o, j)
        BY <2>0, <2>1, <2>3, <3>1, <3>2, <3>5, <4>2, AccountColumns
           DEF AccountShown, Ignored, Apply
      <4>4. ProductKept(o)
        BY <2>0, <2>1, <2>3, <3>1, <3>5, <4>2, AccountColumns DEF ProductKept, Apply
      <4>. QED
        BY <2>0, <2>1, <2>2, <4>3, <4>4 DEF StepEffect, AccountEffect
    <3>. QED
      BY <3>4, <3>5
  <2>. QED
    BY <1>4, <2>4, <2>5
<1>5. ASSUME NEW w \in Handlers, CommitIgnored(w) PROVE StepEffect
  BY <1>4, <1>5 DEF CommitIgnored, Commit
<1>6. ASSUME NEW w \in Handlers, CommitApplied(w) PROVE StepEffect
  BY <1>4, <1>6 DEF CommitApplied, Commit, IndInv, HandlersInv, TypeOK
<1>. QED
  BY <1>1, <1>3, <1>5, <1>6
     DEF Next, Deliver, Handle, ReceiveNew, ReceiveDuplicate, LockRow, RejectedByCheck,
         Crash, Rollback, vars

(* The newest recorded event stays shown.  If j is recorded but too old,   *)
(* the one shown before is still the newest; if j is shown, it is newest.  *)
LEMMA ProductNewestStep ==
  ASSUME IndInv, NEW o \in Organizers, NEW j \in Job,
         ProductStale(o, j) \/ ProductShown(o, j)
  PROVE  \E n \in ProductSeen(o)' :
           /\ \A m \in ProductSeen(o)' : m.at <= n.at
           /\ profile'[o].provider_synced_at = n.at
           /\ profile'[o].provider_status = n.evt.status
           /\ profile'[o].requirements = n.evt.requirements
<1>1. j.at \in Nat /\ j.at # Never /\ \A m \in ProductSeen(o) : m.at \in Nat
  BY DEF Job, ProductSeen, IndInv, HandlersInv, TypeOK
<1>2. ProductNewestAt(o) /\ profile[o].provider_synced_at \in Nat
  BY DEF IndInv, HandlersInv, ProductShowsNewest, TypeOK, Row
<1>3. CASE ProductStale(o, j)
  <2>1. PICK n \in ProductSeen(o) :
          /\ \A m \in ProductSeen(o) : m.at <= n.at
          /\ profile[o].provider_synced_at = n.at
          /\ profile[o].provider_status = n.evt.status
          /\ profile[o].requirements = n.evt.requirements
    BY <1>2, <1>3 DEF ProductStale, ProductNewestAt
  <2>2. j.at <= n.at
    BY <1>1, <1>3, <2>1 DEF ProductStale
  <2>. QED
    BY <1>3, <2>1, <2>2 DEF ProductStale
<1>4. CASE ProductShown(o, j)
  <2>1. ASSUME NEW m \in ProductSeen(o) PROVE m.at <= j.at
    <3>1. PICK n \in ProductSeen(o) :
            m.at <= n.at /\ profile[o].provider_synced_at = n.at
      BY <1>2, <2>1 DEF ProductNewestAt
    <3>2. n.at # Never
      BY DEF ProductSeen, IndInv, HandlersInv, TypeOK, Job
    <3>. QED
      BY <1>1, <1>4, <3>1, <3>2 DEF ProductShown
  <2>2. j \in ProductSeen(o)' /\ \A m \in ProductSeen(o)' : m.at <= j.at
    BY <1>1, <1>4, <2>1 DEF ProductShown
  <2>. QED
    BY <1>4, <2>2 DEF ProductShown
<1>. QED
  BY <1>3, <1>4

LEMMA AccountNewestStep ==
  ASSUME IndInv, NEW o \in Organizers, NEW j \in Job,
         AccountStale(o, j) \/ AccountShown(o, j)
  PROVE  \E n \in AccountSeen(o)' :
           /\ \A m \in AccountSeen(o)' : m.at <= n.at
           /\ profile'[o].account_synced_at = n.at
           /\ profile'[o].account_status = AccountContent(n.evt)
<1>1. j.at \in Nat /\ j.at # Never /\ \A m \in AccountSeen(o) : m.at \in Nat
  BY DEF Job, AccountSeen, IndInv, HandlersInv, TypeOK
<1>2. AccountNewestAt(o) /\ profile[o].account_synced_at \in Nat
  BY DEF IndInv, HandlersInv, AccountShowsNewest, TypeOK, Row
<1>3. CASE AccountStale(o, j)
  <2>1. PICK n \in AccountSeen(o) :
          /\ \A m \in AccountSeen(o) : m.at <= n.at
          /\ profile[o].account_synced_at = n.at
          /\ profile[o].account_status = AccountContent(n.evt)
    BY <1>2, <1>3 DEF AccountStale, AccountNewestAt
  <2>2. j.at <= n.at
    BY <1>1, <1>3, <2>1 DEF AccountStale
  <2>. QED
    BY <1>3, <2>1, <2>2 DEF AccountStale
<1>4. CASE AccountShown(o, j)
  <2>1. ASSUME NEW m \in AccountSeen(o) PROVE m.at <= j.at
    <3>1. PICK n \in AccountSeen(o) :
            m.at <= n.at /\ profile[o].account_synced_at = n.at
      BY <1>2, <2>1 DEF AccountNewestAt
    <3>2. n.at # Never
      BY DEF AccountSeen, IndInv, HandlersInv, TypeOK, Job
    <3>. QED
      BY <1>1, <1>4, <3>1, <3>2 DEF AccountShown
  <2>2. j \in AccountSeen(o)' /\ \A m \in AccountSeen(o)' : m.at <= j.at
    BY <1>1, <1>4, <2>1 DEF AccountShown
  <2>. QED
    BY <1>4, <2>2 DEF AccountShown
<1>. QED
  BY <1>3, <1>4

LEMMA NewestStep == IndInv /\ [Next]_vars => ProductShowsNewest' /\ AccountShowsNewest'
<1> SUFFICES ASSUME IndInv, [Next]_vars, NEW p \in Organizers
             PROVE  ProductNewestAt(p)' /\ AccountNewestAt(p)'
  BY DEF ProductShowsNewest, AccountShowsNewest
<1>1. StepEffect
  BY StepEffectHolds
<1>2. ASSUME ProductKept(p) PROVE ProductNewestAt(p)'
  BY <1>2 DEF ProductKept, ProductNewestAt, IndInv, HandlersInv, ProductShowsNewest
<1>3. ASSUME AccountKept(p) PROVE AccountNewestAt(p)'
  BY <1>3 DEF AccountKept, AccountNewestAt, IndInv, HandlersInv, AccountShowsNewest
<1>4. ASSUME NEW j \in Job, ProductStale(p, j) \/ ProductShown(p, j) PROVE ProductNewestAt(p)'
  BY <1>4, ProductNewestStep DEF ProductNewestAt
<1>5. ASSUME NEW j \in Job, AccountStale(p, j) \/ AccountShown(p, j) PROVE AccountNewestAt(p)'
  BY <1>5, AccountNewestStep DEF AccountNewestAt
<1>6. ProductNewestAt(p)'
  BY <1>1, <1>2, <1>4 DEF StepEffect, ProductEffect
<1>7. AccountNewestAt(p)'
  BY <1>1, <1>3, <1>5 DEF StepEffect, AccountEffect
<1>. QED
  BY <1>6, <1>7

-----------------------------------------------------------------------------
(* The inductive invariant.                                                *)

LEMMA IndInvInit == Init => IndInv
<1> SUFFICES ASSUME Init PROVE IndInv
  OBVIOUS
<1>1. TypeOK
  BY InitialRowsAssumption DEF Init, TypeOK
<1>2. UniqueAccounts(profile) /\ StatusesAgree
  BY InitialRowsAssumption DEF Init, StatusesAgree
<1>3. LockInv /\ DedupInv /\ AckedAreRecorded
  BY DEF Init, LockInv, DedupInv, AckedAreRecorded
<1>4. ProductShowsNewest /\ AccountShowsNewest
  BY InitialRowsAssumption
     DEF Init, ProductShowsNewest, AccountShowsNewest, ProductNewestAt, AccountNewestAt,
         ProductSeen, AccountSeen
<1>. QED
  BY <1>1, <1>2, <1>3, <1>4 DEF IndInv, HandlersInv

LEMMA IndInvStep == IndInv /\ [Next]_vars => IndInv'
<1> SUFFICES ASSUME IndInv, [Next]_vars PROVE IndInv'
  OBVIOUS
<1>1. TypeOK'
  BY TypeStep DEF IndInv, HandlersInv
<1>2. UniqueAccounts(profile)'
  BY AccountsKept DEF IndInv, HandlersInv, UniqueAccounts
<1>. QED
  BY <1>1, <1>2, LockStep, DedupStep, StatusStep, NewestStep DEF IndInv, HandlersInv

LEMMA Invariance == Spec => []IndInv
BY IndInvInit, IndInvStep, PTL DEF Spec

(* Every variable keeps its type.                                          *)
THEOREM IngestTypeCorrect == Spec => []TypeOK
<1>1. IndInv => TypeOK
  BY DEF IndInv, HandlersInv
<1>. QED
  BY <1>1, Invariance, PTL

(* The platform's status always agrees with Razorpay's.                    *)
THEOREM IngestStatusesAgree == Spec => []StatusesAgree
<1>1. IndInv => StatusesAgree
  BY DEF IndInv, HandlersInv
<1>. QED
  BY <1>1, Invariance, PTL

(* An answered event is a recorded event.                                  *)
THEOREM IngestAckedAreRecorded == Spec => []AckedAreRecorded
<1>1. IndInv => AckedAreRecorded
  BY DEF IndInv, HandlersInv
<1>. QED
  BY <1>1, Invariance, PTL

(* A row changes only together with the dedup row of a fresh event that    *)
(* names its account.                                                      *)
THEOREM IngestEffectsAreRecorded == Spec => EffectsAreRecorded
<1>1. ASSUME IndInv, [Next]_vars
      PROVE  [\A o \in Organizers :
                profile'[o] # profile[o] =>
                  \E s \in seen' \ seen :
                    ~Recorded(s.evt) /\ s.evt.account = profile[o].account_id]_vars
  <2>1. ASSUME NEW w \in Handlers, CommitApplied(w), NEW o \in Organizers,
               profile'[o] # profile[o]
        PROVE  \E s \in seen' \ seen :
                 ~Recorded(s.evt) /\ s.evt.account = profile[o].account_id
    <3>1. o = target[w]
      BY <2>1 DEF CommitApplied, IndInv, HandlersInv, TypeOK
    <3>2. job[w].evt.account = profile[o].account_id
      BY <1>1, <2>1, <3>1 DEF CommitApplied, IndInv, HandlersInv, LockInv, Routes
    <3>3. ~Recorded(job[w].evt) /\ job[w] \notin seen
      BY <1>1, <2>1 DEF CommitApplied, IndInv, HandlersInv, DedupInv, Recorded
    <3>4. job[w] \in seen'
      BY <2>1 DEF CommitApplied, Commit
    <3>. QED
      BY <3>2, <3>3, <3>4
  <2>2. CASE UNCHANGED profile
    BY <2>2
  <2>. QED
    BY <1>1, <2>1, <2>2
       DEF Next, Deliver, Handle, ReceiveNew, ReceiveDuplicate, CommitUnrouted, LockRow,
           CommitIgnored, RejectedByCheck, Crash, Rollback, vars
<1>. QED
  BY <1>1, Invariance, PTL DEF Spec, EffectsAreRecorded

-----------------------------------------------------------------------------
(* Both streams of events implement LatestWins.                            *)

LEMMA ProductBoardInit == Init => ProductBoard!Init
<1> SUFFICES ASSUME Init PROVE ProductBoard!Init
  OBVIOUS
<1> DEFINE first == [o \in Organizers |-> [status       |-> profile[o].provider_status,
                                           requirements |-> profile[o].requirements]]
           Shows == [status : ProviderStatus \cup {NULL}, requirements : Requirements \cup {NULL}]
<1>1. \A o \in Organizers :
        profile[o] \in Row /\ profile[o].provider_synced_at = 0 /\ ProductSeen(o) = {}
  BY InitialRowsAssumption DEF Init, ProductSeen, Never
<1>2. first \in [Organizers -> Shows]
  BY <1>1 DEF Row
<1>3. [o \in Organizers |-> [stamp   |-> profile[o].provider_synced_at,
                             content |-> [status       |-> profile[o].provider_status,
                                          requirements |-> profile[o].requirements]]]
        = [k \in Organizers |-> [stamp |-> 0, content |-> first[k]]]
  BY <1>1
<1>4. [o \in Organizers |-> ProductSeen(o)] = [k \in Organizers |-> {}]
  BY <1>1
<1> HIDE DEF first
<1>. QED
  BY <1>2, <1>3, <1>4 DEF ProductBoard!Init

LEMMA ProductBoardStep ==
  ASSUME IndInv, [Next]_vars
  PROVE  [ProductBoard!Next]_(ProductBoard!boardVars)
<1> DEFINE M == [o \in Organizers |-> ProductSeen(o)]
           S == [o \in Organizers |->
                   [stamp   |-> profile[o].provider_synced_at,
                    content |-> [status       |-> profile[o].provider_status,
                                 requirements |-> profile[o].requirements]]]
<1>1. CASE \A p \in Organizers : ProductKept(p)
  BY <1>1 DEF ProductKept, ProductBoard!boardVars
<1>2. ASSUME NEW o \in Organizers, NEW j \in Job, Fresh(j), ProductEffect(o, j)
      PROVE  ProductBoard!Merge(o, j)
  <2>1. M'[o] = M[o] \cup {j} /\ M' = [M EXCEPT ![o] = @ \cup {j}]
    BY <1>2 DEF ProductEffect, ProductKept, ProductStale, ProductShown
  <2>2. PICK n \in ProductSeen(o)' :
          /\ \A m \in ProductSeen(o)' : m.at <= n.at
          /\ profile'[o].provider_synced_at = n.at
          /\ profile'[o].provider_status = n.evt.status
          /\ profile'[o].requirements = n.evt.requirements
    BY <1>2, ProductNewestStep DEF ProductEffect
  <2>3. S' = [S EXCEPT ![o] = [stamp |-> n.at, content |-> ProductContent(n.evt)]]
    BY <1>2, <2>2 DEF ProductEffect, ProductKept, ProductContent
  <2>4. \A m \in M[o] : m.evt # j.evt
    BY <1>2 DEF Fresh, Recorded, ProductSeen
  <2>5. n \in ProductBoard!Newest(M'[o])
    BY <2>2 DEF ProductBoard!Newest
  <2>. QED
    BY <2>1, <2>3, <2>4, <2>5 DEF ProductBoard!Merge
<1>3. StepEffect
  BY StepEffectHolds
<1>. QED
  BY <1>1, <1>2, <1>3 DEF StepEffect, ProductBoard!Next, ProductBoard!Message, Job

(* A row's status and requirements are those of one event that no recorded *)
(* event for the row is newer than, for any order, duplication and loss of *)
(* deliveries and answers, and any handlers killed half-way.               *)
THEOREM IngestProductNewestWins == Spec => ProductNewestWins
BY ProductBoardInit, ProductBoardStep, Invariance, PTL
   DEF Spec, ProductNewestWins, ProductBoard!Spec

LEMMA AccountBoardInit == Init => AccountBoard!Init
<1> SUFFICES ASSUME Init PROVE AccountBoard!Init
  OBVIOUS
<1> DEFINE first == [o \in Organizers |-> profile[o].account_status]
<1>1. \A o \in Organizers :
        profile[o] \in Row /\ profile[o].account_synced_at = 0 /\ AccountSeen(o) = {}
  BY InitialRowsAssumption DEF Init, AccountSeen, Never
<1>2. first \in [Organizers -> AccountStatus \cup {NULL}]
  BY <1>1 DEF Row
<1>3. [o \in Organizers |-> [stamp   |-> profile[o].account_synced_at,
                             content |-> profile[o].account_status]]
        = [k \in Organizers |-> [stamp |-> 0, content |-> first[k]]]
  BY <1>1
<1>4. [o \in Organizers |-> AccountSeen(o)] = [k \in Organizers |-> {}]
  BY <1>1
<1> HIDE DEF first
<1>. QED
  BY <1>2, <1>3, <1>4 DEF AccountBoard!Init

LEMMA AccountBoardStep ==
  ASSUME IndInv, [Next]_vars
  PROVE  [AccountBoard!Next]_(AccountBoard!boardVars)
<1> DEFINE M == [o \in Organizers |-> AccountSeen(o)]
           S == [o \in Organizers |-> [stamp   |-> profile[o].account_synced_at,
                                       content |-> profile[o].account_status]]
<1>1. CASE \A p \in Organizers : AccountKept(p)
  BY <1>1 DEF AccountKept, AccountBoard!boardVars
<1>2. ASSUME NEW o \in Organizers, NEW j \in Job, Fresh(j), AccountEffect(o, j)
      PROVE  AccountBoard!Merge(o, j)
  <2>1. M'[o] = M[o] \cup {j} /\ M' = [M EXCEPT ![o] = @ \cup {j}]
    BY <1>2 DEF AccountEffect, AccountKept, AccountStale, AccountShown
  <2>2. PICK n \in AccountSeen(o)' :
          /\ \A m \in AccountSeen(o)' : m.at <= n.at
          /\ profile'[o].account_synced_at = n.at
          /\ profile'[o].account_status = AccountContent(n.evt)
    BY <1>2, AccountNewestStep DEF AccountEffect
  <2>3. S' = [S EXCEPT ![o] = [stamp |-> n.at, content |-> AccountContent(n.evt)]]
    BY <1>2, <2>2 DEF AccountEffect, AccountKept
  <2>4. \A m \in M[o] : m.evt # j.evt
    BY <1>2 DEF Fresh, Recorded, AccountSeen
  <2>5. n \in AccountBoard!Newest(M'[o])
    BY <2>2 DEF AccountBoard!Newest
  <2>. QED
    BY <2>1, <2>3, <2>4, <2>5 DEF AccountBoard!Merge
<1>3. StepEffect
  BY StepEffectHolds
<1>. QED
  BY <1>1, <1>2, <1>3 DEF StepEffect, AccountBoard!Next, AccountBoard!Message, Job

(* The payout account's status is that of an account event no recorded one *)
(* for the row is newer than.                                              *)
THEOREM IngestAccountNewestWins == Spec => AccountNewestWins
BY AccountBoardInit, AccountBoardStep, Invariance, PTL
   DEF Spec, AccountNewestWins, AccountBoard!Spec
=============================================================================
