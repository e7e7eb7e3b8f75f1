------------------------- MODULE KycSubmissionProofs -------------------------
(***************************************************************************)
(* Theorems about KycSubmission, for any number of organizers, accounts    *)
(* and requests.  SubmissionInv holds whether the requests of an organizer *)
(* overlap or not, TurnInv when each waits for the one before.  Both are   *)
(* stated so that they survive what webhooks do to the same rows.          *)
(***************************************************************************)
EXTENDS KycSubmission, OrganizerRowProofs, FiniteSetTheorems

(* The two status columns go together: the platform's status is the one    *)
(* that its own mapping gives Razorpay's, PENDING while there is none.     *)
Agree(r) ==
  r.kyc_status = IF r.provider_status = NULL THEN "PENDING" ELSE MapStatus[r.provider_status]

RowsAgree == \A o \in Organizers : Agree(profile[o])

(* What the columns of n have in common with those of r.                   *)
SameStatus(r, n) ==
  /\ n.kyc_status = r.kyc_status
  /\ n.provider_status = r.provider_status
  /\ n.requirements = r.requirements
  /\ n.submitted = r.submitted

(* The times of the last webhooks, which no request sets.                  *)
SameSync(r, n) ==
  /\ n.provider_synced_at = r.provider_synced_at
  /\ n.account_synced_at = r.account_synced_at

SameIds(r, n) ==
  /\ n.account_id = r.account_id
  /\ n.stakeholder_id = r.stakeholder_id
  /\ n.product_id = r.product_id
  /\ n.reference_code = r.reference_code

Extends(r, n) ==
  /\ Keeps(r.account_id, n.account_id)
  /\ Keeps(r.stakeholder_id, n.stakeholder_id)
  /\ Keeps(r.product_id, n.product_id)
  /\ Keeps(r.reference_code, n.reference_code)

(* Nothing that r has is missing in n.                                     *)
Fills(r, n) ==
  /\ r.account_id # NULL => n.account_id # NULL
  /\ r.stakeholder_id # NULL => n.stakeholder_id # NULL
  /\ r.product_id # NULL => n.product_id # NULL
  /\ r.details # NULL => n.details # NULL
  /\ r.submitted => n.submitted

(* A request at step st that has loaded r and has made d of it: the guard  *)
(* let r pass, no id of r is changed, each step finds the ids that it      *)
(* needs, and the columns that answers set are as loaded until they come.  *)
Local(st, r, d) ==
  /\ Agree(r) /\ r.kyc_status \in {"PENDING", "ACTION_REQUIRED"}
  /\ Extends(r, d) /\ SameSync(r, d)
  /\ d.details # NULL
  /\ r.account_id # NULL => d.account_status = r.account_status
  /\ st # "finish" => SameStatus(r, d) /\ d.product_id = r.product_id
  /\ st = "finish" => d.provider_status # NULL /\ Agree(d) /\ d.submitted /\ d.product_id # NULL
  /\ st = "account.create" => d.account_id = NULL
  /\ st = "stakeholder.create" => d.stakeholder_id = NULL
  /\ st # "details" => d.reference_code # NULL
  /\ st \notin {"details", "account.create"} => d.account_id # NULL
  /\ st \notin {"details", "account.create", "account.flush", "stakeholder.create"} =>
       d.stakeholder_id # NULL

Busy(s) == step[s] # "idle"

(* The row a request has loaded has lost nothing since.                    *)
SessionInv ==
  \A s \in Submitters : Busy(s) =>
    /\ Local(step[s], read[s], draft[s])
    /\ Fills(read[s], profile[who[s]])

(* A request that waits for Razorpay has flushed what it changed, and      *)
(* holds the row.                                                          *)
Calls == {"account.create", "stakeholder.create", "stakeholder.edit",
          "product.request", "product.edit"}

LockInv ==
  \A s \in Submitters : step[s] \in Calls /\ Dirty(s) => holder[who[s]] = s

SubmissionInv == TypeOK /\ RowsAgree /\ SessionInv /\ LockInv

(* A row under review or beyond has all its ids.                           *)
Complete(r) ==
  /\ r.submitted
  /\ r.account_id # NULL /\ r.stakeholder_id # NULL /\ r.product_id # NULL /\ r.details # NULL

CompleteInv == \A o \in Organizers : profile[o].provider_status # NULL => Complete(profile[o])

(* The ids of r are those of one linked account of o, created with the     *)
(* reference code of r.                                                    *)
TiedIn(accounts, o, r) ==
  /\ r.stakeholder_id \in {NULL, r.account_id}
  /\ r.product_id \in {NULL, r.account_id}
  /\ r.account_id # NULL =>
       /\ accounts[r.account_id].owner = o
       /\ accounts[r.account_id].code = r.reference_code
       /\ r.reference_code # NULL

Tied(o, r) == TiedIn(remote, o, r)

(* One request at a time: it has loaded the ids as they still are, and     *)
(* there is an account for every fault and one that is stored or about to  *)
(* be.                                                                     *)
InTurn ==
  \A s, t \in Submitters : Busy(s) /\ Busy(t) /\ who[s] = who[t] => s = t

ReadIsCurrent ==
  \A s \in Submitters : Busy(s) => SameIds(read[s], profile[who[s]])

TiedInv ==
  /\ \A o \in Organizers : Tied(o, profile[o])
  /\ \A s \in Submitters : Busy(s) => Tied(who[s], draft[s])

Owned(o) == {a \in Accounts : remote[a].owner = o}

HasAccount(o) ==
  \/ profile[o].account_id # NULL
  \/ \E s \in Submitters : Busy(s) /\ who[s] = o /\ draft[s].account_id # NULL

CountInv ==
  \A o \in Organizers :
    /\ IsFiniteSet(Owned(o))
    /\ Cardinality(Owned(o)) <= faults + IF HasAccount(o) THEN 1 ELSE 0

TurnInv == OneAtATime => InTurn /\ ReadIsCurrent /\ TiedInv /\ CountInv

USE NullAssumption, NullStatusAssumption, SubmittersAssumption, RepliesAssumption,
    OneAtATimeAssumption, MaxFaultsAssumption

-----------------------------------------------------------------------------
(* The status columns.                                                     *)

LEMMA MapStatusCases ==
  ASSUME NEW p \in ProviderStatus
  PROVE  /\ MapStatus[p] \in {"IN_REVIEW", "ACTION_REQUIRED", "VERIFIED", "REJECTED"}
         /\ MapStatus[p] = "ACTION_REQUIRED" <=> p = "needs_clarification"
         /\ MapStatus[p] = "VERIFIED" <=> p = "activated"
         /\ MapStatus[p] = "REJECTED" <=> p = "suspended"
BY DEF MapStatus, ProviderStatus

LEMMA WrittenColumns ==
  ASSUME TypeOK, NEW s \in Submitters, Busy(s)
  PROVE  LET o == profile[who[s]]  r == read[s]  d == draft[s]  n == Written(s) IN
         /\ n \in Row
         /\ n.kyc_status = Column(o.kyc_status, r.kyc_status, d.kyc_status)
         /\ n.provider_status = Column(o.provider_status, r.provider_status, d.provider_status)
         /\ n.requirements = Column(o.requirements, r.requirements, d.requirements)
         /\ n.account_status = Column(o.account_status, r.account_status, d.account_status)
         /\ n.provider_synced_at =
              Column(o.provider_synced_at, r.provider_synced_at, d.provider_synced_at)
         /\ n.account_synced_at =
              Column(o.account_synced_at, r.account_synced_at, d.account_synced_at)
         /\ n.details = Column(o.details, r.details, d.details)
         /\ n.submitted = Column(o.submitted, r.submitted, d.submitted)
         /\ n.account_id = Column(o.account_id, r.account_id, d.account_id)
         /\ n.stakeholder_id = Column(o.stakeholder_id, r.stakeholder_id, d.stakeholder_id)
         /\ n.product_id = Column(o.product_id, r.product_id, d.product_id)
         /\ n.reference_code = Column(o.reference_code, r.reference_code, d.reference_code)
<1>1. profile[who[s]] \in Row /\ read[s] \in Row /\ draft[s] \in Row
      BY DEF TypeOK, Busy
<1>2. Written(s) \in Row
      BY <1>1, FlushType DEF Written
<1> QED BY <1>2 DEF Written, Flush

(* A flush of a copy in which nothing was changed writes nothing.          *)
LEMMA WrittenClean ==
  ASSUME TypeOK, NEW s \in Submitters, Busy(s), ~Dirty(s)
  PROVE  Written(s) = profile[who[s]]
<1>1. profile[who[s]] \in Row /\ draft[s] = read[s]
      BY DEF TypeOK, Busy, Dirty
<1>2. ASSUME NEW r \in Row, NEW l PROVE Flush(r, l, l) = r
      BY DEF Flush, Column, Row
<1> QED BY <1>1, <1>2 DEF Written

(* What a request writes leaves the two statuses in agreement: either both *)
(* change or none does.                                                    *)
LEMMA WrittenAgrees ==
  ASSUME TypeOK, RowsAgree, NEW s \in Submitters, Busy(s), Local(step[s], read[s], draft[s])
  PROVE  Agree(Written(s))
<1> DEFINE o == profile[who[s]]
           r == read[s]
           d == draft[s]
           n == Written(s)
<1>1. o \in Row /\ r \in Row /\ d \in Row /\ Agree(o)
      BY DEF TypeOK, Busy, RowsAgree
<1>2. /\ n.kyc_status = Column(o.kyc_status, r.kyc_status, d.kyc_status)
      /\ n.provider_status = Column(o.provider_status, r.provider_status, d.provider_status)
      BY WrittenColumns
<1>3. Agree(r) /\ r.kyc_status \in {"PENDING", "ACTION_REQUIRED"}
      BY DEF Local
<1>4. \A x \in Row : x.provider_status # NULL => x.provider_status \in ProviderStatus
      BY DEF Row
<1> HIDE DEF o, r, d, n
<1>5. ASSUME d.kyc_status = r.kyc_status, d.provider_status = r.provider_status PROVE Agree(n)
      BY <1>1, <1>2, <1>5 DEF Agree, Column
<1>6. ASSUME Agree(d), d.provider_status # NULL, d.provider_status # r.provider_status
      PROVE  Agree(n)
  <2>1. d.kyc_status = MapStatus[d.provider_status] /\ d.provider_status \in ProviderStatus
        BY <1>1, <1>4, <1>6 DEF Agree
  <2>2. d.kyc_status # r.kyc_status
    <3>1. CASE r.provider_status = NULL
          BY <1>3, <2>1, <3>1, MapStatusCases DEF Agree
    <3>2. CASE r.provider_status # NULL
      <4>1. r.kyc_status = MapStatus[r.provider_status] /\ r.provider_status \in ProviderStatus
            BY <1>1, <1>3, <1>4, <3>2 DEF Agree
      <4>2. r.kyc_status = "ACTION_REQUIRED" /\ r.provider_status = "needs_clarification"
            BY <1>3, <4>1, MapStatusCases
      <4> QED BY <1>6, <2>1, <4>2, MapStatusCases
    <3> QED BY <3>1, <3>2
  <2>3. n.kyc_status = d.kyc_status /\ n.provider_status = d.provider_status
        BY <1>2, <1>6, <2>2 DEF Column
  <2> QED BY <1>6, <2>3 DEF Agree
<1>7. ASSUME Agree(d), d.provider_status = r.provider_status PROVE Agree(n)
      BY <1>3, <1>5, <1>7 DEF Agree
<1>8. Agree(n)
  <2>1. \/ d.kyc_status = r.kyc_status /\ d.provider_status = r.provider_status
        \/ Agree(d) /\ d.provider_status # NULL
        BY DEF Local, SameStatus, r, d
  <2> QED BY <1>5, <1>6, <1>7, <2>1
<1> QED BY <1>8 DEF n

(* Nothing that the stored row has, and nothing that the request has, is   *)
(* missing in what the request writes.                                     *)
LEMMA WrittenFills ==
  ASSUME TypeOK, NEW s \in Submitters, Busy(s), Local(step[s], read[s], draft[s]),
         Fills(read[s], profile[who[s]])
  PROVE  Fills(profile[who[s]], Written(s)) /\ Fills(draft[s], Written(s))
<1> DEFINE o == profile[who[s]]
           r == read[s]
           d == draft[s]
           n == Written(s)
<1>1. /\ n.details = Column(o.details, r.details, d.details)
      /\ n.submitted = Column(o.submitted, r.submitted, d.submitted)
      /\ n.account_id = Column(o.account_id, r.account_id, d.account_id)
      /\ n.stakeholder_id = Column(o.stakeholder_id, r.stakeholder_id, d.stakeholder_id)
      /\ n.product_id = Column(o.product_id, r.product_id, d.product_id)
      BY WrittenColumns
<1>2. /\ Keeps(r.account_id, d.account_id) /\ Keeps(r.stakeholder_id, d.stakeholder_id)
      /\ Keeps(r.product_id, d.product_id) /\ d.details # NULL
      /\ d.submitted \/ d.submitted = r.submitted
      BY DEF Local, Extends, SameStatus
<1>3. Fills(r, o)
      OBVIOUS
<1> HIDE DEF o, r, d, n
<1>4. Fills(o, n)
      BY <1>1, <1>2, <1>3 DEF Fills, Column, Keeps
<1>5. Fills(d, n)
      BY <1>1, <1>2, <1>3 DEF Fills, Column, Keeps
<1> QED BY <1>4, <1>5 DEF o, r, d, n

-----------------------------------------------------------------------------
(* What each call makes of the request's row.                              *)

LEMMA NextStep ==
  ASSUME NEW d \in Row, NEW b \in BOOLEAN
  PROVE  /\ ProductStep(d) \in {"product.request", "product.edit"}
         /\ \/ StakeholderStep(d, b) = "stakeholder.create" /\ d.stakeholder_id = NULL
            \/ /\ StakeholderStep(d, b) \in {"stakeholder.edit", "product.request", "product.edit"}
               /\ d.stakeholder_id # NULL
         /\ \/ AccountStep(d, b) = "account.create" /\ d.account_id = NULL
            \/ AccountStep(d, b) = StakeholderStep(d, b) /\ d.account_id # NULL
BY DEF ProductStep, StakeholderStep, AccountStep

LEMMA LocalStart ==
  ASSUME NEW r \in Row, Agree(r), Submittable(r), NEW f \in Forms
  PROVE  LET d == [r EXCEPT !.details = f] IN
           d \in Row /\ Local("details", r, d) /\ SameIds(r, d)
<1> DEFINE d == [r EXCEPT !.details = f]
<1>1. /\ d \in Row /\ SameIds(r, d) /\ SameStatus(r, d) /\ SameSync(r, d) /\ d.details = f
      /\ d.account_status = r.account_status
      BY DEF Row, SameIds, SameStatus, SameSync
<1>2. r.kyc_status \in {"PENDING", "ACTION_REQUIRED"}
      BY DEF Submittable, Row, KYCStatus
<1> HIDE DEF d
<1>3. Extends(r, d) /\ d.details # NULL
      BY <1>1 DEF SameIds, Extends, Keeps
<1> QED BY <1>1, <1>2, <1>3 DEF Local, SameIds, d

LEMMA LocalCode ==
  ASSUME NEW r \in Row, NEW d \in Row, Local("details", r, d), NEW c \in Codes,
         d.reference_code \in {NULL, c}, NEW b \in BOOLEAN
  PROVE  LET n == [d EXCEPT !.reference_code = c] IN
           /\ n \in Row /\ Local(AccountStep(n, b), r, n)
           /\ n.reference_code = c /\ n.account_id = d.account_id
           /\ n.stakeholder_id = d.stakeholder_id /\ n.product_id = d.product_id
           /\ n.account_status = d.account_status
<1> DEFINE n == [d EXCEPT !.reference_code = c]
<1>1. /\ n \in Row /\ n.reference_code = c /\ n.account_id = d.account_id
      /\ n.stakeholder_id = d.stakeholder_id /\ n.product_id = d.product_id
      /\ SameStatus(d, n) /\ SameSync(d, n) /\ n.details = d.details
      /\ n.account_status = d.account_status
      BY DEF Row, SameStatus, SameSync
<1> HIDE DEF n
<1>2. Extends(r, n)
      BY <1>1 DEF Local, Extends, Keeps
<1>3. SameStatus(r, n) /\ SameSync(r, n) /\ n.details # NULL /\ n.reference_code # NULL
      BY <1>1 DEF Local, SameStatus, SameSync
<1>4. Local(AccountStep(n, b), r, n)
      BY <1>1, <1>2, <1>3, NextStep DEF Local
<1> QED BY <1>1, <1>4 DEF n

LEMMA LocalAccount ==
  ASSUME NEW r \in Row, NEW d \in Row, Local("account.create", r, d), NEW n \in Row,
         n.account_id # NULL, n.reference_code = d.reference_code,
         n.stakeholder_id = d.stakeholder_id, n.product_id = d.product_id,
         n.details = d.details, SameStatus(d, n), SameSync(d, n)
  PROVE  Local("account.flush", r, n)
<1>1. Extends(r, n) /\ r.account_id = NULL
      BY DEF Local, Extends, Keeps
<1>2. SameStatus(r, n) /\ SameSync(r, n)
      BY DEF Local, SameStatus, SameSync
<1> QED BY <1>1, <1>2 DEF Local

LEMMA LocalStakeholder ==
  ASSUME NEW r \in Row, NEW d \in Row, Local("stakeholder.create", r, d)
  PROVE  LET n == [d EXCEPT !.stakeholder_id = d.account_id] IN
           /\ n \in Row /\ Local("stakeholder.flush", r, n)
           /\ n.account_id = d.account_id /\ n.reference_code = d.reference_code
           /\ n.stakeholder_id = d.account_id /\ n.product_id = d.product_id
           /\ n.account_status = d.account_status
<1> DEFINE n == [d EXCEPT !.stakeholder_id = d.account_id]
<1>1. /\ n \in Row /\ n.account_id = d.account_id /\ n.reference_code = d.reference_code
      /\ n.stakeholder_id = d.account_id /\ n.product_id = d.product_id
      /\ SameStatus(d, n) /\ SameSync(d, n) /\ n.details = d.details
      /\ n.account_status = d.account_status
      BY DEF Row, SameStatus, SameSync
<1> HIDE DEF n
<1>2. Extends(r, n)
      BY <1>1 DEF Local, Extends, Keeps
<1>3. SameStatus(r, n) /\ SameSync(r, n)
      BY <1>1 DEF Local, SameStatus, SameSync
<1>4. Local("stakeholder.flush", r, n)
      BY <1>1, <1>2, <1>3 DEF Local
<1> QED BY <1>1, <1>4 DEF n

LEMMA LocalProduct ==
  ASSUME NEW r \in Row, NEW d \in Row, NEW st \in {"product.request", "product.edit"},
         Local(st, r, d), NEW p \in ProviderStatus, NEW q \in Requirements \cup {NULL}
  PROVE  LET n == WithProduct(d, p, q) IN
           /\ n \in Row /\ Local("finish", r, n)
           /\ n.account_id = d.account_id /\ n.reference_code = d.reference_code
           /\ n.stakeholder_id = d.stakeholder_id
           /\ n.product_id = (IF d.product_id = NULL THEN d.account_id ELSE d.product_id)
           /\ n.provider_status = p /\ n.requirements = q
           /\ n.account_status = d.account_status
<1> DEFINE n == WithProduct(d, p, q)
<1>0. /\ d.account_id # NULL /\ d.stakeholder_id # NULL /\ d.reference_code # NULL
      /\ d.details # NULL /\ Extends(r, d) /\ SameSync(r, d)
      BY DEF Local
<1>1. MapStatus[p] \in KYCStatus /\ (d.activated \/ p = "activated") \in BOOLEAN
      BY MapStatusType
<1>2. (IF d.product_id = NULL THEN d.account_id ELSE d.product_id) \in Accounts
      BY <1>0 DEF Row
<1>3. /\ n \in Row /\ n.account_id = d.account_id /\ n.reference_code = d.reference_code
      /\ n.stakeholder_id = d.stakeholder_id
      /\ n.product_id = (IF d.product_id = NULL THEN d.account_id ELSE d.product_id)
      /\ n.provider_status = p /\ n.kyc_status = MapStatus[p] /\ n.submitted
      /\ n.requirements = q /\ n.details = d.details
      /\ n.account_status = d.account_status /\ SameSync(d, n)
  <2> DEFINE i == IF d.product_id = NULL THEN d.account_id ELSE d.product_id
             k == MapStatus[p]
             b == d.activated \/ p = "activated"
  <2>1. n = [d EXCEPT !.product_id = i, !.provider_status = p, !.kyc_status = k,
                      !.requirements = q, !.submitted = TRUE, !.activated = b]
        BY DEF WithProduct
  <2>2. i \in Accounts /\ k \in KYCStatus /\ b \in BOOLEAN
        BY <1>1, <1>2
  <2> HIDE DEF i, k, b, n
  <2>3. /\ n \in Row /\ n.account_id = d.account_id /\ n.reference_code = d.reference_code
        /\ n.stakeholder_id = d.stakeholder_id /\ n.product_id = i
        /\ n.provider_status = p /\ n.kyc_status = k /\ n.submitted
        /\ n.requirements = q /\ n.details = d.details
        /\ n.account_status = d.account_status /\ SameSync(d, n)
    <3>1. n \in Row
          BY <2>1, <2>2 DEF Row
    <3>2. /\ n.account_id = d.account_id /\ n.reference_code = d.reference_code
          /\ n.stakeholder_id = d.stakeholder_id /\ n.product_id = i
          /\ n.provider_status = p /\ n.kyc_status = k /\ n.submitted
          /\ n.details = d.details
          BY <2>1, <2>2 DEF Row
    <3>3. n.requirements = q /\ n.account_status = d.account_status /\ SameSync(d, n)
          BY <2>1, <2>2 DEF Row, SameSync
    <3> QED BY <3>1, <3>2, <3>3
  <2> QED BY <2>3 DEF i, k
<1> HIDE DEF n
<1>4. Extends(r, n)
      BY <1>0, <1>3 DEF Extends, Keeps
<1>5. Agree(n) /\ n.provider_status # NULL
      BY <1>3 DEF Agree
<1>5a. SameSync(r, n) /\ (r.account_id # NULL => n.account_status = r.account_status)
      BY <1>0, <1>3 DEF SameSync, Local
<1>6. Local("finish", r, n)
      BY <1>0, <1>2, <1>3, <1>4, <1>5, <1>5a DEF Local
<1> QED BY <1>3, <1>6 DEF n

-----------------------------------------------------------------------------
(* The steps of a request: it begins with the row as it is, moves on with  *)
(* a row of its own, or ends and commits that row or nothing.              *)

Others(s) ==
  \A t \in Submitters \ {s} : /\ step'[t] = step[t] /\ who'[t] = who[t]
                             /\ read'[t] = read[t] /\ draft'[t] = draft[t]

(* What Razorpay has on file for its accounts, but for the statuses.       *)
AccountsSame ==
  \A a \in Accounts : remote'[a].owner = remote[a].owner /\ remote'[a].code = remote[a].code

AccountNew(a, o, c) ==
  /\ remote[a].owner = NULL /\ remote'[a].owner = o /\ remote'[a].code = c
  /\ \A b \in Accounts \ {a} :
       remote'[b].owner = remote[b].owner /\ remote'[b].code = remote[b].code

(* A call changes the product of the request's own account, and its status *)
(* only if Razorpay has not decided on that yet.                           *)
ProductSame(a) ==
  /\ remote'[a].product = remote[a].product
  /\ remote'[a].requirements = remote[a].requirements

ProductsKept(s) ==
  \A a \in Accounts :
    \/ ProductSame(a)
    \/ /\ a = draft[s].account_id
       /\ IF Decided(a) THEN remote'[a].product = remote[a].product
                        ELSE remote'[a].product \in Replies
       /\ remote'[a].requirements \in RequirementsFor(remote'[a].product)

(* Only Razorpay changes the status of an account it has created.          *)
StatusesKept ==
  \A a \in Accounts : remote[a].owner # NULL => remote'[a].status = remote[a].status

Begins(s, o) ==
  /\ Others(s) /\ ~Busy(s)
  /\ OneAtATime => \A t \in Submitters : who[t] # o
  /\ step'[s] = "details" /\ who'[s] = o /\ read'[s] = profile[o] /\ draft'[s] \in Row
  /\ Local("details", profile[o], draft'[s]) /\ SameIds(profile[o], draft'[s])
  /\ UNCHANGED <<profile, holder, remote, answer, faults>>

Moves(s) ==
  /\ Others(s) /\ Busy(s)
  /\ step'[s] \in Steps \ {"idle"} /\ who'[s] = who[s] /\ read'[s] = read[s]
  /\ draft'[s] \in Row /\ Local(step'[s], read[s], draft'[s])
  /\ UNCHANGED <<profile, answer, faults>>
  /\ holder' = holder \/ (CanWrite(s) /\ holder' = [holder EXCEPT ![who[s]] = s])
  /\ step'[s] \in Calls /\ draft'[s] # read[s] => holder'[who[s]] = s
  /\ draft'[s].stakeholder_id \in {draft[s].stakeholder_id, draft'[s].account_id}
  /\ draft'[s].product_id \in {draft[s].product_id, draft'[s].account_id}
  /\ Keeps(draft[s].reference_code, draft'[s].reference_code)
  /\ ProductsKept(s) /\ StatusesKept
  /\ IF step'[s] = "finish"
       THEN /\ draft'[s].provider_status = remote'[draft'[s].account_id].product
            /\ draft'[s].requirements = remote'[draft'[s].account_id].requirements
       ELSE \A a \in Accounts : ProductSame(a)
  /\ \/ /\ AccountsSame /\ draft'[s].account_id = draft[s].account_id
        /\ draft'[s].account_status = draft[s].account_status
     \/ /\ draft[s].account_id = NULL /\ draft[s].reference_code # NULL
        /\ \E a \in Accounts : /\ draft'[s].account_id = a
                              /\ draft'[s].account_status = remote'[a].status
                              /\ AccountNew(a, who[s], draft[s].reference_code)

Ends(s) ==
  /\ Others(s) /\ Busy(s)
  /\ step'[s] = "idle" /\ ProductsKept(s) /\ StatusesKept
  /\ holder' = [o \in Organizers |-> IF holder[o] = s THEN NULL ELSE holder[o]]
  /\ \/ UNCHANGED profile /\ AccountsSame /\ faults' = faults + 1
     \/ /\ profile' = [profile EXCEPT ![who[s]] = Written(s)]
        /\ Dirty(s) => CanWrite(s)
        /\ \/ faults' = faults /\ AccountsSame
           \/ /\ faults' = faults + 1
              /\ AccountsSame \/ \E a \in Accounts : AccountNew(a, who[s], draft[s].reference_code)

LEMMA OneOfSubset == ASSUME NEW V PROVE OneOf(V) \subseteq V
BY DEF OneOf

LEMMA BusyFacts ==
  ASSUME TypeOK, SessionInv, LockInv, NEW s \in Submitters, Busy(s)
  PROVE  /\ who[s] \in Organizers /\ read[s] \in Row /\ draft[s] \in Row
         /\ Local(step[s], read[s], draft[s]) /\ Fills(read[s], profile[who[s]])
         /\ IsResubmission(s) \in BOOLEAN
BY DEF TypeOK, SessionInv, Busy, IsResubmission

LEMMA FlushToEffect ==
  ASSUME TypeOK, NEW s \in Submitters, Busy(s), NEW n, FlushTo(s, n)
  PROVE  /\ holder' \in [Organizers -> Sessions \cup {NULL}]
         /\ holder' = holder \/ (CanWrite(s) /\ holder' = [holder EXCEPT ![who[s]] = s])
         /\ n # read[s] => holder'[who[s]] = s
BY DEF TypeOK, Busy, FlushTo

(* A request that moves on with row n, to step st.                         *)
LEMMA MoveTyped ==
  ASSUME TypeOK, NEW s \in Submitters, Busy(s), NEW n \in Row, NEW st \in Steps,
         draft' = [draft EXCEPT ![s] = n], step' = [step EXCEPT ![s] = st],
         UNCHANGED <<profile, who, read, answer, faults>>,
         holder' \in [Organizers -> Sessions \cup {NULL}],
         remote' \in [Accounts -> LinkedAccount]
  PROVE  /\ TypeOK'
         /\ Others(s) /\ step'[s] = st /\ draft'[s] = n /\ who'[s] = who[s] /\ read'[s] = read[s]
<1>1. /\ Others(s) /\ step'[s] = st /\ draft'[s] = n /\ who'[s] = who[s] /\ read'[s] = read[s]
      BY DEF TypeOK, Others
<1>2. step' \in [Submitters -> Steps] /\ draft' \in [Submitters -> Row \cup {NULL}]
      BY DEF TypeOK
<1>3. \A t \in Submitters : step'[t] # "idle" =>
         who'[t] \in Organizers /\ read'[t] \in Row /\ draft'[t] \in Row
      BY <1>1 DEF TypeOK, Others, Busy
<1> QED BY <1>1, <1>2, <1>3 DEF TypeOK

LEMMA EndTyped ==
  ASSUME TypeOK, NEW s \in Submitters, Busy(s), NEW a \in Answers, EndRequest(s, a),
         profile' \in [Organizers -> Row], remote' \in [Accounts -> LinkedAccount],
         faults' \in 0..MaxFaults
  PROVE  TypeOK' /\ Others(s) /\ step'[s] = "idle"
<1>1. Others(s) /\ step'[s] = "idle"
      BY DEF TypeOK, Others, EndRequest
<1>2. /\ step' \in [Submitters -> Steps] /\ who' \in [Submitters -> Organizers \cup {NULL}]
      /\ read' \in [Submitters -> Row \cup {NULL}] /\ draft' \in [Submitters -> Row \cup {NULL}]
      BY DEF TypeOK, EndRequest, Steps
<1>3. /\ holder' \in [Organizers -> Sessions \cup {NULL}] /\ answer' \in [Organizers -> Answers]
      BY DEF TypeOK, EndRequest, Busy
<1>4. \A t \in Submitters : step'[t] # "idle" =>
         who'[t] \in Organizers /\ read'[t] \in Row /\ draft'[t] \in Row
      BY <1>1 DEF TypeOK, Others
<1> QED BY <1>1, <1>2, <1>3, <1>4 DEF TypeOK

LEMMA CommitTyped ==
  ASSUME TypeOK, NEW s \in Submitters, Busy(s), NEW a \in Answers, CommitAndAnswer(s, a),
         remote' \in [Accounts -> LinkedAccount], faults' \in 0..MaxFaults
  PROVE  /\ TypeOK' /\ Others(s) /\ step'[s] = "idle"
         /\ profile' = [profile EXCEPT ![who[s]] = Written(s)]
         /\ holder' = [o \in Organizers |-> IF holder[o] = s THEN NULL ELSE holder[o]]
<1>1. profile' \in [Organizers -> Row]
      BY WrittenColumns DEF CommitAndAnswer, TypeOK
<1>2. EndRequest(s, a)
      BY DEF CommitAndAnswer
<1> QED BY <1>1, <1>2, EndTyped DEF CommitAndAnswer, EndRequest

(* A call that is refused, or whose answer is lost, ends the request.      *)
LEMMA RefusedEnds ==
  ASSUME TypeOK, SessionInv, LockInv, NEW s \in Submitters, step[s] \in Calls, CallRefused(s)
  PROVE  TypeOK' /\ Ends(s) /\ UNCHANGED remote
<1>1. Busy(s) /\ (Dirty(s) => CanWrite(s))
      BY DEF Busy, Calls, LockInv, CanWrite
<1>2. PICK a \in {"rejected", "retry"} : CommitAndAnswer(s, a) /\ UNCHANGED <<remote, faults>>
      BY DEF CallRefused
<1>3. a \in Answers
      BY DEF Answers
<1>4. remote' \in [Accounts -> LinkedAccount] /\ faults' \in 0..MaxFaults
      BY <1>2 DEF TypeOK
<1> QED BY <1>1, <1>2, <1>3, <1>4, CommitTyped DEF Ends, AccountsSame, ProductsKept, ProductSame, StatusesKept

LEMMA LostEnds ==
  ASSUME TypeOK, SessionInv, LockInv, NEW s \in Submitters, step[s] \in Calls, AnswerLost(s),
         remote' \in [Accounts -> LinkedAccount], ProductsKept(s), StatusesKept,
         AccountsSame \/ \E a \in Accounts : AccountNew(a, who[s], draft[s].reference_code)
  PROVE  TypeOK' /\ Ends(s)
<1>1. Busy(s) /\ (Dirty(s) => CanWrite(s))
      BY DEF Busy, Calls, LockInv, CanWrite
<1>2. faults' \in 0..MaxFaults /\ faults' = faults + 1
      BY DEF AnswerLost, TypeOK
<1>3. CommitAndAnswer(s, "retry") /\ "retry" \in Answers
      BY DEF AnswerLost, Answers
<1> QED BY <1>1, <1>2, <1>3, CommitTyped DEF Ends

LEMMA StartBegins ==
  ASSUME TypeOK, RowsAgree, NEW s \in Submitters, NEW o \in Organizers, NEW f \in Forms,
         Start(s, o, f)
  PROVE  TypeOK' /\ Begins(s, o)
<1> DEFINE n == [profile[o] EXCEPT !.details = f]
<1>1. profile[o] \in Row /\ Agree(profile[o]) /\ Submittable(profile[o])
      BY DEF TypeOK, RowsAgree, Start
<1>2. n \in Row /\ Local("details", profile[o], n) /\ SameIds(profile[o], n)
      BY <1>1, LocalStart
<1>3. draft' = [draft EXCEPT ![s] = n]
      BY DEF Start
<1> HIDE DEF n
<1>4. /\ step' \in [Submitters -> Steps] /\ who' \in [Submitters -> Organizers \cup {NULL}]
      /\ read' \in [Submitters -> Row \cup {NULL}] /\ draft' \in [Submitters -> Row \cup {NULL}]
      BY <1>1, <1>2, <1>3 DEF TypeOK, Start, Steps
<1>5. /\ Others(s) /\ step'[s] = "details" /\ who'[s] = o
      /\ read'[s] = profile[o] /\ draft'[s] = n
      BY <1>3 DEF TypeOK, Start, Others
<1>6. \A t \in Submitters : step'[t] # "idle" =>
         who'[t] \in Organizers /\ read'[t] \in Row /\ draft'[t] \in Row
      BY <1>1, <1>2, <1>5 DEF TypeOK, Others
<1> QED BY <1>2, <1>4, <1>5, <1>6 DEF TypeOK, Start, Begins, Busy

(* The flushes between the calls change no column.                         *)
LEMMA LocalFlush ==
  ASSUME NEW r \in Row, NEW d \in Row, NEW b \in BOOLEAN
  PROVE  /\ Local("account.flush", r, d) => Local(StakeholderStep(d, b), r, d)
         /\ Local("stakeholder.flush", r, d) => Local(ProductStep(d), r, d)
         /\ Local("stakeholder.edit", r, d) => Local(ProductStep(d), r, d)
         /\ {StakeholderStep(d, b), ProductStep(d)} \subseteq Steps \ {"idle", "finish"}
<1>1. ProductStep(d) \in {"product.request", "product.edit"}
      BY NextStep
<1>2. \/ StakeholderStep(d, b) = "stakeholder.create" /\ d.stakeholder_id = NULL
      \/ /\ StakeholderStep(d, b) \in {"stakeholder.edit", "product.request", "product.edit"}
         /\ d.stakeholder_id # NULL
      BY NextStep
<1>3. {StakeholderStep(d, b), ProductStep(d)} \subseteq Steps \ {"idle", "finish"}
      BY <1>1, <1>2 DEF Steps
<1> DEFINE p == ProductStep(d)
           k == StakeholderStep(d, b)
<1> HIDE DEF p, k
<1>4. p \in {"product.request", "product.edit"}
      BY <1>1 DEF p
<1>5. \/ k = "stakeholder.create" /\ d.stakeholder_id = NULL
      \/ k \in {"stakeholder.edit", "product.request", "product.edit"} /\ d.stakeholder_id # NULL
      BY <1>2 DEF k
<1>6. Local("account.flush", r, d) => Local(k, r, d)
      BY <1>5 DEF Local
<1>7. Local("stakeholder.flush", r, d) => Local(p, r, d)
      BY <1>4 DEF Local
<1>8. Local("stakeholder.edit", r, d) => Local(p, r, d)
      BY <1>4 DEF Local
<1> QED BY <1>3, <1>6, <1>7, <1>8 DEF p, k

LEMMA SaveDetailsMoves ==
  ASSUME TypeOK, SessionInv, LockInv, NEW s \in Submitters, SaveDetails(s)
  PROVE  TypeOK' /\ Moves(s)
<1>1. Busy(s) /\ step[s] = "details"
      BY DEF SaveDetails, Busy
<1>2. /\ who[s] \in Organizers /\ read[s] \in Row /\ draft[s] \in Row
      /\ Local("details", read[s], draft[s]) /\ IsResubmission(s) \in BOOLEAN
      BY <1>1, BusyFacts
<1>3. FreshCodes \subseteq Codes
      BY OneOfSubset DEF FreshCodes
<1>4. PICK c \in IF draft[s].reference_code = NULL THEN FreshCodes ELSE {draft[s].reference_code} :
         LET new == [draft[s] EXCEPT !.reference_code = c] IN
           /\ FlushTo(s, new)
           /\ draft' = [draft EXCEPT ![s] = new]
           /\ step' = [step EXCEPT ![s] = AccountStep(new, IsResubmission(s))]
      BY DEF SaveDetails
<1>5. c \in Codes /\ draft[s].reference_code \in {NULL, c}
      BY <1>2, <1>3 DEF Row
<1> DEFINE n == [draft[s] EXCEPT !.reference_code = c]
           st == AccountStep(n, IsResubmission(s))
<1>6. /\ n \in Row /\ Local(st, read[s], n)
      /\ n.reference_code = c /\ n.account_id = draft[s].account_id
      /\ n.stakeholder_id = draft[s].stakeholder_id /\ n.product_id = draft[s].product_id
      /\ n.account_status = draft[s].account_status
      BY <1>2, <1>5, LocalCode
<1>7. FlushTo(s, n) /\ draft' = [draft EXCEPT ![s] = n] /\ step' = [step EXCEPT ![s] = st]
      BY <1>4
<1>8. st \in Steps \ {"idle", "finish"}
      BY <1>2, <1>6, NextStep DEF Steps
<1> HIDE DEF n, st
<1>9. UNCHANGED <<profile, remote, who, read, answer, faults>>
      BY DEF SaveDetails
<1>10. /\ holder' \in [Organizers -> Sessions \cup {NULL}]
       /\ holder' = holder \/ (CanWrite(s) /\ holder' = [holder EXCEPT ![who[s]] = s])
       /\ n # read[s] => holder'[who[s]] = s
       BY <1>1, <1>7, FlushToEffect
<1>11. remote' \in [Accounts -> LinkedAccount]
       BY <1>9 DEF TypeOK
<1>12. /\ TypeOK'
       /\ Others(s) /\ step'[s] = st /\ draft'[s] = n /\ who'[s] = who[s] /\ read'[s] = read[s]
       BY <1>1, <1>6, <1>7, <1>8, <1>9, <1>10, <1>11, MoveTyped
<1>13. Keeps(draft[s].reference_code, c)
       BY <1>5 DEF Keeps
<1>14. /\ AccountsSame /\ ProductsKept(s) /\ StatusesKept
       /\ \A a \in Accounts : ProductSame(a)
       BY <1>9 DEF AccountsSame, ProductsKept, ProductSame, StatusesKept
<1> QED BY <1>1, <1>6, <1>8, <1>9, <1>10, <1>12, <1>13, <1>14 DEF Moves

(* A flush on the way moves the request on with the row it has.            *)
LEMMA FlushMoves ==
  ASSUME TypeOK, SessionInv, LockInv, NEW s \in Submitters, Busy(s), FlushTo(s, draft[s]),
         NEW st \in Steps \ {"idle", "finish"}, Local(st, read[s], draft[s]),
         step' = [step EXCEPT ![s] = st],
         UNCHANGED <<profile, remote, who, read, draft, answer, faults>>
  PROVE  TypeOK' /\ Moves(s)
<1>1. /\ who[s] \in Organizers /\ read[s] \in Row /\ draft[s] \in Row
      BY BusyFacts
<1>2. /\ holder' \in [Organizers -> Sessions \cup {NULL}]
      /\ holder' = holder \/ (CanWrite(s) /\ holder' = [holder EXCEPT ![who[s]] = s])
      /\ draft[s] # read[s] => holder'[who[s]] = s
      BY FlushToEffect
<1>3. draft' = [draft EXCEPT ![s] = draft[s]] /\ remote' \in [Accounts -> LinkedAccount]
      BY DEF TypeOK
<1>4. /\ TypeOK'
      /\ Others(s) /\ step'[s] = st /\ draft'[s] = draft[s] /\ who'[s] = who[s] /\ read'[s] = read[s]
      BY <1>1, <1>2, <1>3, MoveTyped
<1>5. /\ Keeps(draft[s].reference_code, draft[s].reference_code)
      /\ AccountsSame /\ ProductsKept(s) /\ StatusesKept
      /\ \A a \in Accounts : ProductSame(a)
      BY DEF Keeps, AccountsSame, ProductsKept, ProductSame, StatusesKept
<1> QED BY <1>1, <1>2, <1>4, <1>5 DEF Moves

LEMMA FlushStepsMove ==
  ASSUME TypeOK, SessionInv, LockInv, NEW s \in Submitters, FlushAccount(s) \/ FlushStakeholder(s)
  PROVE  TypeOK' /\ Moves(s)
<1>1. Busy(s)
      BY DEF FlushAccount, FlushStakeholder, Busy
<1>2. /\ read[s] \in Row /\ draft[s] \in Row /\ IsResubmission(s) \in BOOLEAN
      /\ Local(step[s], read[s], draft[s])
      BY <1>1, BusyFacts
<1>3. CASE FlushAccount(s)
  <2>1. Local(StakeholderStep(draft[s], IsResubmission(s)), read[s], draft[s])
        BY <1>2, <1>3, LocalFlush DEF FlushAccount
  <2>2. StakeholderStep(draft[s], IsResubmission(s)) \in Steps \ {"idle", "finish"}
        BY <1>2, LocalFlush
  <2> QED BY <1>1, <1>3, <2>1, <2>2, FlushMoves DEF FlushAccount
<1>4. CASE FlushStakeholder(s)
  <2>1. Local(ProductStep(draft[s]), read[s], draft[s])
        BY <1>2, <1>4, LocalFlush DEF FlushStakeholder
  <2>2. ProductStep(draft[s]) \in Steps \ {"idle", "finish"}
        BY <1>2, LocalFlush
  <2> QED BY <1>1, <1>4, <2>1, <2>2, FlushMoves DEF FlushStakeholder
<1> QED BY <1>3, <1>4

(* An answer moves the request on; the row it waits with is flushed, and   *)
(* the next flush comes before the next call.                              *)
LEMMA AnswerMoves ==
  ASSUME TypeOK, SessionInv, LockInv, NEW s \in Submitters, Busy(s),
         NEW n \in Row, NEW st \in Steps \ {"idle"}, Answered(s, n, st), Local(st, read[s], n),
         st \in Calls => n = draft[s] /\ step[s] \in Calls,
         remote' \in [Accounts -> LinkedAccount],
         n.stakeholder_id \in {draft[s].stakeholder_id, n.account_id},
         n.product_id \in {draft[s].product_id, n.account_id},
         n.reference_code = draft[s].reference_code,
         ProductsKept(s), StatusesKept,
         IF st = "finish"
           THEN /\ n.provider_status = remote'[n.account_id].product
                /\ n.requirements = remote'[n.account_id].requirements
           ELSE \A a \in Accounts : ProductSame(a),
         \/ /\ AccountsSame /\ n.account_id = draft[s].account_id
            /\ n.account_status = draft[s].account_status
         \/ /\ draft[s].account_id = NULL /\ draft[s].reference_code # NULL
            /\ \E a \in Accounts : /\ n.account_id = a
                                  /\ n.account_status = remote'[a].status
                                  /\ AccountNew(a, who[s], draft[s].reference_code)
  PROVE  TypeOK' /\ Moves(s)
<1>1. /\ draft' = [draft EXCEPT ![s] = n] /\ step' = [step EXCEPT ![s] = st]
      /\ UNCHANGED <<profile, holder, who, read, answer, faults>>
      BY DEF Answered
<1>2. holder' \in [Organizers -> Sessions \cup {NULL}] /\ who[s] \in Organizers
      BY <1>1, BusyFacts DEF TypeOK
<1>3. /\ TypeOK'
      /\ Others(s) /\ step'[s] = st /\ draft'[s] = n /\ who'[s] = who[s] /\ read'[s] = read[s]
      BY <1>1, <1>2, MoveTyped
<1>4. st \in Calls /\ n # read[s] => holder'[who[s]] = s
      BY <1>1 DEF LockInv, Dirty
<1>5. Keeps(draft[s].reference_code, n.reference_code)
      BY DEF Keeps
<1> QED BY <1>1, <1>3, <1>4, <1>5 DEF Moves

(* What the calls do to Razorpay's accounts.                               *)
LEMMA AccountCreated ==
  ASSUME TypeOK, NEW a \in Accounts, remote[a].owner = NULL, NEW o \in Organizers, NEW c \in Codes,
         NEW x \in AccountStatus,
         remote' = [remote EXCEPT ![a].owner = o, ![a].code = c, ![a].status = x]
  PROVE  /\ remote' \in [Accounts -> LinkedAccount] /\ AccountNew(a, o, c)
         /\ remote'[a].status = x /\ StatusesKept
         /\ \A b \in Accounts : ProductSame(b)
<1> DEFINE n == [remote[a] EXCEPT !.owner = o, !.code = c, !.status = x]
<1>1. remote[a] \in LinkedAccount /\ remote \in [Accounts -> LinkedAccount] /\ a \in Accounts
      BY DEF TypeOK
<1>2. /\ n \in LinkedAccount /\ n.owner = o /\ n.code = c /\ n.status = x
      /\ n.product = remote[a].product /\ n.requirements = remote[a].requirements
      BY <1>1 DEF LinkedAccount
<1>3. remote' = [remote EXCEPT ![a] = n]
      BY <1>1
<1> HIDE DEF n
<1>4. remote' \in [Accounts -> LinkedAccount] /\ remote'[a] = n
      BY ONLY <1>1, <1>2, <1>3
<1>5. \A b \in Accounts \ {a} : remote'[b] = remote[b]
      BY <1>1, <1>3
<1> QED BY <1>2, <1>4, <1>5 DEF AccountNew, ProductSame, StatusesKept

LEMMA StakeholderOnFile ==
  ASSUME TypeOK, NEW a \in Accounts, remote' = [remote EXCEPT ![a].stakeholder = TRUE]
  PROVE  /\ remote' \in [Accounts -> LinkedAccount] /\ AccountsSame /\ StatusesKept
         /\ \A b \in Accounts : ProductSame(b)
<1> DEFINE n == [remote[a] EXCEPT !.stakeholder = TRUE]
<1>1. remote[a] \in LinkedAccount /\ remote \in [Accounts -> LinkedAccount]
      BY DEF TypeOK
<1>2. /\ n \in LinkedAccount /\ n.owner = remote[a].owner /\ n.code = remote[a].code
      /\ n.product = remote[a].product /\ n.requirements = remote[a].requirements
      /\ n.status = remote[a].status
      BY <1>1 DEF LinkedAccount
<1>3. remote' = [remote EXCEPT ![a] = n]
      BY <1>1
<1> HIDE DEF n
<1> QED BY <1>1, <1>2, <1>3 DEF AccountsSame, StatusesKept, ProductSame

LEMMA ProductOnFile ==
  ASSUME TypeOK, NEW a \in Accounts, NEW p \in ProviderStatus, NEW q \in Requirements \cup {NULL},
         remote' = [remote EXCEPT ![a].product = p, ![a].requirements = q]
  PROVE  /\ remote' \in [Accounts -> LinkedAccount] /\ AccountsSame /\ StatusesKept
         /\ remote'[a].product = p /\ remote'[a].requirements = q
         /\ \A b \in Accounts \ {a} : remote'[b] = remote[b]
<1> DEFINE n == [remote[a] EXCEPT !.product = p, !.requirements = q]
<1>1. remote[a] \in LinkedAccount /\ remote \in [Accounts -> LinkedAccount]
      BY DEF TypeOK
<1>2. /\ n \in LinkedAccount /\ n.owner = remote[a].owner /\ n.code = remote[a].code
      /\ n.product = p /\ n.requirements = q /\ n.status = remote[a].status
      BY <1>1 DEF LinkedAccount
<1>3. remote' = [remote EXCEPT ![a] = n]
      BY <1>1
<1> HIDE DEF n
<1> QED BY <1>1, <1>2, <1>3 DEF AccountsSame, StatusesKept

LEMMA CreateAccountStep ==
  ASSUME TypeOK, SessionInv, LockInv, NEW s \in Submitters, CreateAccount(s)
  PROVE  TypeOK' /\ (Moves(s) \/ Ends(s))
<1>1. Busy(s) /\ step[s] = "account.create" /\ step[s] \in Calls
      BY DEF CreateAccount, Busy, Calls
<1>2. /\ who[s] \in Organizers /\ read[s] \in Row /\ draft[s] \in Row
      /\ Local("account.create", read[s], draft[s])
      BY <1>1, BusyFacts
<1>3. draft[s].account_id = NULL /\ draft[s].reference_code # NULL /\ draft[s].reference_code \in Codes
      BY <1>2 DEF Local, Row
<1>4. CASE CallRefused(s)
      BY <1>1, <1>4, RefusedEnds
<1>5. ASSUME NEW a \in FreshAccounts, NEW x \in NewStatuses,
             remote' = [remote EXCEPT ![a].owner  = who[s],
                                      ![a].code   = draft[s].reference_code,
                                      ![a].status = x],
             \/ Answered(s, [draft[s] EXCEPT !.account_id = a, !.account_status = x],
                         "account.flush")
             \/ AnswerLost(s)
      PROVE  TypeOK' /\ (Moves(s) \/ Ends(s))
  <2>1. FreshAccounts \subseteq {b \in Accounts : remote[b].owner = NULL}
        BY OneOfSubset DEF FreshAccounts
  <2>2. a \in Accounts /\ remote[a].owner = NULL /\ x \in AccountStatus
        BY <2>1
  <2>3. /\ remote' \in [Accounts -> LinkedAccount] /\ AccountNew(a, who[s], draft[s].reference_code)
        /\ remote'[a].status = x /\ StatusesKept /\ \A b \in Accounts : ProductSame(b)
        BY <1>2, <1>3, <1>5, <2>2, AccountCreated
  <2>3a. ProductsKept(s)
        BY <2>3 DEF ProductsKept
  <2> DEFINE n == [draft[s] EXCEPT !.account_id = a, !.account_status = x]
  <2>4. /\ n \in Row /\ Local("account.flush", read[s], n)
        /\ n.account_id = a /\ n.reference_code = draft[s].reference_code
        /\ n.stakeholder_id = draft[s].stakeholder_id /\ n.product_id = draft[s].product_id
        /\ n.account_status = x
    <3>1. /\ n \in Row /\ n.account_id = a /\ n.reference_code = draft[s].reference_code
          /\ n.stakeholder_id = draft[s].stakeholder_id /\ n.product_id = draft[s].product_id
          /\ n.details = draft[s].details /\ SameStatus(draft[s], n) /\ SameSync(draft[s], n)
          /\ n.account_status = x
      <4> DEFINE d == draft[s]
      <4>1. d \in Row /\ n = [d EXCEPT !.account_id = a, !.account_status = x]
            BY <1>2
      <4> HIDE DEF d, n
      <4>2. n \in Row
            BY ONLY <2>2, <4>1 DEF Row
      <4>3. /\ n.account_id = a /\ n.reference_code = d.reference_code
            /\ n.stakeholder_id = d.stakeholder_id /\ n.product_id = d.product_id
            /\ n.details = d.details /\ SameStatus(d, n) /\ SameSync(d, n)
            /\ n.account_status = x
            BY ONLY <2>2, <4>1 DEF Row, SameStatus, SameSync
      <4> QED BY <4>2, <4>3 DEF d
    <3> HIDE DEF n
    <3>2. n.account_id # NULL
          BY <2>2, <3>1
    <3> QED BY <1>2, <3>1, <3>2, LocalAccount
  <2>5. Answered(s, n, "account.flush") \/ AnswerLost(s)
        BY <1>5
  <2> HIDE DEF n
  <2>6. "account.flush" \in Steps \ {"idle"} /\ "account.flush" \notin Calls
        BY DEF Steps, Calls
  <2>7. CASE Answered(s, n, "account.flush")
        BY <1>1, <1>3, <2>2, <2>3, <2>3a, <2>4, <2>6, <2>7, AnswerMoves
  <2>8. CASE AnswerLost(s)
        BY <1>1, <2>2, <2>3, <2>3a, <2>8, LostEnds
  <2> QED BY <2>5, <2>7, <2>8
<1> QED BY <1>4, <1>5 DEF CreateAccount

LEMMA CreateStakeholderStep ==
  ASSUME TypeOK, SessionInv, LockInv, NEW s \in Submitters, CreateStakeholder(s)
  PROVE  TypeOK' /\ (Moves(s) \/ Ends(s))
<1>1. Busy(s) /\ step[s] = "stakeholder.create" /\ step[s] \in Calls
      BY DEF CreateStakeholder, Busy, Calls
<1>2. /\ read[s] \in Row /\ draft[s] \in Row
      /\ Local("stakeholder.create", read[s], draft[s])
      BY <1>1, BusyFacts
<1>3. draft[s].account_id \in Accounts
      BY <1>2 DEF Local, Row
<1>4. CASE CallRefused(s)
      BY <1>1, <1>4, RefusedEnds
<1> DEFINE n == [draft[s] EXCEPT !.stakeholder_id = draft[s].account_id]
<1>5. /\ n \in Row /\ Local("stakeholder.flush", read[s], n)
      /\ n.account_id = draft[s].account_id /\ n.reference_code = draft[s].reference_code
      /\ n.stakeholder_id = draft[s].account_id /\ n.product_id = draft[s].product_id
      /\ n.account_status = draft[s].account_status
      BY <1>2, LocalStakeholder
<1>6. ASSUME remote' = [remote EXCEPT ![draft[s].account_id].stakeholder = TRUE],
             Answered(s, n, "stakeholder.flush") \/ AnswerLost(s)
      PROVE  TypeOK' /\ (Moves(s) \/ Ends(s))
  <2>1. /\ remote' \in [Accounts -> LinkedAccount] /\ AccountsSame /\ StatusesKept
        /\ ProductsKept(s) /\ \A a \in Accounts : ProductSame(a)
        BY <1>3, <1>6, StakeholderOnFile DEF ProductsKept
  <2> HIDE DEF n
  <2>2. "stakeholder.flush" \in Steps \ {"idle"} /\ "stakeholder.flush" \notin Calls
        BY DEF Steps, Calls
  <2>3. CASE Answered(s, n, "stakeholder.flush")
        BY <1>1, <1>5, <2>1, <2>2, <2>3, AnswerMoves
  <2>4. CASE AnswerLost(s)
        BY <1>1, <2>1, <2>4, LostEnds
  <2> QED BY <1>6, <2>3, <2>4
<1> QED BY <1>4, <1>6 DEF CreateStakeholder

LEMMA EditStakeholderStep ==
  ASSUME TypeOK, SessionInv, LockInv, NEW s \in Submitters, EditStakeholder(s)
  PROVE  TypeOK' /\ (Moves(s) \/ Ends(s))
<1>1. Busy(s) /\ step[s] = "stakeholder.edit" /\ step[s] \in Calls
      BY DEF EditStakeholder, Busy, Calls
<1>2. /\ read[s] \in Row /\ draft[s] \in Row
      /\ Local("stakeholder.edit", read[s], draft[s])
      BY <1>1, BusyFacts
<1>3. CASE CallRefused(s)
      BY <1>1, <1>3, RefusedEnds
<1>4. ASSUME UNCHANGED remote, Answered(s, draft[s], ProductStep(draft[s])) \/ AnswerLost(s)
      PROVE  TypeOK' /\ (Moves(s) \/ Ends(s))
  <2>1. /\ remote' \in [Accounts -> LinkedAccount] /\ AccountsSame /\ StatusesKept
        /\ ProductsKept(s) /\ \A a \in Accounts : ProductSame(a)
        BY <1>4 DEF TypeOK, AccountsSame, StatusesKept, ProductsKept, ProductSame
  <2>2. /\ Local(ProductStep(draft[s]), read[s], draft[s])
        /\ ProductStep(draft[s]) \in Steps \ {"idle", "finish"}
        BY <1>2, LocalFlush
  <2>3. CASE Answered(s, draft[s], ProductStep(draft[s]))
        BY <1>1, <1>2, <2>1, <2>2, <2>3, AnswerMoves
  <2>4. CASE AnswerLost(s)
        BY <1>1, <2>1, <2>4, LostEnds
  <2> QED BY <1>4, <2>3, <2>4
<1> QED BY <1>3, <1>4 DEF EditStakeholder

(* The status a request finishes with is the one its product has.          *)
LEMMA ProductCallStep ==
  ASSUME TypeOK, SessionInv, LockInv, NEW s \in Submitters, ProductCall(s)
  PROVE  TypeOK' /\ (Moves(s) \/ Ends(s))
<1>1. Busy(s) /\ step[s] \in {"product.request", "product.edit"} /\ step[s] \in Calls
      BY DEF ProductCall, Busy, Calls
<1>2. /\ read[s] \in Row /\ draft[s] \in Row
      /\ Local(step[s], read[s], draft[s])
      BY <1>1, BusyFacts
<1>3. draft[s].account_id \in Accounts
      BY <1>1, <1>2 DEF Local, Row
<1>4. CASE CallRefused(s)
      BY <1>1, <1>4, RefusedEnds
<1> DEFINE a == draft[s].account_id
<1>5. ASSUME draft[s].product_id \in {NULL, a},
             NEW p \in ReplyStatuses(a), NEW q \in RequirementsFor(p),
             remote' = [remote EXCEPT ![a].product = p, ![a].requirements = q],
             Answered(s, WithProduct(draft[s], p, q), "finish") \/ AnswerLost(s)
      PROVE  TypeOK' /\ (Moves(s) \/ Ends(s))
  <2>1. p \in ProviderStatus
    <3>1. remote[a] \in LinkedAccount
          BY <1>3 DEF TypeOK
    <3>2. Decided(a) => remote[a].product \in ProviderStatus
          BY <3>1 DEF Decided, ProviderStatus
    <3> QED BY <3>2 DEF ReplyStatuses
  <2>2. q \in Requirements \cup {NULL}
        BY DEF RequirementsFor
  <2>3. /\ remote' \in [Accounts -> LinkedAccount] /\ AccountsSame /\ StatusesKept
        /\ remote'[a].product = p /\ remote'[a].requirements = q
        /\ \A b \in Accounts \ {a} : remote'[b] = remote[b]
    <3>1. a \in Accounts
          BY <1>3
    <3>2. remote' = [remote EXCEPT ![a].product = p, ![a].requirements = q]
          BY <1>5
    <3> HIDE DEF a
    <3> QED BY <2>1, <2>2, <3>1, <3>2, ProductOnFile
  <2>3a. ProductsKept(s)
    <3>1. IF Decided(a) THEN remote'[a].product = remote[a].product ELSE p \in Replies
          BY <2>3 DEF ReplyStatuses
    <3> QED BY <2>3, <3>1 DEF ProductsKept, ProductSame
  <2> DEFINE n == WithProduct(draft[s], p, q)
  <2>4. /\ n \in Row /\ Local("finish", read[s], n)
        /\ n.account_id = a /\ n.reference_code = draft[s].reference_code
        /\ n.stakeholder_id = draft[s].stakeholder_id
        /\ n.product_id = (IF draft[s].product_id = NULL THEN a ELSE draft[s].product_id)
        /\ n.provider_status = p /\ n.requirements = q
        /\ n.account_status = draft[s].account_status
        BY <1>1, <1>2, <2>1, <2>2, LocalProduct
  <2>5. Answered(s, n, "finish") \/ AnswerLost(s)
        BY <1>5
  <2> HIDE DEF n
  <2>6. "finish" \in Steps \ {"idle"} /\ "finish" \notin Calls
        BY DEF Steps, Calls
  <2>7. CASE Answered(s, n, "finish")
        BY <1>1, <2>3, <2>4, <2>6, <2>7, <2>3a, AnswerMoves
  <2>8. CASE AnswerLost(s)
        BY <1>1, <2>3, <2>8, <2>3a, LostEnds
  <2> QED BY <2>5, <2>7, <2>8
<1> QED BY <1>4, <1>5 DEF ProductCall

LEMMA FinishStep ==
  ASSUME TypeOK, SessionInv, LockInv, NEW s \in Submitters, Finish(s)
  PROVE  TypeOK' /\ Ends(s)
<1>1. /\ Busy(s) /\ (Dirty(s) => CanWrite(s)) /\ CommitAndAnswer(s, "ok")
      /\ UNCHANGED <<remote, faults>>
      BY DEF Finish, Busy
<1>2. remote' \in [Accounts -> LinkedAccount] /\ faults' \in 0..MaxFaults /\ "ok" \in Answers
      BY <1>1 DEF TypeOK, Answers
<1> QED BY <1>1, <1>2, CommitTyped DEF Ends, AccountsSame, ProductsKept, ProductSame, StatusesKept

LEMMA DieStep ==
  ASSUME TypeOK, SessionInv, LockInv, NEW s \in Submitters, Die(s)
  PROVE  TypeOK' /\ Ends(s)
<1>1. /\ Busy(s) /\ faults < MaxFaults /\ faults' = faults + 1 /\ EndRequest(s, "error")
      /\ UNCHANGED <<profile, remote>>
      BY DEF Die, Busy
<1>2. /\ profile' \in [Organizers -> Row] /\ remote' \in [Accounts -> LinkedAccount]
      /\ faults' \in 0..MaxFaults /\ "error" \in Answers
      BY <1>1 DEF TypeOK, Answers
<1> QED BY <1>1, <1>2, EndTyped DEF Ends, AccountsSame, ProductsKept, ProductSame, StatusesKept, EndRequest

(* Every step of a request is one of the three.                            *)
LEMMA RequestStep ==
  ASSUME SubmissionInv, NEW s \in Submitters,
         (\E o \in Organizers, f \in Forms : Start(s, o, f)) \/ Submit(s) \/ Die(s)
  PROVE  /\ TypeOK'
         /\ (\E o \in Organizers : Begins(s, o)) \/ Moves(s) \/ Ends(s)
<1>1. TypeOK /\ RowsAgree /\ SessionInv /\ LockInv
      BY DEF SubmissionInv
<1>2. ASSUME NEW o \in Organizers, NEW f \in Forms, Start(s, o, f) PROVE TypeOK' /\ Begins(s, o)
      BY <1>1, <1>2, StartBegins
<1>3. CASE Submit(s)
      BY <1>1, <1>3, SaveDetailsMoves, CreateAccountStep, FlushStepsMove, CreateStakeholderStep,
         EditStakeholderStep, ProductCallStep, FinishStep DEF Submit
<1>4. CASE Die(s)
      BY <1>1, <1>4, DieStep
<1> QED BY <1>2, <1>3, <1>4

LEMMA KycStep ==
  ASSUME SubmissionInv, Next
  PROVE  /\ TypeOK'
         /\ \E s \in Submitters : (\E o \in Organizers : Begins(s, o)) \/ Moves(s) \/ Ends(s)
BY RequestStep DEF Next

-----------------------------------------------------------------------------
(* SubmissionInv is inductive.                                             *)

(* A row loses nothing, and stays in agreement.                            *)
LEMMA RowsStep ==
  ASSUME SubmissionInv, NEW s \in Submitters,
         (\E o \in Organizers : Begins(s, o)) \/ Moves(s) \/ Ends(s)
  PROVE  /\ RowsAgree'
         /\ \A o \in Organizers : Fills(profile[o], profile'[o])
<1>1. TypeOK /\ RowsAgree /\ SessionInv /\ LockInv
      BY DEF SubmissionInv
<1>2. CASE profile' = profile
      BY <1>1, <1>2 DEF RowsAgree, Fills
<1>3. CASE Busy(s) /\ profile' = [profile EXCEPT ![who[s]] = Written(s)]
  <2>1. Agree(Written(s)) /\ Fills(profile[who[s]], Written(s)) /\ who[s] \in Organizers
        BY <1>1, <1>3, BusyFacts, WrittenAgrees, WrittenFills
  <2>2. \A o \in Organizers : profile'[o] = IF o = who[s] THEN Written(s) ELSE profile[o]
        BY <1>1, <1>3 DEF TypeOK
  <2>3. \A o \in Organizers : Fills(profile[o], profile[o]) /\ Agree(profile[o])
        BY <1>1 DEF Fills, RowsAgree
  <2> QED BY <2>1, <2>2, <2>3 DEF RowsAgree
<1> QED BY <1>2, <1>3 DEF Begins, Moves, Ends

LEMMA SubmissionStep ==
  ASSUME SubmissionInv, Next
  PROVE  SubmissionInv'
<1>1. TypeOK /\ RowsAgree /\ SessionInv /\ LockInv
      BY DEF SubmissionInv
<1>2. PICK s \in Submitters : (\E o \in Organizers : Begins(s, o)) \/ Moves(s) \/ Ends(s)
      BY KycStep
<1>3. TypeOK'
      BY KycStep
<1>4. RowsAgree' /\ \A o \in Organizers : Fills(profile[o], profile'[o])
      BY <1>2, RowsStep
<1>5. \A t \in Submitters \ {s} : /\ step'[t] = step[t] /\ who'[t] = who[t]
                                  /\ read'[t] = read[t] /\ draft'[t] = draft[t]
      BY <1>2 DEF Begins, Moves, Ends, Others
<1>6. SessionInv'
  <2> SUFFICES ASSUME NEW t \in Submitters, step'[t] # "idle"
               PROVE  Local(step'[t], read'[t], draft'[t]) /\ Fills(read'[t], profile'[who'[t]])
      BY DEF SessionInv, Busy
  <2>1. CASE t # s
    <3>1. /\ Busy(t) /\ step'[t] = step[t] /\ who'[t] = who[t]
          /\ read'[t] = read[t] /\ draft'[t] = draft[t]
          BY <1>5, <2>1 DEF Busy
    <3>2. /\ Local(step[t], read[t], draft[t]) /\ Fills(read[t], profile[who[t]])
          /\ who[t] \in Organizers
          BY <1>1, <3>1, BusyFacts
    <3>3. Fills(read[t], profile'[who[t]])
          BY <1>4, <3>2 DEF Fills
    <3> QED BY <3>1, <3>2, <3>3
  <2>2. CASE t = s
    <3>1. ASSUME NEW o \in Organizers, Begins(s, o)
          PROVE  Local(step'[t], read'[t], draft'[t]) /\ Fills(read'[t], profile'[who'[t]])
          BY <2>2, <3>1 DEF Begins, Fills
    <3>2. CASE Moves(s)
          BY <1>1, <2>2, <3>2, BusyFacts DEF Moves
    <3>3. CASE Ends(s)
          BY <2>2, <3>3 DEF Ends
    <3> QED BY <1>2, <3>1, <3>2, <3>3
  <2> QED BY <2>1, <2>2
<1>7. LockInv'
  <2> SUFFICES ASSUME NEW t \in Submitters, step'[t] \in Calls, draft'[t] # read'[t]
               PROVE  holder'[who'[t]] = t
      BY DEF LockInv, Dirty
  <2>1. CASE t # s
    <3>1. /\ Busy(t) /\ step[t] \in Calls /\ Dirty(t) /\ who'[t] = who[t]
          BY <1>5, <2>1 DEF Busy, Dirty, Calls
    <3>2. holder[who[t]] = t /\ who[t] \in Organizers
          BY <1>1, <3>1, BusyFacts DEF LockInv
    <3>3. t # NULL /\ s # NULL
          OBVIOUS
    <3>4. CASE holder' = holder
          BY <3>1, <3>2, <3>4
    <3>5. CASE CanWrite(s) /\ holder' = [holder EXCEPT ![who[s]] = s]
          BY <1>1, <2>1, <3>1, <3>2, <3>3, <3>5 DEF CanWrite, TypeOK
    <3>6. CASE holder' = [o \in Organizers |-> IF holder[o] = s THEN NULL ELSE holder[o]]
          BY <2>1, <3>1, <3>2, <3>6
    <3> QED BY <1>2, <3>4, <3>5, <3>6 DEF Begins, Moves, Ends
  <2>2. CASE t = s
    <3>1. ~Ends(s) /\ \A o \in Organizers : ~Begins(s, o)
          BY <2>2 DEF Ends, Begins, Calls
    <3>2. Moves(s)
          BY <1>2, <3>1
    <3> QED BY <2>2, <3>2 DEF Moves
  <2> QED BY <2>1, <2>2
<1> QED BY <1>3, <1>4, <1>6, <1>7 DEF SubmissionInv

(* A status is stored when everything it needs is, or has been before.     *)
LEMMA CompleteStep ==
  ASSUME SubmissionInv, CompleteInv, Next
  PROVE  CompleteInv'
<1>1. TypeOK /\ RowsAgree /\ SessionInv /\ LockInv
      BY DEF SubmissionInv
<1>2. PICK s \in Submitters : (\E o \in Organizers : Begins(s, o)) \/ Moves(s) \/ Ends(s)
      BY KycStep
<1>3. CASE profile' = profile
      BY <1>3 DEF CompleteInv
<1>4. CASE Busy(s) /\ profile' = [profile EXCEPT ![who[s]] = Written(s)]
  <2> DEFINE n == Written(s)
  <2>1. /\ who[s] \in Organizers /\ Local(step[s], read[s], draft[s])
        /\ Fills(read[s], profile[who[s]])
        /\ Fills(profile[who[s]], n) /\ Fills(draft[s], n)
        BY <1>1, <1>4, BusyFacts, WrittenFills
  <2>2. n.provider_status =
          Column(profile[who[s]].provider_status, read[s].provider_status, draft[s].provider_status)
        BY <1>1, <1>4, WrittenColumns
  <2>3. profile[who[s]].provider_status # NULL => Complete(profile[who[s]])
        BY <2>1 DEF CompleteInv
  <2>4. \A o \in Organizers : profile'[o] = IF o = who[s] THEN n ELSE profile[o]
        BY <1>1, <1>4 DEF TypeOK
  <2> HIDE DEF n
  <2>5. ASSUME n.provider_status # NULL PROVE Complete(n)
    <3>1. CASE profile[who[s]].provider_status # NULL
          BY <2>1, <2>3, <3>1 DEF Complete, Fills
    <3>2. CASE profile[who[s]].provider_status = NULL
      <4>1. draft[s].provider_status # read[s].provider_status
            BY <2>2, <2>5, <3>2 DEF Column
      <4>2. step[s] = "finish"
            BY <2>1, <4>1 DEF Local, SameStatus
      <4>3. Complete(draft[s])
            BY <2>1, <4>2 DEF Local, Complete
      <4> QED BY <2>1, <4>3 DEF Complete, Fills
    <3> QED BY <3>1, <3>2
  <2> QED BY <2>4, <2>5 DEF CompleteInv
<1> QED BY <1>2, <1>3, <1>4 DEF Begins, Moves, Ends

(* What a request has at its end is accepted: VERIFIED comes with every id *)
(* and with Razorpay's "activated".                                        *)
LEMMA CompleteRowChecks ==
  ASSUME NEW r \in Row, Agree(r), r.provider_status # NULL => Complete(r)
  PROVE  RowChecks(r)
<1>1. CASE r.provider_status = NULL
      BY <1>1 DEF Agree, RowChecks, CheckVerifiedHasPayoutDetails,
         CheckNoProviderStatusBeforePending, CheckActivatedImpliesVerified, ProviderStatus
<1>2. CASE r.provider_status # NULL
  <2>1. r.provider_status \in ProviderStatus /\ r.kyc_status = MapStatus[r.provider_status]
        BY <1>2 DEF Row, Agree
  <2>2. r.kyc_status = "VERIFIED" <=> r.provider_status = "activated"
        BY <2>1, MapStatusCases
  <2>3. Complete(r)
        BY <1>2
  <2>4. CheckVerifiedHasPayoutDetails(r)
        BY <2>2, <2>3 DEF Complete, CheckVerifiedHasPayoutDetails
  <2> QED BY <1>2, <2>2, <2>4 DEF RowChecks, CheckNoProviderStatusBeforePending,
         CheckActivatedImpliesVerified
<1> QED BY <1>1, <1>2

LEMMA FinishAccepted ==
  ASSUME SubmissionInv
  PROVE  FinishIsAccepted
<1>1. TypeOK /\ RowsAgree /\ SessionInv /\ LockInv
      BY DEF SubmissionInv
<1> SUFFICES ASSUME NEW s \in Submitters, step[s] = "finish" PROVE RowChecks(Written(s))
    BY DEF FinishIsAccepted
<1>2. Busy(s)
      BY DEF Busy
<1>3. Local("finish", read[s], draft[s]) /\ Fills(read[s], profile[who[s]])
      BY <1>1, <1>2, BusyFacts
<1>4. Agree(Written(s)) /\ Fills(draft[s], Written(s)) /\ Written(s) \in Row
      BY <1>1, <1>2, <1>3, BusyFacts, WrittenAgrees, WrittenFills, WrittenColumns
<1>5. Complete(draft[s])
      BY <1>3 DEF Local, Complete
<1>6. Complete(Written(s))
      BY <1>4, <1>5 DEF Complete, Fills
<1> QED BY <1>4, <1>6, CompleteRowChecks

-----------------------------------------------------------------------------
(* TurnInv is inductive.                                                   *)

(* An account that has an owner keeps it, and its code.                    *)
LEMMA TiedKept ==
  ASSUME NEW r \in Row, NEW o \in Organizers, Tied(o, r),
         \/ AccountsSame
         \/ \E a \in Accounts, p \in Organizers, c \in Codes \cup {NULL} : AccountNew(a, p, c)
  PROVE  TiedIn(remote', o, r)
<1>1. CASE r.account_id = NULL
      BY <1>1 DEF Tied, TiedIn
<1>2. CASE r.account_id # NULL
  <2>1. r.account_id \in Accounts /\ o # NULL
        BY <1>2 DEF Row
  <2>2. remote[r.account_id].owner = o
        BY <1>2 DEF Tied, TiedIn
  <2>3. /\ remote'[r.account_id].owner = remote[r.account_id].owner
        /\ remote'[r.account_id].code = remote[r.account_id].code
        BY <2>1, <2>2 DEF AccountsSame, AccountNew
  <2> QED BY <2>3 DEF Tied, TiedIn
<1> QED BY <1>1, <1>2

LEMMA TiedSameIds ==
  ASSUME NEW m, NEW o, NEW r, NEW n, TiedIn(m, o, r), SameIds(r, n)
  PROVE  TiedIn(m, o, n)
BY DEF TiedIn, SameIds

(* A request that has loaded the ids as they still are writes its own.     *)
LEMMA WrittenIds ==
  ASSUME TypeOK, NEW s \in Submitters, Busy(s), SameIds(read[s], profile[who[s]])
  PROVE  SameIds(draft[s], Written(s))
<1> DEFINE o == profile[who[s]]
           r == read[s]
           d == draft[s]
           n == Written(s)
<1>1. /\ n.account_id = Column(o.account_id, r.account_id, d.account_id)
      /\ n.stakeholder_id = Column(o.stakeholder_id, r.stakeholder_id, d.stakeholder_id)
      /\ n.product_id = Column(o.product_id, r.product_id, d.product_id)
      /\ n.reference_code = Column(o.reference_code, r.reference_code, d.reference_code)
      BY WrittenColumns
<1>2. SameIds(r, o)
      OBVIOUS
<1> HIDE DEF o, r, d, n
<1>3. SameIds(d, n)
      BY <1>1, <1>2 DEF SameIds, Column
<1> QED BY <1>3 DEF d, n

(* What a step does to the accounts on file.                               *)
LEMMA AccountsStep ==
  ASSUME TypeOK, NEW s \in Submitters, SessionInv, LockInv,
         (\E o \in Organizers : Begins(s, o)) \/ Moves(s) \/ Ends(s)
  PROVE  \/ AccountsSame
         \/ \E a \in Accounts, p \in Organizers, c \in Codes \cup {NULL} : AccountNew(a, p, c)
<1>1. ASSUME NEW o \in Organizers, Begins(s, o) PROVE AccountsSame
      BY <1>1 DEF Begins, AccountsSame
<1>2. Busy(s) => who[s] \in Organizers /\ draft[s].reference_code \in Codes \cup {NULL}
      BY BusyFacts DEF Row
<1>3. CASE Moves(s)
      BY <1>2, <1>3 DEF Moves
<1>4. CASE Ends(s)
      BY <1>2, <1>4 DEF Ends
<1> QED BY <1>1, <1>3, <1>4

LEMMA InTurnStep ==
  ASSUME SubmissionInv, InTurn, ReadIsCurrent, OneAtATime, NEW s \in Submitters,
         (\E o \in Organizers : Begins(s, o)) \/ Moves(s) \/ Ends(s)
  PROVE  InTurn' /\ ReadIsCurrent'
<1>1. TypeOK /\ RowsAgree /\ SessionInv /\ LockInv
      BY DEF SubmissionInv
<1>2. \A t \in Submitters \ {s} : /\ step'[t] = step[t] /\ who'[t] = who[t]
                                  /\ read'[t] = read[t] /\ draft'[t] = draft[t]
      BY DEF Begins, Moves, Ends, Others
<1>3. ASSUME NEW o \in Organizers, Begins(s, o) PROVE InTurn' /\ ReadIsCurrent'
  <2>1. /\ step'[s] = "details" /\ who'[s] = o /\ read'[s] = profile[o] /\ profile' = profile
        /\ \A t \in Submitters : who[t] # o
        BY <1>3 DEF Begins
  <2>2. InTurn'
        BY <1>2, <2>1 DEF InTurn, Busy
  <2>3. SameIds(profile[o], profile[o])
        BY DEF SameIds
  <2>4. ReadIsCurrent'
        BY <1>2, <2>1, <2>3 DEF ReadIsCurrent, Busy
  <2> QED BY <2>2, <2>4
<1>4. CASE Moves(s)
  <2>1. Busy(s) /\ who'[s] = who[s] /\ read'[s] = read[s] /\ profile' = profile
        BY <1>4 DEF Moves
  <2>2. InTurn'
        BY <1>2, <2>1 DEF InTurn, Busy
  <2>3. ReadIsCurrent'
        BY <1>2, <2>1 DEF ReadIsCurrent, Busy
  <2> QED BY <2>2, <2>3
<1>5. CASE Ends(s)
  <2>1. Busy(s) /\ step'[s] = "idle" /\ who[s] \in Organizers
        BY <1>1, <1>5, BusyFacts DEF Ends
  <2>2. InTurn'
        BY <1>2, <2>1 DEF InTurn, Busy
  <2>3. \A o \in Organizers \ {who[s]} : profile'[o] = profile[o]
        BY <1>1, <1>5 DEF Ends, TypeOK
  <2>4. ReadIsCurrent'
    <3> SUFFICES ASSUME NEW t \in Submitters, step'[t] # "idle"
                 PROVE  SameIds(read'[t], profile'[who'[t]])
        BY DEF ReadIsCurrent, Busy
    <3>1. t # s /\ Busy(t) /\ who'[t] = who[t] /\ read'[t] = read[t]
          BY <1>2, <2>1 DEF Busy
    <3>2. who[t] # who[s] /\ who[t] \in Organizers
          BY <1>1, <2>1, <3>1, BusyFacts DEF InTurn
    <3> QED BY <2>3, <3>1, <3>2 DEF ReadIsCurrent
  <2> QED BY <2>2, <2>4
<1> QED BY <1>3, <1>4, <1>5

LEMMA TiedStep ==
  ASSUME SubmissionInv, ReadIsCurrent, TiedInv, NEW s \in Submitters,
         (\E o \in Organizers : Begins(s, o)) \/ Moves(s) \/ Ends(s)
  PROVE  TiedInv'
<1>1. TypeOK /\ RowsAgree /\ SessionInv /\ LockInv
      BY DEF SubmissionInv
<1>2. \A t \in Submitters \ {s} : /\ step'[t] = step[t] /\ who'[t] = who[t]
                                  /\ read'[t] = read[t] /\ draft'[t] = draft[t]
      BY DEF Begins, Moves, Ends, Others
<1>3. \/ AccountsSame
      \/ \E a \in Accounts, p \in Organizers, c \in Codes \cup {NULL} : AccountNew(a, p, c)
      BY <1>1, AccountsStep
<1>4. \A o \in Organizers, r \in Row : Tied(o, r) => TiedIn(remote', o, r)
      BY <1>3, TiedKept
<1>5. \A o \in Organizers : profile[o] \in Row /\ TiedIn(remote', o, profile[o])
      BY <1>1, <1>4 DEF TypeOK, TiedInv
<1>6. ASSUME NEW t \in Submitters, Busy(t)
      PROVE  /\ who[t] \in Organizers /\ draft[t] \in Row /\ Tied(who[t], draft[t])
             /\ TiedIn(remote', who[t], draft[t])
      BY <1>1, <1>4, <1>6, BusyFacts DEF TiedInv
<1>7. ASSUME NEW o \in Organizers PROVE TiedIn(remote', o, profile'[o])
  <2>1. CASE profile' = profile
        BY <1>5, <2>1
  <2>2. CASE Busy(s) /\ profile' = [profile EXCEPT ![who[s]] = Written(s)]
    <3>1. CASE o # who[s]
          BY <1>1, <1>5, <2>2, <3>1 DEF TypeOK
    <3>2. CASE o = who[s]
      <4>1. SameIds(draft[s], Written(s))
            BY <1>1, <2>2, WrittenIds DEF ReadIsCurrent
      <4>2. profile'[o] = Written(s)
            BY <1>1, <2>2, <3>2 DEF TypeOK
      <4> QED BY <1>6, <2>2, <3>2, <4>1, <4>2, TiedSameIds
    <3> QED BY <3>1, <3>2
  <2> QED BY <2>1, <2>2 DEF Begins, Moves, Ends
<1>8. ASSUME NEW t \in Submitters, step'[t] # "idle" PROVE TiedIn(remote', who'[t], draft'[t])
  <2>1. CASE t # s
        BY <1>2, <1>6, <1>8, <2>1 DEF Busy
  <2>2. CASE t = s
    <3>1. ASSUME NEW o \in Organizers, Begins(s, o) PROVE TiedIn(remote', who'[t], draft'[t])
          BY <1>5, <2>2, <3>1, TiedSameIds DEF Begins
    <3>2. CASE Moves(s)
      <4> DEFINE d == draft[s]
                 n == draft'[s]
                 o == who[s]
      <4>1. /\ Busy(s) /\ who'[s] = o /\ n \in Row
            /\ n.stakeholder_id \in {d.stakeholder_id, n.account_id}
            /\ n.product_id \in {d.product_id, n.account_id}
            /\ Keeps(d.reference_code, n.reference_code)
            /\ \/ AccountsSame /\ n.account_id = d.account_id
               \/ /\ d.account_id = NULL /\ d.reference_code # NULL
                  /\ \E a \in Accounts : n.account_id = a /\ AccountNew(a, o, d.reference_code)
            BY <3>2 DEF Moves
      <4>2. Tied(o, d) /\ TiedIn(remote', o, d)
            BY <1>6, <4>1
      <4> HIDE DEF d, n, o
      <4>3. ASSUME n.account_id = d.account_id PROVE TiedIn(remote', o, n)
            BY <4>1, <4>2, <4>3 DEF TiedIn, Keeps
      <4>4. ASSUME d.account_id = NULL, d.reference_code # NULL,
                   NEW a \in Accounts, n.account_id = a, AccountNew(a, o, d.reference_code)
            PROVE  TiedIn(remote', o, n)
            BY <4>1, <4>2, <4>4 DEF TiedIn, Keeps, AccountNew
      <4>5. TiedIn(remote', o, n)
            BY <4>1, <4>3, <4>4
      <4> QED BY <2>2, <4>1, <4>5 DEF o, n
    <3>3. CASE Ends(s)
          BY <1>8, <2>2, <3>3 DEF Ends
    <3> QED BY <3>1, <3>2, <3>3
  <2> QED BY <2>1, <2>2
<1>9. /\ \A o \in Organizers : Tied(o, profile[o])'
      /\ \A t \in Submitters : Busy(t)' => Tied(who[t], draft[t])'
      BY <1>7, <1>8 DEF Tied, Busy
<1> QED BY <1>9 DEF TiedInv

(* An organizer is left without an account on the row or in the request    *)
(* only by a fault.                                                        *)
LEMMA HasAccountStep ==
  ASSUME SubmissionInv, ReadIsCurrent, NEW s \in Submitters,
         (\E o \in Organizers : Begins(s, o)) \/ Moves(s) \/ Ends(s),
         NEW o \in Organizers, HasAccount(o)
  PROVE  HasAccount(o)' \/ (faults' = faults + 1 /\ profile' = profile /\ AccountsSame)
<1>1. TypeOK /\ RowsAgree /\ SessionInv /\ LockInv
      BY DEF SubmissionInv
<1>2. \A t \in Submitters \ {s} : /\ step'[t] = step[t] /\ who'[t] = who[t]
                                  /\ read'[t] = read[t] /\ draft'[t] = draft[t]
      BY DEF Begins, Moves, Ends, Others
<1>3. CASE profile[o].account_id # NULL
  <2>1. Fills(profile[o], profile'[o])
        BY RowsStep
  <2> QED BY <1>3, <2>1 DEF HasAccount, Fills
<1>4. ASSUME NEW t \in Submitters, Busy(t), who[t] = o, draft[t].account_id # NULL
      PROVE  HasAccount(o)' \/ (faults' = faults + 1 /\ profile' = profile /\ AccountsSame)
  <2>1. CASE t # s
        BY <1>2, <1>4, <2>1 DEF HasAccount, Busy
  <2>2. CASE t = s
    <3>1. CASE \E p \in Organizers : Begins(s, p)
          BY <1>4, <2>2, <3>1 DEF Begins
    <3>2. CASE Moves(s)
          BY <1>4, <2>2, <3>2 DEF Moves, HasAccount, Busy
    <3>3. CASE UNCHANGED profile /\ AccountsSame /\ faults' = faults + 1
          BY <3>3
    <3>4. CASE profile' = [profile EXCEPT ![who[s]] = Written(s)]
      <4>1. SameIds(draft[s], Written(s))
            BY <1>1, <1>4, <2>2, WrittenIds DEF ReadIsCurrent
      <4>2. profile'[o] = Written(s)
            BY <1>1, <1>4, <2>2, <3>4 DEF TypeOK
      <4> QED BY <1>4, <2>2, <4>1, <4>2 DEF SameIds, HasAccount
    <3> QED BY <3>1, <3>2, <3>3, <3>4 DEF Ends
  <2> QED BY <2>1, <2>2
<1> QED BY <1>3, <1>4 DEF HasAccount

LEMMA CountStep ==
  ASSUME SubmissionInv, InTurn, ReadIsCurrent, CountInv, NEW s \in Submitters,
         (\E o \in Organizers : Begins(s, o)) \/ Moves(s) \/ Ends(s)
  PROVE  CountInv'
<1>1. TypeOK /\ RowsAgree /\ SessionInv /\ LockInv
      BY DEF SubmissionInv
<1>2. faults \in Nat /\ faults' \in {faults, faults + 1}
      BY <1>1 DEF TypeOK, Begins, Moves, Ends
<1> SUFFICES ASSUME NEW o \in Organizers
             PROVE  /\ IsFiniteSet(Owned(o)')
                    /\ Cardinality(Owned(o)') <= faults' + IF HasAccount(o)' THEN 1 ELSE 0
    BY DEF CountInv
<1>3. /\ IsFiniteSet(Owned(o)) /\ Cardinality(Owned(o)) \in Nat
      /\ Cardinality(Owned(o)) <= faults + IF HasAccount(o) THEN 1 ELSE 0
      BY FS_CardinalityType DEF CountInv
<1>4. HasAccount(o) => HasAccount(o)' \/ (faults' = faults + 1 /\ profile' = profile /\ AccountsSame)
      BY HasAccountStep
<1>5. CASE Owned(o)' = Owned(o)
      BY <1>2, <1>3, <1>4, <1>5
<1>6. ASSUME NEW a \in Accounts, AccountNew(a, who[s], draft[s].reference_code), Busy(s),
             \/ Moves(s) /\ draft[s].account_id = NULL /\ draft'[s].account_id = a
             \/ faults' = faults + 1
      PROVE  /\ IsFiniteSet(Owned(o)')
             /\ Cardinality(Owned(o)') <= faults' + IF HasAccount(o)' THEN 1 ELSE 0
  <2>1. who[s] \in Organizers /\ who[s] # NULL /\ o # NULL /\ read[s] \in Row /\ draft[s] \in Row
        /\ Local(step[s], read[s], draft[s])
        BY <1>1, <1>6, BusyFacts
  <2>2. CASE o # who[s]
    <3>1. Owned(o)' = Owned(o)
          BY <1>6, <2>1, <2>2 DEF Owned, AccountNew
    <3> QED BY <1>5, <3>1
  <2>3. CASE o = who[s]
    <3>1. Owned(o)' = Owned(o) \cup {a} /\ a \notin Owned(o) /\ ~AccountsSame
          BY <1>6, <2>1, <2>3 DEF Owned, AccountNew, AccountsSame
    <3>2. IsFiniteSet(Owned(o)') /\ Cardinality(Owned(o)') = Cardinality(Owned(o)) + 1
          BY <1>3, <3>1, FS_AddElement
    <3>3. CASE faults' = faults + 1
          BY <1>2, <1>3, <1>4, <3>1, <3>2, <3>3
    <3>4. CASE Moves(s) /\ draft[s].account_id = NULL /\ draft'[s].account_id = a
      <4>1. profile[o].account_id = NULL
            BY <1>6, <2>1, <2>3, <3>4 DEF ReadIsCurrent, SameIds, Local, Extends, Keeps
      <4>2. ~HasAccount(o)
            BY <1>6, <2>3, <3>4, <4>1 DEF HasAccount, InTurn
      <4>3. HasAccount(o)'
        <5>1. step'[s] # "idle" /\ who'[s] = o /\ draft'[s].account_id = a /\ a # NULL
              BY <2>3, <3>4 DEF Moves
        <5> QED BY <5>1 DEF HasAccount, Busy
      <4> QED BY <1>2, <1>3, <3>2, <4>2, <4>3
    <3> QED BY <1>6, <3>3, <3>4
  <2> QED BY <2>2, <2>3
<1>7. AccountsSame => Owned(o)' = Owned(o)
      BY DEF AccountsSame, Owned
<1>8. ASSUME NEW p \in Organizers, Begins(s, p) PROVE AccountsSame
      BY <1>8 DEF Begins, AccountsSame
<1>9. CASE Moves(s)
      BY <1>5, <1>6, <1>7, <1>9 DEF Moves
<1>10. CASE Ends(s)
      BY <1>5, <1>6, <1>7, <1>10 DEF Ends
<1> QED BY <1>5, <1>7, <1>8, <1>9, <1>10

LEMMA TurnStep ==
  ASSUME SubmissionInv, TurnInv, Next
  PROVE  TurnInv'
<1> SUFFICES ASSUME OneAtATime PROVE (InTurn /\ ReadIsCurrent /\ TiedInv /\ CountInv)'
    BY DEF TurnInv
<1>1. InTurn /\ ReadIsCurrent /\ TiedInv /\ CountInv
      BY DEF TurnInv
<1>2. PICK s \in Submitters : (\E o \in Organizers : Begins(s, o)) \/ Moves(s) \/ Ends(s)
      BY KycStep
<1> QED BY <1>1, <1>2, InTurnStep, TiedStep, CountStep

(* Under TurnInv no step replaces or clears an id: what is written is what *)
(* is stored, extended.                                                    *)
LEMMA IdsStep ==
  ASSUME SubmissionInv, TurnInv, OneAtATime, Next, NEW o \in Organizers
  PROVE  Extends(profile[o], profile'[o])
<1>1. TypeOK /\ RowsAgree /\ SessionInv /\ LockInv
      BY DEF SubmissionInv
<1>2. PICK s \in Submitters : (\E p \in Organizers : Begins(s, p)) \/ Moves(s) \/ Ends(s)
      BY KycStep
<1>3. CASE profile'[o] = profile[o]
      BY <1>3 DEF Extends, Keeps
<1>4. CASE Busy(s) /\ o = who[s] /\ profile'[o] = Written(s)
  <2>1. SameIds(read[s], profile[o]) /\ SameIds(draft[s], Written(s))
        BY <1>1, <1>4, WrittenIds DEF TurnInv, ReadIsCurrent
  <2>2. Extends(read[s], draft[s])
        BY <1>1, <1>4, BusyFacts DEF Local
  <2> QED BY <1>4, <2>1, <2>2 DEF SameIds, Extends, Keeps
<1>5. profile' = profile \/ (Busy(s) /\ profile' = [profile EXCEPT ![who[s]] = Written(s)])
      BY <1>2 DEF Begins, Moves, Ends
<1> QED BY <1>1, <1>3, <1>4, <1>5 DEF TypeOK

(* The count of faults pays for every account but one.                     *)
LEMMA AccountsPaidFor ==
  ASSUME SubmissionInv, TurnInv, OneAtATime
  PROVE  OneAccountPerOrganizer
<1> SUFFICES ASSUME NEW o \in Organizers PROVE Cardinality(Owned(o)) <= 1 + faults
    BY DEF OneAccountPerOrganizer, Owned
<1>1. /\ IsFiniteSet(Owned(o))
      /\ Cardinality(Owned(o)) <= faults + IF HasAccount(o) THEN 1 ELSE 0
      BY DEF TurnInv, CountInv
<1>2. Cardinality(Owned(o)) \in Nat /\ faults \in Nat
      BY <1>1, FS_CardinalityType DEF SubmissionInv, TypeOK
<1> QED BY <1>1, <1>2

-----------------------------------------------------------------------------
(* Other writers: what requests leave alone, and what they put up with.    *)

(* A row that somebody else has locked is not written.                     *)
LEMMA LockedRowsKept ==
  ASSUME TypeOK, NEW s \in Submitters, NEW o \in Organizers, holder[o] \notin {NULL, s},
         (\E p \in Organizers : Begins(s, p)) \/ Moves(s) \/ Ends(s)
  PROVE  profile'[o] = profile[o] /\ holder'[o] = holder[o]
<1>1. CASE \E p \in Organizers : Begins(s, p)
      BY <1>1 DEF Begins
<1>2. CASE Moves(s)
      BY <1>2 DEF Moves, CanWrite, TypeOK
<1>3. CASE Ends(s)
  <2>1. holder'[o] = holder[o] /\ Busy(s)
        BY <1>3 DEF Ends
  <2>2. CASE profile' = profile
        BY <2>1, <2>2
  <2>3. CASE /\ profile' = [profile EXCEPT ![who[s]] = Written(s)]
             /\ Dirty(s) => CanWrite(s)
    <3>1. CASE o = who[s]
          BY <2>1, <2>3, <3>1, WrittenClean DEF CanWrite, TypeOK
    <3>2. CASE o # who[s]
          BY <2>1, <2>3, <3>2 DEF TypeOK
    <3> QED BY <3>1, <3>2
  <2> QED BY <1>3, <2>2, <2>3 DEF Ends
<1> QED BY <1>1, <1>2, <1>3

(* Razorpay may change the statuses of its accounts at any time.           *)
LEMMA OthersChangeAccounts ==
  ASSUME SubmissionInv, TurnInv, remote' \in [Accounts -> LinkedAccount], AccountsSame,
         UNCHANGED <<profile, holder, step, who, read, draft, answer, faults>>
  PROVE  SubmissionInv' /\ TurnInv'
<1>1. TypeOK /\ TypeOK'
      BY DEF SubmissionInv, TypeOK
<1>2. SubmissionInv'
      BY <1>1 DEF SubmissionInv, RowsAgree, SessionInv, LockInv, Busy, Dirty
<1>3. InTurn' = InTurn /\ ReadIsCurrent' = ReadIsCurrent
      BY DEF InTurn, ReadIsCurrent, Busy
<1>4. \A o \in Organizers, r \in Row : Tied(o, r) => TiedIn(remote', o, r)
      BY TiedKept
<1>5. ASSUME TiedInv PROVE TiedInv'
  <2>1. \A o \in Organizers : TiedIn(remote', o, profile'[o])
        BY <1>1, <1>4, <1>5 DEF TiedInv, TypeOK
  <2>2. \A s \in Submitters : step'[s] # "idle" => TiedIn(remote', who'[s], draft'[s])
        BY <1>1, <1>4, <1>5 DEF TiedInv, TypeOK, Busy
  <2> QED BY <2>1, <2>2 DEF TiedInv, Tied, Busy
<1>6. ASSUME CountInv PROVE CountInv'
  <2>1. \A o \in Organizers : Owned(o)' = Owned(o) /\ (HasAccount(o)' <=> HasAccount(o))
        BY DEF Owned, HasAccount, Busy, AccountsSame
  <2> QED BY <1>6, <2>1 DEF CountInv
<1> QED BY <1>2, <1>3, <1>5, <1>6 DEF TurnInv

(* The webhooks may change the statuses of a row, if they take no lock     *)
(* from a request.                                                         *)
LEMMA OthersChangeRows ==
  ASSUME SubmissionInv, TurnInv,
         profile' \in [Organizers -> Row], holder' \in [Organizers -> Sessions \cup {NULL}],
         UNCHANGED <<remote, step, who, read, draft, answer, faults>>,
         \A o \in Organizers :
           /\ Agree(profile'[o]) /\ SameIds(profile[o], profile'[o])
           /\ profile'[o].details = profile[o].details
           /\ profile'[o].submitted = profile[o].submitted,
         \A o \in Organizers : holder[o] \in Submitters => holder'[o] = holder[o]
  PROVE  SubmissionInv' /\ TurnInv'
<1>1. TypeOK /\ TypeOK' /\ RowsAgree'
      BY DEF SubmissionInv, TypeOK, RowsAgree
<1>2. \A s \in Submitters : Busy(s) => who[s] \in Organizers
      BY <1>1 DEF TypeOK, Busy
<1>3. SessionInv'
  <2> SUFFICES ASSUME NEW s \in Submitters, step[s] # "idle"
               PROVE  Local(step[s], read[s], draft[s]) /\ Fills(read[s], profile'[who[s]])
      BY DEF SessionInv, Busy
  <2>1. Local(step[s], read[s], draft[s]) /\ Fills(read[s], profile[who[s]]) /\ who[s] \in Organizers
        BY <1>2 DEF SubmissionInv, SessionInv, Busy
  <2> QED BY <2>1 DEF Fills, SameIds
<1>4. LockInv'
      BY <1>2 DEF SubmissionInv, LockInv, Busy, Dirty, Calls
<1>5. InTurn' = InTurn
      BY DEF InTurn, Busy
<1>6. ReadIsCurrent => ReadIsCurrent'
      BY <1>2 DEF ReadIsCurrent, Busy, SameIds
<1>7. ASSUME TiedInv PROVE TiedInv'
  <2>1. \A o \in Organizers : TiedIn(remote, o, profile'[o])
        BY <1>7, TiedSameIds DEF TiedInv, Tied
  <2> QED BY <1>7, <2>1 DEF TiedInv, Tied, Busy
<1>8. ASSUME CountInv PROVE CountInv'
  <2>1. \A o \in Organizers : Owned(o)' = Owned(o) /\ (HasAccount(o)' <=> HasAccount(o))
        BY DEF Owned, HasAccount, Busy, SameIds
  <2> QED BY <1>8, <2>1 DEF CountInv
<1> QED BY <1>1, <1>3, <1>4, <1>5, <1>6, <1>7, <1>8 DEF SubmissionInv, TurnInv

-----------------------------------------------------------------------------
(* The initial states.                                                     *)

LEMMA NewProfileFacts ==
  /\ NewProfile \in Row /\ Agree(NewProfile) /\ NewProfile.provider_status = NULL
  /\ NewProfile.account_id = NULL /\ NewProfile.stakeholder_id = NULL
  /\ NewProfile.product_id = NULL /\ NewProfile.kyc_status = "PENDING"
BY DEF NewProfile, Row, Agree, KYCStatus, Never

LEMMA InitFacts ==
  ASSUME Init
  PROVE  SubmissionInv /\ CompleteInv /\ TurnInv
<1>1. TypeOK
  <2>1. profile \in [Organizers -> Row]
        BY NewProfileFacts DEF Init
  <2>2. NoAccount \in LinkedAccount
        BY DEF NoAccount, LinkedAccount
  <2>3. remote \in [Accounts -> LinkedAccount]
        BY <2>2 DEF Init
  <2>4. step \in [Submitters -> Steps] /\ answer \in [Organizers -> Answers]
        BY DEF Init, Steps, Answers
  <2>5. faults \in 0..MaxFaults
        BY DEF Init
  <2> QED BY <2>1, <2>3, <2>4, <2>5 DEF Init, TypeOK
<1>2. \A o \in Organizers : profile[o] = NewProfile
      BY DEF Init
<1>3. \A s \in Submitters : ~Busy(s) /\ step[s] = "idle"
      BY DEF Init, Busy
<1>4. RowsAgree /\ CompleteInv
      BY <1>2, NewProfileFacts DEF RowsAgree, CompleteInv
<1>5. SessionInv /\ LockInv /\ InTurn /\ ReadIsCurrent
      BY <1>3 DEF SessionInv, LockInv, Calls, InTurn, ReadIsCurrent
<1>6. TiedInv
      BY <1>2, <1>3, NewProfileFacts DEF TiedInv, Tied, TiedIn
<1>7. CountInv
  <2> SUFFICES ASSUME NEW o \in Organizers
               PROVE  /\ IsFiniteSet(Owned(o))
                      /\ Cardinality(Owned(o)) <= faults + IF HasAccount(o) THEN 1 ELSE 0
      BY DEF CountInv
  <2>1. Owned(o) = {}
        BY DEF Owned, Init, NoAccount
  <2>2. IsFiniteSet(Owned(o)) /\ Cardinality(Owned(o)) = 0 /\ faults = 0
        BY <2>1, FS_EmptySet DEF Init
  <2> QED BY <2>2
<1> QED BY <1>1, <1>4, <1>5, <1>6, <1>7 DEF SubmissionInv, TurnInv

-----------------------------------------------------------------------------
(* The theorems.                                                           *)

KycInv == SubmissionInv /\ CompleteInv /\ TurnInv

(* The inductive invariant holds throughout: of any organizers, accounts   *)
(* and requests, whether requests of one organizer overlap (then TurnInv   *)
(* says nothing) or not.                                                   *)
THEOREM KycInvariant == Spec => []KycInv
<1>1. Init => KycInv
      BY InitFacts DEF KycInv
<1>2. KycInv /\ [Next]_vars => KycInv'
  <2> SUFFICES ASSUME KycInv, [Next]_vars PROVE KycInv'
      OBVIOUS
  <2>1. CASE Next
        BY <2>1, SubmissionStep, CompleteStep, TurnStep DEF KycInv
  <2>2. CASE UNCHANGED vars
    <3>1. UNCHANGED <<profile, holder, remote, step, who, read, draft, answer, faults>>
          BY <2>2 DEF vars, sessionVars
    <3>2. SubmissionInv'
          BY <3>1 DEF KycInv, SubmissionInv, TypeOK, RowsAgree, SessionInv, LockInv, Busy, Dirty
    <3>3. CompleteInv' /\ InTurn' = InTurn /\ ReadIsCurrent' = ReadIsCurrent
          BY <3>1 DEF KycInv, CompleteInv, InTurn, ReadIsCurrent, Busy
    <3>4. TiedInv' = TiedInv
          BY <3>1 DEF TiedInv, Tied, TiedIn, Busy
    <3>5. CountInv' = CountInv
      <4>1. \A o \in Organizers : Owned(o)' = Owned(o) /\ (HasAccount(o)' <=> HasAccount(o))
            BY <3>1 DEF Owned, HasAccount, Busy
      <4> QED BY <3>1, <4>1 DEF CountInv
    <3> QED BY <3>2, <3>3, <3>4, <3>5 DEF KycInv, TurnInv
  <2> QED BY <2>1, <2>2
<1> QED BY <1>1, <1>2, PTL DEF Spec

(* Every variable keeps its type, whatever requests and faults interleave. *)
THEOREM KycTypeCorrect == Spec => []TypeOK
<1>1. KycInv => TypeOK
      BY DEF KycInv, SubmissionInv
<1> QED BY <1>1, KycInvariant, PTL

(* The last UPDATE of a submission passes the three CHECKs, even when      *)
(* requests of one organizer overlap: VERIFIED is only ever written with   *)
(* all the ids and with Razorpay's "activated", or over a row that has     *)
(* them.                                                                   *)
THEOREM KycFinishIsAccepted == Spec => []FinishIsAccepted
<1>1. KycInv => FinishIsAccepted
      BY FinishAccepted DEF KycInv
<1> QED BY <1>1, KycInvariant, PTL

(* A row that has left PENDING is submitted and has form, account,         *)
(* stakeholder and product, even when requests of one organizer overlap.   *)
THEOREM KycReviewedRowsAreComplete == Spec => []ReviewedRowsAreComplete
<1>1. KycInv => ReviewedRowsAreComplete
  <2> SUFFICES ASSUME KycInv, NEW o \in Organizers, profile[o].kyc_status # "PENDING"
               PROVE  /\ profile[o].submitted
                      /\ profile[o].details # NULL
                      /\ {profile[o].account_id, profile[o].stakeholder_id, profile[o].product_id}
                           \subseteq Accounts
      BY DEF ReviewedRowsAreComplete
  <2>1. Agree(profile[o]) /\ profile[o] \in Row
        BY DEF KycInv, SubmissionInv, RowsAgree, TypeOK
  <2>2. Complete(profile[o])
        BY <2>1 DEF KycInv, CompleteInv, Agree
  <2> QED BY <2>1, <2>2 DEF Complete, Row
<1> QED BY <1>1, KycInvariant, PTL

(* When each submission waits for the answer to the one before, a row's    *)
(* account, stakeholder and product are one linked account, created for    *)
(* that organizer.                                                         *)
THEOREM KycIdsBelongTogether == OneAtATime => (Spec => []IdsBelongTogether)
<1> SUFFICES ASSUME OneAtATime PROVE Spec => []IdsBelongTogether
    OBVIOUS
<1>1. KycInv => IdsBelongTogether
      BY DEF KycInv, TurnInv, TiedInv, Tied, TiedIn, IdsBelongTogether
<1> QED BY <1>1, KycInvariant, PTL

(* Then the code Razorpay has on file for the account is the row's.        *)
THEOREM KycSentCodeIsStored == OneAtATime => (Spec => []SentCodeIsStored)
<1> SUFFICES ASSUME OneAtATime PROVE Spec => []SentCodeIsStored
    OBVIOUS
<1>1. KycInv => SentCodeIsStored
      BY DEF KycInv, TurnInv, TiedInv, Tied, TiedIn, SentCodeIsStored
<1> QED BY <1>1, KycInvariant, PTL

(* Then every linked account but one was paid for with a fault: a refused  *)
(* or repeated submission creates none.                                    *)
THEOREM KycOneAccountPerOrganizer == OneAtATime => (Spec => []OneAccountPerOrganizer)
<1> SUFFICES ASSUME OneAtATime PROVE Spec => []OneAccountPerOrganizer
    OBVIOUS
<1>1. KycInv => OneAccountPerOrganizer
      BY AccountsPaidFor DEF KycInv
<1> QED BY <1>1, KycInvariant, PTL

(* Then no step replaces or clears an id that is stored.                   *)
THEOREM KycIdsAreKept == OneAtATime => (Spec => IdsAreKept)
<1> SUFFICES ASSUME OneAtATime PROVE Spec => IdsAreKept
    OBVIOUS
<1> DEFINE Kept == \A o \in Organizers :
                     /\ Keeps(profile[o].account_id, profile'[o].account_id)
                     /\ Keeps(profile[o].stakeholder_id, profile'[o].stakeholder_id)
                     /\ Keeps(profile[o].product_id, profile'[o].product_id)
<1>1. KycInv /\ [Next]_vars => [Kept]_vars
      BY IdsStep DEF KycInv, Extends
<1>2. Spec => [][Kept]_vars
      BY <1>1, KycInvariant, PTL DEF Spec
<1> QED BY <1>2 DEF IdsAreKept
=============================================================================
