-------------------------- MODULE OneTimeCodesProofs --------------------------
(***************************************************************************)
(* Theorems about OneTimeCodes, for all users, requests, rows and codes    *)
(* and every limit on the attempts.  RowInv and CodeInv hold for everybody;*)
(* TurnInv is what a user whose requests come in turn adds to them.        *)
(***************************************************************************)
EXTENDS OneTimeCodes, TLAPS

There(r) == otp[r] # NULL

(* A row that can still be used has attempts left, and so has, in its own  *)
(* eyes, a request that has read one.                                      *)
RowInv ==
  /\ \A r \in Rows : There(r) /\ ~otp[r].used => otp[r].attempts < MaxAttempts
  /\ \A q \in Requests : req[q].step = "confirm" =>
       /\ req[q].row \in Rows
       /\ There(req[q].row)
       /\ req[q].attempts < MaxAttempts

(* c was given to u for p: a row has it, a mail, or a request that is      *)
(* about to mail it or has loaded it.                                      *)
Given(c, u, p) ==
  \/ \E r \in Rows : There(r) /\ otp[r].code = c /\ otp[r].user = u /\ otp[r].purpose = p
  \/ \E m \in mail : m.code = c /\ m.user = u /\ m.purpose = p
  \/ \E q \in Requests : /\ req[q].step \in {"mail", "confirm"}
                         /\ req[q].seen = c /\ req[q].user = u /\ req[q].purpose = p

(* A code is given to one user, for one purpose, and is in one row at most *)
(* (OneOwner, OneRow); what somebody still works with is not drawn again   *)
(* (NotDrawn).                                                             *)
OneOwner ==
  \A c \in Codes, u, v \in Users, p, x \in Purposes :
    Given(c, u, p) /\ Given(c, v, x) => u = v /\ p = x

OneRow ==
  \A r, s \in Rows : There(r) /\ There(s) /\ otp[r].code = otp[s].code => r = s

NotDrawn ==
  /\ \A q \in Requests :
       req[q].step \in {"mail", "confirm"} => req[q].seen \notin FreshCodes
  /\ \A c \in FreshCodes : guesses[c] = 0
  /\ \A c \in Codes : accepts[c] # 0 => c \in spent

(* The row a request works on is its user's, for its purpose, and nobody   *)
(* else's code is the one it has loaded.                                   *)
OwnRow ==
  \A q \in Requests : req[q].step = "confirm" =>
    /\ otp[req[q].row].user = req[q].user
    /\ otp[req[q].row].purpose = req[q].purpose
    /\ \A r \in Rows : There(r) /\ otp[r].code = req[q].seen => r = req[q].row

(* A code in a row that can be used is not spent, and a guess is a code    *)
(* that was mailed.                                                        *)
UnusedIsUnspent ==
  /\ \A r \in Rows : There(r) /\ ~otp[r].used => otp[r].code \notin spent
  /\ SpentIsSpent

GuessIsMailed ==
  \A q \in Requests :
    req[q].step = "confirm" /\ req[q].guess # NULL => req[q].guess \in Known

CodeInv == OneOwner /\ OneRow /\ NotDrawn /\ OwnRow /\ UnusedIsUnspent /\ GuessIsMailed

(* A user whose requests come in turn has one open, which finds the row as *)
(* it was read; the wrong guesses at the code of a row that can be used    *)
(* are the attempts counted in it.                                         *)
OneOpen ==
  \A q, s \in Requests : req[q].user = req[s].user /\ req[q].user \in Patient => q = s

ReadIsCurrent ==
  \A q \in Requests : req[q].user \in Patient =>
    /\ req[q].step = "confirm" =>
         /\ otp[req[q].row].code = req[q].seen
         /\ otp[req[q].row].attempts = req[q].attempts
         /\ ~otp[req[q].row].used
    /\ req[q].step = "mail" =>
         \E r \in Rows : /\ There(r) /\ otp[r].code = req[q].seen
                         /\ otp[r].user = req[q].user

CountsAreGuesses ==
  \A r \in Rows :
    There(r) /\ otp[r].user \in Patient /\ ~otp[r].used =>
      guesses[otp[r].code] = otp[r].attempts

TurnInv ==
  /\ OneOpen /\ ReadIsCurrent /\ CountsAreGuesses
  /\ GuessLimitInTurn /\ AcceptedOnceInTurn /\ GoodUntilSpentInTurn

USE NullAssumption, AttemptsAssumption, PatientAssumption, NullOtpAssumption

-----------------------------------------------------------------------------
(* What the steps do to the rows.                                          *)

(* The fields of row r that say whose it is and what for are what they     *)
(* were, and no other row is touched.                                      *)
SameOwner(r) == otp'[r].user = otp[r].user /\ otp'[r].purpose = otp[r].purpose

OnlyRow(r) ==
  /\ otp' \in [Rows -> Otp \cup {NULL}]
  /\ otp'[r] # NULL
  /\ \A s \in Rows \ {r} : otp'[s] = otp[s]

(* An assignment to a row.                                                 *)
LEMMA SetRow ==
  ASSUME TypeOK, NEW r \in Rows, NEW new \in Otp, otp' = [otp EXCEPT ![r] = new]
  PROVE  otp'[r] = new /\ OnlyRow(r)
BY DEF TypeOK, OnlyRow, There

(* upsert_otp makes one row, or reuses one that can be used by the same    *)
(* user for the same purpose, and then spends the code that was in it.     *)
LEMMA UpsertEffect ==
  ASSUME TypeOK, NEW u \in Users, NEW p \in Purposes, NEW c \in Codes, Upsert(u, p, c)
  PROVE  \E r \in Rows :
           /\ OnlyRow(r)
           /\ otp'[r].user = u /\ otp'[r].purpose = p /\ otp'[r].code = c
           /\ ~otp'[r].used /\ otp'[r].attempts = 0
           /\ \/ ~There(r) /\ spent' = spent
              \/ /\ There(r) /\ SameOwner(r) /\ ~otp[r].used
                 /\ spent' = spent \cup {otp[r].code}
<1>1. CASE Unused(u, p) = {}
  <2>1. PICK r \in Rows :
          /\ otp[r] = NULL
          /\ otp' = [otp EXCEPT ![r] = [user |-> u, purpose |-> p, code |-> c, used |-> FALSE,
                                         attempts |-> 0, expired |-> FALSE]]
          /\ UNCHANGED spent
        BY <1>1 DEF Upsert
  <2>2. [user |-> u, purpose |-> p, code |-> c, used |-> FALSE, attempts |-> 0,
         expired |-> FALSE] \in Otp
        BY DEF Otp
  <2> QED BY <2>1, <2>2 DEF TypeOK, OnlyRow, There
<1>2. CASE Unused(u, p) # {}
  <2>1. PICK r \in Unused(u, p) :
          /\ otp' = [otp EXCEPT ![r].code = c, ![r].expired = FALSE, ![r].attempts = 0]
          /\ spent' = spent \cup {otp[r].code}
        BY <1>2 DEF Upsert
  <2>2. r \in Rows /\ There(r) /\ otp[r] \in Otp
        /\ otp[r].user = u /\ otp[r].purpose = p /\ ~otp[r].used
        BY <2>1 DEF Unused, There, TypeOK
  <2>3. otp' = [otp EXCEPT ![r] = [otp[r] EXCEPT !.code = c, !.expired = FALSE, !.attempts = 0]]
        BY <2>1
  <2>4. LET new == [otp[r] EXCEPT !.code = c, !.expired = FALSE, !.attempts = 0] IN
          /\ new \in Otp /\ new.user = u /\ new.purpose = p
          /\ new.code = c /\ ~new.used /\ new.attempts = 0
    <3>1. 0 \in 0..MaxAttempts
          OBVIOUS
    <3>2. c \in Codes /\ FALSE \in BOOLEAN
          OBVIOUS
    <3> QED BY ONLY <2>2, <3>1, <3>2 DEF Otp
  <2>5. /\ otp' \in [Rows -> Otp \cup {NULL}]
        /\ otp'[r] = [otp[r] EXCEPT !.code = c, !.expired = FALSE, !.attempts = 0]
        /\ \A s \in Rows \ {r} : otp'[s] = otp[s]
        BY <2>2, <2>3, <2>4 DEF TypeOK
  <2>6. /\ otp'[r].user = u /\ otp'[r].purpose = p /\ otp'[r].code = c
        /\ ~otp'[r].used /\ otp'[r].attempts = 0
        BY <2>4, <2>5
  <2> QED BY <2>1, <2>2, <2>4, <2>5, <2>6 DEF OnlyRow, There, SameOwner
<1> QED BY <1>1, <1>2

(* A guess touches the row the request has read, and neither its owner nor *)
(* its code.                                                               *)
LEMMA GuessEffect ==
  ASSUME TypeOK, RowInv, NEW q \in Requests, WrongGuess(q) \/ RightGuess(q)
  PROVE  LET r == req[q].row IN
           /\ r \in Rows /\ There(r) /\ OnlyRow(r) /\ SameOwner(r)
           /\ otp'[r].code = otp[r].code
           /\ WrongGuess(q) =>
                /\ otp'[r].attempts = req[q].attempts + 1
                /\ otp'[r].used = (otp[r].used \/ req[q].attempts + 1 >= MaxAttempts)
           /\ RightGuess(q) => otp'[r].used /\ otp'[r].attempts = otp[r].attempts
<1> DEFINE r == req[q].row
<1>1. /\ r \in Rows /\ There(r) /\ otp[r] \in Otp
      /\ req[q].attempts \in Nat /\ req[q].attempts < MaxAttempts
      BY DEF WrongGuess, RightGuess, RowInv, There, TypeOK, Request
<1>2. CASE WrongGuess(q)
  <2> DEFINE new == [otp[r] EXCEPT !.attempts = req[q].attempts + 1,
                                   !.used = @ \/ req[q].attempts + 1 >= MaxAttempts]
  <2>1. otp' = [otp EXCEPT ![r] = new]
        BY <1>2 DEF WrongGuess
  <2>2. new \in Otp /\ new.user = otp[r].user /\ new.purpose = otp[r].purpose
        /\ new.code = otp[r].code /\ new.attempts = req[q].attempts + 1
        /\ new.used = (otp[r].used \/ req[q].attempts + 1 >= MaxAttempts)
    <3>1. req[q].attempts + 1 \in 0..MaxAttempts
          BY <1>1
    <3>2. otp[r] \in Otp
          BY <1>1
    <3> HIDE DEF r
    <3>3. (otp[r].used \/ req[q].attempts + 1 >= MaxAttempts) \in BOOLEAN
          BY <3>2 DEF Otp
    <3> QED BY ONLY <3>1, <3>2, <3>3 DEF Otp
  <2>3. ~RightGuess(q)
        BY <1>2 DEF WrongGuess, RightGuess
  <2> HIDE DEF new
  <2>4. otp'[r] = new /\ OnlyRow(r)
        BY ONLY TypeOK, <1>1, <2>1, <2>2, SetRow
  <2> HIDE DEF r
  <2> QED BY <1>1, <2>2, <2>3, <2>4 DEF SameOwner, r
<1>3. CASE RightGuess(q)
  <2> DEFINE new == [otp[r] EXCEPT !.used = TRUE]
  <2>1. otp' = [otp EXCEPT ![r] = new]
        BY <1>3 DEF RightGuess
  <2>2. new \in Otp /\ new.user = otp[r].user /\ new.purpose = otp[r].purpose
        /\ new.code = otp[r].code /\ new.attempts = otp[r].attempts /\ new.used
        BY <1>1 DEF Otp
  <2>3. ~WrongGuess(q)
        BY <1>3 DEF WrongGuess, RightGuess
  <2> HIDE DEF new
  <2>4. otp'[r] = new /\ OnlyRow(r)
        BY ONLY TypeOK, <1>1, <2>1, <2>2, SetRow
  <2> HIDE DEF r
  <2> QED BY <1>1, <2>2, <2>3, <2>4 DEF SameOwner, r
<1> QED BY <1>2, <1>3

(* Expiry touches nothing but the expiry.                                  *)
LEMMA ExpireEffect ==
  ASSUME TypeOK, NEW r \in Rows, Expire(r)
  PROVE  /\ There(r) /\ OnlyRow(r) /\ SameOwner(r)
         /\ otp'[r].code = otp[r].code
         /\ otp'[r].used = otp[r].used /\ otp'[r].attempts = otp[r].attempts
<1> DEFINE new == [otp[r] EXCEPT !.expired = TRUE]
<1>1. There(r) /\ otp[r] \in Otp /\ otp' = [otp EXCEPT ![r] = new]
      BY DEF Expire, There, TypeOK
<1>2. new \in Otp /\ new.user = otp[r].user /\ new.purpose = otp[r].purpose
      /\ new.code = otp[r].code /\ new.attempts = otp[r].attempts /\ new.used = otp[r].used
      BY <1>1 DEF Otp
<1> HIDE DEF new
<1>3. otp'[r] = new /\ OnlyRow(r)
      BY <1>1, <1>2, SetRow
<1> QED BY <1>1, <1>2, <1>3 DEF SameOwner

-----------------------------------------------------------------------------
(* What the steps do to the requests.                                      *)

(* Opening and closing a request touches no other.                         *)
LEMMA OpenEffect ==
  ASSUME TypeOK, NEW q \in Requests, NEW u \in Users, NEW x \in Request, Open(q, u, x)
  PROVE  /\ req' \in [Requests -> Request]
         /\ req'[q] = x /\ req[q] = Idle
         /\ \A s \in Requests \ {q} : req'[s] = req[s]
BY DEF TypeOK, Open

LEMMA IdleIsRequest == Idle \in Request
<1>1. 0 \in 0..MaxAttempts
      OBVIOUS
<1> QED BY <1>1 DEF Idle, Request

LEMMA CloseEffect ==
  ASSUME TypeOK, NEW q \in Requests, Close(q)
  PROVE  /\ req' \in [Requests -> Request]
         /\ req'[q] = Idle
         /\ \A s \in Requests \ {q} : req'[s] = req[s]
BY IdleIsRequest DEF TypeOK, Close

(* A registration or a sending that has just begun.                        *)
LEMMA BeginEffect ==
  ASSUME TypeOK, NEW q \in Requests, NEW u \in Users,
         RegisterRead(q, u) \/ \E p \in Purposes : SendRead(q, u, p)
  PROVE  /\ req'[q] \in Request /\ req'[q].user = u
         /\ \/ req'[q].step = "register"
            \/ req'[q].step = "store" /\ req'[q].purpose \in Purposes
         /\ Open(q, u, req'[q])
         /\ UNCHANGED <<account, otp, mail, guesses, accepts, spent>>
<1>0. 0 \in 0..MaxAttempts
      OBVIOUS
<1>1. CASE RegisterRead(q, u)
  <2> DEFINE x == [Idle EXCEPT !.step = "register", !.user = u]
  <2>1. x \in Request /\ x.user = u /\ x.step = "register"
        BY <1>0 DEF Idle, Request
  <2>2. Open(q, u, x)
        BY <1>1 DEF RegisterRead
  <2> HIDE DEF x
  <2>3. req'[q] = x
        BY <2>1, <2>2, OpenEffect
  <2> QED BY <1>1, <2>1, <2>2, <2>3 DEF RegisterRead
<1>2. ASSUME NEW p \in Purposes, SendRead(q, u, p) 
      PROVE  /\ req'[q] \in Request /\ req'[q].user = u
             /\ req'[q].step = "store" /\ req'[q].purpose \in Purposes
             /\ Open(q, u, req'[q])
             /\ UNCHANGED <<account, otp, mail, guesses, accepts, spent>>
  <2> DEFINE x == [Idle EXCEPT !.step = "store", !.user = u, !.purpose = p]
  <2>1. x \in Request /\ x.user = u /\ x.step = "store" /\ x.purpose = p
        BY <1>0 DEF Idle, Request
  <2>2. Open(q, u, x)
        BY <1>2 DEF SendRead
  <2> HIDE DEF x
  <2>3. req'[q] = x
        BY <2>1, <2>2, OpenEffect
  <2> QED BY <1>2, <2>1, <2>2, <2>3 DEF SendRead
<1> QED BY <1>1, <1>2

(* A request that is storing a code and gets one.                          *)
LEMMA StoreEffect ==
  ASSUME TypeOK, NEW q \in Requests, SendStore(q)
  PROVE  /\ req[q].user \in Users /\ req[q].purpose \in Purposes
         /\ req[q].step = "store"
         /\ \E c \in FreshCodes :
              /\ c \in Codes
              /\ Upsert(req[q].user, req[q].purpose, c)
              /\ req' \in [Requests -> Request]
              /\ req'[q] \in Request /\ req'[q].step = "mail" /\ req'[q].seen = c
              /\ req'[q].user = req[q].user /\ req'[q].purpose = req[q].purpose
              /\ \A s \in Requests \ {q} : req'[s] = req[s]
         /\ UNCHANGED <<account, mail, guesses, accepts>>
<1>1. /\ req[q] \in Request /\ req[q].step = "store"
      /\ req[q].user \in Users /\ req[q].purpose \in Purposes
      BY DEF SendStore, TypeOK
<1>2. PICK c \in FreshCodes :
        /\ Upsert(req[q].user, req[q].purpose, c)
        /\ req' = [req EXCEPT ![q].step = "mail", ![q].seen = c]
      BY DEF SendStore
<1>3. c \in Codes
      BY DEF FreshCodes
<1> DEFINE x == [req[q] EXCEPT !.step = "mail", !.seen = c]
<1>4. x \in Request /\ x.step = "mail" /\ x.seen = c
      /\ x.user = req[q].user /\ x.purpose = req[q].purpose
      BY ONLY <1>1, <1>3 DEF Request
<1>5. req' = [req EXCEPT ![q] = x]
      BY <1>2
<1> HIDE DEF x
<1>6. /\ req' \in [Requests -> Request] /\ req'[q] = x
      /\ \A s \in Requests \ {q} : req'[s] = req[s]
      BY <1>4, <1>5 DEF TypeOK
<1> QED BY <1>1, <1>2, <1>3, <1>4, <1>6 DEF SendStore

(* A confirmation that has just read a row.                                *)
LEMMA ConfirmReadEffect ==
  ASSUME TypeOK, NEW q \in Requests, NEW u \in Users, NEW p \in Purposes,
         NEW g \in Known \cup {NULL}, ConfirmRead(q, u, p, g)
  PROVE  /\ \E r \in Rows :
              /\ There(r) /\ otp[r] \in Otp /\ ~otp[r].used
              /\ otp[r].user = u /\ otp[r].purpose = p
              /\ Open(q, u, req'[q]) /\ req'[q] \in Request
              /\ req'[q].step = "confirm" /\ req'[q].row = r
              /\ req'[q].user = u /\ req'[q].purpose = p
              /\ req'[q].seen = otp[r].code /\ req'[q].attempts = otp[r].attempts
              /\ req'[q].guess = g /\ req'[q].late = (g \in spent)
         /\ UNCHANGED <<account, otp, mail, guesses, accepts, spent>>
<1>1. PICK r \in Valid(u, p) :
        Open(q, u, [step |-> "confirm", user |-> u, purpose |-> p, row |-> r,
                    seen |-> otp[r].code, attempts |-> otp[r].attempts,
                    guess |-> g, late |-> g \in spent])
      BY DEF ConfirmRead
<1>2. /\ r \in Rows /\ There(r) /\ otp[r] \in Otp /\ ~otp[r].used
      /\ otp[r].user = u /\ otp[r].purpose = p
      BY <1>1 DEF Valid, Unused, There, TypeOK
<1>3. /\ otp[r].code \in Codes /\ otp[r].attempts \in 0..MaxAttempts
      /\ g \in Codes \cup {NULL} /\ (g \in spent) \in BOOLEAN
      BY <1>2 DEF Otp, Known, Mail, TypeOK
<1> DEFINE x == [step |-> "confirm", user |-> u, purpose |-> p, row |-> r,
                 seen |-> otp[r].code, attempts |-> otp[r].attempts,
                 guess |-> g, late |-> g \in spent]
<1>4. x \in Request
      BY <1>2, <1>3 DEF Request
<1>5. req'[q] = x
      BY <1>1, <1>4, OpenEffect
<1> QED BY <1>1, <1>2, <1>4, <1>5 DEF ConfirmRead

-----------------------------------------------------------------------------
(* Type correctness.                                                       *)

(* What TypeOK says of the requests holds when each open one is as it was  *)
(* and rows are not deleted, or is new and typed.                          *)
RequestTyped(q) ==
  /\ req[q].step # "idle" => req[q].user \in Users
  /\ req[q].step \in {"store", "mail", "confirm"} => req[q].purpose \in Purposes
  /\ req[q].step = "mail" => req[q].seen \in Codes
  /\ req[q].step = "confirm" => req[q].seen \in Codes /\ otp[req[q].row] \in Otp

RequestsTyped(q) ==
  /\ req' \in [Requests -> Request]
  /\ \A s \in Requests \ {q} : req'[s] = req[s]
  /\ RequestTyped(q)'

RowsTyped ==
  /\ otp' \in [Rows -> Otp \cup {NULL}]
  /\ \A r \in Rows : There(r) => There(r)'

LEMMA OnlyRowTyped == ASSUME NEW r \in Rows, OnlyRow(r) PROVE RowsTyped
BY DEF OnlyRow, RowsTyped, There

LEMMA RequestsStayTyped ==
  ASSUME TypeOK, RowInv, RowsTyped, NEW q \in Requests, RequestsTyped(q)
  PROVE  \A s \in Requests : RequestTyped(s)'
<1>1. ASSUME NEW s \in Requests, s # q PROVE RequestTyped(s)'
  <2>1. req'[s] = req[s] /\ RequestTyped(s)
        BY <1>1 DEF RequestsTyped, RequestTyped, TypeOK
  <2>2. req[s].step = "confirm" => otp'[req[s].row] \in Otp
        BY DEF RowInv, RowsTyped, There
  <2> QED BY <2>1, <2>2 DEF RequestTyped
<1> QED BY <1>1 DEF RequestsTyped

LEMMA IdleTyped == ASSUME NEW q, req'[q] = Idle PROVE RequestTyped(q)'
BY DEF Idle, RequestTyped

(* What each step does to the types: a row is never deleted, so the one a  *)
(* confirmation has read is there when it is written.                      *)
LEMMA TypeInductive == TypeOK /\ RowInv /\ [Next]_vars => TypeOK'
<1> SUFFICES ASSUME TypeOK, RowInv, [Next]_vars PROVE TypeOK'
    OBVIOUS
<1>a. /\ account \in [Users -> {"none", "unverified", "verified"}]
      /\ otp \in [Rows -> Otp \cup {NULL}] /\ mail \subseteq Mail
      /\ guesses \in [Codes -> Nat] /\ accepts \in [Codes -> Nat] /\ spent \subseteq Codes
      BY DEF TypeOK, RequestTyped
<1>1. ASSUME NEW q \in Requests, NEW u \in Users,
             RegisterRead(q, u) \/ \E p \in Purposes : SendRead(q, u, p)
      PROVE  TypeOK'
  <2>2. RequestsTyped(q)
        BY <1>1, BeginEffect, OpenEffect DEF RequestsTyped, RequestTyped
  <2>3. UNCHANGED <<account, otp, mail, guesses, accepts, spent>>
        BY <1>1, BeginEffect
  <2>4. RowsTyped
        BY <1>a, <2>3 DEF RowsTyped, There
  <2> QED BY <1>a, <2>2, <2>3, <2>4, RequestsStayTyped
         DEF RequestsTyped, RowsTyped, RequestTyped, TypeOK
<1>2. ASSUME NEW q \in Requests, NEW u \in Users, NEW p \in Purposes,
             NEW g \in Known \cup {NULL}, ConfirmRead(q, u, p, g)
      PROVE  TypeOK'
  <2>1. UNCHANGED <<account, otp, mail, guesses, accepts, spent>>
        BY <1>2, ConfirmReadEffect
  <2>2. RowsTyped
        BY <1>a, <2>1 DEF RowsTyped, There
  <2>3. RequestsTyped(q)
    <3>1. PICK r \in Rows :
            /\ otp[r] \in Otp /\ Open(q, u, req'[q]) /\ req'[q] \in Request
            /\ req'[q].step = "confirm" /\ req'[q].row = r
            /\ req'[q].user = u /\ req'[q].purpose = p /\ req'[q].seen = otp[r].code
          BY <1>2, ConfirmReadEffect
    <3>2. /\ req' \in [Requests -> Request]
          /\ \A s \in Requests \ {q} : req'[s] = req[s]
          BY <3>1, OpenEffect
    <3>3. RequestTyped(q)'
          BY <2>1, <3>1 DEF RequestTyped, Otp
    <3> QED BY <3>2, <3>3 DEF RequestsTyped
  <2> QED BY <1>a, <2>1, <2>2, <2>3, RequestsStayTyped
         DEF RequestsTyped, RowsTyped, RequestTyped, TypeOK
<1>3. ASSUME NEW q \in Requests, SendStore(q) PROVE TypeOK'
  <2>1. PICK c \in FreshCodes :
          /\ c \in Codes
          /\ Upsert(req[q].user, req[q].purpose, c)
          /\ req' \in [Requests -> Request]
          /\ req'[q] \in Request /\ req'[q].step = "mail" /\ req'[q].seen = c
          /\ req'[q].user = req[q].user /\ req'[q].purpose = req[q].purpose
          /\ \A s \in Requests \ {q} : req'[s] = req[s]
        BY <1>3, StoreEffect
  <2>2. /\ req[q].user \in Users /\ req[q].purpose \in Purposes
        /\ UNCHANGED <<account, mail, guesses, accepts>>
        BY <1>3, StoreEffect
  <2>3. RequestsTyped(q)
        BY <2>1, <2>2 DEF RequestsTyped, RequestTyped
  <2>4. PICK r \in Rows :
          /\ OnlyRow(r)
          /\ \/ spent' = spent
             \/ There(r) /\ spent' = spent \cup {otp[r].code}
        BY <2>1, <2>2, UpsertEffect
  <2>5. RowsTyped
        BY <2>4, OnlyRowTyped
  <2>6. spent' \subseteq Codes
    <3>1. There(r) => otp[r].code \in Codes
          BY <1>a DEF There, Otp
    <3> QED BY <1>a, <2>4, <3>1
  <2> QED BY <1>a, <2>2, <2>3, <2>5, <2>6, RequestsStayTyped
         DEF RequestsTyped, RowsTyped, RequestTyped, TypeOK
<1>4. ASSUME NEW q \in Requests, RegisterCommit(q) \/ SendMail(q) \/ Die(q) PROVE TypeOK'
  <2>1. Close(q) /\ UNCHANGED <<otp, guesses, accepts, spent>>
        BY <1>4 DEF RegisterCommit, SendMail, Die
  <2>2. RowsTyped
        BY <1>a, <2>1 DEF RowsTyped, There
  <2>3. RequestsTyped(q)
        BY <2>1, CloseEffect, IdleTyped DEF RequestsTyped
  <2>4. account' \in [Users -> {"none", "unverified", "verified"}]
        BY <1>a, <1>4 DEF RegisterCommit, SendMail, Die
  <2>5. mail' \subseteq Mail
    <3>1. CASE SendMail(q)
      <4>1. /\ req[q].user \in Users /\ req[q].purpose \in Purposes /\ req[q].seen \in Codes
            BY <3>1 DEF SendMail, RequestTyped, TypeOK
      <4> QED BY <1>a, <3>1, <4>1 DEF SendMail, Mail
    <3>2. CASE UNCHANGED mail
          BY <1>a, <3>2
    <3> QED BY <1>4, <3>1, <3>2 DEF RegisterCommit, Die
  <2> QED BY <1>a, <2>1, <2>2, <2>3, <2>4, <2>5, RequestsStayTyped
         DEF RequestsTyped, RowsTyped, RequestTyped, TypeOK
<1>5. ASSUME NEW q \in Requests, WrongGuess(q) \/ RightGuess(q) PROVE TypeOK'
  <2>1. RowsTyped
        BY <1>5, GuessEffect, OnlyRowTyped
  <2>2. Close(q) /\ UNCHANGED mail
        BY <1>5 DEF WrongGuess, RightGuess
  <2>3. RequestsTyped(q)
        BY <2>2, CloseEffect, IdleTyped DEF RequestsTyped
  <2>4. req[q].seen \in Codes /\ req[q].user \in Users
        BY <1>5 DEF WrongGuess, RightGuess, RequestTyped, TypeOK
  <2>5. account' \in [Users -> {"none", "unverified", "verified"}]
        BY <1>a, <1>5, <2>4 DEF WrongGuess, RightGuess
  <2>6. guesses' \in [Codes -> Nat] /\ accepts' \in [Codes -> Nat] /\ spent' \subseteq Codes
        BY <1>a, <1>5, <2>4 DEF WrongGuess, RightGuess
  <2> QED BY <1>a, <2>1, <2>2, <2>3, <2>5, <2>6, RequestsStayTyped
          DEF RequestsTyped, RowsTyped, RequestTyped, TypeOK
<1>6. ASSUME NEW r \in Rows, Expire(r) PROVE TypeOK'
  <2>1. RowsTyped
        BY <1>6, ExpireEffect, OnlyRowTyped
  <2>2. UNCHANGED <<account, mail, req, guesses, accepts, spent>>
        BY <1>6 DEF Expire
  <2>3. ASSUME NEW q \in Requests PROVE RequestTyped(q)'
    <3>1. RequestTyped(q)
          BY DEF TypeOK, RequestTyped
    <3>2. req[q].step = "confirm" => otp'[req[q].row] \in Otp
          BY <2>1 DEF RowInv, RowsTyped, There
    <3> QED BY <2>2, <3>1, <3>2 DEF RequestTyped
  <2>4. req \in [Requests -> Request]
        BY DEF TypeOK, RequestTyped
  <2> QED BY <1>a, <2>1, <2>2, <2>3, <2>4 DEF RowsTyped, RequestTyped, TypeOK
<1>7. CASE UNCHANGED vars
      BY <1>7 DEF vars, TypeOK
<1> QED BY <1>1, <1>2, <1>3, <1>4, <1>5, <1>6, <1>7 DEF Next

-----------------------------------------------------------------------------
(* Two kinds of steps.  One fills row r with a code that was never drawn;  *)
(* every other leaves in each row the code, and its owner, that it had.    *)
Fill(q, r, c) ==
  /\ req[q].step = "store" /\ req[q].user \in Users /\ req[q].purpose \in Purposes
  /\ c \in Codes /\ c \in FreshCodes
  /\ OnlyRow(r)
  /\ otp'[r].user = req[q].user /\ otp'[r].purpose = req[q].purpose
  /\ otp'[r].code = c /\ ~otp'[r].used /\ otp'[r].attempts = 0
  /\ \/ ~There(r) /\ spent' = spent
     \/ There(r) /\ SameOwner(r) /\ ~otp[r].used /\ spent' = spent \cup {otp[r].code}
  /\ req'[q].step = "mail" /\ req'[q].seen = c
  /\ req'[q].user = req[q].user /\ req'[q].purpose = req[q].purpose
  /\ \A s \in Requests \ {q} : req'[s] = req[s]
  /\ UNCHANGED <<account, mail, guesses, accepts>>

Touch(r) ==
  /\ (otp'[r] = NULL) = (otp[r] = NULL)
  /\ There(r) => /\ SameOwner(r) /\ otp'[r].code = otp[r].code
                 /\ otp[r].used => otp'[r].used
                 /\ otp'[r].used \/ otp'[r].attempts < MaxAttempts

NewConfirm(q) ==
  /\ \E r \in Rows : /\ There(r) /\ ~otp[r].used /\ otp[r].code \in Codes
                     /\ otp[r].user = req'[q].user /\ otp[r].purpose = req'[q].purpose
                     /\ req'[q].step = "confirm" /\ req'[q].row = r
                     /\ req'[q].seen = otp[r].code /\ req'[q].attempts = otp[r].attempts
  /\ req'[q].guess \in Known \cup {NULL}
  /\ req'[q].late = (req'[q].guess \in spent)
  /\ req[q] = Idle
  /\ req'[q].user \in Patient => \A s \in Requests : req[s].user # req'[q].user
  /\ \A s \in Requests \ {q} : req'[s] = req[s]
  /\ UNCHANGED <<otp, mail, guesses, accepts, spent>>

NewStart(q) ==
  /\ req'[q].step \in {"register", "store"}
  /\ req'[q].user \in Patient => \A s \in Requests : req[s].user # req'[q].user
  /\ \A s \in Requests \ {q} : req'[s] = req[s]
  /\ UNCHANGED <<otp, mail, guesses, accepts, spent>>

Guess(q) == WrongGuess(q) \/ RightGuess(q)

LEMMA FillStep ==
  ASSUME TypeOK, NEW q \in Requests, SendStore(q)
  PROVE  \E r \in Rows, c \in Codes : Fill(q, r, c)
<1>1. PICK c \in FreshCodes :
        /\ c \in Codes
        /\ Upsert(req[q].user, req[q].purpose, c)
        /\ req'[q].step = "mail" /\ req'[q].seen = c
        /\ req'[q].user = req[q].user /\ req'[q].purpose = req[q].purpose
        /\ \A s \in Requests \ {q} : req'[s] = req[s]
      BY StoreEffect
<1>2. /\ req[q].user \in Users /\ req[q].purpose \in Purposes /\ req[q].step = "store"
      /\ UNCHANGED <<account, mail, guesses, accepts>>
      BY StoreEffect
<1>3. PICK r \in Rows :
        /\ OnlyRow(r)
        /\ otp'[r].user = req[q].user /\ otp'[r].purpose = req[q].purpose /\ otp'[r].code = c
        /\ ~otp'[r].used /\ otp'[r].attempts = 0
        /\ \/ ~There(r) /\ spent' = spent
           \/ There(r) /\ SameOwner(r) /\ ~otp[r].used /\ spent' = spent \cup {otp[r].code}
      BY <1>1, <1>2, UpsertEffect
<1> QED BY <1>1, <1>2, <1>3 DEF Fill

(* The rows after any other step.                                          *)
LEMMA TouchStep ==
  ASSUME TypeOK, RowInv, [Next]_vars, \A q \in Requests : ~SendStore(q), NEW r \in Rows
  PROVE  Touch(r)
<1>0. There(r) => otp[r].used \/ otp[r].attempts < MaxAttempts
      BY DEF RowInv
<1>1. CASE otp' = otp
      BY <1>0, <1>1 DEF Touch, There, SameOwner
<1>2. ASSUME NEW q \in Requests, Guess(q) PROVE Touch(r)
  <2>1. CASE r # req[q].row
        BY <1>0, <1>2, <2>1, GuessEffect DEF Guess, OnlyRow, Touch, There, SameOwner
  <2>2. CASE r = req[q].row
    <3>1. There(r) /\ otp'[r] # NULL /\ SameOwner(r) /\ otp'[r].code = otp[r].code
          BY <1>2, <2>2, GuessEffect DEF Guess, OnlyRow, There, SameOwner
    <3>2. otp[r].used => otp'[r].used
          BY <1>2, <2>2, GuessEffect DEF Guess
    <3>3. otp'[r].used \/ otp'[r].attempts < MaxAttempts
      <4>1. req[q].attempts + 1 >= MaxAttempts \/ req[q].attempts + 1 < MaxAttempts
            BY DEF TypeOK, Request
      <4> QED BY <1>2, <2>2, <4>1, GuessEffect DEF Guess
    <3> QED BY <3>1, <3>2, <3>3 DEF Touch, There
  <2> QED BY <2>1, <2>2
<1>3. ASSUME NEW s \in Rows, Expire(s) PROVE Touch(r)
  <2>1. CASE r # s
        BY <1>0, <1>3, <2>1, ExpireEffect DEF OnlyRow, Touch, There, SameOwner
  <2>2. CASE r = s
        BY <1>0, <1>3, <2>2, ExpireEffect DEF OnlyRow, Touch, There, SameOwner
  <2> QED BY <2>1, <2>2
<1>4. otp' = otp \/ (\E q \in Requests : Guess(q)) \/ (\E s \in Rows : Expire(s))
      BY DEF Next, vars, Guess, RegisterRead, SendRead, ConfirmRead, RegisterCommit, SendMail, Die
<1> QED BY <1>1, <1>2, <1>3, <1>4

(* A request, from one step to the next.                                   *)
LEMMA RequestStep ==
  ASSUME TypeOK, [Next]_vars, \A q \in Requests : ~SendStore(q), NEW q \in Requests
  PROVE  req'[q] = req[q] \/ req'[q] = Idle \/ NewStart(q) \/ NewConfirm(q)
<1>1. ASSUME NEW s \in Requests, Close(s) PROVE req'[q] = req[q] \/ req'[q] = Idle
      BY <1>1, CloseEffect
<1>2. ASSUME NEW s \in Requests, NEW u \in Users,
             RegisterRead(s, u) \/ \E p \in Purposes : SendRead(s, u, p)
      PROVE  req'[q] = req[q] \/ NewStart(q)
  <2>1. CASE q = s
        BY <1>2, <2>1, BeginEffect, OpenEffect DEF NewStart, Open, Free
  <2>2. CASE q # s
        BY <1>2, <2>2, BeginEffect, OpenEffect
  <2> QED BY <2>1, <2>2
<1>3. ASSUME NEW s \in Requests, NEW u \in Users, NEW p \in Purposes,
             NEW g \in Known \cup {NULL}, ConfirmRead(s, u, p, g)
      PROVE  req'[q] = req[q] \/ NewConfirm(q)
  <2>1. PICK r \in Rows :
              /\ There(r) /\ otp[r] \in Otp /\ ~otp[r].used
              /\ otp[r].user = u /\ otp[r].purpose = p
              /\ Open(s, u, req'[s]) /\ req'[s] \in Request
              /\ req'[s].step = "confirm" /\ req'[s].row = r
              /\ req'[s].user = u /\ req'[s].purpose = p
              /\ req'[s].seen = otp[r].code /\ req'[s].attempts = otp[r].attempts
              /\ req'[s].guess = g /\ req'[s].late = (g \in spent)
        BY <1>3, ConfirmReadEffect
  <2>2. UNCHANGED <<otp, mail, guesses, accepts, spent>>
        BY <1>3, ConfirmReadEffect
  <2>3. CASE q = s
    <3>1. otp[r].code \in Codes
          BY <2>1 DEF Otp
    <3>2. req[q] = Idle /\ (u \in Patient => \A t \in Requests : req[t].user # u)
          BY <2>1, <2>3 DEF Open, Free
    <3>3. \A t \in Requests \ {s} : req'[t] = req[t]
          BY <2>1, OpenEffect
    <3> QED BY <2>1, <2>2, <2>3, <3>1, <3>2, <3>3 DEF NewConfirm
  <2>4. CASE q # s
        BY <2>1, <2>4, OpenEffect
  <2> QED BY <2>3, <2>4
<1>4. CASE req' = req
      BY <1>4
<1>5. \/ req' = req
      \/ \E s \in Requests : Close(s)
      \/ \E s \in Requests, u \in Users :
           RegisterRead(s, u) \/ \E p \in Purposes : SendRead(s, u, p)
      \/ \E s \in Requests, u \in Users, p \in Purposes, g \in Known \cup {NULL} :
           ConfirmRead(s, u, p, g)
      BY DEF Next, vars, RegisterCommit, SendMail, WrongGuess, RightGuess, Die, Expire
<1> QED BY <1>1, <1>2, <1>3, <1>4, <1>5

(* The mails and the counters, from one step to the next.                  *)
LEMMA CounterStep ==
  ASSUME TypeOK, [Next]_vars, \A q \in Requests : ~SendStore(q)
  PROVE  /\ \/ mail' = mail
            \/ \E q \in Requests :
                 /\ req[q].step = "mail"
                 /\ mail' = mail \cup {[user |-> req[q].user, purpose |-> req[q].purpose,
                                        code |-> req[q].seen]}
         /\ guesses' = guesses \/ \E q \in Requests : WrongGuess(q)
         /\ <<accepts, spent>>' = <<accepts, spent>> \/ \E q \in Requests : RightGuess(q)
<1>1. CASE UNCHANGED <<mail, guesses, accepts, spent>>
      BY <1>1
<1>2. ASSUME NEW q \in Requests, SendMail(q) PROVE UNCHANGED <<guesses, accepts, spent>>
      BY <1>2 DEF SendMail
<1>3. ASSUME NEW q \in Requests, WrongGuess(q) PROVE UNCHANGED <<mail, accepts, spent>>
      BY <1>3 DEF WrongGuess
<1>4. ASSUME NEW q \in Requests, RightGuess(q) PROVE UNCHANGED <<mail, guesses>>
      BY <1>4 DEF RightGuess
<1>5. \/ UNCHANGED <<mail, guesses, accepts, spent>>
      \/ \E q \in Requests : SendMail(q) \/ WrongGuess(q) \/ RightGuess(q)
      BY DEF Next, vars, RegisterRead, SendRead, ConfirmRead, RegisterCommit, Die, Expire
<1> QED BY <1>1, <1>2, <1>3, <1>4, <1>5 DEF SendMail

-----------------------------------------------------------------------------
(* RowInv.                                                                 *)

LEMMA RowInductive == TypeOK /\ RowInv /\ [Next]_vars => RowInv'
<1> SUFFICES ASSUME TypeOK, RowInv, [Next]_vars PROVE RowInv'
    OBVIOUS
<1>1. CASE \E q \in Requests : SendStore(q)
  <2>1. PICK q \in Requests, r \in Rows, c \in Codes : Fill(q, r, c)
        BY <1>1, FillStep
  <2>2. ASSUME NEW s \in Rows, otp'[s] # NULL, ~otp'[s].used
        PROVE  otp'[s].attempts < MaxAttempts
    <3>1. CASE s = r
          BY <2>1, <3>1 DEF Fill
    <3>2. CASE s # r
          BY <2>1, <2>2, <3>2 DEF Fill, OnlyRow, RowInv, There
    <3> QED BY <3>1, <3>2
  <2>3. ASSUME NEW s \in Requests, req'[s].step = "confirm"
        PROVE  /\ req'[s].row \in Rows /\ otp'[req'[s].row] # NULL
               /\ req'[s].attempts < MaxAttempts
    <3>1. s # q /\ req'[s] = req[s]
          BY <2>1, <2>3 DEF Fill
    <3> QED BY <2>1, <2>3, <3>1 DEF Fill, OnlyRow, RowInv, There
  <2> QED BY <2>2, <2>3 DEF RowInv, There
<1>2. CASE \A q \in Requests : ~SendStore(q)
  <2>1. \A s \in Rows : Touch(s)
        BY <1>2, TouchStep
  <2>2. ASSUME NEW s \in Requests, req'[s].step = "confirm"
        PROVE  /\ req'[s].row \in Rows /\ otp'[req'[s].row] # NULL
               /\ req'[s].attempts < MaxAttempts
    <3>1. req'[s] = req[s] \/ NewConfirm(s)
          BY <1>2, <2>2, RequestStep DEF NewStart, Idle
    <3>2. CASE req'[s] = req[s]
          BY <2>1, <2>2, <3>2 DEF RowInv, Touch, There
    <3>3. CASE NewConfirm(s)
          BY <3>3 DEF RowInv, NewConfirm, There
    <3> QED BY <3>1, <3>2, <3>3
  <2> QED BY <2>1, <2>2 DEF RowInv, Touch, There
<1> QED BY <1>1, <1>2

-----------------------------------------------------------------------------
(* CodeInv.                                                                *)

(* A code that has been drawn is never fresh again.                        *)
LEMMA FreshShrinks ==
  ASSUME TypeOK, RowInv, [Next]_vars, NEW c \in Codes, c \in FreshCodes'
  PROVE  c \in FreshCodes
<1>1. /\ c \notin spent'
      /\ \A r \in Rows : otp'[r] # NULL => otp'[r].code # c
      /\ \A m \in mail' : m.code # c
      BY DEF FreshCodes
<1>2. CASE \E q \in Requests : SendStore(q)
  <2>1. PICK q \in Requests, r \in Rows, d \in Codes : Fill(q, r, d)
        BY <1>2, FillStep
  <2>2. c \notin spent /\ \A m \in mail : m.code # c
        BY <1>1, <2>1 DEF Fill
  <2>3. ASSUME NEW s \in Rows, otp[s] # NULL PROVE otp[s].code # c
    <3>1. CASE s = r
          BY <1>1, <2>1, <2>3, <3>1 DEF Fill, There
    <3>2. CASE s # r
          BY <1>1, <2>1, <2>3, <3>2 DEF Fill, OnlyRow
    <3> QED BY <3>1, <3>2
  <2> QED BY <2>2, <2>3 DEF FreshCodes
<1>3. CASE \A q \in Requests : ~SendStore(q)
  <2>1. \A m \in mail : m \in mail'
        BY <1>3, CounterStep
  <2>2. c \notin spent
        BY <1>1, <1>3, CounterStep DEF RightGuess
  <2>3. \A s \in Rows : otp[s] # NULL => otp[s].code # c
        BY <1>1, <1>3, TouchStep DEF Touch, There
  <2> QED BY <1>1, <2>1, <2>2, <2>3 DEF FreshCodes
<1> QED BY <1>2, <1>3

(* The codes that are given: a step that draws none gives none anew, and   *)
(* the one that is drawn was given to nobody.                              *)
LEMMA GivenStep ==
  ASSUME TypeOK, RowInv, [Next]_vars, \A q \in Requests : ~SendStore(q),
         NEW c \in Codes, NEW u \in Users, NEW p \in Purposes, Given(c, u, p)'
  PROVE  Given(c, u, p)
<1>1. CASE \E r \in Rows : /\ otp'[r] # NULL /\ otp'[r].code = c
                          /\ otp'[r].user = u /\ otp'[r].purpose = p
      BY <1>1, TouchStep DEF Touch, There, SameOwner, Given
<1>2. CASE \E m \in mail' : m.code = c /\ m.user = u /\ m.purpose = p
  <2>1. CASE mail' = mail
        BY <1>2, <2>1 DEF Given
  <2>2. ASSUME NEW q \in Requests, req[q].step = "mail",
               mail' = mail \cup {[user |-> req[q].user, purpose |-> req[q].purpose,
                                   code |-> req[q].seen]}
        PROVE  Given(c, u, p)
        BY <1>2, <2>2 DEF Given
  <2> QED BY <2>1, <2>2, CounterStep
<1>3. CASE \E q \in Requests :
             /\ req'[q].step \in {"mail", "confirm"}
             /\ req'[q].seen = c /\ req'[q].user = u /\ req'[q].purpose = p
  <2>1. PICK q \in Requests : 
             /\ req'[q].step \in {"mail", "confirm"}
             /\ req'[q].seen = c /\ req'[q].user = u /\ req'[q].purpose = p
        BY <1>3
  <2>2. req'[q] = req[q] \/ NewConfirm(q)
        BY <2>1, RequestStep DEF NewStart, Idle
  <2>3. CASE req'[q] = req[q]
        BY <2>1, <2>3 DEF Given
  <2>4. CASE NewConfirm(q)
        BY <2>1, <2>4 DEF Given, NewConfirm, There
  <2> QED BY <2>2, <2>3, <2>4
<1> QED BY <1>1, <1>2, <1>3 DEF Given, There

LEMMA GivenFill ==
  ASSUME TypeOK, NEW q \in Requests, NEW r \in Rows, NEW d \in Codes, Fill(q, r, d),
         NEW c \in Codes, NEW u \in Users, NEW p \in Purposes, Given(c, u, p)'
  PROVE  Given(c, u, p) \/ (c = d /\ u = req[q].user /\ p = req[q].purpose)
<1>1. CASE \E s \in Rows : /\ otp'[s] # NULL /\ otp'[s].code = c
                          /\ otp'[s].user = u /\ otp'[s].purpose = p
      BY <1>1 DEF Fill, OnlyRow, There, Given
<1>2. CASE \E m \in mail' : m.code = c /\ m.user = u /\ m.purpose = p
      BY <1>2 DEF Fill, Given
<1>3. CASE \E s \in Requests :
             /\ req'[s].step \in {"mail", "confirm"}
             /\ req'[s].seen = c /\ req'[s].user = u /\ req'[s].purpose = p
      BY <1>3 DEF Fill, Given
<1> QED BY <1>1, <1>2, <1>3 DEF Given, There

LEMMA FreshNotGiven ==
  ASSUME NotDrawn, NEW c \in FreshCodes, NEW u, NEW p PROVE ~Given(c, u, p)
BY DEF NotDrawn, FreshCodes, Given, There

(* Drawing a code keeps CodeInv: it is in no other row and was given to    *)
(* nobody else, and only the code it replaces is spent.                    *)
LEMMA CodeFill ==
  ASSUME TypeOK, RowInv, CodeInv, [Next]_vars,
         NEW q \in Requests, NEW r \in Rows, NEW c \in Codes, Fill(q, r, c)
  PROVE  CodeInv'
<1>1. /\ c \in FreshCodes /\ c \notin spent
      /\ \A s \in Rows : There(s) => otp[s].code # c
      BY DEF Fill, FreshCodes, There
<1>2. \A s \in Rows \ {r} : otp'[s] = otp[s]
      BY DEF Fill, OnlyRow
<1>3. OneOwner'
  <2>1. \A u \in Users, p \in Purposes : ~Given(c, u, p)
        BY <1>1, FreshNotGiven DEF CodeInv
  <2> QED BY <2>1, GivenFill DEF OneOwner, CodeInv
<1>4. OneRow'
      BY <1>1, <1>2 DEF Fill, OneRow, CodeInv, There
<1>5. NotDrawn'
  <2>1. ASSUME NEW s \in Requests, req'[s].step \in {"mail", "confirm"}
        PROVE  req'[s].seen \notin FreshCodes'
    <3>1. CASE s = q
          BY <3>1 DEF Fill, FreshCodes, OnlyRow
    <3>2. CASE s # q
      <4>1. req[s].seen \notin FreshCodes /\ req'[s] = req[s]
            BY <2>1, <3>2 DEF Fill, NotDrawn, CodeInv
      <4> QED BY <4>1, FreshShrinks DEF FreshCodes
    <3> QED BY <3>1, <3>2
  <2>2. \A d \in FreshCodes' : guesses'[d] = 0
    <3>1. \A d \in FreshCodes' : d \in FreshCodes
          BY FreshShrinks DEF FreshCodes
    <3> QED BY <3>1 DEF Fill, NotDrawn, CodeInv
  <2>3. \A d \in Codes : accepts'[d] # 0 => d \in spent'
        BY DEF Fill, NotDrawn, CodeInv
  <2> QED BY <2>1, <2>2, <2>3 DEF NotDrawn
<1>6. OwnRow'
  <2>1. ASSUME NEW s \in Requests, req'[s].step = "confirm"
        PROVE  /\ otp'[req'[s].row].user = req'[s].user
               /\ otp'[req'[s].row].purpose = req'[s].purpose
               /\ \A t \in Rows : otp'[t] # NULL /\ otp'[t].code = req'[s].seen
                                   => t = req'[s].row
    <3>1. s # q /\ req'[s] = req[s] /\ req[s].step = "confirm"
          BY <2>1 DEF Fill
    <3>2. /\ req[s].row \in Rows /\ There(req[s].row)
          /\ otp[req[s].row].user = req[s].user
          /\ otp[req[s].row].purpose = req[s].purpose
          /\ \A t \in Rows : There(t) /\ otp[t].code = req[s].seen => t = req[s].row
          BY <3>1 DEF RowInv, OwnRow, CodeInv
    <3>3. req[s].seen # c
          BY <1>1, <3>1 DEF NotDrawn, CodeInv
    <3>4. CASE req[s].row = r
          BY <1>2, <3>1, <3>2, <3>3, <3>4 DEF Fill, SameOwner, There
    <3>5. CASE req[s].row # r
          BY <1>2, <3>1, <3>2, <3>3, <3>5 DEF Fill, There
    <3> QED BY <3>4, <3>5
  <2> QED BY <2>1 DEF OwnRow, There
<1>7. UnusedIsUnspent'
  <2>1. ASSUME NEW s \in Rows, otp'[s] # NULL, ~otp'[s].used
        PROVE  otp'[s].code \notin spent'
    <3>1. CASE s = r
          BY <1>1, <3>1 DEF Fill
    <3>2. CASE s # r
      <4>1. There(s) /\ ~otp[s].used /\ otp'[s] = otp[s]
            BY <1>2, <2>1, <3>2 DEF There
      <4>2. otp[s].code \notin spent
            BY <4>1 DEF UnusedIsUnspent, CodeInv
      <4>3. There(r) => otp[r].code # otp[s].code
            BY <3>2, <4>1 DEF OneRow, CodeInv
      <4> QED BY <4>1, <4>2, <4>3 DEF Fill
    <3> QED BY <3>1, <3>2
  <2>2. SpentIsSpent'
        BY DEF Fill, SpentIsSpent, UnusedIsUnspent, CodeInv
  <2> QED BY <2>1, <2>2 DEF UnusedIsUnspent, There
<1>8. GuessIsMailed'
      BY DEF Fill, GuessIsMailed, CodeInv, Known
<1> QED BY <1>3, <1>4, <1>5, <1>6, <1>7, <1>8 DEF CodeInv

(* The other steps keep CodeInv: the codes stay in their rows, and a right *)
(* guess spends the code of a row that it closes.                          *)
LEMMA CodeOther ==
  ASSUME TypeOK, RowInv, CodeInv, [Next]_vars, \A q \in Requests : ~SendStore(q)
  PROVE  CodeInv'
<1>1. \A s \in Rows : Touch(s)
      BY TouchStep
<1>2. \A s \in Requests : req'[s] = req[s] \/ req'[s] = Idle \/ NewStart(s) \/ NewConfirm(s)
      BY RequestStep
<1>3. OneOwner'
      BY GivenStep DEF OneOwner, CodeInv
<1>4. OneRow'
      BY <1>1 DEF Touch, There, OneRow, CodeInv
<1>5. NotDrawn'
  <2>0. \A d \in FreshCodes' : d \in FreshCodes /\ d \in Codes
        BY FreshShrinks DEF FreshCodes
  <2>1. ASSUME NEW s \in Requests, req'[s].step \in {"mail", "confirm"}
        PROVE  req'[s].seen \notin FreshCodes'
    <3>1. req'[s] = req[s] \/ NewConfirm(s)
          BY <1>2, <2>1 DEF NewStart, Idle
    <3>2. CASE req'[s] = req[s]
          BY <2>0, <2>1, <3>2 DEF NotDrawn, CodeInv
    <3>3. CASE NewConfirm(s)
          BY <2>0, <3>3 DEF NewConfirm, FreshCodes, There
    <3> QED BY <3>1, <3>2, <3>3
  <2>2. \A d \in FreshCodes' : guesses'[d] = 0
    <3>1. CASE guesses' = guesses
          BY <2>0, <3>1 DEF NotDrawn, CodeInv
    <3>2. ASSUME NEW q \in Requests, WrongGuess(q), NEW d \in FreshCodes'
          PROVE  guesses'[d] = 0
      <4>1. d # req[q].seen
            BY <2>0, <3>2 DEF WrongGuess, NotDrawn, CodeInv
      <4>2. guesses'[d] = guesses[d]
            BY <2>0, <3>2, <4>1 DEF WrongGuess, TypeOK
      <4> QED BY <2>0, <4>2 DEF NotDrawn, CodeInv
    <3> QED BY <3>1, <3>2, CounterStep
  <2>3. \A d \in Codes : accepts'[d] # 0 => d \in spent'
    <3>1. CASE UNCHANGED <<accepts, spent>>
          BY <3>1 DEF NotDrawn, CodeInv
    <3>2. ASSUME NEW q \in Requests, RightGuess(q), NEW d \in Codes, accepts'[d] # 0
          PROVE  d \in spent'
          BY <3>2 DEF RightGuess, NotDrawn, CodeInv, TypeOK
    <3> QED BY <3>1, <3>2, CounterStep
  <2> QED BY <2>1, <2>2, <2>3 DEF NotDrawn
<1>6. OwnRow'
  <2>1. ASSUME NEW s \in Requests, req'[s].step = "confirm"
        PROVE  /\ otp'[req'[s].row].user = req'[s].user
               /\ otp'[req'[s].row].purpose = req'[s].purpose
               /\ \A t \in Rows : otp'[t] # NULL /\ otp'[t].code = req'[s].seen
                                   => t = req'[s].row
    <3>1. req'[s] = req[s] \/ NewConfirm(s)
          BY <1>2, <2>1 DEF NewStart, Idle
    <3>2. CASE req'[s] = req[s]
      <4>1. /\ req[s].row \in Rows /\ There(req[s].row)
            /\ otp[req[s].row].user = req[s].user
            /\ otp[req[s].row].purpose = req[s].purpose
            /\ \A t \in Rows : There(t) /\ otp[t].code = req[s].seen => t = req[s].row
            BY <2>1, <3>2 DEF RowInv, OwnRow, CodeInv
      <4> QED BY <1>1, <3>2, <4>1 DEF Touch, There, SameOwner
    <3>3. CASE NewConfirm(s)
          BY <3>3 DEF NewConfirm, There, OneRow, CodeInv
    <3> QED BY <3>1, <3>2, <3>3
  <2> QED BY <2>1 DEF OwnRow, There
<1>7. UnusedIsUnspent'
  <2>1. ASSUME NEW s \in Rows, otp'[s] # NULL, ~otp'[s].used
        PROVE  otp'[s].code \notin spent'
    <3>1. There(s) /\ ~otp[s].used /\ otp'[s].code = otp[s].code
          BY <1>1, <2>1 DEF Touch, There
    <3>2. otp[s].code \notin spent
          BY <3>1 DEF UnusedIsUnspent, CodeInv
    <3>3. ASSUME NEW q \in Requests, RightGuess(q) PROVE otp[s].code # req[q].seen
      <4>1. s # req[q].row
            BY <2>1, <3>3, GuessEffect
      <4> QED BY <3>1, <3>3, <4>1 DEF RightGuess, OwnRow, CodeInv
    <3>4. CASE UNCHANGED <<accepts, spent>>
          BY <3>1, <3>2, <3>4
    <3>5. ASSUME NEW q \in Requests, RightGuess(q) PROVE otp'[s].code \notin spent'
      <4>1. otp[s].code # req[q].seen
            BY <3>3, <3>5
      <4>2. spent' = spent \cup {req[q].seen}
            BY <3>5 DEF RightGuess
      <4> QED BY <3>1, <3>2, <4>1, <4>2
    <3> QED BY <3>4, <3>5, CounterStep
  <2>2. ASSUME NEW s \in Requests, req'[s].step = "confirm", req'[s].late
        PROVE  req'[s].guess # req'[s].seen
    <3>1. req'[s] = req[s] \/ NewConfirm(s)
          BY <1>2, <2>2 DEF NewStart, Idle
    <3>2. CASE req'[s] = req[s]
          BY <2>2, <3>2 DEF SpentIsSpent, UnusedIsUnspent, CodeInv
    <3>3. CASE NewConfirm(s)
          BY <2>2, <3>3 DEF NewConfirm, There, UnusedIsUnspent, CodeInv
    <3> QED BY <3>1, <3>2, <3>3
  <2> QED BY <2>1, <2>2 DEF UnusedIsUnspent, SpentIsSpent, There
<1>8. GuessIsMailed'
  <2>1. ASSUME NEW s \in Requests, req'[s].step = "confirm", req'[s].guess # NULL
        PROVE  req'[s].guess \in Known'
    <3>1. req'[s] = req[s] \/ NewConfirm(s)
          BY <1>2, <2>1 DEF NewStart, Idle
    <3>2. \A m \in mail : m \in mail'
          BY CounterStep
    <3>3. \A g \in Known : g \in Known'
          BY <3>2 DEF Known
    <3> QED BY <2>1, <3>1, <3>3 DEF GuessIsMailed, CodeInv, NewConfirm
  <2> QED BY <2>1 DEF GuessIsMailed
<1> QED BY <1>3, <1>4, <1>5, <1>6, <1>7, <1>8 DEF CodeInv

LEMMA CodeInductive == TypeOK /\ RowInv /\ CodeInv /\ [Next]_vars => CodeInv'
<1> SUFFICES ASSUME TypeOK, RowInv, CodeInv, [Next]_vars PROVE CodeInv'
    OBVIOUS
<1>1. CASE \E q \in Requests : SendStore(q)
  <2>1. PICK q \in Requests, r \in Rows, c \in Codes : Fill(q, r, c)
        BY <1>1, FillStep
  <2> QED BY <2>1, CodeFill
<1>2. CASE \A q \in Requests : ~SendStore(q)
      BY <1>2, CodeOther
<1> QED BY <1>1, <1>2

-----------------------------------------------------------------------------
(* TurnInv.                                                                *)

(* A user in turn to whom a code was given is the user of every request    *)
(* that works with that code.                                              *)
LEMMA OwnGiven ==
  ASSUME TypeOK, NEW c \in OwnCodes
  PROVE  c \in Codes /\ \E u \in Patient, p \in Purposes : Given(c, u, p)
<1>1. CASE \E r \in Rows : There(r) /\ otp[r].user \in Patient /\ c = otp[r].code
      BY <1>1 DEF Given, There, TypeOK, Otp
<1>2. CASE \E m \in mail : m.user \in Patient /\ c = m.code
      BY <1>2 DEF Given, TypeOK, Mail
<1> QED BY <1>1, <1>2 DEF OwnCodes, There

LEMMA OwnRequest ==
  ASSUME TypeOK, CodeInv, NEW c \in OwnCodes, NEW q \in Requests,
         req[q].step = "confirm", req[q].seen = c
  PROVE  req[q].user \in Patient
<1>1. PICK u \in Patient, p \in Purposes : c \in Codes /\ Given(c, u, p)
      BY OwnGiven
<1>2. req[q].user \in Users /\ req[q].purpose \in Purposes
      BY DEF TypeOK
<1>3. Given(c, req[q].user, req[q].purpose)
      BY <1>2 DEF Given
<1> QED BY <1>1, <1>2, <1>3 DEF OneOwner, CodeInv

(* No step gives a code to a user in turn but the one that draws it: a     *)
(* mail has the code that the row still has.                               *)
LEMMA OwnCodesStep ==
  ASSUME TypeOK, RowInv, TurnInv, [Next]_vars, \A q \in Requests : ~SendStore(q),
         NEW c \in OwnCodes'
  PROVE  c \in OwnCodes
<1>1. CASE \E r \in Rows : otp'[r] # NULL /\ otp'[r].user \in Patient /\ c = otp'[r].code
      BY <1>1, TouchStep DEF Touch, There, SameOwner, OwnCodes
<1>2. CASE \E m \in mail' : m.user \in Patient /\ c = m.code
  <2>1. CASE mail' = mail
        BY <1>2, <2>1 DEF OwnCodes
  <2>2. ASSUME NEW q \in Requests, req[q].step = "mail",
               mail' = mail \cup {[user |-> req[q].user, purpose |-> req[q].purpose,
                                   code |-> req[q].seen]}
        PROVE  c \in OwnCodes
    <3>1. CASE \E m \in mail : m.user \in Patient /\ c = m.code
          BY <3>1 DEF OwnCodes
    <3>2. CASE req[q].user \in Patient /\ c = req[q].seen
      <4>1. PICK r \in Rows : There(r) /\ otp[r].code = c /\ otp[r].user = req[q].user
            BY <2>2, <3>2 DEF ReadIsCurrent, TurnInv
      <4> QED BY <3>2, <4>1 DEF OwnCodes, There
    <3> QED BY <1>2, <2>2, <3>1, <3>2
  <2> QED BY <2>1, <2>2, CounterStep
<1> QED BY <1>1, <1>2 DEF OwnCodes

(* Only a guess changes the attempts of a row, or closes it.               *)
LEMMA RowStep ==
  ASSUME TypeOK, RowInv, [Next]_vars, \A q \in Requests : ~SendStore(q), NEW r \in Rows
  PROVE  \/ otp'[r].attempts = otp[r].attempts /\ otp'[r].used = otp[r].used
         \/ \E q \in Requests : Guess(q) /\ req[q].row = r
<1>1. CASE otp' = otp
      BY <1>1
<1>2. ASSUME NEW s \in Requests, Guess(s), req[s].row # r
      PROVE  otp'[r].attempts = otp[r].attempts /\ otp'[r].used = otp[r].used
      BY <1>2, GuessEffect DEF Guess, OnlyRow
<1>3. ASSUME NEW s \in Rows, Expire(s)
      PROVE  otp'[r].attempts = otp[r].attempts /\ otp'[r].used = otp[r].used
  <2>1. CASE r = s
        BY <1>3, <2>1, ExpireEffect
  <2>2. CASE r # s
        BY <1>3, <2>2, ExpireEffect DEF OnlyRow
  <2> QED BY <2>1, <2>2
<1>4. otp' = otp \/ (\E s \in Requests : Guess(s)) \/ (\E s \in Rows : Expire(s))
      BY DEF Next, vars, Guess, RegisterRead, SendRead, ConfirmRead, RegisterCommit, SendMail, Die
<1> QED BY <1>1, <1>2, <1>3, <1>4

(* What a request in turn has read is what it finds.                       *)
LEMMA OwnGuess ==
  ASSUME TypeOK, RowInv, CodeInv, TurnInv, NEW q \in Requests,
         req[q].step = "confirm", req[q].user \in Patient
  PROVE  /\ req[q].row \in Rows /\ There(req[q].row)
         /\ otp[req[q].row].user = req[q].user /\ otp[req[q].row].code = req[q].seen
         /\ ~otp[req[q].row].used /\ otp[req[q].row].attempts = req[q].attempts
         /\ req[q].seen \in Codes /\ guesses[req[q].seen] = req[q].attempts
         /\ req[q].attempts \in Nat /\ req[q].attempts < MaxAttempts
         /\ accepts[req[q].seen] = 0
<1>1. /\ req[q].row \in Rows /\ There(req[q].row) /\ req[q].attempts < MaxAttempts
      /\ otp[req[q].row].user = req[q].user
      BY DEF RowInv, OwnRow, CodeInv
<1>2. /\ otp[req[q].row].code = req[q].seen
      /\ ~otp[req[q].row].used /\ otp[req[q].row].attempts = req[q].attempts
      BY DEF ReadIsCurrent, TurnInv
<1>3. req[q].seen \in Codes /\ req[q].attempts \in Nat
      BY DEF TypeOK, Request
<1>4. guesses[req[q].seen] = req[q].attempts
      BY <1>1, <1>2 DEF CountsAreGuesses, TurnInv
<1>5. accepts[req[q].seen] = 0
      BY <1>1, <1>2, <1>3 DEF NotDrawn, UnusedIsUnspent, CodeInv
<1> QED BY <1>1, <1>2, <1>3, <1>4, <1>5

(* A guess of a request at the code of a row of a user in turn is one of   *)
(* that user, at that row.                                                 *)
LEMMA GuessAtOwn ==
  ASSUME TypeOK, RowInv, CodeInv, NEW r \in Rows, There(r), otp[r].user \in Patient,
         NEW q \in Requests, req[q].step = "confirm",
         req[q].seen = otp[r].code \/ req[q].row = r
  PROVE  req[q].row = r /\ req[q].user \in Patient
BY DEF OwnRow, CodeInv

(* Drawing a code for a user in turn or for another keeps TurnInv: the new *)
(* row counts from nothing, as the new code does.                          *)
LEMMA TurnFill ==
  ASSUME TypeOK, RowInv, CodeInv, TurnInv, [Next]_vars,
         NEW q \in Requests, NEW r \in Rows, NEW c \in Codes, Fill(q, r, c)
  PROVE  TurnInv'
<1>1. \A s \in Rows \ {r} : otp'[s] = otp[s]
      BY DEF Fill, OnlyRow
<1>2. guesses[c] = 0 /\ accepts[c] = 0 /\ UNCHANGED <<guesses, accepts, mail>>
      BY DEF Fill, NotDrawn, CodeInv, FreshCodes
<1>3. OneOpen'
      BY DEF Fill, OneOpen, TurnInv
<1>4. ReadIsCurrent'
  <2>1. ASSUME NEW s \in Requests, s # q, req[s].user \in Patient PROVE req[s].user # req[q].user
        BY <2>1 DEF OneOpen, TurnInv
  <2>2. ASSUME NEW s \in Requests, req'[s].user \in Patient, req'[s].step = "confirm"
        PROVE  /\ otp'[req'[s].row].code = req'[s].seen
               /\ otp'[req'[s].row].attempts = req'[s].attempts
               /\ ~otp'[req'[s].row].used
    <3>1. s # q /\ req'[s] = req[s]
          BY <2>2 DEF Fill
    <3>2. req[s].row \in Rows /\ There(req[s].row) /\ otp[req[s].row].user = req[s].user
          BY <2>2, <3>1 DEF RowInv, OwnRow, CodeInv
    <3>3. req[s].row # r
          BY <2>1, <2>2, <3>1, <3>2 DEF Fill, SameOwner, There
    <3> QED BY <1>1, <2>2, <3>1, <3>2, <3>3 DEF ReadIsCurrent, TurnInv
  <2>3. ASSUME NEW s \in Requests, req'[s].user \in Patient, req'[s].step = "mail"
        PROVE  \E t \in Rows : /\ otp'[t] # NULL /\ otp'[t].code = req'[s].seen
                               /\ otp'[t].user = req'[s].user
    <3>1. CASE s = q
          BY <3>1 DEF Fill, OnlyRow
    <3>2. CASE s # q
      <4>1. req'[s] = req[s]
            BY <3>2 DEF Fill
      <4>2. PICK t \in Rows : There(t) /\ otp[t].code = req[s].seen /\ otp[t].user = req[s].user
            BY <2>3, <4>1 DEF ReadIsCurrent, TurnInv
      <4>3. t # r
            BY <2>1, <2>3, <3>2, <4>1, <4>2 DEF Fill, SameOwner, There
      <4> QED BY <1>1, <4>1, <4>2, <4>3 DEF There
    <3> QED BY <3>1, <3>2
  <2> QED BY <2>2, <2>3 DEF ReadIsCurrent, There
<1>5. CountsAreGuesses'
      BY <1>1, <1>2 DEF Fill, CountsAreGuesses, TurnInv, There
<1>6. \A d \in OwnCodes' : d \in OwnCodes \/ d = c
      BY <1>1 DEF Fill, OwnCodes
<1>7. GuessLimitInTurn' /\ AcceptedOnceInTurn'
      BY <1>2, <1>6 DEF GuessLimitInTurn, AcceptedOnceInTurn, TurnInv
<1>8. GoodUntilSpentInTurn'
      BY <1>1, <1>2 DEF Fill, GoodUntilSpentInTurn, TurnInv
<1> QED BY <1>3, <1>4, <1>5, <1>7, <1>8 DEF TurnInv

(* The other steps keep TurnInv: what a guess writes is what the code has  *)
(* taken, since nobody else has touched the row since it was read.         *)
LEMMA TurnOther ==
  ASSUME TypeOK, RowInv, CodeInv, TurnInv, [Next]_vars, \A q \in Requests : ~SendStore(q)
  PROVE  TurnInv'
<1>1. \A s \in Rows : Touch(s)
      BY TouchStep
<1>2. \A s \in Requests : req'[s] = req[s] \/ req'[s] = Idle \/ NewStart(s) \/ NewConfirm(s)
      BY RequestStep
<1>3. OneOpen'
  <2>1. ASSUME NEW q \in Requests, NEW s \in Requests, q # s,
               req'[q].user = req'[s].user, req'[q].user \in Patient
        PROVE  FALSE
    <3>1. req'[q] # Idle /\ req'[s] # Idle
          BY <2>1 DEF Idle
    <3>2. CASE req'[q] = req[q] /\ req'[s] = req[s]
          BY <2>1, <3>2 DEF OneOpen, TurnInv
    <3>3. CASE NewStart(q) \/ NewConfirm(q)
          BY <2>1, <3>3 DEF NewStart, NewConfirm
    <3>4. CASE NewStart(s) \/ NewConfirm(s)
          BY <2>1, <3>4 DEF NewStart, NewConfirm
    <3> QED BY <1>2, <3>1, <3>2, <3>3, <3>4
  <2> QED BY <2>1 DEF OneOpen
<1>4. ReadIsCurrent'
  <2>1. ASSUME NEW s \in Requests, req'[s].user \in Patient, req'[s].step = "confirm"
        PROVE  /\ otp'[req'[s].row].code = req'[s].seen
               /\ otp'[req'[s].row].attempts = req'[s].attempts
               /\ ~otp'[req'[s].row].used
    <3>1. req'[s] = req[s] \/ NewConfirm(s)
          BY <1>2, <2>1 DEF NewStart, Idle
    <3>2. CASE req'[s] = req[s]
      <4>1. ~Guess(s)
        <5>1. req'[s] # Idle
              BY <2>1 DEF Idle
        <5> QED BY <5>1, CloseEffect DEF Guess, WrongGuess, RightGuess
      <4>2. /\ req[s].row \in Rows /\ There(req[s].row)
            /\ otp[req[s].row].code = req[s].seen /\ ~otp[req[s].row].used
            /\ otp[req[s].row].attempts = req[s].attempts
            /\ otp[req[s].row].user = req[s].user
            BY <2>1, <3>2, OwnGuess
      <4>3. \A q \in Requests : Guess(q) => req[q].row # req[s].row
        <5>1. SUFFICES ASSUME NEW q \in Requests, Guess(q), req[q].row = req[s].row PROVE FALSE
              OBVIOUS
        <5>2. q # s /\ req[q].step = "confirm"
              BY <4>1, <5>1 DEF Guess, WrongGuess, RightGuess
        <5>3. req[q].user = req[s].user
              BY <4>2, <5>1, <5>2 DEF OwnRow, CodeInv
        <5> QED BY <2>1, <3>2, <5>2, <5>3 DEF OneOpen, TurnInv
      <4>4. /\ otp'[req[s].row].attempts = otp[req[s].row].attempts
            /\ otp'[req[s].row].used = otp[req[s].row].used
            BY <4>2, <4>3, RowStep
      <4>5. otp'[req[s].row].code = otp[req[s].row].code
            BY <1>1, <4>2 DEF Touch
      <4> QED BY <3>2, <4>2, <4>4, <4>5
    <3>3. CASE NewConfirm(s)
          BY <3>3 DEF NewConfirm
    <3> QED BY <3>1, <3>2, <3>3
  <2>2. ASSUME NEW s \in Requests, req'[s].user \in Patient, req'[s].step = "mail"
        PROVE  \E t \in Rows : /\ otp'[t] # NULL /\ otp'[t].code = req'[s].seen
                               /\ otp'[t].user = req'[s].user
    <3>1. req'[s] = req[s]
          BY <1>2, <2>2 DEF NewStart, NewConfirm, Idle
    <3>2. PICK t \in Rows : There(t) /\ otp[t].code = req[s].seen /\ otp[t].user = req[s].user
          BY <2>2, <3>1 DEF ReadIsCurrent, TurnInv
    <3> QED BY <1>1, <3>1, <3>2 DEF Touch, There, SameOwner
  <2> QED BY <2>1, <2>2 DEF ReadIsCurrent, There
<1>5. CountsAreGuesses'
  <2>1. ASSUME NEW r \in Rows, otp'[r] # NULL, otp'[r].user \in Patient, ~otp'[r].used
        PROVE  guesses'[otp'[r].code] = otp'[r].attempts
    <3>1. /\ There(r) /\ otp[r].user \in Patient /\ ~otp[r].used
          /\ otp'[r].code = otp[r].code /\ otp[r].code \in Codes
          BY <1>1, <2>1 DEF Touch, There, SameOwner, TypeOK, Otp
    <3>2. guesses[otp[r].code] = otp[r].attempts
          BY <3>1 DEF CountsAreGuesses, TurnInv
    <3>3. ASSUME NEW q \in Requests, WrongGuess(q), req[q].row = r
          PROVE  guesses'[otp'[r].code] = otp'[r].attempts
      <4>1. req[q].step = "confirm"
            BY <3>3 DEF WrongGuess
      <4>2. /\ otp[r].code = req[q].seen /\ otp[r].attempts = req[q].attempts
            BY <3>1, <3>3, <4>1, GuessAtOwn, OwnGuess
      <4>3. otp'[r].attempts = req[q].attempts + 1
            BY <3>3, GuessEffect
      <4>4. guesses'[req[q].seen] = guesses[req[q].seen] + 1
            BY <3>1, <3>3, <4>2 DEF WrongGuess, TypeOK
      <4> QED BY <3>1, <3>2, <4>2, <4>3, <4>4
    <3>4. ASSUME NEW q \in Requests, WrongGuess(q), req[q].row # r
          PROVE  guesses'[otp'[r].code] = otp'[r].attempts
      <4>1. req[q].seen # otp[r].code
            BY <3>1, <3>4, GuessAtOwn DEF WrongGuess
      <4>2. otp'[r] = otp[r]
            BY <3>4, GuessEffect DEF OnlyRow
      <4>3. guesses'[otp[r].code] = guesses[otp[r].code]
            BY <3>1, <3>4, <4>1 DEF WrongGuess, TypeOK
      <4> QED BY <3>2, <4>2, <4>3
    <3>5. CASE \A q \in Requests : ~WrongGuess(q)
      <4>1. guesses' = guesses
            BY <3>5, CounterStep
      <4>2. otp'[r].attempts = otp[r].attempts
            BY <3>5, RowStep, GuessEffect DEF Guess
      <4> QED BY <3>1, <3>2, <4>1, <4>2
    <3> QED BY <3>3, <3>4, <3>5
  <2> QED BY <2>1 DEF CountsAreGuesses, There
<1>6. GuessLimitInTurn'
  <2>1. ASSUME NEW c \in OwnCodes' PROVE guesses'[c] <= MaxAttempts
    <3>1. c \in OwnCodes /\ c \in Codes /\ guesses[c] <= MaxAttempts
          BY OwnCodesStep, OwnGiven DEF GuessLimitInTurn, TurnInv
    <3>2. ASSUME NEW q \in Requests, WrongGuess(q), req[q].seen = c
          PROVE  guesses'[c] <= MaxAttempts
      <4>1. req[q].user \in Patient
            BY <3>1, <3>2, OwnRequest DEF WrongGuess
      <4>2. guesses[c] \in Nat /\ guesses[c] < MaxAttempts
            BY <3>2, <4>1, OwnGuess DEF WrongGuess
      <4>3. guesses'[c] = guesses[c] + 1
            BY <3>1, <3>2 DEF WrongGuess, TypeOK
      <4> QED BY <4>2, <4>3
    <3>3. ASSUME NEW q \in Requests, WrongGuess(q), req[q].seen # c
          PROVE  guesses'[c] <= MaxAttempts
          BY <3>1, <3>3 DEF WrongGuess, TypeOK
    <3> QED BY <3>1, <3>2, <3>3, CounterStep
  <2> QED BY <2>1 DEF GuessLimitInTurn
<1>7. AcceptedOnceInTurn'
  <2>1. ASSUME NEW c \in OwnCodes' PROVE accepts'[c] <= 1
    <3>1. c \in OwnCodes /\ c \in Codes /\ accepts[c] <= 1
          BY OwnCodesStep, OwnGiven DEF AcceptedOnceInTurn, TurnInv
    <3>2. ASSUME NEW q \in Requests, RightGuess(q), req[q].seen = c PROVE accepts'[c] <= 1
      <4>1. req[q].user \in Patient
            BY <3>1, <3>2, OwnRequest DEF RightGuess
      <4>2. accepts[c] = 0
            BY <3>2, <4>1, OwnGuess DEF RightGuess
      <4> QED BY <3>1, <3>2, <4>2 DEF RightGuess, TypeOK
    <3>3. ASSUME NEW q \in Requests, RightGuess(q), req[q].seen # c PROVE accepts'[c] <= 1
          BY <3>1, <3>3 DEF RightGuess, TypeOK
    <3> QED BY <3>1, <3>2, <3>3, CounterStep
  <2> QED BY <2>1 DEF AcceptedOnceInTurn
<1>8. GoodUntilSpentInTurn'
  <2>1. ASSUME NEW r \in Rows, otp'[r] # NULL, otp'[r].user \in Patient, otp'[r].used
        PROVE  accepts'[otp'[r].code] = 1 \/ guesses'[otp'[r].code] = MaxAttempts
    <3>1. /\ There(r) /\ otp[r].user \in Patient
          /\ otp'[r].code = otp[r].code /\ otp[r].code \in Codes
          BY <1>1, <2>1 DEF Touch, There, SameOwner, TypeOK, Otp
    <3>2. CASE otp[r].used
      <4>1. accepts[otp[r].code] = 1 \/ guesses[otp[r].code] = MaxAttempts
            BY <3>1, <3>2 DEF GoodUntilSpentInTurn, TurnInv, There
      <4>2. ASSUME NEW q \in Requests, req[q].step = "confirm" PROVE req[q].seen # otp[r].code
            BY <3>1, <3>2, <4>2, GuessAtOwn, OwnGuess
      <4>3. guesses'[otp[r].code] = guesses[otp[r].code]
            BY <3>1, <4>2, CounterStep DEF WrongGuess, TypeOK
      <4>4. accepts'[otp[r].code] = accepts[otp[r].code]
            BY <3>1, <4>2, CounterStep DEF RightGuess, TypeOK
      <4> QED BY <3>1, <4>1, <4>3, <4>4
    <3>3. CASE ~otp[r].used
      <4>1. PICK q \in Requests : Guess(q) /\ req[q].row = r
            BY <2>1, <3>3, RowStep
      <4>2. req[q].step = "confirm"
            BY <4>1 DEF Guess, WrongGuess, RightGuess
      <4>3. /\ otp[r].code = req[q].seen /\ guesses[req[q].seen] = req[q].attempts
            /\ req[q].attempts \in Nat /\ req[q].attempts < MaxAttempts
            /\ accepts[req[q].seen] = 0
            BY <3>1, <4>1, <4>2, GuessAtOwn, OwnGuess
      <4>4. CASE WrongGuess(q)
        <5>1. req[q].attempts + 1 >= MaxAttempts
              BY <2>1, <3>3, <4>1, <4>4, GuessEffect
        <5>2. guesses'[req[q].seen] = guesses[req[q].seen] + 1
              BY <3>1, <4>3, <4>4 DEF WrongGuess, TypeOK
        <5> QED BY <3>1, <4>3, <5>1, <5>2
      <4>5. CASE RightGuess(q)
            BY <3>1, <4>3, <4>5 DEF RightGuess, TypeOK
      <4> QED BY <4>1, <4>4, <4>5 DEF Guess
    <3> QED BY <3>2, <3>3
  <2> QED BY <2>1 DEF GoodUntilSpentInTurn
<1> QED BY <1>3, <1>4, <1>5, <1>6, <1>7, <1>8 DEF TurnInv

LEMMA TurnInductive == TypeOK /\ RowInv /\ CodeInv /\ TurnInv /\ [Next]_vars => TurnInv'
<1> SUFFICES ASSUME TypeOK, RowInv, CodeInv, TurnInv, [Next]_vars PROVE TurnInv'
    OBVIOUS
<1>1. CASE \E q \in Requests : SendStore(q)
  <2>1. PICK q \in Requests, r \in Rows, c \in Codes : Fill(q, r, c)
        BY <1>1, FillStep
  <2> QED BY <2>1, TurnFill
<1>2. CASE \A q \in Requests : ~SendStore(q)
      BY <1>2, TurnOther
<1> QED BY <1>1, <1>2

-----------------------------------------------------------------------------
(* The theorems.                                                           *)

CodesInv == TypeOK /\ RowInv /\ CodeInv /\ TurnInv

LEMMA CodesInit == Init => CodesInv
<1> SUFFICES ASSUME Init PROVE CodesInv
    OBVIOUS
<1>1. /\ \A q \in Requests : req[q] = Idle
      /\ \A q \in Requests : req[q].step = "idle" /\ req[q].user = NULL
      /\ \A r \in Rows : ~There(r)
      /\ mail = {}
      BY DEF Init, Idle, There
<1>2. TypeOK
  <2>1. req \in [Requests -> Request]
        BY IdleIsRequest DEF Init
  <2> QED BY <1>1, <2>1 DEF Init, TypeOK
<1>3. RowInv
      BY <1>1 DEF RowInv
<1>4. CodeInv
  <2>1. NotDrawn
    <3>1. \A c \in FreshCodes : guesses[c] = 0
          BY DEF FreshCodes, Init
    <3>2. \A c \in Codes : accepts[c] = 0
          BY DEF Init
    <3> QED BY <1>1, <3>1, <3>2 DEF NotDrawn
  <2> QED BY <1>1, <2>1 DEF CodeInv, OneOwner, Given, OneRow, OwnRow, UnusedIsUnspent,
                            SpentIsSpent, GuessIsMailed
<1>5. TurnInv
  <2>1. OwnCodes = {}
        BY <1>1 DEF OwnCodes, There
  <2> QED BY <1>1, <2>1 DEF TurnInv, OneOpen, ReadIsCurrent, CountsAreGuesses, There,
                            GuessLimitInTurn, AcceptedOnceInTurn, GoodUntilSpentInTurn
<1> QED BY <1>2, <1>3, <1>4, <1>5 DEF CodesInv

LEMMA CodesInductive == CodesInv /\ [Next]_vars => CodesInv'
BY TypeInductive, RowInductive, CodeInductive, TurnInductive DEF CodesInv

(* The inductive invariant holds throughout, for any number of users,      *)
(* requests, rows and codes.                                               *)
THEOREM CodesInvariant == Spec => []CodesInv
BY CodesInit, CodesInductive, PTL DEF Spec

(* Every state is typed: in particular the row that a confirmation has     *)
(* read is there when it writes it.                                        *)
THEOREM CodesTypeCorrect == Spec => []TypeOK
<1>1. CodesInv => TypeOK
      BY DEF CodesInv
<1> QED BY <1>1, CodesInvariant, PTL

(* get_valid_otp never finds a code that was accepted or replaced before   *)
(* it was asked, however the requests overlap.                             *)
THEOREM CodesSpentIsSpent == Spec => []SpentIsSpent
<1>1. CodesInv => SpentIsSpent
      BY DEF CodesInv, CodeInv, UnusedIsUnspent
<1> QED BY <1>1, CodesInvariant, PTL

(* record_failed_otp_attempt lets no code of a user whose requests come in *)
(* turn take more than MAX_OTP_ATTEMPTS wrong guesses.                     *)
THEOREM CodesGuessLimitInTurn == Spec => []GuessLimitInTurn
<1>1. CodesInv => GuessLimitInTurn
      BY DEF CodesInv, TurnInv
<1> QED BY <1>1, CodesInvariant, PTL

(* verify_email_otp and confirm_password_reset accept a code of such a     *)
(* user once.                                                              *)
THEOREM CodesAcceptedOnceInTurn == Spec => []AcceptedOnceInTurn
<1>1. CodesInv => AcceptedOnceInTurn
      BY DEF CodesInv, TurnInv
<1> QED BY <1>1, CodesInvariant, PTL

(* What upsert_otp leaves of an earlier code closes no row of such a user. *)
THEOREM CodesGoodUntilSpentInTurn == Spec => []GoodUntilSpentInTurn
<1>1. CodesInv => GoodUntilSpentInTurn
      BY DEF CodesInv, TurnInv
<1> QED BY <1>1, CodesInvariant, PTL

(* The code that verify_email_otp has loaded was given to nobody else.     *)
LEMMA VerifiedStep ==
  ASSUME CodesInv, [Next]_vars, NEW u \in Users,
         account[u] # "none", account'[u] # account[u]
  PROVE  /\ account'[u] = "verified"
         /\ \E m \in mail : /\ m.user = u /\ m.purpose = "EMAIL_VERIFICATION"
                           /\ accepts'[m.code] > accepts[m.code]
<1>1. \E q \in Requests : RegisterCommit(q) \/ RightGuess(q)
      BY DEF Next, vars, RegisterRead, SendRead, ConfirmRead, SendStore, SendMail, WrongGuess,
             Die, Expire
<1>2. PICK q \in Requests : RegisterCommit(q) \/ RightGuess(q)
      BY <1>1
<1>3. RightGuess(q) /\ req[q].purpose = "EMAIL_VERIFICATION" /\ req[q].user = u
      BY <1>2 DEF RegisterCommit, RightGuess, CodesInv, TypeOK
<1>4. req[q].seen \in Codes /\ req[q].guess = req[q].seen /\ req[q].step = "confirm"
      BY <1>3 DEF RightGuess, CodesInv, TypeOK
<1>5. PICK m \in mail : m.code = req[q].seen
      BY <1>4 DEF GuessIsMailed, CodesInv, CodeInv, Known
<1>6. m.user = u /\ m.purpose = "EMAIL_VERIFICATION"
  <2>1. m.user \in Users /\ m.purpose \in Purposes
        BY DEF CodesInv, TypeOK, Mail
  <2>2. Given(req[q].seen, m.user, m.purpose)
        BY <1>5 DEF Given
  <2>3. "EMAIL_VERIFICATION" \in Purposes
        BY DEF Purposes
  <2>4. Given(req[q].seen, u, "EMAIL_VERIFICATION")
        BY <1>3, <1>4 DEF Given
  <2> QED BY <1>4, <2>1, <2>2, <2>3, <2>4 DEF OneOwner, CodesInv, CodeInv
<1>7. account'[u] = "verified"
      BY <1>3 DEF RightGuess, CodesInv, TypeOK
<1>8. accepts'[req[q].seen] > accepts[req[q].seen]
      BY <1>3, <1>4 DEF RightGuess, CodesInv, TypeOK
<1> QED BY <1>5, <1>6, <1>7, <1>8

(* An account that is there changes only by becoming verified, in the step *)
(* that accepts a code mailed to it for that purpose; registering the      *)
(* address again changes nothing.                                          *)
THEOREM CodesVerifiedByMail == Spec => VerifiedByMail
<1>1. CodesInv /\ [Next]_vars =>
        [\A u \in Users :
           account[u] # "none" /\ account'[u] # account[u] =>
             /\ account'[u] = "verified"
             /\ \E m \in mail : /\ m.user = u /\ m.purpose = "EMAIL_VERIFICATION"
                               /\ accepts'[m.code] > accepts[m.code]]_vars
      BY VerifiedStep
<1> QED BY <1>1, CodesInvariant, PTL DEF Spec, VerifiedByMail
=============================================================================
