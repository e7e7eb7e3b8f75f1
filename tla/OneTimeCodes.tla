----------------------------- MODULE OneTimeCodes -----------------------------
(***************************************************************************)
(* Accounts and one-time codes: POST /api/users, /verify-email/send and    *)
(* /confirm, /password-reset/request and /confirm.  A code lives in a row  *)
(* of otp_verifications; asking for another one replaces the code in the   *)
(* row while it is unused.  Confirming reads the row, hashes, and writes   *)
(* at the end what follows from what was read, with no lock held; sending  *)
(* stores the code, commits, and then queues the mail.  Each commit is one *)
(* step; a request killed before it leaves nothing behind.                 *)
(***************************************************************************)
EXTENDS Naturals, FiniteSets

CONSTANTS
  Users,
  Requests,     (* database sessions that serve the requests               *)
  Rows,         (* ids of otp_verifications rows                           *)
  Codes,        (* codes and reset tokens; no two drawn are the same       *)
  NULL,
  MaxAttempts,  (* MAX_OTP_ATTEMPTS                                        *)
  Patient       (* users for whom one request is answered before the next  *)
                (* is made; requests for the others overlap                *)

ASSUME NullAssumption     == NULL \notin Users \cup Rows \cup Codes
ASSUME AttemptsAssumption == MaxAttempts \in Nat \ {0}
ASSUME PatientAssumption  == Patient \subseteq Users

VARIABLES
  account,      (* the users row: none, unverified or verified             *)
  otp,          (* otp[r]: the otp_verifications row with id r, or NULL    *)
  mail,         (* the mails queued: each is delivered at some time, in    *)
                (* any order, or lost                                      *)
  req,          (* what each request is about to do, with what it has read *)
  guesses,      (* guesses[c]: wrong guesses at c that were answered       *)
  accepts,      (* accepts[c]: how often c was accepted                    *)
  spent         (* codes that were accepted or replaced by another one     *)

vars == <<account, otp, mail, req, guesses, accepts, spent>>

Purposes == {"EMAIL_VERIFICATION", "PASSWORD_RESET"}

Otp == [user : Users, purpose : Purposes, code : Codes,
        used : BOOLEAN, attempts : 0..MaxAttempts, expired : BOOLEAN]

Mail == [user : Users, purpose : Purposes, code : Codes]

(* row, seen and attempts are the otp row a confirmation has loaded, guess *)
(* what it was sent, late whether that was spent by then.                  *)
Request == [step : {"idle", "register", "store", "mail", "confirm"},
            user : Users \cup {NULL}, purpose : Purposes \cup {NULL},
            row : Rows \cup {NULL}, seen : Codes \cup {NULL},
            attempts : 0..MaxAttempts, guess : Codes \cup {NULL}, late : BOOLEAN]

Idle == [step |-> "idle", user |-> NULL, purpose |-> NULL, row |-> NULL, seen |-> NULL,
         attempts |-> 0, guess |-> NULL, late |-> FALSE]

ASSUME NullOtpAssumption == NULL \notin Otp

TypeOK ==
  /\ account \in [Users -> {"none", "unverified", "verified"}]
  /\ otp \in [Rows -> Otp \cup {NULL}]
  /\ mail \subseteq Mail
  /\ req \in [Requests -> Request]
  /\ guesses \in [Codes -> Nat]
  /\ accepts \in [Codes -> Nat]
  /\ spent \subseteq Codes
  /\ \A q \in Requests :
       /\ req[q].step # "idle" => req[q].user \in Users
       /\ req[q].step \in {"store", "mail", "confirm"} => req[q].purpose \in Purposes
       /\ req[q].step = "mail" => req[q].seen \in Codes
       /\ req[q].step = "confirm" => req[q].seen \in Codes /\ otp[req[q].row] \in Otp

Init ==
  /\ account = [u \in Users |-> "none"]
  /\ otp = [r \in Rows |-> NULL]
  /\ mail = {}
  /\ req = [q \in Requests |-> Idle]
  /\ guesses = [c \in Codes |-> 0]
  /\ accepts = [c \in Codes |-> 0]
  /\ spent = {}

-----------------------------------------------------------------------------
Free(u) == u \in Patient => \A q \in Requests : req[q].user # u

Open(q, u, r) ==
  /\ req[q] = Idle
  /\ Free(u)
  /\ req' = [req EXCEPT ![q] = r]

Close(q) == req' = [req EXCEPT ![q] = Idle]

(* get_user_by_email compares the address as typed with the stored one.    *)
Spellings == {"stored", "other"}

Found(u, spelling) == account[u] # "none" /\ spelling = "stored"

(* Drawn at random: none that was drawn before.                            *)
FreshCodes ==
  {c \in Codes :
     /\ c \notin spent
     /\ \A r \in Rows : otp[r] # NULL => otp[r].code # c
     /\ \A m \in mail : m.code # c}

(* The partial unique index: one unused row per user and purpose.          *)
Unused(u, p) ==
  {r \in Rows : otp[r] # NULL /\ otp[r].user = u /\ otp[r].purpose = p /\ ~otp[r].used}

(* Mutants of Valid: is_used is not looked at; nor is the purpose.         *)
ValidOrUsed(u, p) ==
  {r \in Rows : otp[r] # NULL /\ otp[r].user = u /\ otp[r].purpose = p /\ ~otp[r].expired}

ValidAnyPurpose(u, p) == {r \in UNION {Unused(u, x) : x \in Purposes} : ~otp[r].expired}

(* get_valid_otp.                                                          *)
Valid(u, p) == {r \in Unused(u, p) : ~otp[r].expired}

-----------------------------------------------------------------------------
(* Registration.                                                           *)

(* No account has the address as it was typed; an address is stored in     *)
(* lower case, so another spelling of it is never found.                   *)
RegisterRead(q, u) ==
  /\ \E spelling \in Spellings : ~Found(u, spelling)
  /\ Open(q, u, [Idle EXCEPT !.step = "register", !.user = u])
  /\ UNCHANGED <<account, otp, mail, guesses, accepts, spent>>

(* Mutant of RegisterCommit: the address has no unique index, and the      *)
(* newest row is the one that is found.                                    *)
RegisterCommitAnyway(q) ==
  /\ req[q].step = "register"
  /\ account' = [account EXCEPT ![req[q].user] = "unverified"]
  /\ Close(q)
  /\ UNCHANGED <<otp, mail, guesses, accepts, spent>>

(* The unique index refuses a second row with the address.                 *)
RegisterCommit(q) ==
  /\ req[q].step = "register"
  /\ account' = [account EXCEPT ![req[q].user] = IF @ = "none" THEN "unverified" ELSE @]
  /\ Close(q)
  /\ UNCHANGED <<otp, mail, guesses, accepts, spent>>

-----------------------------------------------------------------------------
(* Sending.                                                                *)

(* A reset can be asked for by every user, a verification by one who is    *)
(* not yet verified.                                                       *)
SendRead(q, u, p) ==
  /\ \E spelling \in Spellings : Found(u, spelling)
  /\ p = "EMAIL_VERIFICATION" => account[u] # "verified"
  /\ Open(q, u, [Idle EXCEPT !.step = "store", !.user = u, !.purpose = p])
  /\ UNCHANGED <<account, otp, mail, guesses, accepts, spent>>

(* Mutant of Upsert: the attempts are not set back.                        *)
UpsertKeepsAttempts(u, p, c) ==
  IF Unused(u, p) = {}
    THEN \E r \in Rows :
           /\ otp[r] = NULL
           /\ otp' = [otp EXCEPT ![r] = [user |-> u, purpose |-> p, code |-> c, used |-> FALSE,
                                         attempts |-> 0, expired |-> FALSE]]
           /\ UNCHANGED spent
    ELSE \E r \in Unused(u, p) :
           /\ otp' = [otp EXCEPT ![r].code = c, ![r].expired = FALSE]
           /\ spent' = spent \cup {otp[r].code}

(* upsert_otp.                                                             *)
Upsert(u, p, c) ==
  IF Unused(u, p) = {}
    THEN \E r \in Rows :
           /\ otp[r] = NULL
           /\ otp' = [otp EXCEPT ![r] = [user |-> u, purpose |-> p, code |-> c, used |-> FALSE,
                                         attempts |-> 0, expired |-> FALSE]]
           /\ UNCHANGED spent
    ELSE \E r \in Unused(u, p) :
           /\ otp' = [otp EXCEPT ![r].code = c, ![r].expired = FALSE, ![r].attempts = 0]
           /\ spent' = spent \cup {otp[r].code}

SendStore(q) ==
  /\ req[q].step = "store"
  /\ \E c \in FreshCodes :
       /\ Upsert(req[q].user, req[q].purpose, c)
       /\ req' = [req EXCEPT ![q].step = "mail", ![q].seen = c]
  /\ UNCHANGED <<account, mail, guesses, accepts>>

(* The task is queued after the commit.                                    *)
SendMail(q) ==
  /\ req[q].step = "mail"
  /\ mail' = mail \cup {[user |-> req[q].user, purpose |-> req[q].purpose, code |-> req[q].seen]}
  /\ Close(q)
  /\ UNCHANGED <<account, otp, guesses, accepts, spent>>

-----------------------------------------------------------------------------
(* Confirming.                                                             *)

(* The row of the user is loaded.  The guess is a code from some mail, or  *)
(* NULL, one that nobody was sent.                                         *)
ConfirmRead(q, u, p, g) ==
  /\ \E spelling \in Spellings : Found(u, spelling)
  /\ p = "EMAIL_VERIFICATION" => account[u] # "verified"
  /\ \E r \in Valid(u, p) :
       Open(q, u, [step |-> "confirm", user |-> u, purpose |-> p, row |-> r,
                   seen |-> otp[r].code, attempts |-> otp[r].attempts,
                   guess |-> g, late |-> g \in spent])
  /\ UNCHANGED <<account, otp, mail, guesses, accepts, spent>>

(* Mutant of WrongGuess: one more guess is allowed.                        *)
WrongGuessOneMore(q) ==
  /\ req[q].step = "confirm"
  /\ req[q].guess # req[q].seen
  /\ otp' = [otp EXCEPT ![req[q].row].attempts = req[q].attempts + 1,
                        ![req[q].row].used = @ \/ req[q].attempts >= MaxAttempts]
  /\ guesses' = [guesses EXCEPT ![req[q].seen] = @ + 1]
  /\ Close(q)
  /\ UNCHANGED <<account, mail, accepts, spent>>

(* record_failed_otp_attempt: the count that was loaded, plus one, is      *)
(* written to the row, and is_used only if this guess was one too many.    *)
WrongGuess(q) ==
  /\ req[q].step = "confirm"
  /\ req[q].guess # req[q].seen
  /\ otp' = [otp EXCEPT ![req[q].row].attempts = req[q].attempts + 1,
                        ![req[q].row].used = @ \/ req[q].attempts + 1 >= MaxAttempts]
  /\ guesses' = [guesses EXCEPT ![req[q].seen] = @ + 1]
  /\ Close(q)
  /\ UNCHANGED <<account, mail, accepts, spent>>

(* Mutant of RightGuess: the code stays valid.                             *)
RightGuessUnused(q) ==
  /\ req[q].step = "confirm"
  /\ req[q].guess = req[q].seen
  /\ accepts[req[q].seen] < 2
  /\ account' = IF req[q].purpose = "EMAIL_VERIFICATION"
                  THEN [account EXCEPT ![req[q].user] = "verified"] ELSE account
  /\ accepts' = [accepts EXCEPT ![req[q].seen] = @ + 1]
  /\ spent' = spent \cup {req[q].seen}
  /\ Close(q)
  /\ UNCHANGED <<otp, mail, guesses>>

(* The row is marked used and, in the same commit, the user is verified or *)
(* the password replaced; what a reset does to sessions is in              *)
(* RefreshTokens.                                                          *)
RightGuess(q) ==
  /\ req[q].step = "confirm"
  /\ req[q].guess = req[q].seen
  /\ otp' = [otp EXCEPT ![req[q].row].used = TRUE]
  /\ account' = IF req[q].purpose = "EMAIL_VERIFICATION"
                  THEN [account EXCEPT ![req[q].user] = "verified"] ELSE account
  /\ accepts' = [accepts EXCEPT ![req[q].seen] = @ + 1]
  /\ spent' = spent \cup {req[q].seen}
  /\ Close(q)
  /\ UNCHANGED <<mail, guesses>>

-----------------------------------------------------------------------------
(* expires_at passes; nothing looks at it once the row is used.            *)
Expire(r) ==
  /\ otp[r] # NULL
  /\ ~otp[r].used /\ ~otp[r].expired
  /\ otp' = [otp EXCEPT ![r].expired = TRUE]
  /\ UNCHANGED <<account, mail, req, guesses, accepts, spent>>

(* The request is killed, or the broker cannot be reached.                 *)
Die(q) ==
  /\ req[q] # Idle
  /\ Close(q)
  /\ UNCHANGED <<account, otp, mail, guesses, accepts, spent>>

Known == {m.code : m \in mail}

Next ==
  \/ \E q \in Requests :
       \/ \E u \in Users : RegisterRead(q, u)
       \/ \E u \in Users, p \in Purposes : SendRead(q, u, p)
       \/ \E u \in Users, p \in Purposes : \E g \in Known \cup {NULL} : ConfirmRead(q, u, p, g)
       \/ RegisterCommit(q)
       \/ SendStore(q)
       \/ SendMail(q)
       \/ WrongGuess(q)
       \/ RightGuess(q)
       \/ Die(q)
  \/ \E r \in Rows : Expire(r)

Spec == Init /\ [][Next]_vars

-----------------------------------------------------------------------------
(* "5th failed attempt hits MAX_OTP_ATTEMPTS and invalidates the OTP row": *)
(* no code takes more wrong guesses than that.                             *)
GuessLimit == \A c \in Codes : guesses[c] <= MaxAttempts

(* That and more holds for a user whose requests come one after the other, *)
(* whatever happens to the others.  OwnCodes are the codes such a user was *)
(* ever given.                                                             *)
OwnCodes == {otp[r].code : r \in {x \in Rows : otp[x] # NULL /\ otp[x].user \in Patient}}
              \cup {m.code : m \in {x \in mail : x.user \in Patient}}

GuessLimitInTurn == \A c \in OwnCodes : guesses[c] <= MaxAttempts

(* A code is accepted once.                                                *)
AcceptedOnceInTurn == \A c \in OwnCodes : accepts[c] <= 1

(* A code is good until it is spent: only its own use or its own wrong     *)
(* guesses close its row, never what was done to a code it replaced.       *)
GoodUntilSpentInTurn ==
  \A r \in Rows :
    otp[r] # NULL /\ otp[r].user \in Patient /\ otp[r].used =>
      accepts[otp[r].code] = 1 \/ guesses[otp[r].code] = MaxAttempts

(* No request that begins after a code was accepted or replaced has that   *)
(* code accepted, even when requests overlap.                              *)
SpentIsSpent ==
  \A q \in Requests : req[q].step = "confirm" /\ req[q].late => req[q].guess # req[q].seen

(* An account that is there changes only by becoming verified, and only by *)
(* the acceptance of a code mailed to it for that purpose: neither a reset *)
(* link nor another registration of the address, in whatever spelling and  *)
(* however it overlaps, does anything to it.                               *)
VerifiedByMail ==
  [][\A u \in Users :
       account[u] # "none" /\ account'[u] # account[u] =>
         /\ account'[u] = "verified"
         /\ \E m \in mail : /\ m.user = u /\ m.purpose = "EMAIL_VERIFICATION"
                           /\ accepts'[m.code] > accepts[m.code]]_vars
=============================================================================
