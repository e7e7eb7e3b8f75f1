---------------------------- MODULE RefreshTokens ----------------------------
(***************************************************************************)
(* Sessions of users: POST /token, /refresh, /logout, /logout/all and the  *)
(* revocation in /password-reset/confirm.  Login and refresh read first    *)
(* and write at the end, with hashing in between and no lock held; the     *)
(* others decide nothing on what they read that another request can        *)
(* change, and are one step.  A request killed before its commit leaves    *)
(* nothing behind.                                                         *)
(***************************************************************************)
EXTENDS Naturals, FiniteSets

CONSTANTS
  Users,
  Requests,     (* database sessions that serve the requests               *)
  Tokens,       (* ids of refresh_tokens rows                              *)
  Passwords,
  NULL,
  Patient       (* users who wait for one answer before the next request;  *)
                (* requests of the others overlap                          *)

ASSUME NullAssumption    == NULL \notin Users \cup Tokens \cup Passwords
ASSUME PatientAssumption == Patient \subseteq Users

VARIABLES
  password,     (* users.password_hashed, as the password it is a hash of  *)
  token,        (* token[t]: the refresh_tokens row with id t, or NULL     *)
  step,         (* what each request does next                             *)
  who,          (* the user each request is for                            *)
  secret,       (* the password a login was let in with                    *)
  using,        (* the token a refresh has read                            *)
  late,         (* late[q]: a reset was committed after the login q read   *)
  cut           (* cut[l]: whether the session that began with the login   *)
                (* token l has been ended, and while a refresh of it was   *)
                (* in flight ("busy") or not ("quiet"); "late" if a reset  *)
                (* was committed while the login was in flight             *)

vars == <<password, token, step, who, secret, using, late, cut>>

(* login, the first token of the session, and password, the one it began   *)
(* with, are not columns: only the properties read them.                   *)
Token == [user : Users, revoked : BOOLEAN, expired : BOOLEAN,
          login : Tokens, password : Passwords]

ASSUME NullTokenAssumption == NULL \notin Token

TypeOK ==
  /\ password \in [Users -> Passwords]
  /\ token \in [Tokens -> Token \cup {NULL}]
  /\ step \in [Requests -> {"idle", "login", "refresh"}]
  /\ who \in [Requests -> Users \cup {NULL}]
  /\ secret \in [Requests -> Passwords \cup {NULL}]
  /\ using \in [Requests -> Tokens \cup {NULL}]
  /\ late \in [Requests -> BOOLEAN]
  /\ cut \in [Tokens -> {"no", "late", "busy", "quiet"}]
  /\ \A q \in Requests :
       /\ step[q] # "idle" => who[q] \in Users
       /\ step[q] = "login" => secret[q] \in Passwords
       /\ step[q] = "refresh" => using[q] \in Tokens /\ token[using[q]] \in Token

Init ==
  /\ password \in [Users -> Passwords]
  /\ token = [t \in Tokens |-> NULL]
  /\ step = [q \in Requests |-> "idle"]
  /\ who = [q \in Requests |-> NULL]
  /\ secret = [q \in Requests |-> NULL]
  /\ using = [q \in Requests |-> NULL]
  /\ late = [q \in Requests |-> FALSE]
  /\ cut = [t \in Tokens |-> "no"]

-----------------------------------------------------------------------------
Live(t) == token[t] # NULL /\ ~token[t].revoked /\ ~token[t].expired

Free(u) == u \in Patient => \A q \in Requests : who[q] # u

(* Revoke every token of u that is neither revoked nor expired.            *)
RevokeAll(u) ==
  [t \in Tokens |->
     IF Live(t) /\ token[t].user = u THEN [token[t] EXCEPT !.revoked = TRUE] ELSE token[t]]

(* How a session ends now.                                                 *)
Refreshing(l) == \E q \in Requests : step[q] = "refresh" /\ token[using[q]].login = l
CutNow(l)     == IF Refreshing(l) THEN "busy" ELSE "quiet"
CutAll(u)     ==
  [l \in Tokens |-> IF token[l] # NULL /\ token[l].user = u THEN CutNow(l) ELSE cut[l]]

Open(q, u, s, pw, t) ==
  /\ step' = [step EXCEPT ![q] = s]
  /\ who' = [who EXCEPT ![q] = u]
  /\ secret' = [secret EXCEPT ![q] = pw]
  /\ using' = [using EXCEPT ![q] = t]

Close(q) ==
  /\ Open(q, NULL, "idle", NULL, NULL)
  /\ late' = [late EXCEPT ![q] = FALSE]

Row(u, l, pw) ==
  [user |-> u, revoked |-> FALSE, expired |-> FALSE, login |-> l, password |-> pw]

-----------------------------------------------------------------------------
(* The password is verified against the hash just read.                    *)
LoginRead(q, u) ==
  /\ step[q] = "idle"
  /\ Free(u)
  /\ Open(q, u, "login", password[u], NULL)
  /\ UNCHANGED <<password, token, late, cut>>

(* create_refresh_token and the commit.                                    *)
LoginCommit(q) ==
  /\ step[q] = "login"
  /\ \E t \in Tokens :
       /\ token[t] = NULL
       /\ token' = [token EXCEPT ![t] = Row(who[q], t, secret[q])]
       /\ cut' = [cut EXCEPT ![t] = IF late[q] THEN "late" ELSE "no"]
  /\ Close(q)
  /\ UNCHANGED password

(* Mutant of RefreshRead: revoked_at is not looked at.                     *)
RefreshReadRevoked(q, t) ==
  /\ step[q] = "idle"
  /\ token[t] # NULL
  /\ ~token[t].expired
  /\ Free(token[t].user)
  /\ Open(q, token[t].user, "refresh", NULL, t)
  /\ UNCHANGED <<password, token, late, cut>>

(* The row exists and is neither expired nor revoked.                      *)
RefreshRead(q, t) ==
  /\ step[q] = "idle"
  /\ Live(t)
  /\ Free(token[t].user)
  /\ Open(q, token[t].user, "refresh", NULL, t)
  /\ UNCHANGED <<password, token, late, cut>>

(* Mutant of RefreshCommit: the old token stays good.                      *)
RefreshCommitBoth(q) ==
  /\ step[q] = "refresh"
  /\ \E t \in Tokens :
       LET old == token[using[q]] IN
         /\ token[t] = NULL
         /\ token' = [token EXCEPT ![t] = Row(old.user, old.login, old.password)]
  /\ Close(q)
  /\ UNCHANGED <<password, cut>>

(* A new token is inserted and the old one revoked, in one commit and      *)
(* without looking at the old one again.                                   *)
RefreshCommit(q) ==
  /\ step[q] = "refresh"
  /\ \E t \in Tokens :
       LET old == token[using[q]] IN
         /\ token[t] = NULL
         /\ token' = [token EXCEPT ![t] = Row(old.user, old.login, old.password),
                                   ![using[q]].revoked = TRUE]
  /\ Close(q)
  /\ UNCHANGED <<password, cut>>

(* Mutant of Logout: the row is deleted.                                   *)
LogoutDeletes(t) ==
  /\ token[t] # NULL
  /\ Free(token[t].user)
  /\ token' = [token EXCEPT ![t] = NULL]
  /\ UNCHANGED <<password, step, who, secret, using, late, cut>>

(* The token named in the request is revoked, whatever state it is in; if  *)
(* it is the last live one of its session, that ends the session.          *)
Logout(t) ==
  /\ token[t] # NULL
  /\ Free(token[t].user)
  /\ token' = [token EXCEPT ![t].revoked = TRUE]
  /\ LET l == token[t].login IN
       cut' = IF \E s \in Tokens \ {t} : Live(s) /\ token[s].login = l
                THEN cut ELSE [cut EXCEPT ![l] = CutNow(l)]
  /\ UNCHANGED <<password, step, who, secret, using, late>>

(* The caller has an access token, so u has logged in.                     *)
LogoutAll(u) ==
  /\ \E t \in Tokens : token[t] # NULL /\ token[t].user = u
  /\ Free(u)
  /\ token' = RevokeAll(u)
  /\ cut' = CutAll(u)
  /\ UNCHANGED <<password, step, who, secret, using, late>>

(* Mutant of ResetPassword: sessions survive it.                           *)
ResetPasswordOnly(u, pw) ==
  /\ Free(u)
  /\ password' = [password EXCEPT ![u] = pw]
  /\ late' = [q \in Requests |-> late[q] \/ (step[q] = "login" /\ who[q] = u)]
  /\ cut' = CutAll(u)
  /\ UNCHANGED <<token, step, who, secret, using>>

(* The tokens are revoked and the password replaced in one commit.  Who    *)
(* may do so is decided by a one-time code, which is not in this module.   *)
ResetPassword(u, pw) ==
  /\ Free(u)
  /\ password' = [password EXCEPT ![u] = pw]
  /\ token' = RevokeAll(u)
  /\ late' = [q \in Requests |-> late[q] \/ (step[q] = "login" /\ who[q] = u)]
  /\ cut' = CutAll(u)
  /\ UNCHANGED <<step, who, secret, using>>

(* expires_at passes.                                                      *)
Expire(t) ==
  /\ Live(t)
  /\ token' = [token EXCEPT ![t].expired = TRUE]
  /\ UNCHANGED <<password, step, who, secret, using, late, cut>>

(* The request is killed: nothing is committed.                            *)
Die(q) ==
  /\ step[q] # "idle"
  /\ Close(q)
  /\ UNCHANGED <<password, token, cut>>

Next ==
  \/ \E q \in Requests :
       \/ \E u \in Users : LoginRead(q, u)
       \/ \E t \in Tokens : RefreshRead(q, t)
       \/ LoginCommit(q)
       \/ RefreshCommit(q)
       \/ Die(q)
  \/ \E t \in Tokens : Logout(t) \/ Expire(t)
  \/ \E u \in Users : LogoutAll(u) \/ \E pw \in Passwords : ResetPassword(u, pw)

Spec == Init /\ [][Next]_vars

-----------------------------------------------------------------------------
(* A session has one token that can be refreshed: using a token takes it   *)
(* away, so one that is used twice has been copied.                        *)
OneLiveToken ==
  \A s, t \in Tokens :
    Live(s) /\ Live(t) /\ token[s].login = token[t].login => s = t

(* That holds for a user who waits for each answer, whatever the others do.*)
OneLiveTokenInTurn ==
  \A s, t \in Tokens :
    /\ Live(s) /\ Live(t) /\ token[s].login = token[t].login
    /\ token[s].user \in Patient
    => s = t

(* Ending a session, by logging out or everywhere or by a reset, while no  *)
(* refresh of it is in flight is final: no token of it is ever good again. *)
QuietCutsHold ==
  \A t \in Tokens : Live(t) => cut[token[t].login] # "quiet"

(* A session that did not overlap the last reset was begun with the        *)
(* password the user has now.                                              *)
OldPasswordIsOut ==
  \A t \in Tokens :
    Live(t) /\ cut[token[t].login] \notin {"late", "busy"} =>
      token[t].password = password[token[t].user]
=============================================================================
