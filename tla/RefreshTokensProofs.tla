------------------------- MODULE RefreshTokensProofs -------------------------
(***************************************************************************)
(* Theorems about RefreshTokens, for all users, requests, tokens and       *)
(* passwords.  SessionInv ties a token to its session; EndedInv and        *)
(* SecretInv carry the two invariants across a request that has read and   *)
(* not yet written; TurnsInv is what a user who waits for answers adds.    *)
(***************************************************************************)
EXTENDS RefreshTokens, TLAPS

(* A token belongs to the user of its session, and the session to a login  *)
(* that was committed; a refresh is for the user of the token it read.     *)
SessionInv ==
  /\ \A t \in Tokens : token[t] # NULL =>
       /\ token[token[t].login] # NULL
       /\ token[token[t].login].user = token[t].user
  /\ \A q \in Requests : step[q] = "refresh" => who[q] = token[using[q]].user

EndedInv ==
  /\ QuietCutsHold
  /\ \A q \in Requests :
       step[q] = "refresh" => cut[token[using[q]].login] # "quiet"

TurnsInv ==
  /\ OneLiveTokenInTurn
  /\ \A q, r \in Requests :
       step[q] # "idle" /\ step[r] # "idle" /\ who[q] = who[r] /\ who[q] \in Patient => q = r
  /\ \A q \in Requests, t \in Tokens :
       /\ step[q] = "refresh" /\ who[q] \in Patient
       /\ Live(t) /\ token[t].login = token[using[q]].login
       => t = using[q]

SecretInv ==
  /\ OldPasswordIsOut
  /\ \A q \in Requests : step[q] = "login" /\ ~late[q] => secret[q] = password[who[q]]
  /\ \A q \in Requests :
       step[q] = "refresh" /\ cut[token[using[q]].login] \notin {"late", "busy"} =>
         token[using[q]].password = password[token[using[q]].user]

(* What a refresh commits, row by row.                                     *)
LEMMA RefreshEffect ==
  ASSUME TypeOK, NEW q \in Requests, RefreshCommit(q)
  PROVE  /\ using[q] \in Tokens
         /\ token[using[q]] \in Token
         /\ \E t \in Tokens :
              /\ token[t] = NULL
              /\ t # using[q]
              /\ token'[t] = Row(token[using[q]].user, token[using[q]].login,
                                 token[using[q]].password)
              /\ token'[using[q]] = [token[using[q]] EXCEPT !.revoked = TRUE]
              /\ \A s \in Tokens \ {t, using[q]} : token'[s] = token[s]
              /\ token' = [s \in Tokens |-> token'[s]]
<1>1. using[q] \in Tokens /\ token[using[q]] \in Token
      BY DEF TypeOK, RefreshCommit
<1>2. PICK t \in Tokens :
        /\ token[t] = NULL
        /\ token' = [token EXCEPT ![t] = Row(token[using[q]].user, token[using[q]].login,
                                             token[using[q]].password),
                                  ![using[q]].revoked = TRUE]
      BY DEF RefreshCommit
<1>3. t # using[q]
      BY <1>1, <1>2, NullTokenAssumption
<1>4. token \in [Tokens -> Token \cup {NULL}]
      BY DEF TypeOK
<1>5. /\ token'[t] = Row(token[using[q]].user, token[using[q]].login, token[using[q]].password)
      /\ token'[using[q]] = [token[using[q]] EXCEPT !.revoked = TRUE]
      /\ \A s \in Tokens \ {t, using[q]} : token'[s] = token[s]
      /\ token' = [s \in Tokens |-> token'[s]]
      BY <1>1, <1>2, <1>3, <1>4
<1> QED BY <1>1, <1>2, <1>3, <1>5

(* TypeOK is inductive: rows are never deleted, so the token a refresh     *)
(* read is still there when it commits.                                    *)
LEMMA TypeInductive == TypeOK /\ [Next]_vars => TypeOK'
<1> SUFFICES ASSUME TypeOK, [Next]_vars PROVE TypeOK'
    OBVIOUS
<1> USE NullAssumption DEF TypeOK, Token, Open, Close, Row
<1>1. ASSUME NEW q \in Requests, NEW u \in Users, LoginRead(q, u) PROVE TypeOK'
      BY <1>1 DEF LoginRead
<1>2. ASSUME NEW q \in Requests, NEW t \in Tokens, RefreshRead(q, t) PROVE TypeOK'
      BY <1>2 DEF RefreshRead, Live
<1>3. ASSUME NEW q \in Requests, LoginCommit(q) PROVE TypeOK'
      BY <1>3 DEF LoginCommit
<1>4. ASSUME NEW q \in Requests, RefreshCommit(q) PROVE TypeOK'
  <2>1. PICK t \in Tokens :
          /\ token'[t] = Row(token[using[q]].user, token[using[q]].login,
                             token[using[q]].password)
          /\ token'[using[q]] = [token[using[q]] EXCEPT !.revoked = TRUE]
          /\ \A s \in Tokens \ {t, using[q]} : token'[s] = token[s]
          /\ token' = [s \in Tokens |-> token'[s]]
        BY <1>4, RefreshEffect
  <2>2. using[q] \in Tokens /\ token[using[q]] \in Token
        BY <1>4, RefreshEffect
  <2>3. token'[t] \in Token /\ token'[using[q]] \in Token
    <3>1. Row(token[using[q]].user, token[using[q]].login, token[using[q]].password) \in Token
          BY <2>2
    <3>2. [token[using[q]] EXCEPT !.revoked = TRUE] \in Token
          BY <2>2
    <3> QED BY <2>1, <3>1, <3>2
  <2>4. token' \in [Tokens -> Token \cup {NULL}]
    <3>1. ASSUME NEW s \in Tokens PROVE token'[s] \in Token \cup {NULL}
      <4>1. token[s] \in Token \cup {NULL}
            OBVIOUS
      <4> QED BY ONLY <2>1, <2>3, <4>1
    <3> QED BY ONLY <2>1, <3>1
  <2>5. \A s \in Tokens : token[s] \in Token => token'[s] \in Token
        BY <2>1, <2>3
  <2> QED BY <1>4, <2>4, <2>5 DEF RefreshCommit
<1>5. ASSUME NEW q \in Requests, Die(q) PROVE TypeOK'
      BY <1>5 DEF Die
<1>6. ASSUME NEW t \in Tokens, Logout(t) PROVE TypeOK'
  <2>1. /\ token' = [token EXCEPT ![t].revoked = TRUE] /\ token[t] \in Token
        /\ UNCHANGED <<password, step, who, secret, using, late>>
        BY <1>6 DEF Logout
  <2>2. [token[t] EXCEPT !.revoked = TRUE] \in Token
        BY <2>1
  <2>3. token' = [token EXCEPT ![t] = [token[t] EXCEPT !.revoked = TRUE]]
        BY <2>1
  <2>4. /\ token' \in [Tokens -> Token \cup {NULL}]
        /\ \A s \in Tokens : token[s] \in Token => token'[s] \in Token
    <3>1. token \in [Tokens -> Token \cup {NULL}]
          OBVIOUS
    <3> QED BY ONLY <2>2, <2>3, <3>1
  <2>5. cut' \in [Tokens -> {"no", "late", "busy", "quiet"}]
    <3>1. CutNow(token[t].login) \in {"no", "late", "busy", "quiet"}
          BY DEF CutNow
    <3>2. cut' = cut \/ cut' = [cut EXCEPT ![token[t].login] = CutNow(token[t].login)]
          BY <1>6 DEF Logout
    <3>3. cut \in [Tokens -> {"no", "late", "busy", "quiet"}]
          OBVIOUS
    <3> QED BY ONLY <3>1, <3>2, <3>3
  <2> QED BY <2>1, <2>4, <2>5
<1>7. ASSUME NEW t \in Tokens, Expire(t) PROVE TypeOK'
  <2>1. /\ token' = [token EXCEPT ![t].expired = TRUE] /\ token[t] \in Token
        /\ UNCHANGED <<password, step, who, secret, using, late, cut>>
        BY <1>7 DEF Expire, Live
  <2>2. [token[t] EXCEPT !.expired = TRUE] \in Token
        BY <2>1
  <2>3. token' = [token EXCEPT ![t] = [token[t] EXCEPT !.expired = TRUE]]
        BY <2>1
  <2>4. /\ token' \in [Tokens -> Token \cup {NULL}]
        /\ \A s \in Tokens : token[s] \in Token => token'[s] \in Token
    <3>1. token \in [Tokens -> Token \cup {NULL}]
          OBVIOUS
    <3> QED BY ONLY <2>2, <2>3, <3>1
  <2> QED BY <2>1, <2>4
<1>8. ASSUME NEW u
      PROVE  /\ RevokeAll(u) \in [Tokens -> Token \cup {NULL}]
             /\ \A s \in Tokens : token[s] \in Token => RevokeAll(u)[s] \in Token
             /\ CutAll(u) \in [Tokens -> {"no", "late", "busy", "quiet"}]
  <2>1. ASSUME NEW s \in Tokens, Live(s) PROVE [token[s] EXCEPT !.revoked = TRUE] \in Token
    <3>1. token[s] \in Token
          BY <2>1 DEF Live
    <3> QED BY ONLY <3>1 DEF Token
  <2>2. \A s \in Tokens : token[s] \in Token \cup {NULL}
        OBVIOUS
  <2>3. \A l \in Tokens : CutNow(l) \in {"no", "late", "busy", "quiet"}
        BY DEF CutNow
  <2>4. \A l \in Tokens : cut[l] \in {"no", "late", "busy", "quiet"}
        OBVIOUS
  <2>5. RevokeAll(u) \in [Tokens -> Token \cup {NULL}]
        BY ONLY <2>1, <2>2 DEF RevokeAll
  <2>6. \A s \in Tokens : token[s] \in Token => RevokeAll(u)[s] \in Token
        BY ONLY <2>1 DEF RevokeAll
  <2>7. CutAll(u) \in [Tokens -> {"no", "late", "busy", "quiet"}]
        BY ONLY <2>3, <2>4 DEF CutAll
  <2> QED BY ONLY <2>5, <2>6, <2>7
<1>9. ASSUME NEW u \in Users, LogoutAll(u) \/ \E pw \in Passwords : ResetPassword(u, pw)
      PROVE  TypeOK'
  <2>1. /\ token' = RevokeAll(u) /\ cut' = CutAll(u)
        /\ UNCHANGED <<step, who, secret, using>>
        BY <1>9 DEF LogoutAll, ResetPassword
  <2>2. password' \in [Users -> Passwords] /\ late' \in [Requests -> BOOLEAN]
    <3>1. CASE LogoutAll(u)
          BY <3>1 DEF LogoutAll
    <3>2. CASE \E pw \in Passwords : ResetPassword(u, pw)
          BY <3>2 DEF ResetPassword
    <3> QED BY <1>9, <3>1, <3>2
  <2>3. /\ token' \in [Tokens -> Token \cup {NULL}]
        /\ \A s \in Tokens : token[s] \in Token => token'[s] \in Token
        /\ cut' \in [Tokens -> {"no", "late", "busy", "quiet"}]
        BY ONLY <1>8, <2>1
  <2> QED BY <2>1, <2>2, <2>3
<1>10. CASE UNCHANGED vars
      BY <1>10 DEF vars
<1> QED BY <1>1, <1>2, <1>3, <1>4, <1>5, <1>6, <1>7, <1>8, <1>9, <1>10 DEF Next

(* Every reachable state of RefreshTokens has the declared types: in       *)
(* particular a refresh always has a row to revoke.                        *)
THEOREM TokensTypeCorrect == Spec => []TypeOK
<1>1. Init => TypeOK
      BY NullAssumption DEF Init, TypeOK
<1> QED BY <1>1, TypeInductive, PTL DEF Spec

-----------------------------------------------------------------------------
(* A row that is there stays, keeps its user, its session and the password *)
(* it began with, and does not become live again.                          *)
Same(s) ==
  /\ token'[s] # NULL
  /\ token'[s].user = token[s].user
  /\ token'[s].login = token[s].login
  /\ token'[s].password = token[s].password
  /\ Live(s)' => Live(s)

(* No step changes what a row is about, or takes a revocation back.        *)
LEMMA RowsAreKept ==
  ASSUME TypeOK, [Next]_vars, NEW s \in Tokens, token[s] # NULL
  PROVE  Same(s)
<1>1. token[s] \in Token /\ token \in [Tokens -> Token \cup {NULL}]
      BY DEF TypeOK
<1>2. SUFFICES \/ token'[s] = token[s]
               \/ token'[s] = [token[s] EXCEPT !.revoked = TRUE]
               \/ token'[s] = [token[s] EXCEPT !.expired = TRUE]
  <2>1. ASSUME token'[s] = token[s] PROVE Same(s)
        BY <2>1 DEF Same, Live
  <2>2. ASSUME token'[s] = [token[s] EXCEPT !.revoked = TRUE] PROVE Same(s)
    <3>1. token'[s] \in Token /\ token'[s].revoked
          BY <1>1, <2>2 DEF Token
    <3> QED BY <1>1, <2>2, <3>1, NullTokenAssumption DEF Same, Live, Token
  <2>3. ASSUME token'[s] = [token[s] EXCEPT !.expired = TRUE] PROVE Same(s)
    <3>1. token'[s] \in Token /\ token'[s].expired
          BY <1>1, <2>3 DEF Token
    <3> QED BY <1>1, <2>3, <3>1, NullTokenAssumption DEF Same, Live, Token
  <2> QED BY <1>2, <2>1, <2>2, <2>3
<1>3. ASSUME NEW q \in Requests, RefreshCommit(q)
      PROVE  token'[s] = token[s] \/ token'[s] = [token[s] EXCEPT !.revoked = TRUE]
      BY <1>3, RefreshEffect
<1>4. ASSUME NEW q \in Requests, LoginCommit(q) PROVE token'[s] = token[s]
      BY <1>1, <1>4 DEF LoginCommit
<1>5. ASSUME NEW t \in Tokens, Logout(t)
      PROVE  token'[s] = token[s] \/ token'[s] = [token[s] EXCEPT !.revoked = TRUE]
      BY <1>1, <1>5 DEF Logout
<1>6. ASSUME NEW t \in Tokens, Expire(t)
      PROVE  token'[s] = token[s] \/ token'[s] = [token[s] EXCEPT !.expired = TRUE]
      BY <1>1, <1>6 DEF Expire
<1>7. ASSUME NEW u \in Users, LogoutAll(u) \/ \E pw \in Passwords : ResetPassword(u, pw)
      PROVE  token'[s] = token[s] \/ token'[s] = [token[s] EXCEPT !.revoked = TRUE]
      BY <1>7 DEF LogoutAll, ResetPassword, RevokeAll
<1>8. ASSUME NEW q \in Requests,
             \/ Die(q)
             \/ \E u \in Users : LoginRead(q, u)
             \/ \E t \in Tokens : RefreshRead(q, t)
      PROVE  token'[s] = token[s]
      BY <1>8 DEF Die, LoginRead, RefreshRead
<1> QED BY <1>3, <1>4, <1>5, <1>6, <1>7, <1>8 DEF Next, vars

(* The one row a login or a refresh inserts.                               *)
Inserts(q, t) ==
  /\ token[t] = NULL
  /\ token'[t] # NULL
  /\ \A s \in Tokens : token'[s] # NULL => s = t \/ token[s] # NULL
  /\ \/ /\ LoginCommit(q)
        /\ token'[t] = Row(who[q], t, secret[q])
        /\ cut' = [cut EXCEPT ![t] = IF late[q] THEN "late" ELSE "no"]
     \/ /\ RefreshCommit(q)
        /\ token'[t] = Row(token[using[q]].user, token[using[q]].login,
                           token[using[q]].password)
        /\ token'[using[q]].revoked
        /\ UNCHANGED cut

(* A login and a refresh insert one row, every other step inserts none.    *)
LEMMA OneRowInserted ==
  ASSUME TypeOK, NEW q \in Requests, LoginCommit(q) \/ RefreshCommit(q)
  PROVE  \E t \in Tokens : Inserts(q, t)
<1> USE NullTokenAssumption DEF TypeOK
<1>1. CASE LoginCommit(q)
  <2>1. PICK t \in Tokens :
          /\ token[t] = NULL
          /\ token' = [token EXCEPT ![t] = Row(who[q], t, secret[q])]
          /\ cut' = [cut EXCEPT ![t] = IF late[q] THEN "late" ELSE "no"]
        BY <1>1 DEF LoginCommit
  <2>2. Row(who[q], t, secret[q]) \in Token
        BY <1>1 DEF LoginCommit, Row, Token
  <2> QED BY <1>1, <2>1, <2>2 DEF Inserts
<1>2. CASE RefreshCommit(q)
  <2>1. using[q] \in Tokens /\ token[using[q]] \in Token
        BY <1>2, RefreshEffect
  <2>2. PICK t \in Tokens :
          /\ token[t] = NULL
          /\ token'[t] = Row(token[using[q]].user, token[using[q]].login,
                             token[using[q]].password)
          /\ token'[using[q]] = [token[using[q]] EXCEPT !.revoked = TRUE]
          /\ \A s \in Tokens \ {t, using[q]} : token'[s] = token[s]
        BY <1>2, RefreshEffect
  <2>3. Row(token[using[q]].user, token[using[q]].login, token[using[q]].password) \in Token
        BY <2>1 DEF Row, Token
  <2>4. token'[using[q]].revoked
        BY <2>1, <2>2 DEF Token
  <2> QED BY <1>2, <2>1, <2>2, <2>3, <2>4 DEF Inserts, RefreshCommit
<1> QED BY <1>1, <1>2

(* The other steps insert nothing.                                        *)
LEMMA NoRowInserted ==
  ASSUME TypeOK, [Next]_vars, \A q \in Requests : ~LoginCommit(q) /\ ~RefreshCommit(q),
         NEW s \in Tokens, token'[s] # NULL
  PROVE  token[s] # NULL
<1> USE NullTokenAssumption DEF TypeOK
<1>1. ASSUME NEW t \in Tokens, Logout(t) \/ Expire(t) PROVE token[s] # NULL
      BY <1>1 DEF Logout, Expire, Live
<1>2. ASSUME NEW u \in Users, LogoutAll(u) \/ \E pw \in Passwords : ResetPassword(u, pw)
      PROVE  token[s] # NULL
      BY <1>2 DEF LogoutAll, ResetPassword, RevokeAll, Live
<1>3. ASSUME NEW q \in Requests,
             \/ Die(q)
             \/ \E u \in Users : LoginRead(q, u)
             \/ \E t \in Tokens : RefreshRead(q, t)
      PROVE  token[s] # NULL
      BY <1>3 DEF Die, LoginRead, RefreshRead
<1> QED BY <1>1, <1>2, <1>3 DEF Next, vars

-----------------------------------------------------------------------------
(* A request that is in its refresh after a step was so before, with the   *)
(* same token, or has just read a live one.                                *)
LEMMA RefreshersAreKept ==
  ASSUME TypeOK, [Next]_vars, NEW q \in Requests, step'[q] = "refresh"
  PROVE  /\ using'[q] \in Tokens
         /\ token[using'[q]] # NULL
         /\ \/ step[q] = "refresh" /\ using'[q] = using[q] /\ who'[q] = who[q]
            \/ /\ RefreshRead(q, using'[q])
               /\ who'[q] = token[using'[q]].user
<1> USE NullTokenAssumption DEF TypeOK, Open, Close
<1>1. ASSUME NEW r \in Requests, LoginCommit(r) \/ RefreshCommit(r) \/ Die(r)
      PROVE  step[q] = "refresh" /\ using'[q] = using[q] /\ who'[q] = who[q]
      BY <1>1 DEF LoginCommit, RefreshCommit, Die
<1>2. ASSUME NEW r \in Requests, NEW u \in Users, LoginRead(r, u)
      PROVE  step[q] = "refresh" /\ using'[q] = using[q] /\ who'[q] = who[q]
      BY <1>2 DEF LoginRead
<1>3. ASSUME NEW r \in Requests, NEW t \in Tokens, RefreshRead(r, t), r # q
      PROVE  step[q] = "refresh" /\ using'[q] = using[q] /\ who'[q] = who[q]
      BY <1>3 DEF RefreshRead
<1>4. ASSUME NEW t \in Tokens, RefreshRead(q, t)
      PROVE  /\ using'[q] = t /\ who'[q] = token[t].user /\ token[t] # NULL
      BY <1>4 DEF RefreshRead, Live
<1>5. ASSUME UNCHANGED <<step, using, who>>
      PROVE  step[q] = "refresh" /\ using'[q] = using[q] /\ who'[q] = who[q]
      BY <1>5
<1>6. ASSUME NEW t \in Tokens, Logout(t) \/ Expire(t)
      PROVE  UNCHANGED <<step, using, who>>
      BY <1>6 DEF Logout, Expire
<1>7. ASSUME NEW u \in Users, LogoutAll(u) \/ \E pw \in Passwords : ResetPassword(u, pw)
      PROVE  UNCHANGED <<step, using, who>>
      BY <1>7 DEF LogoutAll, ResetPassword
<1>8. step[q] = "refresh" => using[q] \in Tokens /\ token[using[q]] # NULL
      OBVIOUS
<1>9. UNCHANGED vars => UNCHANGED <<step, using, who>>
      BY DEF vars
<1>10. ASSUME step[q] = "refresh" /\ using'[q] = using[q] /\ who'[q] = who[q]
       PROVE  /\ using'[q] \in Tokens
              /\ token[using'[q]] # NULL
       BY <1>8, <1>10
<1> HIDE DEF TypeOK, Open, Close
<1> QED BY <1>1, <1>2, <1>3, <1>4, <1>5, <1>6, <1>7, <1>9, <1>10 DEF Next

(* Sessions and users of tokens are kept by every step: a row is inserted  *)
(* with the session of the one it replaces, or as the first of its own.    *)
LEMMA SessionInductive ==
  ASSUME TypeOK, SessionInv, [Next]_vars
  PROVE  SessionInv'
<1> USE DEF SessionInv
<1>1. ASSUME NEW s \in Tokens, token[s] # NULL
      PROVE  /\ token'[token'[s].login] # NULL
             /\ token'[token'[s].login].user = token'[s].user
  <2>1. token[s].login \in Tokens /\ token[token[s].login] # NULL
        BY <1>1 DEF TypeOK, Token
  <2>2. Same(s) /\ Same(token[s].login)
        BY <1>1, <2>1, RowsAreKept
  <2> QED BY <1>1, <2>2 DEF Same
<1>2. ASSUME NEW q \in Requests, LoginCommit(q) \/ RefreshCommit(q),
             NEW t \in Tokens, Inserts(q, t)
      PROVE  /\ token'[token'[t].login] # NULL
             /\ token'[token'[t].login].user = token'[t].user
  <2>1. CASE RefreshCommit(q) /\ token'[t] = Row(token[using[q]].user, token[using[q]].login,
                                               token[using[q]].password)
    <3>1. using[q] \in Tokens /\ token[using[q]] \in Token /\ token[using[q]] # NULL
          BY <2>1, RefreshEffect, NullTokenAssumption
    <3>2. Same(using[q])
          BY <3>1, RowsAreKept, <1>2 DEF Next
    <3> QED BY <1>1, <2>1, <3>1, <3>2 DEF Row, Same
  <2>2. CASE LoginCommit(q) /\ token'[t] = Row(who[q], t, secret[q])
        BY <1>2, <2>2 DEF Row, Inserts
  <2> QED BY <1>2, <2>1, <2>2 DEF Inserts
<1>3. ASSUME NEW s \in Tokens, token'[s] # NULL
      PROVE  /\ token'[token'[s].login] # NULL
             /\ token'[token'[s].login].user = token'[s].user
  <2>1. CASE \E q \in Requests : LoginCommit(q) \/ RefreshCommit(q)
        BY <1>1, <1>2, <1>3, <2>1, OneRowInserted DEF Inserts
  <2>2. CASE \A q \in Requests : ~LoginCommit(q) /\ ~RefreshCommit(q)
        BY <1>1, <1>3, <2>2, NoRowInserted
  <2> QED BY <2>1, <2>2
<1>4. ASSUME NEW q \in Requests, step'[q] = "refresh"
      PROVE  who'[q] = token'[using'[q]].user
      BY <1>4, RefreshersAreKept, RowsAreKept DEF Same
<1> QED BY <1>3, <1>4

-----------------------------------------------------------------------------
(* A step that ends a session for good leaves no live token of it and no   *)
(* refresh of it in flight.                                                *)
LEMMA QuietCut ==
  ASSUME TypeOK, SessionInv, [Next]_vars, NEW l \in Tokens,
         cut'[l] = "quiet", cut[l] # "quiet"
  PROVE  /\ ~Refreshing(l)
         /\ \A t \in Tokens : token[t] # NULL /\ token[t].login = l => ~Live(t)'
         /\ \A q \in Requests : ~LoginCommit(q) /\ ~RefreshCommit(q) /\ step'[q] = step[q]
<1> USE NullTokenAssumption
<1>1. token \in [Tokens -> Token \cup {NULL}] /\ cut \in [Tokens -> {"no", "late", "busy", "quiet"}]
      BY DEF TypeOK
<1>2. ASSUME NEW q \in Requests, LoginCommit(q) \/ RefreshCommit(q) PROVE FALSE
      BY <1>1, <1>2, OneRowInserted DEF Inserts
<1>3. ASSUME NEW t0 \in Tokens, Logout(t0)
      PROVE  /\ ~Refreshing(l)
             /\ \A t \in Tokens : token[t] # NULL /\ token[t].login = l => ~Live(t)'
             /\ UNCHANGED step
  <2>1. token[t0] \in Token /\ token' = [token EXCEPT ![t0].revoked = TRUE]
        BY <1>1, <1>3 DEF Logout
  <2>2. /\ token[t0].login = l /\ CutNow(l) = "quiet"
        /\ ~ \E s \in Tokens \ {t0} : Live(s) /\ token[s].login = l
        BY <1>1, <1>3 DEF Logout
  <2>3. token'[t0] \in Token /\ token'[t0].revoked /\ \A s \in Tokens \ {t0} : token'[s] = token[s]
        BY <1>1, <2>1 DEF Token
  <2> QED BY <1>3, <2>2, <2>3 DEF Logout, CutNow, Live
<1>4. ASSUME NEW u \in Users, LogoutAll(u) \/ \E pw \in Passwords : ResetPassword(u, pw)
      PROVE  /\ ~Refreshing(l)
             /\ \A t \in Tokens : token[t] # NULL /\ token[t].login = l => ~Live(t)'
             /\ UNCHANGED step
  <2>1. token' = RevokeAll(u) /\ cut' = CutAll(u) /\ UNCHANGED step
        BY <1>4 DEF LogoutAll, ResetPassword
  <2>2. token[l] # NULL /\ token[l].user = u /\ CutNow(l) = "quiet"
        BY <1>1, <2>1 DEF CutAll
  <2>3. ASSUME NEW t \in Tokens, token[t] # NULL, token[t].login = l PROVE ~Live(t)'
    <3>1. token[t] \in Token /\ token[t].user = u
          BY <1>1, <2>2, <2>3 DEF SessionInv
    <3>2. CASE Live(t)
      <4>1. token'[t] = [token[t] EXCEPT !.revoked = TRUE]
            BY <2>1, <3>1, <3>2 DEF RevokeAll
      <4>2. token'[t].revoked
            BY <3>1, <4>1 DEF Token
      <4> QED BY <4>2 DEF Live
    <3>3. CASE ~Live(t)
          BY <2>1, <3>3 DEF RevokeAll, Live
    <3> QED BY <3>2, <3>3
  <2> QED BY <2>1, <2>2, <2>3 DEF CutNow
<1>5. ASSUME UNCHANGED cut PROVE FALSE
      BY <1>5
<1>6. ASSUME NEW q \in Requests,
             \/ Die(q)
             \/ \E u \in Users : LoginRead(q, u)
             \/ \E t \in Tokens : RefreshRead(q, t)
      PROVE  UNCHANGED cut
      BY <1>6 DEF Die, LoginRead, RefreshRead
<1>7. ASSUME NEW t \in Tokens, Expire(t) PROVE UNCHANGED cut
      BY <1>7 DEF Expire
<1> QED BY <1>2, <1>3, <1>4, <1>5, <1>6, <1>7 DEF Next, vars

(* The row of a session that has ended for good is never followed by       *)
(* another: no live token leads to one, and no refresh in flight does.     *)
LEMMA EndedInductive ==
  ASSUME TypeOK, SessionInv, EndedInv, [Next]_vars
  PROVE  EndedInv'
<1> USE NullTokenAssumption DEF EndedInv, QuietCutsHold
<1>1. ASSUME NEW t \in Tokens, token[t] # NULL, Live(t)'
      PROVE  cut'[token'[t].login] # "quiet"
  <2>1. Live(t) /\ token'[t].login = token[t].login /\ token[t].login \in Tokens
        BY <1>1, RowsAreKept DEF Same, TypeOK, Token
  <2> QED BY <1>1, <2>1, QuietCut
<1>2. ASSUME NEW q \in Requests, LoginCommit(q) \/ RefreshCommit(q),
             NEW t \in Tokens, Inserts(q, t)
      PROVE  cut'[token'[t].login] # "quiet"
  <2>1. CASE LoginCommit(q) /\ token'[t] = Row(who[q], t, secret[q])
                            /\ cut' = [cut EXCEPT ![t] = IF late[q] THEN "late" ELSE "no"]
        BY <2>1 DEF Row, TypeOK
  <2>2. CASE RefreshCommit(q) /\ UNCHANGED cut
             /\ token'[t] = Row(token[using[q]].user, token[using[q]].login,
                                token[using[q]].password)
        BY <2>2 DEF Row, RefreshCommit
  <2> QED BY <1>2, <2>1, <2>2 DEF Inserts
<1>3. ASSUME NEW t \in Tokens, Live(t)' PROVE cut'[token'[t].login] # "quiet"
  <2>1. token'[t] # NULL
        BY <1>3 DEF Live
  <2>2. CASE \E q \in Requests : LoginCommit(q) \/ RefreshCommit(q)
        BY <1>1, <1>2, <1>3, <2>1, <2>2, OneRowInserted DEF Inserts
  <2>3. CASE \A q \in Requests : ~LoginCommit(q) /\ ~RefreshCommit(q)
        BY <1>1, <1>3, <2>1, <2>3, NoRowInserted
  <2> QED BY <2>2, <2>3
<1>4. ASSUME NEW q \in Requests, step'[q] = "refresh"
      PROVE  cut'[token'[using'[q]].login] # "quiet"
  <2> DEFINE t == using'[q]
  <2>1. t \in Tokens /\ token[t] # NULL /\ token[t].login \in Tokens
        /\ token'[t].login = token[t].login
        BY <1>4, RefreshersAreKept, RowsAreKept DEF Same, TypeOK, Token
  <2>2. CASE step[q] = "refresh" /\ t = using[q]
    <3>1. cut[token[t].login] # "quiet" /\ Refreshing(token[t].login)
          BY <2>2 DEF Refreshing
    <3> QED BY <2>1, <3>1, QuietCut
  <2>3. CASE RefreshRead(q, t)
        BY <2>1, <2>3 DEF RefreshRead
  <2> QED BY <1>4, <2>2, <2>3, RefreshersAreKept
<1> QED BY <1>3, <1>4

-----------------------------------------------------------------------------
(* A session that was not ended stays so only if no step ended it.         *)
LEMMA UncutBefore ==
  ASSUME TypeOK, [Next]_vars, NEW l \in Tokens, token[l] # NULL, cut'[l] = "no"
  PROVE  cut[l] = "no"
<1>1. cut \in [Tokens -> {"no", "late", "busy", "quiet"}]
      BY DEF TypeOK
<1>2. ASSUME NEW q \in Requests, LoginCommit(q) PROVE cut[l] = "no"
      BY <1>1, <1>2 DEF LoginCommit
<1>3. ASSUME NEW t \in Tokens, Logout(t) PROVE cut[l] = "no"
      BY <1>1, <1>3 DEF Logout, CutNow
<1>4. ASSUME NEW u \in Users, LogoutAll(u) \/ \E pw \in Passwords : ResetPassword(u, pw)
      PROVE  cut[l] = "no"
      BY <1>1, <1>4 DEF LogoutAll, ResetPassword, CutAll, CutNow
<1>5. ASSUME NEW q \in Requests,
             \/ Die(q) \/ RefreshCommit(q)
             \/ \E u \in Users : LoginRead(q, u)
             \/ \E t \in Tokens : RefreshRead(q, t)
      PROVE  cut[l] = "no"
      BY <1>5 DEF Die, RefreshCommit, LoginRead, RefreshRead
<1>6. ASSUME NEW t \in Tokens, Expire(t) PROVE cut[l] = "no"
      BY <1>6 DEF Expire
<1> QED BY <1>2, <1>3, <1>4, <1>5, <1>6 DEF Next, vars

(* Only a reset changes a password.                                        *)
LEMMA PasswordIsKept ==
  ASSUME [Next]_vars, \A u \in Users, pw \in Passwords : ~ResetPassword(u, pw)
  PROVE  UNCHANGED password
  BY DEF Next, vars, LoginRead, LoginCommit, RefreshRead, RefreshCommit, Logout, LogoutAll,
         Expire, Die

(* The password a session began with stays the user's, or the session was  *)
(* ended by the reset that replaced it.                                    *)
LEMMA SecretInductive ==
  ASSUME TypeOK, TypeOK', SessionInv, SecretInv, EndedInv', [Next]_vars
  PROVE  SecretInv'
<1> USE NullTokenAssumption
<1>1. ASSUME NEW t \in Tokens, token[t] # NULL, Live(t)',
             cut'[token'[t].login] \notin {"late", "busy"}
      PROVE  token'[t].password = password'[token'[t].user]
  <2>1. /\ token[t] \in Token /\ Live(t) /\ token'[t].login = token[t].login
        /\ token'[t].user = token[t].user /\ token'[t].password = token[t].password
        BY <1>1, RowsAreKept DEF Same, TypeOK
  <2>2. token[t].login \in Tokens /\ token[token[t].login] # NULL
        BY <1>1, <2>1 DEF SessionInv, Token
  <2>3. cut'[token[t].login] = "no"
        BY <1>1, <2>1, <2>2 DEF EndedInv, QuietCutsHold, TypeOK
  <2>4. token[t].password = password[token[t].user]
        BY <2>1, <2>2, <2>3, UncutBefore DEF SecretInv, OldPasswordIsOut
  <2>5. ASSUME NEW u \in Users, NEW pw \in Passwords, ResetPassword(u, pw)
        PROVE  token[t].user # u
    <3>1. token' = RevokeAll(u)
          BY <2>5 DEF ResetPassword
    <3>2. SUFFICES ASSUME token[t].user = u PROVE ~Live(t)'
          BY <1>1
    <3>3. token'[t] = [token[t] EXCEPT !.revoked = TRUE]
          BY <2>1, <3>1, <3>2 DEF RevokeAll
    <3>4. token'[t].revoked
          BY <2>1, <3>3 DEF Token
    <3> QED BY <3>4 DEF Live
  <2>6. password'[token[t].user] = password[token[t].user]
    <3>1. CASE \E u \in Users, pw \in Passwords : ResetPassword(u, pw)
      <4>1. PICK u \in Users, pw \in Passwords : ResetPassword(u, pw)
            BY <3>1
      <4>2. password' = [password EXCEPT ![u] = pw] /\ token[t].user # u
            BY <2>5, <4>1 DEF ResetPassword
      <4>3. token[t].user \in Users /\ password \in [Users -> Passwords]
            BY <2>1 DEF TypeOK, Token
      <4> QED BY ONLY <4>2, <4>3
    <3>2. CASE \A u \in Users, pw \in Passwords : ~ResetPassword(u, pw)
          BY <3>2, PasswordIsKept
    <3> QED BY <3>1, <3>2
  <2> QED BY <2>1, <2>4, <2>6
<1>2. ASSUME NEW q \in Requests, LoginCommit(q) \/ RefreshCommit(q),
             NEW t \in Tokens, Inserts(q, t),
             cut'[token'[t].login] \notin {"late", "busy"}
      PROVE  token'[t].password = password'[token'[t].user]
  <2>1. CASE LoginCommit(q) /\ token'[t] = Row(who[q], t, secret[q])
                            /\ cut' = [cut EXCEPT ![t] = IF late[q] THEN "late" ELSE "no"]
    <3>1. ~late[q]
          BY <1>2, <2>1 DEF Row, TypeOK
    <3> QED BY <2>1, <3>1 DEF Row, LoginCommit, SecretInv
  <2>2. CASE RefreshCommit(q) /\ UNCHANGED cut
             /\ token'[t] = Row(token[using[q]].user, token[using[q]].login,
                                token[using[q]].password)
    <3>1. /\ token'[t].password = token[using[q]].password
          /\ token'[t].user = token[using[q]].user
          /\ token'[t].login = token[using[q]].login
          BY ONLY <2>2 DEF Row
    <3>2. step[q] = "refresh" /\ UNCHANGED password
          BY <2>2 DEF RefreshCommit
    <3> QED BY <1>2, <2>2, <3>1, <3>2 DEF SecretInv
  <2> QED BY <1>2, <2>1, <2>2 DEF Inserts
<1>3. OldPasswordIsOut'
  <2>1. SUFFICES ASSUME NEW t \in Tokens, Live(t)', cut'[token'[t].login] \notin {"late", "busy"}
                 PROVE  token'[t].password = password'[token'[t].user]
        BY DEF OldPasswordIsOut
  <2>2. token'[t] # NULL
        BY <2>1 DEF Live
  <2>3. CASE \E q \in Requests : LoginCommit(q) \/ RefreshCommit(q)
        BY <1>1, <1>2, <2>1, <2>2, <2>3, OneRowInserted DEF Inserts
  <2>4. CASE \A q \in Requests : ~LoginCommit(q) /\ ~RefreshCommit(q)
        BY <1>1, <2>1, <2>2, <2>4, NoRowInserted
  <2> QED BY <2>3, <2>4
<1>4. ASSUME NEW q \in Requests, step'[q] = "login", ~late'[q]
      PROVE  secret'[q] = password'[who'[q]]
  <2> USE DEF TypeOK, SecretInv, Open, Close
  <2>1. ASSUME NEW r \in Requests, NEW u \in Users, LoginRead(r, u)
        PROVE  secret'[q] = password'[who'[q]]
        BY <1>4, <2>1 DEF LoginRead
  <2>2. ASSUME NEW r \in Requests, NEW t \in Tokens, RefreshRead(r, t)
        PROVE  secret'[q] = password'[who'[q]]
        BY <1>4, <2>2 DEF RefreshRead
  <2>3. ASSUME NEW r \in Requests, LoginCommit(r) \/ RefreshCommit(r) \/ Die(r)
        PROVE  secret'[q] = password'[who'[q]]
        BY <1>4, <2>3 DEF LoginCommit, RefreshCommit, Die
  <2>4. ASSUME NEW u \in Users, NEW pw \in Passwords, ResetPassword(u, pw)
        PROVE  secret'[q] = password'[who'[q]]
        BY <1>4, <2>4 DEF ResetPassword
  <2>5. ASSUME UNCHANGED <<password, step, who, secret, late>>
        PROVE  secret'[q] = password'[who'[q]]
        BY <1>4, <2>5
  <2>6. ASSUME NEW t \in Tokens, Logout(t) \/ Expire(t)
        PROVE  UNCHANGED <<password, step, who, secret, late>>
        BY <2>6 DEF Logout, Expire
  <2>7. ASSUME NEW u \in Users, LogoutAll(u)
        PROVE  UNCHANGED <<password, step, who, secret, late>>
        BY <2>7 DEF LogoutAll
  <2>8. UNCHANGED vars => UNCHANGED <<password, step, who, secret, late>>
        BY DEF vars
  <2> HIDE DEF TypeOK, SecretInv, Open, Close
  <2> QED BY <2>1, <2>2, <2>3, <2>4, <2>5, <2>6, <2>7, <2>8 DEF Next
<1>5. ASSUME NEW q \in Requests, step'[q] = "refresh",
             cut'[token'[using'[q]].login] \notin {"late", "busy"}
      PROVE  token'[using'[q]].password = password'[token'[using'[q]].user]
  <2> DEFINE t == using'[q]
  <2>1. t \in Tokens /\ token[t] # NULL /\ token[t] \in Token
        BY <1>5, RefreshersAreKept DEF TypeOK
  <2>2. /\ token'[t].login = token[t].login /\ token'[t].user = token[t].user
        /\ token'[t].password = token[t].password
        BY <2>1, RowsAreKept DEF Same
  <2>3. token[t].login \in Tokens /\ token[token[t].login] # NULL
        /\ token[token[t].login].user = token[t].user
        BY <2>1 DEF SessionInv, Token
  <2>4. cut'[token[t].login] = "no"
        BY <1>5, <2>2, <2>3 DEF EndedInv, TypeOK
  <2>5. cut[token[t].login] = "no"
        BY <2>3, <2>4, UncutBefore
  <2>6. CASE step[q] = "refresh" /\ t = using[q]
    <3>1. token[t].password = password[token[t].user]
          BY <2>5, <2>6 DEF SecretInv
    <3>2. ASSUME NEW u \in Users, NEW pw \in Passwords, ResetPassword(u, pw)
          PROVE  token[t].user # u
          BY <2>3, <2>4, <2>6, <3>2 DEF ResetPassword, CutAll, CutNow, Refreshing
    <3>3. password'[token[t].user] = password[token[t].user]
      <4>1. CASE \E u \in Users, pw \in Passwords : ResetPassword(u, pw)
        <5>1. PICK u \in Users, pw \in Passwords : ResetPassword(u, pw)
              BY <4>1
        <5>2. password' = [password EXCEPT ![u] = pw] /\ token[t].user # u
              BY <5>1, <3>2 DEF ResetPassword
        <5>3. token[t].user \in Users /\ password \in [Users -> Passwords]
              BY <2>1 DEF TypeOK, Token
        <5> QED BY ONLY <5>2, <5>3
      <4>2. CASE \A u \in Users, pw \in Passwords : ~ResetPassword(u, pw)
            BY <4>2, PasswordIsKept
      <4> QED BY <4>1, <4>2
    <3> QED BY <2>2, <3>1, <3>3
  <2>7. CASE RefreshRead(q, t)
    <3>1. Live(t) /\ password' = password
          BY <2>7 DEF RefreshRead
    <3>2. token[t].password = password[token[t].user]
          BY <2>1, <2>5, <3>1 DEF SecretInv, OldPasswordIsOut
    <3> QED BY <2>2, <3>1, <3>2
  <2> QED BY <1>5, <2>6, <2>7, RefreshersAreKept
<1> QED BY <1>3, <1>4, <1>5 DEF SecretInv

(* No two open requests are for one patient user.                          *)
LEMMA OneOpenRequest ==
  ASSUME TypeOK, TurnsInv, [Next]_vars, NEW q \in Requests, NEW r \in Requests,
         step'[q] # "idle", step'[r] # "idle", who'[q] = who'[r], who'[q] \in Patient
  PROVE  q = r
<1> USE DEF TypeOK, TurnsInv, Free, Open, Close
<1>1. ASSUME NEW p \in Requests, NEW u \in Users, LoginRead(p, u) PROVE q = r
      BY <1>1 DEF LoginRead
<1>2. ASSUME NEW p \in Requests, NEW t \in Tokens, RefreshRead(p, t) PROVE q = r
  <2>1. /\ step' = [step EXCEPT ![p] = "refresh"]
        /\ who' = [who EXCEPT ![p] = token[t].user]
        /\ token[t].user \in Patient => \A x \in Requests : who[x] # token[t].user
        BY <1>2 DEF RefreshRead
  <2> QED BY <2>1
<1>3. ASSUME NEW p \in Requests, LoginCommit(p) \/ RefreshCommit(p) \/ Die(p) PROVE q = r
      BY <1>3 DEF LoginCommit, RefreshCommit, Die
<1>4. ASSUME UNCHANGED <<step, who>> PROVE q = r
      BY <1>4
<1>5. ASSUME NEW t \in Tokens, Logout(t) \/ Expire(t) PROVE UNCHANGED <<step, who>>
      BY <1>5 DEF Logout, Expire
<1>6. ASSUME NEW u \in Users, LogoutAll(u) \/ \E pw \in Passwords : ResetPassword(u, pw)
      PROVE  UNCHANGED <<step, who>>
      BY <1>6 DEF LogoutAll, ResetPassword
<1>7. UNCHANGED vars => UNCHANGED <<step, who>>
      BY DEF vars
<1> HIDE DEF TypeOK, TurnsInv, Free, Open, Close
<1> QED BY <1>1, <1>2, <1>3, <1>4, <1>5, <1>6, <1>7 DEF Next

(* A row that a login or a refresh inserts for a patient user is the only  *)
(* live one of its session, and no refresh of that is left in flight.      *)
LEMMA InsertedIsAlone ==
  ASSUME TypeOK, SessionInv, TurnsInv, [Next]_vars, NEW r \in Requests,
         LoginCommit(r) \/ RefreshCommit(r), NEW t \in Tokens, Inserts(r, t),
         token'[t].user \in Patient
  PROVE  /\ \A s \in Tokens : Live(s)' /\ token'[s].login = token'[t].login => s = t
         /\ \A q \in Requests :
              step'[q] = "refresh" => token'[using'[q]].login # token'[t].login
<1> USE NullTokenAssumption
<1>1. ASSUME NEW s \in Tokens, token[s] # NULL, LoginCommit(r),
             token'[t] = Row(who[r], t, secret[r])
      PROVE  token'[s].login # token'[t].login
      BY <1>1, RowsAreKept DEF Row, Same, SessionInv, Inserts
<1>2. ASSUME NEW s \in Tokens, token[s] # NULL, Live(s)'
      PROVE  token'[s].login # token'[t].login
  <2>1. Live(s) /\ token'[s].login = token[s].login
        BY <1>2, RowsAreKept DEF Same
  <2>2. CASE /\ RefreshCommit(r) /\ token'[using[r]].revoked
             /\ token'[t] = Row(token[using[r]].user, token[using[r]].login,
                                token[using[r]].password)
    <3>1. SUFFICES ASSUME token[s].login = token[using[r]].login PROVE FALSE
          BY <2>1, <2>2 DEF Row
    <3>2. who[r] \in Patient
          BY <2>2 DEF Row, SessionInv, RefreshCommit
    <3>3. s = using[r]
          BY <2>1, <2>2, <3>1, <3>2 DEF TurnsInv, RefreshCommit
    <3> QED BY <1>2, <2>2, <3>3 DEF Live
  <2> QED BY <1>1, <1>2, <2>2 DEF Inserts
<1>3. ASSUME NEW s \in Tokens, Live(s)', token'[s].login = token'[t].login PROVE s = t
      BY <1>2, <1>3 DEF Inserts, Live
<1>4. ASSUME NEW q \in Requests, step'[q] = "refresh"
      PROVE  token'[using'[q]].login # token'[t].login
  <2>1. using'[q] \in Tokens /\ token[using'[q]] # NULL
        BY <1>4, RefreshersAreKept
  <2>2. CASE /\ RefreshCommit(r)
             /\ token'[t] = Row(token[using[r]].user, token[using[r]].login,
                                token[using[r]].password)
    <3>1. step[r] = "refresh" /\ step'[r] = "idle" /\ q # r
          BY <1>4, <2>2 DEF RefreshCommit, Close, Open, TypeOK
    <3>2. step[q] = "refresh" /\ using'[q] = using[q]
          BY <1>4, <2>2, <3>1, RefreshersAreKept DEF RefreshCommit, RefreshRead, Close, Open, TypeOK
    <3>3. token[using[q]].user # token[using[r]].user
          BY <2>2, <3>1, <3>2 DEF SessionInv, TurnsInv, Row
    <3>4. using[r] \in Tokens /\ token[using[r]] # NULL
          BY <3>1 DEF TypeOK
    <3>5. token[using[q]].login # token[using[r]].login
          BY <2>1, <3>2, <3>3, <3>4 DEF SessionInv
    <3> QED BY <2>1, <2>2, <3>2, <3>5, RowsAreKept DEF Same, Row
  <2> QED BY <1>1, <2>1, <2>2 DEF Inserts
<1> QED BY <1>3, <1>4

(* What a user who waits for answers adds is inductive.                    *)
LEMMA TurnsInductive ==
  ASSUME TypeOK, SessionInv, SessionInv', TurnsInv, [Next]_vars
  PROVE  TurnsInv'
<1>1. ASSUME NEW s \in Tokens, NEW t \in Tokens, token[s] # NULL, token[t] # NULL,
             Live(s)', Live(t)', token'[s].login = token'[t].login, token'[s].user \in Patient
      PROVE  s = t
      BY <1>1, RowsAreKept DEF TurnsInv, OneLiveTokenInTurn, Same
<1>2. ASSUME NEW q \in Requests, NEW t \in Tokens, token[t] # NULL,
             step'[q] = "refresh", who'[q] \in Patient,
             Live(t)', token'[t].login = token'[using'[q]].login
      PROVE  t = using'[q]
  <2>1. /\ using'[q] \in Tokens /\ token[using'[q]] # NULL
        /\ \/ step[q] = "refresh" /\ using'[q] = using[q] /\ who[q] \in Patient
           \/ Live(using'[q]) /\ token[using'[q]].user \in Patient
        BY <1>2, RefreshersAreKept DEF RefreshRead
  <2>2. Live(t) /\ token[t].login = token[using'[q]].login
        BY <1>2, <2>1, RowsAreKept DEF Same
  <2> QED BY <2>1, <2>2 DEF TurnsInv, OneLiveTokenInTurn
<1>3. ASSUME NEW s \in Tokens, Live(s)', token[s] = NULL
      PROVE  token'[s].user \in Patient =>
               /\ \A t \in Tokens : Live(t)' /\ token'[t].login = token'[s].login => t = s
               /\ \A q \in Requests :
                    step'[q] = "refresh" => token'[using'[q]].login # token'[s].login
  <2>1. PICK r \in Requests : LoginCommit(r) \/ RefreshCommit(r)
        BY <1>3, NoRowInserted DEF Live
  <2>2. Inserts(r, s)
        BY <1>3, <2>1, OneRowInserted DEF Inserts, Live
  <2> QED BY <2>1, <2>2, InsertedIsAlone
<1>4. ASSUME NEW s \in Tokens, NEW t \in Tokens, Live(s)', Live(t)',
             token'[s].login = token'[t].login
      PROVE  token'[s].user = token'[t].user
      BY <1>4 DEF SessionInv, Live
<1>5. OneLiveTokenInTurn'
      BY <1>1, <1>3, <1>4 DEF OneLiveTokenInTurn
<1>6. ASSUME NEW q \in Requests, NEW t \in Tokens,
             step'[q] = "refresh", who'[q] \in Patient,
             Live(t)', token'[t].login = token'[using'[q]].login
      PROVE  t = using'[q]
  <2>1. using'[q] \in Tokens /\ token'[using'[q]] # NULL
        BY <1>6, RefreshersAreKept, RowsAreKept DEF Same
  <2>2. token'[t].user = who'[q]
        BY <1>6, <2>1 DEF SessionInv, Live
  <2> QED BY <1>2, <1>3, <1>6, <2>2
<1> QED BY <1>5, <1>6, OneOpenRequest DEF TurnsInv

-----------------------------------------------------------------------------
(* Nothing is live and nothing is in flight to begin with.                 *)
LEMMA InitInv == Init => TypeOK /\ SessionInv /\ EndedInv /\ SecretInv /\ TurnsInv
  BY NullAssumption DEF Init, TypeOK, SessionInv, EndedInv, SecretInv, TurnsInv,
     QuietCutsHold, OldPasswordIsOut, OneLiveTokenInTurn, Live

(* Logging out, logging out everywhere and a reset are final for a session *)
(* no refresh of which is in flight: no later request of anybody makes a   *)
(* token of it good again.                                                 *)
THEOREM TokensQuietCutsHold == Spec => []QuietCutsHold
<1>1. TypeOK /\ SessionInv /\ EndedInv /\ [Next]_vars => (TypeOK /\ SessionInv /\ EndedInv)'
      BY TypeInductive, SessionInductive, EndedInductive
<1>2. EndedInv => QuietCutsHold
      BY DEF EndedInv
<1> QED BY InitInv, <1>1, <1>2, PTL DEF Spec

(* A live token of a session that did not overlap the user's last reset    *)
(* was earned with the password the user has now.                          *)
THEOREM TokensOldPasswordIsOut == Spec => []OldPasswordIsOut
<1> DEFINE Inv == TypeOK /\ SessionInv /\ EndedInv /\ SecretInv
<1>1. Inv /\ [Next]_vars => Inv'
      BY TypeInductive, SessionInductive, EndedInductive, SecretInductive
<1>2. Inv => OldPasswordIsOut
      BY DEF SecretInv
<1>3. Init => Inv
      BY InitInv
<1> HIDE DEF Inv
<1> QED BY <1>1, <1>2, <1>3, PTL DEF Spec

(* A user who waits for each answer has one live token per session, so     *)
(* that a refreshed token that is presented again is always refused.       *)
THEOREM TokensOneLiveToken == Spec => []OneLiveTokenInTurn
<1> DEFINE Inv == TypeOK /\ SessionInv /\ TurnsInv
<1>1. Inv /\ [Next]_vars => Inv'
      BY TypeInductive, SessionInductive, TurnsInductive
<1>2. Inv => OneLiveTokenInTurn
      BY DEF TurnsInv
<1>3. Init => Inv
      BY InitInv
<1> HIDE DEF Inv
<1> QED BY <1>1, <1>2, <1>3, PTL DEF Spec
=============================================================================
