------------------------ MODULE RefreshTokensProofs ------------------------
(***************************************************************************)
(* Proofs about RefreshTokens, for any number of users, tokens and requests *)
(* and any lifetime.  The inductive invariant IInv says who holds the       *)
(* credential of a session: at most one unrevoked row or one refresh that   *)
(* is between its claim and its insert, never both, and nobody once the     *)
(* session has ended.                                                       *)
(* Then: the table implements SessionLedger; a session is one line of       *)
(* tokens; and a session is torn down only for a token that was spent or    *)
(* revoked.                                                                 *)
(***************************************************************************)
EXTENDS RefreshTokens, SetInduction, TLAPS

\* A row says of its token what the token was issued as.
RowsMatchBirth ==
    \A t \in Tokens : rows[t] # Null =>
        /\ birth[t] # Null
        /\ rows[t].user = birth[t].user
        /\ rows[t].expiresAt = birth[t].expiresAt

\* The first token of a session names it and was issued to the same user.
SessionsAreRooted ==
    \A t \in Tokens : birth[t] # Null =>
        /\ birth[birth[t].session] # Null
        /\ birth[birth[t].session].user = birth[t].user

\* What a request read, and what it inserted, was issued.
RequestsHoldIssued ==
    \A r \in Requests :
        /\ pc[r] = "new" => stored[r] = Null
        /\ stored[r] # Null => /\ birth[stored[r].id] # Null
                               /\ birth[stored[r].id].user = stored[r].user
        /\ pc[r] \in Awaits => stored[r] # Null
        /\ pc[r] = "chain" => issued[r] # Null

\* The requests that have claimed the token they were sent.
Claimed(r) == stored[r] # Null /\ pc[r] \in {"create", "chain", "200"}

\* What was claimed stays revoked; its successor is on record.
ClaimOK(r) ==
    LET t == stored[r].id
        n == issued[r]
    IN /\ ~Unrevoked(t)
       /\ pc[r] # "create" => /\ n # Null /\ birth[n] # Null
                              /\ birth[n].parent = t
                              /\ birth[n].user = birth[t].user
                              /\ birth[n].session = birth[t].session
       /\ pc[r] = "200" /\ rows[t] # Null => rows[t].replacedBy = n

\* A token is claimed once.
ClaimsAreExclusive ==
    \A r \in Requests : Claimed(r) =>
        /\ ClaimOK(r)
        /\ \A q \in Requests :
              Claimed(q) /\ stored[q].id = stored[r].id => q = r

\* The credential of a session is one row, or one rotation in flight.
OneHolder ==
    /\ \A a, b \in Tokens :
          Unrevoked(a) /\ Unrevoked(b) /\ birth[a].session = birth[b].session
              => a = b
    /\ \A r \in Requests, t \in Tokens :
          pc[r] = "create" /\ Unrevoked(t)
              => birth[t].session # birth[stored[r].id].session
    /\ \A q, r \in Requests :
          /\ pc[q] = "create" /\ pc[r] = "create"
          /\ birth[stored[q].id].session = birth[stored[r].id].session
          => q = r

\* Nobody holds the credential of a session that has ended.
NoHolder(s) ==
    /\ birth[s] # Null
    /\ \A t \in Tokens : Unrevoked(t) => birth[t].session # s
    /\ ~Rotating(s)

EndedHasNoHolder == \A s \in ended : NoHolder(s)

IInv ==
    /\ TypeOK
    /\ RowsMatchBirth
    /\ SessionsAreRooted
    /\ RequestsHoldIssued
    /\ ClaimsAreExclusive
    /\ OneHolder
    /\ EndedHasNoHolder
    /\ ReplayStaysDetectable

-----------------------------------------------------------------------------
(* The constants and every state variable keep their types, and what the    *)
(* handlers hold in local variables refers to tokens that were issued.      *)
LEMMA TypeInit == Init => TypeOK
BY TimeAssumption DEF Init, TypeOK

(* No statement, failure, cleanup or tick leaves the types.                 *)
LEMMA TypeStep ==
    ASSUME TypeOK, RowsMatchBirth, RequestsHoldIssued, [Next]_vars
    PROVE  TypeOK'
<1> USE LifetimeAssumption, TimeAssumption, NullAssumption
<1>sessions. \A u : SessionsOf(u) \subseteq Tokens
  BY DEF TypeOK, SessionsOf, Birth
<1>create. ASSUME NEW r \in Requests, NEW t \in Tokens, NEW u \in Users,
                  NEW s \in Tokens, NEW p \in Tokens \cup {Null},
                  CreateRefreshToken(r, t, u, s, p)
           PROVE  /\ rows' \in [Tokens -> Row \cup {Null}]
                  /\ birth' \in [Tokens -> Birth \cup {Null}]
                  /\ issued' \in [Requests -> Tokens \cup {Null}]
  <2>1. now + RefreshLifetime \in Time
    BY DEF TypeOK, Time
  <2> QED
    BY <1>create, <2>1 DEF CreateRefreshToken, TypeOK, Row, Birth
<1>revoke. ASSUME NEW u \in Users, RevokeAllForUser(u)
           PROVE  /\ rows' \in [Tokens -> Row \cup {Null}]
                  /\ swept' \in SUBSET Tokens
                  /\ ended' \in SUBSET Tokens
  <2>1. ASSUME NEW t \in Tokens, Unrevoked(t)
        PROVE  [rows[t] EXCEPT !.revoked = TRUE] \in Row
    <3>1. rows[t] \in Row
      BY <2>1 DEF Unrevoked, TypeOK
    <3> QED
      BY <3>1 DEF Row
  <2>2. rows' \in [Tokens -> Row \cup {Null}]
    BY <1>revoke, <2>1 DEF RevokeAllForUser, TypeOK
  <2> QED
    BY <1>revoke, <1>sessions, <2>2 DEF RevokeAllForUser, TypeOK
<1>1. ASSUME NEW r \in Requests, NEW u \in Users, NEW t \in Tokens,
             IssueTokens(r, u, t)
      PROVE  TypeOK'
  BY <1>1, <1>create DEF IssueTokens, Answer, TypeOK, Answers
<1>2. ASSUME NEW r \in Requests, NEW t \in Tokens, RefreshUnknown(r, t)
      PROVE  TypeOK'
  BY <1>2 DEF RefreshUnknown, Answer, TypeOK, Answers, history
<1>3. ASSUME NEW r \in Requests, NEW t \in Tokens,
             NEW next \in Awaits \cup Answers, RefreshFound(r, t, next)
      PROVE  TypeOK'
  BY <1>3 DEF RefreshFound, Answer, TypeOK, Stored, Row, history
<1>4. ASSUME NEW r \in Requests, NEW t \in Tokens, RefreshCreate(r, t)
      PROVE  TypeOK'
  <2>1. /\ stored[r].id \in Tokens /\ stored[r].user \in Users
        /\ birth[stored[r].id].session \in Tokens
    BY <1>4 DEF RefreshCreate, RequestsHoldIssued, TypeOK, Stored, Birth, Awaits
  <2> QED
    BY <1>4, <1>create, <2>1 DEF RefreshCreate, Answer, TypeOK, Awaits
<1>5. ASSUME NEW r \in Requests, RefreshClaim(r)
      PROVE  TypeOK'
  <2>1. stored[r].id \in Tokens
    BY <1>5 DEF RefreshClaim, RequestsHoldIssued, TypeOK, Stored, Awaits
  <2>2. rows[stored[r].id] \in Row
    BY <1>5, <2>1 DEF RefreshClaim, TypeOK, Unrevoked
  <2> QED
    BY <1>5, <2>1, <2>2 DEF RefreshClaim, Answer, TypeOK, Awaits, Row
<1>6. ASSUME NEW r \in Requests, RefreshChain(r)
      PROVE  TypeOK'
  <2>1. stored[r].id \in Tokens /\ issued[r] \in Tokens
    BY <1>6 DEF RefreshChain, RequestsHoldIssued, TypeOK, Stored, Awaits
  <2> QED
    BY <1>6, <2>1 DEF RefreshChain, Answer, TypeOK, Answers, Row
<1>7. ASSUME NEW r \in Requests, RefreshSweep(r)
      PROVE  TypeOK'
  <2>1. stored[r].user \in Users
    BY <1>7 DEF RefreshSweep, RequestsHoldIssued, TypeOK, Stored, Awaits
  <2> QED
    BY <1>7, <1>revoke, <2>1 DEF RefreshSweep, Answer, TypeOK, Answers
<1>8. ASSUME NEW r \in Requests,
             RefreshClaimLost(r) \/ RefreshChainMissing(r) \/ Abort(r)
      PROVE  TypeOK'
  BY <1>8 DEF RefreshClaimLost, RefreshChainMissing, Abort, Answer, TypeOK,
              Answers, history
<1>9. ASSUME NEW t \in Tokens, Logout(t)
      PROVE  TypeOK'
  <2>1. rows[t] \in Row /\ birth[t] \in Birth
    BY <1>9 DEF Logout, Unrevoked, TypeOK, RowsMatchBirth
  <2> QED
    BY <1>9, <2>1 DEF Logout, TypeOK, Row, Birth
<1>10. ASSUME NEW u \in Users, LogoutAll(u)
       PROVE  TypeOK'
  BY <1>10, <1>revoke DEF LogoutAll, TypeOK
<1>11. CASE RemoveExpired
  BY <1>11 DEF RemoveExpired, TypeOK, history
<1>12. CASE Tick
  BY <1>12 DEF Tick, TypeOK, history
<1>13. CASE UNCHANGED vars
  BY <1>13 DEF vars, codeVars, history, TypeOK
<1> QED
  BY <1>1, <1>2, <1>3, <1>4, <1>5, <1>6, <1>7, <1>8, <1>9, <1>10, <1>11,
     <1>12, <1>13
  DEF Next, Refresh, RefreshReused, RefreshExpired, RefreshFresh, Awaits, Answers

(* Two steps that many cases below share: a statement that inserts a token  *)
(* leaves every other token's row and origin alone, and one that revokes    *)
(* leaves the users and expiries of the rows alone.                         *)
LEMMA CreateEffect ==
    ASSUME TypeOK, NEW r \in Requests, NEW t \in Tokens, NEW u \in Users,
           NEW s \in Tokens, NEW p \in Tokens \cup {Null},
           CreateRefreshToken(r, t, u, s, p)
    PROVE  /\ birth[t] = Null /\ birth'[t] # Null
           /\ birth'[t].user = u /\ birth'[t].session = s /\ birth'[t].parent = p
           /\ birth'[t].expiresAt = now + RefreshLifetime
           /\ rows'[t] # Null /\ ~rows'[t].revoked /\ rows'[t].user = u
           /\ rows'[t].expiresAt = now + RefreshLifetime
           /\ \A x \in Tokens \ {t} : rows'[x] = rows[x] /\ birth'[x] = birth[x]
           /\ issued'[r] = t
           /\ \A q \in Requests \ {r} : issued'[q] = issued[q]
<1> USE LifetimeAssumption, TimeAssumption, NullAssumption
<1>1. now + RefreshLifetime \in Time
  BY DEF TypeOK, Time
<1>2. /\ birth[t] = Null
      /\ rows'[t] = [user |-> u, expiresAt |-> now + RefreshLifetime,
                     revoked |-> FALSE, replacedBy |-> Null]
      /\ birth'[t] = [user |-> u, expiresAt |-> now + RefreshLifetime,
                      session |-> s, parent |-> p]
      /\ \A x \in Tokens \ {t} : rows'[x] = rows[x] /\ birth'[x] = birth[x]
      /\ issued'[r] = t
      /\ \A q \in Requests \ {r} : issued'[q] = issued[q]
  BY DEF CreateRefreshToken, TypeOK
<1>3. rows'[t] \in Row /\ birth'[t] \in Birth
  BY <1>1, <1>2 DEF Row, Birth
<1>4. rows'[t] # Null /\ birth'[t] # Null
  BY <1>3
<1>5. /\ birth'[t].user = u /\ birth'[t].session = s /\ birth'[t].parent = p
      /\ birth'[t].expiresAt = now + RefreshLifetime
      /\ ~rows'[t].revoked /\ rows'[t].user = u
      /\ rows'[t].expiresAt = now + RefreshLifetime
  BY <1>2
<1> QED
  BY <1>2, <1>4, <1>5

(* A sweep revokes the unrevoked rows of one user and changes no other      *)
(* field.                                                                   *)
LEMMA RevokeEffect ==
    ASSUME TypeOK, NEW u \in Users, RevokeAllForUser(u)
    PROVE  \A t \in Tokens :
             /\ (rows'[t] = Null) = (rows[t] = Null)
             /\ rows[t] # Null => /\ rows'[t].user = rows[t].user
                                  /\ rows'[t].expiresAt = rows[t].expiresAt
                                  /\ rows'[t].replacedBy = rows[t].replacedBy
             /\ Unrevoked(t)' = (Unrevoked(t) /\ rows[t].user # u)
<1> USE NullAssumption
<1> TAKE t \in Tokens
<1>1. CASE Unrevoked(t) /\ rows[t].user = u
  <2>1. rows'[t] = [rows[t] EXCEPT !.revoked = TRUE]
    BY <1>1 DEF RevokeAllForUser
  <2>2. rows[t] \in Row
    BY <1>1 DEF Unrevoked, TypeOK
  <2>3. rows'[t] \in Row
    BY <2>1, <2>2 DEF Row
  <2> QED
    BY <1>1, <2>1, <2>2, <2>3 DEF Unrevoked, Row
<1>2. CASE ~(Unrevoked(t) /\ rows[t].user = u)
  <2>1. rows'[t] = rows[t]
    BY <1>2 DEF RevokeAllForUser
  <2> QED
    BY <1>2, <2>1 DEF Unrevoked
<1> QED
  BY <1>1, <1>2

(* Revoking a row changes revokedAt only.                                   *)
LEMMA RevokedRow ==
    ASSUME NEW row \in Row
    PROVE  LET revoked == [row EXCEPT !.revoked = TRUE]
           IN /\ revoked \in Row /\ revoked # Null /\ revoked.revoked
              /\ revoked.user = row.user
              /\ revoked.expiresAt = row.expiresAt
              /\ revoked.replacedBy = row.replacedBy
<1>1. [row EXCEPT !.revoked = TRUE] \in Row
  BY DEF Row
<1> QED
  BY <1>1, NullAssumption DEF Row

(* A claim, like a logout, revokes one row and changes no other field.      *)
LEMMA RevokeOneEffect ==
    ASSUME TypeOK, NEW t \in Tokens, Unrevoked(t),
           rows' = [rows EXCEPT ![t].revoked = TRUE]
    PROVE  /\ rows'[t] # Null /\ rows'[t].revoked
           /\ rows'[t].user = rows[t].user
           /\ rows'[t].expiresAt = rows[t].expiresAt
           /\ rows'[t].replacedBy = rows[t].replacedBy
           /\ \A x \in Tokens \ {t} : rows'[x] = rows[x]
<1> USE NullAssumption
<1>1. rows[t] \in Row
  BY DEF Unrevoked, TypeOK
<1>2. /\ rows'[t] = [rows[t] EXCEPT !.revoked = TRUE]
      /\ \A x \in Tokens \ {t} : rows'[x] = rows[x]
  BY DEF TypeOK
<1> QED
  BY <1>1, <1>2, RevokedRow

(* Chaining writes replacedBy and does not touch revokedAt.                 *)
LEMMA ChainEffect ==
    ASSUME TypeOK, RequestsHoldIssued, NEW r \in Requests, RefreshChain(r)
    PROVE  LET t == stored[r].id
           IN /\ t \in Tokens /\ issued[r] \in Tokens
              /\ rows[t] # Null /\ rows'[t] # Null
              /\ rows'[t].revoked = rows[t].revoked
              /\ rows'[t].user = rows[t].user
              /\ rows'[t].expiresAt = rows[t].expiresAt
              /\ rows'[t].replacedBy = issued[r]
              /\ \A x \in Tokens \ {t} : rows'[x] = rows[x]
<1> USE NullAssumption
<1> DEFINE t == stored[r].id
<1>1. t \in Tokens /\ issued[r] \in Tokens /\ rows[t] \in Row
  BY DEF RefreshChain, RequestsHoldIssued, TypeOK, Stored, Awaits
<1>2. /\ rows'[t] = [rows[t] EXCEPT !.replacedBy = issued[r]]
      /\ \A x \in Tokens \ {t} : rows'[x] = rows[x]
  BY <1>1 DEF TypeOK, RefreshChain
<1>3. rows'[t] \in Row
  BY <1>1, <1>2 DEF Row
<1> QED
  BY <1>1, <1>2, <1>3 DEF Row

(* The steps that issue, spend, revoke and chain nothing.                   *)
Quiet ==
    \/ \E r \in Requests : \/ RefreshClaimLost(r)
                            \/ RefreshChainMissing(r)
                            \/ Abort(r)
                            \/ \E t \in Tokens : RefreshUnknown(r, t)
    \/ RemoveExpired
    \/ Tick
    \/ UNCHANGED vars

(* A quiet step may delete rows and end requests, and changes nothing else. *)
LEMMA QuietEffect ==
    ASSUME TypeOK, Quiet
    PROVE  /\ UNCHANGED <<stored, issued, birth, ended>>
           /\ \A t \in Tokens : rows'[t] = rows[t] \/ rows'[t] = Null
           /\ \A r \in Requests : pc'[r] = pc[r] \/ pc'[r] \in {"401", "500"}
<1>1. UNCHANGED <<stored, issued, birth, ended>>
  BY DEF Quiet, RefreshClaimLost, RefreshChainMissing, Abort, RefreshUnknown,
         RemoveExpired, Tick, vars, codeVars, history
<1>2. \A t \in Tokens : rows'[t] = rows[t] \/ rows'[t] = Null
  BY DEF Quiet, RefreshClaimLost, RefreshChainMissing, Abort, RefreshUnknown,
         RemoveExpired, Tick, vars, codeVars, history
<1>3. \A r \in Requests : pc'[r] = pc[r] \/ pc'[r] \in {"401", "500"}
  BY DEF Quiet, RefreshClaimLost, RefreshChainMissing, Abort, RefreshUnknown,
         RemoveExpired, Tick, vars, codeVars, history, Answer, TypeOK
<1> QED
  BY <1>1, <1>2, <1>3

(* Every step is quiet or one of the others.                                *)
LEMMA StepKinds ==
    ASSUME [Next]_vars
    PROVE  \/ Quiet
           \/ \E r \in Requests, u \in Users, t \in Tokens : IssueTokens(r, u, t)
           \/ \E r \in Requests, t \in Tokens, next \in {"claim", "sweep", "401"} :
                 RefreshFound(r, t, next)
           \/ \E r \in Requests : RefreshClaim(r)
           \/ \E r \in Requests, t \in Tokens : RefreshCreate(r, t)
           \/ \E r \in Requests : RefreshChain(r)
           \/ \E r \in Requests : RefreshSweep(r)
           \/ \E t \in Tokens : Logout(t)
           \/ \E u \in Users : LogoutAll(u)
BY DEF Next, Refresh, Quiet, RefreshReused, RefreshExpired, RefreshFresh

-----------------------------------------------------------------------------
(* Every row, session and request in flight refers to a token that was      *)
(* issued, and agrees with what it was issued as.                           *)
Issued == RowsMatchBirth /\ SessionsAreRooted /\ RequestsHoldIssued

(* Every step keeps what rows, sessions and requests say of issued tokens.  *)
LEMMA IssuedStep ==
    ASSUME TypeOK, Issued, [Next]_vars
    PROVE  Issued'
<1> USE NullAssumption DEF Issued
<1>1. CASE Quiet
  <2>1. RowsMatchBirth' /\ SessionsAreRooted'
    BY <1>1, QuietEffect DEF RowsMatchBirth, SessionsAreRooted
  <2>2. RequestsHoldIssued'
    BY <1>1, QuietEffect DEF RequestsHoldIssued, Awaits
  <2> QED
    BY <2>1, <2>2
<1>2. ASSUME NEW r \in Requests, NEW u \in Users, NEW t \in Tokens,
             IssueTokens(r, u, t)
      PROVE  Issued'
  <2>1. CreateRefreshToken(r, t, u, t, Null)
    BY <1>2 DEF IssueTokens
  <2>2. RowsMatchBirth'
    BY <2>1, CreateEffect DEF RowsMatchBirth
  <2>3. SessionsAreRooted'
    BY <2>1, CreateEffect DEF SessionsAreRooted, TypeOK, Birth
  <2>4. RequestsHoldIssued'
    BY <1>2, <2>1, CreateEffect
    DEF RequestsHoldIssued, IssueTokens, Answer, TypeOK, Stored, Awaits
  <2> QED
    BY <2>2, <2>3, <2>4
<1>3. ASSUME NEW r \in Requests, NEW t \in Tokens,
             NEW next \in {"claim", "sweep", "401"}, RefreshFound(r, t, next)
      PROVE  Issued'
  <2>1. RowsMatchBirth' /\ SessionsAreRooted'
    BY <1>3 DEF RowsMatchBirth, SessionsAreRooted, RefreshFound, history
  <2>2. stored'[r] = [id |-> t, user |-> rows[t].user] /\ stored'[r] \in Stored
    BY <1>3 DEF RefreshFound, TypeOK, Stored, Row
  <2>3. RequestsHoldIssued'
    BY <1>3, <2>2
    DEF RequestsHoldIssued, RowsMatchBirth, RefreshFound, Answer, TypeOK, Awaits,
        history
  <2> QED
    BY <2>1, <2>3
<1>4. ASSUME NEW r \in Requests, NEW t \in Tokens, RefreshCreate(r, t)
      PROVE  Issued'
  <2> DEFINE s == birth[stored[r].id].session
  <2>1. /\ stored[r].id \in Tokens /\ stored[r].user \in Users /\ s \in Tokens
        /\ birth[stored[r].id] # Null
        /\ birth[stored[r].id].user = stored[r].user
    BY <1>4 DEF RefreshCreate, RequestsHoldIssued, TypeOK, Stored, Birth, Awaits
  <2>2. CreateRefreshToken(r, t, stored[r].user, s, stored[r].id)
    BY <1>4 DEF RefreshCreate
  <2> HIDE DEF s
  <2>3. RowsMatchBirth'
    BY <2>1, <2>2, CreateEffect DEF RowsMatchBirth
  <2>4. birth[s] # Null /\ birth[s].user = stored[r].user
    BY <2>1 DEF SessionsAreRooted, s
  <2>5. SessionsAreRooted'
    <3>1. /\ birth[t] = Null /\ birth'[t].session = s
          /\ birth'[t].user = stored[r].user
          /\ \A x \in Tokens \ {t} : birth'[x] = birth[x]
      BY <2>1, <2>2, CreateEffect
    <3>2. \A x \in Tokens : birth[x] # Null => birth[x].session \in Tokens
      BY DEF TypeOK, Birth
    <3> QED
      BY <2>1, <2>4, <3>1, <3>2 DEF SessionsAreRooted
  <2>6. RequestsHoldIssued'
    BY <1>4, <2>1, <2>2, CreateEffect
    DEF RequestsHoldIssued, RefreshCreate, Answer, TypeOK, Stored, Awaits
  <2> QED
    BY <2>3, <2>5, <2>6
<1>5. ASSUME NEW r \in Requests, RefreshClaim(r)
      PROVE  Issued'
  <2>1. stored[r].id \in Tokens
    BY <1>5 DEF RefreshClaim, RequestsHoldIssued, TypeOK, Stored, Awaits
  <2>2. RowsMatchBirth' /\ SessionsAreRooted'
    BY <1>5, <2>1, RevokeOneEffect
    DEF RefreshClaim, RowsMatchBirth, SessionsAreRooted, Unrevoked
  <2>3. RequestsHoldIssued'
    BY <1>5 DEF RefreshClaim, RequestsHoldIssued, Answer, TypeOK, Awaits
  <2> QED
    BY <2>2, <2>3
<1>6. ASSUME NEW r \in Requests, RefreshChain(r)
      PROVE  Issued'
  <2>1. RowsMatchBirth' /\ SessionsAreRooted'
    BY <1>6, ChainEffect DEF RefreshChain, RowsMatchBirth, SessionsAreRooted
  <2>2. RequestsHoldIssued'
    BY <1>6 DEF RefreshChain, RequestsHoldIssued, Answer, TypeOK, Awaits
  <2> QED
    BY <2>1, <2>2
<1>7. ASSUME NEW u \in Users, RevokeAllForUser(u), UNCHANGED birth
      PROVE  RowsMatchBirth' /\ SessionsAreRooted'
  BY <1>7, RevokeEffect DEF RowsMatchBirth, SessionsAreRooted
<1>8. ASSUME NEW r \in Requests, RefreshSweep(r)
      PROVE  Issued'
  <2>1. stored[r].user \in Users
    BY <1>8 DEF RefreshSweep, RequestsHoldIssued, TypeOK, Stored, Awaits
  <2>2. RequestsHoldIssued'
    BY <1>8 DEF RefreshSweep, RequestsHoldIssued, Answer, TypeOK, Awaits
  <2> QED
    BY <1>7, <1>8, <2>1, <2>2 DEF RefreshSweep
<1>9. ASSUME NEW t \in Tokens, Logout(t)
      PROVE  Issued'
  <2>1. RowsMatchBirth' /\ SessionsAreRooted'
    BY <1>9, RevokeOneEffect DEF Logout, RowsMatchBirth, SessionsAreRooted, Unrevoked
  <2>2. RequestsHoldIssued'
    BY <1>9 DEF Logout, RequestsHoldIssued
  <2> QED
    BY <2>1, <2>2
<1>10. ASSUME NEW u \in Users, LogoutAll(u)
       PROVE  Issued'
  <2>1. RequestsHoldIssued'
    BY <1>10 DEF LogoutAll, RequestsHoldIssued
  <2> QED
    BY <1>7, <1>10, <2>1 DEF LogoutAll
<1> QED
  BY <1>1, <1>2, <1>3, <1>4, <1>5, <1>6, <1>8, <1>9, <1>10, StepKinds

-----------------------------------------------------------------------------
(* The credential of a session has one holder, and none once it has ended.  *)
Holders == OneHolder /\ EndedHasNoHolder

\* A step that makes no holder leaves none where there was none.
LEMMA NoNewHolder ==
    ASSUME OneHolder, UNCHANGED birth,
           \A t \in Tokens : Unrevoked(t)' => Unrevoked(t),
           \A r \in Requests :
              pc'[r] = "create" => pc[r] = "create" /\ stored'[r] = stored[r]
    PROVE  OneHolder' /\ \A s : NoHolder(s) => NoHolder(s)'
<1>1. OneHolder'
  BY DEF OneHolder
<1>2. ASSUME NEW s, NoHolder(s)
      PROVE  NoHolder(s)'
  BY <1>2 DEF NoHolder, Rotating
<1> QED
  BY <1>1, <1>2

(* After a sweep nobody holds a session of the user that had no rotation.   *)
LEMMA RevokeAllEndsSessions ==
    ASSUME TypeOK, Issued, Holders, NEW u \in Users, RevokeAllForUser(u),
           UNCHANGED <<birth, stored>>,
           \A r \in Requests : pc'[r] = "create" => pc[r] = "create"
    PROVE  Holders'
<1>1. OneHolder' /\ \A s : NoHolder(s) => NoHolder(s)'
  BY RevokeEffect, NoNewHolder DEF Holders
<1>2. ASSUME NEW s \in SessionsOf(u), ~Rotating(s)
      PROVE  NoHolder(s)'
  <2>1. /\ s \in Tokens /\ birth[s] # Null /\ birth[s].user = u
    BY DEF SessionsOf, Issued, SessionsAreRooted, TypeOK, Birth
  <2>2. ASSUME NEW t \in Tokens, Unrevoked(t)'
        PROVE  birth[t].session # s
    <3>1. Unrevoked(t) /\ rows[t].user # u
      BY <2>2, RevokeEffect
    <3>2. birth[birth[t].session].user = rows[t].user
      BY <3>1 DEF Unrevoked, Issued, RowsMatchBirth, SessionsAreRooted
    <3> QED
      BY <2>1, <3>1, <3>2
  <2>3. ~Rotating(s)'
    BY <1>2 DEF Rotating
  <2> QED
    BY <2>1, <2>2, <2>3 DEF NoHolder
<1>3. ended' = ended \cup {s \in SessionsOf(u) : ~Rotating(s)}
  BY DEF RevokeAllForUser
<1> QED
  BY <1>1, <1>2, <1>3 DEF Holders, EndedHasNoHolder

(* Every step hands a credential on, or drops it; none makes a second one.  *)
LEMMA HoldersStep ==
    ASSUME TypeOK, Issued, Holders, [Next]_vars
    PROVE  Holders'
<1> USE NullAssumption
<1>1. CASE Quiet
  BY <1>1, QuietEffect, NoNewHolder DEF Holders, EndedHasNoHolder, Unrevoked
<1>2. ASSUME NEW r \in Requests, NEW u \in Users, NEW t \in Tokens,
             IssueTokens(r, u, t)
      PROVE  Holders'
  <2>1. /\ birth[t] = Null /\ birth'[t].session = t /\ birth'[t] # Null
        /\ \A x \in Tokens \ {t} : rows'[x] = rows[x] /\ birth'[x] = birth[x]
    BY <1>2, CreateEffect DEF IssueTokens
  <2>2. \A x \in Tokens : /\ rows[x] # Null => birth[x] # Null
                          /\ birth[x] # Null => birth[x].session # t
    BY <2>1 DEF Issued, RowsMatchBirth, SessionsAreRooted
  <2>3. \A q \in Requests : pc'[q] = "create" =>
           /\ pc[q] = "create" /\ stored'[q] = stored[q]
           /\ stored[q].id \in Tokens /\ birth[stored[q].id] # Null
    BY <1>2 DEF IssueTokens, Answer, TypeOK, Stored, Awaits, Issued, RequestsHoldIssued
  <2>4. OneHolder'
    BY <2>1, <2>2, <2>3 DEF Holders, OneHolder, Unrevoked
  <2>5. ASSUME NEW s \in ended
        PROVE  NoHolder(s)'
    BY <2>1, <2>2, <2>3 DEF Holders, EndedHasNoHolder, NoHolder, Rotating, Unrevoked, TypeOK
  <2> QED
    BY <1>2, <2>4, <2>5 DEF Holders, EndedHasNoHolder, IssueTokens
<1>3. ASSUME NEW r \in Requests, NEW t \in Tokens,
             NEW next \in {"claim", "sweep", "401"}, RefreshFound(r, t, next)
      PROVE  Holders'
  <2>1. \A q \in Requests :
           pc'[q] = "create" => pc[q] = "create" /\ stored'[q] = stored[q]
    BY <1>3 DEF RefreshFound, Answer, TypeOK
  <2> QED
    BY <1>3, <2>1, NoNewHolder
    DEF RefreshFound, history, Holders, EndedHasNoHolder, Unrevoked
<1>4. ASSUME NEW r \in Requests, RefreshClaim(r)
      PROVE  Holders'
  <2> DEFINE t == stored[r].id
  <2>1. t \in Tokens /\ Unrevoked(t)
    BY <1>4 DEF RefreshClaim, Issued, RequestsHoldIssued, TypeOK, Stored, Awaits
  <2>2. /\ UNCHANGED <<birth, stored, ended>>
        /\ ~Unrevoked(t)'
        /\ \A x \in Tokens \ {t} : Unrevoked(x)' = Unrevoked(x)
        /\ \A q \in Requests \ {r} : pc'[q] = pc[q]
    BY <1>4, <2>1, RevokeOneEffect DEF RefreshClaim, Unrevoked, Answer, TypeOK
  <2>3. OneHolder'
    BY <2>1, <2>2 DEF Holders, OneHolder
  <2>4. ASSUME NEW s \in ended
        PROVE  NoHolder(s)'
    BY <2>1, <2>2 DEF Holders, EndedHasNoHolder, NoHolder, Rotating
  <2> QED
    BY <2>2, <2>3, <2>4 DEF Holders, EndedHasNoHolder
<1>5. ASSUME NEW r \in Requests, NEW t \in Tokens, RefreshCreate(r, t)
      PROVE  Holders'
  <2> DEFINE s == birth[stored[r].id].session
  <2>1. /\ pc[r] = "create" /\ stored[r].id \in Tokens /\ stored[r].user \in Users
        /\ s \in Tokens /\ birth[stored[r].id] # Null
    BY <1>5 DEF RefreshCreate, Issued, RequestsHoldIssued, TypeOK, Stored, Birth, Awaits
  <2>2. /\ birth[t] = Null /\ birth'[t].session = s /\ birth'[t] # Null
        /\ \A x \in Tokens \ {t} : rows'[x] = rows[x] /\ birth'[x] = birth[x]
    BY <1>5, <2>1, CreateEffect DEF RefreshCreate
  <2>3. \A q \in Requests : pc'[q] = "create" =>
           /\ q # r /\ pc[q] = "create" /\ stored'[q] = stored[q]
           /\ stored[q].id \in Tokens /\ birth[stored[q].id] # Null
    BY <1>5 DEF RefreshCreate, Answer, TypeOK, Stored, Awaits, Issued, RequestsHoldIssued
  <2>4. \A x \in Tokens : rows[x] # Null => birth[x] # Null
    BY DEF Issued, RowsMatchBirth
  <2>5. OneHolder'
    BY <2>1, <2>2, <2>3, <2>4 DEF Holders, OneHolder, Unrevoked
  <2>6. s \notin ended
    BY <2>1 DEF Holders, EndedHasNoHolder, NoHolder, Rotating
  <2>7. ASSUME NEW e \in ended
        PROVE  NoHolder(e)'
    BY <2>2, <2>3, <2>4, <2>6
    DEF Holders, EndedHasNoHolder, NoHolder, Rotating, Unrevoked, TypeOK
  <2> QED
    BY <1>5, <2>5, <2>7 DEF Holders, EndedHasNoHolder, RefreshCreate
<1>6. ASSUME NEW r \in Requests, RefreshChain(r)
      PROVE  Holders'
  <2>1. \A x \in Tokens : Unrevoked(x)' => Unrevoked(x)
    BY <1>6, ChainEffect DEF Issued, Unrevoked
  <2>2. \A q \in Requests :
           pc'[q] = "create" => pc[q] = "create" /\ stored'[q] = stored[q]
    BY <1>6 DEF RefreshChain, Answer, TypeOK
  <2> QED
    BY <1>6, <2>1, <2>2, NoNewHolder DEF RefreshChain, Holders, EndedHasNoHolder
<1>7. ASSUME NEW r \in Requests, RefreshSweep(r)
      PROVE  Holders'
  <2>1. stored[r].user \in Users
    BY <1>7 DEF RefreshSweep, Issued, RequestsHoldIssued, TypeOK, Stored, Awaits
  <2>2. \A q \in Requests : pc'[q] = "create" => pc[q] = "create"
    BY <1>7 DEF RefreshSweep, Answer, TypeOK
  <2> QED
    BY <1>7, <2>1, <2>2, RevokeAllEndsSessions DEF RefreshSweep
<1>8. ASSUME NEW t \in Tokens, Logout(t)
      PROVE  Holders'
  <2>1. /\ UNCHANGED <<birth, stored, pc>> /\ ended' = ended \cup {birth[t].session}
        /\ Unrevoked(t) /\ ~Unrevoked(t)'
        /\ \A x \in Tokens \ {t} : Unrevoked(x)' = Unrevoked(x)
    BY <1>8, RevokeOneEffect DEF Logout, Unrevoked
  <2>2. OneHolder' /\ \A s : NoHolder(s) => NoHolder(s)'
    BY <2>1, NoNewHolder DEF Holders
  <2>3. NoHolder(birth[t].session)'
    BY <2>1
    DEF NoHolder, Rotating, Holders, OneHolder, Issued, RowsMatchBirth,
        SessionsAreRooted, Unrevoked
  <2> QED
    BY <2>1, <2>2, <2>3 DEF Holders, EndedHasNoHolder
<1>9. ASSUME NEW u \in Users, LogoutAll(u)
      PROVE  Holders'
  BY <1>9, RevokeAllEndsSessions DEF LogoutAll
<1> QED
  BY <1>1, <1>2, <1>3, <1>4, <1>5, <1>6, <1>7, <1>8, <1>9, StepKinds

-----------------------------------------------------------------------------
(* A claim that a step leaves alone keeps what was recorded of it.          *)
LEMMA ClaimKept ==
    ASSUME TypeOK, Issued, NEW q \in Requests, Claimed(q), ClaimOK(q),
           pc'[q] = pc[q], stored'[q] = stored[q], issued'[q] = issued[q],
           \A t \in Tokens : birth[t] # Null => birth'[t] = birth[t],
           Unrevoked(stored[q].id)' => Unrevoked(stored[q].id),
           rows'[stored[q].id] # Null =>
              /\ rows[stored[q].id] # Null
              /\ rows'[stored[q].id].replacedBy = rows[stored[q].id].replacedBy
    PROVE  ClaimOK(q)'
<1>1. /\ stored[q].id \in Tokens /\ birth[stored[q].id] # Null
      /\ issued[q] # Null => issued[q] \in Tokens
  BY DEF Claimed, Issued, RequestsHoldIssued, TypeOK, Stored
<1>2. ~Unrevoked(stored[q].id)'
  BY DEF ClaimOK
<1> QED
  BY <1>1 DEF ClaimOK, Unrevoked

\* A step that claims nothing, inserts nothing claimed and chains nothing.
LEMMA NoNewClaim ==
    ASSUME TypeOK, Issued, ClaimsAreExclusive,
           \A t \in Tokens : birth[t] # Null =>
              /\ birth'[t] = birth[t]
              /\ Unrevoked(t)' => Unrevoked(t)
              /\ rows'[t] # Null =>
                    rows[t] # Null /\ rows'[t].replacedBy = rows[t].replacedBy,
           \A r \in Requests : Claimed(r)' =>
              /\ Claimed(r) /\ pc'[r] = pc[r]
              /\ stored'[r] = stored[r] /\ issued'[r] = issued[r]
    PROVE  ClaimsAreExclusive'
<1>1. ASSUME NEW r \in Requests, Claimed(r)'
      PROVE  ClaimOK(r)'
  <2>1. Claimed(r) /\ ClaimOK(r)
    BY <1>1 DEF ClaimsAreExclusive
  <2>2. stored[r].id \in Tokens /\ birth[stored[r].id] # Null
    BY <2>1 DEF Claimed, Issued, RequestsHoldIssued, TypeOK, Stored
  <2>3. Unrevoked(stored[r].id)' => Unrevoked(stored[r].id)
    BY <1>1, <2>2 DEF Unrevoked
  <2> QED
    BY <1>1, <2>1, <2>2, <2>3, ClaimKept
<1>2. ASSUME NEW r \in Requests, NEW q \in Requests, Claimed(r)', Claimed(q)',
             stored'[q].id = stored'[r].id
      PROVE  q = r
  BY <1>2 DEF ClaimsAreExclusive
<1> QED
  BY <1>1, <1>2 DEF ClaimsAreExclusive

(* Every step keeps claims exclusive, and claimed rows revoked and chained. *)
LEMMA ClaimsStep ==
    ASSUME TypeOK, Issued, ClaimsAreExclusive, [Next]_vars
    PROVE  ClaimsAreExclusive'
<1> USE NullAssumption
<1>rooted. \A x \in Tokens : rows[x] # Null => birth[x] # Null
  BY DEF Issued, RowsMatchBirth
<1>1. CASE Quiet
  BY <1>1, QuietEffect, NoNewClaim DEF Claimed, Unrevoked
<1>2. ASSUME NEW r \in Requests, NEW u \in Users, NEW t \in Tokens,
             IssueTokens(r, u, t)
      PROVE  ClaimsAreExclusive'
  <2>1. /\ birth[t] = Null
        /\ \A x \in Tokens \ {t} : rows'[x] = rows[x] /\ birth'[x] = birth[x]
        /\ \A q \in Requests \ {r} : issued'[q] = issued[q]
    BY <1>2, CreateEffect DEF IssueTokens
  <2>2. stored' = stored /\ \A q \in Requests \ {r} : pc'[q] = pc[q]
    BY <1>2 DEF IssueTokens, Answer, TypeOK
  <2>3. stored[r] = Null
    BY <1>2 DEF IssueTokens, Issued, RequestsHoldIssued
  <2> QED
    BY <2>1, <2>2, <2>3, NoNewClaim DEF Claimed, Unrevoked
<1>3. ASSUME NEW r \in Requests, NEW t \in Tokens,
             NEW next \in {"claim", "sweep", "401"}, RefreshFound(r, t, next)
      PROVE  ClaimsAreExclusive'
  <2>1. /\ UNCHANGED <<rows, birth, issued>>
        /\ pc'[r] = next
        /\ \A q \in Requests \ {r} : pc'[q] = pc[q] /\ stored'[q] = stored[q]
    BY <1>3 DEF RefreshFound, Answer, TypeOK, history
  <2> QED
    BY <2>1, NoNewClaim DEF Claimed, Unrevoked
<1>4. ASSUME NEW r \in Requests, RefreshClaim(r)
      PROVE  ClaimsAreExclusive'
  <2> DEFINE t == stored[r].id
  <2>1. t \in Tokens /\ Unrevoked(t)
    BY <1>4 DEF RefreshClaim, Issued, RequestsHoldIssued, TypeOK, Stored, Awaits
  <2>2. /\ UNCHANGED <<birth, stored, issued>>
        /\ ~Unrevoked(t)' /\ pc'[r] = "create"
        /\ \A q \in Requests \ {r} : pc'[q] = pc[q]
        /\ \A x \in Tokens : /\ Unrevoked(x)' => Unrevoked(x)
                             /\ rows'[x] # Null =>
                                  /\ rows[x] # Null
                                  /\ rows'[x].replacedBy = rows[x].replacedBy
    BY <1>4, <2>1, RevokeOneEffect DEF RefreshClaim, Unrevoked, Answer, TypeOK
  <2>3. ASSUME NEW q \in Requests \ {r}, Claimed(q)'
        PROVE  Claimed(q) /\ ClaimOK(q)' /\ stored[q].id # t
    <3>1. Claimed(q) /\ ClaimOK(q)
      BY <2>2, <2>3 DEF Claimed, ClaimsAreExclusive
    <3>2. stored[q].id # t
      BY <2>1, <3>1 DEF ClaimOK
    <3>3. stored[q].id \in Tokens
      BY <3>1 DEF Claimed, TypeOK, Stored
    <3>4. Unrevoked(stored[q].id)' => Unrevoked(stored[q].id)
      BY <2>2, <3>3 DEF Unrevoked
    <3> QED
      BY <2>2, <3>1, <3>2, <3>3, <3>4, ClaimKept
  <2>4. ClaimOK(r)'
    BY <2>1, <2>2 DEF ClaimOK, Unrevoked
  <2> QED
    BY <2>2, <2>3, <2>4 DEF ClaimsAreExclusive
<1>5. ASSUME NEW r \in Requests, NEW t \in Tokens, RefreshCreate(r, t)
      PROVE  ClaimsAreExclusive'
  <2> DEFINE old == stored[r].id
             s == birth[old].session
  <2>1. /\ Claimed(r) /\ old \in Tokens /\ stored[r].user \in Users
        /\ s \in Tokens /\ birth[old] # Null /\ birth[old].user = stored[r].user
    BY <1>5
    DEF RefreshCreate, Issued, RequestsHoldIssued, TypeOK, Stored, Birth, Awaits,
        Claimed
  <2>2. /\ birth[t] = Null /\ birth'[t] # Null
        /\ birth'[t].user = stored[r].user /\ birth'[t].session = s
        /\ birth'[t].parent = old
        /\ \A x \in Tokens \ {t} : rows'[x] = rows[x] /\ birth'[x] = birth[x]
        /\ issued'[r] = t
        /\ \A q \in Requests \ {r} : issued'[q] = issued[q]
    BY <1>5, <2>1, CreateEffect DEF RefreshCreate
  <2>3. /\ stored' = stored /\ pc'[r] = "chain"
        /\ \A q \in Requests \ {r} : pc'[q] = pc[q]
    BY <1>5 DEF RefreshCreate, Answer, TypeOK
  <2>4. \A q \in Requests : Claimed(q)' => Claimed(q)
    BY <2>1, <2>3 DEF Claimed
  <2>5. ASSUME NEW q \in Requests \ {r}, Claimed(q)'
        PROVE  ClaimOK(q)'
    <3>1. Claimed(q) /\ ClaimOK(q)
      BY <2>4, <2>5 DEF ClaimsAreExclusive
    <3>2. stored[q].id \in Tokens \ {t}
      BY <2>2, <3>1 DEF Claimed, Issued, RequestsHoldIssued, TypeOK, Stored
    <3>3. Unrevoked(stored[q].id)' => Unrevoked(stored[q].id)
      BY <2>2, <2>3, <3>2 DEF Unrevoked
    <3> QED
      BY <2>2, <2>3, <3>1, <3>2, <3>3, ClaimKept
  <2>6. ClaimOK(r)'
    <3>1. ~Unrevoked(old)
      BY <2>1 DEF ClaimsAreExclusive, ClaimOK
    <3>2. ~Unrevoked(old)'
      BY <2>1, <2>2, <2>3, <3>1 DEF Unrevoked
    <3> QED
      BY <2>1, <2>2, <2>3, <3>2 DEF ClaimOK
  <2> QED
    BY <2>3, <2>4, <2>5, <2>6 DEF ClaimsAreExclusive
<1>6. ASSUME NEW r \in Requests, RefreshChain(r)
      PROVE  ClaimsAreExclusive'
  <2> DEFINE t == stored[r].id
  <2>1. /\ Claimed(r) /\ pc[r] = "chain" /\ pc'[r] = "200"
        /\ UNCHANGED <<birth, stored, issued>>
        /\ \A q \in Requests \ {r} : pc'[q] = pc[q]
    BY <1>6
    DEF RefreshChain, Issued, RequestsHoldIssued, TypeOK, Awaits, Claimed, Answer
  <2>2. /\ t \in Tokens /\ rows[t] # Null /\ rows'[t] # Null
        /\ rows'[t].revoked = rows[t].revoked /\ rows'[t].replacedBy = issued[r]
        /\ \A x \in Tokens \ {t} : rows'[x] = rows[x]
    BY <1>6, ChainEffect DEF Issued
  <2>3. \A q \in Requests : Claimed(q)' => Claimed(q)
    BY <2>1 DEF Claimed
  <2>4. ASSUME NEW q \in Requests \ {r}, Claimed(q)'
        PROVE  ClaimOK(q)'
    <3>1. Claimed(q) /\ ClaimOK(q) /\ stored[q].id # t
      BY <2>1, <2>3, <2>4 DEF ClaimsAreExclusive
    <3>2. stored[q].id \in Tokens
      BY <3>1 DEF Claimed, TypeOK, Stored
    <3>3. Unrevoked(stored[q].id)' => Unrevoked(stored[q].id)
      BY <2>1, <2>2, <3>1, <3>2 DEF Unrevoked
    <3> QED
      BY <2>1, <2>2, <3>1, <3>2, <3>3, ClaimKept
  <2>5. ClaimOK(r)'
    <3>1. ClaimOK(r)
      BY <2>1 DEF ClaimsAreExclusive
    <3> QED
      BY <2>1, <2>2, <3>1 DEF ClaimOK, Unrevoked
  <2> QED
    BY <2>1, <2>3, <2>4, <2>5 DEF ClaimsAreExclusive
<1>7. ASSUME NEW u \in Users, RevokeAllForUser(u), UNCHANGED <<birth, stored, issued>>,
             \A q \in Requests : pc'[q] = pc[q] \/ pc'[q] = "401"
      PROVE  ClaimsAreExclusive'
  BY <1>7, RevokeEffect, NoNewClaim DEF Claimed
<1>8. ASSUME NEW r \in Requests, RefreshSweep(r)
      PROVE  ClaimsAreExclusive'
  <2>1. stored[r].user \in Users
    BY <1>8 DEF RefreshSweep, Issued, RequestsHoldIssued, TypeOK, Stored, Awaits
  <2>2. \A q \in Requests : pc'[q] = pc[q] \/ pc'[q] = "401"
    BY <1>8 DEF RefreshSweep, Answer, TypeOK
  <2> QED
    BY <1>7, <1>8, <2>1, <2>2 DEF RefreshSweep
<1>9. ASSUME NEW t \in Tokens, Logout(t)
      PROVE  ClaimsAreExclusive'
  BY <1>9, RevokeOneEffect, NoNewClaim DEF Logout, Claimed, Unrevoked
<1>10. ASSUME NEW u \in Users, LogoutAll(u)
       PROVE  ClaimsAreExclusive'
  BY <1>7, <1>10 DEF LogoutAll
<1> QED
  BY <1>1, <1>2, <1>3, <1>4, <1>5, <1>6, <1>8, <1>9, <1>10, StepKinds

-----------------------------------------------------------------------------
(* Rows: who may delete one, and who may bring a token back.                *)
LEMMA ReplayStep ==
    ASSUME TypeOK, Issued, ReplayStaysDetectable, [Next]_vars
    PROVE  ReplayStaysDetectable'
<1> USE NullAssumption, LifetimeAssumption, TimeAssumption
<1>1. CASE Quiet
  <2>1. birth' = birth /\ now \in Nat /\ now' \in Nat /\ now <= now'
    BY <1>1
    DEF Quiet, RefreshClaimLost, RefreshChainMissing, Abort, RefreshUnknown,
        RemoveExpired, Tick, vars, codeVars, history, TypeOK
  <2>2. ASSUME NEW t \in Tokens, birth[t] # Null, birth[t].expiresAt >= now'
        PROVE  rows'[t] # Null
    <3>1. birth[t].expiresAt \in Nat /\ birth[t].expiresAt >= now
      BY <2>1, <2>2 DEF TypeOK, Birth, Time
    <3>2. rows[t] # Null /\ rows[t].expiresAt = birth[t].expiresAt
      BY <2>2, <3>1 DEF ReplayStaysDetectable, Issued, RowsMatchBirth
    <3>3. CASE RemoveExpired
      <4>1. now' = now /\ ~(rows[t].expiresAt < now)
        BY <2>2, <3>1, <3>2, <3>3 DEF RemoveExpired, TypeOK
      <4> QED
        BY <3>2, <3>3, <4>1 DEF RemoveExpired
    <3>4. CASE ~RemoveExpired
      BY <1>1, <3>2, <3>4
      DEF Quiet, RefreshClaimLost, RefreshChainMissing, Abort, RefreshUnknown,
          Tick, vars, codeVars
    <3> QED
      BY <3>3, <3>4
  <2> QED
    BY <2>1, <2>2 DEF ReplayStaysDetectable
<1>2. ASSUME NEW r \in Requests, NEW u \in Users, NEW t \in Tokens, NEW s \in Tokens,
             NEW p \in Tokens \cup {Null}, CreateRefreshToken(r, t, u, s, p),
             now' = now
      PROVE  ReplayStaysDetectable'
  BY <1>2, CreateEffect DEF ReplayStaysDetectable
<1>3. ASSUME UNCHANGED <<now, birth>>,
             \A t \in Tokens : rows[t] # Null => rows'[t] # Null
      PROVE  ReplayStaysDetectable'
  BY <1>3 DEF ReplayStaysDetectable
<1>4. ASSUME NEW r \in Requests, NEW u \in Users, NEW t \in Tokens,
             IssueTokens(r, u, t)
      PROVE  ReplayStaysDetectable'
  BY <1>2, <1>4 DEF IssueTokens
<1>5. ASSUME NEW r \in Requests, NEW t \in Tokens, RefreshCreate(r, t)
      PROVE  ReplayStaysDetectable'
  <2>1. /\ stored[r].id \in Tokens /\ stored[r].user \in Users
        /\ birth[stored[r].id].session \in Tokens
    BY <1>5 DEF RefreshCreate, Issued, RequestsHoldIssued, TypeOK, Stored, Birth, Awaits
  <2> QED
    BY <1>2, <1>5, <2>1 DEF RefreshCreate
<1>6. ASSUME NEW r \in Requests, NEW t \in Tokens,
             NEW next \in {"claim", "sweep", "401"}, RefreshFound(r, t, next)
      PROVE  ReplayStaysDetectable'
  BY <1>3, <1>6 DEF RefreshFound, history
<1>7. ASSUME NEW r \in Requests, RefreshClaim(r)
      PROVE  ReplayStaysDetectable'
  <2>1. stored[r].id \in Tokens
    BY <1>7 DEF RefreshClaim, Issued, RequestsHoldIssued, TypeOK, Stored, Awaits
  <2> QED
    BY <1>3, <1>7, <2>1, RevokeOneEffect DEF RefreshClaim
<1>8. ASSUME NEW r \in Requests, RefreshChain(r)
      PROVE  ReplayStaysDetectable'
  BY <1>3, <1>8, ChainEffect DEF RefreshChain, Issued
<1>9. ASSUME NEW r \in Requests, RefreshSweep(r)
      PROVE  ReplayStaysDetectable'
  <2>1. stored[r].user \in Users
    BY <1>9 DEF RefreshSweep, Issued, RequestsHoldIssued, TypeOK, Stored, Awaits
  <2> QED
    BY <1>3, <1>9, <2>1, RevokeEffect DEF RefreshSweep
<1>10. ASSUME NEW t \in Tokens, Logout(t)
       PROVE  ReplayStaysDetectable'
  BY <1>3, <1>10, RevokeOneEffect DEF Logout
<1>11. ASSUME NEW u \in Users, LogoutAll(u)
       PROVE  ReplayStaysDetectable'
  BY <1>3, <1>11, RevokeEffect DEF LogoutAll
<1> QED
  BY <1>1, <1>4, <1>5, <1>6, <1>7, <1>8, <1>9, <1>10, <1>11, StepKinds

(* A row that survives a step of its token's life keeps its expiry, and is  *)
(* not unrevoked by it.                                                     *)
LEMMA RowsOnlyDie ==
    ASSUME TypeOK, Issued, [Next]_vars, NEW t \in Tokens, birth[t] # Null, rows'[t] # Null
    PROVE  /\ rows[t] # Null /\ rows'[t].expiresAt = rows[t].expiresAt
           /\ ~rows'[t].revoked => ~rows[t].revoked
<1> USE NullAssumption
<1>1. CASE Quiet
  BY <1>1, QuietEffect
<1>2. ASSUME NEW r \in Requests, NEW u \in Users, NEW x \in Tokens,
             IssueTokens(r, u, x)
      PROVE  rows'[t] = rows[t]
  BY <1>2, CreateEffect DEF IssueTokens
<1>3. ASSUME NEW r \in Requests, NEW x \in Tokens, RefreshCreate(r, x)
      PROVE  rows'[t] = rows[t]
  BY <1>3, CreateEffect
  DEF RefreshCreate, Issued, RequestsHoldIssued, TypeOK, Stored, Birth, Awaits
<1>4. ASSUME NEW r \in Requests, NEW x \in Tokens,
             NEW next \in {"claim", "sweep", "401"}, RefreshFound(r, x, next)
      PROVE  rows'[t] = rows[t]
  BY <1>4 DEF RefreshFound
<1>5. ASSUME NEW x \in Tokens, Unrevoked(x),
             rows' = [rows EXCEPT ![x].revoked = TRUE]
      PROVE  /\ rows[t] # Null /\ rows'[t].expiresAt = rows[t].expiresAt
             /\ ~rows'[t].revoked => ~rows[t].revoked
  BY <1>5, RevokeOneEffect DEF Unrevoked
<1>6. ASSUME NEW r \in Requests, RefreshClaim(r)
      PROVE  stored[r].id \in Tokens
  BY <1>6 DEF RefreshClaim, Issued, RequestsHoldIssued, TypeOK, Stored, Awaits
<1>7. ASSUME NEW r \in Requests, RefreshChain(r)
      PROVE  /\ rows[t] # Null /\ rows'[t].expiresAt = rows[t].expiresAt
             /\ rows'[t].revoked = rows[t].revoked
  BY <1>7, ChainEffect DEF Issued
<1>8. ASSUME NEW u \in Users, RevokeAllForUser(u)
      PROVE  /\ rows[t] # Null /\ rows'[t].expiresAt = rows[t].expiresAt
             /\ ~rows'[t].revoked => ~rows[t].revoked
  BY <1>8, RevokeEffect DEF Unrevoked
<1>9. ASSUME NEW r \in Requests, RefreshSweep(r)
      PROVE  stored[r].user \in Users
  BY <1>9 DEF RefreshSweep, Issued, RequestsHoldIssued, TypeOK, Stored, Awaits
<1> QED
  BY <1>1, <1>2, <1>3, <1>4, <1>5, <1>6, <1>7, <1>8, <1>9, StepKinds
  DEF RefreshClaim, RefreshSweep, Logout, LogoutAll

(* No step makes a token live that was issued and is dead.                  *)
LEMMA DeadTokensStep ==
    ASSUME TypeOK, Issued, [Next]_vars, NEW t \in Tokens, birth[t] # Null, ~Live(t)
    PROVE  ~Live(t)'
<1> USE NullAssumption
<1>1. now \in Nat /\ now' \in Nat /\ now <= now'
  <2>1. now' = now \/ Tick
    BY Zenon
    DEF Next, Refresh, IssueTokens, RefreshUnknown, RefreshReused, RefreshExpired,
        RefreshFresh, RefreshFound, RefreshClaim, RefreshClaimLost, RefreshCreate,
        RefreshChain, RefreshChainMissing, RefreshSweep, Abort, Logout, LogoutAll,
        RemoveExpired, vars, codeVars
  <2> QED
    BY <2>1, TimeAssumption DEF Tick, TypeOK
<1>2. ASSUME rows'[t] # Null
      PROVE  /\ rows[t] # Null /\ rows'[t].expiresAt = rows[t].expiresAt
             /\ ~rows'[t].revoked => ~rows[t].revoked
  BY <1>2, RowsOnlyDie
<1>3. ASSUME rows'[t] # Null
      PROVE  rows[t].expiresAt \in Nat
  BY <1>2, <1>3, TimeAssumption, LifetimeAssumption DEF TypeOK, Row, Time
<1> QED
  BY <1>1, <1>2, <1>3 DEF Live, Unrevoked

-----------------------------------------------------------------------------
(* The invariant holds initially and every step keeps it.                   *)
LEMMA IInvInit == Init => IInv
<1> SUFFICES ASSUME Init
             PROVE  IInv
  OBVIOUS
<1>1. TypeOK
  BY TypeInit
<1>2. Issued
  BY DEF Init, Issued, RowsMatchBirth, SessionsAreRooted, RequestsHoldIssued, Awaits
<1>3. Holders
  BY DEF Init, Holders, OneHolder, EndedHasNoHolder, Unrevoked
<1>4. ClaimsAreExclusive /\ ReplayStaysDetectable
  BY DEF Init, ClaimsAreExclusive, Claimed, ReplayStaysDetectable
<1> QED
  BY <1>1, <1>2, <1>3, <1>4 DEF IInv, Issued, Holders

(* Every statement, failure, cleanup and tick keeps the invariant.          *)
LEMMA IInvStep == IInv /\ [Next]_vars => IInv'
<1> SUFFICES ASSUME IInv, [Next]_vars
             PROVE  IInv'
  OBVIOUS
<1>1. TypeOK /\ Issued /\ Holders /\ ClaimsAreExclusive /\ ReplayStaysDetectable
  BY DEF IInv, Issued, Holders
<1>2. TypeOK'
  BY <1>1, TypeStep DEF Issued
<1>3. Issued' /\ Holders' /\ ClaimsAreExclusive' /\ ReplayStaysDetectable'
  BY <1>1, IssuedStep, HoldersStep, ClaimsStep, ReplayStep
<1> QED
  BY <1>2, <1>3 DEF IInv, Issued, Holders

(* IInv, the strengthening of the checked invariants, holds always.         *)
THEOREM Invariance == Spec => []IInv
BY IInvInit, IInvStep, PTL DEF Spec

(* The state variables keep their types: no handler stores a row without an *)
(* owner, a request without a status, or an expiry beyond the lifetime.     *)
THEOREM TypeCorrect == Spec => []TypeOK
<1>1. IInv => TypeOK
  BY DEF IInv
<1> QED
  BY <1>1, Invariance, PTL

(* However many refreshes, logouts, replays and cleanups race, a session    *)
(* never has two tokens that refresh() would accept.                        *)
THEOREM OneLiveToken == Spec => []OneLiveTokenPerSession
<1>1. IInv => OneLiveTokenPerSession
  BY DEF IInv, OneHolder, OneLiveTokenPerSession, Live
<1> QED
  BY <1>1, Invariance, PTL

(* A session that was revoked while none of its rotations was between claim *)
(* and insert never has a good token again.                                 *)
THEOREM RevocationIsFinal == Spec => []EndedSessionsStayEnded
<1>1. IInv => EndedSessionsStayEnded
  BY DEF IInv, EndedHasNoHolder, NoHolder, EndedSessionsStayEnded, Live
<1> QED
  BY <1>1, Invariance, PTL

(* The row of a token outlives the token, so a replay of one that could     *)
(* still be refreshed is seen for what it is.                               *)
THEOREM ReplayIsDetectable == Spec => []ReplayStaysDetectable
<1>1. IInv => ReplayStaysDetectable
  BY DEF IInv
<1> QED
  BY <1>1, Invariance, PTL

(* A refresh that answered 200 left the presented token revoked and chained *)
(* to its replacement, which is of the same user and session.               *)
THEOREM RotationIsChained == Spec => []AnsweredRotationIsChained
<1>1. IInv => AnsweredRotationIsChained
  BY DEF IInv, ClaimsAreExclusive, ClaimOK, Claimed, Unrevoked,
         AnsweredRotationIsChained
<1> QED
  BY <1>1, Invariance, PTL

(* No step makes a token good that was not: not a stale write, not a second *)
(* insert of the same token, not the clock.                                 *)
THEOREM DeathIsFinal == Spec => DeadTokensStayDead
<1>1. IInv /\ [Next]_vars =>
        [\A t \in Tokens : birth[t] # Null /\ ~Live(t) => ~Live(t)']_vars
  BY DeadTokensStep DEF IInv, Issued
<1> QED
  BY <1>1, Invariance, PTL DEF Spec, DeadTokensStayDead

(* One step revokes rows of one user only: a claim and a logout revoke one  *)
(* row, and a sweep names its user.                                         *)
LEMMA RevocationStep ==
    ASSUME TypeOK, RequestsHoldIssued, [Next]_vars,
           NEW a \in Tokens, Unrevoked(a), rows'[a] # Null, rows'[a].revoked,
           NEW b \in Tokens, Unrevoked(b), rows'[b] # Null, rows'[b].revoked
    PROVE  rows[a].user = rows[b].user
<1>1. /\ rows[a] # Null /\ rows'[a] # rows[a] /\ ~Unrevoked(a)'
      /\ rows[b] # Null /\ rows'[b] # rows[b] /\ ~Unrevoked(b)'
  BY DEF Unrevoked
<1>2. ~Quiet
  BY <1>1, QuietEffect
<1>3. ASSUME NEW t \in Tokens, Unrevoked(t),
             rows' = [rows EXCEPT ![t].revoked = TRUE]
      PROVE  a = b
  BY <1>1, <1>3, RevokeOneEffect
<1>4. ASSUME NEW u \in Users, RevokeAllForUser(u)
      PROVE  rows[a].user = u /\ rows[b].user = u
  BY <1>1, <1>4, RevokeEffect
<1>5. ASSUME NEW r \in Requests, NEW t \in Tokens, NEW u \in Users,
             NEW s \in Tokens, NEW p \in Tokens \cup {Null},
             CreateRefreshToken(r, t, u, s, p)
      PROVE  rows'[a] = rows[a] \/ ~rows'[a].revoked
  BY <1>5 DEF CreateRefreshToken, TypeOK
<1>6. ASSUME NEW r \in Requests, NEW t \in Tokens, NEW u \in Users,
             IssueTokens(r, u, t)
      PROVE  FALSE
  BY <1>1, <1>5, <1>6 DEF IssueTokens
<1>7. ASSUME NEW r \in Requests, NEW t \in Tokens, NEW next \in {"claim", "sweep", "401"},
             RefreshFound(r, t, next)
      PROVE  FALSE
  BY <1>1, <1>7 DEF RefreshFound
<1>8. ASSUME NEW r \in Requests, RefreshClaim(r)
      PROVE  a = b
  <2>1. stored[r].id \in Tokens
    BY <1>8 DEF RefreshClaim, RequestsHoldIssued, TypeOK, Stored, Awaits
  <2> QED
    BY <1>3, <1>8, <2>1 DEF RefreshClaim
<1>9. ASSUME NEW r \in Requests, NEW t \in Tokens, RefreshCreate(r, t)
      PROVE  FALSE
  <2>1. rows' = [rows EXCEPT ![t] = [user |-> stored[r].user,
                                     expiresAt |-> now + RefreshLifetime,
                                     revoked |-> FALSE, replacedBy |-> Null]]
    BY <1>9 DEF RefreshCreate, CreateRefreshToken
  <2> QED
    BY <1>1, <2>1 DEF TypeOK
<1>10. ASSUME NEW r \in Requests, RefreshChain(r)
       PROVE  FALSE
  BY <1>1, <1>10, ChainEffect DEF Unrevoked
<1>11. ASSUME NEW r \in Requests, RefreshSweep(r)
       PROVE  rows[a].user = rows[b].user
  <2>1. stored[r].user \in Users
    BY <1>11 DEF RefreshSweep, RequestsHoldIssued, TypeOK, Stored, Awaits
  <2> QED
    BY <1>4, <1>11, <2>1 DEF RefreshSweep
<1>12. ASSUME NEW t \in Tokens, Logout(t)
       PROVE  a = b
  BY <1>3, <1>12 DEF Logout
<1>13. ASSUME NEW u \in Users, LogoutAll(u)
       PROVE  rows[a].user = rows[b].user
  BY <1>4, <1>13 DEF LogoutAll
<1> QED
  BY <1>2, <1>6, <1>7, <1>8, <1>9, <1>10, <1>11, <1>12, <1>13, StepKinds

(* No statement ends sessions of two users.                                 *)
THEOREM RevocationIsTheUsersOwn == Spec => RevocationStaysWithinOneUser
<1>1. IInv /\ [Next]_vars =>
        [\A a, b \in Tokens :
            /\ Unrevoked(a) /\ rows'[a] # Null /\ rows'[a].revoked
            /\ Unrevoked(b) /\ rows'[b] # Null /\ rows'[b].revoked
            => rows[a].user = rows[b].user]_vars
  BY RevocationStep DEF IInv
<1> QED
  BY <1>1, Invariance, PTL DEF Spec, RevocationStaysWithinOneUser

-----------------------------------------------------------------------------
(* The table implements SessionLedger: every step of the handlers opens a   *)
(* session, begins, finishes or fails a handover, closes some sessions, or  *)
(* leaves every session where it is.                                        *)
phases == [s \in Tokens |-> Phase(s)]

Opened(s) == birth[s] # Null /\ birth[s].session = s

Held(s) == \E t \in Tokens : Unrevoked(t) /\ birth[t].session = s

\* The session a request with a row in hand works for.
RotatedSession(r) == birth[stored[r].id].session

\* The token that names a session is the first of it.
RootsAreFirst == \A t \in Tokens : birth[t] # Null => Opened(birth[t].session)

LInv == IInv /\ RootsAreFirst

-----------------------------------------------------------------------------
(* Phase, read off who holds the session's credential.                      *)
LEMMA PhaseOf ==
    ASSUME NEW s
    PROVE  /\ ~Opened(s) => Phase(s) = "unopened"
           /\ Opened(s) /\ Rotating(s) => Phase(s) = "handover"
           /\ Opened(s) /\ ~Rotating(s) /\ Held(s) => Phase(s) = "active"
           /\ Opened(s) /\ ~Rotating(s) /\ ~Held(s) => Phase(s) = "over"
BY DEF Phase, Opened, Held

(* The same of the next state.                                              *)
LEMMA PhaseOfNext ==
    ASSUME NEW s
    PROVE  /\ ~Opened(s)' => Phase(s)' = "unopened"
           /\ Opened(s)' /\ Rotating(s)' => Phase(s)' = "handover"
           /\ Opened(s)' /\ ~Rotating(s)' /\ Held(s)' => Phase(s)' = "active"
           /\ Opened(s)' /\ ~Rotating(s)' /\ ~Held(s)' => Phase(s)' = "over"
BY DEF Phase, Opened, Held

(* What a request in flight, or a row, refers to was issued, and its        *)
(* session is open.                                                         *)
LEMMA InFlight ==
    ASSUME LInv
    PROVE  /\ \A r \in Requests : pc[r] \in Awaits =>
                 /\ stored[r].id \in Tokens /\ birth[stored[r].id] # Null
                 /\ RotatedSession(r) \in Tokens /\ Opened(RotatedSession(r))
           /\ \A t \in Tokens : birth[t] # Null => birth[t].session \in Tokens
           /\ \A t \in Tokens : Unrevoked(t) =>
                 /\ birth[t] # Null
                 /\ birth[t].session \in Tokens /\ Opened(birth[t].session)
<1>1. \A t \in Tokens : birth[t] # Null => birth[t] \in Birth
  BY DEF LInv, IInv, TypeOK
<1>2. \A t \in Tokens : birth[t] # Null =>
          birth[t].session \in Tokens /\ Opened(birth[t].session)
  BY <1>1 DEF Birth, LInv, RootsAreFirst
<1>3. \A r \in Requests : pc[r] \in Awaits =>
          stored[r].id \in Tokens /\ birth[stored[r].id] # Null
  BY DEF LInv, IInv, RequestsHoldIssued, TypeOK, Stored
<1> QED
  BY <1>2, <1>3 DEF RotatedSession, LInv, IInv, RowsMatchBirth, Unrevoked

(* A step that moves one session leaves the others where they are.          *)
LEMMA OneMoves ==
    ASSUME NEW s \in Tokens, NEW p,
           Phase(s)' = p, \A x \in Tokens \ {s} : Phase(x)' = Phase(x)
    PROVE  phases' = [phases EXCEPT ![s] = p]
BY DEF phases

-----------------------------------------------------------------------------
(* Steps that issue nothing and neither begin nor end a rotation can only   *)
(* close sessions.                                                          *)
LEMMA OnlyCloses ==
    ASSUME birth' = birth,
           \A s \in Tokens : Rotating(s)' <=> Rotating(s),
           \A t \in Tokens : Unrevoked(t)' => Unrevoked(t)
    PROVE  Ledger!Next
<1> DEFINE S == {s \in Tokens : Phase(s) = "active" /\ Phase(s)' # "active"}
<1>1. \A s \in Tokens : /\ Opened(s)' <=> Opened(s)
                        /\ Held(s)' => Held(s)
  BY DEF Opened, Held
<1>2. \A s \in Tokens : Phase(s)' = IF s \in S THEN "over" ELSE Phase(s)
  <2> TAKE s \in Tokens
  <2>1. CASE ~Opened(s)
    BY <1>1, <2>1, PhaseOf, PhaseOfNext
  <2>2. CASE Opened(s) /\ Rotating(s)
    BY <1>1, <2>2, PhaseOf, PhaseOfNext
  <2>3. CASE Opened(s) /\ ~Rotating(s) /\ Held(s)
    BY <1>1, <2>3, PhaseOf, PhaseOfNext
  <2>4. CASE Opened(s) /\ ~Rotating(s) /\ ~Held(s)
    BY <1>1, <2>4, PhaseOf, PhaseOfNext
  <2> QED
    BY <2>1, <2>2, <2>3, <2>4
<1>3. S \in SUBSET Tokens /\ \A s \in S : Phase(s) = "active"
  OBVIOUS
<1>4. Ledger!Close(S)
  BY <1>2, <1>3 DEF Ledger!Close
<1> QED
  BY <1>3, <1>4 DEF Ledger!Next

(* A request that is not, and will not be, between claim and insert rotates *)
(* nothing.                                                                 *)
LEMMA NoRotation ==
    ASSUME birth' = birth,
           \A r \in Requests : /\ pc'[r] = "create" <=> pc[r] = "create"
                               /\ pc[r] = "create" => stored'[r] = stored[r]
    PROVE  \A s \in Tokens : Rotating(s)' <=> Rotating(s)
BY DEF Rotating

-----------------------------------------------------------------------------
(* Logging in opens a session, whose only token is the one inserted.        *)
LEMMA IssueOpens ==
    ASSUME LInv, NEW r \in Requests, NEW u \in Users, NEW t \in Tokens,
           IssueTokens(r, u, t)
    PROVE  Ledger!Next
<1>1. /\ birth[t] = Null /\ birth'[t] # Null /\ birth'[t].session = t
      /\ \A x \in Tokens \ {t} : birth'[x] = birth[x] /\ rows'[x] = rows[x]
      /\ rows'[t] # Null /\ ~rows'[t].revoked
  BY CreateEffect DEF IssueTokens, LInv, IInv
<1>2. /\ pc[r] = "new" /\ stored' = stored
      /\ pc' = [pc EXCEPT ![r] = "200"]
  BY DEF IssueTokens, Answer
<1>3. \A x \in Tokens : birth[x] # Null => birth[x].session # t
  BY <1>1 DEF LInv, RootsAreFirst, Opened
<1>4. \A q \in Requests : pc'[q] = "create" <=> pc[q] = "create"
  BY <1>2 DEF LInv, IInv, TypeOK
<1>5. \A q \in Requests : pc[q] = "create" =>
          /\ birth'[stored'[q].id] = birth[stored[q].id]
          /\ birth[stored[q].id].session # t
  BY <1>1, <1>2, <1>3, InFlight DEF Awaits
<1>6. Phase(t) = "unopened"
  BY <1>1, PhaseOf DEF Opened
<1>7. Phase(t)' = "active"
  <2>1. Opened(t)' /\ Held(t)'
    BY <1>1 DEF Opened, Held, Unrevoked
  <2>2. ~Rotating(t)'
    BY <1>4, <1>5 DEF Rotating
  <2> QED
    BY <2>1, <2>2, PhaseOfNext
<1>8. ASSUME NEW s \in Tokens \ {t}
      PROVE  Phase(s)' = Phase(s)
  <2>1. Opened(s)' <=> Opened(s)
    BY <1>1 DEF Opened
  <2>2. Rotating(s)' <=> Rotating(s)
    BY <1>4, <1>5 DEF Rotating
  <2>3. ~Unrevoked(t)
    BY <1>1 DEF LInv, IInv, RowsMatchBirth, Unrevoked
  <2>4. Held(s)' <=> Held(s)
    BY <1>1, <2>3 DEF Held, Unrevoked
  <2> QED
    BY <2>1, <2>2, <2>4, PhaseOf, PhaseOfNext
<1>9. Ledger!Open(t)
  BY <1>6, <1>7, <1>8, OneMoves DEF Ledger!Open, phases
<1> QED
  BY <1>9 DEF Ledger!Next

(* A claim spends the session's token, and its row was the only one.        *)
LEMMA ClaimBegins ==
    ASSUME LInv, NEW r \in Requests, RefreshClaim(r)
    PROVE  Ledger!Next
<1> DEFINE t == stored[r].id
           s == RotatedSession(r)
<1>1. /\ pc[r] = "claim" /\ Unrevoked(t)
      /\ rows' = [rows EXCEPT ![t].revoked = TRUE]
      /\ pc' = [pc EXCEPT ![r] = "create"]
      /\ birth' = birth /\ stored' = stored
  BY DEF RefreshClaim, Answer
<1>2. t \in Tokens /\ birth[t] # Null /\ s \in Tokens /\ Opened(s)
  BY <1>1, InFlight DEF Awaits
<1>3. /\ rows'[t] # Null /\ rows'[t].revoked
      /\ \A x \in Tokens \ {t} : rows'[x] = rows[x]
  BY <1>1, <1>2, RevokeOneEffect DEF LInv, IInv
<1>4. /\ pc'[r] = "create"
      /\ \A q \in Requests \ {r} : pc'[q] = pc[q]
  BY <1>1 DEF LInv, IInv, TypeOK
<1>5. ~Rotating(s) /\ Held(s)
  BY <1>1, <1>2 DEF LInv, IInv, OneHolder, Rotating, Held, RotatedSession
<1>6. Phase(s) = "active"
  BY <1>2, <1>5, PhaseOf
<1>7. Phase(s)' = "handover"
  <2>1. Opened(s)' /\ Rotating(s)'
    BY <1>1, <1>2, <1>4 DEF Opened, Rotating, RotatedSession
  <2> QED
    BY <1>1, <2>1, PhaseOfNext
<1>8. ASSUME NEW x \in Tokens \ {s}
      PROVE  Phase(x)' = Phase(x)
  <2>1. Opened(x)' <=> Opened(x)
    BY <1>1 DEF Opened
  <2>2. Rotating(x)' <=> Rotating(x)
    BY <1>1, <1>4 DEF Rotating, RotatedSession
  <2>3. Held(x)' <=> Held(x)
    BY <1>1, <1>3 DEF Held, Unrevoked, RotatedSession
  <2> QED
    BY <2>1, <2>2, <2>3, PhaseOf, PhaseOfNext
<1>9. Ledger!BeginHandover(s)
  <2>1. phases[s] = "active"
    BY <1>2, <1>6 DEF phases
  <2>2. phases' = [phases EXCEPT ![s] = "handover"]
    BY <1>1, <1>2, <1>7, <1>8, OneMoves DEF RotatedSession
  <2> QED
    BY <2>1, <2>2 DEF Ledger!BeginHandover, phases
<1> QED
  BY <1>2, <1>9 DEF Ledger!Next

(* Of the rotations of a session one at most is between claim and insert,   *)
(* and then no row of the session is unrevoked.                             *)
LEMMA OneRotation ==
    ASSUME LInv, NEW r \in Requests, pc[r] = "create"
    PROVE  /\ ~Held(RotatedSession(r))
           /\ \A q \in Requests :
                 pc[q] = "create" /\ RotatedSession(q) = RotatedSession(r) => q = r
<1>1. \A t \in Tokens : Unrevoked(t) => birth[t].session # RotatedSession(r)
  BY DEF LInv, IInv, OneHolder, RotatedSession
<1>2. ASSUME NEW q \in Requests, pc[q] = "create", RotatedSession(q) = RotatedSession(r)
      PROVE  q = r
  BY <1>2 DEF LInv, IInv, OneHolder, RotatedSession
<1> QED
  BY <1>1, <1>2 DEF Held

(* The insert finishes the handover: the session has a token again.         *)
LEMMA CreateFinishes ==
    ASSUME LInv, NEW r \in Requests, NEW t \in Tokens, RefreshCreate(r, t)
    PROVE  Ledger!Next
<1> DEFINE s == RotatedSession(r)
<1>1. /\ pc[r] = "create" /\ pc' = [pc EXCEPT ![r] = "chain"]
      /\ stored' = stored
      /\ CreateRefreshToken(r, t, stored[r].user, s, stored[r].id)
  BY DEF RefreshCreate, Answer, RotatedSession
<1>2. /\ stored[r].id \in Tokens /\ stored[r].user \in Users
      /\ s \in Tokens /\ Opened(s)
  <2>1. stored[r] \in Stored
    BY <1>1 DEF LInv, IInv, RequestsHoldIssued, TypeOK, Awaits
  <2> QED
    BY <1>1, <2>1, InFlight DEF Awaits, Stored
<1>3. /\ birth[t] = Null /\ birth'[t] # Null /\ birth'[t].session = s
      /\ rows'[t] # Null /\ ~rows'[t].revoked
      /\ \A x \in Tokens \ {t} : rows'[x] = rows[x] /\ birth'[x] = birth[x]
  BY <1>1, <1>2, CreateEffect DEF LInv, IInv
<1>4. /\ pc'[r] = "chain"
      /\ \A q \in Requests \ {r} : pc'[q] = pc[q]
  BY <1>1 DEF LInv, IInv, TypeOK
<1>5. \A q \in Requests : pc[q] = "create" =>
          /\ birth'[stored'[q].id] = birth[stored[q].id]
          /\ q # r => RotatedSession(q) # s
  <2>1. \A q \in Requests : pc[q] = "create" => stored[q].id \in Tokens \ {t}
    BY <1>3, InFlight DEF Awaits
  <2> QED
    BY <1>1, <1>3, <2>1, OneRotation
<1>6. s # t
  BY <1>2, <1>3 DEF Opened
<1>7. Phase(s) = "handover"
  <2>1. Rotating(s)
    BY <1>1 DEF Rotating, RotatedSession
  <2> QED
    BY <1>2, <2>1, PhaseOf
<1>8. Opened(s)' /\ Held(s)' /\ ~Rotating(s)'
  <2>1. s' = s
    BY <1>1, <1>5 DEF RotatedSession
  <2>2. ASSUME NEW q \in Requests, pc'[q] = "create"
        PROVE  birth'[stored'[q].id].session # s
    BY <1>4, <1>5, <2>2 DEF RotatedSession
  <2> HIDE DEF s
  <2> QED
    BY <1>2, <1>3, <1>6, <2>1, <2>2 DEF Opened, Held, Unrevoked, Rotating
<1>9. ASSUME NEW x \in Tokens \ {s}
      PROVE  Phase(x)' = Phase(x)
  <2>1. Opened(x)' <=> Opened(x)
    BY <1>3 DEF Opened
  <2>2. Rotating(x)' <=> Rotating(x)
    BY <1>1, <1>4, <1>5 DEF Rotating, RotatedSession
  <2>3. ~Unrevoked(t)
    BY <1>3 DEF LInv, IInv, RowsMatchBirth, Unrevoked
  <2>4. Held(x)' <=> Held(x)
    BY <1>3, <2>3 DEF Held, Unrevoked
  <2> QED
    BY <2>1, <2>2, <2>4, PhaseOf, PhaseOfNext
<1>10. Ledger!FinishHandover(s)
  <2>1. s' = s
    BY <1>1, <1>5 DEF RotatedSession
  <2>2. Phase(s)' = "active"
    BY <1>8, PhaseOfNext
  <2>3. phases[s] = "handover"
    BY <1>2, <1>7 DEF phases
  <2> HIDE DEF s
  <2>4. phases' = [phases EXCEPT ![s] = "active"]
    BY <1>2, <1>9, <2>1, <2>2, OneMoves
  <2> QED
    BY <2>3, <2>4 DEF Ledger!FinishHandover, phases
<1> QED
  BY <1>2, <1>10 DEF Ledger!Next

(* A request that fails, or dies, after its claim leaves its session with   *)
(* no token; at any other await it leaves every session alone.              *)
LEMMA AbortFails ==
    ASSUME LInv, NEW r \in Requests, Abort(r)
    PROVE  Ledger!Next
<1> DEFINE s == RotatedSession(r)
<1>1. /\ pc[r] \in Awaits /\ pc' = [pc EXCEPT ![r] = "500"]
      /\ UNCHANGED <<rows, stored, birth>>
  BY DEF Abort, Answer, history
<1>2. /\ pc'[r] = "500"
      /\ \A q \in Requests \ {r} : pc'[q] = pc[q]
  BY <1>1 DEF LInv, IInv, TypeOK
<1>3. CASE pc[r] # "create"
  <2>1. \A x \in Tokens : Rotating(x)' <=> Rotating(x)
    BY <1>1, <1>2, <1>3, NoRotation
  <2> QED
    BY <1>1, <2>1, OnlyCloses DEF Unrevoked
<1>4. CASE pc[r] = "create"
  <2>1. s \in Tokens /\ Opened(s)
    BY <1>1, InFlight
  <2>2. Phase(s) = "handover"
    BY <1>4, <2>1, PhaseOf DEF Rotating, RotatedSession
  <2>3. Opened(s)' /\ ~Held(s)' /\ ~Rotating(s)' /\ s' = s
    <3>1. s' = s /\ Opened(s)'
      BY <1>1, <2>1 DEF RotatedSession, Opened
    <3>2. ~Held(s)'
      BY <1>1, <1>4, OneRotation DEF Held, Unrevoked, RotatedSession
    <3>3. ASSUME NEW q \in Requests, pc'[q] = "create"
          PROVE  birth'[stored'[q].id].session # s
      BY <1>1, <1>2, <1>4, <3>3, OneRotation DEF RotatedSession
    <3> HIDE DEF s
    <3> QED
      BY <3>1, <3>2, <3>3 DEF Rotating
  <2>4. Phase(s)' = "over"
    BY <2>3, PhaseOfNext
  <2>5. ASSUME NEW x \in Tokens \ {s}
        PROVE  Phase(x)' = Phase(x)
    <3>1. Rotating(x)' <=> Rotating(x)
      BY <1>1, <1>2 DEF Rotating, RotatedSession
    <3>2. /\ Opened(x)' <=> Opened(x)
          /\ Held(x)' <=> Held(x)
      BY <1>1 DEF Opened, Held, Unrevoked
    <3> QED
      BY <3>1, <3>2, PhaseOf, PhaseOfNext
  <2>6. phases[s] = "handover"
    BY <2>1, <2>2 DEF phases
  <2> HIDE DEF s
  <2>7. phases' = [phases EXCEPT ![s] = "over"]
    BY <2>1, <2>3, <2>4, <2>5, OneMoves
  <2>8. Ledger!FailHandover(s)
    BY <2>6, <2>7 DEF Ledger!FailHandover, phases
  <2> QED
    BY <2>1, <2>8 DEF Ledger!Next
<1> QED
  BY <1>3, <1>4

-----------------------------------------------------------------------------
(* The other steps: none of them inserts, claims or fails a rotation.       *)
LEMMA OtherStepsClose ==
    ASSUME LInv, [Next]_vars,
           \/ UNCHANGED vars \/ RemoveExpired \/ Tick
           \/ \E r \in Requests : \/ RefreshClaimLost(r) \/ RefreshChainMissing(r)
                                  \/ RefreshChain(r) \/ RefreshSweep(r)
           \/ \E r \in Requests, t \in Tokens :
                 \/ RefreshUnknown(r, t)
                 \/ \E next \in {"claim", "sweep", "401"} : RefreshFound(r, t, next)
           \/ \E t \in Tokens : Logout(t)
           \/ \E u \in Users : LogoutAll(u)
    PROVE  Ledger!Next
<1>1. birth' = birth
  BY DEF vars, codeVars, history, RemoveExpired, Tick, RefreshClaimLost,
         RefreshChainMissing, RefreshChain, RefreshSweep, RefreshUnknown,
         RefreshFound, Logout, LogoutAll
<1>2. \A q \in Requests : /\ pc'[q] = "create" <=> pc[q] = "create"
                          /\ pc[q] = "create" => stored'[q] = stored[q]
  BY DEF LInv, IInv, TypeOK, vars, codeVars, history, RemoveExpired, Tick,
         RefreshClaimLost, RefreshChainMissing, RefreshChain, RefreshSweep,
         RefreshUnknown, RefreshFound, Logout, LogoutAll, Answer
<1>3. \A x \in Tokens : Unrevoked(x)' => Unrevoked(x)
  <2> SUFFICES ASSUME NEW x \in Tokens, Unrevoked(x)'
               PROVE  Unrevoked(x)
    OBVIOUS
  <2>1. TypeOK /\ RequestsHoldIssued
    BY DEF LInv, IInv
  <2>2. ASSUME NEW r \in Requests, RefreshChain(r)
        PROVE  Unrevoked(x)
    BY <2>1, <2>2, ChainEffect DEF Unrevoked
  <2>3. ASSUME NEW u \in Users, RevokeAllForUser(u)
        PROVE  Unrevoked(x)
    BY <2>1, <2>3, RevokeEffect
  <2>4. ASSUME NEW r \in Requests, RefreshSweep(r)
        PROVE  Unrevoked(x)
    <3>1. stored[r].user \in Users
      BY <2>1, <2>4 DEF RefreshSweep, RequestsHoldIssued, TypeOK, Stored, Awaits
    <3> QED
      BY <2>3, <2>4, <3>1 DEF RefreshSweep
  <2>5. ASSUME NEW t \in Tokens, Logout(t)
        PROVE  Unrevoked(x)
    BY <2>1, <2>5, RevokeOneEffect DEF Logout, Unrevoked
  <2>6. ASSUME RemoveExpired
        PROVE  Unrevoked(x)
    BY <2>6 DEF RemoveExpired, Unrevoked
  <2>7. ASSUME rows' = rows
        PROVE  Unrevoked(x)
    BY <2>7 DEF Unrevoked
  <2> QED
    BY <2>2, <2>3, <2>4, <2>5, <2>6, <2>7
    DEF LogoutAll, vars, codeVars, Tick, RefreshClaimLost, RefreshChainMissing,
        RefreshUnknown, RefreshFound
<1>4. \A s \in Tokens : Rotating(s)' <=> Rotating(s)
  BY <1>1, <1>2, NoRotation
<1> QED
  BY <1>1, <1>3, <1>4, OnlyCloses

(* Every step of the handlers is a step of the ledger.                      *)
LEMMA LedgerStep == LInv /\ [Next]_vars => Ledger!Next
<1> SUFFICES ASSUME LInv, [Next]_vars
             PROVE  Ledger!Next
  OBVIOUS
<1> QED
  BY IssueOpens, ClaimBegins, CreateFinishes, AbortFails, OtherStepsClose, StepKinds
  DEF Quiet

-----------------------------------------------------------------------------
(* A session is named by its first token: logging in makes one, and a       *)
(* rotation passes the name on.                                             *)
LEMMA RootsStep == LInv /\ [Next]_vars => RootsAreFirst'
<1> SUFFICES ASSUME LInv, [Next]_vars
             PROVE  RootsAreFirst'
  OBVIOUS
<1>1. CASE birth' = birth
  BY <1>1 DEF LInv, RootsAreFirst, Opened
<1>2. ASSUME NEW r \in Requests, NEW t \in Tokens, NEW u \in Users, NEW s \in Tokens,
             NEW p \in Tokens \cup {Null}, CreateRefreshToken(r, t, u, s, p),
             s = t \/ Opened(s)
      PROVE  RootsAreFirst'
  <2>1. /\ birth[t] = Null /\ birth'[t] # Null /\ birth'[t].session = s
        /\ \A x \in Tokens \ {t} : birth'[x] = birth[x]
    BY <1>2, CreateEffect DEF LInv, IInv
  <2>2. \A x \in Tokens : birth[x] # Null =>
            birth[x].session \in Tokens /\ birth[x].session # t
    BY <2>1, InFlight DEF LInv, RootsAreFirst, Opened
  <2> QED
    BY <1>2, <2>1, <2>2 DEF LInv, RootsAreFirst, Opened
<1>3. ASSUME NEW r \in Requests, NEW u \in Users, NEW t \in Tokens, IssueTokens(r, u, t)
      PROVE  RootsAreFirst'
  BY <1>2, <1>3 DEF IssueTokens
<1>4. ASSUME NEW r \in Requests, NEW t \in Tokens, RefreshCreate(r, t)
      PROVE  RootsAreFirst'
  <2>1. /\ stored[r].id \in Tokens /\ stored[r].user \in Users
        /\ RotatedSession(r) \in Tokens /\ Opened(RotatedSession(r))
    <3>1. pc[r] = "create" /\ stored[r] \in Stored
      BY <1>4 DEF RefreshCreate, LInv, IInv, RequestsHoldIssued, TypeOK, Awaits
    <3> QED
      BY <3>1, InFlight DEF Awaits, Stored
  <2> QED
    BY <1>2, <1>4, <2>1 DEF RefreshCreate, RotatedSession
<1>5. \/ birth' = birth
      \/ \E r \in Requests, u \in Users, t \in Tokens : IssueTokens(r, u, t)
      \/ \E r \in Requests, t \in Tokens : RefreshCreate(r, t)
  BY StepKinds
  DEF Quiet, vars, codeVars, history, RemoveExpired, Tick, RefreshClaimLost,
      RefreshChainMissing, RefreshChain, RefreshSweep, RefreshUnknown,
      RefreshFound, RefreshClaim, Logout, LogoutAll, Abort
<1> QED
  BY <1>1, <1>3, <1>4, <1>5

(* ImplementsLedger, for any number of users, tokens and requests: whatever *)
(* the handlers, failures and cleanups do to the rows, each session is      *)
(* opened once, is handed over whole, and once over stays over.             *)
THEOREM TableImplementsLedger == Spec => ImplementsLedger
<1>1. Init => Ledger!Init
  BY DEF Init, Ledger!Init, Phase
<1>2. Init => RootsAreFirst
  BY DEF Init, RootsAreFirst
<1>3. LInv /\ [Next]_vars => LInv'
  BY IInvStep, RootsStep DEF LInv
<1>4. Init => LInv
  BY <1>2, IInvInit DEF LInv
<1>5. Spec => []LInv
  BY <1>3, <1>4, PTL DEF Spec
<1>6. LInv /\ [Next]_vars => [Ledger!Next]_phases
  BY LedgerStep
<1> QED
  BY <1>1, <1>5, <1>6, PTL DEF Spec, ImplementsLedger, Ledger!Spec, phases

-----------------------------------------------------------------------------
(* A session is one line of tokens.                                         *)

\* What a token is to the token it replaced: that one is of the same session,
\* spent for good, and no request is about to replace it again.
Follows(t, p) ==
    /\ birth[t].session # t
    /\ birth[p] # Null /\ birth[p].session = birth[t].session
    /\ ~Unrevoked(p)
    /\ \A r \in Requests : pc[r] = "create" => stored[r].id # p

\* A token that replaced none is the first of its session.
ParentOK(t) ==
    \/ birth[t].parent = Null /\ birth[t].session = t
    \/ \E p \in Tokens : birth[t].parent = p /\ Follows(t, p)

ParentsOK == \A t \in Tokens : birth[t] # Null => ParentOK(t)

RInv == LInv /\ ParentsOK /\ EachTokenIsRotatedOnce

(* A request is between claim and insert because it was, or because it      *)
(* claims now an unrevoked row.                                             *)
LEMMA CreateHasClaimed ==
    ASSUME IInv, [Next]_vars, NEW r \in Requests, pc'[r] = "create"
    PROVE  /\ pc[r] = "create" \/ (pc[r] = "claim" /\ Unrevoked(stored[r].id))
           /\ stored'[r] = stored[r]
<1> USE DEF IInv
<1>1. CASE Quiet
  BY <1>1, QuietEffect
<1>2. ASSUME NEW q \in Requests, NEW status \in {"200", "401", "claim", "sweep", "chain"},
             Answer(q, status), stored' = stored \/ \E x : stored' = [stored EXCEPT ![q] = x]
      PROVE  pc[r] = "create" /\ stored'[r] = stored[r]
  BY <1>2 DEF Answer, TypeOK
<1>3. CASE pc' = pc /\ stored' = stored
  BY <1>3
<1>4. ASSUME NEW q \in Requests, RefreshClaim(q)
      PROVE  /\ pc[r] = "create" \/ (pc[r] = "claim" /\ Unrevoked(stored[r].id))
             /\ stored'[r] = stored[r]
  BY <1>4 DEF RefreshClaim, Answer, TypeOK
<1> QED
  BY <1>1, <1>2, <1>3, <1>4, StepKinds
  DEF IssueTokens, RefreshFound, RefreshCreate, RefreshChain, RefreshSweep, Logout, LogoutAll

(* What is spent stays spent.                                               *)
LEMMA SpentStaysSpent ==
    ASSUME IInv, [Next]_vars, NEW t \in Tokens, birth[t] # Null, ~Unrevoked(t)
    PROVE  ~Unrevoked(t)'
BY RowsOnlyDie DEF IInv, Issued, Unrevoked

(* An insert for a parent, or for none.                                     *)
LEMMA InsertKeepsLine ==
    ASSUME RInv, [Next]_vars, NEW r \in Requests, NEW t \in Tokens, NEW u \in Users,
           NEW s \in Tokens, NEW p \in Tokens \cup {Null}, CreateRefreshToken(r, t, u, s, p),
           \A q \in Requests : pc'[q] = "create" =>
               q # r /\ pc[q] = "create" /\ stored'[q] = stored[q],
           \/ p = Null /\ s = t
           \/ p # Null /\ pc[r] = "create" /\ p = stored[r].id /\ s = birth[p].session
    PROVE  ParentsOK' /\ EachTokenIsRotatedOnce'
<1> USE NullAssumption DEF RInv, LInv
<1>1. /\ birth[t] = Null /\ birth'[t] # Null /\ birth'[t].session = s /\ birth'[t].parent = p
      /\ \A x \in Tokens \ {t} : birth'[x] = birth[x] /\ rows'[x] = rows[x]
  BY CreateEffect DEF IInv
<1>2. ASSUME p # Null
      PROVE  /\ p \in Tokens /\ birth[p] # Null /\ p # t /\ s # t /\ ~Unrevoked(p)
             /\ \A x \in Tokens : birth[x] # Null => birth[x].parent # p
             /\ \A q \in Requests : pc[q] = "create" /\ stored[q].id = p => q = r
  <2>1. /\ pc[r] = "create" /\ p = stored[r].id /\ birth[p] # Null /\ s = birth[p].session
        /\ s \in Tokens /\ birth[s] # Null
    BY <1>2, InFlight DEF Awaits, RotatedSession, Opened
  <2>2. ~Unrevoked(p)
    BY <2>1, <1>2 DEF IInv, ClaimsAreExclusive, Claimed, ClaimOK, RequestsHoldIssued, Awaits
  <2>3. \A q \in Requests : pc[q] = "create" /\ stored[q].id = p => q = r
    BY <2>1 DEF IInv, OneHolder
  <2>4. \A x \in Tokens : birth[x] # Null => birth[x].parent # p
    BY <1>2, <2>1 DEF ParentsOK, ParentOK, Follows
  <2> QED
    BY <1>1, <1>2, <2>1, <2>2, <2>3, <2>4
<1>3. ASSUME NEW x \in Tokens, birth'[x] # Null
      PROVE  ParentOK(x)'
  <2>1. CASE x = t /\ p = Null
    BY <1>1, <2>1 DEF ParentOK
  <2>2. CASE x = t /\ p # Null
    <3>1. /\ birth'[p] = birth[p] /\ rows'[p] = rows[p] /\ birth[p].session = s
          /\ \A q \in Requests : pc'[q] = "create" => stored'[q].id # p
      BY <1>1, <1>2, <2>2
    <3>2. Follows(x, p)'
      BY <1>1, <1>2, <2>2, <3>1 DEF Unrevoked, Follows
    <3> QED
      BY <1>1, <1>2, <2>2, <3>2 DEF ParentOK
  <2>3. CASE x # t
    <3>1. birth'[x] = birth[x] /\ birth[x] # Null /\ ParentOK(x)
      BY <1>1, <1>3, <2>3 DEF ParentsOK
    <3>2. ASSUME NEW y \in Tokens, birth[x].parent = y, Follows(x, y)
          PROVE  ParentOK(x)'
      <4>1. birth'[y] = birth[y] /\ rows'[y] = rows[y]
        BY <1>1, <3>2 DEF Follows
      <4>2. \A q \in Requests : pc'[q] = "create" => stored'[q].id # y
        BY <3>2 DEF Follows
      <4>3. Follows(x, y)'
        BY <3>1, <3>2, <4>1, <4>2 DEF Follows, Unrevoked
      <4> QED
        BY <3>1, <3>2, <4>3 DEF ParentOK
    <3> QED
      BY <3>1, <3>2 DEF ParentOK
  <2> QED
    BY <2>1, <2>2, <2>3
<1>4. EachTokenIsRotatedOnce'
  BY <1>1, <1>2 DEF EachTokenIsRotatedOnce
<1> QED
  BY <1>3, <1>4 DEF ParentsOK

(* Only a login and a rotation issue a token.                               *)
LEMMA BirthSteps ==
    ASSUME [Next]_vars
    PROVE  \/ birth' = birth
           \/ \E r \in Requests, u \in Users, t \in Tokens : IssueTokens(r, u, t)
           \/ \E r \in Requests, t \in Tokens : RefreshCreate(r, t)
BY StepKinds
DEF Quiet, vars, codeVars, history, RemoveExpired, Tick, RefreshClaimLost,
    RefreshChainMissing, RefreshChain, RefreshSweep, RefreshUnknown,
    RefreshFound, RefreshClaim, Logout, LogoutAll, Abort

LEMMA LineStep == RInv /\ [Next]_vars => RInv'
<1> SUFFICES ASSUME RInv, [Next]_vars
             PROVE  RInv'
  OBVIOUS
<1> USE DEF RInv
<1>1. LInv'
  BY IInvStep, RootsStep DEF LInv
<1>2. CASE birth' = birth
  <2>1. EachTokenIsRotatedOnce'
    BY <1>2 DEF EachTokenIsRotatedOnce
  <2>2. ASSUME NEW p \in Tokens, birth[p] # Null, ~Unrevoked(p),
               \A r \in Requests : pc[r] = "create" => stored[r].id # p
        PROVE  /\ ~Unrevoked(p)'
               /\ \A r \in Requests : pc'[r] = "create" => stored'[r].id # p
    BY <2>2, SpentStaysSpent, CreateHasClaimed DEF LInv
  <2>3. ParentsOK'
    BY <1>2, <2>2 DEF ParentsOK, ParentOK, Follows
  <2> QED
    BY <1>1, <2>1, <2>3
<1>3. ASSUME NEW r \in Requests, NEW u \in Users, NEW t \in Tokens, IssueTokens(r, u, t)
      PROVE  RInv'
  <2>1. \A q \in Requests : pc'[q] = "create" =>
            q # r /\ pc[q] = "create" /\ stored'[q] = stored[q]
    BY <1>3 DEF IssueTokens, Answer, LInv, IInv, TypeOK
  <2> QED
    BY <1>1, <1>3, <2>1, InsertKeepsLine DEF IssueTokens
<1>4. ASSUME NEW r \in Requests, NEW t \in Tokens, RefreshCreate(r, t)
      PROVE  RInv'
  <2>1. \A q \in Requests : pc'[q] = "create" =>
            q # r /\ pc[q] = "create" /\ stored'[q] = stored[q]
    BY <1>4 DEF RefreshCreate, Answer, LInv, IInv, TypeOK
  <2>2. /\ pc[r] = "create" /\ stored[r].id \in Tokens /\ stored[r].user \in Users
        /\ birth[stored[r].id].session \in Tokens /\ stored[r].id # Null
    <3>1. pc[r] = "create" /\ stored[r] \in Stored
      BY <1>4 DEF RefreshCreate, LInv, IInv, RequestsHoldIssued, TypeOK, Awaits
    <3> QED
      BY <3>1, InFlight, NullAssumption DEF Awaits, Stored, RotatedSession
  <2> QED
    BY <1>1, <1>4, <2>1, <2>2, InsertKeepsLine DEF RefreshCreate
<1> QED
  BY <1>2, <1>3, <1>4, BirthSteps

LEMMA LineInit == Init => RInv
BY IInvInit, NullAssumption
DEF Init, RInv, LInv, RootsAreFirst, ParentsOK, EachTokenIsRotatedOnce

(* A token is replaced by one token at most, however many requests race     *)
(* with it (the conditional update in refresh()).                           *)
THEOREM TokensAreRotatedOnce == Spec => []EachTokenIsRotatedOnce
<1>1. RInv /\ UNCHANGED vars => RInv'
  BY LineStep
<1> QED
  BY LineInit, LineStep, <1>1, PTL DEF Spec, RInv

-----------------------------------------------------------------------------
\* The tokens of c were issued one for the other, from the login on; b is what
\* each was issued as.
IsLine(b, c, n) ==
    /\ c \in [0..n -> Tokens]
    /\ \A i \in 0..n : b[c[i]] # Null /\ b[c[i]].session = c[0]
    /\ \A i \in Nat : i + 1 \in 0..n => b[c[i + 1]].parent = c[i]

HasLine(b, t) == \E n \in Nat : \E c \in [0..n -> Tokens] : IsLine(b, c, n) /\ c[n] = t

TokensHaveLines == \A t \in Tokens : birth[t] # Null => HasLine(birth, t)

\* All tokens of a session are on one line.
SessionsAreLines ==
    \A x, y \in Tokens :
        birth[x] # Null /\ birth[y] # Null /\ birth[x].session = birth[y].session =>
            \E n \in Nat : \E c \in [0..n -> Tokens] :
                IsLine(birth, c, n) /\ \E i, j \in 0..n : c[i] = x /\ c[j] = y

(* A line stays a line when more tokens are issued.                         *)
LEMMA LineKept ==
    ASSUME NEW b, NEW e, \A t \in Tokens : b[t] # Null => e[t] = b[t],
           NEW t \in Tokens, HasLine(b, t)
    PROVE  HasLine(e, t)
<1>0. PICK n \in Nat : \E c \in [0..n -> Tokens] : IsLine(b, c, n) /\ c[n] = t
  BY DEF HasLine
<1>1. PICK c \in [0..n -> Tokens] : IsLine(b, c, n) /\ c[n] = t
  BY <1>0
<1>2. \A i \in 0..n : c[i] \in Tokens /\ e[c[i]] = b[c[i]]
  BY <1>1 DEF IsLine
<1>3. \A i \in Nat : i + 1 \in 0..n => e[c[i + 1]].parent = c[i]
  BY <1>1, <1>2 DEF IsLine
<1>4. IsLine(e, c, n)
  BY <1>1, <1>2, <1>3 DEF IsLine
<1> QED
  BY <1>1, <1>4 DEF HasLine

(* A login begins a line.                                                   *)
LEMMA LineBegins ==
    ASSUME NEW b, NEW t \in Tokens, b[t] # Null, b[t].session = t
    PROVE  HasLine(b, t)
<1> DEFINE c == [i \in 0..0 |-> t]
<1>1. c \in [0..0 -> Tokens] /\ \A i \in 0..0 : c[i] = t
  OBVIOUS
<1>2. 0 \in 0..0 /\ \A i \in Nat : i + 1 \notin 0..0
  OBVIOUS
<1> HIDE DEF c
<1>3. IsLine(b, c, 0) /\ c[0] = t
  BY <1>1, <1>2 DEF IsLine
<1> QED
  BY <1>1, <1>3 DEF HasLine

(* A line grows by the token that replaces its last.                        *)
LEMMA LineGrows ==
    ASSUME NEW b, NEW t \in Tokens, NEW p \in Tokens, HasLine(b, p),
           b[t] # Null, b[t].parent = p, b[t].session = b[p].session
    PROVE  HasLine(b, t)
<1>0. PICK n \in Nat : \E c \in [0..n -> Tokens] : IsLine(b, c, n) /\ c[n] = p
  BY DEF HasLine
<1>1. PICK c \in [0..n -> Tokens] : IsLine(b, c, n) /\ c[n] = p
  BY <1>0
<1> DEFINE d == [i \in 0..(n + 1) |-> IF i = n + 1 THEN t ELSE c[i]]
<1>2. /\ d \in [0..(n + 1) -> Tokens] /\ d[n + 1] = t
      /\ \A i \in 0..n : d[i] = c[i]
  OBVIOUS
<1> HIDE DEF d
<1>3. \A i \in 0..(n + 1) : b[d[i]] # Null /\ b[d[i]].session = d[0]
  <2>1. 0 \in 0..n /\ n \in 0..n /\ \A i \in 0..(n + 1) : i \in 0..n \/ i = n + 1
    OBVIOUS
  <2>2. c[0] = d[0] /\ b[t].session = c[0]
    BY <1>1, <1>2, <2>1 DEF IsLine
  <2>3. \A i \in 0..n : b[d[i]] # Null /\ b[d[i]].session = d[0]
    BY <1>1, <1>2, <2>2 DEF IsLine
  <2> QED
    BY <1>2, <2>1, <2>2, <2>3
<1>4. ASSUME NEW i \in Nat, i + 1 \in 0..(n + 1)
      PROVE  b[d[i + 1]].parent = d[i]
  <2>1. CASE i = n
    BY <1>1, <1>2, <2>1
  <2>2. CASE i # n
    <3>1. i + 1 \in 0..n /\ i \in 0..n
      BY <1>4, <2>2
    <3> QED
      BY <1>1, <1>2, <3>1 DEF IsLine
  <2> QED
    BY <2>1, <2>2
<1>5. IsLine(b, d, n + 1) /\ n + 1 \in Nat
  BY <1>2, <1>3, <1>4 DEF IsLine
<1> QED
  BY <1>2, <1>5 DEF HasLine

(* Two lines of one session agree as far as both go, by induction along     *)
(* them: a token has one replacement at most.                               *)
LEMMA LinesAgree ==
    ASSUME EachTokenIsRotatedOnce,
           NEW n \in Nat, NEW c \in [0..n -> Tokens], IsLine(birth, c, n),
           NEW m \in Nat, NEW d \in [0..m -> Tokens], IsLine(birth, d, m),
           c[0] = d[0]
    PROVE  \A i \in Nat : i <= n /\ i <= m => c[i] = d[i]
<1> DEFINE T == {i \in Nat : i <= n /\ i <= m => c[i] = d[i]}
<1>1. 0 \in T
  OBVIOUS
<1>2. ASSUME NEW i \in Nat, i \in T
      PROVE  i + 1 \in T
  <2>1. SUFFICES ASSUME i + 1 <= n, i + 1 <= m
                 PROVE  c[i + 1] = d[i + 1]
    OBVIOUS
  <2>2. /\ i + 1 \in 0..n /\ i + 1 \in 0..m /\ i \in 0..n
        /\ c[i] = d[i] /\ c[i] \in Tokens /\ c[i + 1] \in Tokens /\ d[i + 1] \in Tokens
    BY <1>2, <2>1
  <2>3. /\ birth[c[i + 1]] # Null /\ birth[c[i + 1]].parent = c[i]
        /\ birth[d[i + 1]] # Null /\ birth[d[i + 1]].parent = c[i]
    BY <2>2 DEF IsLine
  <2>4. c[i] # Null
    BY <2>2, NullAssumption
  <2> QED
    BY <2>2, <2>3, <2>4 DEF EachTokenIsRotatedOnce
<1> HIDE DEF T
<1>3. Nat \subseteq T
  BY <1>1, <1>2, NatSetInduction
<1> QED
  BY <1>3 DEF T

(* What a token was issued as is never changed, and one that is issued for  *)
(* another is issued for a token that exists.                               *)
LEMMA BirthsStep ==
    ASSUME RInv, [Next]_vars
    PROVE  /\ \A x \in Tokens : birth[x] # Null => birth'[x] = birth[x]
           /\ \A x \in Tokens : birth[x] = Null /\ birth'[x] # Null =>
                 birth'[x].parent \in {Null} \cup {y \in Tokens : birth[y] # Null}
<1> USE DEF RInv, LInv
<1>1. ASSUME NEW r \in Requests, NEW t \in Tokens, NEW u \in Users, NEW s \in Tokens,
             NEW p \in Tokens \cup {Null}, CreateRefreshToken(r, t, u, s, p),
             p = Null \/ birth[p] # Null
      PROVE  /\ \A x \in Tokens : birth[x] # Null => birth'[x] = birth[x]
             /\ \A x \in Tokens : birth[x] = Null /\ birth'[x] # Null =>
                   birth'[x].parent \in {Null} \cup {y \in Tokens : birth[y] # Null}
  BY <1>1, CreateEffect DEF IInv
<1>2. CASE birth' = birth
  BY <1>2
<1>3. ASSUME NEW r \in Requests, NEW u \in Users, NEW t \in Tokens, IssueTokens(r, u, t)
      PROVE  CreateRefreshToken(r, t, u, t, Null)
  BY <1>3 DEF IssueTokens
<1>4. ASSUME NEW r \in Requests, NEW t \in Tokens, RefreshCreate(r, t)
      PROVE  /\ CreateRefreshToken(r, t, stored[r].user, birth[stored[r].id].session,
                                   stored[r].id)
             /\ stored[r].id \in Tokens /\ stored[r].user \in Users
             /\ birth[stored[r].id] # Null /\ birth[stored[r].id].session \in Tokens
  <2>1. pc[r] = "create" /\ stored[r] \in Stored
    BY <1>4 DEF RefreshCreate, IInv, RequestsHoldIssued, TypeOK, Awaits
  <2> QED
    BY <1>4, <2>1, InFlight DEF RefreshCreate, Awaits, Stored, RotatedSession, Opened
<1> QED
  BY <1>1, <1>2, <1>3, <1>4, BirthSteps

(* Every token has its line, after every step.                              *)
LEMMA LinesStep == RInv /\ TokensHaveLines /\ [Next]_vars => TokensHaveLines'
<1> SUFFICES ASSUME RInv, TokensHaveLines, [Next]_vars, NEW t \in Tokens, birth'[t] # Null
             PROVE  HasLine(birth', t)
  BY DEF TokensHaveLines
<1>1. ParentOK(t)'
  BY LineStep DEF RInv, ParentsOK
<1>2. ASSUME NEW x \in Tokens, birth[x] # Null
      PROVE  HasLine(birth', x)
  BY <1>2, BirthsStep, LineKept DEF TokensHaveLines
<1>3. ASSUME birth[t] = Null, birth'[t].parent = Null, birth'[t].session = t
      PROVE  HasLine(birth', t)
  BY <1>3, LineBegins
<1>4. ASSUME birth[t] = Null, NEW p \in Tokens, birth'[t].parent = p, Follows(t, p)'
      PROVE  HasLine(birth', t)
  <2>1. birth'[p].session = birth'[t].session /\ birth[p] # Null
    BY <1>4, BirthsStep, NullAssumption DEF Follows
  <2> QED
    BY <1>2, <1>4, <2>1, LineGrows
<1> QED
  BY <1>1, <1>2, <1>3, <1>4 DEF ParentOK

(* Any two tokens of a session are on one line of replacements that starts  *)
(* at its login: no interleaving of refreshes makes a session fork.         *)
THEOREM SessionsNeverFork == Spec => []SessionsAreLines
<1>1. Init => TokensHaveLines
  BY DEF Init, TokensHaveLines
<1>2. ASSUME RInv, TokensHaveLines
      PROVE  SessionsAreLines
  <2> SUFFICES ASSUME NEW x \in Tokens, NEW y \in Tokens, birth[x] # Null, birth[y] # Null,
                      birth[x].session = birth[y].session
               PROVE  \E n \in Nat : \E c \in [0..n -> Tokens] :
                          IsLine(birth, c, n) /\ \E i, j \in 0..n : c[i] = x /\ c[j] = y
    BY DEF SessionsAreLines
  <2>a. PICK n \in Nat : \E c \in [0..n -> Tokens] : IsLine(birth, c, n) /\ c[n] = x
    BY <1>2 DEF TokensHaveLines, HasLine
  <2>1. PICK c \in [0..n -> Tokens] : IsLine(birth, c, n) /\ c[n] = x
    BY <2>a
  <2>b. PICK m \in Nat : \E d \in [0..m -> Tokens] : IsLine(birth, d, m) /\ d[m] = y
    BY <1>2 DEF TokensHaveLines, HasLine
  <2>2. PICK d \in [0..m -> Tokens] : IsLine(birth, d, m) /\ d[m] = y
    BY <2>b
  <2>3. n \in 0..n /\ m \in 0..m
    OBVIOUS
  <2>4. c[0] = d[0]
    BY <2>1, <2>2, <2>3 DEF IsLine
  <2>5. \A i \in Nat : i <= n /\ i <= m => c[i] = d[i]
    BY <1>2, <2>1, <2>2, <2>4, LinesAgree DEF RInv
  <2>6. CASE n <= m
    <3>1. n \in 0..m /\ d[n] = x
      BY <2>1, <2>5, <2>6
    <3> QED
      BY <2>2, <2>3, <3>1
  <2>7. CASE m <= n
    <3>1. m \in 0..n /\ c[m] = y
      BY <2>2, <2>5, <2>7
    <3> QED
      BY <2>1, <2>3, <3>1
  <2> QED
    BY <2>6, <2>7
<1>3. RInv /\ TokensHaveLines /\ [Next]_vars => (RInv /\ TokensHaveLines)'
  BY LineStep, LinesStep
<1>4. RInv /\ TokensHaveLines => SessionsAreLines
  BY <1>2
<1> QED
  BY <1>1, <1>3, <1>4, LineInit, PTL DEF Spec

(* A session that is over, by a logout, a replay, the expiry of its token   *)
(* or a rotation that failed half way, is over for good: no later answer,   *)
(* retry or cleanup gives it a token again.                                 *)
THEOREM OverIsOver ==
    Spec => [][\A s \in Tokens : Phase(s) = "over" => Phase(s)' = "over"]_vars
<1>1. ASSUME LInv, [Next]_vars, NEW s \in Tokens, Phase(s) = "over"
      PROVE  Phase(s)' = "over"
  <2>1. phases[s] = "over" /\ (phases'[s] = "over" => Phase(s)' = "over")
    BY <1>1 DEF phases
  <2>2. Ledger!Next
    BY <1>1, LedgerStep
  <2>3. phases'[s] = "over"
    BY <2>1, <2>2, <1>1
    DEF Ledger!Next, Ledger!Open, Ledger!BeginHandover, Ledger!FinishHandover,
        Ledger!FailHandover, Ledger!Close, phases
  <2> QED
    BY <2>1, <2>3
<1>2. LInv /\ [Next]_vars => LInv'
  BY IInvStep, RootsStep DEF LInv
<1>3. Init => LInv
  BY LineInit DEF RInv
<1>4. LInv /\ [Next]_vars
      => [\A s \in Tokens : Phase(s) = "over" => Phase(s)' = "over"]_vars
  BY <1>1
<1> QED
  BY <1>2, <1>3, <1>4, PTL DEF Spec

-----------------------------------------------------------------------------
(* What a sweep is for.                                                     *)

\* A refresh claimed t, or its session was ended or swept.
Provoked(t) == t \in spent \/ birth[t].session \in ended \cup swept

\* What is revoked, and what a request is about to sweep for, was provoked.
RevokedForCause ==
    /\ \A t \in Tokens : rows[t] # Null /\ rows[t].revoked => Provoked(t)
    /\ \A r \in Requests : pc[r] = "sweep" => Provoked(stored[r].id)

\* A request about to sweep found a token that was rotated, or whose session
\* had been revoked.
SweepsAreProvoked ==
    \A r \in Requests : pc[r] = "sweep" => Provoked(stored[r].id)

(* What a token was issued as is never changed.                             *)
LEMMA BirthsKept ==
    ASSUME IInv, [Next]_vars, NEW t \in Tokens, birth[t] # Null
    PROVE  birth'[t] = birth[t]
<1>1. ASSUME NEW r \in Requests, NEW x \in Tokens, NEW u, NEW s, NEW p,
             CreateRefreshToken(r, x, u, s, p)
      PROVE  birth'[t] = birth[t]
  BY <1>1 DEF CreateRefreshToken, IInv, TypeOK
<1> QED
  BY <1>1, BirthSteps DEF IssueTokens, RefreshCreate

(* What provokes a sweep is never taken back.                               *)
LEMMA ProvokedStays ==
    ASSUME IInv, [Next]_vars, NEW t \in Tokens, birth[t] # Null, Provoked(t)
    PROVE  Provoked(t)'
<1>1. spent \subseteq spent' /\ ended \subseteq ended' /\ swept \subseteq swept'
  BY Zenon
  DEF Next, Refresh, IssueTokens, RefreshUnknown, RefreshReused, RefreshExpired,
      RefreshFresh, RefreshFound, RefreshClaim, RefreshClaimLost, RefreshCreate,
      RefreshChain, RefreshChainMissing, RefreshSweep, Abort, Logout, LogoutAll,
      RevokeAllForUser, RemoveExpired, Tick, vars, codeVars, history
<1>2. birth'[t] = birth[t]
  BY BirthsKept
<1> QED
  BY <1>1, <1>2 DEF Provoked

(* A request that is about to sweep was before, or finds a revoked row.     *)
LEMMA SweepHasFound ==
    ASSUME IInv, [Next]_vars, NEW r \in Requests, pc'[r] = "sweep"
    PROVE  \/ pc[r] = "sweep" /\ stored'[r] = stored[r]
           \/ \E t \in Tokens : RefreshReused(r, t)
<1> USE DEF IInv
<1>1. CASE Quiet
  BY <1>1, QuietEffect
<1>2. ASSUME NEW q \in Requests, NEW t \in Tokens, RefreshFound(q, t, "sweep"), rows[t].revoked
      PROVE  \/ pc[r] = "sweep" /\ stored'[r] = stored[r]
             \/ \E x \in Tokens : RefreshReused(r, x)
  <2>1. CASE q = r
    BY <1>2, <2>1 DEF RefreshReused
  <2>2. CASE q # r
    BY <1>2, <2>2 DEF RefreshFound, Answer, TypeOK
  <2> QED
    BY <2>1, <2>2
<1>3. ASSUME NEW q \in Requests, NEW t \in Tokens, NEW next \in {"claim", "401"},
             RefreshFound(q, t, next)
      PROVE  pc[r] = "sweep" /\ stored'[r] = stored[r]
  BY <1>3 DEF RefreshFound, Answer, TypeOK
<1>4. ASSUME NEW q \in Requests, NEW status \in {"200", "401", "create", "chain"},
             Answer(q, status), stored' = stored
      PROVE  pc[r] = "sweep" /\ stored'[r] = stored[r]
  BY <1>4 DEF Answer, TypeOK
<1>5. CASE pc' = pc /\ stored' = stored
  BY <1>5
<1>6. \/ \E q \in Requests, t \in Tokens, next \in {"claim", "401"} : RefreshFound(q, t, next)
      \/ \E q \in Requests, t \in Tokens : RefreshFound(q, t, "sweep") /\ rows[t].revoked
      \/ Quiet
      \/ \E q \in Requests, u \in Users, t \in Tokens : IssueTokens(q, u, t)
      \/ \E q \in Requests : RefreshClaim(q) \/ RefreshChain(q) \/ RefreshSweep(q)
      \/ \E q \in Requests, t \in Tokens : RefreshCreate(q, t)
      \/ \E t \in Tokens : Logout(t)
      \/ \E u \in Users : LogoutAll(u)
  BY DEF Next, Refresh, Quiet, RefreshReused, RefreshExpired, RefreshFresh
<1> QED
  BY <1>1, <1>2, <1>3, <1>4, <1>5, <1>6
  DEF IssueTokens, RefreshClaim, RefreshCreate, RefreshChain, RefreshSweep, Logout, LogoutAll

(* A row that a step revokes is claimed, or its session ended or swept.     *)
LEMMA RevokingProvokes ==
    ASSUME IInv, [Next]_vars, NEW t \in Tokens, rows[t] # Null, ~rows[t].revoked,
           rows'[t] # Null, rows'[t].revoked
    PROVE  Provoked(t)'
<1> USE NullAssumption DEF IInv
<1>0. birth[t] # Null /\ birth'[t] = birth[t] /\ birth[t].user = rows[t].user
      /\ birth[t].session \in Tokens
  <2>1. birth[t] # Null /\ birth[t].user = rows[t].user
    BY DEF RowsMatchBirth
  <2> QED
    BY <2>1, BirthsKept DEF TypeOK, Birth
<1>1. CASE Quiet
  BY <1>1, QuietEffect
<1>2. ASSUME NEW r \in Requests, NEW u \in Users, NEW x \in Tokens, IssueTokens(r, u, x)
      PROVE  FALSE
  BY <1>0, <1>2, CreateEffect DEF IssueTokens
<1>3. ASSUME NEW r \in Requests, NEW x \in Tokens, RefreshCreate(r, x)
      PROVE  FALSE
  BY <1>0, <1>3, CreateEffect
  DEF RefreshCreate, RequestsHoldIssued, TypeOK, Stored, Birth, Awaits
<1>4. ASSUME NEW r \in Requests, NEW x \in Tokens, NEW next \in {"claim", "sweep", "401"},
             RefreshFound(r, x, next)
      PROVE  FALSE
  BY <1>4 DEF RefreshFound
<1>5. ASSUME NEW r \in Requests, RefreshClaim(r)
      PROVE  Provoked(t)'
  <2>1. stored[r].id \in Tokens
    BY <1>5 DEF RefreshClaim, RequestsHoldIssued, TypeOK, Stored, Awaits
  <2>2. stored[r].id = t
    BY <1>5, <2>1, RevokeOneEffect DEF RefreshClaim
  <2> QED
    BY <1>5, <2>2 DEF RefreshClaim, Provoked
<1>6. ASSUME NEW r \in Requests, RefreshChain(r)
      PROVE  FALSE
  BY <1>6, ChainEffect
<1>7. ASSUME NEW u \in Users, RevokeAllForUser(u)
      PROVE  Provoked(t)'
  <2>1. rows[t].user = u
    BY <1>7, RevokeEffect DEF Unrevoked
  <2>2. birth[t].session \in SessionsOf(u)
    BY <1>0, <2>1 DEF SessionsOf
  <2> QED
    BY <1>0, <1>7, <2>2 DEF RevokeAllForUser, Provoked
<1>8. ASSUME NEW x \in Tokens, Logout(x)
      PROVE  Provoked(t)'
  <2>1. x = t
    BY <1>8, RevokeOneEffect DEF Logout
  <2> QED
    BY <1>0, <1>8, <2>1 DEF Logout, Provoked
<1>9. ASSUME NEW r \in Requests, RefreshSweep(r)
      PROVE  stored[r].user \in Users
  BY <1>9 DEF RefreshSweep, RequestsHoldIssued, TypeOK, Stored, Awaits
<1> QED
  BY <1>1, <1>2, <1>3, <1>4, <1>5, <1>6, <1>7, <1>8, <1>9, StepKinds
  DEF RefreshSweep, LogoutAll

(* A row that a step inserts is not revoked.                                *)
LEMMA NewRows ==
    ASSUME IInv, [Next]_vars, NEW t \in Tokens, rows[t] = Null, rows'[t] # Null
    PROVE  ~rows'[t].revoked
<1> USE NullAssumption DEF IInv
<1>1. CASE Quiet
  BY <1>1, QuietEffect
<1>2. ASSUME NEW r \in Requests, NEW u \in Users, NEW x \in Tokens, IssueTokens(r, u, x)
      PROVE  ~rows'[t].revoked
  BY <1>2, CreateEffect DEF IssueTokens
<1>3. ASSUME NEW r \in Requests, NEW x \in Tokens, RefreshCreate(r, x)
      PROVE  ~rows'[t].revoked
  BY <1>3, CreateEffect
  DEF RefreshCreate, RequestsHoldIssued, TypeOK, Stored, Birth, Awaits
<1>4. ASSUME NEW r \in Requests, NEW x \in Tokens, NEW next \in {"claim", "sweep", "401"},
             RefreshFound(r, x, next)
      PROVE  FALSE
  BY <1>4 DEF RefreshFound
<1>5. ASSUME NEW x \in Tokens, Unrevoked(x), rows' = [rows EXCEPT ![x].revoked = TRUE]
      PROVE  FALSE
  BY <1>5, RevokeOneEffect DEF Unrevoked
<1>6. ASSUME NEW r \in Requests, RefreshClaim(r)
      PROVE  stored[r].id \in Tokens
  BY <1>6 DEF RefreshClaim, RequestsHoldIssued, TypeOK, Stored, Awaits
<1>7. ASSUME NEW r \in Requests, RefreshChain(r)
      PROVE  FALSE
  BY <1>7, ChainEffect
<1>8. ASSUME NEW u \in Users, RevokeAllForUser(u)
      PROVE  FALSE
  BY <1>8, RevokeEffect
<1>9. ASSUME NEW r \in Requests, RefreshSweep(r)
      PROVE  stored[r].user \in Users
  BY <1>9 DEF RefreshSweep, RequestsHoldIssued, TypeOK, Stored, Awaits
<1> QED
  BY <1>1, <1>2, <1>3, <1>4, <1>5, <1>6, <1>7, <1>8, <1>9, StepKinds
  DEF RefreshClaim, RefreshSweep, Logout, LogoutAll

(* So every revoked row, and every request about to sweep, has its cause.   *)
LEMMA CauseStep == IInv /\ RevokedForCause /\ [Next]_vars => RevokedForCause'
<1> SUFFICES ASSUME IInv, RevokedForCause, [Next]_vars
             PROVE  RevokedForCause'
  OBVIOUS
<1>1. ASSUME NEW t \in Tokens, rows'[t] # Null, rows'[t].revoked
      PROVE  Provoked(t)'
  <2>1. CASE birth[t] = Null
    <3>1. rows[t] = Null
      BY <2>1 DEF IInv, RowsMatchBirth
    <3> QED
      BY <1>1, <3>1, NewRows
  <2>2. CASE birth[t] # Null
    <3>1. rows[t] # Null
      BY <1>1, <2>2, RowsOnlyDie DEF IInv, Issued
    <3>2. CASE rows[t].revoked
      BY <2>2, <3>1, <3>2, ProvokedStays DEF RevokedForCause
    <3>3. CASE ~rows[t].revoked
      BY <1>1, <3>1, <3>3, RevokingProvokes
    <3> QED
      BY <3>2, <3>3
  <2> QED
    BY <2>1, <2>2
<1>2. ASSUME NEW r \in Requests, pc'[r] = "sweep"
      PROVE  Provoked(stored[r].id)'
  <2>1. CASE pc[r] = "sweep" /\ stored'[r] = stored[r]
    <3>1. stored[r].id \in Tokens /\ birth[stored[r].id] # Null /\ Provoked(stored[r].id)
      BY <2>1 DEF RevokedForCause, IInv, RequestsHoldIssued, TypeOK, Stored, Awaits
    <3> QED
      BY <2>1, <3>1, ProvokedStays DEF Provoked
  <2>2. ASSUME NEW t \in Tokens, RefreshReused(r, t)
        PROVE  Provoked(stored[r].id)'
    <3>1. rows[t] # Null /\ rows[t].revoked /\ birth[t] # Null /\ stored'[r].id = t
      BY <2>2 DEF RefreshReused, RefreshFound, IInv, RowsMatchBirth, TypeOK
    <3>2. Provoked(t)'
      BY <3>1, ProvokedStays DEF RevokedForCause
    <3> QED
      BY <3>1, <3>2 DEF Provoked
  <2> QED
    BY <1>2, <2>1, <2>2, SweepHasFound
<1> QED
  BY <1>1, <1>2 DEF RevokedForCause

(* refresh() tears the sessions of a user down only for a token that a      *)
(* refresh claimed, or whose session was logged out of or swept, whatever   *)
(* came between its read and its sweep: never for one that merely expired.  *)
THEOREM TearDownsAreProvoked == Spec => []SweepsAreProvoked
<1>1. Init => RevokedForCause
  BY DEF Init, RevokedForCause
<1>2. RevokedForCause => SweepsAreProvoked
  BY DEF RevokedForCause, SweepsAreProvoked
<1> QED
  BY <1>1, <1>2, Invariance, CauseStep, PTL DEF Spec
=============================================================================
