--------------------------- MODULE SessionsProofs ---------------------------
(***************************************************************************)
(* Proofs about Sessions, for any number of clients, users and requests.   *)
(* First, every step of the whole is a step of RefreshTokens, so that what *)
(* is proved there holds here.  Then three invariants: of the roles access *)
(* tokens carry, of the sessions they outlive, and of who holds a token.   *)
(***************************************************************************)
EXTENDS Sessions, RefreshTokensProofs

\* A request has read the user of the row it goes on with.
HasRead ==
    \A r \in Requests : stored[r] # Null =>
        read[r] # Null /\ read[r].user = stored[r].user

\* A token is inserted by one request, which then signs its access token.
IssuedOnce ==
    \A r \in Requests :
        /\ pc[r] = "new" => issued[r] = Null
        /\ access[r] # Null => pc[r] = "200" /\ issued[r] # Null
        /\ issued[r] # Null => /\ birth[issued[r]] # Null
                               /\ \A q \in Requests : issued[q] = issued[r] => q = r

SInv == IInv /\ SessionsTypeOK /\ HasRead /\ IssuedOnce

\* An access token with a role that is no longer the user's is from before the
\* change, or from a request that was running then.
RolesInv ==
    \A r \in Requests :
        /\ access[r] # Null => access[r].exp <= now + AccessLifetime
        /\ read[r] # Null /\ pc[r] \notin Answers /\ read[r].role # role[read[r].user]
              => r \in stale
        /\ access[r] # Null /\ access[r].role # role[access[r].sub]
              => \/ r \in stale
                 \/ /\ changedAt[access[r].sub] # Null
                    /\ access[r].exp <= changedAt[access[r].sub] + AccessLifetime

\* The same of a session that ended.
SessionOf(r) == birth[issued[r]].session

EndInv ==
    \A r \in Requests :
        /\ pc[r] = "chain" /\ SessionOf(r) \in ended => r \in late
        /\ access[r] # Null /\ SessionOf(r) \in ended
              => r \in late \/ access[r].exp <= endedAt[SessionOf(r)] + AccessLifetime

\* Every token is with one client at most, and every request one client's.
ClientsApart ==
    \A c, d \in Clients :
        /\ holds[c] # Null => birth[holds[c]] # Null
        /\ holds[c] = holds[d] /\ holds[c] # Null => c = d
        /\ asks[c] = asks[d] /\ asks[c] # Null => c = d
        /\ asks[c] # Null /\ issued[asks[c]] # Null => holds[d] # issued[asks[c]]

\* A client without a token waits for a login, one with a token for a refresh of it.
AsksInv ==
    \A c \in Clients : asks[c] # Null =>
        LET r == asks[c]
        IN /\ pc[r] = "new" => read[r] # Null
           /\ holds[c] = Null => pc[r] \in {"new", "200"} /\ stored[r] = Null
           /\ holds[c] # Null => /\ pc[r] # "new"
                                 /\ stored[r] # Null => stored[r].id = holds[c]
                                 /\ stored[r] = Null => pc[r] = "401" /\ read[r] = Null

\* A refresh nobody waits for any more is trouble.
FlightsInv ==
    \A r \in Requests : pc[r] \in Awaits =>
        (\E c \in Clients : asks[c] = r) \/ stored[r].user \in troubled

Kept(t) == rows[t] # Null => ~rows[t].revoked

\* While there is no trouble nobody revokes the token a client holds, but the
\* refresh that is to replace it, nor the token it is about to be given.
Needs(c) ==
    /\ holds[c] # Null /\ birth[holds[c]].user \notin troubled
    /\ asks[c] # Null => pc[asks[c]] \in {"claim", "500"} \/ read[asks[c]] = Null

Expects(c) ==
    /\ asks[c] # Null /\ pc[asks[c]] \in {"chain", "200"} /\ issued[asks[c]] # Null
    /\ birth[issued[asks[c]]].user \notin troubled

KeptFor(c) == (Needs(c) => Kept(holds[c])) /\ (Expects(c) => Kept(issued[asks[c]]))

KeptInv == \A c \in Clients : KeptFor(c)

CInv == ClientsApart /\ AsksInv /\ FlightsInv /\ KeptInv /\ TearDownHasACause

-----------------------------------------------------------------------------
(* The whole implements the table.                                          *)

(* A step of a client, a handler or the surroundings is one of the table,   *)
(* or leaves it alone.                                                      *)
LEMMA StepIsTableStep ==
    ASSUME SessionsTypeOK, [SessionsNext]_allVars
    PROVE  [Next]_vars
<1> USE SessionsNullAssumption
<1>1. ASSUME NEW c \in Clients, NEW r \in Requests, RefreshFind(c, r)
      PROVE  Next
  <2>1. holds[c] \in Tokens
    BY <1>1 DEF RefreshFind, SessionsTypeOK
  <2> QED
    BY <1>1, <2>1 DEF RefreshFind, Next, Refresh
<1>2. ASSUME NEW c \in Clients, NEW r \in Requests, ClientLogoutAll(c, r)
      PROVE  Next
  <2>1. access[r].sub \in Users
    BY <1>2 DEF ClientLogoutAll, JwtAuthGuard, SessionsTypeOK, Access
  <2> QED
    BY <1>2, <2>1 DEF ClientLogoutAll, Next
<1>3. ASSUME NEW r \in Requests, NEW t \in Tokens, LoginIssue(r, t)
      PROVE  Next
  <2>1. read[r].user \in Users
    BY <1>3 DEF LoginIssue, SessionsTypeOK, Read
  <2> QED
    BY <1>3, <2>1 DEF LoginIssue, Next
<1>4. ASSUME NEW r \in Requests,
             RefreshRotate(r) \/ RefreshAnswer(r) \/ RefreshTearDown(r) \/ RequestFails(r)
      PROVE  Next
  BY <1>4 DEF RefreshRotate, RefreshAnswer, RefreshTearDown, RequestFails, Next, Refresh
<1>5. ASSUME NEW c \in Clients, ClientLogout(c)
      PROVE  Next \/ UNCHANGED vars
  <2>1. holds[c] \in Tokens
    BY <1>5 DEF ClientLogout, SessionsTypeOK
  <2> QED
    BY <1>5, <2>1 DEF ClientLogout, Next
<1>6. CASE Elapse
  BY <1>6 DEF Elapse, Next
<1>7. ASSUME NEW c \in Clients, NEW r \in Requests,
             (\E u \in Users : LoginFind(c, r, u)) \/ Receive(c, r) \/ LoseAnswer(c, r)
      PROVE  UNCHANGED vars
  BY <1>7 DEF LoginFind, Receive, LoseAnswer
<1>8. ASSUME NEW u \in Users, NEW x \in Roles, SetRole(u, x)
      PROVE  UNCHANGED vars
  BY <1>8 DEF SetRole
<1>9. CASE UNCHANGED allVars
  BY <1>9 DEF allVars
<1> QED
  BY <1>1, <1>2, <1>3, <1>4, <1>5, <1>6, <1>7, <1>8, <1>9 DEF SessionsNext

(* What a refresh read of the user is of the user of the row it found.      *)
LEMMA HasReadStep ==
    ASSUME IInv, SessionsTypeOK, HasRead, [SessionsNext]_allVars
    PROVE  HasRead'
<1> USE SessionsNullAssumption DEF sessionVars, clientVars, sessionHistory
<1>0. TypeOK /\ RequestsHoldIssued
  BY DEF IInv
<1>1. ASSUME NEW c \in Clients, NEW r \in Requests, NEW u \in Users, LoginFind(c, r, u)
      PROVE  HasRead'
  <2>1. /\ stored[r] = Null /\ UNCHANGED stored
        /\ read' = [read EXCEPT ![r] = [user |-> u, role |-> role[u]]]
    BY <1>0, <1>1 DEF LoginFind, ReadUser, RequestsHoldIssued, vars, codeVars
  <2> QED
    BY <2>1 DEF HasRead, SessionsTypeOK
<1>2. ASSUME NEW c \in Clients, NEW r \in Requests, RefreshFind(c, r)
      PROVE  HasRead'
  <2>1. holds[c] \in Tokens
    BY <1>2 DEF RefreshFind, SessionsTypeOK
  <2>2. CASE RefreshUnknown(r, holds[c]) /\ UNCHANGED read
    BY <2>2 DEF RefreshUnknown, HasRead
  <2>3. CASE /\ stored' = [stored EXCEPT ![r] = [id |-> holds[c], user |-> rows[holds[c]].user]]
             /\ ReadUser(r, rows[holds[c]].user) /\ rows[holds[c]] # Null
    <3> DEFINE u == rows[holds[c]].user
               row == [id |-> holds[c], user |-> u]
               found == [user |-> u, role |-> role[u]]
    <3>1. u \in Users
      BY <1>0, <2>1, <2>3 DEF TypeOK, Row
    <3>2. found \in Read
      BY <3>1 DEF SessionsTypeOK, Read
    <3>3. row.user = u /\ found.user = u /\ found # Null
      BY <3>2
    <3> HIDE DEF row, found
    <3>4. stored' = [stored EXCEPT ![r] = row] /\ read' = [read EXCEPT ![r] = found]
      BY <2>3 DEF ReadUser, row, found
    <3> QED
      BY <1>0, <3>3, <3>4 DEF HasRead, TypeOK, SessionsTypeOK
  <2> QED
    BY <1>2, <2>2, <2>3 DEF RefreshFind, RefreshReused, RefreshExpired, RefreshFresh, RefreshFound
<1>3. CASE UNCHANGED <<stored, read>>
  BY <1>3 DEF HasRead
<1> QED
  BY <1>1, <1>2, <1>3
     DEF SessionsNext, LoginIssue, RefreshRotate, RefreshAnswer, RefreshTearDown,
         RequestFails, ClientLogout, ClientLogoutAll, Receive, LoseAnswer, SetRole,
         Elapse, allVars, vars, codeVars, IssueTokens, RefreshClaim, RefreshClaimLost,
         RefreshCreate, RefreshChain, RefreshChainMissing, RefreshSweep, Abort, Logout,
         LogoutAll, RemoveExpired, Tick

(* Whatever is signed or noted keeps to its type.                           *)
LEMMA SessionsTypeStep ==
    ASSUME IInv, SessionsTypeOK, HasRead, [SessionsNext]_allVars
    PROVE  SessionsTypeOK'
<1> USE SessionsNullAssumption, AccessLifetimeAssumption, TimeAssumption
    DEF sessionVars, clientVars, sessionHistory
<1>0. TypeOK /\ RequestsHoldIssued
  BY DEF IInv
<1>1. ASSUME NEW r \in Requests, NEW u \in Users, ReadUser(r, u)
      PROVE  read' \in [Requests -> Read \cup {Null}]
  <2>1. [user |-> u, role |-> role[u]] \in Read
    BY DEF SessionsTypeOK, Read
  <2> QED
    BY <1>1, <2>1 DEF ReadUser, SessionsTypeOK
<1>2. ASSUME NEW r \in Requests, read[r] # Null, SignAccessToken(r)
      PROVE  access' \in [Requests -> Access \cup {Null}]
  <2>1. read[r].user \in Users /\ read[r].role \in Roles
    BY <1>2 DEF SessionsTypeOK, Read
  <2>2. now + AccessLifetime \in 0..(MaxTime + AccessLifetime)
    BY <1>0 DEF TypeOK
  <2>3. [sub |-> read[r].user, role |-> read[r].role, exp |-> now + AccessLifetime] \in Access
    BY <2>1, <2>2 DEF Access
  <2> QED
    BY <1>2, <2>3 DEF SignAccessToken, SessionsTypeOK
<1>3. ASSUME NoteEnded
      PROVE  endedAt' \in [Tokens -> 0..MaxTime] /\ late' \in SUBSET Requests
  BY <1>0, <1>3 DEF NoteEnded, TypeOK, SessionsTypeOK
<1>4. ASSUME NEW c \in Clients, NEW r \in Requests, NEW u \in Users, LoginFind(c, r, u)
      PROVE  SessionsTypeOK'
  BY <1>1, <1>4 DEF LoginFind, SessionsTypeOK
<1>5. ASSUME NEW c \in Clients, NEW r \in Requests, RefreshFind(c, r)
      PROVE  SessionsTypeOK'
  <2>1. holds[c] \in Tokens
    BY <1>5 DEF RefreshFind, SessionsTypeOK
  <2>2. rows[holds[c]] # Null => rows[holds[c]].user \in Users
    BY <1>0, <2>1 DEF TypeOK, Row
  <2>3. read' \in [Requests -> Read \cup {Null}]
    BY <1>1, <1>5, <2>2 DEF RefreshFind, RefreshReused, RefreshExpired, RefreshFresh,
                            RefreshFound, SessionsTypeOK
  <2> QED
    BY <1>5, <2>3 DEF RefreshFind, SessionsTypeOK
<1>6. ASSUME NEW r \in Requests, NEW t \in Tokens, LoginIssue(r, t)
      PROVE  SessionsTypeOK'
  BY <1>2, <1>6 DEF LoginIssue, SessionsTypeOK
<1>7. ASSUME NEW r \in Requests, RefreshAnswer(r)
      PROVE  SessionsTypeOK'
  <2>1. read[r] # Null
    BY <1>0, <1>7 DEF RefreshAnswer, RefreshChain, RequestsHoldIssued, HasRead, Awaits
  <2> QED
    BY <1>2, <1>7, <2>1 DEF RefreshAnswer, SessionsTypeOK
<1>8. ASSUME NEW r \in Requests, RefreshTearDown(r)
      PROVE  SessionsTypeOK'
  BY <1>3, <1>8 DEF RefreshTearDown, SessionsTypeOK
<1>9. ASSUME NEW r \in Requests, RequestFails(r)
      PROVE  SessionsTypeOK'
  <2>1. read[r].user \in Users
    BY <1>0, <1>9 DEF RequestFails, Abort, RequestsHoldIssued, HasRead, SessionsTypeOK, Read
  <2> QED
    BY <1>9, <2>1 DEF RequestFails, SessionsTypeOK
<1>10. ASSUME NEW c \in Clients, ClientLogout(c)
       PROVE  SessionsTypeOK'
  BY <1>3, <1>10 DEF ClientLogout, SessionsTypeOK
<1>11. ASSUME NEW c \in Clients, NEW r \in Requests, ClientLogoutAll(c, r)
       PROVE  SessionsTypeOK'
  <2>1. access[r].sub \in Users
    BY <1>11 DEF ClientLogoutAll, JwtAuthGuard, SessionsTypeOK, Access
  <2> QED
    BY <1>3, <1>11, <2>1 DEF ClientLogoutAll, SessionsTypeOK
<1>12. ASSUME NEW c \in Clients, NEW r \in Requests, Receive(c, r)
       PROVE  SessionsTypeOK'
  <2>1. PICK t \in Tokens \cup {Null} : holds' = [holds EXCEPT ![c] = t]
    BY <1>0, <1>12 DEF Receive, Answers, TypeOK, SessionsTypeOK
  <2>2. holds' \in [Clients -> Tokens \cup {Null}]
    BY <2>1 DEF SessionsTypeOK
  <2>3. asks' \in [Clients -> Requests \cup {Null}]
    BY <1>12 DEF Receive, SessionsTypeOK
  <2>4. UNCHANGED <<role, read, access, changedAt, stale, endedAt, late, troubled>>
    BY <1>12 DEF Receive
  <2> QED
    BY <2>2, <2>3, <2>4 DEF SessionsTypeOK
<1>13. ASSUME NEW c \in Clients, NEW r \in Requests, LoseAnswer(c, r)
       PROVE  SessionsTypeOK'
  BY <1>13 DEF LoseAnswer, SessionsTypeOK
<1>14. ASSUME NEW u \in Users, NEW x \in Roles, SetRole(u, x)
       PROVE  SessionsTypeOK'
  BY <1>0, <1>14 DEF SetRole, SessionsTypeOK, TypeOK
<1>15. CASE UNCHANGED sessionVars
  BY <1>15 DEF SessionsTypeOK
<1> QED
  BY <1>4, <1>5, <1>6, <1>7, <1>8, <1>9, <1>10, <1>11, <1>12, <1>13, <1>14, <1>15
     DEF SessionsNext, RefreshRotate, Elapse, allVars

(* A request inserts one new token, and signs when it answers 200.          *)
LEMMA IssuedOnceStep ==
    ASSUME SInv, [SessionsNext]_allVars
    PROVE  IssuedOnce'
<1> USE NullAssumption, SessionsNullAssumption DEF sessionVars, clientVars, sessionHistory
<1>0. TypeOK /\ RequestsHoldIssued /\ SessionsTypeOK /\ HasRead /\ IssuedOnce
  BY DEF SInv, IInv
<1>1. ASSUME NEW r \in Requests, NEW t \in Tokens, NEW u \in Users,
             NEW s \in Tokens, NEW p \in Tokens \cup {Null},
             CreateRefreshToken(r, t, u, s, p)
      PROVE  /\ issued'[r] = t /\ \A q \in Requests : issued[q] # t
             /\ \A q \in Requests : issued'[q] # Null =>
                   /\ birth'[issued'[q]] # Null
                   /\ \A n \in Requests : issued'[n] = issued'[q] => n = q
             /\ \A q \in Requests \ {r} : issued'[q] = issued[q]
  <2>1. /\ birth[t] = Null /\ birth'[t] # Null
        /\ \A x \in Tokens \ {t} : birth'[x] = birth[x]
        /\ issued'[r] = t /\ \A q \in Requests \ {r} : issued'[q] = issued[q]
    BY <1>0, <1>1, CreateEffect
  <2>2. \A q \in Requests : issued[q] # t
    BY <1>0, <2>1 DEF IssuedOnce
  <2>3. \A q \in Requests : issued[q] \in Tokens \cup {Null}
    BY <1>0 DEF TypeOK
  <2> QED
    BY <1>0, <2>1, <2>2, <2>3 DEF IssuedOnce
<1>2. ASSUME NEW r \in Requests, NEW t \in Tokens, LoginIssue(r, t)
      PROVE  IssuedOnce'
  <2>1. read[r].user \in Users
    BY <1>0, <1>2 DEF LoginIssue, SessionsTypeOK, Read
  <2>2. CreateRefreshToken(r, t, read[r].user, t, Null)
    BY <1>2 DEF LoginIssue, IssueTokens
  <2>3. pc' = [pc EXCEPT ![r] = "200"] /\ \A q \in Requests \ {r} : access'[q] = access[q]
    BY <1>0, <1>2 DEF LoginIssue, IssueTokens, Answer, SignAccessToken, SessionsTypeOK
  <2>4. pc'[r] = "200" /\ \A q \in Requests \ {r} : pc'[q] = pc[q]
    BY <1>0, <2>3 DEF TypeOK
  <2> QED
    BY <1>0, <1>1, <2>1, <2>2, <2>3, <2>4 DEF IssuedOnce
<1>3. ASSUME NEW r \in Requests, NEW t \in Tokens, RefreshCreate(r, t), UNCHANGED access
      PROVE  IssuedOnce'
  <2>1. /\ stored[r].user \in Users /\ stored[r].id \in Tokens
        /\ birth[stored[r].id].session \in Tokens
    BY <1>0, <1>3 DEF RefreshCreate, RequestsHoldIssued, TypeOK, Stored, Birth, Awaits
  <2>2. CreateRefreshToken(r, t, stored[r].user, birth[stored[r].id].session, stored[r].id)
    BY <1>3 DEF RefreshCreate
  <2>3. pc[r] = "create" /\ pc'[r] = "chain" /\ \A q \in Requests \ {r} : pc'[q] = pc[q]
    BY <1>0, <1>3 DEF RefreshCreate, Answer, TypeOK
  <2>4. access'[r] = Null
    BY <1>0, <1>3, <2>3 DEF IssuedOnce
  <2> QED
    BY <1>0, <1>1, <1>3, <2>1, <2>2, <2>3, <2>4 DEF IssuedOnce
<1>4. ASSUME NEW r \in Requests, RefreshAnswer(r)
      PROVE  IssuedOnce'
  <2>1. /\ pc[r] = "chain" /\ issued[r] # Null /\ UNCHANGED <<issued, birth>>
        /\ pc' = [pc EXCEPT ![r] = "200"]
        /\ \A q \in Requests \ {r} : access'[q] = access[q]
    BY <1>0, <1>4 DEF RefreshAnswer, RefreshChain, RequestsHoldIssued, Answer,
                      SignAccessToken, SessionsTypeOK
  <2>2. pc'[r] = "200" /\ \A q \in Requests \ {r} : pc'[q] = pc[q]
    BY <1>0, <2>1 DEF TypeOK
  <2> QED
    BY <1>0, <2>1, <2>2 DEF IssuedOnce
<1>5. ASSUME UNCHANGED <<issued, birth, access>>,
             \A r \in Requests : pc'[r] = pc[r] \/ (pc'[r] # "new" /\ pc[r] # "200")
      PROVE  IssuedOnce'
  BY <1>0, <1>5 DEF IssuedOnce
<1>6. ASSUME NEW r \in Requests, NEW status \in Awaits \cup Answers,
             pc[r] # "200", Answer(r, status)
      PROVE  \A q \in Requests : pc'[q] = pc[q] \/ (pc'[q] # "new" /\ pc[q] # "200")
  BY <1>0, <1>6 DEF Answer, TypeOK, Awaits, Answers
<1>7. ASSUME NEW c \in Clients, NEW r \in Requests, RefreshFind(c, r)
      PROVE  IssuedOnce'
  <2>1. UNCHANGED <<issued, birth, access>>
    BY <1>7 DEF RefreshFind, RefreshUnknown, RefreshReused, RefreshExpired, RefreshFresh,
                RefreshFound, history
  <2>2. pc[r] = "new" /\ \E status \in {"401", "sweep", "claim"} : Answer(r, status)
    BY <1>7 DEF RefreshFind, RefreshUnknown, RefreshReused, RefreshExpired, RefreshFresh,
                RefreshFound
  <2> QED
    BY <1>5, <1>6, <2>1, <2>2 DEF Awaits, Answers
<1>8. ASSUME NEW r \in Requests, RefreshClaim(r) \/ RefreshClaimLost(r) \/ RefreshChainMissing(r)
                                 \/ RefreshSweep(r) \/ Abort(r),
             UNCHANGED access
      PROVE  IssuedOnce'
  <2>1. UNCHANGED <<issued, birth, access>>
    BY <1>8 DEF RefreshClaim, RefreshClaimLost, RefreshChainMissing, RefreshSweep, Abort, history
  <2>2. pc[r] # "200" /\ \E status \in {"401", "create", "500"} : Answer(r, status)
    BY <1>8 DEF RefreshClaim, RefreshClaimLost, RefreshChainMissing, RefreshSweep, Abort, Awaits
  <2> QED
    BY <1>5, <1>6, <2>1, <2>2 DEF Awaits, Answers
<1>9. CASE UNCHANGED <<pc, issued, birth, access>>
  BY <1>0, <1>9 DEF IssuedOnce
<1> QED
  BY <1>2, <1>3, <1>4, <1>7, <1>8, <1>9
     DEF SessionsNext, LoginFind, RefreshRotate, RefreshTearDown, RequestFails, ClientLogout,
         ClientLogoutAll, Receive, LoseAnswer, SetRole, Elapse, allVars, vars, codeVars,
         history, Logout, LogoutAll, RemoveExpired, Tick

(* Before any request nothing is read, signed, held or asked.               *)
LEMMA SInvInit == SessionsInit => SInv
<1> SUFFICES ASSUME SessionsInit PROVE SInv
  OBVIOUS
<1>1. IInv
  BY IInvInit DEF SessionsInit
<1>2. SessionsTypeOK
  BY TimeAssumption DEF SessionsInit, SessionsTypeOK
<1>3. HasRead /\ IssuedOnce
  BY DEF SessionsInit, Init, HasRead, IssuedOnce
<1> QED
  BY <1>1, <1>2, <1>3 DEF SInv

(* The types and the table's own invariant hold of the whole.               *)
THEOREM SessionsInductive == SessionsSpec => []SInv
<1>1. SInv /\ [SessionsNext]_allVars => SInv'
  BY StepIsTableStep, IInvStep, SessionsTypeStep, HasReadStep, IssuedOnceStep DEF SInv
<1> QED
  BY SInvInit, <1>1, PTL DEF SessionsSpec

(* Whatever clients, administrators and the network do, the handlers do to  *)
(* the table what RefreshTokens says.                                       *)
LEMMA TableSpecHolds == SessionsSpec => Spec
<1>1. SessionsInit => Init
  BY DEF SessionsInit
<1>2. SInv /\ [SessionsNext]_allVars => [Next]_vars
  BY StepIsTableStep DEF SInv
<1> QED
  BY SessionsInductive, <1>1, <1>2, PTL DEF SessionsSpec, Spec

(* So one live token per session, too.                                      *)
THEOREM ClientsHoldOneLiveToken == SessionsSpec => []OneLiveTokenPerSession
BY TableSpecHolds, OneLiveToken, PTL

(* And the ledger is kept of the whole, with clients that retry and answers *)
(* that are lost: a session never forks, and once over it stays over.       *)
THEOREM SessionsKeepTheLedger == SessionsSpec => ImplementsLedger /\ []SessionsAreLines
BY TableSpecHolds, TableImplementsLedger, SessionsNeverFork, PTL

-----------------------------------------------------------------------------
(* The roles in access tokens.                                              *)

(* Only a request that was running when a role changed carries on with the  *)
(* old one; every older access token runs out in time.                      *)
LEMMA RolesStep ==
    ASSUME SInv, RolesInv, [SessionsNext]_allVars
    PROVE  RolesInv'
<1> USE AccessLifetimeAssumption, SessionsNullAssumption, TimeAssumption
    DEF sessionVars, clientVars, sessionHistory
<1>0. TypeOK /\ RequestsHoldIssued /\ SessionsTypeOK /\ HasRead /\ IssuedOnce
  BY DEF SInv, IInv
<1>a. now \in Nat /\ now' \in Nat /\ now <= now'
  <2>1. [Next]_vars
    BY <1>0, StepIsTableStep
  <2>2. TypeOK'
    BY <2>1, IInvStep DEF SInv, IInv
  <2>3. now' = now \/ now' = now + 1
    BY <2>1 DEF Next, Refresh, IssueTokens, RefreshUnknown, RefreshReused, RefreshExpired,
                RefreshFresh, RefreshFound, RefreshClaim, RefreshClaimLost, RefreshCreate,
                RefreshChain, RefreshChainMissing, RefreshSweep, Abort, Logout, LogoutAll,
                RemoveExpired, Tick, vars, codeVars
  <2> QED
    BY <1>0, <2>2, <2>3 DEF TypeOK
<1>b. \A r \in Requests : /\ access[r] # Null => access[r].exp \in Nat /\ access[r].sub \in Users
                          /\ read[r] # Null => read[r].user \in Users
  BY <1>0 DEF SessionsTypeOK, Access, Read
<1>1. ASSUME NEW c \in Clients, NEW r \in Requests, NEW u \in Users,
             UNCHANGED <<role, access, changedAt, stale>>,
             ReadUser(r, u), \A q \in Requests \ {r} : pc'[q] = pc[q]
      PROVE  RolesInv'
  <2>1. read' = [read EXCEPT ![r] = [user |-> u, role |-> role[u]]]
    BY <1>1 DEF ReadUser
  <2>2. /\ read'[r].role = role[read'[r].user]
        /\ \A q \in Requests \ {r} : read'[q] = read[q]
    BY <1>0, <2>1 DEF SessionsTypeOK
  <2> QED
    BY <1>a, <1>b, <1>1, <2>2 DEF RolesInv
<1>2. ASSUME NEW r \in Requests, SignAccessToken(r), read[r] # Null, pc[r] \notin Answers,
             pc' = [pc EXCEPT ![r] = "200"],
             UNCHANGED <<role, read, changedAt, stale, now>>
      PROVE  RolesInv'
  <2> DEFINE signed == [sub |-> read[r].user, role |-> read[r].role,
                        exp |-> now + AccessLifetime]
  <2>1. access' = [access EXCEPT ![r] = signed]
    BY <1>2 DEF SignAccessToken
  <2>2. /\ signed.sub = read[r].user /\ signed.role = read[r].role
        /\ signed.exp = now + AccessLifetime
    OBVIOUS
  <2> HIDE DEF signed
  <2>3. /\ access'[r] = signed /\ \A q \in Requests \ {r} : access'[q] = access[q]
        /\ pc'[r] = "200" /\ \A q \in Requests \ {r} : pc'[q] = pc[q]
    BY <1>0, <1>2, <2>1 DEF SessionsTypeOK, TypeOK
  <2>4. signed.role # role[signed.sub] => r \in stale
    BY <1>2, <2>2 DEF RolesInv
  <2> QED
    BY <1>0, <1>a, <1>2, <2>2, <2>3, <2>4 DEF RolesInv, Answers
<1>3. ASSUME NEW u \in Users, NEW x \in Roles, SetRole(u, x)
      PROVE  RolesInv'
  <2>1. /\ role[u] # x /\ changedAt[u] = Null
        /\ role' = [role EXCEPT ![u] = x] /\ changedAt' = [changedAt EXCEPT ![u] = now]
        /\ stale' = stale \cup {r \in Requests : /\ read[r] # Null /\ read[r].user = u
                                                 /\ pc[r] \notin Answers}
        /\ UNCHANGED <<pc, now, read, access>>
    BY <1>3 DEF SetRole, vars, codeVars
  <2>2. /\ role'[u] = x /\ changedAt'[u] = now
        /\ \A v \in Users \ {u} : role'[v] = role[v] /\ changedAt'[v] = changedAt[v]
    BY <1>0, <2>1 DEF SessionsTypeOK
  <2>3. now # Null
    BY <1>0 DEF TypeOK
  <2>4. ASSUME NEW r \in Requests, read'[r] # Null, pc'[r] \notin Answers,
               read'[r].role # role'[read'[r].user]
        PROVE  r \in stale'
    BY <1>b, <2>1, <2>2, <2>4 DEF RolesInv
  <2>5. ASSUME NEW r \in Requests, access'[r] # Null, access'[r].role # role'[access'[r].sub]
        PROVE  \/ r \in stale'
               \/ /\ changedAt'[access'[r].sub] # Null
                  /\ access'[r].exp <= changedAt'[access'[r].sub] + AccessLifetime
    <3>1. CASE access[r].sub = u
      BY <2>1, <2>2, <2>3, <2>5, <3>1 DEF RolesInv
    <3>2. CASE access[r].sub # u
      BY <1>b, <2>1, <2>2, <2>5, <3>2 DEF RolesInv
    <3> QED
      BY <3>1, <3>2
  <2> QED
    BY <2>1, <2>4, <2>5 DEF RolesInv
<1>4. ASSUME UNCHANGED <<role, read, access, changedAt, stale>>,
             \A r \in Requests : pc'[r] \notin Answers => pc[r] \notin Answers
      PROVE  RolesInv'
  <2>1. ASSUME NEW r \in Requests, access[r] # Null
        PROVE  access[r].exp <= now' + AccessLifetime
    BY <1>a, <1>b, <2>1 DEF RolesInv
  <2> QED
    BY <1>4, <2>1 DEF RolesInv
<1>5. ASSUME NEW r \in Requests, NEW status, pc[r] \notin Answers, Answer(r, status)
      PROVE  /\ \A q \in Requests : pc'[q] \notin Answers => pc[q] \notin Answers
             /\ \A q \in Requests \ {r} : pc'[q] = pc[q]
  BY <1>0, <1>5 DEF Answer, TypeOK
<1>6. ASSUME NEW c \in Clients, NEW r \in Requests, RefreshFind(c, r)
      PROVE  RolesInv'
  <2>1. pc[r] \notin Answers /\ \E status \in {"401", "sweep", "claim"} : Answer(r, status)
    BY <1>6 DEF RefreshFind, RefreshUnknown, RefreshReused, RefreshExpired, RefreshFresh,
                RefreshFound, Answers
  <2>2. CASE UNCHANGED read
    BY <1>4, <1>5, <1>6, <2>1, <2>2 DEF RefreshFind
  <2>3. CASE ReadUser(r, rows[holds[c]].user) /\ rows[holds[c]] # Null
    <3>1. rows[holds[c]].user \in Users
      BY <1>0, <1>6, <2>3 DEF RefreshFind, SessionsTypeOK, TypeOK, Row
    <3> QED
      BY <1>1, <1>5, <1>6, <2>1, <2>3, <3>1 DEF RefreshFind
  <2> QED
    BY <1>6, <2>2, <2>3 DEF RefreshFind, RefreshReused, RefreshExpired, RefreshFresh, RefreshFound
<1>7. ASSUME NEW r \in Requests, NEW t \in Tokens, LoginIssue(r, t)
      PROVE  RolesInv'
  BY <1>2, <1>7 DEF LoginIssue, IssueTokens, Answer, Answers
<1>8. ASSUME NEW r \in Requests, RefreshAnswer(r)
      PROVE  RolesInv'
  <2>1. read[r] # Null
    BY <1>0, <1>8 DEF RefreshAnswer, RefreshChain, RequestsHoldIssued, HasRead, Awaits
  <2> QED
    BY <1>2, <1>8, <2>1 DEF RefreshAnswer, RefreshChain, Answer, Answers
<1>9. ASSUME NEW r \in Requests,
             RefreshRotate(r) \/ RefreshTearDown(r) \/ RequestFails(r)
      PROVE  RolesInv'
  <2>1. pc[r] \notin Answers /\ \E status : Answer(r, status)
    BY <1>9 DEF RefreshRotate, RefreshTearDown, RequestFails, RefreshClaim, RefreshClaimLost,
                RefreshCreate, RefreshChainMissing, RefreshSweep, Abort, Answers, Awaits
  <2>2. UNCHANGED <<role, read, access, changedAt, stale>>
    BY <1>9 DEF RefreshRotate, RefreshTearDown, RequestFails
  <2> QED
    BY <1>4, <1>5, <2>1, <2>2
<1>10. CASE UNCHANGED <<pc, role, read, access, changedAt, stale>>
  BY <1>4, <1>10
<1>11. ASSUME NEW c \in Clients, NEW r \in Requests, NEW u \in Users, LoginFind(c, r, u)
       PROVE  RolesInv'
  BY <1>1, <1>11 DEF LoginFind, vars, codeVars
<1> QED
  BY <1>3, <1>6, <1>7, <1>8, <1>9, <1>10, <1>11
     DEF SessionsNext, ClientLogout, ClientLogoutAll, Receive, LoseAnswer, Elapse,
         allVars, vars, codeVars, Logout, LogoutAll, RemoveExpired, Tick

(* Taking a role away works within one access lifetime, but for a request   *)
(* that was running at that moment.                                         *)
THEOREM DemotionIsTimely == SessionsSpec => []DemotionTakesEffect
<1>1. SessionsInit => RolesInv
  BY DEF SessionsInit, RolesInv
<1>2. SInv /\ RolesInv /\ [SessionsNext]_allVars => RolesInv'
  BY RolesStep
<1>3. SInv /\ RolesInv => DemotionTakesEffect
  <2> SUFFICES ASSUME SInv, RolesInv, NEW r \in Requests, NEW x \in Roles,
                      MayEnter(r, {x}), role[access[r].sub] # x, r \notin stale
               PROVE  now < changedAt[access[r].sub] + AccessLifetime
    BY DEF DemotionTakesEffect
  <2>1. access[r] # Null /\ now < access[r].exp /\ access[r].role = x
    BY DEF MayEnter, JwtAuthGuard, RolesGuard
  <2>2. /\ changedAt[access[r].sub] # Null
        /\ access[r].exp <= changedAt[access[r].sub] + AccessLifetime
    BY <2>1 DEF RolesInv
  <2>3. access[r].exp \in Nat /\ access[r].sub \in Users
    BY <2>1, TimeAssumption, AccessLifetimeAssumption DEF SInv, SessionsTypeOK, Access
  <2>4. changedAt[access[r].sub] \in Nat /\ now \in Nat
    BY <2>2, <2>3, TimeAssumption DEF SInv, IInv, SessionsTypeOK, TypeOK
  <2> QED
    BY <2>1, <2>2, <2>3, <2>4, AccessLifetimeAssumption
<1> QED
  BY SessionsInductive, <1>1, <1>2, <1>3, PTL DEF SessionsSpec

-----------------------------------------------------------------------------
(* The access tokens of sessions that ended.                                *)

(* What a request has issued keeps its session.                             *)
LEMMA SessionStays ==
    ASSUME SInv, [SessionsNext]_allVars, NEW t \in Tokens, birth[t] # Null
    PROVE  birth'[t] = birth[t]
<1>0. TypeOK /\ RequestsHoldIssued /\ SessionsTypeOK
  BY DEF SInv, IInv
<1>1. [Next]_vars
  BY <1>0, StepIsTableStep
<1>2. ASSUME NEW r \in Requests, NEW x \in Tokens, NEW u, NEW s, NEW p,
             CreateRefreshToken(r, x, u, s, p)
      PROVE  birth'[t] = birth[t]
  BY <1>0, <1>2 DEF CreateRefreshToken, TypeOK
<1>3. CASE UNCHANGED birth
  BY <1>3
<1> QED
  BY <1>1, <1>2, <1>3
     DEF Next, Refresh, IssueTokens, RefreshUnknown, RefreshReused, RefreshExpired,
         RefreshFresh, RefreshFound, RefreshClaim, RefreshClaimLost, RefreshCreate,
         RefreshChain, RefreshChainMissing, RefreshSweep, Abort, Logout, LogoutAll,
         RemoveExpired, Tick, vars, codeVars, history

(* A session is not revived, and who signs for it afterwards had inserted   *)
(* its token before.                                                        *)
LEMMA EndStep ==
    ASSUME SInv, RolesInv, EndInv, [SessionsNext]_allVars
    PROVE  EndInv'
<1> USE AccessLifetimeAssumption, TimeAssumption, SessionsNullAssumption, NullAssumption
    DEF sessionVars, clientVars, sessionHistory
<1>0. /\ TypeOK /\ RequestsHoldIssued /\ SessionsTypeOK /\ HasRead /\ IssuedOnce
      /\ EndedHasNoHolder
  BY DEF SInv, IInv
<1>a. \A r \in Requests : issued[r] # Null =>
         issued[r] \in Tokens /\ birth'[issued[r]] = birth[issued[r]]
  BY <1>0, SessionStays DEF TypeOK, IssuedOnce
<1>b. \A r \in Requests : pc[r] = "chain" \/ access[r] # Null => issued[r] # Null
  BY <1>0 DEF RequestsHoldIssued, IssuedOnce
<1>1. ASSUME UNCHANGED <<issued, access, ended, endedAt, late>>,
             \A r \in Requests : pc'[r] = "chain" => pc[r] = "chain"
      PROVE  EndInv'
  BY <1>a, <1>b, <1>1 DEF EndInv, SessionOf
<1>2. ASSUME NEW r \in Requests, NEW status \in {"401", "create", "500", "claim", "sweep"},
             Answer(r, status)
      PROVE  \A q \in Requests : pc'[q] = "chain" => pc[q] = "chain"
  BY <1>0, <1>2 DEF Answer, TypeOK
<1>3. ASSUME NoteEnded, ended \subseteq ended', UNCHANGED <<issued, access, now>>,
             \A r \in Requests : pc'[r] = "chain" => pc[r] = "chain"
      PROVE  EndInv'
  <2>1. /\ endedAt' = [s \in Tokens |-> IF s \in ended' \ ended THEN now ELSE endedAt[s]]
        /\ late' = late \cup {r \in Requests : /\ pc[r] = "chain"
                                               /\ birth[issued[r]].session \in ended'}
    BY <1>3 DEF NoteEnded
  <2>2. \A r \in Requests : issued[r] # Null =>
           SessionOf(r)' = SessionOf(r) /\ SessionOf(r) \in Tokens
    BY <1>0, <1>3, <1>a DEF SessionOf, IssuedOnce, TypeOK, Birth
  <2>3. ASSUME NEW r \in Requests, pc'[r] = "chain", SessionOf(r)' \in ended'
        PROVE  r \in late'
    BY <1>3, <1>b, <2>1, <2>2, <2>3 DEF SessionOf
  <2>4. ASSUME NEW r \in Requests, access'[r] # Null, SessionOf(r)' \in ended'
        PROVE  r \in late' \/ access'[r].exp <= endedAt'[SessionOf(r)'] + AccessLifetime
    <3>1. SessionOf(r)' = SessionOf(r) /\ SessionOf(r) \in Tokens /\ access' = access
      BY <1>3, <1>b, <2>2, <2>4
    <3>2. CASE SessionOf(r) \in ended
      <4>1. endedAt'[SessionOf(r)] = endedAt[SessionOf(r)]
        BY <2>1, <3>1, <3>2
      <4> QED
        BY <2>1, <2>4, <3>1, <3>2, <4>1 DEF EndInv
    <3>3. CASE SessionOf(r) \notin ended
      <4>1. endedAt'[SessionOf(r)] = now
        BY <2>1, <2>4, <3>1, <3>3
      <4> QED
        BY <2>4, <3>1, <4>1 DEF RolesInv
    <3> QED
      BY <3>2, <3>3
  <2> QED
    BY <2>3, <2>4 DEF EndInv
<1>4. ASSUME NEW r \in Requests, NEW t \in Tokens, LoginIssue(r, t)
      PROVE  EndInv'
  <2>1. read[r].user \in Users
    BY <1>0, <1>4 DEF LoginIssue, SessionsTypeOK, Read
  <2>2. CreateRefreshToken(r, t, read[r].user, t, Null)
    BY <1>4 DEF LoginIssue, IssueTokens
  <2>3. /\ birth[t] = Null /\ birth'[t].session = t /\ issued'[r] = t
        /\ \A q \in Requests \ {r} : issued'[q] = issued[q]
    BY <1>0, <2>1, <2>2, CreateEffect
  <2>4. t \notin ended
    BY <1>0, <2>3 DEF EndedHasNoHolder, NoHolder
  <2>5. /\ \A q \in Requests \ {r} : access'[q] = access[q]
        /\ pc' = [pc EXCEPT ![r] = "200"]
        /\ UNCHANGED <<ended, endedAt, late>>
    BY <1>0, <1>4 DEF LoginIssue, IssueTokens, Answer, SignAccessToken, SessionsTypeOK
  <2>6. pc'[r] # "chain" /\ \A q \in Requests \ {r} : pc'[q] = pc[q]
    BY <1>0, <2>5 DEF TypeOK
  <2>7. SessionOf(r)' \notin ended'
    BY <2>3, <2>4, <2>5 DEF SessionOf
  <2> QED
    BY <1>a, <1>b, <2>3, <2>5, <2>6, <2>7 DEF EndInv, SessionOf
<1>5. ASSUME NEW r \in Requests, NEW t \in Tokens, RefreshCreate(r, t),
             UNCHANGED <<access, endedAt, late>>
      PROVE  EndInv'
  <2>1. /\ stored[r].user \in Users /\ stored[r].id \in Tokens
        /\ birth[stored[r].id].session \in Tokens
    BY <1>0, <1>5 DEF RefreshCreate, RequestsHoldIssued, TypeOK, Stored, Birth, Awaits
  <2>2. CreateRefreshToken(r, t, stored[r].user, birth[stored[r].id].session, stored[r].id)
    BY <1>5 DEF RefreshCreate
  <2>3. /\ birth'[t].session = birth[stored[r].id].session /\ issued'[r] = t
        /\ \A q \in Requests \ {r} : issued'[q] = issued[q]
    BY <1>0, <2>1, <2>2, CreateEffect
  <2>4. pc[r] = "create" /\ UNCHANGED ended
        /\ \A q \in Requests \ {r} : pc'[q] = pc[q]
    BY <1>0, <1>5 DEF RefreshCreate, Answer, TypeOK
  <2>5. birth[stored[r].id].session \notin ended
    BY <1>0, <2>4 DEF EndedHasNoHolder, NoHolder, Rotating
  <2>6. SessionOf(r)' \notin ended'
    BY <2>3, <2>4, <2>5 DEF SessionOf
  <2> QED
    BY <1>a, <1>b, <1>5, <2>3, <2>4, <2>6 DEF EndInv, SessionOf
<1>6. ASSUME NEW r \in Requests, RefreshAnswer(r)
      PROVE  EndInv'
  <2>1. /\ pc[r] = "chain" /\ UNCHANGED <<issued, birth, ended, endedAt, late>>
        /\ pc' = [pc EXCEPT ![r] = "200"]
        /\ \A q \in Requests \ {r} : access'[q] = access[q]
    BY <1>0, <1>6 DEF RefreshAnswer, RefreshChain, Answer, SignAccessToken, SessionsTypeOK
  <2>2. pc'[r] # "chain" /\ \A q \in Requests \ {r} : pc'[q] = pc[q]
    BY <1>0, <2>1 DEF TypeOK
  <2>3. SessionOf(r) \in ended => r \in late
    BY <2>1 DEF EndInv
  <2> QED
    BY <2>1, <2>2, <2>3 DEF EndInv, SessionOf
<1>7. ASSUME NEW c \in Clients, NEW r \in Requests, RefreshFind(c, r)
      PROVE  EndInv'
  <2>1. UNCHANGED <<issued, access, ended, endedAt, late>>
    BY <1>7 DEF RefreshFind, RefreshUnknown, RefreshReused, RefreshExpired, RefreshFresh,
                RefreshFound, history
  <2>2. \E status \in {"401", "sweep", "claim"} : Answer(r, status)
    BY <1>7 DEF RefreshFind, RefreshUnknown, RefreshReused, RefreshExpired, RefreshFresh,
                RefreshFound
  <2> QED
    BY <1>1, <1>2, <2>1, <2>2
<1>8. ASSUME NEW r \in Requests, UNCHANGED <<access, endedAt, late>>,
             RefreshClaim(r) \/ RefreshClaimLost(r) \/ RefreshChainMissing(r) \/ Abort(r)
      PROVE  EndInv'
  <2>1. UNCHANGED <<issued, ended>> /\ \E status \in {"401", "create", "500"} : Answer(r, status)
    BY <1>8 DEF RefreshClaim, RefreshClaimLost, RefreshChainMissing, Abort, history
  <2> QED
    BY <1>1, <1>2, <1>8, <2>1
<1>9. ASSUME NEW r \in Requests, RefreshTearDown(r)
      PROVE  EndInv'
  BY <1>2, <1>3, <1>9 DEF RefreshTearDown, RefreshSweep, RevokeAllForUser
<1>10. ASSUME NEW c \in Clients, ClientLogout(c)
       PROVE  EndInv'
  BY <1>1, <1>3, <1>10 DEF ClientLogout, Logout, vars, codeVars, history
<1>11. ASSUME NEW c \in Clients, NEW r \in Requests, ClientLogoutAll(c, r)
       PROVE  EndInv'
  BY <1>3, <1>11 DEF ClientLogoutAll, LogoutAll, RevokeAllForUser
<1>12. CASE UNCHANGED <<pc, issued, access, ended, endedAt, late>>
  BY <1>1, <1>12
<1> QED
  BY <1>4, <1>5, <1>6, <1>7, <1>8, <1>9, <1>10, <1>11, <1>12
     DEF SessionsNext, LoginFind, RefreshRotate, RequestFails, Receive, LoseAnswer, SetRole,
         Elapse, allVars, vars, codeVars, history, RemoveExpired, Tick

(* The access tokens of a session that ended run out one lifetime later,    *)
(* but for that of a refresh which only had to answer.                      *)
THEOREM LogoutIsTimely == SessionsSpec => []LogoutTakesEffect
<1>1. SessionsInit => RolesInv /\ EndInv
  BY DEF SessionsInit, Init, RolesInv, EndInv
<1>2. SInv /\ RolesInv /\ EndInv /\ [SessionsNext]_allVars => RolesInv' /\ EndInv'
  BY RolesStep, EndStep
<1>3. SInv /\ EndInv => LogoutTakesEffect
  <2> SUFFICES ASSUME SInv, EndInv, NEW r \in Requests, JwtAuthGuard(r),
                      SessionOf(r) \in ended, r \notin late
               PROVE  now < endedAt[SessionOf(r)] + AccessLifetime
    BY DEF LogoutTakesEffect, SessionOf
  <2>1. access[r] # Null /\ now < access[r].exp
    BY DEF JwtAuthGuard
  <2>2. access[r].exp <= endedAt[SessionOf(r)] + AccessLifetime
    BY <2>1 DEF EndInv
  <2>3. access[r].exp \in Nat /\ now \in Nat
    BY <2>1, TimeAssumption, AccessLifetimeAssumption
       DEF SInv, IInv, SessionsTypeOK, TypeOK, Access
  <2>4. endedAt[SessionOf(r)] \in Nat
    BY TimeAssumption DEF SInv, IInv, SessionsTypeOK, TypeOK
  <2> QED
    BY <2>1, <2>2, <2>3, <2>4, AccessLifetimeAssumption
<1> QED
  BY SessionsInductive, <1>1, <1>2, <1>3, PTL DEF SessionsSpec

-----------------------------------------------------------------------------
(* Who holds a token.                                                       *)

(* A new token is nobody's yet.                                             *)
LEMMA NewTokenIsNobodys ==
    ASSUME SInv, ClientsApart, NEW t \in Tokens, birth[t] = Null
    PROVE  /\ \A c \in Clients : holds[c] # t
           /\ \A r \in Requests : issued[r] # t
BY NullAssumption, SessionsNullAssumption DEF SInv, IssuedOnce, ClientsApart

(* No step gives a token to a second client, or a request to one.           *)
LEMMA ClientsStep ==
    ASSUME SInv, ClientsApart, AsksInv, [SessionsNext]_allVars
    PROVE  ClientsApart'
<1> USE NullAssumption, SessionsNullAssumption DEF sessionVars, clientVars, sessionHistory
<1>0. TypeOK /\ SessionsTypeOK /\ IssuedOnce /\ RequestsHoldIssued
  BY DEF SInv, IInv
<1>a. \A c \in Clients : holds[c] \in Tokens \cup {Null} /\ asks[c] \in Requests \cup {Null}
  BY <1>0 DEF SessionsTypeOK
<1>b. \A t \in Tokens : birth[t] # Null => birth'[t] = birth[t]
  BY SessionStays
<1>1. ASSUME UNCHANGED <<clientVars, issued>>
      PROVE  ClientsApart'
  BY <1>a, <1>b, <1>1 DEF ClientsApart
<1>2. ASSUME NEW r \in Requests, NEW t \in Tokens, birth[t] = Null, birth'[t] # Null,
             issued' = [issued EXCEPT ![r] = t], UNCHANGED clientVars
      PROVE  ClientsApart'
  <2>1. issued'[r] = t /\ \A q \in Requests \ {r} : issued'[q] = issued[q]
    BY <1>0, <1>2 DEF TypeOK
  <2>2. \A c \in Clients : holds[c] # t
    BY <1>2, NewTokenIsNobodys
  <2> QED
    BY <1>a, <1>b, <1>2, <2>1, <2>2 DEF ClientsApart
<1>3. ASSUME NEW r \in Requests, NEW t \in Tokens, LoginIssue(r, t)
      PROVE  ClientsApart'
  <2>1. read[r].user \in Users
    BY <1>0, <1>3 DEF LoginIssue, SessionsTypeOK, Read
  <2>2. CreateRefreshToken(r, t, read[r].user, t, Null)
    BY <1>3 DEF LoginIssue, IssueTokens
  <2>3. birth[t] = Null /\ birth'[t] # Null
    BY <1>0, <2>1, <2>2, CreateEffect
  <2>4. issued' = [issued EXCEPT ![r] = t] /\ UNCHANGED clientVars
    BY <1>3, <2>2 DEF LoginIssue, CreateRefreshToken
  <2> QED
    BY <1>2, <2>3, <2>4
<1>4. ASSUME NEW r \in Requests, NEW t \in Tokens, RefreshCreate(r, t), UNCHANGED clientVars
      PROVE  ClientsApart'
  <2>1. /\ stored[r].user \in Users /\ stored[r].id \in Tokens
        /\ birth[stored[r].id].session \in Tokens
    BY <1>0, <1>4 DEF RefreshCreate, RequestsHoldIssued, TypeOK, Stored, Birth, Awaits
  <2>2. CreateRefreshToken(r, t, stored[r].user, birth[stored[r].id].session, stored[r].id)
    BY <1>4 DEF RefreshCreate
  <2>3. birth[t] = Null /\ birth'[t] # Null
    BY <1>0, <2>1, <2>2, CreateEffect
  <2>4. issued' = [issued EXCEPT ![r] = t] /\ UNCHANGED clientVars
    BY <1>4, <2>2 DEF CreateRefreshToken
  <2> QED
    BY <1>2, <2>3, <2>4
<1>5. ASSUME NEW c \in Clients, NEW r \in Requests, pc[r] = "new", read[r] = Null,
             asks' = [asks EXCEPT ![c] = r], UNCHANGED <<holds, issued>>
      PROVE  ClientsApart'
  <2>1. issued[r] = Null /\ \A d \in Clients : asks[d] # r
    BY <1>0, <1>5 DEF IssuedOnce, AsksInv
  <2>2. asks'[c] = r /\ \A d \in Clients \ {c} : asks'[d] = asks[d]
    BY <1>0, <1>5 DEF SessionsTypeOK
  <2> QED
    BY <1>a, <1>b, <1>5, <2>1, <2>2 DEF ClientsApart
<1>6. ASSUME NEW c \in Clients, NEW r \in Requests, Receive(c, r)
      PROVE  ClientsApart'
  <2>1. /\ asks[c] = r /\ UNCHANGED issued
        /\ asks'[c] = Null /\ \A d \in Clients \ {c} : asks'[d] = asks[d]
    BY <1>0, <1>6 DEF Receive, SessionsTypeOK, vars, codeVars
  <2>2. /\ holds'[c] = issued[r] \/ holds'[c] = Null \/ holds'[c] = holds[c]
        /\ \A d \in Clients \ {c} : holds'[d] = holds[d]
    BY <1>0, <1>6 DEF Receive, Answers, SessionsTypeOK
  <2>3. issued[r] # Null =>
           /\ \A d \in Clients : holds[d] # issued[r]
           /\ \A d \in Clients \ {c} : asks[d] # Null => issued[asks[d]] # issued[r]
           /\ birth[issued[r]] # Null
    BY <1>0, <1>a, <2>1 DEF ClientsApart, IssuedOnce
  <2>4. /\ issued[r] # Null => issued[r] \in Tokens /\ birth'[issued[r]] = birth[issued[r]]
        /\ \A d \in Clients : holds[d] # Null => birth'[holds[d]] = birth[holds[d]]
    BY <1>0, <1>a, <1>b, <2>3 DEF TypeOK, ClientsApart
  <2> QED
    BY <2>1, <2>2, <2>3, <2>4 DEF ClientsApart
<1>7. ASSUME NEW c \in Clients, UNCHANGED issued,
             /\ holds' = holds \/ holds' = [holds EXCEPT ![c] = Null]
             /\ asks' = asks \/ asks' = [asks EXCEPT ![c] = Null]
      PROVE  ClientsApart'
  <2>1. \A d \in Clients : /\ holds'[d] = holds[d] \/ holds'[d] = Null
                           /\ asks'[d] = asks[d] \/ asks'[d] = Null
    BY <1>0, <1>7 DEF SessionsTypeOK
  <2> QED
    BY <1>a, <1>b, <1>7, <2>1 DEF ClientsApart
<1>8. ASSUME NEW c \in Clients, NEW r \in Requests,
             \/ \E u \in Users : LoginFind(c, r, u)
             \/ RefreshFind(c, r)
      PROVE  ClientsApart'
  <2>1. /\ pc[r] = "new" /\ read[r] = Null /\ asks' = [asks EXCEPT ![c] = r]
        /\ UNCHANGED <<holds, issued>>
    BY <1>8 DEF LoginFind, RefreshFind, RefreshUnknown, RefreshReused, RefreshExpired,
                RefreshFresh, RefreshFound, vars, codeVars
  <2> QED
    BY <1>5, <2>1
<1>9. ASSUME NEW c \in Clients, NEW r \in Requests,
             ClientLogoutAll(c, r) \/ LoseAnswer(c, r)
      PROVE  ClientsApart'
  <2>1. UNCHANGED issued
    BY <1>9 DEF ClientLogoutAll, LoseAnswer, LogoutAll, vars, codeVars
  <2> QED
    BY <1>7, <1>9, <2>1 DEF ClientLogoutAll, LoseAnswer
<1>10. ASSUME NEW c \in Clients, ClientLogout(c)
       PROVE  ClientsApart'
  BY <1>7, <1>10 DEF ClientLogout, Logout, vars, codeVars
<1> QED
  BY <1>1, <1>3, <1>4, <1>6, <1>8, <1>9, <1>10
     DEF SessionsNext, RefreshRotate, RefreshAnswer, RefreshTearDown, RequestFails, SetRole,
         Elapse, allVars, vars, codeVars, history, RefreshClaim, RefreshClaimLost,
         RefreshChain, RefreshChainMissing, RefreshSweep, Abort, RemoveExpired, Tick

(* A client waits for the refresh of the token it holds, or for a login.    *)
LEMMA AsksStep ==
    ASSUME SInv, AsksInv, [SessionsNext]_allVars
    PROVE  AsksInv'
<1> USE NullAssumption, SessionsNullAssumption DEF sessionVars, clientVars, sessionHistory
<1>0. TypeOK /\ SessionsTypeOK /\ RequestsHoldIssued /\ HasRead
  BY DEF SInv, IInv
<1>a. \A c \in Clients : holds[c] \in Tokens \cup {Null} /\ asks[c] \in Requests \cup {Null}
  BY <1>0 DEF SessionsTypeOK
<1>1. ASSUME NEW r \in Requests, NEW status \in Awaits \cup Answers, pc[r] \in Awaits,
             Answer(r, status), UNCHANGED <<clientVars, stored, read>>
      PROVE  AsksInv'
  <2>1. pc'[r] = status /\ \A q \in Requests \ {r} : pc'[q] = pc[q]
    BY <1>0, <1>1 DEF Answer, TypeOK
  <2>2. stored[r] # Null /\ pc[r] \notin {"new", "200", "401"} /\ status # "new"
    BY <1>0, <1>1 DEF RequestsHoldIssued, Awaits, Answers
  <2> QED
    BY <1>a, <1>1, <2>1, <2>2 DEF AsksInv
<1>2. ASSUME NEW c \in Clients, NEW r \in Requests, NEW u \in Users, LoginFind(c, r, u)
      PROVE  AsksInv'
  <2>1. /\ holds[c] = Null /\ pc[r] = "new" /\ read[r] = Null
        /\ read' = [read EXCEPT ![r] = [user |-> u, role |-> role[u]]]
        /\ asks' = [asks EXCEPT ![c] = r] /\ UNCHANGED <<pc, stored, holds>>
    BY <1>2 DEF LoginFind, ReadUser, vars, codeVars
  <2>2. [user |-> u, role |-> role[u]] \in Read
    BY <1>0 DEF SessionsTypeOK, Read
  <2>3. /\ read'[r] # Null /\ \A q \in Requests \ {r} : read'[q] = read[q]
        /\ asks'[c] = r /\ \A d \in Clients \ {c} : asks'[d] = asks[d]
    BY <1>0, <2>1, <2>2 DEF SessionsTypeOK
  <2>4. stored[r] = Null /\ \A d \in Clients : asks[d] # r
    BY <1>0, <2>1 DEF RequestsHoldIssued, AsksInv
  <2> QED
    BY <1>a, <2>1, <2>3, <2>4 DEF AsksInv
<1>3. ASSUME NEW c \in Clients, NEW r \in Requests, RefreshFind(c, r)
      PROVE  AsksInv'
  <2>1. /\ holds[c] \in Tokens /\ pc[r] = "new" /\ read[r] = Null
        /\ asks' = [asks EXCEPT ![c] = r] /\ UNCHANGED holds
        /\ \E status \in {"401", "sweep", "claim"} : Answer(r, status)
    BY <1>a, <1>3 DEF RefreshFind, RefreshUnknown, RefreshReused, RefreshExpired,
                      RefreshFresh, RefreshFound
  <2>2. /\ pc'[r] # "new" /\ \A q \in Requests \ {r} : pc'[q] = pc[q]
        /\ asks'[c] = r /\ \A d \in Clients \ {c} : asks'[d] = asks[d]
    BY <1>0, <2>1 DEF Answer, TypeOK, SessionsTypeOK
  <2>3. /\ \A q \in Requests \ {r} : stored'[q] = stored[q] /\ read'[q] = read[q]
        /\ stored'[r] = Null => pc'[r] = "401" /\ read'[r] = Null
        /\ stored'[r] # Null => stored'[r].id = holds[c]
    <3>1. CASE RefreshUnknown(r, holds[c]) /\ UNCHANGED read
      <4>1. stored[r] = Null /\ UNCHANGED stored /\ pc'[r] = "401"
        BY <1>0, <2>1, <3>1 DEF RefreshUnknown, RequestsHoldIssued, Answer, TypeOK
      <4> QED
        BY <2>1, <3>1, <4>1
    <3>2. CASE /\ stored' = [stored EXCEPT ![r] = [id |-> holds[c], user |-> rows[holds[c]].user]]
               /\ ReadUser(r, rows[holds[c]].user) /\ rows[holds[c]] # Null
      <4> DEFINE row == [id |-> holds[c], user |-> rows[holds[c]].user]
      <4>1. row \in Stored /\ row.id = holds[c]
        BY <1>0, <2>1, <3>2 DEF TypeOK, Row, Stored
      <4>2. row # Null /\ row.id = holds[c]
        BY <4>1
      <4> HIDE DEF row
      <4>3. stored' = [stored EXCEPT ![r] = row]
        BY <3>2 DEF row
      <4>4. \A q \in Requests \ {r} : read'[q] = read[q]
        BY <1>0, <3>2 DEF ReadUser, SessionsTypeOK
      <4> QED
        BY <1>0, <4>2, <4>3, <4>4 DEF TypeOK
    <3> QED
      BY <1>3, <3>1, <3>2 DEF RefreshFind, RefreshReused, RefreshExpired, RefreshFresh,
                              RefreshFound
  <2>4. \A d \in Clients : asks[d] # r
    BY <2>1 DEF AsksInv
  <2> QED
    BY <1>a, <2>1, <2>2, <2>3, <2>4 DEF AsksInv
<1>4. ASSUME NEW r \in Requests, NEW t \in Tokens, LoginIssue(r, t)
      PROVE  AsksInv'
  <2>1. /\ pc[r] = "new" /\ pc' = [pc EXCEPT ![r] = "200"]
        /\ UNCHANGED <<clientVars, stored, read>>
    BY <1>4 DEF LoginIssue, IssueTokens, Answer
  <2>2. pc'[r] = "200" /\ \A q \in Requests \ {r} : pc'[q] = pc[q]
    BY <1>0, <2>1 DEF TypeOK
  <2> QED
    BY <1>a, <2>1, <2>2 DEF AsksInv
<1>5. ASSUME NEW r \in Requests,
             \/ RefreshRotate(r) \/ RefreshAnswer(r) \/ RefreshTearDown(r) \/ RequestFails(r)
      PROVE  AsksInv'
  <2>1. pc[r] \in Awaits /\ \E status \in Awaits \cup Answers : Answer(r, status)
    BY <1>5 DEF RefreshRotate, RefreshAnswer, RefreshTearDown, RequestFails, RefreshClaim,
                RefreshClaimLost, RefreshCreate, RefreshChain, RefreshChainMissing,
                RefreshSweep, Abort, Awaits, Answers
  <2>2. UNCHANGED <<clientVars, stored, read>>
    BY <1>5 DEF RefreshRotate, RefreshAnswer, RefreshTearDown, RequestFails, RefreshClaim,
                RefreshClaimLost, RefreshCreate, RefreshChain, RefreshChainMissing,
                RefreshSweep, Abort
  <2> QED
    BY <1>1, <2>1, <2>2
<1>6. ASSUME NEW c \in Clients, UNCHANGED <<pc, stored, read>>,
             \A d \in Clients \ {c} : holds'[d] = holds[d] /\ asks'[d] = asks[d],
             asks'[c] = Null
      PROVE  AsksInv'
  BY <1>6 DEF AsksInv
<1>7. ASSUME NEW c \in Clients, NEW r \in Requests,
             ClientLogoutAll(c, r) \/ Receive(c, r) \/ LoseAnswer(c, r)
      PROVE  AsksInv'
  <2>1. UNCHANGED <<pc, stored, read>>
    BY <1>7 DEF ClientLogoutAll, Receive, LoseAnswer, LogoutAll, vars, codeVars
  <2>2. /\ \A d \in Clients \ {c} : holds'[d] = holds[d] /\ asks'[d] = asks[d]
        /\ asks'[c] = Null
    BY <1>0, <1>7 DEF ClientLogoutAll, Receive, LoseAnswer, SessionsTypeOK
  <2> QED
    BY <1>6, <2>1, <2>2
<1>8. ASSUME NEW c \in Clients, ClientLogout(c)
      PROVE  AsksInv'
  <2>1. UNCHANGED <<pc, stored, read>>
    BY <1>8 DEF ClientLogout, Logout, vars, codeVars
  <2>2. /\ \A d \in Clients \ {c} : holds'[d] = holds[d] /\ asks'[d] = asks[d]
        /\ asks'[c] = Null
    BY <1>0, <1>8 DEF ClientLogout, SessionsTypeOK
  <2> QED
    BY <1>6, <2>1, <2>2
<1>9. CASE UNCHANGED <<pc, stored, read, clientVars>>
  BY <1>9 DEF AsksInv
<1> QED
  BY <1>2, <1>3, <1>4, <1>5, <1>7, <1>8, <1>9
     DEF SessionsNext, SetRole, Elapse, allVars, vars, codeVars, RemoveExpired, Tick

(* Trouble is not forgotten.                                                *)
LEMMA TroubleStays ==
    ASSUME [SessionsNext]_allVars
    PROVE  troubled \subseteq troubled'
BY DEF SessionsNext, LoginFind, LoginIssue, RefreshFind, RefreshRotate, RefreshAnswer,
       RefreshTearDown, RequestFails, ClientLogout, ClientLogoutAll, Receive, LoseAnswer,
       SetRole, Elapse, allVars, sessionVars, sessionHistory

(* A refresh loses its client only in trouble.                              *)
LEMMA FlightsStep ==
    ASSUME SInv, FlightsInv, [SessionsNext]_allVars
    PROVE  FlightsInv'
<1> USE NullAssumption, SessionsNullAssumption, TroubleStays
    DEF sessionVars, clientVars, sessionHistory
<1>0. TypeOK /\ SessionsTypeOK /\ RequestsHoldIssued /\ HasRead
  BY DEF SInv, IInv
<1>1. ASSUME UNCHANGED asks,
             \A r \in Requests : pc'[r] \in Awaits => pc[r] \in Awaits /\ stored'[r] = stored[r]
      PROVE  FlightsInv'
  BY <1>1 DEF FlightsInv
<1>2. ASSUME NEW c \in Clients, NEW r \in Requests, asks[c] = Null, asks' = [asks EXCEPT ![c] = r],
             \A q \in Requests \ {r} : pc'[q] = pc[q] /\ stored'[q] = stored[q]
      PROVE  FlightsInv'
  <2>1. asks'[c] = r /\ \A d \in Clients : asks[d] # Null => asks'[d] = asks[d]
    BY <1>0, <1>2 DEF SessionsTypeOK
  <2> QED
    BY <1>2, <2>1 DEF FlightsInv
<1>3. ASSUME NEW c \in Clients, NEW r \in Requests, RefreshFind(c, r)
      PROVE  FlightsInv'
  <2>1. /\ asks[c] = Null /\ asks' = [asks EXCEPT ![c] = r]
        /\ \E status : Answer(r, status)
        /\ UNCHANGED stored \/ stored' = [stored EXCEPT ![r] = [id |-> holds[c],
                                                             user |-> rows[holds[c]].user]]
    BY <1>3 DEF RefreshFind, RefreshUnknown, RefreshReused, RefreshExpired, RefreshFresh,
                RefreshFound
  <2>2. \A q \in Requests \ {r} : pc'[q] = pc[q] /\ stored'[q] = stored[q]
    BY <1>0, <2>1 DEF Answer, TypeOK
  <2> QED
    BY <1>2, <2>1, <2>2
<1>4. ASSUME NEW c \in Clients, NEW r \in Requests, NEW u \in Users, LoginFind(c, r, u)
      PROVE  FlightsInv'
  BY <1>2, <1>4 DEF LoginFind, vars, codeVars
<1>5. ASSUME NEW r \in Requests, NEW t \in Tokens, LoginIssue(r, t)
      PROVE  FlightsInv'
  <2>1. pc' = [pc EXCEPT ![r] = "200"] /\ UNCHANGED <<asks, stored>>
    BY <1>5 DEF LoginIssue, IssueTokens, Answer
  <2> QED
    BY <1>0, <1>1, <2>1 DEF TypeOK, Awaits
<1>6. ASSUME NEW r \in Requests,
             \/ RefreshRotate(r) \/ RefreshAnswer(r) \/ RefreshTearDown(r) \/ RequestFails(r)
      PROVE  FlightsInv'
  <2>1. pc[r] \in Awaits /\ UNCHANGED <<asks, stored>> /\ \E status : Answer(r, status)
    BY <1>6 DEF RefreshRotate, RefreshAnswer, RefreshTearDown, RequestFails, RefreshClaim,
                RefreshClaimLost, RefreshCreate, RefreshChain, RefreshChainMissing,
                RefreshSweep, Abort, Awaits
  <2> QED
    BY <1>0, <1>1, <2>1 DEF Answer, TypeOK
<1>7. ASSUME NEW c \in Clients, NEW r \in Requests, Receive(c, r)
      PROVE  FlightsInv'
  <2>1. /\ asks[c] = r /\ pc[r] \notin Awaits /\ UNCHANGED <<pc, stored>>
        /\ \A d \in Clients \ {c} : asks'[d] = asks[d]
    BY <1>0, <1>7 DEF Receive, Awaits, Answers, SessionsTypeOK, vars, codeVars
  <2> QED
    BY <2>1 DEF FlightsInv
<1>8. ASSUME NEW c \in Clients, NEW r \in Requests, LoseAnswer(c, r)
      PROVE  FlightsInv'
  <2>1. /\ asks[c] = r /\ UNCHANGED <<pc, stored>>
        /\ \A d \in Clients \ {c} : asks'[d] = asks[d]
        /\ troubled' = troubled \cup {u \in Users : read[r] # Null /\ read[r].user = u}
    BY <1>0, <1>8 DEF LoseAnswer, SessionsTypeOK, vars, codeVars
  <2>2. pc[r] \in Awaits => stored[r].user \in troubled'
    <3> SUFFICES ASSUME pc[r] \in Awaits PROVE stored[r].user \in troubled'
      OBVIOUS
    <3>1. /\ stored[r] # Null /\ read[r] # Null /\ read[r].user = stored[r].user
          /\ stored[r].user \in Users
      BY <1>0 DEF RequestsHoldIssued, HasRead, TypeOK, Stored
    <3> QED
      BY <2>1, <3>1
  <2> QED
    BY <2>1, <2>2 DEF FlightsInv
<1>9. CASE UNCHANGED <<pc, stored, asks>>
  BY <1>1, <1>9
<1> QED
  BY <1>3, <1>4, <1>5, <1>6, <1>7, <1>8, <1>9
     DEF SessionsNext, ClientLogout, ClientLogoutAll, Logout, LogoutAll, SetRole, Elapse,
         allVars, vars, codeVars, RemoveExpired, Tick

(* Only the token of a user in trouble is found revoked.                    *)
LEMMA TearDownStep ==
    ASSUME SInv, AsksInv, KeptInv, TearDownHasACause, [SessionsNext]_allVars
    PROVE  TearDownHasACause'
<1> USE NullAssumption, SessionsNullAssumption, TroubleStays
    DEF sessionVars, clientVars, sessionHistory
<1>0. TypeOK /\ SessionsTypeOK /\ RequestsHoldIssued /\ RowsMatchBirth
  BY DEF SInv, IInv
<1>1. ASSUME \A r \in Requests :
                pc'[r] = "sweep" => pc[r] = "sweep" /\ stored'[r] = stored[r]
      PROVE  TearDownHasACause'
  BY <1>1 DEF TearDownHasACause
<1>2. ASSUME NEW r \in Requests, NEW status, status # "sweep", Answer(r, status),
             \A q \in Requests \ {r} : stored'[q] = stored[q]
      PROVE  TearDownHasACause'
  BY <1>0, <1>1, <1>2 DEF Answer, TypeOK
<1>3. ASSUME NEW c \in Clients, NEW r \in Requests, RefreshFind(c, r)
      PROVE  TearDownHasACause'
  <2> DEFINE t == holds[c]
  <2>1. t \in Tokens /\ asks[c] = Null
    BY <1>0, <1>3 DEF RefreshFind, SessionsTypeOK
  <2>2. CASE RefreshUnknown(r, t)
    BY <1>2, <2>2 DEF RefreshUnknown
  <2>3. CASE RefreshExpired(r, t) \/ RefreshFresh(r, t)
    <3>1. /\ Answer(r, "401") \/ Answer(r, "claim")
          /\ \A q \in Requests \ {r} : stored'[q] = stored[q]
      BY <1>0, <2>3 DEF RefreshExpired, RefreshFresh, RefreshFound, TypeOK
    <3> QED
      BY <1>2, <3>1
  <2>4. CASE RefreshReused(r, t)
    <3> DEFINE row == [id |-> t, user |-> rows[t].user]
    <3>1. /\ rows[t] # Null /\ rows[t].revoked /\ Answer(r, "sweep")
          /\ stored' = [stored EXCEPT ![r] = row] /\ UNCHANGED rows
      BY <2>4 DEF RefreshReused, RefreshFound
    <3>2. rows[t].user = birth[t].user /\ row.user = rows[t].user
      BY <1>0, <2>1, <3>1 DEF RowsMatchBirth
    <3>3. birth[t].user \in troubled
      BY <1>3, <2>1, <3>1 DEF RefreshFind, KeptInv, KeptFor, Needs, Kept
    <3> HIDE DEF row
    <3>4. /\ stored'[r].user \in troubled
          /\ \A q \in Requests \ {r} : stored'[q] = stored[q] /\ pc'[q] = pc[q]
      BY <1>0, <3>1, <3>2, <3>3 DEF TypeOK, Answer
    <3> QED
      BY <3>4 DEF TearDownHasACause
  <2> QED
    BY <1>3, <2>2, <2>3, <2>4 DEF RefreshFind
<1>4. ASSUME NEW r \in Requests, NEW t \in Tokens, LoginIssue(r, t)
      PROVE  TearDownHasACause'
  BY <1>2, <1>4 DEF LoginIssue, IssueTokens
<1>5. ASSUME NEW r \in Requests,
             \/ RefreshRotate(r) \/ RefreshAnswer(r) \/ RefreshTearDown(r) \/ RequestFails(r)
      PROVE  TearDownHasACause'
  <2>1. UNCHANGED stored /\ \E status \in {"401", "create", "chain", "200", "500"} : Answer(r, status)
    BY <1>5 DEF RefreshRotate, RefreshAnswer, RefreshTearDown, RequestFails, RefreshClaim,
                RefreshClaimLost, RefreshCreate, RefreshChain, RefreshChainMissing,
                RefreshSweep, Abort
  <2> QED
    BY <1>2, <2>1
<1>6. CASE UNCHANGED <<pc, stored>>
  BY <1>1, <1>6
<1> QED
  BY <1>3, <1>4, <1>5, <1>6
     DEF SessionsNext, LoginFind, ClientLogout, ClientLogoutAll, Receive, LoseAnswer, Logout,
         LogoutAll, SetRole, Elapse, allVars, vars, codeVars, RemoveExpired, Tick

\* Kept, after the step.
KeptNext(t) == rows'[t] # Null => ~rows'[t].revoked

(* A client keeps its token as long as it waits for the same request, that  *)
(* request rests, and nobody else revokes what is the client's.             *)
LEMMA KeptFrame ==
    ASSUME SInv, ClientsApart, KeptInv, [SessionsNext]_allVars, NEW c \in Clients,
           holds'[c] = holds[c], asks'[c] = asks[c],
           asks[c] # Null => /\ pc'[asks[c]] = pc[asks[c]] /\ read'[asks[c]] = read[asks[c]]
                             /\ issued'[asks[c]] = issued[asks[c]],
           \A t \in Tokens :
              /\ t = holds[c] \/ (asks[c] # Null /\ t = issued[asks[c]])
              /\ birth[t] # Null /\ birth[t].user \notin troubled' /\ Kept(t)
              => KeptNext(t)
    PROVE  KeptFor(c)'
<1>0. TypeOK /\ SessionsTypeOK /\ IssuedOnce
  BY DEF SInv, IInv
<1>1. troubled \subseteq troubled'
  BY TroubleStays
<1>2. ASSUME holds[c] # Null
      PROVE  holds[c] \in Tokens /\ birth[holds[c]] # Null /\ birth'[holds[c]] = birth[holds[c]]
  BY <1>0, <1>2, SessionStays DEF SessionsTypeOK, ClientsApart
<1>3. ASSUME asks[c] # Null, issued[asks[c]] # Null
      PROVE  /\ issued[asks[c]] \in Tokens /\ birth[issued[asks[c]]] # Null
             /\ birth'[issued[asks[c]]] = birth[issued[asks[c]]]
  BY <1>0, <1>3, SessionStays DEF SessionsTypeOK, TypeOK, IssuedOnce
<1>4. ASSUME Needs(c)'
      PROVE  KeptNext(holds'[c])
  <2>1. Needs(c) /\ birth[holds[c]].user \notin troubled'
    BY <1>1, <1>2, <1>4 DEF Needs
  <2>2. Kept(holds[c]) /\ holds[c] # Null
    BY <2>1 DEF KeptInv, KeptFor, Needs
  <2> QED
    BY <1>2, <2>1, <2>2
<1>5. ASSUME Expects(c)'
      PROVE  KeptNext(issued'[asks'[c]])
  <2>1. Expects(c) /\ birth[issued[asks[c]]].user \notin troubled'
    BY <1>1, <1>3, <1>5 DEF Expects
  <2>2. Kept(issued[asks[c]]) /\ asks[c] # Null /\ issued[asks[c]] # Null
    BY <2>1 DEF KeptInv, KeptFor, Expects
  <2> QED
    BY <1>3, <2>1, <2>2
<1> QED
  BY <1>4, <1>5 DEF KeptFor, Kept, KeptNext

(* The request a client waits for is at work on the token it holds.         *)
LEMMA AtWork ==
    ASSUME SInv, AsksInv, NEW c \in Clients, NEW r \in Requests, asks[c] = r,
           pc[r] \in Awaits
    PROVE  /\ holds[c] = stored[r].id /\ holds[c] # Null /\ read[r] # Null
           /\ birth[holds[c]].user = stored[r].user /\ read[r].user = stored[r].user
<1>1. stored[r] # Null /\ birth[stored[r].id].user = stored[r].user
  BY DEF SInv, IInv, RequestsHoldIssued
<1>2. read[r] # Null /\ read[r].user = stored[r].user
  BY <1>1 DEF SInv, HasRead
<1>3. holds[c] # Null /\ holds[c] = stored[r].id
  <2>1. r # Null
    BY SessionsNullAssumption
  <2>2. pc[r] \notin {"new", "200"}
    BY DEF Awaits
  <2> QED
    BY <1>1, <2>1, <2>2 DEF AsksInv
<1> QED
  BY <1>1, <1>2, <1>3

(* Nobody but the refresh of a token, its client and its user in trouble    *)
(* ever revokes it.                                                         *)
LEMMA KeptStep ==
    ASSUME SInv, CInv, [SessionsNext]_allVars
    PROVE  KeptInv'
<1> USE NullAssumption, SessionsNullAssumption
    DEF sessionVars, clientVars, sessionHistory
<1>0. /\ TypeOK /\ SessionsTypeOK /\ RequestsHoldIssued /\ RowsMatchBirth /\ IssuedOnce /\ HasRead
      /\ ClientsApart /\ AsksInv /\ FlightsInv /\ KeptInv /\ TearDownHasACause
  BY DEF SInv, IInv, CInv
<1>a. /\ \A c \in Clients : holds[c] \in Tokens \cup {Null} /\ asks[c] \in Requests \cup {Null}
      /\ Null \notin Requests
  BY <1>0 DEF SessionsTypeOK
<1>b. \A t \in Tokens : birth[t] # Null => birth'[t] = birth[t]
  BY SessionStays
<1>c. \A t \in Tokens : UNCHANGED rows /\ Kept(t) => KeptNext(t)
  BY DEF Kept, KeptNext
<1>d. \A c \in Clients : asks[c] # Null /\ pc[asks[c]] = "new" => holds[c] = Null
  BY <1>0 DEF AsksInv
<1>1. ASSUME NEW c \in Clients, NEW r \in Requests, NEW u \in Users, LoginFind(c, r, u)
      PROVE  KeptInv'
  <2>1. /\ holds[c] = Null /\ asks[c] = Null /\ pc[r] = "new" /\ read[r] = Null
        /\ read' = [read EXCEPT ![r] = [user |-> u, role |-> role[u]]]
        /\ asks' = [asks EXCEPT ![c] = r] /\ UNCHANGED <<rows, pc, issued, holds, birth>>
    BY <1>1 DEF LoginFind, ReadUser, vars, codeVars, history
  <2>2. /\ \A q \in Requests \ {r} : read'[q] = read[q]
        /\ asks'[c] = r /\ \A d \in Clients \ {c} : asks'[d] = asks[d]
        /\ \A d \in Clients : asks[d] # r
    BY <1>0, <2>1 DEF SessionsTypeOK, AsksInv
  <2>3. KeptFor(c)'
    BY <2>1, <2>2 DEF KeptFor, Needs, Expects
  <2>4. ASSUME NEW d \in Clients \ {c}
        PROVE  KeptFor(d)'
    BY <1>0, <1>a, <1>c, <2>1, <2>2, KeptFrame
  <2> QED
    BY <2>3, <2>4 DEF KeptInv
<1>2. ASSUME NEW c \in Clients, NEW r \in Requests, RefreshFind(c, r)
      PROVE  KeptInv'
  <2>1. /\ holds[c] \in Tokens /\ asks[c] = Null /\ pc[r] = "new" /\ read[r] = Null
        /\ asks' = [asks EXCEPT ![c] = r] /\ UNCHANGED <<rows, issued, holds, birth, troubled>>
        /\ \E status \in {"401", "sweep", "claim"} : Answer(r, status)
        /\ UNCHANGED read \/ \E u : ReadUser(r, u)
    BY <1>a, <1>2 DEF RefreshFind, RefreshUnknown, RefreshReused, RefreshExpired, RefreshFresh,
                      RefreshFound, history
  <2>2. /\ \A q \in Requests \ {r} : read'[q] = read[q] /\ pc'[q] = pc[q]
        /\ asks'[c] = r /\ \A d \in Clients \ {c} : asks'[d] = asks[d]
        /\ \A d \in Clients : asks[d] # r
        /\ pc'[r] \notin {"chain", "200"}
    BY <1>0, <2>1 DEF SessionsTypeOK, TypeOK, Answer, ReadUser, AsksInv
  <2>3. KeptFor(c)'
    <3>1. Needs(c)' => Needs(c)
      BY <1>0, <1>b, <2>1 DEF Needs, ClientsApart
    <3>2. Needs(c) => Kept(holds[c])'
      BY <1>0, <2>1 DEF KeptInv, KeptFor, Kept
    <3> QED
      BY <2>1, <2>2, <3>1, <3>2 DEF KeptFor, Expects, Kept
  <2>4. ASSUME NEW d \in Clients \ {c}
        PROVE  KeptFor(d)'
    BY <1>0, <1>a, <1>c, <2>1, <2>2, KeptFrame
  <2> QED
    BY <2>3, <2>4 DEF KeptInv
<1>3. ASSUME NEW r \in Requests, NEW t \in Tokens, NEW status \in {"200", "chain"},
             birth[t] = Null, rows'[t] # Null, ~rows'[t].revoked,
             issued' = [issued EXCEPT ![r] = t], Answer(r, status), pc[r] \notin Answers,
             read[r] # Null,
             \A x \in Tokens \ {t} : rows'[x] = rows[x], UNCHANGED <<read, clientVars>>
      PROVE  KeptInv'
  <2>1. /\ issued'[r] = t /\ pc'[r] = status
        /\ \A q \in Requests \ {r} : issued'[q] = issued[q] /\ pc'[q] = pc[q]
    BY <1>0, <1>3 DEF TypeOK, Answer
  <2>2. KeptNext(t) /\ \A x \in Tokens : Kept(x) => KeptNext(x)
    BY <1>3 DEF Kept, KeptNext
  <2>3. ASSUME NEW c \in Clients, asks[c] = r
        PROVE  KeptFor(c)'
    <3>1. asks'[c] = r /\ read'[r] # Null /\ pc'[r] \notin {"claim", "500"}
      BY <1>3, <2>1, <2>3
    <3>2. ~Needs(c)'
      BY <1>a, <3>1 DEF Needs
    <3>3. issued'[asks'[c]] = t
      BY <2>1, <3>1
    <3> QED
      BY <2>2, <3>2, <3>3 DEF KeptFor, Kept, KeptNext
  <2>4. ASSUME NEW c \in Clients, asks[c] # r
        PROVE  KeptFor(c)'
    BY <1>0, <1>a, <1>3, <2>1, <2>2, <2>4, KeptFrame
  <2> QED
    BY <2>3, <2>4 DEF KeptInv
<1>4. ASSUME NEW r \in Requests, NEW t \in Tokens, LoginIssue(r, t)
      PROVE  KeptInv'
  <2>1. read[r].user \in Users
    BY <1>0, <1>4 DEF LoginIssue, SessionsTypeOK, Read
  <2>2. CreateRefreshToken(r, t, read[r].user, t, Null)
    BY <1>4 DEF LoginIssue, IssueTokens
  <2>3. /\ birth[t] = Null /\ rows'[t] # Null /\ ~rows'[t].revoked
        /\ \A x \in Tokens \ {t} : rows'[x] = rows[x]
    BY <1>0, <2>1, <2>2, CreateEffect
  <2>4. /\ issued' = [issued EXCEPT ![r] = t] /\ Answer(r, "200") /\ pc[r] \notin Answers
        /\ read[r] # Null /\ UNCHANGED <<read, clientVars>>
    BY <1>4, <2>2 DEF LoginIssue, IssueTokens, CreateRefreshToken, Answers
  <2> QED
    BY <1>3, <2>3, <2>4
<1>5. ASSUME NEW r \in Requests, NEW t \in Tokens, RefreshCreate(r, t), UNCHANGED sessionVars
      PROVE  KeptInv'
  <2>1. /\ stored[r].user \in Users /\ stored[r].id \in Tokens
        /\ birth[stored[r].id].session \in Tokens /\ read[r] # Null
    BY <1>0, <1>5 DEF RefreshCreate, RequestsHoldIssued, HasRead, TypeOK, Stored, Birth, Awaits
  <2>2. CreateRefreshToken(r, t, stored[r].user, birth[stored[r].id].session, stored[r].id)
    BY <1>5 DEF RefreshCreate
  <2>3. /\ birth[t] = Null /\ rows'[t] # Null /\ ~rows'[t].revoked
        /\ \A x \in Tokens \ {t} : rows'[x] = rows[x]
    BY <1>0, <2>1, <2>2, CreateEffect
  <2>4. /\ issued' = [issued EXCEPT ![r] = t] /\ Answer(r, "chain") /\ pc[r] \notin Answers
        /\ UNCHANGED <<read, clientVars>>
    BY <1>5, <2>2 DEF RefreshCreate, CreateRefreshToken, Answers
  <2> QED
    BY <1>3, <2>1, <2>3, <2>4
<1>6. ASSUME NEW r \in Requests, NEW status, pc[r] \in Awaits, Answer(r, status),
             status \notin {"claim", "500", "chain", "200"},
             UNCHANGED <<issued, read, clientVars>>,
             \A t \in Tokens :
                /\ \E c \in Clients :
                      asks[c] # r /\ (t = holds[c] \/ (asks[c] # Null /\ t = issued[asks[c]]))
                /\ birth[t] # Null /\ birth[t].user \notin troubled' /\ Kept(t)
                => KeptNext(t)
      PROVE  KeptInv'
  <2>1. pc'[r] = status /\ \A q \in Requests \ {r} : pc'[q] = pc[q]
    BY <1>0, <1>6 DEF TypeOK, Answer
  <2>2. ASSUME NEW c \in Clients, asks[c] = r
        PROVE  KeptFor(c)'
    <3>1. read[r] # Null
      BY <1>0, <1>6, <2>2, AtWork
    <3>2. asks'[c] = r /\ r # Null /\ read'[r] # Null /\ pc'[r] = status
      BY <1>a, <1>6, <2>1, <2>2, <3>1
    <3>3. ~Needs(c)' /\ ~Expects(c)'
      BY <1>6, <3>2 DEF Needs, Expects
    <3> QED
      BY <3>3 DEF KeptFor
  <2>3. ASSUME NEW c \in Clients, asks[c] # r
        PROVE  KeptFor(c)'
    BY <1>0, <1>a, <1>6, <2>1, <2>3, KeptFrame
  <2> QED
    BY <2>2, <2>3 DEF KeptInv
<1>7. ASSUME NEW r \in Requests, RefreshClaim(r), UNCHANGED sessionVars
      PROVE  KeptInv'
  <2> DEFINE x == stored[r].id
  <2>1. /\ pc[r] \in Awaits /\ Answer(r, "create") /\ Unrevoked(x)
        /\ rows' = [rows EXCEPT ![x].revoked = TRUE]
        /\ UNCHANGED <<issued, read, clientVars, troubled>>
    BY <1>7 DEF RefreshClaim, Awaits
  <2>2. /\ stored[r] # Null /\ x \in Tokens /\ birth[x] # Null
        /\ birth[x].user = stored[r].user
    BY <1>0, <2>1 DEF RequestsHoldIssued, TypeOK, Stored
  <2>3. \A t \in Tokens \ {x} : Kept(t) => KeptNext(t)
    BY <1>0, <2>1 DEF TypeOK, Kept, KeptNext
  <2>4. ASSUME NEW c \in Clients, asks[c] # r,
               x = holds[c] \/ (asks[c] # Null /\ x = issued[asks[c]]),
               birth[x].user \notin troubled
        PROVE  FALSE
    <3>1. PICK d \in Clients : asks[d] = r
      BY <1>0, <2>1, <2>2, <2>4 DEF FlightsInv
    <3>2. holds[d] = x /\ holds[d] # Null
      BY <1>0, <2>1, <3>1, AtWork
    <3> QED
      BY <1>0, <2>2, <2>4, <3>1, <3>2 DEF ClientsApart
  <2>5. \A t \in Tokens :
           /\ \E c \in Clients : asks[c] # r /\ (t = holds[c] \/ (asks[c] # Null /\ t = issued[asks[c]]))
           /\ birth[t] # Null /\ birth[t].user \notin troubled' /\ Kept(t)
           => KeptNext(t)
    BY <2>1, <2>3, <2>4
  <2> QED
    BY <1>6, <2>1, <2>5
<1>8. ASSUME NEW r \in Requests, RefreshClaimLost(r), UNCHANGED sessionVars
      PROVE  KeptInv'
  <2>1. /\ pc[r] \in Awaits /\ Answer(r, "401") /\ UNCHANGED rows
        /\ UNCHANGED <<issued, read, clientVars>>
    BY <1>8 DEF RefreshClaimLost, Awaits
  <2> QED
    BY <1>6, <1>c, <2>1
\* A revocation of all the rows of a user in trouble.
<1>9. ASSUME NEW u \in Users, u \in troubled', RevokeAllForUser(u)
      PROVE  \A t \in Tokens : birth[t].user \notin troubled' /\ Kept(t) => KeptNext(t)
  BY <1>0, <1>9 DEF RevokeAllForUser, Unrevoked, RowsMatchBirth, Kept, KeptNext
<1>10. ASSUME NEW r \in Requests, RefreshTearDown(r)
       PROVE  KeptInv'
  <2>1. /\ pc[r] \in Awaits /\ pc[r] = "sweep" /\ Answer(r, "401")
        /\ RevokeAllForUser(stored[r].user)
        /\ UNCHANGED <<issued, read, clientVars, troubled>>
    BY <1>10 DEF RefreshTearDown, RefreshSweep, Awaits
  <2>2. stored[r].user \in Users /\ stored[r].user \in troubled'
    BY <1>0, <2>1 DEF RequestsHoldIssued, TypeOK, Stored, TearDownHasACause
  <2> QED
    BY <1>6, <1>9, <2>1, <2>2
<1>11. ASSUME NEW r \in Requests, pc[r] \in Awaits, Answer(r, "500"), UNCHANGED rows,
              UNCHANGED <<issued, read, clientVars>>,
              \A c \in Clients : asks[c] = r /\ Needs(c)' => KeptNext(holds[c])
       PROVE  KeptInv'
  <2>1. pc'[r] = "500" /\ \A q \in Requests \ {r} : pc'[q] = pc[q]
    BY <1>0, <1>11 DEF TypeOK, Answer
  <2>2. ASSUME NEW c \in Clients, asks[c] = r
        PROVE  KeptFor(c)'
    <3>1. ~Expects(c)'
      BY <1>11, <2>1, <2>2 DEF Expects
    <3> QED
      BY <1>11, <2>2, <3>1 DEF KeptFor, Kept, KeptNext
  <2>3. ASSUME NEW c \in Clients, asks[c] # r
        PROVE  KeptFor(c)'
    BY <1>0, <1>a, <1>c, <1>11, <2>1, <2>3, KeptFrame
  <2> QED
    BY <2>2, <2>3 DEF KeptInv
<1>12. ASSUME NEW r \in Requests, RefreshChainMissing(r), UNCHANGED sessionVars
       PROVE  KeptInv'
  <2>1. /\ pc[r] \in Awaits /\ Answer(r, "500") /\ rows[stored[r].id] = Null /\ UNCHANGED rows
        /\ UNCHANGED <<issued, read, clientVars>>
    BY <1>12 DEF RefreshChainMissing, Awaits
  <2>2. ASSUME NEW c \in Clients, asks[c] = r
        PROVE  KeptNext(holds[c])
    BY <1>0, <2>1, <2>2, AtWork DEF KeptNext
  <2> QED
    BY <1>11, <2>1, <2>2
<1>13. ASSUME NEW r \in Requests, RequestFails(r)
       PROVE  KeptInv'
  <2>1. /\ pc[r] \in Awaits /\ Answer(r, "500") /\ UNCHANGED rows
        /\ UNCHANGED <<issued, read, clientVars, birth>> /\ read[r].user \in troubled'
    BY <1>13 DEF RequestFails, Abort, history
  <2>2. ASSUME NEW c \in Clients, asks[c] = r
        PROVE  ~Needs(c)'
    <3>1. birth[holds[c]].user \in troubled'
      BY <1>0, <2>1, <2>2, AtWork
    <3> QED
      BY <2>1, <3>1 DEF Needs
  <2> QED
    BY <1>11, <2>1, <2>2
<1>14. ASSUME NEW r \in Requests, RefreshAnswer(r)
       PROVE  KeptInv'
  <2>1. /\ pc[r] = "chain" /\ pc[r] \in Awaits /\ Answer(r, "200")
        /\ rows' = [rows EXCEPT ![stored[r].id].replacedBy = issued[r]]
        /\ rows[stored[r].id] # Null
        /\ UNCHANGED <<issued, read, clientVars, troubled>>
    BY <1>14 DEF RefreshAnswer, RefreshChain, Awaits
  <2>2. \A t \in Tokens : Kept(t) => KeptNext(t)
    BY <1>0, <2>1 DEF TypeOK, RequestsHoldIssued, Stored, Kept, KeptNext
  <2>3. pc'[r] = "200" /\ \A q \in Requests \ {r} : pc'[q] = pc[q]
    BY <1>0, <2>1 DEF TypeOK, Answer
  <2>4. ASSUME NEW c \in Clients, asks[c] = r
        PROVE  KeptFor(c)'
    <3>1. read[r] # Null
      BY <1>0, <2>1, <2>4, AtWork
    <3>2. ~Needs(c)'
      BY <1>a, <2>1, <2>3, <2>4, <3>1 DEF Needs
    <3>3. Expects(c)' => KeptNext(issued[r])
      <4>1. SUFFICES ASSUME Expects(c)'
                     PROVE  KeptNext(issued[r])
        OBVIOUS
      <4>2. issued[r] # Null /\ birth'[issued[r]].user \notin troubled
        BY <2>1, <2>4, <4>1 DEF Expects
      <4>3. issued[r] \in Tokens /\ birth[issued[r]] # Null
        BY <1>0, <4>2 DEF TypeOK, IssuedOnce
      <4>4. Expects(c)
        BY <1>a, <1>b, <2>1, <2>4, <4>2, <4>3 DEF Expects
      <4> QED
        BY <1>0, <2>2, <2>4, <4>3, <4>4 DEF KeptInv, KeptFor
    <3> QED
      BY <2>1, <2>4, <3>2, <3>3 DEF KeptFor, Kept, KeptNext
  <2>5. ASSUME NEW c \in Clients, asks[c] # r
        PROVE  KeptFor(c)'
    BY <1>0, <1>a, <2>1, <2>2, <2>3, <2>5, KeptFrame
  <2> QED
    BY <2>4, <2>5 DEF KeptInv
<1>15. ASSUME NEW c \in Clients, asks[c] = Null, asks'[c] = Null, holds'[c] = Null,
              \A d \in Clients \ {c} : holds'[d] = holds[d] /\ asks'[d] = asks[d],
              UNCHANGED <<pc, read, issued>>,
              \A t \in Tokens :
                /\ \E d \in Clients \ {c} : t = holds[d] \/ (asks[d] # Null /\ t = issued[asks[d]])
                /\ birth[t] # Null /\ birth[t].user \notin troubled' /\ Kept(t)
                => KeptNext(t)
       PROVE  KeptInv'
  <2>1. KeptFor(c)'
    BY <1>15 DEF KeptFor, Needs, Expects
  <2>2. ASSUME NEW d \in Clients \ {c}
        PROVE  KeptFor(d)'
    BY <1>0, <1>15, KeptFrame
  <2> QED
    BY <2>1, <2>2 DEF KeptInv
<1>16. ASSUME NEW c \in Clients, ClientLogout(c)
       PROVE  KeptInv'
  <2>1. /\ holds[c] \in Tokens /\ holds[c] # Null /\ asks[c] = Null /\ UNCHANGED asks
        /\ holds' = [holds EXCEPT ![c] = Null]
        /\ UNCHANGED <<pc, read, issued>>
        /\ UNCHANGED rows \/ rows' = [rows EXCEPT ![holds[c]].revoked = TRUE]
    BY <1>a, <1>16 DEF ClientLogout, Logout, vars, codeVars
  <2>2. /\ holds'[c] = Null
        /\ \A d \in Clients \ {c} : holds'[d] = holds[d] /\ asks'[d] = asks[d]
    BY <1>0, <2>1 DEF SessionsTypeOK
  <2>3. \A d \in Clients \ {c} :
           holds[d] # holds[c] /\ (asks[d] # Null => issued[asks[d]] # holds[c])
    BY <1>0, <2>1 DEF ClientsApart
  <2>4. \A t \in Tokens \ {holds[c]} : Kept(t) => KeptNext(t)
    BY <1>0, <2>1 DEF TypeOK, Kept, KeptNext
  <2>5. \A t \in Tokens :
           /\ \E d \in Clients \ {c} : t = holds[d] \/ (asks[d] # Null /\ t = issued[asks[d]])
           /\ birth[t] # Null /\ birth[t].user \notin troubled' /\ Kept(t)
           => KeptNext(t)
    BY <2>3, <2>4
  <2> QED
    BY <1>15, <2>1, <2>2, <2>5
<1>17. ASSUME NEW c \in Clients, NEW r \in Requests, ClientLogoutAll(c, r)
       PROVE  KeptInv'
  <2>1. /\ asks[c] = Null /\ UNCHANGED asks /\ holds' = [holds EXCEPT ![c] = Null]
        /\ UNCHANGED <<pc, read, issued>> /\ access[r] # Null
        /\ RevokeAllForUser(access[r].sub) /\ access[r].sub \in troubled'
    BY <1>17 DEF ClientLogoutAll, LogoutAll, JwtAuthGuard
  <2>2. access[r].sub \in Users
    BY <1>0, <2>1 DEF SessionsTypeOK, Access
  <2>3. /\ holds'[c] = Null /\ asks'[c] = Null
        /\ \A d \in Clients \ {c} : holds'[d] = holds[d] /\ asks'[d] = asks[d]
    BY <1>0, <2>1 DEF SessionsTypeOK
  <2> QED
    BY <1>9, <1>15, <2>1, <2>2, <2>3
<1>18. ASSUME NEW c \in Clients, NEW r \in Requests, asks[c] = r, asks'[c] = Null,
              \A d \in Clients \ {c} : holds'[d] = holds[d] /\ asks'[d] = asks[d],
              UNCHANGED vars, UNCHANGED read,
              Needs(c)' => KeptNext(holds'[c])
       PROVE  KeptInv'
  <2>1. UNCHANGED <<rows, pc, issued>>
    BY <1>18 DEF vars, codeVars
  <2>2. KeptFor(c)'
    BY <1>18 DEF KeptFor, Expects, Kept, KeptNext
  <2>3. ASSUME NEW d \in Clients \ {c}
        PROVE  KeptFor(d)'
    BY <1>0, <1>c, <1>18, <2>1, KeptFrame
  <2> QED
    BY <2>2, <2>3 DEF KeptInv
<1>19. ASSUME NEW c \in Clients, NEW r \in Requests, Receive(c, r)
       PROVE  KeptInv'
  <2>1. /\ asks[c] = r /\ r # Null /\ pc[r] \in Answers /\ asks' = [asks EXCEPT ![c] = Null]
        /\ UNCHANGED vars /\ UNCHANGED <<rows, pc, issued, birth, read, troubled>>
    BY <1>a, <1>19 DEF Receive, vars, codeVars, history
  <2>2. /\ asks'[c] = Null
        /\ \A d \in Clients \ {c} : holds'[d] = holds[d] /\ asks'[d] = asks[d]
        /\ holds'[c] = CASE pc[r] = "200" -> issued[r]
                         [] pc[r] = "401" -> Null
                         [] pc[r] = "500" -> holds[c]
    BY <1>0, <1>19 DEF Receive, SessionsTypeOK
  <2>3. ASSUME Needs(c)'
        PROVE  KeptNext(holds'[c])
    <3>1. holds'[c] # Null /\ birth[holds'[c]].user \notin troubled
      BY <2>1, <2>3 DEF Needs
    <3>2. CASE pc[r] = "200"
      <4>1. holds'[c] = issued[r]
        BY <2>2, <3>2
      <4>2. Expects(c)
        BY <2>1, <3>1, <3>2, <4>1 DEF Expects
      <4> QED
        BY <1>0, <2>1, <4>1, <4>2 DEF KeptInv, KeptFor, Kept, KeptNext
    <3>3. CASE pc[r] = "401"
      BY <2>2, <3>1, <3>3
    <3>4. CASE pc[r] = "500"
      <4>1. holds'[c] = holds[c]
        BY <2>2, <3>4
      <4>2. Needs(c)
        BY <2>1, <3>1, <3>4, <4>1 DEF Needs
      <4> QED
        BY <1>0, <2>1, <4>1, <4>2 DEF KeptInv, KeptFor, Kept, KeptNext
    <3> QED
      BY <2>1, <3>2, <3>3, <3>4 DEF Answers
  <2> QED
    BY <1>18, <2>1, <2>2, <2>3
<1>20. ASSUME NEW c \in Clients, NEW r \in Requests, LoseAnswer(c, r)
       PROVE  KeptInv'
  <2>1. /\ asks[c] = r /\ r # Null /\ asks' = [asks EXCEPT ![c] = Null]
        /\ troubled' = troubled \cup {u \in Users : read[r] # Null /\ read[r].user = u}
        /\ UNCHANGED vars /\ UNCHANGED <<rows, birth, holds, read>>
    BY <1>a, <1>20 DEF LoseAnswer, vars, codeVars, history
  <2>2. /\ asks'[c] = Null
        /\ \A d \in Clients \ {c} : holds'[d] = holds[d] /\ asks'[d] = asks[d]
    BY <1>0, <2>1 DEF SessionsTypeOK
  <2>3. ASSUME Needs(c)'
        PROVE  KeptNext(holds'[c])
    <3>1. holds[c] # Null /\ birth[holds[c]].user \notin troubled'
      BY <2>1, <2>3 DEF Needs
    <3>2. read[r] = Null
      <4>1. SUFFICES ASSUME read[r] # Null
                     PROVE  FALSE
        OBVIOUS
      <4>2. stored[r] # Null /\ stored[r].id = holds[c]
        BY <1>0, <2>1, <3>1, <4>1 DEF AsksInv
      <4>3. read[r].user = birth[holds[c]].user
        BY <1>0, <4>2 DEF HasRead, RequestsHoldIssued
      <4>4. read[r].user \in Users
        BY <1>0, <4>1 DEF SessionsTypeOK, Read
      <4> QED
        BY <2>1, <3>1, <4>1, <4>3, <4>4
    <3>3. Needs(c)
      BY <2>1, <3>1, <3>2 DEF Needs
    <3> QED
      BY <1>0, <2>1, <3>3 DEF KeptInv, KeptFor, Kept, KeptNext
  <2> QED
    BY <1>18, <2>1, <2>2, <2>3
<1>21. ASSUME UNCHANGED <<pc, read, issued, clientVars>>,
              \A t \in Tokens : Kept(t) => KeptNext(t)
       PROVE  KeptInv'
  <2>1. ASSUME NEW c \in Clients
        PROVE  KeptFor(c)'
    BY <1>0, <1>21, <2>1, KeptFrame
  <2> QED
    BY <2>1 DEF KeptInv
<1>22. ASSUME NEW u \in Users, NEW x \in Roles, SetRole(u, x)
       PROVE  KeptInv'
  BY <1>c, <1>21, <1>22 DEF SetRole, vars, codeVars
<1>23. CASE Elapse
  <2>1. UNCHANGED <<pc, read, issued, clientVars>>
    BY <1>23 DEF Elapse, RemoveExpired, Tick
  <2>2. \A t \in Tokens : Kept(t) => KeptNext(t)
    BY <1>0, <1>23 DEF Elapse, RemoveExpired, Tick, Kept, KeptNext
  <2> QED
    BY <1>21, <2>1, <2>2
<1>24. CASE UNCHANGED allVars
  BY <1>c, <1>21, <1>24 DEF allVars, vars, codeVars
<1>25. ASSUME NEW r \in Requests, RefreshRotate(r)
       PROVE  KeptInv'
  BY <1>5, <1>7, <1>8, <1>12, <1>25 DEF RefreshRotate
<1> QED
  BY <1>1, <1>2, <1>4, <1>10, <1>13, <1>14, <1>16, <1>17, <1>19, <1>20, <1>22, <1>23, <1>24,
     <1>25 DEF SessionsNext

(* At first nobody holds or waits for anything.                            *)
LEMMA CInvInit == SessionsInit => CInv
BY NullAssumption, SessionsNullAssumption
   DEF SessionsInit, Init, CInv, ClientsApart, AsksInv, FlightsInv, KeptInv, KeptFor, Needs,
       Expects, Kept, TearDownHasACause, Awaits

(* And every step leaves the clients as they should be.                     *)
LEMMA CInvStep == SInv /\ CInv /\ [SessionsNext]_allVars => CInv'
BY ClientsStep, AsksStep, FlightsStep, KeptStep, TearDownStep DEF CInv

(* However many clients present their tokens, each once and one request at  *)
(* a time, refresh takes none of them for a replay, unless an answer was    *)
(* lost, a request failed or the user logged out from everywhere.           *)
THEOREM TearDownsHaveCauses == SessionsSpec => []TearDownHasACause
BY SessionsInductive, CInvInit, CInvStep, PTL DEF SessionsSpec, CInv

(* And the token such a client holds can be refreshed until it expires.     *)
THEOREM HeldTokensAreGood == SessionsSpec => []HeldTokensStayGood
<1>1. SInv /\ CInv => HeldTokensStayGood
  <2> SUFFICES ASSUME SInv, CInv, NEW c \in Clients, holds[c] # Null, asks[c] = Null,
                      birth[holds[c]].user \notin troubled
               PROVE  Live(holds[c]) \/ birth[holds[c]].expiresAt <= now
    BY DEF HeldTokensStayGood
  <2> DEFINE t == holds[c]
  <2>1. t \in Tokens /\ birth[t] # Null
    BY DEF SInv, SessionsTypeOK, CInv, ClientsApart
  <2>2. Kept(t)
    BY DEF CInv, KeptInv, KeptFor, Needs
  <2>3. birth[t].expiresAt \in Nat /\ now \in Nat
    BY <2>1, TimeAssumption, LifetimeAssumption
       DEF SInv, IInv, TypeOK, Birth, Time
  <2>4. CASE rows[t] = Null
    BY <2>1, <2>3, <2>4 DEF SInv, IInv, ReplayStaysDetectable
  <2>5. CASE rows[t] # Null
    <3>1. rows[t].expiresAt = birth[t].expiresAt /\ ~rows[t].revoked
      BY <2>1, <2>2, <2>5 DEF SInv, IInv, RowsMatchBirth, Kept
    <3> QED
      BY <2>3, <2>5, <3>1 DEF Live, Unrevoked
  <2> QED
    BY <2>4, <2>5
<1> QED
  BY SessionsInductive, CInvInit, CInvStep, <1>1, PTL DEF SessionsSpec
=============================================================================
