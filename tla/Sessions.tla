------------------------------ MODULE Sessions ------------------------------
(***************************************************************************)
(* RefreshTokens composed with what surrounds it: the clients that keep a  *)
(* refresh token and retry with it, the network that loses answers, the    *)
(* role a handler reads before it writes, and the access tokens it signs,  *)
(* which JwtAuthGuard and RolesGuard believe without asking the database.  *)
(*                                                                         *)
(* Clients are honest: a token is only ever presented by the client that   *)
(* was given it, one request at a time.                                    *)
(***************************************************************************)
EXTENDS RefreshTokens

CONSTANTS
    Clients,          \* each keeps the tokens of one session
    Roles,
    AccessLifetime    \* JWT_EXPIRE_IN, in ticks

ASSUME AccessLifetimeAssumption == AccessLifetime \in Nat

VARIABLES
    role,       \* users.role
    read,       \* the user as the request's query returned it: its id and role
    access,     \* the access token the request signed
    holds,      \* the refresh token each client keeps
    asks,       \* the request each client waits for
    (* History: read by properties only.                                   *)
    changedAt,  \* when the role of each user changed, or Null
    stale,      \* requests that had read a role when it changed
    endedAt,    \* when each session in `ended` last entered it
    late,       \* requests about to answer when their session ended
    troubled    \* users with an answer lost, a request failed, or a logout-all

clientVars == <<holds, asks>>
sessionHistory == <<changedAt, stale, endedAt, late, troubled>>
sessionVars == <<role, read, access, clientVars, sessionHistory>>
allVars == <<vars, sessionVars>>

Read == [user : Users, role : Roles]

\* AuthJwtPayload, with exp.
Access == [sub : Users, role : Roles, exp : 0..(MaxTime + AccessLifetime)]

ASSUME SessionsNullAssumption ==
    Null \notin Clients \cup Roles \cup Requests \cup Read \cup Access \cup (0..MaxTime)

SessionsTypeOK ==
    /\ role \in [Users -> Roles]
    /\ read \in [Requests -> Read \cup {Null}]
    /\ access \in [Requests -> Access \cup {Null}]
    /\ holds \in [Clients -> Tokens \cup {Null}]
    /\ asks \in [Clients -> Requests \cup {Null}]
    /\ changedAt \in [Users -> 0..MaxTime \cup {Null}]
    /\ stale \in SUBSET Requests
    /\ endedAt \in [Tokens -> 0..MaxTime]
    /\ late \in SUBSET Requests
    /\ troubled \in SUBSET Users

SessionsInit ==
    /\ Init
    /\ role \in [Users -> Roles]
    /\ read = [r \in Requests |-> Null]
    /\ access = [r \in Requests |-> Null]
    /\ holds = [c \in Clients |-> Null]
    /\ asks = [c \in Clients |-> Null]
    /\ changedAt = [u \in Users |-> Null]
    /\ stale = {}
    /\ endedAt = [s \in Tokens |-> 0]
    /\ late = {}
    /\ troubled = {}

-----------------------------------------------------------------------------
(* Guards *)

(* Mutant: ignoreExpiration is true.                                        *)
JwtAuthGuardIgnoringExpiry(r) == access[r] # Null

(* JwtStrategy: the signature is taken as good; ignoreExpiration is false.  *)
JwtAuthGuard(r) == access[r] # Null /\ now < access[r].exp

(* RolesGuard: the role in the token decides; no @Roles means anyone.       *)
RolesGuard(r, required) == required = {} \/ access[r].role \in required

MayEnter(r, required) == JwtAuthGuard(r) /\ RolesGuard(r, required)

-----------------------------------------------------------------------------
(* Handlers *)

ReadUser(r, u) == read' = [read EXCEPT ![r] = [user |-> u, role |-> role[u]]]

\* signAccessToken, after the last await: the role is the one read before it.
SignAccessToken(r) ==
    access' = [access EXCEPT ![r] = [sub |-> read[r].user, role |-> read[r].role,
                                     exp |-> now + AccessLifetime]]

\* What a revocation of a step adds to the history.
NoteEnded ==
    /\ endedAt' = [s \in Tokens |-> IF s \in ended' \ ended THEN now ELSE endedAt[s]]
    /\ late' = late \cup {r \in Requests : /\ pc[r] = "chain"
                                           /\ birth[issued[r]].session \in ended'}

(* login finds the user, then compares; issueTokens follows.                *)
LoginFind(c, r, u) ==
    /\ holds[c] = Null /\ asks[c] = Null
    /\ pc[r] = "new" /\ read[r] = Null
    /\ ReadUser(r, u)
    /\ asks' = [asks EXCEPT ![c] = r]
    /\ UNCHANGED <<vars, role, access, holds, sessionHistory>>

LoginIssue(r, t) ==
    /\ read[r] # Null
    /\ IssueTokens(r, read[r].user, t)
    /\ SignAccessToken(r)
    /\ UNCHANGED <<role, read, clientVars, sessionHistory>>

RefreshFind(c, r) ==
    /\ holds[c] # Null /\ asks[c] = Null
    /\ read[r] = Null
    /\ LET t == holds[c]
       IN \/ RefreshUnknown(r, t) /\ UNCHANGED read
          \/ /\ RefreshReused(r, t) \/ RefreshExpired(r, t) \/ RefreshFresh(r, t)
             /\ ReadUser(r, rows[t].user)
    /\ asks' = [asks EXCEPT ![c] = r]
    /\ UNCHANGED <<role, access, holds, sessionHistory>>

RefreshRotate(r) ==
    /\ \/ RefreshClaim(r)
       \/ RefreshClaimLost(r)
       \/ \E t \in Tokens : RefreshCreate(r, t)
       \/ RefreshChainMissing(r)
    /\ UNCHANGED sessionVars

RefreshAnswer(r) ==
    /\ RefreshChain(r)
    /\ SignAccessToken(r)
    /\ UNCHANGED <<role, read, clientVars, sessionHistory>>

RefreshTearDown(r) ==
    /\ RefreshSweep(r)
    /\ NoteEnded
    /\ UNCHANGED <<role, read, access, clientVars, changedAt, stale, troubled>>

RequestFails(r) ==
    /\ Abort(r)
    /\ troubled' = troubled \cup {read[r].user}
    /\ UNCHANGED <<role, read, access, clientVars, changedAt, stale, endedAt, late>>

\* 204 whether or not there was an unrevoked row to revoke.
ClientLogout(c) ==
    /\ holds[c] # Null /\ asks[c] = Null
    /\ \/ Logout(holds[c]) /\ NoteEnded
       \/ ~Unrevoked(holds[c]) /\ UNCHANGED <<vars, endedAt, late>>
    /\ holds' = [holds EXCEPT ![c] = Null]
    /\ UNCHANGED <<role, read, access, asks, changedAt, stale, troubled>>

\* logout-all is behind JwtAuthGuard: the access token says whose sessions end.
ClientLogoutAll(c, r) ==
    /\ holds[c] # Null /\ asks[c] = Null /\ issued[r] = holds[c]
    /\ JwtAuthGuard(r)
    /\ LogoutAll(access[r].sub)
    /\ NoteEnded
    /\ holds' = [holds EXCEPT ![c] = Null]
    /\ troubled' = troubled \cup {access[r].sub}
    /\ UNCHANGED <<role, read, access, asks, changedAt, stale>>

-----------------------------------------------------------------------------
(* Surroundings *)

\* A pair is kept, a 401 means logging in again, a 500 trying again.
Receive(c, r) ==
    /\ asks[c] = r /\ pc[r] \in Answers
    /\ asks' = [asks EXCEPT ![c] = Null]
    /\ holds' = [holds EXCEPT ![c] = CASE pc[r] = "200" -> issued[r]
                                       [] pc[r] = "401" -> Null
                                       [] pc[r] = "500" -> holds[c]]
    /\ UNCHANGED <<vars, role, read, access, sessionHistory>>

\* The client gives up waiting; the handler, if it still runs, does not notice.
LoseAnswer(c, r) ==
    /\ asks[c] = r
    /\ asks' = [asks EXCEPT ![c] = Null]
    /\ troubled' = troubled \cup {u \in Users : read[r] # Null /\ read[r].user = u}
    /\ UNCHANGED <<vars, role, read, access, holds, changedAt, stale, endedAt, late>>

\* An administrator changes a role; no handler does.  Bounded to once per user.
SetRole(u, x) ==
    /\ role[u] # x /\ changedAt[u] = Null
    /\ role' = [role EXCEPT ![u] = x]
    /\ changedAt' = [changedAt EXCEPT ![u] = now]
    /\ stale' = stale \cup {r \in Requests : /\ read[r] # Null /\ read[r].user = u
                                             /\ pc[r] \notin Answers}
    /\ UNCHANGED <<vars, read, access, clientVars, endedAt, late, troubled>>

Elapse == (RemoveExpired \/ Tick) /\ UNCHANGED sessionVars

SessionsNext ==
    \/ \E c \in Clients, r \in Requests : \/ \E u \in Users : LoginFind(c, r, u)
                                          \/ RefreshFind(c, r)
                                          \/ ClientLogoutAll(c, r)
                                          \/ Receive(c, r)
                                          \/ LoseAnswer(c, r)
    \/ \E r \in Requests : \/ \E t \in Tokens : LoginIssue(r, t)
                           \/ RefreshRotate(r)
                           \/ RefreshAnswer(r)
                           \/ RefreshTearDown(r)
                           \/ RequestFails(r)
    \/ \E c \in Clients : ClientLogout(c)
    \/ \E u \in Users, x \in Roles : SetRole(u, x)
    \/ Elapse

SessionsSpec == SessionsInit /\ [][SessionsNext]_allVars

-----------------------------------------------------------------------------
(* Properties *)

(* A role taken away opens no door for longer than one access lifetime      *)
(* after the change, although guards never ask the database and refresh     *)
(* signs what it read before its claim; only a request that was running     *)
(* when the role changed may sign the old one once more.                    *)
DemotionTakesEffect ==
    \A r \in Requests, x \in Roles :
        MayEnter(r, {x}) /\ role[access[r].sub] # x =>
            now < changedAt[access[r].sub] + AccessLifetime \/ r \in stale

(* Access tokens cannot be withdrawn, but those of a session that ended     *)
(* run out one lifetime later: none is signed for it again, except by a     *)
(* refresh that had already inserted its token and only had to answer.      *)
LogoutTakesEffect ==
    \A r \in Requests :
        JwtAuthGuard(r) /\ birth[issued[r]].session \in ended =>
            now < endedAt[birth[issued[r]].session] + AccessLifetime \/ r \in late

(* A client that presents each token once never looks like a thief: its     *)
(* user's sessions are torn down only after an answer was lost, a request   *)
(* failed or the user logged out from everywhere.                           *)
TearDownHasACause ==
    \A r \in Requests : pc[r] = "sweep" => stored[r].user \in troubled

(* Without such trouble the token a client holds is good until it expires,  *)
(* whatever the user's other clients and other users do meanwhile.          *)
HeldTokensStayGood ==
    \A c \in Clients :
        LET t == holds[c]
        IN t # Null /\ asks[c] = Null /\ birth[t].user \notin troubled =>
               Live(t) \/ birth[t].expiresAt <= now
=============================================================================
