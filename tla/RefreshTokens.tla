--------------------------- MODULE RefreshTokens ---------------------------
(***************************************************************************)
(* The refresh-token table and the handlers of AuthService that work on it: *)
(* issueTokens, refresh, logout, revokeAllForUser, and the nightly cleanup. *)
(*                                                                         *)
(* A handler is a Node.js async function: between two awaits nothing else  *)
(* runs, and at an await any other handler may.  Every await here is one   *)
(* SQL statement, so an action is one statement together with the code that *)
(* follows it up to the next await or the answer.  The clock is coarse: a  *)
(* Date computed just before a statement is the clock at that statement.   *)
(***************************************************************************)
EXTENDS Naturals

CONSTANTS
    Users,            \* ids of the users that may hold sessions
    Tokens,           \* the random refresh tokens, each with its row id and hash
    Requests,         \* HTTP requests that log in or refresh, each handled once
    RefreshLifetime,  \* refreshExpiresInSeconds, in ticks
    MaxTime,          \* bound on the clock
    Null              \* SQL NULL, a missing row, an unset local variable

ASSUME LifetimeAssumption == RefreshLifetime \in Nat \ {0}
ASSUME TimeAssumption == MaxTime \in Nat

VARIABLES
    rows,       \* refresh_tokens: token -> row or Null
    now,        \* the clock that Date reads
    pc,         \* the await each request is at, or the status it answered
    stored,     \* refresh: the row as findUnique returned it
    issued,     \* the token the request inserted
    (* History: read by properties only, never by a guard of the code.     *)
    delivered,  \* tokens some 2xx answer carried: those that can be presented
    birth,      \* what each token was issued as, kept after its row is deleted
    spent,      \* tokens a refresh claimed
    swept,      \* sessions that existed when their user's sessions were revoked
    ended       \* sessions revoked while no rotation of theirs was in flight

codeVars == <<rows, now, pc, stored, issued>>
history == <<delivered, birth, spent, swept, ended>>
vars == <<codeVars, history>>

Time == 0..(MaxTime + RefreshLifetime)

Row == [user : Users, expiresAt : Time, revoked : BOOLEAN,
        replacedBy : Tokens \cup {Null}]

Stored == [id : Tokens, user : Users]

\* A session is the chain of tokens that starts at a login; the first names it.
Birth == [user : Users, expiresAt : Time, session : Tokens,
          parent : Tokens \cup {Null}]

ASSUME NullAssumption ==
    Null \notin Users \cup Tokens \cup Row \cup Stored \cup Birth

Awaits == {"claim", "create", "chain", "sweep"}
Answers == {"200", "401", "500"}

TypeOK ==
    /\ rows \in [Tokens -> Row \cup {Null}]
    /\ now \in 0..MaxTime
    /\ pc \in [Requests -> {"new"} \cup Awaits \cup Answers]
    /\ stored \in [Requests -> Stored \cup {Null}]
    /\ issued \in [Requests -> Tokens \cup {Null}]
    /\ delivered \in SUBSET Tokens
    /\ birth \in [Tokens -> Birth \cup {Null}]
    /\ spent \in SUBSET Tokens
    /\ swept \in SUBSET Tokens
    /\ ended \in SUBSET Tokens

Init ==
    /\ rows = [t \in Tokens |-> Null]
    /\ now = 0
    /\ pc = [r \in Requests |-> "new"]
    /\ stored = [r \in Requests |-> Null]
    /\ issued = [r \in Requests |-> Null]
    /\ delivered = {}
    /\ birth = [t \in Tokens |-> Null]
    /\ spent = {}
    /\ swept = {}
    /\ ended = {}

-----------------------------------------------------------------------------
(* WHERE revokedAt IS NULL                                                  *)
Unrevoked(t) == rows[t] # Null /\ ~rows[t].revoked

\* What a refresh that finds t now would go on to claim.
Live(t) == Unrevoked(t) /\ rows[t].expiresAt > now

SessionsOf(u) == {birth[t].session : t \in {x \in Tokens :
                                       birth[x] # Null /\ birth[x].user = u}}

\* A refresh between its claim and its insert: no row of the session is unrevoked.
Rotating(s) == \E r \in Requests : /\ pc[r] = "create"
                                   /\ birth[stored[r].id].session = s

Answer(r, status) == pc' = [pc EXCEPT ![r] = status]

(* Mutant: the lifetime in the wrong unit.                                  *)
CreateInMilliseconds(r, t, u, session, parent) ==
    LET row == [user |-> u, expiresAt |-> now + 1000 * RefreshLifetime]
    IN /\ birth[t] = Null
       /\ rows' = [rows EXCEPT ![t] = [user |-> u, expiresAt |-> row.expiresAt,
                                       revoked |-> FALSE, replacedBy |-> Null]]
       /\ birth' = [birth EXCEPT ![t] = [user |-> u, expiresAt |-> row.expiresAt,
                                         session |-> session, parent |-> parent]]
       /\ issued' = [issued EXCEPT ![r] = t]

(* createRefreshToken: a row for a token nobody has seen before.            *)
CreateRefreshToken(r, t, u, session, parent) ==
    /\ birth[t] = Null
    /\ rows' = [rows EXCEPT ![t] = [user |-> u,
                                    expiresAt |-> now + RefreshLifetime,
                                    revoked |-> FALSE, replacedBy |-> Null]]
    /\ birth' = [birth EXCEPT ![t] = [user |-> u,
                                      expiresAt |-> now + RefreshLifetime,
                                      session |-> session, parent |-> parent]]
    /\ issued' = [issued EXCEPT ![r] = t]

(* Mutant: revokeAllForUser without userId in its where.                    *)
RevokeEveryRow(u) ==
    /\ rows' = [t \in Tokens |-> IF Unrevoked(t)
                                 THEN [rows[t] EXCEPT !.revoked = TRUE]
                                 ELSE rows[t]]
    /\ swept' = swept \cup SessionsOf(u)
    /\ ended' = ended \cup {s \in SessionsOf(u) : ~Rotating(s)}

(* updateMany({ where: { userId, revokedAt: null }, data: { revokedAt } })  *)
RevokeAllForUser(u) ==
    /\ rows' = [t \in Tokens |-> IF Unrevoked(t) /\ rows[t].user = u
                                 THEN [rows[t] EXCEPT !.revoked = TRUE]
                                 ELSE rows[t]]
    /\ swept' = swept \cup SessionsOf(u)
    /\ ended' = ended \cup {s \in SessionsOf(u) : ~Rotating(s)}

-----------------------------------------------------------------------------
(* login, register and external/session all end in issueTokens.            *)
IssueTokens(r, u, t) ==
    /\ pc[r] = "new"
    /\ CreateRefreshToken(r, t, u, t, Null)
    /\ delivered' = delivered \cup {t}
    /\ Answer(r, "200")
    /\ UNCHANGED <<now, stored, spent, swept, ended>>

RefreshUnknown(r, t) ==
    /\ pc[r] = "new" /\ t \in delivered
    /\ rows[t] = Null
    /\ Answer(r, "401")
    /\ UNCHANGED <<rows, now, stored, issued, history>>

RefreshFound(r, t, next) ==
    /\ pc[r] = "new" /\ t \in delivered
    /\ rows[t] # Null
    /\ stored' = [stored EXCEPT ![r] = [id |-> t, user |-> rows[t].user]]
    /\ Answer(r, next)
    /\ UNCHANGED <<rows, now, issued, history>>

(* Mutant: an expired token counts as replayed.                             *)
RefreshReusedOrExpired(r, t) ==
    /\ RefreshFound(r, t, "sweep")
    /\ rows[t].revoked \/ rows[t].expiresAt <= now

RefreshReused(r, t) ==
    /\ RefreshFound(r, t, "sweep")
    /\ rows[t].revoked

RefreshExpired(r, t) ==
    /\ RefreshFound(r, t, "401")
    /\ ~rows[t].revoked /\ rows[t].expiresAt <= now

RefreshFresh(r, t) ==
    /\ RefreshFound(r, t, "claim")
    /\ ~rows[t].revoked /\ rows[t].expiresAt > now

(* Mutant: a plain update, without revokedAt: null in its where.            *)
ClaimUnconditionally(r) ==
    /\ pc[r] = "claim"
    /\ rows[stored[r].id] # Null
    /\ rows' = [rows EXCEPT ![stored[r].id].revoked = TRUE]
    /\ spent' = spent \cup {stored[r].id}
    /\ Answer(r, "create")
    /\ UNCHANGED <<now, stored, issued, delivered, birth, swept, ended>>

(* The conditional update: only the request that finds revokedAt NULL wins. *)
RefreshClaim(r) ==
    /\ pc[r] = "claim"
    /\ Unrevoked(stored[r].id)
    /\ rows' = [rows EXCEPT ![stored[r].id].revoked = TRUE]
    /\ spent' = spent \cup {stored[r].id}
    /\ Answer(r, "create")
    /\ UNCHANGED <<now, stored, issued, delivered, birth, swept, ended>>

RefreshClaimLost(r) ==
    /\ pc[r] = "claim"
    /\ ~Unrevoked(stored[r].id)
    /\ Answer(r, "401")
    /\ UNCHANGED <<rows, now, stored, issued, history>>

(* Mutant: the answer does not wait for the chaining update.                *)
CreateAndAnswer(r, t) ==
    /\ pc[r] = "create"
    /\ CreateRefreshToken(r, t, stored[r].user,
                          birth[stored[r].id].session, stored[r].id)
    /\ Answer(r, "200")
    /\ UNCHANGED <<now, stored, delivered, spent, swept, ended>>

RefreshCreate(r, t) ==
    /\ pc[r] = "create"
    /\ CreateRefreshToken(r, t, stored[r].user,
                          birth[stored[r].id].session, stored[r].id)
    /\ Answer(r, "chain")
    /\ UNCHANGED <<now, stored, delivered, spent, swept, ended>>

(* Mutant: the update writes back the row as findUnique returned it.        *)
ChainStaleRow(r) ==
    /\ pc[r] = "chain"
    /\ rows[stored[r].id] # Null
    /\ rows' = [rows EXCEPT ![stored[r].id].replacedBy = issued[r],
                            ![stored[r].id].revoked = FALSE]
    /\ delivered' = delivered \cup {issued[r]}
    /\ Answer(r, "200")
    /\ UNCHANGED <<now, stored, issued, birth, spent, swept, ended>>

RefreshChain(r) ==
    /\ pc[r] = "chain"
    /\ rows[stored[r].id] # Null
    /\ rows' = [rows EXCEPT ![stored[r].id].replacedBy = issued[r]]
    /\ delivered' = delivered \cup {issued[r]}
    /\ Answer(r, "200")
    /\ UNCHANGED <<now, stored, issued, birth, spent, swept, ended>>

(* update() throws when the row is gone: the cleanup got there first.       *)
RefreshChainMissing(r) ==
    /\ pc[r] = "chain"
    /\ rows[stored[r].id] = Null
    /\ Answer(r, "500")
    /\ UNCHANGED <<rows, now, stored, issued, history>>

RefreshSweep(r) ==
    /\ pc[r] = "sweep"
    /\ RevokeAllForUser(stored[r].user)
    /\ Answer(r, "401")
    /\ UNCHANGED <<now, stored, issued, delivered, birth, spent>>

(* A statement that fails, or the process dying, ends the request where it  *)
(* is; what its earlier statements wrote stays written.                     *)
Abort(r) ==
    /\ pc[r] \in Awaits
    /\ Answer(r, "500")
    /\ UNCHANGED <<rows, now, stored, issued, history>>

(* Mutant: logout revokes by the user of the row.                           *)
LogoutEverywhere(t) ==
    /\ t \in delivered /\ Unrevoked(t)
    /\ RevokeAllForUser(rows[t].user)
    /\ UNCHANGED <<now, pc, stored, issued, delivered, birth, spent>>

Logout(t) ==
    /\ t \in delivered /\ Unrevoked(t)
    /\ rows' = [rows EXCEPT ![t].revoked = TRUE]
    /\ ended' = ended \cup {birth[t].session}
    /\ UNCHANGED <<now, pc, stored, issued, delivered, birth, spent, swept>>

LogoutAll(u) ==
    /\ SessionsOf(u) # {}
    /\ RevokeAllForUser(u)
    /\ UNCHANGED <<now, pc, stored, issued, delivered, birth, spent>>

(* Mutant: revoked rows go with the expired ones.                           *)
RemoveExpiredOrRevoked ==
    /\ rows' = [t \in Tokens |-> IF /\ rows[t] # Null
                                    /\ rows[t].expiresAt < now \/ rows[t].revoked
                                 THEN Null ELSE rows[t]]
    /\ UNCHANGED <<now, pc, stored, issued, history>>

(* Mutant: only revoked rows are cleaned up.                                *)
RemoveExpiredRevoked ==
    /\ rows' = [t \in Tokens |-> IF /\ rows[t] # Null
                                    /\ rows[t].expiresAt < now /\ rows[t].revoked
                                 THEN Null ELSE rows[t]]
    /\ UNCHANGED <<now, pc, stored, issued, history>>

(* A run that fails is caught and logged, and changes nothing.              *)
RemoveExpired ==
    /\ rows' = [t \in Tokens |-> IF rows[t] # Null /\ rows[t].expiresAt < now
                                 THEN Null ELSE rows[t]]
    /\ UNCHANGED <<now, pc, stored, issued, history>>

Tick ==
    /\ now < MaxTime
    /\ now' = now + 1
    /\ UNCHANGED <<rows, pc, stored, issued, history>>

-----------------------------------------------------------------------------
Refresh(r) ==
    \/ \E t \in Tokens : \/ RefreshUnknown(r, t)
                         \/ RefreshReused(r, t)
                         \/ RefreshExpired(r, t)
                         \/ RefreshFresh(r, t)
                         \/ RefreshCreate(r, t)
    \/ RefreshClaim(r)
    \/ RefreshClaimLost(r)
    \/ RefreshChain(r)
    \/ RefreshChainMissing(r)
    \/ RefreshSweep(r)

Next ==
    \/ \E r \in Requests, u \in Users, t \in Tokens : IssueTokens(r, u, t)
    \/ \E r \in Requests : Refresh(r) \/ Abort(r)
    \/ \E t \in Tokens : Logout(t)
    \/ \E u \in Users : LogoutAll(u)
    \/ RemoveExpired
    \/ Tick

Spec == Init /\ [][Next]_vars
(* The nightly job runs every day, and not every run of it fails.           *)
FairSpec == Spec /\ WF_vars(RemoveExpired)

-----------------------------------------------------------------------------
(* Properties *)

(* Whatever requests race with the same token, a session never has two      *)
(* tokens that are good: the conditional claim in refresh() lets one win,   *)
(* and the winner inserts its token only once the old one is spent.         *)
OneLiveTokenPerSession ==
    \A a, b \in Tokens :
        Live(a) /\ Live(b) /\ birth[a].session = birth[b].session => a = b

(* However many requests present a token, and whenever, it is replaced by   *)
(* one token at most, so a session is one line of tokens and never forks:   *)
(* the conditional claim lets one win, and a row once revoked stays so.     *)
EachTokenIsRotatedOnce ==
    \A a, b \in Tokens :
        /\ birth[a] # Null /\ birth[b] # Null
        /\ birth[a].parent # Null /\ birth[a].parent = birth[b].parent
        => a = b

(* A replayed token is recognised until it would have expired anyway: no    *)
(* handler and no cleanup drops the row of a token, revoked or not, before  *)
(* its expiry.                                                              *)
ReplayStaysDetectable ==
    \A t \in Tokens : birth[t] # Null /\ birth[t].expiresAt >= now => rows[t] # Null

(* A refresh that answers 200 has chained the two tokens: the one presented *)
(* is revoked and names its replacement, which belongs to the same user and *)
(* the same session, for as long as the row exists.                         *)
AnsweredRotationIsChained ==
    \A r \in Requests :
        pc[r] = "200" /\ stored[r] # Null =>
            LET t == stored[r].id
                n == issued[r]
            IN /\ birth[n].parent = t
               /\ birth[n].user = birth[t].user
               /\ birth[n].session = birth[t].session
               /\ rows[t] # Null => rows[t].revoked /\ rows[t].replacedBy = n

(* A session that a logout, a logout from everywhere or a replay revoked    *)
(* while none of its rotations was between claim and insert stays ended: a  *)
(* refresh that read the token before the revocation cannot revive it.      *)
EndedSessionsStayEnded ==
    \A t \in Tokens : Live(t) => birth[t].session \notin ended

(* A token that can no longer be refreshed - spent, revoked, expired or     *)
(* removed - never can be again, and is never issued a second time.         *)
DeadTokensStayDead ==
    [][\A t \in Tokens : birth[t] # Null /\ ~Live(t) => ~Live(t)']_vars

(* One statement never ends sessions of two users: the rows that one call   *)
(* of revokeAllForUser or logout revokes all belong to one user.            *)
RevocationStaysWithinOneUser ==
    [][\A a, b \in Tokens :
           /\ Unrevoked(a) /\ rows'[a] # Null /\ rows'[a].revoked
           /\ Unrevoked(b) /\ rows'[b] # Null /\ rows'[b].revoked
           => rows[a].user = rows[b].user]_vars

(* Expired rows do not pile up: the nightly job removes every one of them.  *)
ExpiredRowsAreRemoved ==
    \A t \in Tokens : (rows[t] # Null /\ rows[t].expiresAt < now) ~> rows[t] = Null

(* README and revokeAllForUser say that every session of the user ends when *)
(* a replay is seen or the user logs out everywhere; refresh() may be past  *)
(* its claim at that moment, and its insert comes after the sweep.          *)
SweepEndsEverySession ==
    \A t \in Tokens : Live(t) => birth[t].session \notin swept

(* refresh() takes a revoked row to mean that the token was already rotated *)
(* and so must have been copied; a row is also revoked by logging out.      *)
ReuseMeansRotated ==
    \A r \in Requests : pc[r] = "sweep" => stored[r].id \in spent

-----------------------------------------------------------------------------
(* The table implements the ledger of sessions.                             *)
Phase(s) ==
    IF birth[s] = Null \/ birth[s].session # s THEN "unopened"
    ELSE IF Rotating(s) THEN "handover"
    ELSE IF \E t \in Tokens : Unrevoked(t) /\ birth[t].session = s THEN "active"
    ELSE "over"

Ledger == INSTANCE SessionLedger
              WITH Sessions <- Tokens, phase <- [s \in Tokens |-> Phase(s)]

(* Every step of the handlers is a step of the ledger or leaves it alone.   *)
ImplementsLedger == Ledger!Spec
=============================================================================
