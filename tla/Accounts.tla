------------------------------ MODULE Accounts ------------------------------
(***************************************************************************)
(* The users table and the handlers that look accounts up, create them and *)
(* let them in: register, login and external/session.  As in RefreshTokens *)
(* an action is one awaited call (a SQL statement, or bcrypt) with the code *)
(* that follows it.  What an account carries beyond identity and role (name, *)
(* avatar, timestamps) is left out, and validation has already passed.     *)
(***************************************************************************)
CONSTANTS
    UserIds,      \* autoincrement ids
    Usernames,
    Secrets,      \* passwords; one is taken for its bcrypt hash
    DummySecret,  \* whatever DUMMY_HASH happens to be the hash of
    ExternalIds,  \* the provider's own ids (`sub`)
    Provider,     \* AUTH_EXTERNAL_PROVIDER
    Requests,     \* HTTP requests, each handled once
    Null          \* SQL NULL, a missing row, an unset local variable

ASSUME DummyAssumption == DummySecret \in Secrets
ASSUME ProviderAssumption == Provider # "LOCAL"

VARIABLES
    users,   \* id -> row of users, or Null
    pc,      \* the await each request is at, or how it was answered
    ask,     \* what the request asks: its kind and its body
    user     \* the row the handler works with, as its query returned it

vars == <<users, pc, ask, user>>

Roles == {"ADMIN", "USER"}

User == [username : Usernames, password : Secrets \cup {Null},
         provider : {"LOCAL", Provider}, externalId : ExternalIds \cup {Null},
         role : Roles]

\* A local variable `user`: the columns selected, and the id.
Found == [id : UserIds, row : User]

Ask == [kind : {"register", "login"}, username : Usernames, secret : Secrets]
       \cup
       [kind : {"external"}, username : Usernames, externalId : ExternalIds]

ASSUME NullAssumption ==
    Null \notin UserIds \cup Secrets \cup ExternalIds \cup User \cup Found \cup Ask

Awaits == {"create", "compare", "issue"}
\* "dropped": a statement failed or the process died, before or after it ran.
Answers == {"200", "201", "401", "409", "500", "dropped"}

TypeOK ==
    /\ users \in [UserIds -> User \cup {Null}]
    /\ pc \in [Requests -> {"new"} \cup Awaits \cup Answers]
    /\ ask \in [Requests -> Ask \cup {Null}]
    /\ user \in [Requests -> Found \cup {Null}]

Init ==
    /\ users = [u \in UserIds |-> Null]
    /\ pc = [r \in Requests |-> "new"]
    /\ ask = [r \in Requests |-> Null]
    /\ user = [r \in Requests |-> Null]

-----------------------------------------------------------------------------
Answer(r, status) == pc' = [pc EXCEPT ![r] = status]

Arrive(r, request) ==
    /\ pc[r] = "new"
    /\ ask' = [ask EXCEPT ![r] = request]

Named(name) == {u \in UserIds : users[u] # Null /\ users[u].username = name}

Linked(e) == {u \in UserIds : users[u] # Null /\ users[u].externalId = e}

\* INSERT or UPDATE of one row, whose values the handler then holds.
Write(r, u, row) ==
    /\ users' = [users EXCEPT ![u] = row]
    /\ user' = [user EXCEPT ![r] = [id |-> u, row |-> row]]

-----------------------------------------------------------------------------
(* register: count, then hash, then create; the unique index has the last   *)
(* word, and its violation is an error like any other.                      *)
Registration(n, s) == [kind |-> "register", username |-> n, secret |-> s]

LocalUser(n, s) == [username |-> n, password |-> s, provider |-> "LOCAL",
                    externalId |-> Null, role |-> "USER"]

RegisterTaken(r, n, s) ==
    /\ Arrive(r, Registration(n, s))
    /\ Named(n) # {}
    /\ Answer(r, "409")
    /\ UNCHANGED <<users, user>>

RegisterFree(r, n, s) ==
    /\ Arrive(r, Registration(n, s))
    /\ Named(n) = {}
    /\ Answer(r, "create")
    /\ UNCHANGED <<users, user>>

(* Mutant: an upsert on the username in place of the create.                *)
RegisterUpsert(r, u) ==
    /\ pc[r] = "create"
    /\ IF Named(ask[r].username) = {} THEN users[u] = Null
                                      ELSE u \in Named(ask[r].username)
    /\ Write(r, u, LocalUser(ask[r].username, ask[r].secret))
    /\ Answer(r, "issue")
    /\ UNCHANGED ask

RegisterCreate(r, u) ==
    /\ pc[r] = "create"
    /\ Named(ask[r].username) = {} /\ users[u] = Null
    /\ Write(r, u, LocalUser(ask[r].username, ask[r].secret))
    /\ Answer(r, "issue")
    /\ UNCHANGED ask

RegisterCollides(r) ==
    /\ pc[r] = "create"
    /\ Named(ask[r].username) # {}
    /\ Answer(r, "500")
    /\ UNCHANGED <<users, ask, user>>

-----------------------------------------------------------------------------
(* login: the row is read, and the comparison, slow on purpose, works on    *)
(* what was read; it runs against DUMMY_HASH when there is no password.     *)
LoginFind(r, n, s) ==
    /\ Arrive(r, [kind |-> "login", username |-> n, secret |-> s])
    /\ \/ Named(n) = {} /\ UNCHANGED user
       \/ \E u \in Named(n) :
             user' = [user EXCEPT ![r] = [id |-> u, row |-> users[u]]]
    /\ Answer(r, "compare")
    /\ UNCHANGED users

HashToCompare(r) == IF user[r] # Null /\ user[r].row.password # Null
                    THEN user[r].row.password ELSE DummySecret

Matches(r) == ask[r].secret = HashToCompare(r)

(* Mutant: a match is enough, whatever it was a match with.                 *)
AcceptsAnyMatch(r) == user[r] # Null /\ Matches(r)

Accepts(r) == user[r] # Null /\ user[r].row.password # Null /\ Matches(r)

LoginAccepted(r) ==
    /\ pc[r] = "compare" /\ Accepts(r)
    /\ Answer(r, "issue")
    /\ UNCHANGED <<users, ask, user>>

LoginRefused(r) ==
    /\ pc[r] = "compare" /\ ~Accepts(r)
    /\ Answer(r, "401")
    /\ UNCHANGED <<users, ask, user>>

-----------------------------------------------------------------------------
(* external/session, its token verified: linkExternalUser is one statement, *)
(* INSERT ... ON CONFLICT (external_id) DO UPDATE.  The unique index on the *)
(* username is not the conflict it names.                                   *)
ExternalLogin(n, e) == [kind |-> "external", username |-> n, externalId |-> e]

(* Mutant: the external id stands in for the username.                      *)
UpsertInsertsSub(r, n, e, u) ==
    /\ Arrive(r, ExternalLogin(n, e))
    /\ Linked(e) = {} /\ users[u] = Null
    /\ Write(r, u, [username |-> e, password |-> Null, provider |-> Provider,
                    externalId |-> e, role |-> "USER"])
    /\ Answer(r, "issue")

UpsertInserts(r, n, e, u) ==
    /\ Arrive(r, ExternalLogin(n, e))
    /\ Linked(e) = {} /\ Named(n) = {} /\ users[u] = Null
    /\ Write(r, u, [username |-> n, password |-> Null, provider |-> Provider,
                    externalId |-> e, role |-> "USER"])
    /\ Answer(r, "issue")

(* Mutant: the update block writes the role as well.                        *)
UpsertResetsRole(r, n, e, u) ==
    /\ Arrive(r, ExternalLogin(n, e))
    /\ u \in Linked(e) /\ Named(n) \subseteq {u}
    /\ Write(r, u, [users[u] EXCEPT !.username = n, !.role = "USER"])
    /\ Answer(r, "issue")

(* Mutant: accounts are matched on the username.                            *)
UpsertByUsername(r, n, e, u) ==
    /\ Arrive(r, ExternalLogin(n, e))
    /\ u \in Named(n)
    /\ Write(r, u, [users[u] EXCEPT !.externalId = e])
    /\ Answer(r, "issue")

UpsertUpdates(r, n, e, u) ==
    /\ Arrive(r, ExternalLogin(n, e))
    /\ u \in Linked(e) /\ Named(n) \subseteq {u}
    /\ Write(r, u, [users[u] EXCEPT !.username = n])
    /\ Answer(r, "issue")

UpsertCollides(r, n, e) ==
    /\ Arrive(r, ExternalLogin(n, e))
    /\ Named(n) \ Linked(e) # {}
    /\ Answer(r, "500")
    /\ UNCHANGED <<users, user>>

-----------------------------------------------------------------------------
(* issueTokens: the session itself belongs to RefreshTokens.                *)
Issue(r) ==
    /\ pc[r] = "issue"
    /\ Answer(r, IF ask[r].kind = "register" THEN "201" ELSE "200")
    /\ UNCHANGED <<users, ask, user>>

Abort(r) ==
    /\ pc[r] \in Awaits
    /\ Answer(r, "dropped")
    /\ UNCHANGED <<users, ask, user>>

\* No handler writes the role after the insert; an administrator does.
SetRole(u, role) ==
    /\ users[u] # Null
    /\ users' = [users EXCEPT ![u].role = role]
    /\ UNCHANGED <<pc, ask, user>>

Register(r) ==
    \/ \E n \in Usernames, s \in Secrets :
          RegisterTaken(r, n, s) \/ RegisterFree(r, n, s)
    \/ \E u \in UserIds : RegisterCreate(r, u)
    \/ RegisterCollides(r)

Login(r) ==
    \/ \E n \in Usernames, s \in Secrets : LoginFind(r, n, s)
    \/ LoginAccepted(r)
    \/ LoginRefused(r)

LinkExternalUser(r) ==
    \E n \in Usernames, e \in ExternalIds :
        \/ \E u \in UserIds : UpsertInserts(r, n, e, u) \/ UpsertUpdates(r, n, e, u)
        \/ UpsertCollides(r, n, e)

Next ==
    \/ \E r \in Requests : \/ Register(r) \/ Login(r) \/ LinkExternalUser(r)
                           \/ Issue(r) \/ Abort(r)
    \/ \E u \in UserIds, role \in Roles : SetRole(u, role)

Spec == Init /\ [][Next]_vars

-----------------------------------------------------------------------------
(* Properties *)

LetIn(r) == pc[r] \in {"issue", "200", "201"}

(* Whoever is let in proved to be the owner of the account as it is now: by *)
(* the password of a local account of the name given, or by the external id *)
(* of a linked one, even though login decides on a row read before the      *)
(* comparison and other requests write the table meanwhile.                 *)
SessionsProveIdentity ==
    \A r \in Requests : LetIn(r) =>
        LET row == users[user[r].id]
        IN /\ row # Null
           /\ ask[r].kind = "external" => row.externalId = ask[r].externalId
           /\ ask[r].kind # "external" => /\ row.password = ask[r].secret
                                          /\ row.username = ask[r].username

(* Of the registrations that race for a username one at most is answered    *)
(* 201, though each of them may have counted zero rows before any insert.   *)
RegistrationsAreDistinct ==
    \A q, r \in Requests :
        pc[q] = "201" /\ pc[r] = "201" /\ ask[q].username = ask[r].username => q = r

(* A registration that was cut off after its insert is not lost: the client *)
(* saw an error and a retry is answered 409, but the account is there, under *)
(* the name and with the password that were asked for, and login lets in.   *)
CutOffRegistrationsCanLogIn ==
    \A r \in Requests :
        ask[r] # Null /\ ask[r].kind = "register" /\ user[r] # Null =>
            LET row == users[user[r].id]
            IN row # Null /\ row.username = ask[r].username
                          /\ row.password = ask[r].secret

(* One provider identity always lets into the same row, under whatever      *)
(* username the provider reports at each login, and no two identities do.   *)
ExternalIdentityKeepsItsRow ==
    \A q, r \in Requests :
        LetIn(q) /\ LetIn(r) /\ ask[q].kind = "external" /\ ask[r].kind = "external"
        => (ask[q].externalId = ask[r].externalId <=> user[q].id = user[r].id)

(* An account has one way in: a password if it is local, an external id if  *)
(* it came from the provider, never both and never neither.                 *)
OneWayIn ==
    \A u \in UserIds : users[u] # Null =>
        /\ users[u].provider = "LOCAL" <=> users[u].password # Null
        /\ users[u].provider = "LOCAL" <=> users[u].externalId = Null

(* No request changes the role, the credentials or the link of an account   *)
(* that exists, and none renames a local one; a linked row is renamed only   *)
(* by an external login of its own identity, to the name that login carries. *)
LoginsOnlyRefreshNames ==
    [][\A u \in UserIds : users[u] # Null /\ pc' # pc =>
          /\ users'[u] # Null
          /\ users'[u].role = users[u].role
          /\ users'[u].password = users[u].password
          /\ users'[u].externalId = users[u].externalId
          /\ users[u].provider = "LOCAL" => users'[u] = users[u]
          /\ users'[u] # users[u] =>
                \E r \in Requests :
                    /\ pc[r] = "new"
                    /\ ask'[r] = ExternalLogin(users'[u].username, users[u].externalId)
      ]_vars

(* The tests expect a username that is taken to be answered with 409; when  *)
(* it is taken between the count and the create, the answer is 500.         *)
DuplicateIsConflict ==
    \A r \in Requests : pc[r] = "500" => ask[r].kind # "register"

(* README says users are provisioned on first login; one whose username     *)
(* another account holds is answered 500 and has no account.                *)
FirstLoginProvisions ==
    \A r \in Requests :
        pc[r] = "500" /\ ask[r].kind = "external" => Linked(ask[r].externalId) # {}
=============================================================================
