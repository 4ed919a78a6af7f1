--------------------------- MODULE AccountsProofs ---------------------------
(***************************************************************************)
(* Proofs about Accounts, for any numbers of accounts, names, identities    *)
(* and requests.  The argument: the row a handler holds may be stale, but   *)
(* only in what nobody is let in by, because no statement ever changes the  *)
(* credentials of a row, nor the name of a local one.                       *)
(***************************************************************************)
EXTENDS Accounts, TLAPS

\* The unique indexes.
UniqueRows ==
    \A u, v \in UserIds : users[u] # Null /\ users[v] # Null =>
        /\ users[u].username = users[v].username => u = v
        /\ users[u].externalId # Null /\ users[u].externalId = users[v].externalId
              => u = v

\* What a request holds of a row is still what the row is let in by.
Current(r) ==
    LET u == user[r].id
        row == user[r].row
    IN /\ users[u] # Null
       /\ users[u].password = row.password
       /\ users[u].externalId = row.externalId
       /\ row.password # Null => users[u].username = row.username

Asked(r) ==
    /\ pc[r] = "create" => ask[r] # Null /\ ask[r].kind = "register"
    /\ pc[r] = "compare" =>
          /\ ask[r] # Null /\ ask[r].kind = "login"
          /\ user[r] # Null => user[r].row.username = ask[r].username
    /\ LetIn(r) =>
          /\ ask[r] # Null /\ user[r] # Null
          /\ ask[r].kind = "external" => user[r].row.externalId = ask[r].externalId
          /\ ask[r].kind # "external" => /\ user[r].row.password = ask[r].secret
                                         /\ user[r].row.username = ask[r].username
    /\ user[r] # Null /\ ask[r] # Null /\ ask[r].kind = "register" =>
          /\ user[r].row.password = ask[r].secret
          /\ user[r].row.username = ask[r].username

RequestOK(r) ==
    /\ pc[r] \in {"new", "create"} => user[r] = Null
    /\ user[r] # Null => Current(r)
    /\ Asked(r)

RequestsOK == \A r \in Requests : RequestOK(r)

\* A registration is let into the row it inserted, and no other is.
OwnRows ==
    \A q, r \in Requests :
        /\ LetIn(q) /\ ask[q].kind = "register"
        /\ LetIn(r) /\ ask[r].kind = "register"
        /\ user[q].id = user[r].id
        => q = r

Created == \A r \in Requests : pc[r] = "201" => ask[r] # Null /\ ask[r].kind = "register"

IInv ==
    /\ TypeOK
    /\ UniqueRows
    /\ OneWayIn
    /\ RequestsOK
    /\ OwnRows
    /\ Created

-----------------------------------------------------------------------------
(* The statements.                                                          *)
LEMMA InsertedRows ==
    ASSUME NEW n \in Usernames
    PROVE  /\ \A s \in Secrets : LocalUser(n, s) \in User /\ LocalUser(n, s) # Null
           /\ \A e \in ExternalIds :
                 [username |-> n, password |-> Null, provider |-> Provider,
                  externalId |-> e, role |-> "USER"] \in User
<1>1. \A s \in Secrets : LocalUser(n, s) \in User
  BY DEF LocalUser, User, Roles
<1>2. \A e \in ExternalIds :
         [username |-> n, password |-> Null, provider |-> Provider,
          externalId |-> e, role |-> "USER"] \in User
  BY DEF User, Roles
<1> QED
  BY <1>1, <1>2, NullAssumption

(* INSERT and UPDATE reach one row and the local variable of one request.   *)
LEMMA WriteEffect ==
    ASSUME TypeOK, NEW r \in Requests, NEW u \in UserIds, NEW row \in User,
           Write(r, u, row)
    PROVE  /\ users' \in [UserIds -> User \cup {Null}]
           /\ user' \in [Requests -> Found \cup {Null}]
           /\ users'[u] = row /\ row # Null
           /\ \A v \in UserIds \ {u} : users'[v] = users[v]
           /\ user'[r] # Null /\ user'[r].id = u /\ user'[r].row = row
           /\ \A q \in Requests \ {r} : user'[q] = user[q]
<1>1. [id |-> u, row |-> row] \in Found
  BY DEF Found
<1>2. /\ user'[r] = [id |-> u, row |-> row]
      /\ \A q \in Requests \ {r} : user'[q] = user[q]
      /\ user' \in [Requests -> Found \cup {Null}]
  BY <1>1 DEF Write, TypeOK
<1>3. /\ users'[u] = row
      /\ \A v \in UserIds \ {u} : users'[v] = users[v]
      /\ users' \in [UserIds -> User \cup {Null}]
  BY DEF Write, TypeOK
<1>4. row # Null /\ user'[r] # Null
  BY <1>1, <1>2, NullAssumption
<1> QED
  BY <1>2, <1>3, <1>4

(* A request that arrives is asked one thing, once.                         *)
LEMMA ArriveEffect ==
    ASSUME TypeOK, NEW r \in Requests, NEW a \in Ask, NEW next, Arrive(r, a),
           Answer(r, next), next \in {"new"} \cup Awaits \cup Answers
    PROVE  /\ ask' \in [Requests -> Ask \cup {Null}]
           /\ pc' \in [Requests -> {"new"} \cup Awaits \cup Answers]
           /\ pc[r] = "new" /\ pc'[r] = next /\ ask'[r] = a /\ a # Null
           /\ \A q \in Requests \ {r} : pc'[q] = pc[q] /\ ask'[q] = ask[q]
BY NullAssumption DEF Arrive, Answer, TypeOK

(* The bodies that validation lets through are of the type of ask.          *)
LEMMA Asks ==
    ASSUME NEW n \in Usernames
    PROVE  /\ \A s \in Secrets : /\ Registration(n, s) \in Ask
                                 /\ [kind |-> "login", username |-> n, secret |-> s] \in Ask
           /\ \A e \in ExternalIds : ExternalLogin(n, e) \in Ask
BY DEF Registration, ExternalLogin, Ask

\* Nobody is let in by anything else from one state to the next.
RowsKept ==
    \A u \in UserIds : users[u] # Null =>
        /\ users'[u] # Null
        /\ users'[u].password = users[u].password
        /\ users'[u].externalId = users[u].externalId
        /\ users[u].password # Null => users'[u].username = users[u].username

(* Rows that keep their credentials keep true what the other requests hold. *)
LEMMA OthersKept ==
    ASSUME TypeOK, RowsKept, NEW q \in Requests, RequestOK(q),
           pc'[q] = pc[q], ask'[q] = ask[q], user'[q] = user[q]
    PROVE  RequestOK(q)'
<1>1. user[q] # Null => user[q].id \in UserIds
  BY DEF TypeOK, Found
<1>2. user[q] # Null => Current(q)'
  BY <1>1 DEF RequestOK, Current, RowsKept
<1>3. Asked(q)'
  BY DEF RequestOK, Asked, LetIn
<1> QED
  BY <1>2, <1>3 DEF RequestOK

-----------------------------------------------------------------------------
(* Steps that write no row.  The request r moves on with what it read.      *)
LEMMA ReadStep ==
    ASSUME IInv, NEW r \in Requests, UNCHANGED users,
           pc' \in [Requests -> {"new"} \cup Awaits \cup Answers],
           ask' \in [Requests -> Ask \cup {Null}],
           user' \in [Requests -> Found \cup {Null}],
           \A q \in Requests \ {r} :
              pc'[q] = pc[q] /\ ask'[q] = ask[q] /\ user'[q] = user[q],
           RequestOK(r)',
           LetIn(r)' => \/ LetIn(r) /\ ask'[r] = ask[r] /\ user'[r] = user[r]
                        \/ ask'[r].kind = "login",
           pc'[r] = "201" => pc[r] = "issue" /\ ask'[r] = ask[r]
                             /\ ask[r].kind = "register"
    PROVE  IInv'
<1> USE DEF IInv
<1>1. TypeOK' /\ UniqueRows' /\ OneWayIn'
  BY DEF TypeOK, UniqueRows, OneWayIn
<1>2. RowsKept
  BY DEF RowsKept
<1>3. RequestsOK'
  BY <1>2, OthersKept DEF RequestsOK
<1>4. OwnRows'
  BY DEF OwnRows, LetIn
<1>5. Created'
  BY DEF Created, RequestsOK, RequestOK, Asked, LetIn
<1> QED
  BY <1>1, <1>3, <1>4, <1>5

(* A request that is answered, or goes on, without reading a row.           *)
LEMMA RefusedStep ==
    ASSUME IInv, NEW r \in Requests, NEW a \in Ask, Arrive(r, a),
           NEW next \in {"409", "500", "create"}, Answer(r, next),
           next = "create" => a.kind = "register",
           UNCHANGED <<users, user>>
    PROVE  IInv'
<1>1. TypeOK
  BY DEF IInv
<1>2. /\ ask' \in [Requests -> Ask \cup {Null}]
      /\ pc' \in [Requests -> {"new"} \cup Awaits \cup Answers]
      /\ pc[r] = "new" /\ pc'[r] = next /\ ask'[r] = a /\ a # Null
      /\ \A q \in Requests \ {r} : pc'[q] = pc[q] /\ ask'[q] = ask[q]
  BY <1>1, ArriveEffect DEF Awaits, Answers
<1>3. user[r] = Null
  BY <1>2 DEF IInv, RequestsOK, RequestOK
<1>4. RequestOK(r)'
  BY <1>2, <1>3 DEF RequestOK, Asked, LetIn
<1>5. ~LetIn(r)' /\ pc'[r] # "201"
  BY <1>2 DEF LetIn
<1> QED
  BY <1>1, <1>2, <1>4, <1>5, ReadStep DEF TypeOK

(* login holds the row as it is when it is read, and may find none.         *)
LEMMA LoginFindStep ==
    ASSUME IInv, NEW r \in Requests, NEW n \in Usernames, NEW s \in Secrets,
           LoginFind(r, n, s)
    PROVE  IInv'
<1> DEFINE a == [kind |-> "login", username |-> n, secret |-> s]
<1>1. TypeOK /\ a \in Ask
  BY Asks DEF IInv
<1>2. /\ ask' \in [Requests -> Ask \cup {Null}]
      /\ pc' \in [Requests -> {"new"} \cup Awaits \cup Answers]
      /\ pc[r] = "new" /\ pc'[r] = "compare" /\ ask'[r] = a /\ a # Null
      /\ \A q \in Requests \ {r} : pc'[q] = pc[q] /\ ask'[q] = ask[q]
  BY <1>1, ArriveEffect DEF LoginFind, Awaits, Answers
<1>3. user[r] = Null
  BY <1>2 DEF IInv, RequestsOK, RequestOK
<1>4. /\ user' \in [Requests -> Found \cup {Null}]
      /\ \A q \in Requests \ {r} : user'[q] = user[q]
      /\ user'[r] # Null => /\ user'[r].id \in Named(n)
                            /\ user'[r].row = users[user'[r].id]
  <2>1. CASE UNCHANGED user
    BY <1>1, <1>3, <2>1 DEF TypeOK
  <2>2. ASSUME NEW u \in Named(n),
               user' = [user EXCEPT ![r] = [id |-> u, row |-> users[u]]]
        PROVE  /\ user' \in [Requests -> Found \cup {Null}]
               /\ \A q \in Requests \ {r} : user'[q] = user[q]
               /\ user'[r].id = u /\ user'[r].row = users[u]
    <3>1. [id |-> u, row |-> users[u]] \in Found
      BY <1>1 DEF Found, TypeOK, Named
    <3> QED
      BY <1>1, <2>2, <3>1 DEF TypeOK
  <2> QED
    BY <2>1, <2>2 DEF LoginFind
<1>5. RequestOK(r)'
  BY <1>2, <1>4 DEF RequestOK, Current, Asked, LetIn, LoginFind, Named
<1>6. ~LetIn(r)' /\ pc'[r] # "201"
  BY <1>2 DEF LetIn
<1> QED
  BY <1>2, <1>4, <1>5, <1>6, ReadStep DEF LoginFind

(* An await that ends: comparison, token insert, failure of either.         *)
LEMMA MovedOnStep ==
    ASSUME IInv, NEW r \in Requests, UNCHANGED <<users, ask, user>>,
           \/ LoginAccepted(r) \/ LoginRefused(r) \/ RegisterCollides(r)
           \/ Issue(r) \/ Abort(r)
    PROVE  IInv'
<1>1. TypeOK
  BY DEF IInv
<1>2. /\ pc' \in [Requests -> {"new"} \cup Awaits \cup Answers]
      /\ \A q \in Requests \ {r} : pc'[q] = pc[q]
  BY <1>1 DEF LoginAccepted, LoginRefused, RegisterCollides, Issue, Abort, Answer,
              TypeOK, Awaits, Answers
<1>3. RequestOK(r)
  BY DEF IInv, RequestsOK
<1>4. CASE LoginAccepted(r)
  <2>1. pc[r] = "compare" /\ pc'[r] = "issue"
    BY <1>1, <1>4 DEF LoginAccepted, Answer, TypeOK
  <2>2. user[r] # Null /\ user[r].row.password = ask[r].secret
    BY <1>4 DEF LoginAccepted, Accepts, Matches, HashToCompare
  <2>3. ask[r] # Null /\ ask[r].kind = "login" /\ user[r].row.username = ask[r].username
    BY <1>3, <2>1, <2>2 DEF RequestOK, Asked
  <2>4. RequestOK(r)'
    BY <1>3, <2>1, <2>2, <2>3 DEF RequestOK, Current, Asked, LetIn
  <2> QED
    BY <1>1, <1>2, <2>1, <2>3, <2>4, ReadStep DEF TypeOK
<1>5. CASE LoginRefused(r) \/ RegisterCollides(r) \/ Abort(r)
  <2>1. pc'[r] \in {"401", "500", "dropped"}
    BY <1>1, <1>5 DEF LoginRefused, RegisterCollides, Abort, Answer, TypeOK
  <2>2. RequestOK(r)' /\ ~LetIn(r)' /\ pc'[r] # "201"
    BY <1>3, <2>1 DEF RequestOK, Current, Asked, LetIn
  <2> QED
    BY <1>1, <1>2, <2>2, ReadStep DEF TypeOK
<1>6. CASE Issue(r)
  <2>1. pc[r] = "issue" /\ pc'[r] \in {"200", "201"}
        /\ (pc'[r] = "201" => ask[r].kind = "register")
    BY <1>1, <1>6 DEF Issue, Answer, TypeOK
  <2>2. RequestOK(r)' /\ LetIn(r)
    BY <1>3, <2>1 DEF RequestOK, Current, Asked, LetIn
  <2> QED
    BY <1>1, <1>2, <2>1, <2>2, ReadStep DEF TypeOK
<1> QED
  BY <1>4, <1>5, <1>6

-----------------------------------------------------------------------------
(* Steps that write a row.                                                  *)
LEMMA InsertStep ==
    ASSUME IInv, NEW r \in Requests, NEW u \in UserIds, NEW row \in User,
           Write(r, u, row), users[u] = Null, Named(row.username) = {},
           row.externalId # Null => Linked(row.externalId) = {},
           row.provider = "LOCAL" <=> row.password # Null,
           row.provider = "LOCAL" <=> row.externalId = Null,
           ask' \in [Requests -> Ask \cup {Null}],
           pc' \in [Requests -> {"new"} \cup Awaits \cup Answers],
           pc'[r] = "issue", ask'[r] # Null, ask'[r].username = row.username,
           ask'[r].kind = "external" => ask'[r].externalId = row.externalId,
           ask'[r].kind # "external" => ask'[r].secret = row.password,
           \A q \in Requests \ {r} : pc'[q] = pc[q] /\ ask'[q] = ask[q]
    PROVE  IInv'
<1> USE DEF IInv
<1>1. /\ users' \in [UserIds -> User \cup {Null}]
      /\ user' \in [Requests -> Found \cup {Null}]
      /\ users'[u] = row /\ row # Null
      /\ \A v \in UserIds \ {u} : users'[v] = users[v]
      /\ user'[r] # Null /\ user'[r].id = u /\ user'[r].row = row
      /\ \A q \in Requests \ {r} : user'[q] = user[q]
  BY WriteEffect
<1>2. TypeOK'
  BY <1>1 DEF TypeOK
<1>3. UniqueRows'
  BY <1>1 DEF UniqueRows, Named, Linked
<1>4. OneWayIn'
  BY <1>1 DEF OneWayIn
<1>5. RowsKept
  BY <1>1 DEF RowsKept
<1>6. RequestOK(r)'
  BY <1>1 DEF RequestOK, Current, Asked, LetIn
<1>7. RequestsOK'
  BY <1>1, <1>5, <1>6, OthersKept DEF RequestsOK
<1>8. \A q \in Requests \ {r} : LetIn(q)' => LetIn(q) /\ user[q].id # u
  BY DEF LetIn, RequestsOK, RequestOK, Asked, Current
<1>9. OwnRows'
  BY <1>1, <1>8 DEF OwnRows
<1>10. Created'
  BY DEF Created
<1> QED
  BY <1>2, <1>3, <1>4, <1>7, <1>9, <1>10

(* The create of a registration inserts a local row of its own.             *)
LEMMA RegisterCreateStep ==
    ASSUME IInv, NEW r \in Requests, NEW u \in UserIds, RegisterCreate(r, u)
    PROVE  IInv'
<1> DEFINE n == ask[r].username
           s == ask[r].secret
<1>1. TypeOK /\ ask[r] # Null /\ ask[r].kind = "register"
  BY DEF IInv, RequestsOK, RequestOK, Asked, RegisterCreate
<1>2. n \in Usernames /\ s \in Secrets
  BY <1>1 DEF TypeOK, Ask
<1> DEFINE row == LocalUser(n, s)
<1>3. row \in User
  BY <1>2, InsertedRows
<1>4. /\ row.username = n /\ row.password = s /\ row.provider = "LOCAL"
      /\ row.externalId = Null
  BY DEF LocalUser
<1>5. s # Null
  BY <1>2, NullAssumption
<1>6. /\ ask' = ask /\ Write(r, u, row) /\ users[u] = Null /\ Named(n) = {}
      /\ pc' \in [Requests -> {"new"} \cup Awaits \cup Answers]
      /\ pc'[r] = "issue" /\ \A q \in Requests \ {r} : pc'[q] = pc[q]
  BY <1>1 DEF RegisterCreate, Answer, TypeOK, Awaits
<1>7. ask' \in [Requests -> Ask \cup {Null}]
  BY <1>1, <1>6 DEF TypeOK
<1> HIDE DEF n, s, row
<1>8. ask[r].username = n /\ ask[r].secret = s
  BY DEF n, s
<1> QED
  BY <1>1, <1>3, <1>4, <1>5, <1>6, <1>7, <1>8, InsertStep

(* The insert of a first external login.                                    *)
LEMMA UpsertInsertsStep ==
    ASSUME IInv, NEW r \in Requests, NEW n \in Usernames, NEW e \in ExternalIds,
           NEW u \in UserIds, UpsertInserts(r, n, e, u)
    PROVE  IInv'
<1> DEFINE row == [username |-> n, password |-> Null, provider |-> Provider,
                   externalId |-> e, role |-> "USER"]
           a == ExternalLogin(n, e)
<1>1. TypeOK /\ row \in User /\ a \in Ask /\ e # Null
  BY InsertedRows, Asks, NullAssumption DEF IInv
<1>2. /\ row.username = n /\ row.password = Null /\ row.provider # "LOCAL"
      /\ row.externalId = e
  BY ProviderAssumption
<1>3. a.username = n /\ a.externalId = e /\ a.kind = "external"
  BY DEF ExternalLogin
<1>4. Arrive(r, a) /\ Answer(r, "issue") /\ "issue" \in Awaits
  BY DEF UpsertInserts, Awaits
<1> HIDE DEF row, a
<1>5. /\ ask' \in [Requests -> Ask \cup {Null}]
      /\ pc' \in [Requests -> {"new"} \cup Awaits \cup Answers]
      /\ pc'[r] = "issue" /\ ask'[r] = a /\ a # Null
      /\ \A q \in Requests \ {r} : pc'[q] = pc[q] /\ ask'[q] = ask[q]
  BY <1>1, <1>4, ArriveEffect
<1>6. Write(r, u, row) /\ users[u] = Null /\ Named(n) = {} /\ Linked(e) = {}
  BY DEF UpsertInserts, row
<1> QED
  BY <1>1, <1>2, <1>3, <1>5, <1>6, InsertStep

(* The update of a later external login: it changes a name that no local    *)
(* account has and nobody is let in by.                                     *)
LEMMA UpsertUpdatesStep ==
    ASSUME IInv, NEW r \in Requests, NEW n \in Usernames, NEW e \in ExternalIds,
           NEW u \in UserIds, UpsertUpdates(r, n, e, u)
    PROVE  IInv'
<1> DEFINE row == [users[u] EXCEPT !.username = n]
           a == ExternalLogin(n, e)
<1> USE DEF IInv
<1>1. TypeOK /\ a \in Ask /\ e # Null /\ users[u] \in User
  BY Asks, NullAssumption DEF UpsertUpdates, Linked, TypeOK
<1>2. /\ row \in User /\ row.username = n /\ row.password = users[u].password
      /\ row.provider = users[u].provider /\ row.externalId = users[u].externalId
  BY <1>1 DEF User
<1>3. a.username = n /\ a.externalId = e /\ a.kind = "external"
  BY DEF ExternalLogin
<1>4. Arrive(r, a) /\ Answer(r, "issue") /\ "issue" \in Awaits /\ Write(r, u, row)
  BY DEF UpsertUpdates, Awaits
<1>5. users[u] # Null /\ users[u].externalId = e /\ Named(n) \subseteq {u}
  BY DEF UpsertUpdates, Linked
<1> HIDE DEF row, a
<1>6. /\ ask' \in [Requests -> Ask \cup {Null}]
      /\ pc' \in [Requests -> {"new"} \cup Awaits \cup Answers]
      /\ pc[r] = "new" /\ pc'[r] = "issue" /\ ask'[r] = a /\ a # Null
      /\ \A q \in Requests \ {r} : pc'[q] = pc[q] /\ ask'[q] = ask[q]
  BY <1>1, <1>4, ArriveEffect
<1>7. /\ users' \in [UserIds -> User \cup {Null}]
      /\ user' \in [Requests -> Found \cup {Null}]
      /\ users'[u] = row /\ row # Null
      /\ \A v \in UserIds \ {u} : users'[v] = users[v]
      /\ user'[r] # Null /\ user'[r].id = u /\ user'[r].row = row
      /\ \A q \in Requests \ {r} : user'[q] = user[q]
  BY <1>1, <1>2, <1>4, WriteEffect
<1>8. users[u].password = Null
  BY <1>1, <1>5 DEF OneWayIn
<1>9. TypeOK'
  BY <1>6, <1>7 DEF TypeOK
<1>10. UniqueRows'
  BY <1>2, <1>5, <1>7 DEF UniqueRows, Named
<1>11. OneWayIn'
  BY <1>2, <1>5, <1>7 DEF OneWayIn
<1>12. RowsKept
  BY <1>2, <1>5, <1>7, <1>8 DEF RowsKept
<1>13. RequestOK(r)'
  BY <1>1, <1>2, <1>3, <1>5, <1>6, <1>7, <1>8 DEF RequestOK, Current, Asked, LetIn
<1>14. RequestsOK'
  BY <1>6, <1>7, <1>12, <1>13, OthersKept DEF RequestsOK
<1>15. OwnRows' /\ Created'
  BY <1>3, <1>6, <1>7 DEF OwnRows, Created, LetIn
<1> QED
  BY <1>9, <1>10, <1>11, <1>14, <1>15

(* A role is nothing that anyone is let in by.                              *)
LEMMA SetRoleStep ==
    ASSUME IInv, NEW u \in UserIds, NEW role \in Roles, SetRole(u, role)
    PROVE  IInv'
<1> USE DEF IInv
<1>1. users[u] \in User
  BY DEF SetRole, TypeOK
<1>2. /\ users'[u] = [users[u] EXCEPT !.role = role]
      /\ \A v \in UserIds \ {u} : users'[v] = users[v]
      /\ DOMAIN users' = UserIds
      /\ users' = [v \in UserIds |-> users'[v]]
      /\ UNCHANGED <<pc, ask, user>>
  BY DEF SetRole, TypeOK
<1>3. /\ users'[u] \in User /\ users'[u].username = users[u].username
      /\ users'[u].password = users[u].password
      /\ users'[u].provider = users[u].provider
      /\ users'[u].externalId = users[u].externalId
  BY <1>1, <1>2 DEF User
<1>4. users'[u] # Null /\ users[u] # Null
  BY <1>1, <1>3, NullAssumption
<1>5. users' \in [UserIds -> User \cup {Null}]
  BY <1>2, <1>3 DEF TypeOK
<1>6. TypeOK'
  BY <1>2, <1>5 DEF TypeOK
<1>7. UniqueRows' /\ OneWayIn'
  <2>1. \A v \in UserIds : /\ (users'[v] = Null) = (users[v] = Null)
                           /\ users[v] # Null =>
                                /\ users'[v].username = users[v].username
                                /\ users'[v].password = users[v].password
                                /\ users'[v].provider = users[v].provider
                                /\ users'[v].externalId = users[v].externalId
    BY <1>2, <1>3, <1>4
  <2>2. UniqueRows'
    BY <2>1 DEF UniqueRows
  <2> QED
    BY <2>1, <2>2 DEF OneWayIn
<1>8. RowsKept
  BY <1>2, <1>3, <1>4 DEF RowsKept
<1>9. RequestsOK'
  BY <1>2, <1>8, OthersKept DEF RequestsOK
<1>10. OwnRows' /\ Created'
  BY <1>2 DEF OwnRows, Created, LetIn
<1> QED
  BY <1>6, <1>7, <1>9, <1>10

-----------------------------------------------------------------------------
(* An empty table satisfies the invariant.                                  *)
LEMMA IInvInit == Init => IInv
BY DEF Init, IInv, TypeOK, UniqueRows, OneWayIn, RequestsOK, RequestOK, Asked,
       LetIn, OwnRows, Created

(* Every statement and every await keeps the invariant.                     *)
LEMMA IInvStep == IInv /\ [Next]_vars => IInv'
<1> SUFFICES ASSUME IInv, [Next]_vars
             PROVE  IInv'
  OBVIOUS
<1>1. ASSUME NEW r \in Requests, Register(r)
      PROVE  IInv'
  <2>1. ASSUME NEW n \in Usernames, NEW s \in Secrets,
               RegisterTaken(r, n, s) \/ RegisterFree(r, n, s)
        PROVE  IInv'
    BY <2>1, RefusedStep, Asks DEF RegisterTaken, RegisterFree, Registration
  <2> QED
    BY <1>1, <2>1, RegisterCreateStep, MovedOnStep DEF Register, RegisterCollides
<1>2. ASSUME NEW r \in Requests, Login(r)
      PROVE  IInv'
  BY <1>2, LoginFindStep, MovedOnStep DEF Login, LoginAccepted, LoginRefused
<1>3. ASSUME NEW r \in Requests, LinkExternalUser(r)
      PROVE  IInv'
  <2>1. ASSUME NEW n \in Usernames, NEW e \in ExternalIds, UpsertCollides(r, n, e)
        PROVE  IInv'
    BY <2>1, RefusedStep, Asks DEF UpsertCollides
  <2> QED
    BY <1>3, <2>1, UpsertInsertsStep, UpsertUpdatesStep DEF LinkExternalUser
<1>4. ASSUME NEW r \in Requests, Issue(r) \/ Abort(r)
      PROVE  IInv'
  BY <1>4, MovedOnStep DEF Issue, Abort
<1>5. CASE UNCHANGED vars
  <2>1. TypeOK' /\ UniqueRows' /\ OneWayIn'
    BY <1>5 DEF vars, IInv, TypeOK, UniqueRows, OneWayIn
  <2>2. RequestsOK' /\ OwnRows' /\ Created'
    BY <1>5
    DEF vars, IInv, RequestsOK, RequestOK, Current, Asked, LetIn, OwnRows, Created
  <2> QED
    BY <2>1, <2>2 DEF IInv
<1> QED
  BY <1>1, <1>2, <1>3, <1>4, <1>5, SetRoleStep DEF Next

(* IInv, the strengthening of the checked invariants, holds always.         *)
THEOREM Invariance == Spec => []IInv
BY IInvInit, IInvStep, PTL DEF Spec

(* The variables of Accounts keep their types: in particular every account  *)
(* has a username, and every request a status it can be answered with.      *)
THEOREM AccountsTypeCorrect == Spec => []TypeOK
<1>1. IInv => TypeOK
  BY DEF IInv
<1> QED
  BY <1>1, Invariance, PTL

(* Every request let in has proved who it is to the account it is let into, *)
(* however stale the row its decision was taken on.                         *)
THEOREM IdentityIsProved == Spec => []SessionsProveIdentity
<1>1. IInv => SessionsProveIdentity
  <2> SUFFICES ASSUME IInv, NEW r \in Requests, LetIn(r)
               PROVE  LET row == users[user[r].id]
                      IN /\ row # Null
                         /\ ask[r].kind = "external" =>
                               row.externalId = ask[r].externalId
                         /\ ask[r].kind # "external" =>
                               /\ row.password = ask[r].secret
                               /\ row.username = ask[r].username
    BY DEF SessionsProveIdentity
  <2>1. TypeOK /\ Current(r) /\ Asked(r) /\ ask[r] # Null
    BY DEF IInv, RequestsOK, RequestOK, Asked
  <2>2. ask[r].kind # "external" => ask[r].secret # Null
    BY <2>1, NullAssumption DEF TypeOK, Ask
  <2> QED
    BY <2>1, <2>2 DEF Current, Asked
<1> QED
  BY <1>1, Invariance, PTL

(* A registration cut off after its insert left an account behind that its  *)
(* client can log in to: the row it holds is still the row there is.        *)
THEOREM CutOffIsNotLost == Spec => []CutOffRegistrationsCanLogIn
<1>1. IInv => CutOffRegistrationsCanLogIn
  <2> SUFFICES ASSUME IInv, NEW r \in Requests, ask[r] # Null,
                      ask[r].kind = "register", user[r] # Null
               PROVE  LET row == users[user[r].id]
                      IN row # Null /\ row.username = ask[r].username
                                    /\ row.password = ask[r].secret
    BY DEF CutOffRegistrationsCanLogIn
  <2>1. TypeOK /\ Current(r) /\ Asked(r)
    BY DEF IInv, RequestsOK, RequestOK
  <2>2. ask[r].secret # Null
    BY <2>1, NullAssumption DEF TypeOK, Ask
  <2> QED
    BY <2>1, <2>2 DEF Current, Asked
<1> QED
  BY <1>1, Invariance, PTL

(* Racing registrations for one username: one 201 at most.                  *)
THEOREM OneRegistrationWins == Spec => []RegistrationsAreDistinct
<1>1. IInv => RegistrationsAreDistinct
  <2> SUFFICES ASSUME IInv, NEW q \in Requests, NEW r \in Requests,
                      pc[q] = "201", pc[r] = "201", ask[q].username = ask[r].username
               PROVE  q = r
    BY DEF RegistrationsAreDistinct
  <2>1. /\ LetIn(q) /\ ask[q].kind = "register"
        /\ LetIn(r) /\ ask[r].kind = "register"
    BY DEF IInv, Created, LetIn
  <2>2. /\ ask[q].secret # Null /\ ask[r].secret # Null
        /\ user[q].id \in UserIds /\ user[r].id \in UserIds
    BY <2>1, NullAssumption
    DEF IInv, TypeOK, Ask, Found, RequestsOK, RequestOK, Asked
  <2>3. /\ users[user[q].id] # Null /\ users[user[r].id] # Null
        /\ users[user[q].id].username = users[user[r].id].username
    BY <2>1, <2>2 DEF IInv, RequestsOK, RequestOK, Asked, Current
  <2> QED
    BY <2>1, <2>2, <2>3 DEF IInv, UniqueRows, OwnRows
<1> QED
  BY <1>1, Invariance, PTL

(* An external identity and the row it is let into determine each other.    *)
THEOREM IdentityKeepsRow == Spec => []ExternalIdentityKeepsItsRow
<1>1. IInv => ExternalIdentityKeepsItsRow
  <2> SUFFICES ASSUME IInv, NEW q \in Requests, NEW r \in Requests,
                      LetIn(q), LetIn(r),
                      ask[q].kind = "external", ask[r].kind = "external"
               PROVE  ask[q].externalId = ask[r].externalId <=> user[q].id = user[r].id
    BY DEF ExternalIdentityKeepsItsRow
  <2>1. /\ users[user[q].id] # Null /\ users[user[r].id] # Null
        /\ users[user[q].id].externalId = ask[q].externalId
        /\ users[user[r].id].externalId = ask[r].externalId
    BY DEF IInv, RequestsOK, RequestOK, Asked, Current
  <2>2. /\ ask[q].externalId # Null /\ ask[r].externalId # Null
        /\ user[q].id \in UserIds /\ user[r].id \in UserIds
    BY NullAssumption DEF IInv, TypeOK, Ask, Found, RequestsOK, RequestOK, Asked
  <2> QED
    BY <2>1, <2>2 DEF IInv, UniqueRows
<1> QED
  BY <1>1, Invariance, PTL

(* A password or a provider, never both: linking cannot reach a local row.  *)
THEOREM OneWayInAlways == Spec => []OneWayIn
<1>1. IInv => OneWayIn
  BY DEF IInv
<1> QED
  BY <1>1, Invariance, PTL

(* LoginsOnlyRefreshNames, as a fact about one step: of the rows that exist *)
(* only the upsert's update writes one, and it writes the username alone,   *)
(* of a row that is linked to a provider.                                   *)
LEMMA OnlyNamesStep ==
    ASSUME TypeOK, OneWayIn, [Next]_vars
    PROVE  \A u \in UserIds : users[u] # Null /\ pc' # pc =>
               /\ users'[u] # Null
               /\ users'[u].role = users[u].role
               /\ users'[u].password = users[u].password
               /\ users'[u].externalId = users[u].externalId
               /\ users[u].provider = "LOCAL" => users'[u] = users[u]
               /\ users'[u] # users[u] =>
                     \E r \in Requests :
                         /\ pc[r] = "new"
                         /\ ask'[r] = ExternalLogin(users'[u].username, users[u].externalId)
<1> DEFINE Kept == \A u \in UserIds : users[u] # Null => users'[u] = users[u]
<1>1. ASSUME NEW r \in Requests, NEW n \in Usernames, NEW e \in ExternalIds,
             NEW v \in UserIds, UpsertUpdates(r, n, e, v)
      PROVE  \A u \in UserIds : users[u] # Null =>
                 /\ users'[u] # Null
                 /\ users'[u].role = users[u].role
                 /\ users'[u].password = users[u].password
                 /\ users'[u].externalId = users[u].externalId
                 /\ users[u].provider = "LOCAL" => users'[u] = users[u]
                 /\ users'[u] # users[u] =>
                       /\ pc[r] = "new"
                       /\ ask'[r] = ExternalLogin(users'[u].username, users[u].externalId)
  <2>1. /\ users[v] \in User /\ users[v] # Null /\ users[v].externalId = e
        /\ users' = [users EXCEPT ![v] = [users[v] EXCEPT !.username = n]]
    BY <1>1 DEF UpsertUpdates, Linked, Write, TypeOK
  <2>2. users[v].provider # "LOCAL"
    BY <2>1, NullAssumption DEF OneWayIn
  <2>3. /\ users'[v] \in User
        /\ users'[v].role = users[v].role
        /\ users'[v].password = users[v].password
        /\ users'[v].externalId = users[v].externalId
    BY <2>1 DEF TypeOK, User
  <2>4. \A u \in UserIds \ {v} : users'[u] = users[u]
    BY <2>1 DEF TypeOK
  <2>5. /\ users'[v].username = n
        /\ pc[r] = "new" /\ ask'[r] = ExternalLogin(n, e)
    BY <1>1, <2>1 DEF UpsertUpdates, Arrive, TypeOK, User
  <2> HIDE DEF Kept
  <2> QED
    BY <2>1, <2>2, <2>3, <2>4, <2>5, NullAssumption
<1>2. ASSUME NEW r \in Requests, Register(r)
      PROVE  Kept
  <2>1. ASSUME NEW u \in UserIds, RegisterCreate(r, u)
        PROVE  Kept
    BY <2>1 DEF RegisterCreate, Write, TypeOK
  <2> QED
    BY <1>2, <2>1 DEF Register, RegisterTaken, RegisterFree, RegisterCollides
<1>3. ASSUME NEW r \in Requests, NEW n \in Usernames, NEW e \in ExternalIds,
             NEW u \in UserIds, UpsertInserts(r, n, e, u)
      PROVE  Kept
  BY <1>3 DEF UpsertInserts, Write, TypeOK
<1>4. ASSUME NEW r \in Requests, NEW n \in Usernames, NEW e \in ExternalIds,
             UpsertCollides(r, n, e)
      PROVE  Kept
  BY <1>4 DEF UpsertCollides
<1>5. ASSUME NEW r \in Requests, Login(r) \/ Issue(r) \/ Abort(r)
      PROVE  Kept
  BY <1>5 DEF Login, LoginFind, LoginAccepted, LoginRefused, Issue, Abort
<1>6. ASSUME NEW u \in UserIds, NEW role \in Roles, SetRole(u, role)
      PROVE  pc' = pc
  BY <1>6 DEF SetRole
<1>7. CASE UNCHANGED vars
  BY <1>7 DEF vars
<1> QED
  BY <1>1, <1>2, <1>3, <1>4, <1>5, <1>6, <1>7 DEF Next, LinkExternalUser

(* No request changes the role, credentials or link of an account there is, *)
(* and it is renamed by external logins of its own identity alone.          *)
THEOREM AccountsAreKept == Spec => LoginsOnlyRefreshNames
<1>1. IInv /\ [Next]_vars =>
        [\A u \in UserIds : users[u] # Null /\ pc' # pc =>
            /\ users'[u] # Null
            /\ users'[u].role = users[u].role
            /\ users'[u].password = users[u].password
            /\ users'[u].externalId = users[u].externalId
            /\ users[u].provider = "LOCAL" => users'[u] = users[u]
            /\ users'[u] # users[u] =>
                  \E r \in Requests :
                      /\ pc[r] = "new"
                      /\ ask'[r] = ExternalLogin(users'[u].username, users[u].externalId)
        ]_vars
  BY OnlyNamesStep DEF IInv
<1> QED
  BY <1>1, Invariance, PTL DEF Spec, LoginsOnlyRefreshNames
=============================================================================
