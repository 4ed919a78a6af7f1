------------------------- MODULE ExternalAuthProofs -------------------------
(***************************************************************************)
(* Proofs about ExternalAuth, for any requests, tokens, keys and ages.  The *)
(* argument: while exchanges wait no time passes in the cache, so what was  *)
(* so of a key when an exchange arrived is so when it is decided.           *)
(***************************************************************************)
EXTENDS ExternalAuth, TLAPS

\* What the provider lists, what is on its way and what is cached, by age.
KeysAge ==
    /\ \A k \in published : retired[k] = 0
    /\ \A k \in fetch.keys : retired[k] = 0
    /\ jwks # Null => \A k \in jwks.keys : retired[k] <= jwks.age

\* A key heard of recently is in the cache, which is as old.
HeardIsCached ==
    \A k \in Keys : heard[k] < CacheAge =>
        jwks # Null /\ k \in jwks.keys /\ heard[k] = jwks.age

\* Exchanges wait for a fetch, and only for keys that are not at hand.
WaitingInv ==
    /\ fetch.state = "none" <=> fetch = NoFetch
    /\ fetch.state # "answered" => fetch.keys = {}
    /\ waiting # {} => fetch # NoFetch
    /\ \A r \in waiting :
          /\ heard[request[r].key] = CacheAge
          /\ r \notin excuse =>
                /\ request[r].key \in published
                /\ fetch.state = "answered" => request[r].key \in fetch.keys

\* Nobody is answered before asking.
AskedFirst == \A r \in Requests : answer[r] # Null => request[r] # Null

IInv == TypeOK /\ KeysAge /\ HeardIsCached /\ WaitingInv /\ AskedFirst
             /\ OnlyTheProvidersUsers /\ RefusalHasACause

-----------------------------------------------------------------------------
(* The operators.                                                           *)

(* Letting in and refusing are told apart by their status.                  *)
LEMMA StatusesDiffer == 200 # 401 /\ 200 # 500 /\ 200 # 503 /\ 401 # 500 /\ 401 # 503
OBVIOUS

(* The outcome of verify is an answer, never Null.                          *)
LEMMA DecideType ==
    ASSUME NEW t \in Tokens, NEW keys
    PROVE  Decide(t, keys) \in Answers /\ Decide(t, keys) # Null
<1>1. t \in Token
  BY TokensAssumption
<1>2. [status |-> 401] \in Answers
  BY DEF Answers
<1>3. ToIdentity(t) \in Answers
  <2>1. CASE t.sub \in {Null, ""} \/ t.username \in {Null, ""}
    BY <1>2, <2>1 DEF ToIdentity
  <2>2. CASE ~(t.sub \in {Null, ""} \/ t.username \in {Null, ""})
    <3>1. t.sub \in Claims /\ t.username \in Claims
      BY <1>1, <2>2 DEF Token
    <3>2. [status |-> 200, externalId |-> t.sub, username |-> t.username]
             \in [status : {200}, externalId : Claims, username : Claims]
      BY <3>1
    <3> QED
      BY <2>2, <3>2 DEF ToIdentity, Answers
  <2> QED
    BY <2>1, <2>2
<1>4. Decide(t, keys) \in Answers
  BY <1>2, <1>3 DEF Decide
<1> QED
  BY <1>4, NullAssumption

(* An identity is made of the two claims, and only if both are there.       *)
LEMMA IdentityIsWhole ==
    ASSUME NEW t, ToIdentity(t).status = 200
    PROVE  /\ ToIdentity(t).externalId = t.sub /\ ToIdentity(t).username = t.username
           /\ t.sub \notin {Null, ""} /\ t.username \notin {Null, ""}
<1> DEFINE identity == [status |-> 200, externalId |-> t.sub, username |-> t.username]
           refused == [status |-> 401]
<1>1. refused.status # 200
  OBVIOUS
<1>2. identity.externalId = t.sub /\ identity.username = t.username
  OBVIOUS
<1>3. ToIdentity(t) = IF t.sub \in {Null, ""} \/ t.username \in {Null, ""}
                      THEN refused ELSE identity
  BY DEF ToIdentity
<1> HIDE DEF identity, refused
<1>4. ~(t.sub \in {Null, ""} \/ t.username \in {Null, ""})
  BY <1>1, <1>3
<1>5. ToIdentity(t) = identity
  BY <1>3, <1>4
<1> QED
  BY <1>2, <1>4, <1>5

Parties(e) == {e.authorizedParties[i] : i \in DOMAIN e.authorizedParties}

\* What an answer to the token t is worth under the settings e.
Sound(e, t, result) ==
    result.status = 200 =>
        /\ t.live /\ t.iss = "ours"
        /\ ~IsBlank(e.audience) => t.aud = "ours"
        /\ Parties(e) \subseteq {""} \/ t.azp \in Parties(e) \ {""}
        /\ result.externalId = t.sub /\ result.username = t.username
        /\ t.sub \notin {Null, ""} /\ t.username \notin {Null, ""}

(* Who is let in satisfies every check, with the settings as they are.      *)
LEMMA DecideSound ==
    ASSUME TypeOK, NEW t \in Tokens, NEW keys, Decide(t, keys).status = 200
    PROVE  t.key \in keys /\ Sound(env, t, Decide(t, keys))
<1>1. /\ t.key \in keys /\ JwtVerified(t) /\ AuthorizedParty(t)
      /\ Decide(t, keys) = ToIdentity(t)
      /\ ToIdentity(t).status = 200
  <2>1. [status |-> 401].status # 200
    OBVIOUS
  <2> QED
    BY <2>1 DEF Decide
<1>2. /\ ToIdentity(t).externalId = t.sub /\ ToIdentity(t).username = t.username
      /\ t.sub \notin {Null, ""} /\ t.username \notin {Null, ""}
  BY <1>1, IdentityIsWhole
<1>3. config = ExternalAuthConfig(env)
  BY DEF TypeOK
<1>4. ~IsBlank(env.audience) => t.aud = "ours"
  <2> SUFFICES ASSUME ~IsBlank(env.audience)
               PROVE  t.aud = "ours"
    OBVIOUS
  <2>1. config.audience = env.audience
    BY <1>3 DEF ExternalAuthConfig, OptionalEnv
  <2>2. env.audience # Missing
    BY DEF IsBlank, Missing, Text
  <2> QED
    BY <1>1, <2>1, <2>2 DEF JwtVerified
<1>5. Parties(env) \subseteq {""} \/ t.azp \in Parties(env) \ {""}
  <2>1. config.authorizedParties = EnvList(env.authorizedParties, {})
    BY <1>3 DEF ExternalAuthConfig
  <2>2. CASE env.authorizedParties = <<>>
    <3>1. DOMAIN env.authorizedParties = {}
      BY <2>2
    <3> QED
      BY <3>1 DEF Parties
  <2>3. CASE env.authorizedParties # <<>>
    <3>1. config.authorizedParties = Parties(env) \ {""}
      BY <2>1, <2>3 DEF EnvList, Parties
    <3> QED
      BY <1>1, <3>1 DEF AuthorizedParty
  <2> QED
    BY <2>2, <2>3
<1>6. t.key \in keys /\ t.live /\ t.iss = "ours"
  BY <1>1 DEF JwtVerified
<1>7. Decide(t, keys).externalId = t.sub /\ Decide(t, keys).username = t.username
  BY <1>1, <1>2
<1> QED
  BY <1>2, <1>4, <1>5, <1>6, <1>7 DEF Sound

(* Where the key is there, a refusal is for a claim.                        *)
LEMMA DecideRefuses ==
    ASSUME NEW t, NEW keys, t.key \in keys, Decide(t, keys).status = 401
    PROVE  ~JwtVerified(t) \/ ~AuthorizedParty(t) \/ ToIdentity(t).status = 401
BY DEF Decide

(* A key set of a call is one jose could keep, and not Null.                *)
LEMMA KeySetType ==
    ASSUME TypeOK
    PROVE  KeySet \in KeySets /\ KeySet # Null
<1>1. NewKeySet \in KeySets
  BY AgesAssumption DEF NewKeySet, KeySets
<1>2. KeySet \in KeySets
  BY <1>1 DEF KeySet, TypeOK
<1> QED
  BY <1>2, NullAssumption

(* Ageing stays within the ages, keeps their order and loses none below     *)
(* the last.                                                                *)
LEMMA OlderFacts ==
    ASSUME NEW a \in 0..CacheAge, NEW b \in 0..CacheAge
    PROVE  /\ Older(a) \in 0..CacheAge
           /\ a <= b => Older(a) <= Older(b)
           /\ Older(a) < CacheAge => a < CacheAge
           /\ Older(0) # 0
BY AgesAssumption DEF Older

-----------------------------------------------------------------------------
(* The types.                                                               *)

(* Every variable starts within its type.                                   *)
LEMMA InitTypeOK == Init => TypeOK
<1> SUFFICES ASSUME Init PROVE TypeOK
  OBVIOUS
<1>1. /\ env \in Environments /\ config = ExternalAuthConfig(env)
      /\ published \in SUBSET Keys
      /\ rotations \in 0..MaxRotations
      /\ jwks \in KeySets \cup {Null}
  BY RotationsAssumption DEF Init
<1>2. fetch \in [state : {"none", "asked", "answered"}, keys : SUBSET Keys]
  BY DEF Init, NoFetch
<1>3. /\ request \in [Requests -> Tokens \cup {Null}]
      /\ waiting \in SUBSET {r \in Requests : request[r] # Null /\ answer[r] = Null}
      /\ answer \in [Requests -> Answers \cup {Null}]
      /\ excuse \in SUBSET Requests
  BY DEF Init
<1>4. retired \in [Keys -> 0..CacheAge] /\ heard \in [Keys -> 0..CacheAge]
  BY AgesAssumption DEF Init
<1> QED
  BY <1>1, <1>2, <1>3, <1>4 DEF TypeOK

(* An exchange answered at once fills its own slot, which was empty.        *)
LEMMA AnswerType ==
    ASSUME TypeOK, NEW r \in Requests, NEW t \in Tokens, NEW result \in Answers,
           Answer(r, t, result)
    PROVE  /\ request' \in [Requests -> Tokens \cup {Null}]
           /\ answer' \in [Requests -> Answers \cup {Null}]
           /\ waiting' \in SUBSET {s \in Requests : request'[s] # Null /\ answer'[s] = Null}
<1>1. /\ request' \in [Requests -> Tokens \cup {Null}]
      /\ answer' \in [Requests -> Answers \cup {Null}]
  BY DEF TypeOK, Answer
<1>2. ASSUME NEW s \in waiting
      PROVE  s \in Requests /\ request'[s] # Null /\ answer'[s] = Null
  BY DEF TypeOK, Answer
<1> QED
  BY <1>1, <1>2 DEF Answer

(* The answers of those who waited, whatever their tokens.                  *)
LEMMA DecidedType ==
    ASSUME TypeOK, NEW keys
    PROVE  [r \in Requests |-> IF r \in waiting THEN Decide(request[r], keys)
                                                ELSE answer[r]]
              \in [Requests -> Answers \cup {Null}]
<1>1. ASSUME NEW r \in Requests, r \in waiting
      PROVE  Decide(request[r], keys) \in Answers
  <2>1. request[r] \in Tokens
    BY <1>1 DEF TypeOK
  <2> QED
    BY <2>1, DecideType
<1> QED
  BY <1>1 DEF TypeOK

(* Every action leaves each variable within its type.                       *)
LEMMA TypeStep == ASSUME TypeOK, AskedFirst, [Next]_vars PROVE TypeOK'
<1> USE DEF envVars, providerVars
<1>1. ASSUME NEW r \in Requests, NEW t \in Tokens, VerifyDisabled(r, t)
      PROVE  TypeOK'
  <2>1. [status |-> 503] \in Answers
    BY DEF Answers
  <2> QED
    BY <1>1, <2>1, AnswerType DEF VerifyDisabled, Answer, TypeOK
<1>2. ASSUME NEW r \in Requests, NEW t \in Tokens, VerifyWithoutUrl(r, t)
      PROVE  TypeOK'
  <2>1. [status |-> 500] \in Answers
    BY DEF Answers
  <2> QED
    BY <1>2, <2>1, AnswerType DEF VerifyWithoutUrl, Answer, TypeOK
<1>3. ASSUME NEW r \in Requests, NEW t \in Tokens, VerifyCached(r, t)
      PROVE  TypeOK'
  <2>1. Decide(t, KeySet.keys) \in Answers
    BY DecideType
  <2>2. Answer(r, t, Decide(t, KeySet.keys)) /\ jwks' = KeySet /\ UNCHANGED <<heard, excuse>>
    BY <1>3 DEF VerifyCached
  <2>3. /\ request' \in [Requests -> Tokens \cup {Null}]
        /\ answer' \in [Requests -> Answers \cup {Null}]
        /\ waiting' \in SUBSET {s \in Requests : request'[s] # Null /\ answer'[s] = Null}
    BY <2>1, <2>2, AnswerType
  <2> QED
    BY <2>2, <2>3, KeySetType DEF Answer, TypeOK
<1>4. ASSUME NEW r \in Requests, NEW t \in Tokens, VerifyCoolingDown(r, t)
      PROVE  TypeOK'
  <2>1. [status |-> 401] \in Answers
    BY DEF Answers
  <2> QED
    BY <1>4, <2>1, AnswerType, KeySetType DEF VerifyCoolingDown, Answer, TypeOK
<1>5. ASSUME NEW r \in Requests, NEW t \in Tokens, VerifyFetching(r, t)
      PROVE  TypeOK'
  <2>1. fetch' \in [state : {"none", "asked", "answered"}, keys : SUBSET Keys]
    BY <1>5 DEF VerifyFetching, TypeOK
  <2>2. waiting' \in SUBSET {s \in Requests : request'[s] # Null /\ answer'[s] = Null}
    <3>1. ASSUME NEW s \in waiting \cup {r}
          PROVE  s \in Requests /\ request'[s] # Null /\ answer'[s] = Null
      <4>1. t # Null
        BY NullAssumption
      <4> QED
        BY <1>5, <4>1 DEF VerifyFetching, TypeOK, AskedFirst
    <3> QED
      BY <1>5, <3>1 DEF VerifyFetching
  <2>3. request' \in [Requests -> Tokens \cup {Null}] /\ excuse' \in SUBSET Requests
    BY <1>5 DEF VerifyFetching, TypeOK
  <2> QED
    BY <1>5, <2>1, <2>2, <2>3, KeySetType DEF VerifyFetching, TypeOK
<1>6. CASE ProviderAnswers
  <2>1. fetch' \in [state : {"none", "asked", "answered"}, keys : SUBSET Keys]
    BY <1>6 DEF ProviderAnswers, TypeOK
  <2> QED
    BY <1>6, <2>1 DEF ProviderAnswers, TypeOK
<1>7. CASE KeysArrive
  <2>1. jwks' \in KeySets
    BY <1>7, AgesAssumption DEF KeysArrive, TypeOK, KeySets
  <2>2. fetch' \in [state : {"none", "asked", "answered"}, keys : SUBSET Keys]
    BY <1>7 DEF KeysArrive, NoFetch
  <2>3. answer' \in [Requests -> Answers \cup {Null}]
    BY <1>7, DecidedType DEF KeysArrive
  <2>4. heard' \in [Keys -> 0..CacheAge]
    BY <1>7, AgesAssumption DEF KeysArrive
  <2> QED
    BY <1>7, <2>1, <2>2, <2>3, <2>4 DEF KeysArrive, TypeOK
<1>8. CASE FetchFails
  <2>1. fetch' \in [state : {"none", "asked", "answered"}, keys : SUBSET Keys]
    BY <1>8 DEF FetchFails, NoFetch
  <2>2. [status |-> 401] \in Answers
    BY DEF Answers
  <2>3. answer' \in [Requests -> Answers \cup {Null}]
    BY <1>8, <2>2 DEF FetchFails, TypeOK
  <2>4. excuse' \in SUBSET Requests
    BY <1>8 DEF FetchFails, TypeOK
  <2> QED
    BY <1>8, <2>1, <2>3, <2>4 DEF FetchFails, TypeOK
<1>9. ASSUME NEW k \in Keys, Publish(k)
      PROVE  TypeOK'
  <2>1. rotations' \in 0..MaxRotations
    BY <1>9, RotationsAssumption DEF Publish, TypeOK
  <2>2. retired' \in [Keys -> 0..CacheAge]
    BY <1>9, AgesAssumption DEF Publish, TypeOK
  <2> QED
    BY <1>9, <2>1, <2>2 DEF Publish, TypeOK
<1>10. ASSUME NEW k \in Keys, Retire(k)
       PROVE  TypeOK'
  <2>1. rotations' \in 0..MaxRotations
    BY <1>10, RotationsAssumption DEF Retire, TypeOK
  <2>2. excuse' \in SUBSET Requests
    BY <1>10 DEF Retire, TypeOK
  <2> QED
    BY <1>10, <2>1, <2>2 DEF Retire, TypeOK
<1>11. CASE Tick
  <2>1. jwks' \in KeySets \cup {Null}
    <3>1. CASE jwks = Null
      BY <1>11, <3>1 DEF Tick
    <3>2. CASE jwks # Null
      <4>1. jwks \in KeySets /\ jwks.age \in 0..CacheAge
        BY <3>2 DEF TypeOK, KeySets
      <4>2. Older(jwks.age) \in 0..CacheAge
        BY <4>1, OlderFacts
      <4>3. jwks' = [jwks EXCEPT !.age = Older(jwks.age)]
        BY <1>11, <3>2 DEF Tick
      <4> QED
        BY <4>1, <4>2, <4>3 DEF KeySets
    <3> QED
      BY <3>1, <3>2
  <2>2. \A a \in 0..CacheAge : Older(a) \in 0..CacheAge
    BY OlderFacts
  <2>3. retired' \in [Keys -> 0..CacheAge] /\ heard' \in [Keys -> 0..CacheAge]
    BY <1>11, <2>2, AgesAssumption DEF Tick, TypeOK
  <2> QED
    BY <1>11, <2>1, <2>3 DEF Tick, TypeOK
<1>12. CASE UNCHANGED vars
  BY <1>12 DEF vars, TypeOK
<1> QED
  BY <1>1, <1>2, <1>3, <1>4, <1>5, <1>6, <1>7, <1>8, <1>9, <1>10, <1>11, <1>12
     DEF Next, Verify

(* An answer goes to an exchange that has asked, or asks in the same step.  *)
LEMMA AskedStep == ASSUME TypeOK, AskedFirst, [Next]_vars PROVE AskedFirst'
<1> USE DEF envVars, providerVars
<1>1. ASSUME NEW r \in Requests, NEW t \in Tokens, NEW result, Answer(r, t, result)
      PROVE  AskedFirst'
  <2>1. t # Null
    BY NullAssumption
  <2> QED
    BY <1>1, <2>1 DEF Answer, TypeOK, AskedFirst
<1>2. ASSUME NEW r \in Requests, NEW t \in Tokens, VerifyFetching(r, t)
      PROVE  AskedFirst'
  <2>1. t # Null
    BY NullAssumption
  <2> QED
    BY <1>2, <2>1 DEF VerifyFetching, TypeOK, AskedFirst
<1>3. CASE KeysArrive
  BY <1>3 DEF KeysArrive, TypeOK, AskedFirst
<1>4. CASE FetchFails
  BY <1>4 DEF FetchFails, TypeOK, AskedFirst
<1>5. CASE UNCHANGED <<request, answer>>
  BY <1>5 DEF AskedFirst
<1> QED
  BY <1>1, <1>2, <1>3, <1>4, <1>5
     DEF Next, Verify, VerifyDisabled, VerifyWithoutUrl, VerifyCached,
         VerifyCoolingDown, ProviderAnswers, Publish, Retire, Tick, vars

-----------------------------------------------------------------------------
(* The keys.                                                                *)

(* The keys of the cache, and with them what is known of their age.         *)
LEMMA KeySetKeys ==
    ASSUME TypeOK, KeysAge, NEW k \in KeySet.keys
    PROVE  jwks # Null /\ KeySet = jwks /\ retired[k] <= KeySet.age
<1>1. NewKeySet.keys = {}
  BY DEF NewKeySet
<1> QED
  BY <1>1 DEF KeySet, KeysAge

(* Nothing listed, on its way or cached has been withdrawn for longer than  *)
(* the cache is old.                                                        *)
LEMMA KeysAgeStep == ASSUME TypeOK, WaitingInv, KeysAge, [Next]_vars PROVE KeysAge'
<1> USE DEF envVars, providerVars
<1>1. ASSUME jwks' = KeySet, UNCHANGED <<published, retired>>, fetch'.keys = fetch.keys
      PROVE  KeysAge'
  BY <1>1, KeySetKeys DEF KeysAge
<1>2. CASE ProviderAnswers
  BY <1>2 DEF ProviderAnswers, KeysAge
<1>3. CASE KeysArrive
  <2>1. /\ jwks' = [keys |-> fetch.keys, age |-> 0]
        /\ fetch' = NoFetch /\ UNCHANGED <<published, retired>>
    BY <1>3 DEF KeysArrive
  <2>2. \A k \in fetch.keys : retired[k] = 0
    BY DEF KeysAge
  <2> QED
    BY <2>1, <2>2 DEF KeysAge, NoFetch
<1>4. CASE FetchFails
  BY <1>4 DEF FetchFails, KeysAge, NoFetch
<1>5. ASSUME NEW k \in Keys, Publish(k)
      PROVE  KeysAge'
  <2>1. /\ \A j \in Keys : retired'[j] = retired[j] \/ (j = k /\ retired'[j] = 0)
        /\ published' = published \cup {k} /\ retired'[k] = 0
        /\ UNCHANGED <<jwks, fetch>>
    BY <1>5 DEF Publish, TypeOK
  <2>2. published \subseteq Keys /\ fetch.keys \subseteq Keys
    BY DEF TypeOK
  <2>3. jwks # Null => jwks.keys \subseteq Keys /\ jwks.age \in Nat
    BY DEF TypeOK, KeySets
  <2> QED
    BY <2>1, <2>2, <2>3 DEF KeysAge
<1>6. ASSUME NEW k \in Keys, Retire(k)
      PROVE  KeysAge'
  BY <1>6 DEF Retire, KeysAge
<1>7. CASE Tick
  <2>1. /\ fetch = NoFetch /\ UNCHANGED <<fetch, published>>
        /\ retired' = [k \in Keys |-> IF k \in published THEN 0 ELSE Older(retired[k])]
    BY <1>7 DEF Tick
  <2>2. \A k \in published' : retired'[k] = 0
    BY <2>1 DEF TypeOK
  <2>3. \A k \in fetch'.keys : retired'[k] = 0
    BY <2>1 DEF NoFetch
  <2>4. ASSUME jwks' # Null, NEW k \in jwks'.keys
        PROVE  retired'[k] <= jwks'.age
    <3>1. jwks # Null /\ jwks' = [jwks EXCEPT !.age = Older(jwks.age)]
      BY <1>7, <2>4 DEF Tick
    <3>2. jwks \in KeySets
      BY <3>1 DEF TypeOK
    <3>3. jwks'.keys = jwks.keys /\ jwks'.age = Older(jwks.age)
      BY <3>1, <3>2 DEF KeySets
    <3>4. k \in Keys /\ jwks.age \in 0..CacheAge /\ retired[k] \in 0..CacheAge
      BY <2>4, <3>2, <3>3 DEF KeySets, TypeOK
    <3>5. retired[k] <= jwks.age
      BY <2>4, <3>1, <3>3 DEF KeysAge
    <3>6. Older(retired[k]) <= Older(jwks.age) /\ Older(jwks.age) \in 0..CacheAge
      BY <3>4, <3>5, OlderFacts
    <3>7. retired'[k] = IF k \in published THEN 0 ELSE Older(retired[k])
      BY <2>1, <3>4
    <3> QED
      BY <3>3, <3>6, <3>7
  <2> QED
    BY <2>2, <2>3, <2>4 DEF KeysAge
<1>8. CASE UNCHANGED <<published, fetch, jwks, retired>>
  BY <1>8 DEF KeysAge
<1>9. ASSUME NEW r \in Requests, NEW t \in Tokens, VerifyFetching(r, t)
      PROVE  fetch'.keys = fetch.keys
  BY <1>9 DEF VerifyFetching, TypeOK
<1> QED
  BY <1>1, <1>2, <1>3, <1>4, <1>5, <1>6, <1>7, <1>8, <1>9
     DEF Next, Verify, VerifyDisabled, VerifyWithoutUrl, VerifyCached,
         VerifyCoolingDown, VerifyFetching, Answer, vars

(* A key heard of stays in the cache, and they grow old together.           *)
LEMMA HeardStep == ASSUME TypeOK, HeardIsCached, [Next]_vars PROVE HeardIsCached'
<1> USE DEF envVars, providerVars
<1>1. ASSUME jwks' = KeySet, UNCHANGED heard
      PROVE  HeardIsCached'
  BY <1>1, KeySetType DEF HeardIsCached, KeySet
<1>2. CASE KeysArrive
  <2>1. [keys |-> fetch.keys, age |-> 0] # Null
    <3>1. [keys |-> fetch.keys, age |-> 0] \in KeySets
      BY AgesAssumption DEF TypeOK, KeySets
    <3> QED
      BY <3>1, NullAssumption
  <2>2. /\ jwks' = [keys |-> fetch.keys, age |-> 0]
        /\ heard' = [k \in Keys |-> IF k \in fetch.keys THEN 0 ELSE CacheAge]
    BY <1>2 DEF KeysArrive
  <2> QED
    BY <2>1, <2>2, AgesAssumption DEF HeardIsCached
<1>3. CASE Tick
  <2> SUFFICES ASSUME NEW k \in Keys, heard'[k] < CacheAge
               PROVE  jwks' # Null /\ k \in jwks'.keys /\ heard'[k] = jwks'.age
    BY DEF HeardIsCached
  <2>1. heard'[k] = Older(heard[k]) /\ heard[k] \in 0..CacheAge
    BY <1>3 DEF Tick, TypeOK
  <2>2. heard[k] < CacheAge
    BY <2>1, OlderFacts
  <2>3. jwks # Null /\ k \in jwks.keys /\ heard[k] = jwks.age /\ jwks \in KeySets
    BY <2>2 DEF HeardIsCached, TypeOK
  <2>4. jwks' = [jwks EXCEPT !.age = Older(jwks.age)]
    BY <1>3, <2>3 DEF Tick
  <2>5. jwks'.keys = jwks.keys /\ jwks'.age = Older(jwks.age)
    BY <2>3, <2>4 DEF KeySets
  <2>6. jwks' # Null
    <3>1. jwks' \in KeySets
      BY <2>1, <2>3, <2>4, OlderFacts DEF KeySets
    <3> QED
      BY <3>1, NullAssumption
  <2> QED
    BY <2>1, <2>3, <2>5, <2>6
<1>4. CASE UNCHANGED <<jwks, heard>>
  BY <1>4 DEF HeardIsCached
<1> QED
  BY <1>1, <1>2, <1>3, <1>4
     DEF Next, Verify, VerifyDisabled, VerifyWithoutUrl, VerifyCached,
         VerifyCoolingDown, VerifyFetching, Answer, ProviderAnswers, FetchFails,
         Publish, Retire, vars

-----------------------------------------------------------------------------
(* The exchanges that wait.                                                 *)

(* An exchange comes to wait only for a key that has not been heard of.     *)
LEMMA WaitersMiss ==
    ASSUME TypeOK, HeardIsCached, NEW t \in Tokens,
           ~Fresh(KeySet) \/ t.key \notin KeySet.keys
    PROVE  heard[t.key] = CacheAge
<1>1. t.key \in Keys
  BY TokensAssumption DEF Token
<1>2. heard[t.key] \in 0..CacheAge
  BY <1>1 DEF TypeOK
<1> SUFFICES ASSUME heard[t.key] < CacheAge
             PROVE  FALSE
  BY <1>2, AgesAssumption
<1>3. jwks # Null /\ t.key \in jwks.keys /\ heard[t.key] = jwks.age
  BY <1>1 DEF HeardIsCached
<1> QED
  BY <1>3 DEF Fresh, KeySet

(* Whoever waits waits for a fetch, which will list the key unless there is *)
(* a reason to refuse.                                                      *)
LEMMA WaitingStep ==
    ASSUME TypeOK, HeardIsCached, WaitingInv, [Next]_vars PROVE WaitingInv'
<1> USE DEF envVars, providerVars
<1>1. ASSUME NEW r \in Requests, NEW t \in Tokens, NEW result, Answer(r, t, result),
             UNCHANGED heard, excuse \subseteq excuse'
      PROVE  WaitingInv'
  <2>1. /\ request[r] = Null /\ request' = [request EXCEPT ![r] = t]
        /\ UNCHANGED <<fetch, waiting, published, heard>>
    BY <1>1 DEF Answer
  <2>2. \A s \in waiting : s \in Requests /\ s # r
    BY <2>1 DEF TypeOK
  <2>3. \A s \in waiting : request'[s] = request[s]
    BY <2>1, <2>2 DEF TypeOK
  <2> QED
    BY <1>1, <2>1, <2>3 DEF WaitingInv
<1>2. ASSUME NEW r \in Requests, NEW t \in Tokens, VerifyFetching(r, t)
      PROVE  WaitingInv'
  <2>1. /\ request[r] = Null /\ request' = [request EXCEPT ![r] = t]
        /\ waiting' = waiting \cup {r} /\ UNCHANGED <<published, heard>>
        /\ excuse' = IF t.key \in published
                        /\ (fetch.state = "answered" => t.key \in fetch.keys)
                     THEN excuse ELSE excuse \cup {r}
        /\ fetch' = IF fetch = NoFetch THEN [fetch EXCEPT !.state = "asked"] ELSE fetch
        /\ ~Fresh(KeySet) \/ t.key \notin KeySet.keys
    BY <1>2 DEF VerifyFetching
  <2>2. \A s \in waiting : s \in Requests /\ s # r
    BY <2>1 DEF TypeOK
  <2>3. /\ \A s \in waiting : request'[s] = request[s]
        /\ request'[r] = t
    BY <2>1, <2>2 DEF TypeOK
  <2>4. /\ fetch'.state = "none" <=> fetch' = NoFetch
        /\ fetch'.state # "answered" => fetch'.keys = {}
        /\ fetch' # NoFetch
        /\ fetch'.state = "answered" => fetch = fetch'
    BY <2>1 DEF WaitingInv, NoFetch, TypeOK
  <2>5. heard[t.key] = CacheAge
    BY <2>1, WaitersMiss
  <2>6. ASSUME NEW s \in waiting
        PROVE  /\ heard'[request'[s].key] = CacheAge
               /\ s \notin excuse' =>
                     /\ request'[s].key \in published'
                     /\ fetch'.state = "answered" => request'[s].key \in fetch'.keys
    BY <2>1, <2>2, <2>3, <2>4, <2>6 DEF WaitingInv
  <2>7. /\ heard'[request'[r].key] = CacheAge
        /\ r \notin excuse' =>
              /\ request'[r].key \in published'
              /\ fetch'.state = "answered" => request'[r].key \in fetch'.keys
    BY <2>1, <2>3, <2>4, <2>5
  <2> QED
    BY <2>1, <2>4, <2>6, <2>7 DEF WaitingInv
<1>3. CASE ProviderAnswers
  BY <1>3 DEF ProviderAnswers, WaitingInv, NoFetch
<1>4. CASE KeysArrive
  BY <1>4 DEF KeysArrive, WaitingInv, NoFetch
<1>5. CASE FetchFails
  BY <1>5 DEF FetchFails, WaitingInv, NoFetch
<1>6. ASSUME NEW k \in Keys, Publish(k)
      PROVE  WaitingInv'
  BY <1>6 DEF Publish, WaitingInv
<1>7. ASSUME NEW k \in Keys, Retire(k)
      PROVE  WaitingInv'
  BY <1>7 DEF Retire, WaitingInv, TypeOK
<1>8. CASE Tick
  <2>1. waiting' = {} /\ UNCHANGED fetch
    BY <1>8 DEF Tick, WaitingInv
  <2> QED
    BY <2>1 DEF WaitingInv
<1>9. CASE UNCHANGED vars
  BY <1>9 DEF vars, WaitingInv
<1> QED
  BY <1>1, <1>2, <1>3, <1>4, <1>5, <1>6, <1>7, <1>8, <1>9
     DEF Next, Verify, VerifyDisabled, VerifyWithoutUrl, VerifyCached, VerifyCoolingDown

-----------------------------------------------------------------------------
(* The answers.                                                             *)

\* What excuses a refusal of the token t under the settings c.
Refusable(c, t) ==
    \/ ~t.live \/ t.iss # "ours" \/ (c.audience # Missing /\ t.aud # "ours")
    \/ ~(c.authorizedParties = {} \/ t.azp \in c.authorizedParties \ {""})
    \/ ToIdentity(t).status = 401

(* A token that fails a check may be refused.                               *)
LEMMA RefusableMeans ==
    ASSUME NEW t
    PROVE  (~JwtVerified(t) \/ ~AuthorizedParty(t) \/ ToIdentity(t).status = 401)
              <=> Refusable(config, t)
BY DEF Refusable, JwtVerified, AuthorizedParty

(* A decision is sound, whichever way it goes.                              *)
LEMMA DecisionSound ==
    ASSUME TypeOK, NEW t \in Tokens, NEW keys
    PROVE  Sound(env, t, Decide(t, keys))
<1>1. CASE Decide(t, keys).status = 200
  BY <1>1, DecideSound
<1>2. CASE Decide(t, keys).status # 200
  BY <1>2 DEF Sound
<1> QED
  BY <1>1, <1>2

(* A refusal without more is sound.                                         *)
LEMMA RefusalSound ==
    ASSUME NEW e, NEW t, NEW status \in {401, 500, 503}
    PROVE  Sound(e, t, [status |-> status])
<1>1. [status |-> status].status # 200
  BY StatusesDiffer
<1> QED
  BY <1>1 DEF Sound

(* An action that only gives sound answers, and refusals with a cause,      *)
(* keeps both properties.                                                   *)
LEMMA AnswersStep ==
    ASSUME OnlyTheProvidersUsers, RefusalHasACause,
           UNCHANGED envVars, excuse \subseteq excuse',
           \A r \in Requests :
              \/ answer'[r] = Null
              \/ answer'[r] = answer[r] /\ request'[r] = request[r]
              \/ /\ Sound(env, request'[r], answer'[r])
                 /\ answer'[r].status = 401 => r \in excuse' \/ Refusable(config, request'[r])
    PROVE  OnlyTheProvidersUsers' /\ RefusalHasACause'
<1>1. UNCHANGED <<env, config>>
  BY DEF envVars
<1>2. ASSUME NEW r \in Requests, answer'[r] # Null
      PROVE  /\ Sound(env, request'[r], answer'[r])
             /\ answer'[r].status = 401 => r \in excuse' \/ Refusable(config, request'[r])
  <2>1. CASE answer'[r] = answer[r] /\ request'[r] = request[r]
    <3>1. Sound(env, request[r], answer[r])
      BY <1>2, <2>1 DEF OnlyTheProvidersUsers, Accepted, Sound, Parties
    <3>2. answer[r].status = 401 => r \in excuse \/ Refusable(config, request[r])
      BY <1>2, <2>1, RefusableMeans DEF RefusalHasACause
    <3> QED
      BY <2>1, <3>1, <3>2
  <2> QED
    BY <1>2, <2>1
<1>3. OnlyTheProvidersUsers'
  <2>1. env' = env
    BY <1>1
  <2>2. \A r \in Requests : answer'[r] # Null => Sound(env', request'[r], answer'[r])
    BY <1>2, <2>1
  <2> QED
    BY <2>2 DEF OnlyTheProvidersUsers, Accepted, Sound, Parties
<1>4. RefusalHasACause'
  BY <1>1, <1>2 DEF RefusalHasACause, Refusable, JwtVerified, AuthorizedParty
<1> QED
  BY <1>3, <1>4

(* Every action keeps who is let in a user of the provider, and every       *)
(* refusal one with a cause.                                                *)
LEMMA PropertiesStep ==
    ASSUME IInv, [Next]_vars
    PROVE  OnlyTheProvidersUsers' /\ RefusalHasACause'
<1> USE DEF envVars, providerVars
<1>0. /\ TypeOK /\ KeysAge /\ WaitingInv /\ AskedFirst
      /\ OnlyTheProvidersUsers /\ RefusalHasACause
  BY DEF IInv
<1>1. ASSUME NEW r \in Requests, NEW t \in Tokens, NEW result, Answer(r, t, result),
             excuse \subseteq excuse', Sound(env, t, result),
             result.status = 401 => r \in excuse' \/ Refusable(config, t)
      PROVE  OnlyTheProvidersUsers' /\ RefusalHasACause'
  <2>1. /\ request' = [request EXCEPT ![r] = t]
        /\ answer' = [answer EXCEPT ![r] = result]
        /\ UNCHANGED envVars
    BY <1>1 DEF Answer
  <2>2. /\ request'[r] = t /\ answer'[r] = result
        /\ \A s \in Requests \ {r} : request'[s] = request[s] /\ answer'[s] = answer[s]
    BY <1>0, <2>1 DEF TypeOK
  <2> QED
    BY <1>0, <1>1, <2>1, <2>2, AnswersStep
<1>2. ASSUME NEW r \in Requests, NEW t \in Tokens, VerifyDisabled(r, t)
      PROVE  OnlyTheProvidersUsers' /\ RefusalHasACause'
  <2>1. Sound(env, t, [status |-> 503]) /\ [status |-> 503].status # 401
    BY RefusalSound, StatusesDiffer
  <2> QED
    BY <1>1, <1>2, <2>1 DEF VerifyDisabled
<1>3. ASSUME NEW r \in Requests, NEW t \in Tokens, VerifyWithoutUrl(r, t)
      PROVE  OnlyTheProvidersUsers' /\ RefusalHasACause'
  <2>1. Sound(env, t, [status |-> 500]) /\ [status |-> 500].status # 401
    BY RefusalSound, StatusesDiffer
  <2> QED
    BY <1>1, <1>3, <2>1 DEF VerifyWithoutUrl
<1>4. ASSUME NEW r \in Requests, NEW t \in Tokens, VerifyCached(r, t)
      PROVE  OnlyTheProvidersUsers' /\ RefusalHasACause'
  <2>1. /\ t.key \in KeySet.keys /\ UNCHANGED excuse
        /\ Answer(r, t, Decide(t, KeySet.keys))
    BY <1>4 DEF VerifyCached
  <2>2. Sound(env, t, Decide(t, KeySet.keys))
    BY <1>0, DecisionSound
  <2>3. Decide(t, KeySet.keys).status = 401 => Refusable(config, t)
    BY <2>1, DecideRefuses, RefusableMeans
  <2> QED
    BY <1>1, <2>1, <2>2, <2>3
<1>5. ASSUME NEW r \in Requests, NEW t \in Tokens, VerifyCoolingDown(r, t)
      PROVE  OnlyTheProvidersUsers' /\ RefusalHasACause'
  <2>1. Sound(env, t, [status |-> 401])
    BY RefusalSound
  <2> QED
    BY <1>1, <1>5, <2>1 DEF VerifyCoolingDown
<1>6. ASSUME NEW r \in Requests, NEW t \in Tokens, VerifyFetching(r, t)
      PROVE  OnlyTheProvidersUsers' /\ RefusalHasACause'
  <2>1. /\ request[r] = Null /\ request' = [request EXCEPT ![r] = t]
        /\ UNCHANGED <<envVars, answer>> /\ excuse \subseteq excuse'
    BY <1>6 DEF VerifyFetching
  <2>2. \A s \in Requests : answer'[s] = Null \/ request'[s] = request[s]
    BY <1>0, <2>1 DEF TypeOK, AskedFirst
  <2> QED
    BY <1>0, <2>1, <2>2, AnswersStep
<1>7. CASE KeysArrive
  <2>1. /\ fetch.state = "answered" /\ UNCHANGED <<envVars, request, excuse>>
        /\ answer' = [r \in Requests |-> IF r \in waiting
                                         THEN Decide(request[r], fetch.keys) ELSE answer[r]]
    BY <1>7 DEF KeysArrive
  <2>2. ASSUME NEW r \in Requests, r \in waiting
        PROVE  /\ Sound(env, request[r], Decide(request[r], fetch.keys))
               /\ Decide(request[r], fetch.keys).status = 401 =>
                     r \in excuse \/ Refusable(config, request[r])
    <3>1. request[r] \in Tokens
      BY <1>0, <2>2 DEF TypeOK
    <3>2. r \in excuse \/ request[r].key \in fetch.keys
      BY <1>0, <2>1, <2>2 DEF WaitingInv
    <3>3. request[r].key \in fetch.keys /\ Decide(request[r], fetch.keys).status = 401 =>
             Refusable(config, request[r])
      BY DecideRefuses, RefusableMeans
    <3>4. Sound(env, request[r], Decide(request[r], fetch.keys))
      BY <1>0, <3>1, DecisionSound
    <3> QED
      BY <3>2, <3>3, <3>4
  <2>3. \A r \in Requests :
           answer'[r] = IF r \in waiting THEN Decide(request[r], fetch.keys) ELSE answer[r]
    BY <2>1
  <2> QED
    BY <1>0, <2>1, <2>2, <2>3, AnswersStep
<1>8. CASE FetchFails
  <2>1. /\ UNCHANGED <<envVars, request>> /\ excuse \subseteq excuse'
        /\ excuse' = excuse \cup {r \in waiting : heard[request[r].key] = CacheAge}
        /\ answer' = [r \in Requests |-> IF r \in waiting THEN [status |-> 401]
                                                          ELSE answer[r]]
    BY <1>8 DEF FetchFails
  <2>2. ASSUME NEW r \in Requests, r \in waiting
        PROVE  Sound(env, request[r], [status |-> 401]) /\ r \in excuse'
    BY <1>0, <2>1, <2>2, RefusalSound DEF WaitingInv
  <2>3. \A r \in Requests :
           answer'[r] = IF r \in waiting THEN [status |-> 401] ELSE answer[r]
    BY <2>1
  <2> QED
    BY <1>0, <2>1, <2>2, <2>3, AnswersStep
<1>9. CASE UNCHANGED <<envVars, request, answer>> /\ excuse \subseteq excuse'
  BY <1>0, <1>9, AnswersStep
<1> QED
  BY <1>2, <1>3, <1>4, <1>5, <1>6, <1>7, <1>8, <1>9
     DEF Next, Verify, ProviderAnswers, Publish, Retire, Tick, vars

-----------------------------------------------------------------------------
(* The theorems.                                                            *)

(* The invariant holds at boot, before any exchange.                        *)
LEMMA InitIInv == Init => IInv
<1> SUFFICES ASSUME Init PROVE IInv
  OBVIOUS
<1>1. TypeOK
  BY InitTypeOK
<1>2. KeysAge
  BY DEF Init, KeysAge, NoFetch
<1>3. HeardIsCached
  BY AgesAssumption DEF Init, HeardIsCached
<1>4. WaitingInv
  BY DEF Init, WaitingInv, NoFetch
<1>5. AskedFirst /\ OnlyTheProvidersUsers /\ RefusalHasACause
  BY DEF Init, AskedFirst, OnlyTheProvidersUsers, RefusalHasACause, Accepted
<1> QED
  BY <1>1, <1>2, <1>3, <1>4, <1>5 DEF IInv

(* The invariant is inductive.                                              *)
THEOREM ExternalInductive == Spec => []IInv
<1>1. IInv /\ [Next]_vars => IInv'
  BY TypeStep, AskedStep, KeysAgeStep, HeardStep, WaitingStep, PropertiesStep DEF IInv
<1> QED
  BY InitIInv, <1>1, PTL DEF Spec

(* Whatever the settings, tokens and schedule, every variable keeps to its  *)
(* type; in particular who waits has asked and is not answered.             *)
THEOREM ExternalTypeCorrect == Spec => []TypeOK
<1>1. IInv => TypeOK
  BY DEF IInv
<1> QED
  BY ExternalInductive, <1>1, PTL

(* verify lets in nobody but the provider's users, whatever keys come and   *)
(* go while exchanges wait.                                                 *)
THEOREM OnlyUsersEnter == Spec => []OnlyTheProvidersUsers
<1>1. IInv => OnlyTheProvidersUsers
  BY DEF IInv
<1> QED
  BY ExternalInductive, <1>1, PTL

(* verify refuses nobody without a cause, and nobody whose key is cached    *)
(* for the provider being out of reach.                                     *)
THEOREM RefusalsHaveCauses == Spec => []RefusalHasACause
<1>1. IInv => RefusalHasACause
  BY DEF IInv
<1> QED
  BY ExternalInductive, <1>1, PTL

(* A key withdrawn for as long as the cache may live lets nobody in.        *)
THEOREM KeysAreForgotten == Spec => RetiredKeysAreForgotten
<1> DEFINE Forgets == \A r \in Requests :
                         Accepted(r)' /\ answer[r] = Null =>
                             retired[request'[r].key] < CacheAge
<1>1. ASSUME IInv, [Next]_vars PROVE Forgets
  <2> USE DEF envVars, providerVars
  <2>0. TypeOK /\ KeysAge /\ AskedFirst
    BY <1>1 DEF IInv
  <2> SUFFICES ASSUME NEW r \in Requests, answer'[r] # Null, answer'[r].status = 200,
                      answer[r] = Null
               PROVE  retired[request'[r].key] < CacheAge
    BY DEF Accepted
  <2>1. ASSUME NEW s \in Requests, NEW t, NEW result, Answer(s, t, result)
        PROVE  result.status = 200 /\ request'[r] = t
    BY <2>0, <2>1 DEF Answer, TypeOK
  <2>2. ASSUME NEW s \in Requests, NEW t, NEW status \in {401, 500, 503},
               Answer(s, t, [status |-> status])
        PROVE  FALSE
    <3>1. [status |-> status].status = 200
      BY <2>1, <2>2
    <3> QED
      BY <3>1, StatusesDiffer
  <2>3. ASSUME NEW s \in Requests, NEW t \in Tokens, VerifyCached(s, t)
        PROVE  retired[request'[r].key] < CacheAge
    <3>1. Answer(s, t, Decide(t, KeySet.keys)) /\ Fresh(KeySet)
      BY <2>3 DEF VerifyCached
    <3>2. Decide(t, KeySet.keys).status = 200 /\ request'[r] = t
      BY <2>1, <3>1
    <3>3. t.key \in KeySet.keys
      BY <2>3 DEF VerifyCached
    <3>4. retired[t.key] <= KeySet.age /\ KeySet.age < CacheAge
      BY <2>0, <3>1, <3>3, KeySetKeys DEF Fresh
    <3>5. retired[t.key] \in Nat /\ KeySet.age \in Nat
      BY <2>0, <3>3, KeySetType DEF KeySets, TypeOK
    <3> QED
      BY <3>2, <3>4, <3>5, AgesAssumption
  <2>4. CASE KeysArrive
    <3>1. /\ request' = request
          /\ answer'[r] = IF r \in waiting THEN Decide(request[r], fetch.keys) ELSE answer[r]
      BY <2>4 DEF KeysArrive
    <3>2. r \in waiting /\ Decide(request[r], fetch.keys).status = 200
      BY <3>1
    <3>3. request[r].key \in fetch.keys
      <4>1. request[r] \in Tokens
        BY <2>0, <3>2 DEF TypeOK
      <4> QED
        BY <2>0, <3>2, <4>1, DecideSound
    <3>4. retired[request[r].key] = 0
      BY <2>0, <3>3 DEF KeysAge
    <3> QED
      BY <3>1, <3>4, AgesAssumption
  <2>5. CASE FetchFails
    <3>1. answer'[r] = [status |-> 401]
      BY <2>5 DEF FetchFails
    <3>2. [status |-> 401].status # 200
      OBVIOUS
    <3> QED
      BY <3>1, <3>2
  <2>6. CASE UNCHANGED answer
    BY <2>6
  <2> QED
    BY <1>1, <2>2, <2>3, <2>4, <2>5, <2>6
       DEF Next, Verify, VerifyDisabled, VerifyWithoutUrl, VerifyCoolingDown,
           VerifyFetching, ProviderAnswers, Publish, Retire, Tick, vars
<1>2. IInv /\ [Next]_vars => [Forgets]_vars
  BY <1>1
<1> QED
  BY ExternalInductive, <1>2, PTL DEF Spec, RetiredKeysAreForgotten
=============================================================================
