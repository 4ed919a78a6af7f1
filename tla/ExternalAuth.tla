---------------------------- MODULE ExternalAuth ----------------------------
(***************************************************************************)
(* ExternalAuthService.verify: a provider's token is checked against keys  *)
(* that jose fetches from the provider, caches, and fetches again when they *)
(* are old or lack the token's key.  Exchanges overlap: those that need a  *)
(* fetch wait for the one under way.  Meanwhile the provider rotates its    *)
(* keys and goes in and out of reach.                                       *)
(***************************************************************************)
EXTENDS Env

CONSTANTS
    Environments,  \* the AUTH_EXTERNAL_* settings the process may start with
    Requests,      \* POST auth/external/session, each handled once
    Keys,          \* the provider's signing keys, at any time
    Claims,        \* values of a token's azp, sub and username claim
    Tokens,        \* tokens a caller may present
    CacheAge,      \* jose's cacheMaxAge, in ticks
    Cooldown,      \* jose's cooldownDuration, in ticks
    MaxRotations,  \* bound on the provider publishing and retiring keys
    Null           \* no key set, no answer yet, or a claim that is missing

Token == [key : Keys, live : BOOLEAN, iss : {"ours", "other"}, aud : {"ours", "other"},
          azp : Claims \cup {Null}, sub : Claims \cup {Null}, username : Claims \cup {Null}]

KeySets == [keys : SUBSET Keys, age : 0..CacheAge]

Answers == [status : {401, 500, 503}]
           \cup [status : {200}, externalId : Claims, username : Claims]

ASSUME AgesAssumption == CacheAge \in Nat \ {0} /\ Cooldown \in 0..CacheAge
ASSUME RotationsAssumption == MaxRotations \in Nat
ASSUME TokensAssumption == Tokens \subseteq Token
ASSUME NullAssumption == Null \notin Tokens \cup KeySets \cup Answers

VARIABLES
    env,        \* process.env, as far as external-auth.config reads it
    config,     \* what the config makes of it at boot
    published,  \* keys the provider's endpoint lists
    rotations,  \* how often that has changed
    jwks,       \* ExternalAuthService.jwks: the keys and their age, or Null
    fetch,      \* the fetch jose has under way, and the keys in its answer
    request,    \* the token of each exchange, Null before it arrives
    waiting,    \* exchanges that wait for the fetch
    answer,     \* what verify made of each, Null until it has
    (* History: read by properties only.                                   *)
    retired,    \* ticks since a key was last listed, counted to CacheAge
    heard,      \* ticks since the fetch that listed a key, if the last did
    excuse      \* exchanges the provider gave a reason to refuse

providerVars == <<published, rotations, retired>>
envVars == <<env, config>>
vars == <<envVars, providerVars, jwks, fetch, request, waiting, answer, heard, excuse>>

-----------------------------------------------------------------------------
(* external-auth.config *)
Missing == Text("empty")

AuthProvider == {"LOCAL", "CLERK", "GOOGLE"}

\* registerAs throws, and the process exits, for a provider that is no AuthProvider.
ConfigLoads(e) == e.provider \in AuthProvider

ExternalAuthConfig(e) == [jwksUrl           |-> OptionalEnv(e.jwksUrl, Missing),
                          issuer            |-> OptionalEnv(e.issuer, Missing),
                          authorizedParties |-> EnvList(e.authorizedParties, {}),
                          audience          |-> OptionalEnv(e.audience, Missing)]

-----------------------------------------------------------------------------
IsEnabled == config.jwksUrl # Missing /\ config.issuer # Missing

(* jwtVerify once the key is found: signature, life time, issuer, and the   *)
(* audience where one is configured.                                        *)
JwtVerified(t) ==
    /\ t.live
    /\ t.iss = "ours"
    /\ config.audience # Missing => t.aud = "ours"

(* Mutant: a token without an azp passes.                                   *)
AuthorizedPartyIfNamed(t) ==
    config.authorizedParties = {} \/ t.azp \in config.authorizedParties \cup {Null, ""}

AuthorizedParty(t) ==
    config.authorizedParties = {} \/ t.azp \in config.authorizedParties \ {""}

ToIdentity(t) ==
    IF t.sub \in {Null, ""} \/ t.username \in {Null, ""} THEN [status |-> 401]
    ELSE [status |-> 200, externalId |-> t.sub, username |-> t.username]

\* The outcome of verify, once jose has the keys it is going to use.
Decide(t, keys) ==
    IF t.key \in keys /\ JwtVerified(t) /\ AuthorizedParty(t)
    THEN ToIdentity(t) ELSE [status |-> 401]

-----------------------------------------------------------------------------
(* createRemoteJWKSet *)
NewKeySet == [keys |-> {}, age |-> CacheAge]

(* Mutant: a key set per call.                                              *)
KeySetPerCall == NewKeySet

KeySet == IF jwks = Null THEN NewKeySet ELSE jwks

(* Mutant: keys once fetched are good for ever.                             *)
FreshForEver(set) == set.keys # {}

Fresh(set) == set.age < CacheAge

CoolingDown(set) == set.age < Cooldown

-----------------------------------------------------------------------------
NoFetch == [state |-> "none", keys |-> {}]

TypeOK ==
    /\ env \in Environments /\ config = ExternalAuthConfig(env)
    /\ published \in SUBSET Keys
    /\ rotations \in 0..MaxRotations
    /\ jwks \in KeySets \cup {Null}
    /\ fetch \in [state : {"none", "asked", "answered"}, keys : SUBSET Keys]
    /\ request \in [Requests -> Tokens \cup {Null}]
    /\ waiting \in SUBSET {r \in Requests : request[r] # Null /\ answer[r] = Null}
    /\ answer \in [Requests -> Answers \cup {Null}]
    /\ retired \in [Keys -> 0..CacheAge] /\ heard \in [Keys -> 0..CacheAge]
    /\ excuse \in SUBSET Requests

Init ==
    /\ env \in {e \in Environments : ConfigLoads(e)}
    /\ config = ExternalAuthConfig(env)
    /\ published \in SUBSET Keys
    /\ rotations = 0
    /\ jwks = Null
    /\ fetch = NoFetch
    /\ request = [r \in Requests |-> Null]
    /\ waiting = {}
    /\ answer = [r \in Requests |-> Null]
    /\ retired = [k \in Keys |-> IF k \in published THEN 0 ELSE CacheAge]
    /\ heard = [k \in Keys |-> CacheAge]
    /\ excuse = {}

-----------------------------------------------------------------------------
(* verify, up to its await: disabled, with a URL that is none, answered     *)
(* from the keys at hand, refused without a fetch, or left to wait for one. *)
Answer(r, t, result) ==
    /\ request[r] = Null
    /\ request' = [request EXCEPT ![r] = t]
    /\ answer' = [answer EXCEPT ![r] = result]
    /\ UNCHANGED <<envVars, providerVars, fetch, waiting>>

VerifyDisabled(r, t) ==
    /\ ~IsEnabled
    /\ Answer(r, t, [status |-> 503])
    /\ UNCHANGED <<jwks, heard, excuse>>

VerifyWithoutUrl(r, t) ==
    /\ IsEnabled /\ config.jwksUrl.form # "url"
    /\ Answer(r, t, [status |-> 500])
    /\ UNCHANGED <<jwks, heard, excuse>>

Ready == IsEnabled /\ config.jwksUrl.form = "url"

VerifyCached(r, t) ==
    /\ Ready /\ Fresh(KeySet) /\ t.key \in KeySet.keys
    /\ jwks' = KeySet
    /\ Answer(r, t, Decide(t, KeySet.keys))
    /\ UNCHANGED <<heard, excuse>>

VerifyCoolingDown(r, t) ==
    /\ Ready /\ Fresh(KeySet) /\ t.key \notin KeySet.keys /\ CoolingDown(KeySet)
    /\ jwks' = KeySet
    /\ Answer(r, t, [status |-> 401])
    /\ excuse' = excuse \cup {r}
    /\ UNCHANGED heard

VerifyFetching(r, t) ==
    /\ Ready /\ request[r] = Null
    /\ \/ ~Fresh(KeySet)
       \/ t.key \notin KeySet.keys /\ ~CoolingDown(KeySet)
    /\ jwks' = KeySet
    /\ fetch' = IF fetch = NoFetch THEN [fetch EXCEPT !.state = "asked"] ELSE fetch
    /\ request' = [request EXCEPT ![r] = t]
    /\ waiting' = waiting \cup {r}
    /\ excuse' = IF t.key \in published
                    /\ (fetch.state = "answered" => t.key \in fetch.keys)
                 THEN excuse ELSE excuse \cup {r}
    /\ UNCHANGED <<envVars, providerVars, answer, heard>>

-----------------------------------------------------------------------------
(* The fetch: the provider answers, and the answer arrives; or it does not, *)
(* for good or in time, and every exchange that waits is refused.           *)
ProviderAnswers ==
    /\ fetch.state = "asked"
    /\ fetch' = [state |-> "answered", keys |-> published]
    /\ UNCHANGED <<envVars, providerVars, jwks, request, waiting, answer, heard, excuse>>

KeysArrive ==
    /\ fetch.state = "answered"
    /\ jwks' = [keys |-> fetch.keys, age |-> 0]
    /\ answer' = [r \in Requests |-> IF r \in waiting THEN Decide(request[r], fetch.keys)
                                                      ELSE answer[r]]
    /\ fetch' = NoFetch
    /\ waiting' = {}
    /\ heard' = [k \in Keys |-> IF k \in fetch.keys THEN 0 ELSE CacheAge]
    /\ UNCHANGED <<envVars, providerVars, request, excuse>>

(* Mutant: only the exchange that asked for the fetch hears of its failure. *)
FetchFailsForOne ==
    /\ fetch # NoFetch
    /\ \E r \in waiting : /\ answer' = [answer EXCEPT ![r] = [status |-> 401]]
                          /\ waiting' = waiting \ {r}
                          /\ excuse' = excuse \cup {r}
    /\ fetch' = NoFetch
    /\ UNCHANGED <<envVars, providerVars, jwks, request, heard>>

FetchFails ==
    /\ fetch # NoFetch
    /\ answer' = [r \in Requests |-> IF r \in waiting THEN [status |-> 401]
                                                      ELSE answer[r]]
    /\ fetch' = NoFetch
    /\ waiting' = {}
    /\ excuse' = excuse \cup {r \in waiting : heard[request[r].key] = CacheAge}
    /\ UNCHANGED <<envVars, providerVars, jwks, request, heard>>

Publish(k) ==
    /\ rotations < MaxRotations /\ k \notin published
    /\ published' = published \cup {k}
    /\ rotations' = rotations + 1
    /\ retired' = [retired EXCEPT ![k] = 0]
    /\ UNCHANGED <<envVars, jwks, fetch, request, waiting, answer, heard, excuse>>

Retire(k) ==
    /\ rotations < MaxRotations /\ k \in published
    /\ published' = published \ {k}
    /\ rotations' = rotations + 1
    /\ excuse' = excuse \cup {r \in waiting : request[r].key = k}
    /\ UNCHANGED <<envVars, retired, jwks, fetch, request, waiting, answer, heard>>

Older(ticks) == IF ticks < CacheAge THEN ticks + 1 ELSE CacheAge

\* A fetch ends, one way or the other, within a tick.
Tick ==
    /\ fetch = NoFetch
    /\ jwks' = IF jwks = Null THEN Null ELSE [jwks EXCEPT !.age = Older(@)]
    /\ retired' = [k \in Keys |-> IF k \in published THEN 0 ELSE Older(retired[k])]
    /\ heard' = [k \in Keys |-> Older(heard[k])]
    /\ UNCHANGED <<envVars, published, rotations, fetch, request, waiting, answer, excuse>>

Verify(r, t) ==
    \/ VerifyDisabled(r, t) \/ VerifyWithoutUrl(r, t) \/ VerifyCached(r, t)
    \/ VerifyCoolingDown(r, t) \/ VerifyFetching(r, t)

Next ==
    \/ \E r \in Requests, t \in Tokens : Verify(r, t)
    \/ ProviderAnswers \/ KeysArrive \/ FetchFails
    \/ \E k \in Keys : Publish(k) \/ Retire(k)
    \/ Tick

Spec == Init /\ [][Next]_vars

(* jose gives a fetch up after five seconds, so each ends.                  *)
FairSpec == Spec /\ WF_vars(KeysArrive \/ FetchFails)

-----------------------------------------------------------------------------
(* Properties *)

Accepted(r) == answer[r] # Null /\ answer[r].status = 200

(* Whoever is let in presented a live token of this issuer, for this        *)
(* audience and one of these parties where such are configured, and is      *)
(* known by its subject and its username claim, never by one for the other. *)
OnlyTheProvidersUsers ==
    \A r \in Requests : Accepted(r) =>
        LET t == request[r]
            parties == {env.authorizedParties[i] : i \in DOMAIN env.authorizedParties}
        IN /\ t.live /\ t.iss = "ours"
           /\ ~IsBlank(env.audience) => t.aud = "ours"
           /\ parties \subseteq {""} \/ t.azp \in parties \ {""}
           /\ answer[r].externalId = t.sub /\ answer[r].username = t.username
           /\ t.sub \notin {Null, ""} /\ t.username \notin {Null, ""}

(* A key the provider has withdrawn signs nobody in once the cache is as    *)
(* old as it may get, however often tokens of it are presented meanwhile.   *)
RetiredKeysAreForgotten ==
    [][\A r \in Requests :
           Accepted(r)' /\ answer[r] = Null => retired[request'[r].key] < CacheAge]_vars

(* A token in order is refused only if its fetch failed, its key was not    *)
(* listed throughout, or the keys are too new to ask again: in particular   *)
(* an outage of the provider refuses nobody whose key is in the cache.      *)
RefusalHasACause ==
    \A r \in Requests :
        answer[r] # Null /\ answer[r].status = 401 =>
            \/ r \in excuse
            \/ ~JwtVerified(request[r]) \/ ~AuthorizedParty(request[r])
            \/ ToIdentity(request[r]).status = 401

(* An exchange that waits for the provider is answered, reachable or not.   *)
EveryExchangeIsAnswered ==
    \A r \in Requests : request[r] # Null ~> answer[r] # Null
=============================================================================
