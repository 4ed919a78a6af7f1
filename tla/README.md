# TLA+ models of the NestJS base repository

This directory holds a verification project for the API under `src/`: TLA+
modules of its core logic, TLC runs over small instances, and theorems checked
by TLAPS for every value of the constants. Paths below are relative to the root
of the repository (`src/auth/auth.service.ts` is the service, `README.md:106` a
line of the repository's own README).

Reading order: `SessionLedger` and `RefreshTokens` (sessions), `Sessions` (the
clients, roles and access tokens around them), `Accounts` and `ExternalAuth` (who
is let in), `SignedRequests` (the middleware in front of all), `Env` and `Server`
(boot and health), `FileNames` and `MediaStore` (uploads); then the `*Proofs`
modules.

## 1. The system and its parts

One Node.js process (or several behind a balancer) serves HTTP. Between two
`await`s a handler runs alone; at an `await` any other handler may run. All
lasting state is in two SQL tables, `users` and `refresh_tokens`. The only
caller meant to reach the API is a backend-for-frontend (BFF) that signs its
requests. A request goes through `SecurityMiddleware`, the rate limiter, the
guards and a handler; whatever is thrown is shaped by `ErrorFilter`.

| Component | State | Operations | Hard behaviour | What makes it correct |
| --- | --- | --- | --- | --- |
| **Refresh tokens** `src/auth/auth.service.ts` | rows of `refresh_tokens`: user, hash, expiry, `revokedAt`, `replacedById` | `issueTokens`, `refresh` (find, claim, create, chain), `logout`, `revokeAllForUser` | every statement interleaves with those of other requests; a statement fails or the process dies half way through a rotation; a token is presented twice | one good token per session; what is dead stays dead; a replay is seen; revoking a session ends it |
| **Cleanup** `src/auth/refresh-token-cleanup.service.ts` | the same rows | `removeExpired`, nightly, errors caught | deletes under the feet of a rotation; bound of the comparison | removes all expired rows, and no row that is still needed |
| **Accounts** `src/auth/auth.service.ts`, `auth.controller.ts`, `auth.validation.ts` | rows of `users`, unique on `username` and on `externalId` | `register` (count, hash, create), `login` (find, compare), `linkExternalUser` (upsert) | check-then-act around slow awaits; a login decides on a row read earlier; two unique indexes and an upsert that resolves one | who is let in proved to own the account; one registration of a name; an external identity keeps its row; logins change no role and no credential |
| **Access tokens and guards** `src/auth/jwt.strategy.ts`, `guards/` | none in the API: a signed JWT with id, name, role and expiry | `signAccessToken`, `validate`, `RolesGuard.canActivate` | the role is the one read at refresh; nothing revokes an access token | a role change or logout takes effect when the token expires, not later |
| **External token verification** `src/auth/external-auth.service.ts` | the key set `jose` caches | `verify`, `assertAuthorizedParty`, `toIdentity` | exchanges share a fetch and its failure; keys rotate under the cache; the provider is out of reach | a wrong issuer, audience or party is refused; a good token is refused only with a cause; a withdrawn key is forgotten |
| **Signed requests** `src/middleware/security.middleware.ts` | per process: the accepted `APP_KEY`s and `APP_SECRET`s, read at start | `use` | delay, repetition, clock skew, altered content; rotation of both credentials over several processes | what passes is what was signed, recently; a rotation locks nobody out |
| **Error responses** `src/common/error.filter.ts` | none | `catch`, `describe` | an error that is not an `HttpException` | every error has one shape; of an unexpected one nothing is passed on |
| **Health check** `src/healthy_check/` | the connection pool behind it | `checkDatabase`: query against a 3 s timer | the loser of the race goes on and holds a connection, or its place in the queue for one | always answers; a 200 and a 503 are both first hand; recovers with the database |
| **Media storage** `src/common/r2.service.ts` | objects in a bucket | `uploadFile`, `deleteFile` | the key goes into a URL and is parsed back out of it; the bucket may have done what it failed to answer | what was uploaded stays until its own URL is deleted, and can be deleted; nothing else is |
| **Configuration** `src/common/env.ts`, `src/auth/config/`, `src/config/` | values read at start | `requireEnv`, `envNumber`, `envToggle`, `envList`, the registered configs | values that are accepted at start and fail later | a bad value fails at start, and never turns into a default |
| **Database client** `src/common/prisma.service.ts` | the pool | set-up, query log | the pool, see health check | the pool is in `Server`; query log and disconnect are I/O |
| **Rate limiting** `src/app.module.ts` | counters in the library | limits per route | library code | not modelled |
| **Bootstrap** `src/main.ts`, `*.module.ts` | booting, listening or exited | reads the environment, listens | a mistyped variable | what boot refuses is in `Server`; wiring, Swagger, CORS are not |
| **Dates, text, example module** `src/utils/`, `src/example/` | none | `getDateRange` and presentation | local time zone | a range starts before it ends; not modelled |

How they meet: `register`, `login` and `external/session` (Accounts) end in
`issueTokens` (Refresh tokens); a refresh reads the user row for the access
token it signs; a replay or a logout from everywhere revokes rows of
`refresh_tokens` only, and access tokens outlive both. The cleanup shares the
table with every handler. `external/session` asks `ExternalAuthService.verify`
first and goes on to the upsert with the identity it returns. The middleware
comes before all of them and shares no state with them. The health check shares
the connection pool with every handler. Whatever throws ends in `ErrorFilter`.

`PROJECT.json` lists the hazards of this code one by one, each at its line, with
the properties that cover it or the reason why none does yet.

## 2. Modules, and how they correspond to the code

| Module | What it is |
| --- | --- |
| `SessionLedger` | abstract specification: a session is unopened, active, in handover, or over |
| `RefreshTokens` | the table, the handlers that work on it, the cleanup, the clock |
| `RefreshTokensProofs` | the inductive invariant of `RefreshTokens`, its safety theorems, that it implements `SessionLedger`, and that a session is one line of tokens |
| `Sessions`, `SessionsProofs` | `RefreshTokens` composed with clients, a network that loses answers, roles, access tokens and the guards; its proofs |
| `Accounts`, `AccountsProofs` | the users table and its handlers; their proofs |
| `Env` | the readers of environment variables |
| `ErrorFilter` | what a caller is told of an exception |
| `ExternalAuth`, `ExternalAuthProofs` | verification of a provider's tokens, with jose's cache of its keys; their proofs |
| `Server`, `ServerProofs` | boot, and health checks over a connection pool; their proofs |
| `FileNames` | what `sanitizeFilename` makes of the name of a file |
| `MediaStore`, `MediaStoreProofs` | uploads to a bucket and deletes by URL; their proofs, and those of `FileNames` |
| `SignedRequests`, `SignedRequestsProofs` | the middleware, its callers and the rotation; their proofs |
| `SetInduction` | induction over the numbers, stated about sets, for the proofs |
| `MC*` | what the runs of a module need: symmetry sets, and the inputs it is given |

Conventions shared by the modules:

- **One await, one action.** An action is one SQL statement (or `bcrypt`) with
  the code that follows it up to the next await or the answer. `pc[r]` names the
  await a request is at, or the status it answered. A handler that stops early
  is an action of its own, with the code's condition as its guard.
- **Statements are atomic, handlers are not.** The code opens no transaction, so
  neither do the models. `updateMany` with a `where` is one conditional write;
  the upsert is `INSERT ... ON CONFLICT (external_id) DO UPDATE`, whose other
  unique index still fails.
- **`Abort`** is a statement that fails or a process that dies. What earlier
  statements wrote stays. A lost answer needs no action of its own: the answer
  is already given, and another request may present the same token.
- **Requests** are handled once each; a client that retries is another request.
  Validation has already passed, so bodies are members of small sets.
- **History variables** are read by properties, by the choice of a fresh token,
  and by the rule that a client presents only what some answer carried; no
  branch of the code depends on them.
- **Mutants.** Definitions marked "Mutant" are plausible mistakes, unused by the
  specification. Each is put in place of the definition that follows it to show
  that some property would notice.

### RefreshTokens

`rows` is the table; a token stands for its row id and hash, since `randomBytes`
makes it fresh and SHA-256 tells two tokens apart. `revoked` abstracts
`revokedAt`, `replacedBy` is `replacedById`. `now` is the clock; a `Date` computed
just before a statement is the clock at the statement. `stored[r]` is the row
that `findUnique` returned (id and user are all that is used after an await),
`issued[r]` the token the request inserted. `birth` keeps what a token was issued
as, with the *session* it belongs to: the token of the login that started the
chain. `delivered` holds the tokens that an answer carried; only those can be
presented.

| Action | Code |
| --- | --- |
| `IssueTokens` | `issueTokens` and `createRefreshToken`, reached by login, register and external/session |
| `RefreshUnknown`, `RefreshReused`, `RefreshExpired`, `RefreshFresh` | `refresh` up to its second await: no row, revoked, expired, fit to be claimed |
| `RefreshClaim`, `RefreshClaimLost` | the conditional `updateMany` and its count |
| `RefreshCreate` | the insert of the next token |
| `RefreshChain`, `RefreshChainMissing` | the update of `replacedById`; the row may be gone, and then Prisma throws |
| `RefreshSweep`, `LogoutAll` | `revokeAllForUser`, after a replay or from `logout-all` |
| `Logout` | `logout` |
| `RemoveExpired` | the nightly `deleteMany` |

The session is in the hands of one *holder* at a time: an unrevoked row, or one
rotation between its claim and its insert. `SessionLedger` says just that, with
`Close` for everything that ends sessions and `FailHandover` for a rotation that
fails after its claim. `Phase` is the refinement mapping.

### Accounts

`users` is the table, `ask[r]` the body of a request, `user[r]` the row the
handler holds in its local variable, as its query returned it. A password stands
for its hash, and `DummySecret` for whatever `DUMMY_HASH` is the hash of, so that
a request may happen to match it. `register` counts, then creates;
`RegisterCollides` is the unique index refusing the create, which is an error
like any other and answered 500. `LoginFind` reads, and `LoginAccepted` /
`LoginRefused` decide on what was read, whatever has become of the row.
`UpsertInserts`, `UpsertUpdates` and `UpsertCollides` are the outcomes of the one
upsert. `SetRole` is an administrator outside this code: nothing in it writes a
role after the insert. The session itself is left to `RefreshTokens`.

### SignedRequests

`use` has no await, so `Pass` and `Refuse` take a message through the whole of
it. `slots` is what each process read at its start, `uses` what each caller signs
with. An HMAC is the pair of the secret and the canonical text. A message
carries what was signed (date and content) and what arrives, because the two
differ when a body is serialised twice, a proxy rewrites a path, or the
`x-timestamp` sent is not the one in the canonical string; `Redated` is the set of
other dates it may then have. `ahead` remembers the messages whose caller dated
them in the future. A
message stays on the wire: it may be delivered never, late, or repeatedly, to any
server. `Trusted` stands for the address and `User-Agent` checks. `AddValue`,
`SwitchCaller` and `DropPrevious` are the operator's deploys, external to the
code, in the order of the rotation table, but to one process at a time.
Enforcement is on; the bypass for testing checks nothing and is left out.

### Sessions

The variables and actions of `RefreshTokens` with those of its surroundings: each
client keeps one refresh token (`holds`) and waits for one request (`asks`) at a
time. `read[r]` is the user row a handler got from its query, `access[r]` the
JWT it signed from that row after its last await, with the role *as read* and
an expiry. `JwtAuthGuard` looks at the expiry and `RolesGuard` at the role in the
token; neither asks the database, so a role change and a logout are seen only
when a token runs out. Every handler step is written as a step of `RefreshTokens`
with what the surroundings add to it, so the table's theorems carry over (lemma
`TableSpecHolds`). As everywhere, an action is an awaited statement with the code
after it: `LoginIssue` is the insert and the signing that follows it
(`auth.service.ts:243-246`). `signAsync` suspends as well, but reads and writes
nothing that another request can see; its expiry is taken at that step.

| Action | Code |
| --- | --- |
| `LoginFind`, `LoginIssue` | `login` or another way in: the row, then `issueTokens`, which signs |
| `RefreshFind`, `RefreshRotate`, `RefreshAnswer`, `RefreshTearDown` | `refresh`: `findUnique` with its user; claim, insert; chain and sign; the sweep after a replay |
| `RequestFails` | a statement that fails, or a process that dies |
| `ClientLogout`, `ClientLogoutAll` | `logout`; `logoutAll` behind `JwtAuthGuard` |
| `Receive`, `LoseAnswer` | external: the client gets its answer, or gives up waiting and may try again |
| `SetRole` | external: an administrator |

Clients are honest: each presents only what it was given, one request at a time.
Dishonest ones are in `RefreshTokens`, where any delivered token may be presented
by anybody.

### Env and ErrorFilter

Pure operators. A value of the environment is its *form* (unset, empty, blank, a
toggle, a number, a duration, a URL, the name of a provider, or a word that is
none of these) and an amount counted in halves, so that a number may be
fractional; `ToNumber` is JavaScript's `Number`, which makes 0 of blanks; `Throws` is the Error that ends boot.
`SignedLifetime` is what `jsonwebtoken` makes of `JWT_EXPIRE_IN`. `Describe` is the
whole of `ErrorFilter.describe`; texts are kept as far as they differ in where
they come from.

### ExternalAuth

`config` is what `external-auth.config` makes of the environment at boot; a
provider that is none keeps the process from starting. `jwks` is the field of the
service with what `createRemoteJWKSet` keeps in it: keys and their age. `verify`
is five actions, by how far it gets before its await: `VerifyDisabled` (503),
`VerifyWithoutUrl` (`new URL` throws, 500), `VerifyCached`, `VerifyCoolingDown`
(a key that is not listed, and too soon to ask again) and `VerifyFetching`, which
waits for the one fetch under way. `KeysArrive` and `FetchFails` answer everyone
who waits. `Decide` is the rest of `verify`: `jwtVerify` with the options the code
gives it, `assertAuthorizedParty` and `toIdentity`. The cache's ages and the
cooldown are jose's, external to `src/`.

### Server

`Boots` is what bootstrap reads, module by module; anything that throws ends the
process. `Port` goes by what `Number` makes of `PORT` and by what `listen` accepts,
0 (any free port) included. `settings` is what a process that did boot goes by:
the numbers, toggles, token lifetime and port it read. A check puts a query in line and starts its timer (`Ask`); the query gets
a connection (`Connect`), and the race ends with `QueryAnswers`, `QueryFails` or
`TimerFires`. `finally` clears the timer, but nothing cancels the query: it stays
as an *orphan*, on a connection or in the queue, until the database answers it
(`OrphanEnds`). `ConnectionDies` is a peer that is gone without a word, whose
connection the pool counts as in use until the operating system gives it up. The
database answers, fails, or hangs, and changes between them. `sawUp` and `excuse`
record what happened during a check.

Time is coarse: a database that answers does so within a tick, so `Tick` waits for
the queries it can answer, those left over from earlier checks included. That is
an assumption about the database, not something the code ensures: one so slow that
leftovers hold the pool for longer than `DB_TIMEOUT_MS` counts as one that hangs.

### FileNames and MediaStore

A file name is a sequence of character classes, and `SanitizeFilename` does to it
what the chain of `replace`s does: it keeps the last path segment (`Base`),
decomposes (NFKD makes three dots of an ellipsis), replaces, collapses, strips and
cuts. `CleanName` says what such a name is like, `PlainName` that a name holds no
two dots in a row, nor a character for several. In `MediaStore` a
key is one path segment that carries the upload's uuid and the cleaned name; a
URL is an origin and a path of segments, or a word that does not parse.
`UploadRefused` and `UploadFile` are `uploadFile` up to its await, in the code's
order: first the file, then the settings. `PutAnswered` / `PutFails` end it and
`ObjectStored` is the bucket, which may store before a failure, or twice if the
SDK tries again. `DeleteFile`, `ObjectDeleted` and `DeleteFails` are the same for
`deleteFile`, which finds the key in the URL with `ExtractKeyFromUrl`; its 400 (not
a URL of this bucket) and its 500 (no settings, or a base that is no URL) are both
`"refused"`, since either way nothing is sent.

## 3. Runs

| Run | Module, config | Checks | Shows |
| --- | --- | --- | --- |
| `refresh_tokens` | `MCRefreshTokens.cfg` | `TypeOK`, `OneLiveTokenPerSession`, `EachTokenIsRotatedOnce`, `ReplayStaysDetectable`, `AnsweredRotationIsChained`, `EndedSessionsStayEnded`, `DeadTokensStayDead`, `RevocationStaysWithinOneUser`, `ImplementsLedger`, `ExpiredRowsAreRemoved` | hold over all interleavings of three requests of two users, logouts, cleanups, failures |
| `sessions` | `MCSessions.cfg` | `DemotionTakesEffect`, `LogoutTakesEffect`, `TearDownHasACause`, `HeldTokensStayGood` | hold with two clients of a user that lose answers, retry, refresh and log out while the role changes |
| `accounts` | `MCAccounts.cfg` | `TypeOK`, `SessionsProveIdentity`, `RegistrationsAreDistinct`, `ExternalIdentityKeepsItsRow`, `OneWayIn`, `CutOffRegistrationsCanLogIn`, `LoginsOnlyRefreshNames` | hold over all interleavings of three requests of any kind |
| `external_auth` | `MCExternalAuth.cfg` | `OnlyTheProvidersUsers`, `RefusalHasACause`, `RetiredKeysAreForgotten`, `EveryExchangeIsAnswered` | hold while keys rotate, the provider is out of reach and exchanges share fetches |
| `signed_requests` | `MCSignedRequests.cfg` | `PassedIsWhatWasSigned`, `SignaturesExpire`, `OnlyOvertakenAreRefused` | hold through a rotation of both credentials, for callers whose clocks are off and requests altered on the way |
| `server` | `MCServer.cfg` | `TypeOK`, `UpIsFirstHand`, `NoFalseAlarm`, `ListeningIsConfigured`, `AccessTokensLast`, `EveryCheckIsAnswered`, `RecoversWithTheDatabase` | hold from every environment with one variable amiss, over a database that fails, hangs and recovers |
| `media` | `MCMediaStore.cfg` | `UrlsLeadBack`, `PlainNamesAreDeletable`, `UploadsKeepTheirContent`, `DeletesHitTheirUrl` | hold for two uploads and two deletes over a bucket that fails; every name of up to five characters is cleaned, and left alone if it is clean |
| `sweep_misses_rotation` | `MCRefreshTokensSweep.cfg` | `SweepEndsEverySession` (violated) | finding 1 |
| `reuse_without_rotation` | `MCRefreshTokensReuse.cfg` | `ReuseMeansRotated` (violated) | finding 2 |
| `duplicate_registration` | `MCAccountsDuplicate.cfg` | `DuplicateIsConflict` (violated) | finding 3 |
| `first_login_collides` | `MCAccountsProvision.cfg` | `FirstLoginProvisions` (violated) | finding 4 |
| `switch_overtakes_request` | `MCSignedRequestsSwitch.cfg` | `NothingOutlivesTheSwitch` (violated) | finding 5 |

### Bounds, and why they are enough

- `RefreshTokens`: a lifetime of one tick and a clock that goes to 2 let a token
  be live, expire exactly, and be past its expiry; one tick separates the two
  comparisons with the expiry (`<=` in `refresh`, `<` in the cleanup). Three
  requests and three tokens give one session with two concurrent refreshes, or
  two sessions of two users and a refresh of one, which is what a race, a replay,
  a sweep and a mix-up of users need. No symmetry, because the run checks
  liveness; 430 000 states.
- `Sessions`: one user with two clients, three requests and tokens, two roles;
  both lifetimes one tick, so that access tokens and refresh tokens run out
  within the clock. Two clients are what a logout-all, a lost answer or a sweep
  needs to reach another session. 245 000 states.
- `Accounts`: three requests over two names and two external ids give two
  registrations of one name with a login or an external login between, and two
  logins of one identity with another account in the way. Two secrets, one of
  them the dummy.
- `ExternalAuth`: two overlapping exchanges, so that one waits for the fetch of
  the other; two keys with two changes to what is listed, so that one may come
  while another goes; a cache of two ages with a cooldown of one, so that a key
  set is cooling down, fresh, and old. Tokens in order under either key, and four
  with one claim that is not; six environments. 201 000 states.
- `Server`: two checks over two connections with a queue of two, so that
  leftovers of one check fill the pool and the queue in front of the next; two
  changes of the database are one outage and its end. The environment of
  `example.env` with one variable at a time amiss: blank, mistyped, negative, zero or
  fractional, a port beyond 16 bits, a provider that is none; and numbers other
  than the defaults, so that what was written can be told from what is assumed.
  225 000 states.
- `MediaStore`: two uploads and two deletes, nine files (a name with a path, with
  two dots, with an ellipsis, of dots only, with two dots that are apart; empty,
  too large, of another type), six settings, and URLs with another path, another
  origin, or no form of URL. Names are cut to four characters. 128 000 states. An
  `ASSUME` of `MCMediaStore` goes through all names of up to five characters of
  all classes, so that one may be cut.
- `SignedRequests`: one window is one tick, a clock is off by two at most, and
  the clock runs three ticks on from the start, past two windows: enough for a
  request dated in the future to pass at the first and at the last moment it may,
  and after. One rotation of each credential, in any relative order, over two
  servers and two callers, one of them not trusted. Messages do not interact, so
  one is enough. A request arrives with its own date or one other (`Redated`),
  which may lie in its future, in its past, or be its own. 515 000 states.

`MaxTime`, `MaxSkew` and `MaxVersion` bound counters, in the guards of `Tick`,
`Send` and `Rotate`; `MaxQueue`, `MaxChanges` and `MaxRotations` those of `Ask`,
`DatabaseChanges`, and `Publish` and `Retire`; a role changes once per user.
Nothing else is bounded but by the sets. `CacheAge` is not a bound: an age counts
no further because nothing changes beyond it.

Requests, tokens, ids, names, servers and bodies are used only by identity, so
the runs with invariants and action properties take symmetry over them. Where a
set has members that are told apart (secrets, callers, users) it is not in the
symmetry.

Deadlock is checked for `RefreshTokens`, where the cleanup can always run. The
requests of `Accounts`, `Sessions` and `ExternalAuth` are handled once each and
run out, and so do the clock and the messages of `SignedRequests` and the uploads
of `MediaStore`; a `Server` whose environment is refused has exited: their configs
say `CHECK_DEADLOCK FALSE`.

### Fairness

Nothing is assumed of requests: clients may stop, and a handler may die at any
await. What the liveness properties rest on:

- `ExpiredRowsAreRemoved`: weak fairness of `RemoveExpired`. The job is scheduled
  every night, for as long as the process lives, and a run that fails is caught
  and followed by the next (`refresh-token-cleanup.service.ts:29`), so a row that
  stays expired meets a run that succeeds unless all runs fail.
- `EveryExchangeIsAnswered`: weak fairness of `KeysArrive \/ FetchFails`, together:
  jose gives up a fetch after five seconds, so each ends one way or the other.
  That the provider answers is not assumed.
- `EveryCheckIsAnswered`, `RecoversWithTheDatabase`: time passes (strong fairness of
  `Tick`, because other steps may interrupt it for ever), the event loop serves the
  queue, and the race of a check whose query has been answered, or whose timer is
  due, is settled. A query the database can answer ends, orphan or not
  (`OrphanEnds`); of one that hangs nothing is assumed, nor that the database ever
  comes back, nor that a dead connection is given up.

### Findings

1. A refresh between its claim and its insert when its user's sessions are
   revoked, by a replay or by `logout-all`, inserts its token afterwards, and the
   session goes on. `README.md:106` and `README.md:115-117` say that every session
   is revoked. What does hold is `EndedSessionsStayEnded`: a session with no
   rotation in that gap stays ended.
2. `refresh` takes any revoked row for a captured copy
   (`auth.service.ts:172`); a token that was logged out of, or swept, and is
   presented once more ends all the other sessions of its user. There is no
   further case: `TearDownsAreProvoked` says that a request which sweeps found a
   token that was claimed, logged out of or swept.
3. Two registrations of a name that both count zero: the loser is answered 500,
   not the 409 of `test/auth.local.spec.ts:77`.
4. A first external login whose username another account holds is answered 500
   and provisions no account, at every attempt; `README.md:150` says users are
   provisioned on first login.
5. A request in flight when its caller switches credentials is refused once the
   old value is dropped; `README.md:280-281` says that nothing outlives the switch
   and no wait is needed.

What was seen besides, without a run of its own:

- `README.md:207` says that `SIGNATURE_WINDOW_SECONDS` is how long an `x-signature`
  stays valid. `security.middleware.ts:129` allows that distance to either side of
  the timestamp, so a request dated by a clock that runs a window ahead is let
  through at once and until its date is a window old: for twice as long.
  `SignaturesExpire` says what does hold, and when: one window if the caller's clock
  was not ahead, two at most if it was, however far. (TLC shows the README's claim
  to fail in five steps if `m \in ahead` is taken out of that property.)
- `README.md:302` says that `errors` is `null` for 5xx; the 503 of the health check
  is an `HttpException` with a body, and `describe` passes its `errors: {database}`
  on (`Unhealthy`).
- A `PORT` of blanks passes `requireEnv`, `Number` makes 0 of it (`main.ts:71`), and
  the server listens on a port of the system's choosing. `ListeningIsConfigured`
  names it; every other mistyped `PORT` keeps the server from listening.
- `JWT_EXPIRE_IN` of `0.5` boots and then fails at every signature; `0s` boots and
  signs tokens that have expired, while `README.md:203` says that a value that is
  not a positive number throws at boot. `AccessTokensLast` names both.
- An object whose cleaned name has two dots in a row is refused by `deleteFile`,
  and so is every object if `R2_MEDIA_URL` is no URL, which uploads do not notice.
  `UrlsLeadBack` names both.
- A list variable of nothing but separators is an empty list, not the default:
  any party, or any type of file, is then accepted.

## 4. Theorems

All are of the form `Spec => []P`, `Spec => [][A]_vars` or a refinement, but for
three that are about names of files, of any length. They hold for any
sets of users, clients, tokens, requests, keys, callers, servers, messages, checks,
uploads and environments, and any bounds.

| Theorem | Establishes |
| --- | --- |
| `RefreshTokensProofs!TypeCorrect` | `TypeOK` |
| `RefreshTokensProofs!OneLiveToken` | `OneLiveTokenPerSession` |
| `RefreshTokensProofs!RevocationIsFinal` | `EndedSessionsStayEnded` |
| `RefreshTokensProofs!ReplayIsDetectable` | `ReplayStaysDetectable` |
| `RefreshTokensProofs!RotationIsChained` | `AnsweredRotationIsChained` |
| `RefreshTokensProofs!DeathIsFinal` | `DeadTokensStayDead` |
| `RefreshTokensProofs!RevocationIsTheUsersOwn` | `RevocationStaysWithinOneUser` |
| `RefreshTokensProofs!TokensAreRotatedOnce` | `EachTokenIsRotatedOnce` |
| `RefreshTokensProofs!TableImplementsLedger` | `ImplementsLedger` |
| `RefreshTokensProofs!OverIsOver` | a session that is over stays over (an action property) |
| `RefreshTokensProofs!TearDownsAreProvoked` | a token a request is about to sweep for was claimed by a refresh, or its session ended or swept (`SweepsAreProvoked`) |
| `RefreshTokensProofs!SessionsNeverFork` | any two tokens of a session are on one line of replacements from its login (`SessionsAreLines`) |
| `SessionsProofs!SessionsKeepTheLedger` | `ImplementsLedger` and `SessionsAreLines`, of the whole with its clients |
| `SessionsProofs!DemotionIsTimely` | `DemotionTakesEffect` |
| `SessionsProofs!LogoutIsTimely` | `LogoutTakesEffect` |
| `SessionsProofs!TearDownsHaveCauses` | `TearDownHasACause` |
| `SessionsProofs!HeldTokensAreGood` | `HeldTokensStayGood` |
| `AccountsProofs!AccountsTypeCorrect` | `TypeOK` |
| `AccountsProofs!IdentityIsProved` | `SessionsProveIdentity` |
| `AccountsProofs!OneRegistrationWins` | `RegistrationsAreDistinct` |
| `AccountsProofs!IdentityKeepsRow` | `ExternalIdentityKeepsItsRow` |
| `AccountsProofs!OneWayInAlways` | `OneWayIn` |
| `AccountsProofs!AccountsAreKept` | `LoginsOnlyRefreshNames` |
| `AccountsProofs!CutOffIsNotLost` | `CutOffRegistrationsCanLogIn` |
| `ExternalAuthProofs!ExternalTypeCorrect` | `TypeOK` |
| `ExternalAuthProofs!OnlyUsersEnter` | `OnlyTheProvidersUsers` |
| `ExternalAuthProofs!RefusalsHaveCauses` | `RefusalHasACause` |
| `ExternalAuthProofs!KeysAreForgotten` | `RetiredKeysAreForgotten` |
| `SignedRequestsProofs!RequestsTypeCorrect` | `TypeOK` |
| `SignedRequestsProofs!SignatureIsBinding` | `PassedIsWhatWasSigned` |
| `SignedRequestsProofs!LifetimeIsBounded` | `SignaturesExpire` |
| `SignedRequestsProofs!RotationLocksNobodyOut` | `OnlyOvertakenAreRefused` |
| `ServerProofs!ServerTypeCorrect` | `TypeOK` |
| `ServerProofs!UpIsSeen` | `UpIsFirstHand` |
| `ServerProofs!AlarmsHaveCauses` | `NoFalseAlarm` |
| `ServerProofs!ListenersAreConfigured` | `ListeningIsConfigured` |
| `ServerProofs!TokensLast` | `AccessTokensLast` |
| `MediaStoreProofs!NamesAreClean` | `CleanName(SanitizeFilename(name))`, for every name |
| `MediaStoreProofs!CleanNamesStay` | a clean name is left alone, for every name |
| `MediaStoreProofs!PlainNamesStayPlain` | a plain name is cleaned to one without two dots in a row, for every name |
| `MediaStoreProofs!PlainNamesCanGo` | `PlainNamesAreDeletable` |
| `MediaStoreProofs!UploadsAreKept` | `UploadsKeepTheirContent` |
| `MediaStoreProofs!UrlsAreInvertible` | `UrlsLeadBack` |
| `MediaStoreProofs!DeletesAreExact` | `DeletesHitTheirUrl` |

**Assumptions.** `LifetimeAssumption` (`envNumber` refuses what is not positive;
the lifetime is counted in whole ticks), `WindowAssumption` (likewise),
`TimeAssumption` and `BoundsAssumption` (the bounds are numbers),
`DummyAssumption` (the dummy hash is the hash of something), `ProviderAssumption`
(the external provider is not `LOCAL`, as in the schema's enum),
`TrustedAssumption`, `ExemptAssumption` and `RedatedAssumption` (subsets), `AccessLifetimeAssumption`
(a number of whole ticks), `AgesAssumption` and `RotationsAssumption` (jose's ages
are numbers, the cooldown no longer than the cache), `TokensAssumption`,
`PoolAssumption`, `TimeoutAssumption` and `ServerBoundsAssumption` (a pool of at
least one, a timer of at least one tick), `AmountsAssumption` (amounts in the
environment are numbers, and `Throws` is none of the lifetimes), `NameAssumption` (a name is cut to
no less than `file`, the default; a hundred characters in the code),
`FilesAssumption` (names are sequences of characters), `UrlAssumption` (URLs are of the form `Url`), and in each
module that `Null` is none of the values (`NullAssumption` and its namesakes). TLC
evaluates all of them on every run.

**RefreshTokens.** `OneLiveTokenPerSession` is not inductive: a session with one
live row *and* a rotation about to insert satisfies it and its successor does
not. `IInv` therefore speaks of holders. `OneHolder`: the unrevoked rows of a
session and its rotations in `"create"` are together at most one. The claim turns
a row into a rotation because it is conditional on `revokedAt` being null; the
insert turns the rotation back into a row; everything else only takes holders
away. `EndedHasNoHolder` follows the same way. `ClaimsAreExclusive` says that a
row has one claimant and stays revoked, so that the chaining update, which
comes later and does not look, writes a row nobody else is writing.
`RowsMatchBirth`, `SessionsAreRooted` and `RequestsHoldIssued` tie rows and local
variables to what was issued.

**Refinement.** One step of the handlers opens (`IssueTokens`), begins
(`RefreshClaim`), finishes (`RefreshCreate`) or fails (`Abort` in `"create"`) one
session, or closes some (everything that revokes or deletes), or changes no
phase. `RootsAreFirst`, added to `IInv`, says that the token a session is named
after is its first, so that the session is open. `OverIsOver` reads the last
phase off the ledger.

**Lines.** `EachTokenIsRotatedOnce` is not inductive either: two requests about to
insert for one token satisfy it. `Follows` adds that a token which has been
replaced is of the same session, is spent for good, and has no request about to
replace it. `OneHolder` keeps a second request from that insert, and
`RowsOnlyDie` keeps the row revoked. From there `SessionsNeverFork` is an
induction of another kind, along the tokens and not along the steps: every token
ends a line from its login (a step adds at most one token, `LineGrows`), and two
lines with one beginning agree as far as both go (`LinesAgree`, with
`NatSetInduction`), so of two tokens the one with the shorter line is on the
other's.

**Induction over data.** The library states induction with a predicate for its
parameter, which the provers do not find. `SetInduction` states it about a set:
a set of numbers with 0 and all successors is all of `Nat`, by the library's
`WFMin` about least elements, where the order is a set as well.

**Accounts.** The row a handler holds may be stale. `Current` says in what: never
in its password or external id, and not in the name of a local account, since the
only statement that writes an existing row on behalf of a request writes the
username of a linked one. `UniqueRows` are the two indexes; `OwnRows` that two
registrations are not let into the same row.

`Asked` also ties what a request created to what it asked for, so a registration
cut off after its insert has left its client a way in.

**Sessions.** By its definitions every step of the whole is a step of
`RefreshTokens` or leaves its variables alone (`TableSpecHolds`), so `IInv` and all
that follows from it hold here. `RolesInv`: an
access token whose role is not the user's was signed by a request that had read
the role when it changed, or runs out one lifetime after the change. `EndInv` says
the same of sessions that ended: a session that ended is not revived, and who may
still sign for it had inserted its token before. The last two theorems need that
a client is alone with its token: `ClientsApart` (no token and no request has two
clients), `AsksInv` (a client waits for the refresh of what it holds, or for a
login), `FlightsInv` (a refresh without a client means trouble) and `KeptInv`:
while the user has no trouble, only the refresh that replaces a held token
revokes it. They and `TearDownHasACause` are inductive only together, because a
sweep would revoke what others hold.

**ExternalAuth.** No time passes while exchanges wait, because a fetch ends within
a tick. So what was the case for a key when an exchange arrived is still the case
when it is decided (`WaitingInv`), and nothing that is listed, on its way or cached
has been withdrawn for longer than the cache is old (`KeysAge`). `HeardIsCached`
is why an outage refuses nobody whose key is at hand.

**Server.** `Unexcused`: a check without an excuse has been served by a database
that answers since it began, so no tick can pass before its answer, its timer
stands at 0 and cannot fire. `OnePlace` (a query is in the pool or once in the
queue) keeps the count of connections true. `Booted` keeps what boot found out
about the environment, which never changes, and that the settings are what was
read from it. `ListeningIsConfigured` is stated without the readers, of what was
written and what is used; `NumberIsRead` and `DefaultsAreDocumented` connect the
two.

**MediaStore.** Two lemmas about prefixes say that cutting the base path off a URL
undoes putting it on. With them the key that a URL yields is the one key whose URL
it is, and since a key carries its upload, `Held` is inductive: an object that was
stored is there until a delete of its own URL. That a plain name can be deleted
needs the names.

**FileNames.** `FlattenSeq` is a function chosen for its recursive equation.
`JoinsExist` shows by `NatSetInduction` that there is one, and `FlattenSteps` that
it joins piece by piece. With that each step of `SanitizeFilename` has a lemma: which
characters it leaves, and which of two neighbours were neighbours before. Only a
decomposition and a removal can bring two characters together, and the one removal
inside a name (`Collapsed`) takes dashes from beside a dash.

**SignedRequests.** `CallersAreAccepted`: what a caller signs with is the current
or the previous value on every server, at every point of a rotation.
`SignedInThePast`: a caller never returns to an earlier value, so one who has
moved on from what a message was signed with stays so. For `SignaturesExpire`, a
message that is not `ahead` was dated no later than it was sent, so it passes at
no time before its date.

**What is only model-checked.** The liveness properties, `ExpiredRowsAreRemoved`,
`EveryExchangeIsAnswered`, `EveryCheckIsAnswered` and `RecoversWithTheDatabase`:
liveness under fairness is beyond TLAPS. Every invariant and action property that a
passing run checks is proved as well. The type invariants of `ExternalAuth`,
`SignedRequests` and `Sessions` are proved and not checked by a run. No module uses
a RECURSIVE operator.

## 5. Not modelled, and why

- **Rate limiting.** The counters are the throttler library's, in the memory of one
  process; the code only states limits, and `Server` models that they are positive
  numbers.
- **A change of `AUTH_EXTERNAL_PROVIDER` over existing rows.** `Provider` is a
  constant of `Accounts`. Rows are matched by `externalId` alone
  (`auth.service.ts:137`), so two providers whose ids meet would share a row; whether
  they can meet is not known from the code.
- **Queries without a bound.** Every check that times out while the database hangs
  leaves a query in line. `MaxQueue` bounds the line in the model; that it grows is
  what the code does, and no document promises otherwise.
- **Validation.** The zod schemas come before every handler and keep no state; bodies
  are what has passed them. Multer's own limit on uploads is the same number as
  `assertAcceptable`'s and is multer's.
- **The bypass of `SecurityMiddleware` for testing** checks nothing.
- **A URL whose escapes do not decode** makes `decodeURIComponent` throw in
  `deleteFile`, which answers 500 where other malformed URLs get 400; segments are
  modelled decoded, and nothing is deleted either way.
- **Date ranges, text helpers, the example module, Swagger, DTO types, CORS, helmet,
  logging and the wording of messages** are presentation: pure functions that no
  handler with state depends on, or headers and pages.
- **The database client's query log and disconnect** are I/O.

What could follow: the pool of `Server` shared with the statements of `Accounts` and
`RefreshTokens`, so that a hung database and the handlers meet; the verified identity
of `ExternalAuth` composed with the upsert of `Accounts`.
