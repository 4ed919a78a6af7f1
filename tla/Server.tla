------------------------------- MODULE Server -------------------------------
(***************************************************************************)
(* One server process: it boots from its environment or exits, and then    *)
(* answers health checks, each a query that races a timer.  The loser of   *)
(* the race is not cancelled: a query goes on holding its connection of    *)
(* the pool, or its place in the queue for one, after the timer has won.   *)
(***************************************************************************)
EXTENDS Env, ErrorFilter, Sequences, FiniteSets

CONSTANTS
    Environments,  \* the environments the process may be started in
    Checks,        \* health checks, each asked again once it is answered
    PoolSize,      \* connections pg keeps
    DbTimeout,     \* DB_TIMEOUT_MS, in ticks
    MaxQueue,      \* bound on the queries waiting for a connection
    MaxChanges,    \* bound on how often the database changes state
    Null           \* no answer, no timer, or nobody waiting for a query

ASSUME PoolAssumption == PoolSize \in Nat \ {0}
ASSUME TimeoutAssumption == DbTimeout \in Nat \ {0}
ASSUME ServerBoundsAssumption == MaxQueue \in Nat /\ MaxChanges \in Nat

VARIABLES
    env,      \* process.env
    settings, \* what the process goes by, Null until it has read it
    phase,    \* bootstrap has not finished, has, or has failed
    db,       \* what the database does with a query: answers, fails, or nothing
    changes,  \* how often it has changed
    running,  \* checks whose query has a connection
    orphans,  \* connections held by the query of a check already answered
    dead,     \* connections whose peer is gone without a word
    queue,    \* queries waiting for a connection: each a check, or an orphan's Null
    elapsed,  \* ticks on the timer of each check, Null once it is cleared
    answer,   \* what each check was last answered, as the caller sees it
    (* History: read by properties only.                                   *)
    sawUp,    \* checks during which the database was up at some moment
    excuse    \* checks during which it was not, or no connection was to be had

poolVars == <<running, orphans, dead, queue>>
vars == <<env, settings, phase, db, changes, poolVars, elapsed, answer, sawUp, excuse>>

Numbers == {"REFRESH_EXPIRE_IN", "SIGNATURE_WINDOW_SECONDS", "THROTTLE_TTL_SECONDS",
            "THROTTLE_LIMIT", "UPLOAD_MAX_SIZE_MB"}
Toggles == {"IS_VO1D_PRODUCTION", "IS_VO1D_TESTING"}
Credentials == {"APP_NAME", "APP_KEY", "APP_SECRET"}

Variables ==
    Numbers \cup Toggles \cup Credentials \cup
    {"DATABASE_URL", "JWT_SECRET", "JWT_EXPIRE_IN", "AUTH_EXTERNAL_PROVIDER", "PORT"}

\* Amounts are in halves, as in Env.
Setting == [numbers : [Numbers -> Int], toggles : [Toggles -> BOOLEAN],
            expiresIn : {e["JWT_EXPIRE_IN"] : e \in Environments}, port : Int]

ASSUME AmountsAssumption ==
    \A e \in Environments :
        /\ \A name \in Numbers \cup {"JWT_EXPIRE_IN", "PORT"} : e[name].halves \in Int
        /\ e["JWT_EXPIRE_IN"].halves \div 2 # Throws
ASSUME ServerNullAssumption == Null \notin Checks /\ Null \notin 0..DbTimeout

-----------------------------------------------------------------------------
(* bootstrap: what each module reads when Nest constructs it.               *)
Default(name) ==
    CASE name = "REFRESH_EXPIRE_IN"                                    -> 60 * 60 * 24 * 30 * 2
      [] name \in {"SIGNATURE_WINDOW_SECONDS", "THROTTLE_TTL_SECONDS"} -> 60 * 2
      [] name = "THROTTLE_LIMIT"                                       -> 100 * 2
      [] name = "UPLOAD_MAX_SIZE_MB"                                   -> 5 * 2

NumberRead(name) == EnvNumber(env[name], Default(name))

JwtConfig == /\ RequireEnv(env["JWT_SECRET"]) # Throws
             /\ ExpiresIn(env["JWT_EXPIRE_IN"]) # Throws
             /\ NumberRead("REFRESH_EXPIRE_IN") # Throws

ExternalAuthConfig ==
    OptionalEnv(env["AUTH_EXTERNAL_PROVIDER"], Text("provider")).form = "provider"

R2Config == NumberRead("UPLOAD_MAX_SIZE_MB") # Throws

Throttler == /\ NumberRead("THROTTLE_TTL_SECONDS") # Throws
             /\ NumberRead("THROTTLE_LIMIT") # Throws

Prisma == /\ RequireEnv(env["DATABASE_URL"]) # Throws
          /\ EnvToggle(env["IS_VO1D_PRODUCTION"]) # Throws

\* Credentials for signatures are needed only where signatures are checked.
Middleware == /\ NumberRead("SIGNATURE_WINDOW_SECONDS") # Throws
              /\ EnvToggle(env["IS_VO1D_TESTING"]) # Throws
              /\ EnvToggle(env["IS_VO1D_TESTING"]) = FALSE =>
                    \A name \in Credentials : RequireEnv(env[name]) # Throws

\* listen() takes whole numbers of 16 bits, and 0 for any port that is free; it
\* refuses all others, and NaN.
IsPort(halves) == halves % 2 = 0 /\ halves \in 0..(2 * 65535)

Port == /\ RequireEnv(env["PORT"]) # Throws
        /\ env["PORT"].form \in {"number", "blank"}
        /\ IsPort(ToNumber(env["PORT"]))

Boots == JwtConfig /\ ExternalAuthConfig /\ R2Config /\ Throttler /\ Prisma
         /\ Middleware /\ Port

\* What the configs and services keep.  IS_VO1D_PRODUCTION alone is read again at
\* every use, of an environment that does not change.
SettingsRead ==
    [numbers   |-> [name \in Numbers |-> NumberRead(name)],
     toggles   |-> [name \in Toggles |-> EnvToggle(env[name])],
     expiresIn |-> ExpiresIn(env["JWT_EXPIRE_IN"]),
     port      |-> ToNumber(env["PORT"])]

-----------------------------------------------------------------------------
Waiting == {k \in Checks : elapsed[k] # Null}

InUse == Cardinality(running) + orphans + dead

\* A query gets a connection and its answer before the next tick.
Well == db = "up" /\ dead < PoolSize

TypeOK ==
    /\ env \in Environments
    /\ phase = "listening" => settings \in Setting
    /\ phase \in {"booting", "listening", "exited"}
    /\ db \in {"up", "failing", "hung"}
    /\ changes \in 0..MaxChanges
    /\ running \in SUBSET Waiting
    /\ orphans \in Nat /\ dead \in Nat /\ InUse <= PoolSize
    /\ queue \in Seq(Waiting \cup {Null})
    /\ elapsed \in [Checks -> 0..DbTimeout \cup {Null}]
    /\ sawUp \in SUBSET Checks /\ excuse \in SUBSET Checks

Init ==
    /\ env \in Environments
    /\ settings = Null
    /\ phase = "booting"
    /\ db = "up"
    /\ changes = 0
    /\ running = {} /\ orphans = 0 /\ dead = 0 /\ queue = <<>>
    /\ elapsed = [k \in Checks |-> Null]
    /\ answer = [k \in Checks |-> Null]
    /\ sawUp = {} /\ excuse = {}

Boot ==
    /\ phase = "booting"
    /\ IF Boots THEN settings' = SettingsRead /\ phase' = "listening"
                ELSE phase' = "exited" /\ UNCHANGED settings
    /\ UNCHANGED <<env, db, changes, poolVars, elapsed, answer, sawUp, excuse>>

-----------------------------------------------------------------------------
(* checkDatabase: the query gets in line and the timer starts.              *)
Start(k, ticks) ==
    /\ phase = "listening" /\ k \notin Waiting
    /\ Len(queue) < MaxQueue
    /\ queue' = Append(queue, k)
    /\ elapsed' = [elapsed EXCEPT ![k] = ticks]
    /\ answer' = [answer EXCEPT ![k] = Null]
    /\ sawUp' = IF db = "up" THEN sawUp \cup {k} ELSE sawUp \ {k}
    /\ excuse' = IF Well THEN excuse \ {k} ELSE excuse \cup {k}
    /\ UNCHANGED <<env, settings, phase, db, changes, running, orphans, dead>>

(* Mutant: the service has one timer, which a check that finds it running   *)
(* joins.                                                                   *)
AskWithSharedTimer(k) ==
    IF Waiting = {} THEN Start(k, 0) ELSE \E j \in Waiting : Start(k, elapsed[j])

Ask(k) == Start(k, 0)

Healthy == [status |-> 200, message |-> "Service is healthy", errors |-> "null"]

Unhealthy(database) ==
    Describe(HttpException(503, ErrorsBody("Service is unhealthy", database)))

\* The race is decided: finally clears the timer.
Settle(k, result) ==
    /\ answer' = [answer EXCEPT ![k] = result]
    /\ elapsed' = [elapsed EXCEPT ![k] = Null]
    /\ UNCHANGED <<env, settings, phase, db, changes, dead, sawUp, excuse>>

QueryAnswers(k) ==
    /\ k \in running /\ db = "up"
    /\ running' = running \ {k}
    /\ Settle(k, Healthy)
    /\ UNCHANGED <<orphans, queue>>

(* Mutant: an error that is not the timeout is taken for an answer.         *)
QueryFailsUnnoticed(k) ==
    /\ k \in running /\ db = "failing"
    /\ running' = running \ {k}
    /\ Settle(k, Healthy)
    /\ UNCHANGED <<orphans, queue>>

QueryFails(k) ==
    /\ k \in running /\ db = "failing"
    /\ running' = running \ {k}
    /\ Settle(k, Unhealthy("down"))
    /\ UNCHANGED <<orphans, queue>>

(* Mutant: the query of a check that timed out still counts as its own.     *)
TimerForgetsQuery(k) ==
    /\ elapsed[k] = DbTimeout
    /\ UNCHANGED <<running, orphans, queue>>
    /\ Settle(k, Unhealthy("timeout"))

(* Mutant: the timer only counts once the query has its connection.         *)
TimerNeedsQuery(k) ==
    /\ elapsed[k] = DbTimeout /\ k \in running
    /\ running' = running \ {k}
    /\ orphans' = orphans + 1
    /\ Settle(k, Unhealthy("timeout"))
    /\ UNCHANGED queue

\* Nobody waits for the query any more, but nothing cancels it.
TimerFires(k) ==
    /\ elapsed[k] = DbTimeout
    /\ running' = running \ {k}
    /\ orphans' = IF k \in running THEN orphans + 1 ELSE orphans
    /\ queue' = [i \in DOMAIN queue |-> IF queue[i] = k THEN Null ELSE queue[i]]
    /\ Settle(k, Unhealthy("timeout"))

-----------------------------------------------------------------------------
(* The pool and the database behind it.                                     *)
Connect ==
    /\ queue # <<>> /\ InUse < PoolSize
    /\ queue' = Tail(queue)
    /\ IF Head(queue) = Null
       THEN orphans' = orphans + 1 /\ UNCHANGED running
       ELSE running' = running \cup {Head(queue)} /\ UNCHANGED orphans
    /\ UNCHANGED <<env, settings, phase, db, changes, dead, elapsed, answer, sawUp, excuse>>

OrphanEnds ==
    /\ orphans > 0 /\ db # "hung"
    /\ orphans' = orphans - 1
    /\ UNCHANGED <<env, settings, phase, db, changes, running, dead, queue, elapsed, answer,
                   sawUp, excuse>>

\* The query is never answered, and the pool does not know.
ConnectionDies ==
    /\ dead' = dead + 1
    /\ \/ \E k \in running : /\ running' = running \ {k}
                             /\ excuse' = IF dead' = PoolSize THEN excuse \cup Waiting
                                                              ELSE excuse \cup {k}
                             /\ UNCHANGED orphans
       \/ /\ orphans > 0
          /\ orphans' = orphans - 1
          /\ excuse' = IF dead' = PoolSize THEN excuse \cup Waiting ELSE excuse
          /\ UNCHANGED running
    /\ UNCHANGED <<env, settings, phase, db, changes, queue, elapsed, answer, sawUp>>

\* The operating system gives the peer up, and the pool the connection.
ConnectionResets ==
    /\ dead > 0
    /\ dead' = dead - 1
    /\ UNCHANGED <<env, settings, phase, db, changes, running, orphans, queue, elapsed, answer,
                   sawUp, excuse>>

DatabaseChanges(state) ==
    /\ state # db /\ changes < MaxChanges
    /\ db' = state
    /\ changes' = changes + 1
    /\ sawUp' = IF state = "up" THEN sawUp \cup Waiting ELSE sawUp
    /\ excuse' = IF state = "up" THEN excuse ELSE excuse \cup Waiting
    /\ UNCHANGED <<env, settings, phase, poolVars, elapsed, answer>>

\* Timers fire on time, and a database that answers does so within a tick.
Tick ==
    /\ Waiting # {}
    /\ \A k \in Waiting : elapsed[k] < DbTimeout
    /\ db # "hung" => running = {} /\ orphans = 0 /\ (queue = <<>> \/ dead = PoolSize)
    /\ elapsed' = [k \in Checks |-> IF k \in Waiting THEN elapsed[k] + 1 ELSE Null]
    /\ UNCHANGED <<env, settings, phase, db, changes, poolVars, answer, sawUp, excuse>>

-----------------------------------------------------------------------------
Next ==
    \/ Boot
    \/ \E k \in Checks : Ask(k) \/ QueryAnswers(k) \/ QueryFails(k) \/ TimerFires(k)
    \/ Connect \/ OrphanEnds \/ ConnectionDies \/ ConnectionResets
    \/ \E state \in {"up", "failing", "hung"} : DatabaseChanges(state)
    \/ Tick

Spec == Init /\ [][Next]_vars

(* The event loop turns, time passes whatever else happens, and a database  *)
(* that answers queries answers each; nothing is owed by one that does not. *)
Fairness ==
    /\ SF_vars(Tick)
    /\ WF_vars(Connect) /\ WF_vars(OrphanEnds)
    /\ \A k \in Checks : WF_vars(QueryAnswers(k) \/ QueryFails(k) \/ TimerFires(k))

FairSpec == Spec /\ Fairness

-----------------------------------------------------------------------------
(* Properties *)

(* A 200 is never stale: the database was up while that very check ran, so  *)
(* neither a timer that fires nor an error passes for an answer.            *)
UpIsFirstHand ==
    \A k \in Checks :
        answer[k] # Null /\ answer[k].status = 200 => k \in sawUp

(* No instance is taken out of rotation over leftovers: a check during      *)
(* which the database was up and some connection alive is answered 200,     *)
(* however many queries of earlier, timed out checks still sit in the pool. *)
NoFalseAlarm ==
    \A k \in Checks :
        answer[k] # Null /\ answer[k].status # 200 => k \in excuse

(* A health check never hangs, whatever the database and the pool do.       *)
EveryCheckIsAnswered ==
    \A k \in Checks : k \in Waiting ~> k \notin Waiting

(* Once the database is up for good and no connection dead, checks answer   *)
(* 200 for good: the queries left in the pool do not keep it down.          *)
RecoversWithTheDatabase ==
    <>[](db = "up" /\ dead = 0) =>
        <>[][\A k \in Checks : answer'[k] # answer[k] /\ answer'[k] # Null =>
                 answer'[k].status = 200]_vars

\* What README, example.env and the comments of the configs give as defaults.
DocumentedDefault ==
    [REFRESH_EXPIRE_IN |-> 2592000 * 2, SIGNATURE_WINDOW_SECONDS |-> 60 * 2,
     THROTTLE_TTL_SECONDS |-> 60 * 2, THROTTLE_LIMIT |-> 100 * 2,
     UPLOAD_MAX_SIZE_MB |-> 5 * 2]

(* What a listening server goes by is what was written: a number is used as *)
(* written or, where none is, as documented; a toggle is on or off only if  *)
(* it says so; signatures are enforced only with credentials to check them  *)
(* by.  A typo keeps the server from listening and never turns into a       *)
(* default, nor into a toggle.  A blank PORT alone is read as a number, 0.  *)
ListeningIsConfigured ==
    phase = "listening" =>
        /\ \A name \in Numbers :
              \/ /\ env[name].form \in {"unset", "empty", "blank"}
                 /\ settings.numbers[name] = DocumentedDefault[name]
              \/ /\ env[name].form = "number" /\ env[name].halves > 0
                 /\ settings.numbers[name] = env[name].halves
        /\ \A name \in Toggles :
              env[name].form = IF settings.toggles[name] THEN "yes" ELSE "no"
        /\ ~settings.toggles["IS_VO1D_TESTING"] =>
              \A name \in Credentials : env[name].form \notin {"unset", "empty"}
        /\ \/ env["PORT"].form = "number" /\ settings.port = env["PORT"].halves
           \/ env["PORT"].form = "blank" /\ settings.port = 0

(* A listening server signs access tokens that are good for at least a      *)
(* second, unless JWT_EXPIRE_IN is a fraction of seconds, with which every  *)
(* login fails, or a duration that rounds down to none.                     *)
AccessTokensLast ==
    phase = "listening" =>
        LET x == settings.expiresIn
        IN \/ SignedLifetime(x) # Throws /\ SignedLifetime(x) > 0
           \/ x.form = "number" /\ x.halves % 2 # 0
           \/ x.form = "duration" /\ x.halves < 2
=============================================================================
