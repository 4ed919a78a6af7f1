---------------------------- MODULE ServerProofs ----------------------------
(***************************************************************************)
(* Proofs about Server, for any number of checks and any size of the pool. *)
(* The argument about false alarms: a check that has no excuse has been    *)
(* served by a database that answers since it began, so no tick has passed *)
(* and its timer cannot fire.  That the query of a check is in one place,  *)
(* the pool or the queue, keeps the count of connections true.             *)
(***************************************************************************)
EXTENDS Server, FiniteSetTheorems, SequenceTheorems, TLAPS

Queued(k) == \E i \in 1..Len(queue) : queue[i] = k

\* A query is in one place.
OnePlace ==
    /\ \A k \in running : ~Queued(k)
    /\ \A i, j \in 1..Len(queue) : queue[i] = queue[j] /\ queue[i] # Null => i = j

AnswersOK ==
    answer \in [Checks -> {Null, Healthy, Unhealthy("down"), Unhealthy("timeout")}]

\* A check without an excuse: its query is about to be served, and no time passes.
Unexcused ==
    \A k \in Waiting \ excuse : Well /\ elapsed[k] = 0 /\ (k \in running \/ Queued(k))

SeenUp == db = "up" => Waiting \subseteq sawUp

Booted == phase = "listening" => Boots /\ settings = SettingsRead

IInv ==
    /\ TypeOK /\ IsFiniteSet(running)
    /\ OnePlace
    /\ AnswersOK
    /\ Unexcused
    /\ SeenUp
    /\ UpIsFirstHand
    /\ NoFalseAlarm
    /\ Booted

-----------------------------------------------------------------------------
(* The answers and the queue.                                               *)

(* The status tells which answer it is.                                     *)
LEMMA Statuses ==
    /\ Healthy.status = 200
    /\ \A x : Unhealthy(x).status = 503
BY DEF Healthy, Unhealthy, Describe, HttpException, ErrorsBody

(* Whoever leaves the queue leaves no gap and changes nobody else's place.  *)
LEMMA Forgotten ==
    ASSUME NEW S, NEW q \in Seq(S \cup {Null}), NEW k,
           NEW p, p = [i \in DOMAIN q |-> IF q[i] = k THEN Null ELSE q[i]]
    PROVE  /\ p \in Seq((S \ {k}) \cup {Null}) /\ Len(p) = Len(q)
           /\ \A i \in 1..Len(q) : p[i] = IF q[i] = k THEN Null ELSE q[i]
<1> DEFINE n == Len(q)
<1>1. n \in Nat /\ DOMAIN q = 1..n /\ \A i \in 1..n : q[i] \in S \cup {Null}
  BY LenProperties, ElementOfSeq
<1>2. p \in [1..n -> (S \ {k}) \cup {Null}]
  BY <1>1
<1>3. p \in Seq((S \ {k}) \cup {Null})
  BY <1>1, <1>2, SeqDef
<1>4. DOMAIN p = 1..Len(p) /\ Len(p) \in Nat
  BY <1>3, LenProperties
<1>5. Len(p) = n
  BY <1>1, <1>2, <1>4
<1> QED
  BY <1>1, <1>3, <1>5

(* The queue without an entry that does not occur is a queue of the others. *)
LEMMA Absent ==
    ASSUME NEW S, NEW q \in Seq(S), NEW k, \A i \in 1..Len(q) : q[i] # k
    PROVE  q \in Seq(S \ {k})
<1>1. Len(q) \in Nat /\ q \in [1..Len(q) -> S] 
  BY LenProperties
<1>2. q \in [1..Len(q) -> S \ {k}]
  BY <1>1
<1> QED
  BY <1>1, <1>2, SeqDef

(* The connections in use, and those with an answer or a wait behind them.  *)
LEMMA Counts ==
    ASSUME TypeOK, IsFiniteSet(running)
    PROVE  /\ Cardinality(running) \in Nat
           /\ InUse \in Nat /\ InUse = Cardinality(running) + orphans + dead
           /\ \A k \in running : /\ IsFiniteSet(running \ {k})
                                 /\ Cardinality(running \ {k}) = Cardinality(running) - 1
                                 /\ Cardinality(running) > 0
           /\ \A k : k \notin running =>
                        /\ IsFiniteSet(running \cup {k})
                        /\ Cardinality(running \cup {k}) = Cardinality(running) + 1
<1>1. Cardinality(running) \in Nat
  BY FS_CardinalityType
<1>2. \A k \in running : /\ IsFiniteSet(running \ {k})
                         /\ Cardinality(running \ {k}) = Cardinality(running) - 1
  BY FS_RemoveElement
<1>3. \A k : k \notin running => /\ IsFiniteSet(running \cup {k})
                                 /\ Cardinality(running \cup {k}) = Cardinality(running) + 1
  BY FS_AddElement
<1>4. \A k \in running : Cardinality(running) > 0
  <2> SUFFICES ASSUME NEW k \in running
               PROVE  Cardinality(running) > 0
    OBVIOUS
  <2>1. Cardinality(running \ {k}) \in Nat
    BY <1>2, FS_CardinalityType
  <2> QED
    BY <1>1, <1>2, <2>1
<1>5. InUse \in Nat /\ InUse = Cardinality(running) + orphans + dead
  BY <1>1 DEF InUse, TypeOK
<1> QED
  BY <1>1, <1>2, <1>3, <1>4, <1>5

-----------------------------------------------------------------------------
(* The steps.                                                               *)

(* What is read of an environment that boots are settings.                  *)
LEMMA SettingsTyped ==
    ASSUME env \in Environments, Boots
    PROVE  SettingsRead \in Setting
<1>1. ASSUME NEW name \in Numbers
      PROVE  NumberRead(name) \in Int
  <2>1. NumberRead(name) # Throws
    BY DEF Boots, JwtConfig, R2Config, Throttler, Middleware, Numbers
  <2>2. Default(name) \in Int
    BY DEF Default, Numbers
  <2>3. env[name].halves \in Int
    BY AmountsAssumption
  <2> QED
    BY <2>1, <2>2, <2>3 DEF NumberRead, EnvNumber
<1>2. ASSUME NEW name \in Toggles
      PROVE  EnvToggle(env[name]) \in BOOLEAN
  <2>1. EnvToggle(env[name]) # Throws
    BY DEF Boots, Prisma, Middleware, Toggles
  <2> QED
    BY <2>1 DEF EnvToggle
<1>3. ExpiresIn(env["JWT_EXPIRE_IN"]) = env["JWT_EXPIRE_IN"]
  BY DEF Boots, JwtConfig, ExpiresIn
<1>4. ToNumber(env["PORT"]) \in Int
  BY AmountsAssumption DEF ToNumber
<1> QED
  BY <1>1, <1>2, <1>3, <1>4 DEF SettingsRead, Setting

(* What boot reads depends on the environment alone.                        *)
LEMMA SameEnvironment ==
    ASSUME UNCHANGED env
    PROVE  Boots' = Boots /\ SettingsRead' = SettingsRead
<1>1. \A name : NumberRead(name)' = NumberRead(name)
  BY DEF NumberRead
<1>2. Boots' = Boots
  BY <1>1 DEF Boots, JwtConfig, ExternalAuthConfig, R2Config, Throttler, Prisma,
              Middleware, Port, NumberRead
<1>3. SettingsRead' = SettingsRead
  BY <1>1 DEF SettingsRead, NumberRead
<1> QED
  BY <1>2, <1>3

(* Boot decides on the environment and nothing else.                        *)
LEMMA BootStep ==
    ASSUME IInv, Boot
    PROVE  IInv'
<1> USE DEF IInv, Boot, poolVars
<1>1. Booted'
  BY SameEnvironment DEF Booted
<1>2. phase' = "listening" => settings' \in Setting
  <2>1. env' = env /\ env \in Environments
    BY DEF TypeOK
  <2> QED
    BY <2>1, SettingsTyped DEF TypeOK
<1>3. TypeOK' /\ IsFiniteSet(running)'
  BY <1>2 DEF TypeOK, Waiting, InUse, Setting
<1>4. OnePlace' /\ AnswersOK' /\ SeenUp' /\ UpIsFirstHand' /\ NoFalseAlarm'
  BY DEF OnePlace, Queued, AnswersOK, SeenUp, Waiting, UpIsFirstHand, NoFalseAlarm
<1>5. Unexcused'
  BY DEF Unexcused, Waiting, Well, Queued
<1> QED
  BY <1>1, <1>3, <1>4, <1>5

(* Whatever else does, the environment of a server that listens stays.      *)
LEMMA BootedStays ==
    ASSUME Booted, UNCHANGED <<env, settings, phase>>
    PROVE  Booted'
BY SameEnvironment DEF Booted

(* A check that is asked is excused at once, or may expect its answer.      *)
LEMMA AskStep ==
    ASSUME IInv, NEW k \in Checks, Ask(k)
    PROVE  IInv'
<1> USE ServerNullAssumption, TimeoutAssumption DEF IInv
<1>1. /\ elapsed[k] = Null /\ k \notin Waiting
      /\ queue' = Append(queue, k)
      /\ elapsed' = [elapsed EXCEPT ![k] = 0]
      /\ answer' = [answer EXCEPT ![k] = Null]
      /\ sawUp' = IF db = "up" THEN sawUp \cup {k} ELSE sawUp \ {k}
      /\ excuse' = IF Well THEN excuse \ {k} ELSE excuse \cup {k}
      /\ UNCHANGED <<env, settings, phase, db, changes, running, orphans, dead>>
  BY DEF Ask, Start, Waiting
<1>2. elapsed'[k] = 0 /\ \A j \in Checks \ {k} : elapsed'[j] = elapsed[j]
  BY <1>1 DEF TypeOK
<1>3. Waiting' = Waiting \cup {k} /\ Waiting \subseteq Checks
  BY <1>1, <1>2 DEF Waiting
<1>4. /\ queue \in Seq(Checks \cup {Null}) /\ Len(queue) \in Nat
      /\ \A i \in 1..Len(queue) : queue[i] # k
  <2>1. queue \in Seq(Waiting \cup {Null}) /\ Waiting \cup {Null} \subseteq Checks \cup {Null}
    BY <1>3 DEF TypeOK
  <2>2. \A i \in 1..Len(queue) : queue[i] \in Waiting \cup {Null}
    BY <2>1, ElementOfSeq
  <2> QED
    BY <1>1, <2>1, <2>2, SeqMonotonic, LenProperties
<1>5. /\ queue' \in Seq(Waiting' \cup {Null}) /\ Len(queue') = Len(queue) + 1
      /\ \A i \in 1..Len(queue) : queue'[i] = queue[i]
      /\ queue'[Len(queue) + 1] = k
  <2>1. queue \in Seq(Waiting' \cup {Null}) /\ k \in Waiting' \cup {Null}
    BY <1>3, SeqMonotonic DEF TypeOK
  <2> QED
    BY <1>1, <2>1, AppendProperties
<1>6. TypeOK' /\ IsFiniteSet(running)'
  <2>1. elapsed' \in [Checks -> 0..DbTimeout \cup {Null}]
    BY <1>1 DEF TypeOK
  <2> QED
    BY <1>1, <1>3, <1>5, <2>1 DEF TypeOK, InUse
<1>7. OnePlace'
  <2>1. k \notin running
    BY <1>1 DEF TypeOK
  <2>2. \A i \in 1..Len(queue') :
           \/ i \in 1..Len(queue) /\ queue'[i] = queue[i]
           \/ i = Len(queue) + 1 /\ queue'[i] = k
    BY <1>4, <1>5
  <2> QED
    BY <1>1, <1>4, <2>1, <2>2 DEF OnePlace, Queued
<1>8. Unexcused'
  <2> SUFFICES ASSUME NEW j \in Waiting', j \notin excuse'
               PROVE  Well' /\ elapsed'[j] = 0 /\ (j \in running' \/ Queued(j)')
    BY DEF Unexcused
  <2>1. CASE j = k
    BY <1>1, <1>2, <1>4, <1>5, <2>1 DEF Well, Queued
  <2>2. CASE j # k
    <3>1. j \in Waiting \ excuse /\ j \in Checks
      BY <1>1, <1>3, <2>2
    <3>2. Queued(j) => Queued(j)'
      BY <1>4, <1>5 DEF Queued
    <3> QED
      BY <1>1, <1>2, <2>2, <3>1, <3>2 DEF Unexcused, Well
  <2> QED
    BY <2>1, <2>2
<1>9. AnswersOK' /\ \A j \in Checks : answer'[j] = IF j = k THEN Null ELSE answer[j]
  BY <1>1 DEF AnswersOK
<1>10. SeenUp' /\ UpIsFirstHand' /\ NoFalseAlarm'
  BY <1>1, <1>3, <1>9 DEF SeenUp, UpIsFirstHand, NoFalseAlarm
<1> QED
  BY <1>1, <1>6, <1>7, <1>8, <1>9, <1>10, BootedStays

(* An answer ends the wait of one check and leaves the other queries where  *)
(* they are.                                                                *)
LEMMA SettleStep ==
    ASSUME IInv, NEW k \in Waiting,
           NEW result \in {Healthy, Unhealthy("down"), Unhealthy("timeout")},
           Settle(k, result),
           result = Healthy => db = "up",
           result # Healthy => k \in excuse,
           running' = running \ {k},
           orphans' = orphans \/ (k \in running /\ orphans' = orphans + 1),
           queue' \in Seq((Waiting \ {k}) \cup {Null}), Len(queue') = Len(queue),
           \A i \in 1..Len(queue) : queue'[i] = IF queue[i] = k THEN Null ELSE queue[i]
    PROVE  IInv'
<1> USE ServerNullAssumption DEF IInv
<1>1. /\ answer' = [answer EXCEPT ![k] = result]
      /\ elapsed' = [elapsed EXCEPT ![k] = Null]
      /\ UNCHANGED <<env, settings, phase, db, changes, dead, sawUp, excuse>>
      /\ k \in Checks /\ k # Null
  BY DEF Settle, Waiting
<1>2. elapsed'[k] = Null /\ \A j \in Checks \ {k} : elapsed'[j] = elapsed[j]
  BY <1>1 DEF TypeOK
<1>3. Waiting' = Waiting \ {k} /\ Waiting \subseteq Checks
  BY <1>1, <1>2 DEF Waiting
<1>4. /\ IsFiniteSet(running') /\ InUse' \in Nat /\ InUse' <= InUse /\ orphans' \in Nat
      /\ InUse \in Nat
  <2>1. /\ Cardinality(running) \in Nat /\ orphans \in Nat /\ dead \in Nat
        /\ InUse \in Nat /\ InUse = Cardinality(running) + orphans + dead
    BY Counts DEF TypeOK
  <2>2. CASE k \in running
    <3>1. /\ IsFiniteSet(running') /\ Cardinality(running') = Cardinality(running) - 1
          /\ Cardinality(running) > 0
      BY <2>2, Counts
    <3> QED
      BY <1>1, <2>1, <3>1 DEF InUse
  <2>3. CASE k \notin running
    <3>1. running' = running /\ orphans' = orphans /\ IsFiniteSet(running)
      BY <2>3
    <3>2. InUse' = InUse
      BY <1>1, <3>1 DEF InUse
    <3>3. IsFiniteSet(running')
      BY <3>1
    <3>4. InUse' \in Nat /\ InUse' <= InUse /\ orphans' \in Nat /\ InUse \in Nat
      BY <2>1, <3>1, <3>2
    <3> QED
      BY <3>3, <3>4
  <2> QED
    BY <2>2, <2>3
<1>5. TypeOK'
  <2>1. elapsed' \in [Checks -> 0..DbTimeout \cup {Null}]
    BY <1>1 DEF TypeOK
  <2>2. InUse' <= PoolSize
    BY <1>4, PoolAssumption DEF TypeOK
  <2>3. queue' \in Seq(Waiting' \cup {Null}) /\ running' \in SUBSET Waiting'
    BY <1>3 DEF TypeOK
  <2> QED
    BY <1>1, <1>4, <2>1, <2>2, <2>3 DEF TypeOK
<1>6. OnePlace'
  <2>1. \A j \in running' : j \in running /\ j # k /\ j # Null
    BY <1>3 DEF TypeOK
  <2>2. \A j \in running' : ~Queued(j)'
    BY <2>1 DEF OnePlace, Queued
  <2>3. \A i, j \in 1..Len(queue) : queue'[i] = queue'[j] /\ queue'[i] # Null => i = j
    BY DEF OnePlace
  <2> QED
    BY <2>2, <2>3 DEF OnePlace
<1>7. Unexcused'
  <2> SUFFICES ASSUME NEW j \in Waiting', j \notin excuse'
               PROVE  Well' /\ elapsed'[j] = 0 /\ (j \in running' \/ Queued(j)')
    BY DEF Unexcused
  <2>1. j \in Waiting \ excuse /\ j \in Checks /\ j # k
    BY <1>1, <1>3
  <2>2. Queued(j) => Queued(j)'
    BY <2>1 DEF Queued
  <2> QED
    BY <1>1, <1>2, <2>1, <2>2 DEF Unexcused, Well
<1>8. AnswersOK' /\ \A j \in Checks : answer'[j] = IF j = k THEN result ELSE answer[j]
  BY <1>1 DEF AnswersOK
<1>9. result = Healthy => k \in sawUp
  BY DEF SeenUp
<1>10. result.status = 200 <=> result = Healthy
  BY Statuses
<1>11. SeenUp' /\ UpIsFirstHand' /\ NoFalseAlarm'
  BY <1>1, <1>3, <1>8, <1>9, <1>10 DEF SeenUp, UpIsFirstHand, NoFalseAlarm
<1> QED
  BY <1>1, <1>4, <1>5, <1>6, <1>7, <1>8, <1>11, BootedStays

(* The database answers, or fails to.                                       *)
LEMMA AnswerStep ==
    ASSUME IInv, NEW k \in Checks, QueryAnswers(k) \/ QueryFails(k)
    PROVE  IInv'
<1> USE ServerNullAssumption DEF IInv
<1>1. /\ k \in running /\ k \in Waiting /\ running' = running \ {k}
      /\ UNCHANGED <<orphans, queue>>
  BY DEF QueryAnswers, QueryFails, TypeOK
<1>2. queue \in Seq(Waiting \cup {Null}) /\ \A i \in 1..Len(queue) : queue[i] # k
  BY <1>1 DEF TypeOK, OnePlace, Queued
<1>3. queue \in Seq((Waiting \cup {Null}) \ {k})
  BY <1>2, Absent
<1>4. (Waiting \cup {Null}) \ {k} = (Waiting \ {k}) \cup {Null}
  OBVIOUS
<1>5. queue' \in Seq((Waiting \ {k}) \cup {Null})
  BY <1>1, <1>3, <1>4
<1>6. CASE QueryAnswers(k)
  BY <1>1, <1>2, <1>5, <1>6, SettleStep DEF QueryAnswers
<1>7. CASE QueryFails(k)
  <2>1. k \in excuse
    BY <1>1, <1>7 DEF QueryFails, Unexcused, Well
  <2>2. Unhealthy("down") # Healthy
    BY Statuses
  <2> QED
    BY <1>1, <1>2, <1>5, <1>7, <2>1, <2>2, SettleStep DEF QueryFails
<1> QED
  BY <1>6, <1>7

(* The timer of a check without an excuse is at 0, and cannot fire.         *)
LEMMA TimerStep ==
    ASSUME IInv, NEW k \in Checks, TimerFires(k)
    PROVE  IInv'
<1> USE ServerNullAssumption, TimeoutAssumption DEF IInv
<1>1. /\ elapsed[k] = DbTimeout /\ k \in Waiting
      /\ running' = running \ {k}
      /\ orphans' = IF k \in running THEN orphans + 1 ELSE orphans
      /\ queue' = [i \in DOMAIN queue |-> IF queue[i] = k THEN Null ELSE queue[i]]
      /\ Settle(k, Unhealthy("timeout"))
  BY DEF TimerFires, Waiting
<1>2. k \in excuse
  BY <1>1 DEF Unexcused
<1>3. /\ queue' \in Seq((Waiting \ {k}) \cup {Null}) /\ Len(queue') = Len(queue)
      /\ \A i \in 1..Len(queue) : queue'[i] = IF queue[i] = k THEN Null ELSE queue[i]
  BY <1>1, Forgotten DEF TypeOK
<1>4. Unhealthy("timeout") # Healthy
  BY Statuses
<1> QED
  BY <1>1, <1>2, <1>3, <1>4, SettleStep

(* A free connection serves the query at the head of the queue.             *)
LEMMA ConnectStep ==
    ASSUME IInv, Connect
    PROVE  IInv'
<1> USE ServerNullAssumption DEF IInv
<1> DEFINE h == Head(queue)
<1>1. /\ queue # <<>> /\ InUse < PoolSize /\ queue' = Tail(queue)
      /\ UNCHANGED <<env, settings, phase, db, changes, dead, elapsed, answer, sawUp, excuse>>
  BY DEF Connect
<1>2. /\ queue \in Seq(Waiting \cup {Null}) /\ Len(queue) \in Nat \ {0}
      /\ h = queue[1] /\ h \in Waiting \cup {Null}
      /\ queue' \in Seq(Waiting \cup {Null}) /\ Len(queue') = Len(queue) - 1
      /\ \A i \in 1..Len(queue') : queue'[i] = queue[i + 1]
  <2>1. queue \in Seq(Waiting \cup {Null})
    BY DEF TypeOK
  <2> QED
    BY <1>1, <2>1, EmptySeq, HeadTailProperties
<1>3. \/ h = Null /\ orphans' = orphans + 1 /\ running' = running
      \/ h # Null /\ running' = running \cup {h} /\ orphans' = orphans
  BY DEF Connect
<1>4. /\ Waiting' = Waiting /\ Null \notin Waiting /\ \A k \in running : k # Null
      /\ h \notin running
  BY <1>1, <1>2 DEF Waiting, TypeOK, OnePlace, Queued
<1>5. /\ running' \in SUBSET Waiting /\ IsFiniteSet(running')
      /\ orphans' \in Nat /\ InUse' <= PoolSize
  <2>1. /\ Cardinality(running) \in Nat /\ orphans \in Nat /\ dead \in Nat
        /\ InUse \in Nat /\ InUse = Cardinality(running) + orphans + dead
    BY Counts DEF TypeOK
  <2>2. CASE h = Null
    <3>1. running' = running /\ orphans' = orphans + 1
      BY <1>3, <2>2
    <3>2. InUse' = InUse + 1
      BY <1>1, <2>1, <3>1 DEF InUse
    <3> QED
      BY <1>1, <2>1, <3>1, <3>2, PoolAssumption DEF TypeOK
  <2>3. CASE h # Null
    <3>1. /\ running' = running \cup {h} /\ orphans' = orphans
          /\ IsFiniteSet(running') /\ Cardinality(running') = Cardinality(running) + 1
      BY <1>3, <1>4, <2>3, Counts
    <3>2. InUse' = InUse + 1
      BY <1>1, <2>1, <3>1 DEF InUse
    <3> QED
      BY <1>1, <1>2, <2>1, <2>3, <3>1, <3>2, PoolAssumption DEF TypeOK
  <2> QED
    BY <2>2, <2>3
<1>6. TypeOK'
  BY <1>1, <1>2, <1>4, <1>5 DEF TypeOK
<1>7. \A i \in 1..Len(queue') : i \in 1..Len(queue) /\ i + 1 \in 1..Len(queue) /\ i + 1 # 1
  BY <1>2
<1>8. OnePlace'
  <2>1. \A k \in running' : k \in running \/ (k = h /\ k # Null)
    BY <1>3
  <2>2. \A i \in 1..Len(queue') : h # Null => queue'[i] # h
    BY <1>2, <1>7 DEF OnePlace
  <2>3. \A k \in running' : ~Queued(k)'
    BY <1>2, <1>7, <2>1, <2>2 DEF OnePlace, Queued
  <2>4. ASSUME NEW i \in 1..Len(queue'), NEW j \in 1..Len(queue'),
               queue'[i] = queue'[j], queue'[i] # Null
        PROVE  i = j
    <3>1. queue[i + 1] = queue[j + 1] /\ queue[i + 1] # Null
      BY <1>2, <2>4
    <3>2. i + 1 = j + 1
      BY <1>7, <3>1 DEF OnePlace
    <3> QED
      BY <3>2
  <2> QED
    BY <2>3, <2>4 DEF OnePlace
<1>9. Unexcused'
  <2> SUFFICES ASSUME NEW k \in Waiting', k \notin excuse'
               PROVE  Well' /\ elapsed'[k] = 0 /\ (k \in running' \/ Queued(k)')
    BY DEF Unexcused
  <2>1. /\ k \in Waiting /\ k # Null /\ Well /\ elapsed[k] = 0
        /\ k \in running \/ Queued(k)
    BY <1>1, <1>4 DEF Unexcused
  <2>2. CASE k \in running
    BY <1>1, <1>3, <2>1, <2>2 DEF Well
  <2>3. CASE Queued(k)
    <3>1. PICK i \in 1..Len(queue) : queue[i] = k
      BY <2>3 DEF Queued
    <3>2. CASE i = 1
      BY <1>1, <1>2, <1>3, <2>1, <3>1, <3>2 DEF Well
    <3>3. CASE i # 1
      <4>1. i - 1 \in 1..Len(queue') /\ queue'[i - 1] = k
        BY <1>2, <3>1, <3>3
      <4> QED
        BY <1>1, <2>1, <4>1 DEF Well, Queued
    <3> QED
      BY <3>2, <3>3
  <2> QED
    BY <2>1, <2>2, <2>3
<1>10. AnswersOK' /\ SeenUp' /\ UpIsFirstHand' /\ NoFalseAlarm'
  BY <1>1, <1>4 DEF AnswersOK, SeenUp, UpIsFirstHand, NoFalseAlarm
<1> QED
  BY <1>1, <1>5, <1>6, <1>8, <1>9, <1>10, BootedStays

(* Connections come and go without an answer.                               *)
LEMMA PoolStep ==
    ASSUME IInv, OrphanEnds \/ ConnectionDies \/ ConnectionResets
    PROVE  IInv'
<1> USE ServerNullAssumption DEF IInv
<1>1. /\ UNCHANGED <<env, settings, phase, db, changes, queue, elapsed, answer, sawUp>>
      /\ excuse \subseteq excuse' /\ excuse' \subseteq excuse \cup Waiting
      /\ running' \subseteq running
  BY DEF OrphanEnds, ConnectionDies, ConnectionResets, TypeOK
<1>2. /\ Cardinality(running) \in Nat /\ orphans \in Nat /\ dead \in Nat
      /\ InUse \in Nat /\ InUse = Cardinality(running) + orphans + dead
      /\ InUse <= PoolSize /\ PoolSize \in Nat
  BY Counts, PoolAssumption DEF TypeOK
<1>3. Waiting' = Waiting /\ Waiting \subseteq Checks
  BY <1>1 DEF Waiting
<1>4. /\ IsFiniteSet(running') /\ orphans' \in Nat /\ dead' \in Nat
      /\ InUse' <= PoolSize /\ dead' <= PoolSize
      /\ \A k \in Waiting \ excuse' : /\ dead' # PoolSize \/ dead' < dead
                                      /\ k \in running => k \in running'
  <2>1. CASE OrphanEnds
    <3>1. orphans > 0 /\ orphans' = orphans - 1 /\ UNCHANGED <<running, dead, excuse>>
      BY <2>1 DEF OrphanEnds
    <3>2. InUse' = InUse - 1 /\ orphans' \in Nat
      BY <1>2, <3>1 DEF InUse
    <3>3. \A k \in Waiting \ excuse : dead < PoolSize
      BY DEF Unexcused, Well
    <3> QED
      BY <1>2, <3>1, <3>2, <3>3
  <2>2. CASE ConnectionResets
    <3>1. dead > 0 /\ dead' = dead - 1 /\ UNCHANGED <<running, orphans, excuse>>
      BY <2>2 DEF ConnectionResets
    <3>2. InUse' = InUse - 1 /\ dead' \in Nat /\ dead' < dead
      BY <1>2, <3>1 DEF InUse
    <3> QED
      BY <1>2, <3>1, <3>2
  <2>3. CASE ConnectionDies
    <3>1. dead' = dead + 1
      BY <2>3 DEF ConnectionDies
    <3>2. CASE /\ orphans > 0 /\ orphans' = orphans - 1 /\ UNCHANGED running
               /\ excuse' = IF dead' = PoolSize THEN excuse \cup Waiting ELSE excuse
      <4>1. InUse' = InUse /\ orphans' \in Nat
        BY <1>2, <3>1, <3>2 DEF InUse
      <4>2. \A k \in Waiting \ excuse' : dead' # PoolSize
        BY <3>2
      <4> QED
        BY <1>2, <3>1, <3>2, <4>1, <4>2
    <3>3. ASSUME NEW k \in running, running' = running \ {k}, orphans' = orphans,
                 excuse' = IF dead' = PoolSize THEN excuse \cup Waiting ELSE excuse \cup {k}
          PROVE  /\ IsFiniteSet(running') /\ orphans' \in Nat /\ dead' \in Nat
                 /\ InUse' <= PoolSize /\ dead' <= PoolSize
                 /\ \A j \in Waiting \ excuse' : /\ dead' # PoolSize \/ dead' < dead
                                                 /\ j \in running => j \in running'
      <4>1. /\ IsFiniteSet(running') /\ Cardinality(running') = Cardinality(running) - 1
            /\ Cardinality(running) > 0
        BY <3>3, Counts
      <4>2. InUse' = InUse
        BY <1>2, <3>1, <3>3, <4>1 DEF InUse
      <4>3. \A j \in Waiting \ excuse' : dead' # PoolSize /\ j # k
        BY <3>3
      <4> QED
        BY <1>2, <3>1, <3>3, <4>1, <4>2, <4>3
    <3> QED
      BY <2>3, <3>2, <3>3 DEF ConnectionDies
  <2> QED
    BY <2>1, <2>2, <2>3
<1>5. TypeOK'
  <2>1. excuse' \in SUBSET Checks
    BY <1>1, <1>3 DEF TypeOK
  <2> QED
    BY <1>1, <1>3, <1>4, <2>1 DEF TypeOK
<1>6. OnePlace'
  BY <1>1 DEF OnePlace, Queued
<1>7. Unexcused'
  <2> SUFFICES ASSUME NEW k \in Waiting', k \notin excuse'
               PROVE  Well' /\ elapsed'[k] = 0 /\ (k \in running' \/ Queued(k)')
    BY DEF Unexcused
  <2>1. /\ k \in Waiting \ excuse /\ k \in Waiting \ excuse'
        /\ db = "up" /\ elapsed[k] = 0 /\ (k \in running \/ Queued(k)) /\ dead < PoolSize
    BY <1>1, <1>3 DEF Unexcused, Well
  <2>2. dead' < PoolSize
    BY <1>2, <1>4, <2>1
  <2>3. Queued(k) => Queued(k)'
    BY <1>1 DEF Queued
  <2> QED
    BY <1>1, <1>4, <2>1, <2>2, <2>3 DEF Well
<1>8. AnswersOK' /\ SeenUp' /\ UpIsFirstHand' /\ NoFalseAlarm'
  BY <1>1, <1>3 DEF AnswersOK, SeenUp, UpIsFirstHand, NoFalseAlarm
<1> QED
  BY <1>1, <1>4, <1>5, <1>6, <1>7, <1>8, BootedStays

(* An outage excuses every check that waits, its end none.                  *)
LEMMA DatabaseStep ==
    ASSUME IInv, NEW state \in {"up", "failing", "hung"}, DatabaseChanges(state)
    PROVE  IInv'
<1> USE DEF IInv
<1>1. /\ state # db /\ changes < MaxChanges /\ db' = state /\ changes' = changes + 1
      /\ UNCHANGED <<env, settings, phase, running, orphans, dead, queue, elapsed, answer>>
      /\ sawUp' = IF state = "up" THEN sawUp \cup Waiting ELSE sawUp
      /\ excuse' = IF state = "up" THEN excuse ELSE excuse \cup Waiting
  BY DEF DatabaseChanges, poolVars
<1>2. Waiting' = Waiting /\ Waiting \subseteq Checks
  BY <1>1 DEF Waiting
<1>3. TypeOK' /\ IsFiniteSet(running)'
  BY <1>1, <1>2, ServerBoundsAssumption DEF TypeOK, InUse
<1>4. OnePlace' /\ AnswersOK'
  BY <1>1 DEF OnePlace, Queued, AnswersOK
<1>5. Unexcused'
  BY <1>1, <1>2 DEF Unexcused, Well
<1>6. SeenUp' /\ UpIsFirstHand' /\ NoFalseAlarm'
  BY <1>1, <1>2 DEF SeenUp, UpIsFirstHand, NoFalseAlarm
<1> QED
  BY <1>1, <1>3, <1>4, <1>5, <1>6, BootedStays

(* A tick finds no check without an excuse: its answer would come first.    *)
LEMMA TickStep ==
    ASSUME IInv, Tick
    PROVE  IInv'
<1> USE ServerNullAssumption, TimeoutAssumption DEF IInv
<1>1. /\ \A k \in Waiting : elapsed[k] < DbTimeout
      /\ db # "hung" => running = {} /\ orphans = 0 /\ (queue = <<>> \/ dead = PoolSize)
      /\ elapsed' = [k \in Checks |-> IF k \in Waiting THEN elapsed[k] + 1 ELSE Null]
      /\ UNCHANGED <<env, settings, phase, db, changes, running, orphans, dead, queue, answer, sawUp, excuse>>
  BY DEF Tick, poolVars
<1>2. \A k \in Waiting : elapsed[k] + 1 \in 0..DbTimeout
  BY <1>1 DEF TypeOK, Waiting
<1>3. Waiting' = Waiting /\ elapsed' \in [Checks -> 0..DbTimeout \cup {Null}]
  BY <1>1, <1>2 DEF Waiting
<1>4. Waiting \subseteq excuse
  <2> SUFFICES ASSUME NEW k \in Waiting, k \notin excuse
               PROVE  FALSE
    OBVIOUS
  <2>1. db = "up" /\ dead < PoolSize /\ (k \in running \/ Queued(k))
    BY DEF Unexcused, Well
  <2>2. queue = <<>> /\ running = {}
    BY <1>1, <2>1, PoolAssumption DEF TypeOK
  <2>3. Len(queue) = 0
    BY <2>2, EmptySeq
  <2> QED
    BY <2>1, <2>2, <2>3 DEF Queued
<1>5. TypeOK' /\ IsFiniteSet(running)'
  BY <1>1, <1>3 DEF TypeOK, InUse
<1>6. OnePlace' /\ AnswersOK' /\ SeenUp' /\ UpIsFirstHand' /\ NoFalseAlarm'
  BY <1>1, <1>3 DEF OnePlace, Queued, AnswersOK, SeenUp, UpIsFirstHand, NoFalseAlarm
<1>7. Unexcused'
  BY <1>1, <1>3, <1>4 DEF Unexcused
<1> QED
  BY <1>1, <1>5, <1>6, <1>7, BootedStays

-----------------------------------------------------------------------------
(* A server that has not booted has answered nothing.                       *)
LEMMA IInvInit == Init => IInv
<1> SUFFICES ASSUME Init
             PROVE  IInv
  OBVIOUS
<1> USE ServerNullAssumption, PoolAssumption, ServerBoundsAssumption DEF Init
<1>1. Waiting = {} /\ Len(queue) = 0
  BY EmptySeq DEF Waiting
<1>2. IsFiniteSet(running) /\ InUse = 0
  BY FS_EmptySet DEF InUse
<1>3. queue \in Seq(Waiting \cup {Null})
  BY EmptySeq
<1>4. TypeOK
  BY <1>1, <1>2, <1>3 DEF TypeOK
<1>5. OnePlace /\ AnswersOK /\ Unexcused /\ SeenUp /\ UpIsFirstHand /\ NoFalseAlarm /\ Booted
  BY <1>1 DEF OnePlace, Queued, AnswersOK, Unexcused, SeenUp, UpIsFirstHand, NoFalseAlarm, Booted
<1> QED
  BY <1>2, <1>4, <1>5 DEF IInv

(* And no step breaks what the answers rest on.                             *)
LEMMA IInvStep == IInv /\ [Next]_vars => IInv'
<1> SUFFICES ASSUME IInv, [Next]_vars
             PROVE  IInv'
  OBVIOUS
<1>1. CASE Boot
  BY <1>1, BootStep
<1>2. ASSUME NEW k \in Checks, Ask(k) \/ QueryAnswers(k) \/ QueryFails(k) \/ TimerFires(k)
      PROVE  IInv'
  BY <1>2, AskStep, AnswerStep, TimerStep
<1>3. CASE Connect
  BY <1>3, ConnectStep
<1>4. CASE OrphanEnds \/ ConnectionDies \/ ConnectionResets
  BY <1>4, PoolStep
<1>5. ASSUME NEW state \in {"up", "failing", "hung"}, DatabaseChanges(state)
      PROVE  IInv'
  BY <1>5, DatabaseStep
<1>6. CASE Tick
  BY <1>6, TickStep
<1>7. CASE UNCHANGED vars
  <2> USE <1>7 DEF vars, poolVars, IInv
  <2>1. TypeOK' /\ IsFiniteSet(running)'
    BY DEF TypeOK, Waiting, InUse
  <2>2. OnePlace' /\ AnswersOK' /\ SeenUp' /\ UpIsFirstHand' /\ NoFalseAlarm'
    BY DEF OnePlace, Queued, AnswersOK, SeenUp, Waiting, UpIsFirstHand, NoFalseAlarm
  <2>3. Unexcused'
    BY DEF Unexcused, Waiting, Well, Queued
  <2> QED
    BY <2>1, <2>2, <2>3, BootedStays
<1> QED
  BY <1>1, <1>2, <1>3, <1>4, <1>5, <1>6, <1>7 DEF Next

(* The variables of Server keep their types, and the pool never has more    *)
(* connections in use than it may keep.                                     *)
THEOREM ServerTypeCorrect == Spec => []TypeOK
<1>1. IInv => TypeOK
  BY DEF IInv
<1> QED
  BY <1>1, IInvInit, IInvStep, PTL DEF Spec

(* A check is answered 200 only if the database was up while it ran.        *)
THEOREM UpIsSeen == Spec => []UpIsFirstHand
<1>1. IInv => UpIsFirstHand
  BY DEF IInv
<1> QED
  BY <1>1, IInvInit, IInvStep, PTL DEF Spec

(* And it is answered 503 only if the database was not up all the while it  *)
(* ran, or no connection was to be had, or its own died: what earlier       *)
(* checks left in the pool and its queue never suffices.                    *)
THEOREM AlarmsHaveCauses == Spec => []NoFalseAlarm
<1>1. IInv => NoFalseAlarm
  BY DEF IInv
<1> QED
  BY <1>1, IInvInit, IInvStep, PTL DEF Spec

-----------------------------------------------------------------------------
(* A number that is read is the fallback if none was written, and otherwise *)
(* the one that was.                                                        *)
LEMMA NumberIsRead ==
    ASSUME NEW value, NEW fallback, EnvNumber(value, fallback) # Throws
    PROVE  \/ /\ value.form \in {"unset", "empty", "blank"}
              /\ EnvNumber(value, fallback) = fallback
           \/ /\ value.form = "number" /\ value.halves > 0
              /\ EnvNumber(value, fallback) = value.halves
BY DEF EnvNumber, IsBlank

(* The defaults in the code are the ones that are documented.               *)
LEMMA DefaultsAreDocumented ==
    ASSUME NEW name \in Numbers
    PROVE  Default(name) = DocumentedDefault[name]
BY DEF Default, DocumentedDefault, Numbers

(* A server that listens goes by what was written, in its numbers, its      *)
(* toggles and its port, and has the credentials it enforces.               *)
THEOREM ListenersAreConfigured == Spec => []ListeningIsConfigured
<1>1. IInv => ListeningIsConfigured
  <2> SUFFICES ASSUME IInv, phase = "listening"
               PROVE  ListeningIsConfigured
    BY DEF ListeningIsConfigured
  <2>1. /\ Boots /\ settings = SettingsRead
        /\ JwtConfig /\ R2Config /\ Throttler /\ Prisma /\ Middleware /\ Port
    BY DEF IInv, Booted, Boots
  <2>2. ASSUME NEW name \in Numbers
        PROVE  \/ /\ env[name].form \in {"unset", "empty", "blank"}
                  /\ settings.numbers[name] = DocumentedDefault[name]
               \/ /\ env[name].form = "number" /\ env[name].halves > 0
                  /\ settings.numbers[name] = env[name].halves
    <3>1. NumberRead(name) # Throws
      BY <2>1 DEF JwtConfig, R2Config, Throttler, Middleware, Numbers
    <3>2. settings.numbers[name] = EnvNumber(env[name], Default(name))
      BY <2>1 DEF SettingsRead, NumberRead
    <3>3. EnvNumber(env[name], Default(name)) # Throws
      BY <3>1 DEF NumberRead
    <3> QED
      BY <3>2, <3>3, NumberIsRead, DefaultsAreDocumented
  <2>3. \A name \in Toggles : /\ settings.toggles[name] = EnvToggle(env[name])
                              /\ EnvToggle(env[name]) # Throws
    BY <2>1 DEF SettingsRead, Prisma, Middleware, Toggles
  <2>4. ASSUME NEW name \in Toggles
        PROVE  env[name].form = IF settings.toggles[name] THEN "yes" ELSE "no"
    BY <2>3 DEF EnvToggle
  <2>5. ASSUME ~settings.toggles["IS_VO1D_TESTING"], NEW name \in Credentials
        PROVE  env[name].form \notin {"unset", "empty"}
    <3>1. EnvToggle(env["IS_VO1D_TESTING"]) = FALSE
      BY <2>3, <2>5 DEF EnvToggle, Toggles
    <3>2. RequireEnv(env[name]) # Throws
      BY <2>1, <3>1 DEF Middleware
    <3> QED
      BY <3>2 DEF RequireEnv
  <2>6. \/ env["PORT"].form = "number" /\ settings.port = env["PORT"].halves
        \/ env["PORT"].form = "blank" /\ settings.port = 0
    <3>1. settings.port = ToNumber(env["PORT"])
      BY <2>1 DEF SettingsRead
    <3>2. env["PORT"].form \in {"number", "blank"}
      BY <2>1 DEF Port
    <3>3. env["PORT"].form = "number" => ToNumber(env["PORT"]) = env["PORT"].halves
      BY DEF ToNumber
    <3>4. env["PORT"].form = "blank" => ToNumber(env["PORT"]) = 0
      BY DEF ToNumber
    <3> QED
      BY <3>1, <3>2, <3>3, <3>4
  <2> QED
    BY <2>2, <2>4, <2>5, <2>6 DEF ListeningIsConfigured
<1> QED
  BY <1>1, IInvInit, IInvStep, PTL DEF Spec

(* An amount of at least two halves is at least one second.                 *)
LEMMA WholeSecond ==
    ASSUME NEW n \in Int, n >= 2
    PROVE  n \div 2 > 0
OBVIOUS

(* A positive even number is two at least.                                  *)
LEMMA EvenIsTwo ==
    ASSUME NEW n \in Int, n > 0, n % 2 = 0
    PROVE  n >= 2
OBVIOUS

(* A listening server signs access tokens that last, unless JWT_EXPIRE_IN   *)
(* is a fraction of seconds or a duration below one second.                 *)
THEOREM TokensLast == Spec => []AccessTokensLast
<1>1. IInv => AccessTokensLast
  <2> DEFINE x == settings.expiresIn
             n == x.halves
  <2> SUFFICES ASSUME IInv, phase = "listening",
                      ~(x.form = "number" /\ n % 2 # 0), ~(x.form = "duration" /\ n < 2)
               PROVE  SignedLifetime(x) # Throws /\ SignedLifetime(x) > 0
    BY DEF AccessTokensLast
  <2>1. n \in Int /\ n \div 2 # Throws
    BY AmountsAssumption DEF IInv, TypeOK, Setting
  <2>2. (x.form = "number" /\ n > 0) \/ x.form = "duration"
    BY DEF IInv, Booted, Boots, JwtConfig, ExpiresIn, SettingsRead
  <2>3. n >= 2
    <3>1. CASE x.form = "number"
      <4>1. n > 0 /\ n % 2 = 0
        BY <2>2, <3>1
      <4> HIDE DEF n
      <4> QED
        BY <2>1, <4>1, EvenIsTwo
    <3>2. CASE x.form = "duration"
      BY <2>1, <3>2
    <3> QED
      BY <2>2, <3>1, <3>2
  <2>4. SignedLifetime(x) = n \div 2
    BY DEF SignedLifetime
  <2> HIDE DEF n
  <2>5. n \div 2 > 0
    BY <2>1, <2>3, WholeSecond
  <2> QED
    BY <2>1, <2>4, <2>5
<1> QED
  BY <1>1, IInvInit, IInvStep, PTL DEF Spec
=============================================================================
