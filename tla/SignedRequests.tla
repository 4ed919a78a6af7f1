--------------------------- MODULE SignedRequests ---------------------------
(***************************************************************************)
(* SecurityMiddleware with enforcement on, the callers that sign requests, *)
(* and the rotation of the credentials both sides hold.  A request passes  *)
(* the middleware in one step: use() has no await.  The network may lose,  *)
(* delay, reorder and repeat requests, and what arrives need not be what   *)
(* was signed: a body serialised twice, a path rewritten on the way, an    *)
(* x-timestamp that is not the one in the canonical string.                *)
(*                                                                         *)
(* An HMAC is the pair of secret and text, so it has no collisions.  A     *)
(* header that is missing or no date is refused like one that does not     *)
(* match, and APP_NAME is the same everywhere: both are left out.          *)
(***************************************************************************)
EXTENDS Integers

CONSTANTS
    Callers,     \* processes that sign requests: the instances of the BFF
    Trusted,     \* those in ALLOWED_IPS whose User-Agent is accepted
    Servers,     \* instances of the API
    Messages,    \* signed requests on the wire
    Targets,     \* method and path, the query string stripped
    Exempt,      \* those on an open path, or whose method is OPTIONS
    Bodies,
    Redated,     \* timestamps a request may be given on its way, besides its own
    Window,      \* signatureWindowMs, in ticks
    MaxSkew,     \* bound on how far a caller's clock is off
    MaxTime,     \* bound on the clock of the API
    MaxVersion,  \* bound on the values a credential goes through
    Null         \* a message not sent yet

ASSUME TrustedAssumption == Trusted \subseteq Callers
ASSUME ExemptAssumption == Exempt \subseteq Targets
ASSUME WindowAssumption == Window \in Nat \ {0}
ASSUME BoundsAssumption ==
    MaxSkew \in Nat /\ MaxTime \in Nat /\ MaxSkew <= MaxTime /\ MaxVersion \in Nat \ {0}

VARIABLES
    now,         \* Date.now() on the servers
    slots,       \* server -> credential -> its current and previous value
    uses,        \* caller -> credential -> the value it signs with
    sent,        \* message -> its headers and content
    (* History. *)
    ahead,       \* messages dated in the future when they were sent
    passes,      \* message -> the times at which some server let it through
    turnedAway   \* messages refused although intact, fresh and from a trusted caller

vars == <<now, slots, uses, sent, ahead, passes, turnedAway>>

Credentials == {"APP_KEY", "APP_SECRET"}
Times == MaxSkew..MaxTime

\* The successive values of a credential are numbered; 0 is an empty variable.
Versions == 1..MaxVersion
Slot == [current : Versions, previous : 0..MaxVersion]

Content == [target : Targets, body : Bodies]

Stamps == 0..(MaxTime + MaxSkew)

Stamped == [timestamp : Stamps, content : Content]

\* The canonical string and the secret it is hashed with.
Mac == [secret : Versions, timestamp : Stamps, content : Content]

Message == [caller : Callers, key : Versions, timestamp : Stamps,
            content : Content, signature : Mac]

ASSUME RedatedAssumption == Redated \subseteq Stamps

ASSUME NullAssumption == Null \notin Message

TypeOK ==
    /\ now \in Times
    /\ slots \in [Servers -> [Credentials -> Slot]]
    /\ uses \in [Callers -> [Credentials -> Versions]]
    /\ sent \in [Messages -> Message \cup {Null}]
    /\ ahead \in SUBSET Messages
    /\ passes \in [Messages -> SUBSET Times]
    /\ turnedAway \in SUBSET Messages

Init ==
    /\ now = MaxSkew
    /\ slots = [s \in Servers |->
                   [n \in Credentials |-> [current |-> 1, previous |-> 0]]]
    /\ uses = [c \in Callers |-> [n \in Credentials |-> 1]]
    /\ sent = [m \in Messages |-> Null]
    /\ ahead = {}
    /\ passes = [m \in Messages |-> {}]
    /\ turnedAway = {}

-----------------------------------------------------------------------------
(* The middleware *)

(* Mutant: the _PREVIOUS variable is not read.                              *)
CurrentValue(s, n) == {slots[s][n].current}

(* [requireEnv(name), optionalEnv(`${name}_PREVIOUS`, '')].filter(Boolean)  *)
AcceptedValues(s, n) == {slots[s][n].current, slots[s][n].previous} \ {0}

(* Mutant: a timestamp in the future is never too far off.                  *)
NotTooOld(timestamp) == now - timestamp <= Window

(* Math.abs(now - requestTime) > this.signatureWindowMs                     *)
InWindow(timestamp) == now - timestamp <= Window /\ timestamp - now <= Window

(* Mutant: the body is not part of the canonical string.                    *)
TargetMatches(s, msg) ==
    \E secret \in AcceptedValues(s, "APP_SECRET"), body \in Bodies :
        msg.signature = [secret |-> secret, timestamp |-> msg.timestamp,
                         content |-> [msg.content EXCEPT !.body = body]]

(* Recomputed from what arrived, with each accepted secret.                 *)
SignatureMatches(s, msg) ==
    \E secret \in AcceptedValues(s, "APP_SECRET") :
        msg.signature = [secret |-> secret, timestamp |-> msg.timestamp,
                         content |-> msg.content]

Protected(msg) == msg.content.target \notin Exempt

Admits(s, msg) ==
    Protected(msg) =>
        /\ msg.key \in AcceptedValues(s, "APP_KEY")
        /\ msg.caller \in Trusted
        /\ InWindow(msg.timestamp)
        /\ SignatureMatches(s, msg)

Good(msg) ==
    /\ msg.caller \in Trusted
    /\ InWindow(msg.timestamp)
    /\ msg.timestamp = msg.signature.timestamp
    /\ msg.content = msg.signature.content

(* next()                                                                   *)
Pass(s, m) ==
    /\ sent[m] # Null /\ Admits(s, sent[m])
    /\ passes' = [passes EXCEPT ![m] = @ \cup {now}]
    /\ UNCHANGED <<now, slots, uses, sent, ahead, turnedAway>>

(* ForbiddenException: 403, whichever check it is that fails.               *)
Refuse(s, m) ==
    /\ sent[m] # Null /\ ~Admits(s, sent[m])
    /\ turnedAway' = IF Good(sent[m]) THEN turnedAway \cup {m} ELSE turnedAway
    /\ UNCHANGED <<now, slots, uses, sent, ahead, passes>>

-----------------------------------------------------------------------------
(* The callers, and the operator that rotates the credentials *)

\* The caller stamps the request by its own clock and signs stamp and content;
\* stamp and content may both be others by the time they arrive.
Send(m, c, signed, carried) ==
    /\ sent[m] = Null
    /\ signed.timestamp - now <= MaxSkew /\ now - signed.timestamp <= MaxSkew
    /\ carried.timestamp \in Redated \cup {signed.timestamp}
    /\ sent' = [sent EXCEPT ![m] =
                   [caller |-> c, key |-> uses[c]["APP_KEY"],
                    timestamp |-> carried.timestamp, content |-> carried.content,
                    signature |-> [secret |-> uses[c]["APP_SECRET"],
                                   timestamp |-> signed.timestamp,
                                   content |-> signed.content]]]
    /\ ahead' = IF signed.timestamp > now THEN ahead \cup {m} ELSE ahead
    /\ UNCHANGED <<now, slots, uses, passes, turnedAway>>

\* Each server restarts with the new value, and the old one as _PREVIOUS ...
AddValue(s, n, v) ==
    /\ slots[s][n] = [current |-> v - 1, previous |-> 0]
    /\ \A c \in Callers : uses[c][n] = v - 1
    /\ slots' = [slots EXCEPT ![s][n] = [current |-> v, previous |-> v - 1]]
    /\ UNCHANGED <<now, uses, sent, ahead, passes, turnedAway>>

\* ... then each caller takes the new value into use ...
SwitchCaller(c, n, v) ==
    /\ uses[c][n] = v - 1
    /\ \A s \in Servers : slots[s][n].current = v
    /\ uses' = [uses EXCEPT ![c][n] = v]
    /\ UNCHANGED <<now, slots, sent, ahead, passes, turnedAway>>

\* ... and then each server restarts with _PREVIOUS empty.
DropPrevious(s, n) ==
    /\ slots[s][n].previous # 0
    /\ \A c \in Callers : uses[c][n] = slots[s][n].current
    /\ slots' = [slots EXCEPT ![s][n].previous = 0]
    /\ UNCHANGED <<now, uses, sent, ahead, passes, turnedAway>>

Tick ==
    /\ now < MaxTime
    /\ now' = now + 1
    /\ UNCHANGED <<slots, uses, sent, ahead, passes, turnedAway>>

Rotate(n) ==
    \/ \E v \in Versions : \/ \E s \in Servers : AddValue(s, n, v)
                           \/ \E c \in Callers : SwitchCaller(c, n, v)
    \/ \E s \in Servers : DropPrevious(s, n)

Next ==
    \/ \E m \in Messages, c \in Callers, signed \in Stamped, carried \in Stamped :
           Send(m, c, signed, carried)
    \/ \E s \in Servers, m \in Messages : Pass(s, m) \/ Refuse(s, m)
    \/ \E n \in Credentials : Rotate(n)
    \/ Tick

Spec == Init /\ [][Next]_vars

-----------------------------------------------------------------------------
(* Properties *)

(* A request that reaches a handler is the one that was signed: method,     *)
(* path, body and date; and it comes from a trusted caller.  A signature is  *)
(* of no use with anything else, at whatever point of a rotation and on      *)
(* whichever server.                                                         *)
PassedIsWhatWasSigned ==
    \A m \in Messages :
        passes[m] # {} /\ Protected(sent[m]) =>
            /\ sent[m].timestamp = sent[m].signature.timestamp
            /\ sent[m].content = sent[m].signature.content
            /\ sent[m].caller \in Trusted

\* Whether two passes of one message, at t and u, are within a span.
PassesWithin(m, span) == \A t, u \in passes[m] : t - u <= span

(* README says that SIGNATURE_WINDOW_SECONDS is how long a signature stays   *)
(* valid.  That is so, whatever is done to the request on its way, if its    *)
(* caller's clock was not ahead.  The window is the distance allowed on      *)
(* either side of the timestamp, so a request dated in the future passes for *)
(* up to twice as long, however far in the future its date is.               *)
SignaturesExpire ==
    \A m \in Messages :
        passes[m] # {} /\ Protected(sent[m]) =>
            PassesWithin(m, IF m \in ahead THEN 2 * Window ELSE Window)

(* A rotation locks nobody out: a request that is intact, fresh and from a   *)
(* trusted caller is refused only if its caller has switched credentials     *)
(* since it signed it.                                                       *)
OnlyOvertakenAreRefused ==
    \A m \in turnedAway :
        \/ uses[sent[m].caller]["APP_KEY"] # sent[m].key
        \/ uses[sent[m].caller]["APP_SECRET"] # sent[m].signature.secret

(* README asks for no wait between the callers' switch and dropping the old  *)
(* value, since "nothing outlives the switch"; a request in flight does.     *)
NothingOutlivesTheSwitch == turnedAway = {}
=============================================================================
