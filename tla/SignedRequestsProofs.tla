------------------------ MODULE SignedRequestsProofs ------------------------
(***************************************************************************)
(* Proofs of the invariants of SignedRequests, for any number of callers,  *)
(* servers and messages, any window and any bound.  Two facts carry them:  *)
(* every value a caller signs with is accepted by every server, at every   *)
(* point of a rotation; and a caller never goes back to an earlier value.  *)
(***************************************************************************)
EXTENDS SignedRequests, TLAPS

\* What a request is signed with, as its caller's variables had it.
Overtaken(m) ==
    \/ uses[sent[m].caller]["APP_KEY"] # sent[m].key
    \/ uses[sent[m].caller]["APP_SECRET"] # sent[m].signature.secret

\* No server is without the value some caller signs with.
CallersAreAccepted ==
    \A c \in Callers, n \in Credentials, s \in Servers :
        uses[c][n] \in {slots[s][n].current, slots[s][n].previous}

SignedInThePast ==
    \A m \in Messages : sent[m] # Null =>
        /\ m \notin ahead => sent[m].signature.timestamp <= now
        /\ sent[m].key <= uses[sent[m].caller]["APP_KEY"]
        /\ sent[m].signature.secret <= uses[sent[m].caller]["APP_SECRET"]

PassedWereGood ==
    \A m \in Messages : passes[m] # {} =>
        /\ sent[m] # Null
        /\ Protected(sent[m]) =>
              /\ sent[m].caller \in Trusted
              /\ sent[m].timestamp = sent[m].signature.timestamp
              /\ sent[m].content = sent[m].signature.content
              /\ \A t \in passes[m] :
                     /\ t - sent[m].timestamp <= Window
                     /\ sent[m].timestamp - t <= Window
                     /\ m \notin ahead => sent[m].timestamp <= t

TurnedAwayAreOvertaken == \A m \in turnedAway : sent[m] # Null /\ Overtaken(m)

IInv ==
    /\ TypeOK
    /\ CallersAreAccepted
    /\ SignedInThePast
    /\ PassedWereGood
    /\ TurnedAwayAreOvertaken

-----------------------------------------------------------------------------
(* Every state the middleware and its callers start in satisfies IInv.      *)
LEMMA InitIInv == Init => IInv
BY BoundsAssumption, NullAssumption
   DEF Init, IInv, TypeOK, CallersAreAccepted, SignedInThePast, PassedWereGood,
       TurnedAwayAreOvertaken, Times, Slot, Versions, Credentials

(* A message keeps the fields its type says, wherever it is looked at.      *)
LEMMA SentTyped ==
    ASSUME TypeOK, NEW m \in Messages, sent[m] # Null
    PROVE  /\ sent[m] \in Message
           /\ sent[m].caller \in Callers
           /\ sent[m].key \in Versions
           /\ sent[m].timestamp \in Stamps
           /\ sent[m].content \in Content
           /\ sent[m].signature \in Mac
           /\ sent[m].signature.secret \in Versions
BY DEF TypeOK, Message, Mac

(* A good request that a server refuses was signed with a value its caller  *)
(* no longer uses: what it uses now is accepted everywhere.                 *)
LEMMA RefusedIsOvertaken ==
    ASSUME IInv, NEW s \in Servers, NEW m \in Messages,
           sent[m] # Null, ~Admits(s, sent[m]), Good(sent[m])
    PROVE  Overtaken(m)
<1> DEFINE msg == sent[m]
           c == sent[m].caller
<1>1. /\ c \in Callers
      /\ msg.key \in Versions
      /\ msg.signature \in Mac
      /\ msg.signature.secret \in Versions
  BY SentTyped DEF IInv
<1>2. SUFFICES ASSUME uses[c]["APP_KEY"] = msg.key,
                      uses[c]["APP_SECRET"] = msg.signature.secret
               PROVE  FALSE
  BY DEF Overtaken
<1>3. 0 \notin Versions
  BY DEF Versions
<1>4. msg.key \in AcceptedValues(s, "APP_KEY")
  BY <1>1, <1>2, <1>3 DEF IInv, CallersAreAccepted, AcceptedValues, Credentials
<1>5. msg.signature.secret \in AcceptedValues(s, "APP_SECRET")
  BY <1>1, <1>2, <1>3 DEF IInv, CallersAreAccepted, AcceptedValues, Credentials
<1>6. PICK secret \in AcceptedValues(s, "APP_SECRET") :
          secret = msg.signature.secret
  BY <1>5
<1>7. msg.signature = [secret |-> secret, timestamp |-> msg.timestamp,
                       content |-> msg.content]
  BY <1>1, <1>6, SentTyped DEF IInv, Good, Mac
<1> QED
  BY <1>4, <1>7 DEF Admits, Good, SignatureMatches

-----------------------------------------------------------------------------
(* Sending: the caller signs with the values it uses, and may be ahead.     *)
LEMMA SendKeepsIInv ==
    ASSUME IInv, NEW m \in Messages, NEW c \in Callers,
           NEW signed \in Stamped, NEW carried \in Stamped,
           Send(m, c, signed, carried)
    PROVE  IInv'
<1> DEFINE msg == [caller |-> c, key |-> uses[c]["APP_KEY"],
                   timestamp |-> carried.timestamp, content |-> carried.content,
                   signature |-> [secret |-> uses[c]["APP_SECRET"],
                                  timestamp |-> signed.timestamp,
                                  content |-> signed.content]]
<1>1. /\ sent' = [sent EXCEPT ![m] = msg]
      /\ sent[m] = Null
      /\ ahead' = IF signed.timestamp > now THEN ahead \cup {m} ELSE ahead
      /\ UNCHANGED <<now, slots, uses, passes, turnedAway>>
  BY DEF Send
<1>2. /\ uses[c]["APP_KEY"] \in Versions /\ uses[c]["APP_SECRET"] \in Versions
      /\ signed.timestamp \in Int /\ now \in Int
  BY BoundsAssumption DEF IInv, TypeOK, Credentials, Stamped, Stamps, Times
<1>3. msg \in Message
  BY <1>2 DEF Message, Mac, Stamped
<1>4. TypeOK'
  BY <1>1, <1>3 DEF IInv, TypeOK
<1>5. CallersAreAccepted'
  BY <1>1 DEF IInv, CallersAreAccepted
<1>6. /\ msg.signature.timestamp = signed.timestamp
      /\ msg.key <= uses[msg.caller]["APP_KEY"]
      /\ msg.signature.secret <= uses[msg.caller]["APP_SECRET"]
  BY <1>2 DEF Versions
<1> HIDE DEF msg
<1>7. \A x \in Messages : sent'[x] = IF x = m THEN msg ELSE sent[x]
  BY <1>1 DEF IInv, TypeOK
<1>8. \A x \in Messages \ {m} : x \notin ahead' => x \notin ahead
  BY <1>1
<1>9. m \notin ahead' => msg.signature.timestamp <= now
  BY <1>1, <1>2, <1>6
<1>10. SignedInThePast'
  BY <1>1, <1>6, <1>7, <1>8, <1>9 DEF IInv, SignedInThePast
<1>11. PassedWereGood'
  <2>1. \A x \in Messages : passes'[x] # {} => x # m
    BY <1>1 DEF IInv, PassedWereGood
  <2> QED
    BY <1>1, <1>7, <1>8, <2>1 DEF IInv, PassedWereGood, Protected
<1>12. TurnedAwayAreOvertaken'
  BY <1>1, <1>7 DEF IInv, TurnedAwayAreOvertaken, Overtaken, TypeOK
<1> QED
  BY <1>4, <1>5, <1>10, <1>11, <1>12 DEF IInv

(* Passing: what the checks compared is what the history says of it.        *)
LEMMA PassKeepsIInv ==
    ASSUME IInv, NEW s \in Servers, NEW m \in Messages, Pass(s, m)
    PROVE  IInv'
<1>1. /\ passes' = [passes EXCEPT ![m] = @ \cup {now}]
      /\ sent[m] # Null /\ Admits(s, sent[m])
      /\ UNCHANGED <<now, slots, uses, sent, ahead, turnedAway>>
  BY DEF Pass
<1>2. TypeOK'
  BY <1>1 DEF IInv, TypeOK
<1>3. CallersAreAccepted' /\ SignedInThePast'
  BY <1>1 DEF IInv, CallersAreAccepted, SignedInThePast
<1>4. TurnedAwayAreOvertaken'
  BY <1>1 DEF IInv, TurnedAwayAreOvertaken, Overtaken
<1>5. PassedWereGood'
  <2>1. \A x \in Messages :
            passes'[x] = IF x = m THEN passes[m] \cup {now} ELSE passes[x]
    BY <1>1 DEF IInv, TypeOK
  <2>2. Protected(sent[m]) =>
            /\ sent[m].caller \in Trusted
            /\ sent[m].timestamp = sent[m].signature.timestamp
            /\ sent[m].content = sent[m].signature.content
            /\ now - sent[m].timestamp <= Window
            /\ sent[m].timestamp - now <= Window
            /\ m \notin ahead => sent[m].timestamp <= now
    <3>1. SignatureMatches(s, sent[m]) =>
              /\ sent[m].timestamp = sent[m].signature.timestamp
              /\ sent[m].content = sent[m].signature.content
      BY DEF SignatureMatches
    <3> QED
      BY <1>1, <3>1 DEF Admits, InWindow, IInv, SignedInThePast
  <2> QED
    BY <1>1, <2>1, <2>2 DEF IInv, PassedWereGood, Protected
<1> QED
  BY <1>2, <1>3, <1>4, <1>5 DEF IInv

(* Refusing changes nothing but the history.                                *)
LEMMA RefuseKeepsIInv ==
    ASSUME IInv, NEW s \in Servers, NEW m \in Messages, Refuse(s, m)
    PROVE  IInv'
<1>1. /\ turnedAway' = IF Good(sent[m]) THEN turnedAway \cup {m} ELSE turnedAway
      /\ sent[m] # Null /\ ~Admits(s, sent[m])
      /\ UNCHANGED <<now, slots, uses, sent, ahead, passes>>
  BY DEF Refuse
<1>2. TypeOK'
  BY <1>1 DEF IInv, TypeOK
<1>3. CallersAreAccepted' /\ SignedInThePast' /\ PassedWereGood'
  BY <1>1 DEF IInv, CallersAreAccepted, SignedInThePast, PassedWereGood, Protected
<1>4. TurnedAwayAreOvertaken'
  <2>1. Good(sent[m]) => Overtaken(m)
    BY <1>1, RefusedIsOvertaken
  <2> QED
    BY <1>1, <2>1 DEF IInv, TurnedAwayAreOvertaken, Overtaken
<1> QED
  BY <1>2, <1>3, <1>4 DEF IInv

-----------------------------------------------------------------------------
(* The first step of a rotation starts where every caller is on v - 1, and  *)
(* keeps that value as the previous one.                                    *)
LEMMA AddValueKeepsIInv ==
    ASSUME IInv, NEW s \in Servers, NEW n \in Credentials, NEW v \in Versions,
           AddValue(s, n, v)
    PROVE  IInv'
<1>1. /\ slots' = [slots EXCEPT ![s][n] = [current |-> v, previous |-> v - 1]]
      /\ \A c \in Callers : uses[c][n] = v - 1
      /\ UNCHANGED <<now, uses, sent, ahead, passes, turnedAway>>
  BY DEF AddValue
<1>2. [current |-> v, previous |-> v - 1] \in Slot
  BY BoundsAssumption DEF Slot, Versions
<1>3. TypeOK'
  BY <1>1, <1>2 DEF IInv, TypeOK
<1>4. \A x \in Servers, y \in Credentials :
          slots'[x][y] = IF x = s /\ y = n
                         THEN [current |-> v, previous |-> v - 1]
                         ELSE slots[x][y]
  BY <1>1 DEF IInv, TypeOK
<1>5. CallersAreAccepted'
  BY <1>1, <1>4 DEF IInv, CallersAreAccepted
<1>6. SignedInThePast' /\ PassedWereGood' /\ TurnedAwayAreOvertaken'
  BY <1>1 DEF IInv, SignedInThePast, PassedWereGood, Protected,
              TurnedAwayAreOvertaken, Overtaken
<1> QED
  BY <1>3, <1>5, <1>6 DEF IInv

(* A caller only moves forward, to the value that is current everywhere.    *)
LEMMA SwitchCallerKeepsIInv ==
    ASSUME IInv, NEW c \in Callers, NEW n \in Credentials, NEW v \in Versions,
           SwitchCaller(c, n, v)
    PROVE  IInv'
<1>1. /\ uses' = [uses EXCEPT ![c][n] = v]
      /\ uses[c][n] = v - 1
      /\ \A s \in Servers : slots[s][n].current = v
      /\ UNCHANGED <<now, slots, sent, ahead, passes, turnedAway>>
  BY DEF SwitchCaller
<1>2. TypeOK'
  BY <1>1 DEF IInv, TypeOK
<1>3. \A x \in Callers, y \in Credentials :
          uses'[x][y] = IF x = c /\ y = n THEN v ELSE uses[x][y]
  BY <1>1 DEF IInv, TypeOK
<1>4. CallersAreAccepted'
  BY <1>1, <1>3 DEF IInv, CallersAreAccepted
<1>5. \A x \in Callers, y \in Credentials :
          /\ uses[x][y] \in Nat /\ uses'[x][y] \in Nat
          /\ uses[x][y] <= uses'[x][y]
  BY <1>1, <1>3 DEF IInv, TypeOK, Versions
<1>6. \A m \in Messages : sent[m] # Null =>
          /\ sent[m].caller \in Callers
          /\ sent[m].key \in Nat
          /\ sent[m].signature.secret \in Nat
  BY SentTyped DEF IInv, Versions
<1>7. "APP_KEY" \in Credentials /\ "APP_SECRET" \in Credentials
  BY DEF Credentials
<1>8. SignedInThePast'
  BY <1>1, <1>5, <1>6, <1>7 DEF IInv, SignedInThePast
<1>9. TurnedAwayAreOvertaken'
  <2> SUFFICES ASSUME NEW m \in turnedAway
               PROVE  (sent[m] # Null /\ Overtaken(m))'
    BY <1>1 DEF TurnedAwayAreOvertaken
  <2>1. m \in Messages /\ sent[m] # Null /\ Overtaken(m)
    BY DEF IInv, TypeOK, TurnedAwayAreOvertaken
  <2>2. /\ sent[m].key <= uses[sent[m].caller]["APP_KEY"]
        /\ sent[m].signature.secret <= uses[sent[m].caller]["APP_SECRET"]
    BY <2>1 DEF IInv, SignedInThePast
  <2> QED
    BY <1>1, <1>5, <1>6, <1>7, <2>1, <2>2 DEF Overtaken
<1>10. PassedWereGood'
  BY <1>1 DEF IInv, PassedWereGood, Protected
<1> QED
  BY <1>2, <1>4, <1>8, <1>9, <1>10 DEF IInv

(* The last step drops a value that no caller signs with any more.          *)
LEMMA DropPreviousKeepsIInv ==
    ASSUME IInv, NEW s \in Servers, NEW n \in Credentials, DropPrevious(s, n)
    PROVE  IInv'
<1>1. /\ slots' = [slots EXCEPT ![s][n].previous = 0]
      /\ \A c \in Callers : uses[c][n] = slots[s][n].current
      /\ UNCHANGED <<now, uses, sent, ahead, passes, turnedAway>>
  BY DEF DropPrevious
<1>2. /\ slots[s][n] \in Slot
      /\ [slots[s][n] EXCEPT !.previous = 0] \in Slot
  <2>1. slots[s][n] \in Slot
    BY DEF IInv, TypeOK
  <2>2. 0 \in 0..MaxVersion
    BY BoundsAssumption
  <2> QED
    BY <2>1, <2>2 DEF Slot
<1>3. \A x \in Servers, y \in Credentials :
          slots'[x][y] = IF x = s /\ y = n
                         THEN [slots[s][n] EXCEPT !.previous = 0]
                         ELSE slots[x][y]
  BY <1>1 DEF IInv, TypeOK
<1>4. TypeOK'
  BY <1>1, <1>2 DEF IInv, TypeOK
<1>5. CallersAreAccepted'
  BY <1>1, <1>2, <1>3 DEF IInv, CallersAreAccepted, Slot
<1>6. SignedInThePast' /\ PassedWereGood' /\ TurnedAwayAreOvertaken'
  BY <1>1 DEF IInv, SignedInThePast, PassedWereGood, Protected,
              TurnedAwayAreOvertaken, Overtaken
<1> QED
  BY <1>4, <1>5, <1>6 DEF IInv

-----------------------------------------------------------------------------
(* No step of callers, servers, network, operator or clock breaks IInv.     *)
LEMMA StepIInv == IInv /\ [Next]_vars => IInv'
<1> SUFFICES ASSUME IInv, [Next]_vars PROVE IInv'
  OBVIOUS
<1>1. CASE \E m \in Messages, c \in Callers, signed \in Stamped, carried \in Stamped :
               Send(m, c, signed, carried)
  BY <1>1, SendKeepsIInv
<1>2. CASE \E s \in Servers, m \in Messages : Pass(s, m) \/ Refuse(s, m)
  BY <1>2, PassKeepsIInv, RefuseKeepsIInv
<1>3. CASE \E n \in Credentials : Rotate(n)
  BY <1>3, AddValueKeepsIInv, SwitchCallerKeepsIInv, DropPreviousKeepsIInv
  DEF Rotate
<1>4. CASE Tick
  <2>1. TypeOK'
    BY <1>4, BoundsAssumption DEF IInv, TypeOK, Tick, Times
  <2>2. SignedInThePast'
    <3>1. \A m \in Messages : sent[m] # Null => sent[m].signature.timestamp \in Int
      BY SentTyped, BoundsAssumption DEF IInv, Mac, Stamps
    <3>2. now \in Int
      BY BoundsAssumption DEF IInv, TypeOK, Times
    <3> QED
      BY <1>4, <3>1, <3>2 DEF IInv, Tick, SignedInThePast
  <2> QED
    BY <1>4, <2>1, <2>2 DEF IInv, Tick, CallersAreAccepted,
                      PassedWereGood, Protected, TurnedAwayAreOvertaken, Overtaken
<1>5. CASE UNCHANGED vars
  BY <1>5 DEF IInv, vars, TypeOK, CallersAreAccepted, SignedInThePast,
              PassedWereGood, Protected, TurnedAwayAreOvertaken, Overtaken
<1> QED
  BY <1>1, <1>2, <1>3, <1>4, <1>5 DEF Next

(* The strengthening of the checked invariants is an invariant.             *)
THEOREM Invariance == Spec => []IInv
BY InitIInv, StepIInv, PTL DEF Spec

(* The variables of the middleware and its callers keep their types.        *)
THEOREM RequestsTypeCorrect == Spec => []TypeOK
<1>1. IInv => TypeOK
  BY DEF IInv
<1> QED
  BY Invariance, <1>1, PTL

(* PassedIsWhatWasSigned: no method, path, body or date reaches a handler   *)
(* but the one a trusted caller signed, whatever the rotation is doing.     *)
THEOREM SignatureIsBinding == Spec => []PassedIsWhatWasSigned
<1>1. IInv => PassedIsWhatWasSigned
  BY DEF IInv, PassedWereGood, PassedIsWhatWasSigned
<1> QED
  BY Invariance, <1>1, PTL

(* A signature is good for one window, as the README says, if its caller's  *)
(* clock was not ahead, and for two at most if it was.                      *)
THEOREM LifetimeIsBounded == Spec => []SignaturesExpire
<1>1. IInv => SignaturesExpire
  <2> SUFFICES ASSUME IInv, NEW m \in Messages, passes[m] # {}, Protected(sent[m]),
                      NEW t \in passes[m], NEW u \in passes[m]
               PROVE  t - u <= IF m \in ahead THEN 2 * Window ELSE Window
    BY DEF SignaturesExpire, PassesWithin
  <2>1. /\ t - sent[m].timestamp <= Window
        /\ sent[m].timestamp - u <= Window
        /\ m \notin ahead => sent[m].timestamp <= u
    BY DEF IInv, PassedWereGood
  <2>2. t \in Int /\ u \in Int /\ sent[m].timestamp \in Int /\ Window \in Int
    BY SentTyped, BoundsAssumption, WindowAssumption
    DEF IInv, PassedWereGood, TypeOK, Times, Stamps
  <2> QED
    BY <2>1, <2>2
<1> QED
  BY Invariance, <1>1, PTL

(* A rotation in the order of the deploys refuses no good request but those *)
(* signed before their caller switched.                                     *)
THEOREM RotationLocksNobodyOut == Spec => []OnlyOvertakenAreRefused
<1>1. IInv => OnlyOvertakenAreRefused
  BY DEF IInv, TurnedAwayAreOvertaken, Overtaken, OnlyOvertakenAreRefused
<1> QED
  BY Invariance, <1>1, PTL
=============================================================================
