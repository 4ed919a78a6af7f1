--------------------------- MODULE SessionLedger ---------------------------
(***************************************************************************)
(* What the refresh-token table promises of a session, whatever requests,  *)
(* failures and cleanups interleave: it is opened once, its one credential *)
(* is handed over whole from a token to the next, and once over it is over. *)
(***************************************************************************)
CONSTANT Sessions

VARIABLE phase    \* session -> where it is in its life

Phases == {"unopened", "active", "handover", "over"}

TypeOK == phase \in [Sessions -> Phases]

Init == phase = [s \in Sessions |-> "unopened"]

Open(s) ==
    /\ phase[s] = "unopened"
    /\ phase' = [phase EXCEPT ![s] = "active"]

\* The session's token is spent; no token of the session is good any more.
BeginHandover(s) ==
    /\ phase[s] = "active"
    /\ phase' = [phase EXCEPT ![s] = "handover"]

FinishHandover(s) ==
    /\ phase[s] = "handover"
    /\ phase' = [phase EXCEPT ![s] = "active"]

\* The rotation failed half way: the old token is spent and there is no new one.
FailHandover(s) ==
    /\ phase[s] = "handover"
    /\ phase' = [phase EXCEPT ![s] = "over"]

\* A logout, a logout from everywhere, a detected replay, or the cleanup.
Close(S) ==
    /\ \A s \in S : phase[s] = "active"
    /\ phase' = [s \in Sessions |-> IF s \in S THEN "over" ELSE phase[s]]

Next ==
    \/ \E s \in Sessions : \/ Open(s)
                           \/ BeginHandover(s)
                           \/ FinishHandover(s)
                           \/ FailHandover(s)
    \/ \E S \in SUBSET Sessions : Close(S)

Spec == Init /\ [][Next]_phase
=============================================================================
