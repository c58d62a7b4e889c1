--------------------------- MODULE MatchAgreement ---------------------------
(***************************************************************************)
(* What the matchmaking service promises about one match, seen as an       *)
(* agreement between its two players: a match is proposed to two players,  *)
(* each of them may consent while it waits, it begins in the same step in  *)
(* which the last consent is recorded, it can be finished only if it       *)
(* began, and a match that is over never begins again.                     *)
(*                                                                         *)
(* Cancelling is deliberately possible in every phase: the service issues  *)
(* an UPDATE without a status guard (game_sessions.sql:30), so a stronger  *)
(* promise would not be one the code keeps.                                *)
(***************************************************************************)
CONSTANTS Users, Sessions

VARIABLES
  phase,     \* [Sessions -> Phases]
  parties,   \* [Sessions -> SUBSET Users]: the two players it was proposed to
  consent,   \* [Sessions -> SUBSET Users]: the players who accepted
  begun      \* [Sessions -> BOOLEAN]: the game was started at some time

avars == <<phase, parties, consent, begun>>

Init ==
  /\ phase = [s \in Sessions |-> "absent"]
  /\ parties = [s \in Sessions |-> {}]
  /\ consent = [s \in Sessions |-> {}]
  /\ begun = [s \in Sessions |-> FALSE]

Propose(s, p, q) ==
  /\ phase[s] = "absent"
  /\ p # q
  /\ phase' = [phase EXCEPT ![s] = "waiting"]
  /\ parties' = [parties EXCEPT ![s] = {p, q}]
  /\ UNCHANGED <<consent, begun>>

\* A player consents and the other one has not yet done so.
Consent(s, u) ==
  /\ phase[s] = "waiting"
  /\ u \in parties[s]
  /\ consent' = [consent EXCEPT ![s] = @ \cup {u}]
  /\ UNCHANGED <<phase, parties, begun>>

\* The consent of u is the one that was missing: the match begins.
Begin(s, u) ==
  /\ phase[s] = "waiting"
  /\ u \in parties[s]
  /\ parties[s] = consent[s] \cup {u}
  /\ consent' = [consent EXCEPT ![s] = @ \cup {u}]
  /\ phase' = [phase EXCEPT ![s] = "in_progress"]
  /\ begun' = [begun EXCEPT ![s] = TRUE]
  /\ UNCHANGED parties

Void(s) ==
  /\ phase[s] # "absent"
  /\ phase' = [phase EXCEPT ![s] = "cancelled"]
  /\ UNCHANGED <<parties, consent, begun>>

Finish(s) ==
  /\ begun[s]
  /\ phase' = [phase EXCEPT ![s] = "completed"]
  /\ UNCHANGED <<parties, consent, begun>>

Next ==
  \E s \in Sessions :
    \/ \E p, q \in Users : Propose(s, p, q)
    \/ \E u \in Users : Consent(s, u) \/ Begin(s, u)
    \/ Void(s)
    \/ Finish(s)

Spec == Init /\ [][Next]_avars
=============================================================================
