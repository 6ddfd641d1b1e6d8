----------------------------- MODULE Settlement -----------------------------
(***************************************************************************)
(* What a battle room promises about its result, apart from how the room   *)
(* computes it (internal/game/room.go): one outcome is decided, once; each *)
(* of the two players is credited with what that outcome owes him, never   *)
(* twice and never for a draw; each of them is sent the result, once.      *)
(*                                                                         *)
(* A credit is an attempt whose failure the room only logs, so nothing     *)
(* obliges it to happen, and so is a result on its way to the player; the  *)
(* outcome must come, and the result must be sent.                         *)
(***************************************************************************)
EXTENDS Naturals

CONSTANTS Players,              \* the ids of the two players
          NoPlayer,             \* id 0, the winner and the loser of a draw
          WinScore, LoseScore   \* ranking points of the winner, of the loser

VARIABLES outcome,   \* the decision, Undecided before it
          credit,    \* ranking points credited to each player
          sent,      \* how many times each player was sent the result
          results    \* how many times it reached him

vars == <<outcome, credit, sent, results>>

Undecided == [winner |-> NoPlayer, loser |-> NoPlayer, reason |-> ""]

Verdicts ==
    {v \in [winner : Players, loser : Players,
            reason : {"kill", "opponent_left", "timeout"}] : v.winner # v.loser}
    \cup {[winner |-> NoPlayer, loser |-> NoPlayer, reason |-> "draw"]}

\* The points the outcome owes to p; a draw (winner 0) owes nothing.
Owed(p) == IF p = outcome.winner THEN WinScore
           ELSE IF p = outcome.loser THEN LoseScore ELSE 0

Init == /\ outcome = Undecided
        /\ credit = [p \in Players |-> 0]
        /\ sent = [p \in Players |-> 0]
        /\ results = [p \in Players |-> 0]

Decide == /\ outcome = Undecided
          /\ outcome' \in Verdicts
          /\ UNCHANGED <<credit, sent, results>>

Credit(p) == /\ outcome # Undecided
             /\ credit[p] = 0
             /\ credit' = [credit EXCEPT ![p] = Owed(p)]
             /\ UNCHANGED <<outcome, sent, results>>

Deliver(p) == /\ outcome # Undecided
              /\ sent[p] = 0
              /\ sent' = [sent EXCEPT ![p] = 1]
              /\ \E n \in {0, 1} : results' = [results EXCEPT ![p] = n]
              /\ UNCHANGED <<outcome, credit>>

Next == \/ Decide
        \/ \E p \in Players : Credit(p) \/ Deliver(p)

\* The safety part alone, for the implementation proof.
SafeSpec == Init /\ [][Next]_vars

Spec == /\ SafeSpec
        /\ WF_vars(Decide)
        /\ \A p \in Players : WF_vars(Deliver(p))
=============================================================================
