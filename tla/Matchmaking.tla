----------------------------- MODULE Matchmaking -----------------------------
(***************************************************************************)
(* What a match request promises its player, apart from how gateway, pools *)
(* and match loops keep it (HandleMatchReq and matchWorker in              *)
(* internal/gateway/gateway.go, MatchTick in internal/game/service.go): a  *)
(* player who asks is answered, once, with a battle he was paired into or, *)
(* if there is none, with a refusal; nobody is paired who is in a battle   *)
(* that goes on.                                                           *)
(*                                                                         *)
(* The promise is made to patient players who are here.  Who asks while he *)
(* waits or fights, or whose connection has ended, is promised nothing and *)
(* may be paired with anybody at any time.                                 *)
(***************************************************************************)
CONSTANTS Players, Patient, NoRoom

VARIABLES
    gone,      \* the players who are promised nothing (any more)
    asking,    \* of the others, those who wait for an answer
    news,      \* the battles each of them is still to be told of
    told,      \* the battle each of them was told of last
    battles,   \* those that were made
    over       \* the ids of those that are over

vars == <<gone, asking, news, told, battles, over>>

Init ==
    /\ gone = Players \ Patient
    /\ asking = {} /\ battles = {} /\ over = {}
    /\ news = [p \in Players |-> {}]
    /\ told = [p \in Players |-> NoRoom]

\* Player p is in no battle that goes on.
Free(p) == \A b \in battles : p \in b.players => b.id \in over

Ask(p) ==
    /\ p \notin gone \cup asking
    /\ Free(p)
    /\ asking' = asking \cup {p}
    /\ UNCHANGED <<gone, news, told, battles, over>>

\* Two are paired who wait or are promised nothing, into a battle with a new number.
Pair(p, q, id) ==
    /\ p # q /\ {p, q} \subseteq asking \cup gone
    /\ \A x \in {p, q} \ gone : Free(x) /\ news[x] = {}
    /\ \A b \in battles : b.id # id
    /\ battles' = battles \cup {[id |-> id, players |-> {p, q}]}
    /\ news' = [x \in Players |-> IF x \in {p, q} \ gone THEN {id} ELSE news[x]]
    /\ UNCHANGED <<gone, asking, told, over>>

\* The answer: the battle ...
Tell(p) ==
    /\ p \in asking
    /\ \E id \in news[p] : told' = [told EXCEPT ![p] = id]
    /\ news' = [news EXCEPT ![p] = {}]
    /\ asking' = asking \ {p}
    /\ UNCHANGED <<gone, battles, over>>

\* ... or that there is none.
Refuse(p) ==
    /\ p \in asking /\ news[p] = {}
    /\ asking' = asking \ {p}
    /\ UNCHANGED <<gone, news, told, battles, over>>

End(id) ==
    /\ over' = over \cup {id}
    /\ UNCHANGED <<gone, asking, news, told, battles>>

Leave(p) ==
    /\ p \notin gone
    /\ gone' = gone \cup {p}
    /\ asking' = asking \ {p}
    /\ news' = [news EXCEPT ![p] = {}]
    /\ told' = [told EXCEPT ![p] = NoRoom]
    /\ UNCHANGED <<battles, over>>

Next ==
    \/ \E p \in Patient : Ask(p) \/ Tell(p) \/ Refuse(p) \/ Leave(p)
    \/ \E b \in battles' \ battles : \E p, q \in Players : Pair(p, q, b.id)
    \/ \E b \in battles : End(b.id)

\* The safety part, which is what Lobby is proved to keep.
SafeSpec == Init /\ [][Next]_vars

\* Nobody who stays waits for ever.
Answered == \A p \in Patient : p \in asking ~> p \notin asking

Spec == SafeSpec /\ Answered

-----------------------------------------------------------------------------
\* Nobody who is here is in two battles that go on: Pair takes him only when he is in none.
OneBattle ==
    \A p \in Players \ gone : \A b, d \in battles :
        p \in b.players \cap d.players /\ b.id \notin over /\ d.id \notin over => b = d

\* Whoever is here and in a battle that goes on has been told of it last, or waits and will be
\* told.
Informed ==
    \A p \in Players \ gone : \A b \in battles :
        p \in b.players /\ b.id \notin over =>
            \/ p \in asking /\ news[p] = {b.id}
            \/ p \notin asking /\ told[p] = b.id
=============================================================================
