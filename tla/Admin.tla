-------------------------------- MODULE Admin --------------------------------
(***************************************************************************)
(* The ranking (internal/rank/rank.go) and what is asked of it and of the  *)
(* accounts: the players' RankQuery through the gateway and the operators' *)
(* HTTP interface (internal/api).                                          *)
(*                                                                         *)
(* A request that changes nothing is an operator: its answer in the        *)
(* current state, given which of the services it needs are reachable.      *)
(***************************************************************************)
EXTENDS Accounts, Sequences

CONSTANTS
    Veterans, VeteranScore,   \* players in the ranking who are away, and their scores
    NoNumber,     \* a query without n, or with what is no number
    DefaultTop, MaxTop,   \* 10 and 100
    AdminTtl,     \* JWTExpireSec, in units of Tick
    Points,       \* 1 and 10, of a battle
    MaxScore      \* bound on the points of a player

Players == Accounts \cup Veterans

ASSUME AdminAssumption ==
    /\ Players \subseteq Nat \ {0} /\ IsFiniteSet(Players) /\ Nobody \notin Players
    /\ DefaultTop \in 1..MaxTop /\ MaxTop \in Nat
    /\ AdminTtl \in Nat /\ Points \subseteq Nat /\ VeteranScore \in [Veterans -> Nat]
    /\ NoNumber \notin Int /\ MaxScore \in Nat

VARIABLES
    score,    \* rank:global, its members' scores
    bearer    \* the time left to each JWT an operator was given

service == <<score, bearer>>

AdminInit == Init /\ score = VeteranScore /\ bearer = <<>>

\* SubmitScore: ZINCRBY makes or raises the member; the call may fail, with or without effect.
SubmitScore(p, points) ==
    /\ rows[p] # NoRow
    /\ LET old == IF p \in DOMAIN score THEN score[p] ELSE 0 IN
         /\ old + points <= MaxScore
         /\ score' = [q \in DOMAIN score \cup {p} |-> IF q = p THEN old + points ELSE score[q]]
    /\ UNCHANGED <<vars, bearer>>

\* Equal scores come in the reverse order of the members, here that of their numbers.
Before(p, q) == score[p] > score[q] \/ (score[p] = score[q] /\ p > q)

\* ZREVRANK counts from 0.
RankOf(p) == Cardinality({q \in DOMAIN score : Before(q, p)})
Board == [i \in 1..Cardinality(DOMAIN score) |-> CHOOSE p \in DOMAIN score : RankOf(p) = i - 1]

Members == Cardinality(DOMAIN score)
Least(m, n) == IF m < n THEN m ELSE n

\* Mutant: the end of the range taken for its length.
ZRevRangeTo(start, stop) == SubSeq(Board, start + 1, Least(stop + 2, Members))

\* ZREVRANGE, both ends included.
ZRevRange(start, stop) == SubSeq(Board, start + 1, Least(stop + 1, Members))

\* GetTopN: n in bounds, and the name if the player's data is still in Redis.
GetTopN(n) ==
    LET bound == IF n <= 0 THEN DefaultTop ELSE IF n > MaxTop THEN MaxTop ELSE n
        top   == ZRevRange(0, bound - 1)
    IN  [i \in DOMAIN top |-> [player |-> top[i], score |-> score[top[i]],
                               named |-> top[i] \in Accounts /\ info[top[i]].name]]

\* handleRankTop: the number of the query ?n=, in bounds.
RankTopN(n) == IF n = NoNumber THEN DefaultTop
               ELSE IF n < 1 THEN 1 ELSE IF n > MaxTop THEN MaxTop ELSE n

-----------------------------------------------------------------------------
\* The operators' interface.
Routes == {"healthz", "servers", "rank", "players", "me", "login"}
Backends == {"redis", "center", "rank", "mysql"}

\* What the call to rank comes to: without Redis, rank answers with an empty list.
Unreachable == [kind |-> "error"]
TopN(n, up) == IF "rank" \notin up THEN Unreachable
               ELSE [kind |-> "list", list |-> IF "redis" \in up THEN GetTopN(n) ELSE <<>>]

\* HandleRankQuery of the gateway: an empty page if rank cannot be reached.
RankQuery(n, up) ==
    LET top == TopN(IF n <= 0 THEN DefaultTop ELSE n, up)
    IN  IF top = Unreachable THEN <<>> ELSE top.list

\* Mutant: the health check looks for the center alone.
CenterAlone(up) == "center" \in up

\* RedisOK and CenterOK.
DependenciesOK(up) == {"redis", "center"} \subseteq up

\* VerifyToken: issued here, and not expired.
TokenValid(t) == t \in DOMAIN bearer /\ bearer[t] > 0

\* handleAdminLogin with the right account and password: SignToken.
AdminLogin ==
    /\ Len(bearer) < 1
    /\ bearer' = Append(bearer, AdminTtl)
    /\ UNCHANGED <<vars, score>>

Answered(status, data) == [status |-> status, data |-> data]

\* handleHealthz: Redis and the center are asked; the rest counts for nothing.
Healthz(up) == Answered(IF DependenciesOK(up) THEN 200 ELSE 503, <<>>)

\* handleServers: the list of the center, grouped.
Servers(up) == Answered(IF "center" \in up THEN 200 ELSE 502, <<>>)

\* handleRankTop.
RankTop(n, up) ==
    LET top == TopN(RankTopN(n), up)
    IN  IF top = Unreachable THEN Answered(503, <<>>) ELSE Answered(200, top.list)

\* GetPlayerByID.
HasPlayer(p) == p \in Veterans \/ (p \in Accounts /\ GetPlayer(p))

\* handlePlayer: an error of MySQL is told as an unknown player.
Player(p, up) ==
    IF p = NoNumber \/ p <= 0 THEN Answered(400, <<>>)
    ELSE IF "mysql" \in up /\ HasPlayer(p) THEN Answered(200, <<p>>) ELSE Answered(404, <<>>)

Handle(route, arg, up) ==
    CASE route = "healthz" -> Healthz(up)
      [] route = "servers" -> Servers(up)
      [] route = "rank"    -> RankTop(arg, up)
      [] route = "players" -> Player(arg, up)
      [] route = "me"      -> Answered(200, <<>>)
      [] OTHER             -> Answered(401, <<>>)      \* a login with a wrong password

\* buildRouter: every route of the group /api/v1 is behind requireAdmin.
Public == {"healthz", "login"}
Respond(route, arg, up, t) ==
    IF route \in Public \/ TokenValid(t) THEN Handle(route, arg, up) ELSE Answered(401, <<>>)

-----------------------------------------------------------------------------
\* The token of an operator ages with the rest.
AdminTick == Tick /\ bearer' = [t \in DOMAIN bearer |-> IF bearer[t] > 0 THEN bearer[t] - 1 ELSE 0]
                  /\ UNCHANGED score

AdminNext ==
    \/ AdminTick \/ AdminLogin
    \/ \E p \in Accounts, points \in Points : SubmitScore(p, points)
    \/ \E c \in Clients : Client(c) /\ UNCHANGED service

AdminSpec == AdminInit /\ [][AdminNext]_<<vars, service>>

-----------------------------------------------------------------------------
\* Every page of the ranking, of a player or an operator and for whatever n, is as long as asked,
\* up to MaxTop and the number of members, best first, and leaves nobody out who has more; and it
\* names everyone who could come back with his token now.
RankPagesRight ==
    \A n \in -1..MaxTop + 1 : \A page \in {RankQuery(n, Backends), RankTop(n, Backends).data} :
      /\ Len(page) <= MaxTop
      /\ n >= 1 => Len(page) = Least(Least(n, MaxTop), Members)
      /\ \A i, j \in DOMAIN page : i < j => page[i].score >= page[j].score
      /\ LET shown == {page[i].player : i \in DOMAIN page} IN
           \A p \in DOMAIN score \ shown : Len(page) > 0 /\ \A q \in shown : score[q] >= score[p]
      /\ \A t \in Tokens, i \in DOMAIN page :
           issued[t].whole /\ tokens[t].player = page[i].player => page[i].named

\* What an operator is told while the health check says that all is well is so, whichever other
\* service is down: the list of the servers comes, a ranking shown as empty is empty, and a player
\* is unknown only if he was never told that he is registered or MySQL is out of reach.  Without
\* Redis rank answers with an empty list and no error.
HealthyMeansTrue ==
    \A up \in SUBSET Backends, t \in DOMAIN bearer :
      TokenValid(t) /\ Respond("healthz", NoNumber, up, t).status = 200 =>
        /\ Respond("servers", NoNumber, up, t).status = 200
        /\ LET top == Respond("rank", NoNumber, up, t) IN
             top.status = 200 /\ top.data = <<>> => DOMAIN score = {}
        /\ \A a \in Accounts : welcomed[a] > 0 /\ "mysql" \in up =>
             Respond("players", a, up, t).status = 200
=============================================================================
