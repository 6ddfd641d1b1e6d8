------------------------------ MODULE MatchPool ------------------------------
(***************************************************************************)
(* The match-making of the game servers: the waiting pools, the results    *)
(* and the room numbers in Redis, the calls JoinMatch, QueryMatchResult    *)
(* and LeaveMatch, and the match loop every game instance runs on the      *)
(* same pools (internal/game/service.go).                                  *)
(*                                                                         *)
(* Every Redis command is one step, the pairing script included; between   *)
(* two commands of a MatchTick anything may happen, its instance's crash   *)
(* too.  A command may fail: MatchTick gives up or goes on as the code     *)
(* does, and what it had popped is in nobody's hands.  MaxFailures bounds  *)
(* the commands that fail and the crashes, taken together.                 *)
(*                                                                         *)
(* Time.  A ZSET entry is kept with its age, in units of Advance, instead  *)
(* of its score, the time of the ZADD; it stops at MatchTimeout, where the *)
(* clean-up takes it.  A match result is kept with the time it has left.   *)
(* The route of a room (300 s) outlives the room (62 s) and does not       *)
(* expire here.                                                            *)
(***************************************************************************)
EXTENDS Integers, FiniteSets, Functions

CONSTANTS
    Players, Gateways,   \* player ids, gateway addresses
    Games,               \* game instances
    Queriers,            \* concurrent QueryMatchResult calls
    NoPlayer, NoRoom, NoGame,
    SeqBase,             \* 1000: where room numbers begin
    MatchTimeout,        \* kMatchTimeoutMs
    ResultTtl,           \* kResultTtlSec
    MaxJoins,            \* bound on the JoinMatch calls, of all members
    MaxFailures          \* bound on the failing commands and the crashes

ASSUME PoolAssumption ==
    /\ SeqBase \in Nat /\ MatchTimeout \in Nat /\ ResultTtl \in Nat \ {0}
    /\ NoRoom = 0        \* the key room:seq does not exist, or 'still waiting'
    /\ MaxJoins \in Nat /\ MaxFailures \in Nat

VARIABLES
    \* Redis
    pool,         \* match:pool:fs and match:pool:ss, the age of each member
    seq,          \* room:seq, 0 when the key does not exist
    result,       \* match:result:<player>, a room and the time left
    route,        \* room:route:<room>
    \* the game instances
    rooms,        \* GameService.rooms, the ids in it
    pc, mode,     \* where the match loop of an instance is, in which MatchTick
    pair, room,   \* MatchTick's members and roomID
    old,          \* MatchTick's expired
    query,        \* QueryMatchResult's player and room between GET and DEL
    \* what has happened so far
    joins,        \* JoinMatch calls for each member
    made,         \* every room ever created
    failures      \* commands that failed, instances that died

redis   == <<pool, seq, result, route>>
loop    == <<pc, mode, pair, room, old>>
history == <<joins, made, failures>>
vars == <<redis, rooms, loop, query, history>>

Modes == {0, 1}
Members == [player : Players, gateway : Gateways]

NoResult == [room |-> NoRoom, left |-> 0]
NoQuery  == [player |-> NoPlayer, room |-> NoRoom]
NoPair   == <<>>

\* ZADD and ZREM on a sorted set, a function on its members.
ZAdd(z, m, score) == [x \in DOMAIN z \cup {m} |-> IF x = m THEN score ELSE z[x]]
ZRem(z, S)        == [x \in DOMAIN z \ S |-> z[x]]

Init ==
    /\ pool = [mo \in Modes |-> [m \in {} |-> 0]]
    /\ seq = NoRoom
    /\ result = [p \in Players |-> NoResult]
    /\ route = [i \in {} |-> NoGame]
    /\ rooms = [g \in Games |-> {}]
    /\ pc = [g \in Games |-> "down"]
    /\ mode = [g \in Games |-> 0]
    /\ pair = [g \in Games |-> NoPair]
    /\ room = [g \in Games |-> NoRoom]
    /\ old = [g \in Games |-> {}]
    /\ query = [q \in Queriers |-> NoQuery]
    /\ joins = [m \in Members |-> 0]
    /\ made = {}
    /\ failures = 0

\* A command fails, or an instance dies.
Failure == failures < MaxFailures /\ failures' = failures + 1

-----------------------------------------------------------------------------
\* Time passes for the pools and the results.
Advance ==
    /\ pool' = [mo \in Modes |-> [m \in DOMAIN pool[mo] |->
                  IF pool[mo][m] < MatchTimeout THEN pool[mo][m] + 1 ELSE MatchTimeout]]
    /\ result' = [p \in Players |->
                    IF result[p].left > 1 THEN [result[p] EXCEPT !.left = @ - 1] ELSE NoResult]
    /\ UNCHANGED <<seq, route, rooms, loop, query, history>>

\* Mutant: the room number starts over with every instance.
RoomSeqReset == SeqBase

\* kInitRoomSeqLua: the number is set only if the key does not exist.
RoomSeqInit == IF seq = NoRoom THEN SeqBase ELSE seq

\* An instance starts: InitRoomSeq, whose failure is only logged, then Start.
StartGame(g) ==
    /\ pc[g] = "down"
    /\ \/ seq' = RoomSeqInit /\ UNCHANGED failures
       \/ Failure /\ UNCHANGED seq
    /\ pc' = [pc EXCEPT ![g] = "idle"]
    /\ UNCHANGED <<pool, result, route, rooms, mode, pair, room, old, query, joins, made>>

\* An instance dies, and its rooms and what its match loop held with it.
Crash(g) ==
    /\ pc[g] # "down"
    /\ Failure
    /\ rooms' = [rooms EXCEPT ![g] = {}]
    /\ pc' = [pc EXCEPT ![g] = "down"]
    /\ mode' = [mode EXCEPT ![g] = 0]
    /\ pair' = [pair EXCEPT ![g] = NoPair]
    /\ room' = [room EXCEPT ![g] = NoRoom]
    /\ old' = [old EXCEPT ![g] = {}]
    /\ UNCHANGED <<redis, query, joins, made>>

\* TickAll drops a finished room; its route stays.
DropRoom(g, id) ==
    /\ id \in rooms[g]
    /\ rooms' = [rooms EXCEPT ![g] = @ \ {id}]
    /\ UNCHANGED <<redis, loop, query, history>>

-----------------------------------------------------------------------------
\* The calls, on any instance that is up.
Serving == \E g \in Games : pc[g] # "down"

\* ZADD of a member that waits already gives it a new score.
JoinMatch(m, mo) ==
    /\ Serving
    /\ FoldFunction(+, 0, joins) < MaxJoins
    /\ joins' = [joins EXCEPT ![m] = @ + 1]
    /\ pool' = [pool EXCEPT ![mo] = ZAdd(@, m, 0)]
    /\ UNCHANGED <<seq, result, route, rooms, loop, query, made, failures>>

\* One of the two ZREM of LeaveMatch.
LeaveMatch(m, mo) ==
    /\ Serving
    /\ m \in DOMAIN pool[mo]
    /\ pool' = [pool EXCEPT ![mo] = ZRem(@, {m})]
    /\ UNCHANGED <<seq, result, route, rooms, loop, query, history>>

\* QueryMatchResult reads the result and then deletes it.  A call that finds
\* none answers 'still waiting'.
QueryGet(q, p) ==
    /\ Serving
    /\ query[q] = NoQuery
    /\ result[p] # NoResult
    /\ query' = [query EXCEPT ![q] = [player |-> p, room |-> result[p].room]]
    /\ UNCHANGED <<redis, rooms, loop, history>>

\* Mutant: the result stays until it expires.
QueryKept(q) ==
    /\ query[q] # NoQuery
    /\ query' = [query EXCEPT ![q] = NoQuery]
    /\ UNCHANGED <<redis, rooms, loop, history>>

QueryDel(q) ==
    /\ query[q] # NoQuery
    /\ \/ result' = [result EXCEPT ![query[q].player] = NoResult] /\ UNCHANGED failures
       \/ Failure /\ UNCHANGED result
    /\ query' = [query EXCEPT ![q] = NoQuery]
    /\ UNCHANGED <<pool, seq, route, rooms, loop, joins, made>>

-----------------------------------------------------------------------------
\* The match loop of instance g: MatchTick on pool 0, then on pool 1.
Goto(g, label) == pc' = [pc EXCEPT ![g] = label] /\ UNCHANGED mode

\* MatchTick returns.
EndTick(g) ==
    /\ pc' = [pc EXCEPT ![g] = IF mode[g] = 0 THEN "pair" ELSE "idle"]
    /\ mode' = [mode EXCEPT ![g] = 1 - @]

Wake(g) ==
    /\ pc[g] = "idle"
    /\ Goto(g, "pair")
    /\ UNCHANGED <<redis, rooms, pair, room, old, query, history>>

\* Mutant: two ZRANGE 0 0 in a row read the same member twice.
OldestTwoUnchecked(z) ==
    {two \in (DOMAIN z) \X (DOMAIN z) :
       /\ z[two[1]] >= z[two[2]]
       /\ \A m \in DOMAIN z \ {two[1], two[2]} : z[two[2]] >= z[m]}

\* ZRANGE 0 1: the two with the lowest scores; equal ones in any order.
OldestTwo(z) ==
    {two \in (DOMAIN z) \X (DOMAIN z) :
       /\ two[1] # two[2]
       /\ z[two[1]] >= z[two[2]]
       /\ \A m \in DOMAIN z \ {two[1], two[2]} : z[two[2]] >= z[m]}

\* Mutant: the script removes one member of the two.
PoppedOne(z, two) == ZRem(z, {two[1]})

Popped(z, two) == ZRem(z, {two[1], two[2]})

\* kPairLua.
PopPair(g) ==
    /\ pc[g] = "pair"
    /\ \E two \in OldestTwo(pool[mode[g]]) :
         /\ pool' = [pool EXCEPT ![mode[g]] = Popped(@, two)]
         /\ pair' = [pair EXCEPT ![g] = two]
    /\ Goto(g, "incr")
    /\ UNCHANGED <<seq, result, route, rooms, room, old, query, history>>

PopNothing(g) ==
    /\ pc[g] = "pair"
    /\ OldestTwo(pool[mode[g]]) = {}
    /\ Goto(g, "scan")
    /\ UNCHANGED <<redis, rooms, pair, room, old, query, history>>

\* The script fails, or its reply is lost when the pair is out of the pool:
\* MatchTick returns, without cleaning up.
PopFailed(g) ==
    /\ Failure
    /\ pc[g] = "pair"
    /\ \/ UNCHANGED pool
       \/ \E two \in OldestTwo(pool[mode[g]]) : pool' = [pool EXCEPT ![mode[g]] = Popped(@, two)]
    /\ EndTick(g)
    /\ UNCHANGED <<seq, result, route, rooms, pair, room, old, query, joins, made>>

\* Mutant: an instance numbers its rooms itself.
NextRoomIdOwn(g) ==
    /\ pc[g] = "incr"
    /\ room' = [room EXCEPT ![g] = SeqBase + 1 + Cardinality(rooms[g])]
    /\ Goto(g, "create")
    /\ UNCHANGED <<pool, seq, result, route, rooms, pair, old, query, history>>

\* INCR room:seq.
NextRoomId(g) ==
    /\ pc[g] = "incr"
    /\ seq' = seq + 1
    /\ room' = [room EXCEPT ![g] = seq + 1]
    /\ Goto(g, "create")
    /\ UNCHANGED <<pool, result, route, rooms, pair, old, query, history>>

\* Without a number MatchTick returns; the two are in no pool and in no room.
NextRoomIdFailed(g) ==
    /\ Failure
    /\ pc[g] = "incr"
    /\ seq' \in {seq, seq + 1}
    /\ pair' = [pair EXCEPT ![g] = NoPair]
    /\ EndTick(g)
    /\ UNCHANGED <<pool, result, route, rooms, room, old, query, joins, made>>

\* NewRoom, and the room is in the instance's map.
CreateRoom(g) ==
    /\ pc[g] = "create"
    /\ rooms' = [rooms EXCEPT ![g] = @ \cup {room[g]}]
    /\ made' = made \cup {[id |-> room[g], game |-> g, mode |-> mode[g],
                           m1 |-> pair[g][1], m2 |-> pair[g][2]]}
    /\ Goto(g, "result1")
    /\ UNCHANGED <<redis, pair, room, old, query, joins, failures>>

\* Mutant: the number is read again instead of kept.
AnsweredWithSeq(g) == seq

Answered(g) == room[g]

\* SETEX of the result of one player; an error is ignored.
PublishResult(g, from, m, to) ==
    /\ pc[g] = from
    /\ \/ /\ result' = [result EXCEPT ![m.player] = [room |-> Answered(g), left |-> ResultTtl]]
          /\ UNCHANGED failures
       \/ Failure /\ UNCHANGED result
    /\ Goto(g, to)
    /\ UNCHANGED <<pool, seq, route, rooms, pair, room, old, query, joins, made>>

PublishResults(g) ==
    \/ PublishResult(g, "result1", pair[g][1], "result2")
    \/ PublishResult(g, "result2", pair[g][2], "route")

\* Mutant: the route is not written.
RouteForgotten(g) ==
    /\ pc[g] = "route"
    /\ pair' = [pair EXCEPT ![g] = NoPair]
    /\ room' = [room EXCEPT ![g] = NoRoom]
    /\ Goto(g, "scan")
    /\ UNCHANGED <<redis, rooms, old, query, joins, made, failures>>

\* SETEX of the room's route, the last of the three.
PublishRoute(g) ==
    /\ pc[g] = "route"
    /\ \/ /\ route' = [i \in DOMAIN route \cup {room[g]} |-> IF i = room[g] THEN g ELSE route[i]]
          /\ UNCHANGED failures
       \/ Failure /\ UNCHANGED route
    /\ pair' = [pair EXCEPT ![g] = NoPair]
    /\ room' = [room EXCEPT ![g] = NoRoom]
    /\ Goto(g, "scan")
    /\ UNCHANGED <<pool, seq, result, rooms, old, query, joins, made>>

\* ZRANGEBYSCORE of those who have waited MatchTimeout.
ScanExpired(g) ==
    /\ pc[g] = "scan"
    /\ LET z == pool[mode[g]]
           expired == {m \in DOMAIN z : z[m] >= MatchTimeout}
       IN /\ old' = [old EXCEPT ![g] = expired]
          /\ IF expired = {} THEN EndTick(g) ELSE Goto(g, "expire")
    /\ UNCHANGED <<redis, rooms, pair, room, query, history>>

ScanFailed(g) ==
    /\ Failure
    /\ pc[g] = "scan"
    /\ EndTick(g)
    /\ UNCHANGED <<redis, rooms, pair, room, old, query, joins, made>>

\* ZREM of one of them, whatever its score is by now.
RemoveExpired(g) ==
    /\ pc[g] = "expire"
    /\ \E m \in old[g] :
         /\ \/ pool' = [pool EXCEPT ![mode[g]] = ZRem(@, {m})] /\ UNCHANGED failures
            \/ Failure /\ UNCHANGED pool
         /\ old' = [old EXCEPT ![g] = @ \ {m}]
    /\ IF old'[g] = {} THEN EndTick(g) ELSE Goto(g, "expire")
    /\ UNCHANGED <<seq, result, route, rooms, pair, room, query, joins, made>>

MatchTick(g) ==
    \/ Wake(g) \/ PopPair(g) \/ PopNothing(g) \/ PopFailed(g)
    \/ NextRoomId(g) \/ NextRoomIdFailed(g) \/ CreateRoom(g)
    \/ PublishResults(g) \/ PublishRoute(g)
    \/ ScanExpired(g) \/ ScanFailed(g) \/ RemoveExpired(g)

Next ==
    \/ Advance
    \/ \E g \in Games : StartGame(g) \/ Crash(g) \/ MatchTick(g)
    \/ \E g \in Games : \E id \in rooms[g] : DropRoom(g, id)
    \/ \E m \in Members, mo \in Modes : JoinMatch(m, mo) \/ LeaveMatch(m, mo)
    \/ \E q \in Queriers : QueryDel(q) \/ \E p \in Players : QueryGet(q, p)

\* The instances are started, their match loops run on, time passes.
Fairness == /\ WF_vars(Advance)
            /\ \A g \in Games : WF_vars(StartGame(g)) /\ WF_vars(MatchTick(g))

Spec == Init /\ [][Next]_vars /\ Fairness

-----------------------------------------------------------------------------
(* PROPERTIES *)

Zsets == UNION {[S -> 0..MatchTimeout] : S \in SUBSET Members}
RoomRecords == [id : Nat, game : Games, mode : Modes, m1 : Members, m2 : Members]
Labels == {"down", "idle", "pair", "incr", "create", "result1", "result2",
           "route", "scan", "expire"}

\* Every variable has its type, and a match loop holds a pair and a room number
\* at the labels where the code does.
TypeOK ==
    /\ pool \in [Modes -> Zsets]
    /\ seq \in Nat
    /\ result \in [Players -> [room : Nat, left : 0..ResultTtl]]
    /\ \A i \in DOMAIN route : i \in Nat /\ route[i] \in Games
    /\ rooms \in [Games -> SUBSET Nat]
    /\ pc \in [Games -> Labels]
    /\ mode \in [Games -> Modes]
    /\ pair \in [Games -> {NoPair} \cup (Members \X Members)]
    /\ room \in [Games -> Nat]
    /\ old \in [Games -> SUBSET Members]
    /\ query \in [Queriers -> [player : Players \cup {NoPlayer}, room : Nat]]
    /\ joins \in [Members -> Nat]
    /\ made \subseteq RoomRecords
    /\ failures \in 0..MaxFailures
    /\ \A g \in Games :
         /\ pc[g] \in {"incr", "create", "result1", "result2", "route"} <=> pair[g] # NoPair
         /\ pc[g] \in {"create", "result1", "result2", "route"} <=> room[g] # NoRoom

Of(r) == {r.m1.player, r.m2.player}

\* Two rooms never have the same number, on whatever instances they were made
\* and whenever these were started (kInitRoomSeqLua and INCR room:seq).
RoomIdsDistinct == \A r, s \in made : r.id = s.id => r = s

\* How often a member is a half of what a match loop has popped.
Held(m) == Cardinality({g \in Games : pair[g] # NoPair /\ pair[g][1] = m
                                      /\ pc[g] \in {"incr", "create"}})
           + Cardinality({g \in Games : pair[g] # NoPair /\ pair[g][2] = m
                                      /\ pc[g] \in {"incr", "create"}})

\* A call of JoinMatch is good for one room at most: what waits in the pools,
\* what the loops have popped and the rooms made of a member never exceed its
\* calls, with several instances popping at once (kPairLua).
EntryPlaysOnce ==
    \A m \in Members :
        Cardinality({mo \in Modes : m \in DOMAIN pool[mo]}) + Held(m)
        + Cardinality({r \in made : r.m1 = m}) + Cardinality({r \in made : r.m2 = m})
          <= joins[m]

\* With one gateway nobody is paired with himself, in one pool or in both: what
\* Room takes for granted (MatchTick, NewRoom).
NobodyPlaysHimself == \A r \in made : r.m1.player # r.m2.player

\* A result, published or just read by a query, names a room that was made, with
\* this player in it (MatchTick creates the room before it publishes it).
ResultNamesOwnRoom ==
    /\ \A p \in Players : result[p] # NoResult =>
         \E r \in made : r.id = result[p].room /\ p \in Of(r)
    /\ \A q \in Queriers : query[q] # NoQuery =>
         \E r \in made : r.id = query[q].room /\ query[q].player \in Of(r)
=============================================================================
