-------------------------------- MODULE Lobby --------------------------------
(***************************************************************************)
(* A gateway and the match-making it sends its players to: Gateway and     *)
(* MatchPool, joined by the goroutines that take a match request from one  *)
(* to the other (matchWorker in internal/gateway/gateway.go) and by the    *)
(* calls a connection makes when it ends (OnClientDisconnect: QuitRoomTo,  *)
(* BroadcastLeaveMatch).  A battle is what Settlement promises of it: it   *)
(* goes on until it is over, at the latest when a player quits it.         *)
(*                                                                         *)
(* Time.  One Advance is the 500 ms between two polls of a worker.  The    *)
(* timers are punctual: in every period each worker has polled and each    *)
(* instance has finished a MatchTick (every 200 ms), so a waiter is        *)
(* removed from the pool in the period that begins MatchTimeout (10 s)     *)
(* after he joined, and a worker polls for two periods more (11 s).        *)
(***************************************************************************)
EXTENDS Integers, FiniteSets, Functions

CONSTANTS
    Conns, NoConn, Players, NoPlayer, NoRoom, NoGame,
    AccountOf(_),        \* the player who uses a connection
    Patient,             \* players who ask again only when nothing of the last time is left
    Asked,               \* the modes that players ask for
    Gateways,            \* the gateway's address, alone in a set
    Games, Workers,      \* game instances; matchWorker goroutines
    SeqBase, MatchTimeout, ResultTtl,
    Drops,               \* the connections that may end
    MaxJoins             \* bound on the match requests

ASSUME LobbyAssumption ==
    /\ NoConn \notin Conns /\ NoPlayer \notin Players /\ NoRoom = 0
    /\ \A c \in Conns : AccountOf(c) \in Players
    /\ Patient \subseteq Players
    /\ Asked \subseteq {0, 1} /\ Drops \subseteq Conns
    /\ \E gw \in Gateways : Gateways = {gw}
    /\ SeqBase \in Nat /\ MaxJoins \in Nat
    /\ MatchTimeout \in Nat \ {0}
    /\ ResultTtl \in Nat \ {0, 1}   \* a result outlives a poll

VARIABLES
    socket, player, roomID, matchMode, sessions, gwRoute, gwPc, frames, wanted, gwOld,
    left,
    pool, seq, result, roomRoute, rooms, loopPc, mode, pair, room, expired,
    query, joins, made, failures,
    over,                \* the battles that are over
    \* matchWorker
    wpc, client,         \* where it is; its session
    asked,               \* its mode
    waited, polled,      \* periods since it joined; polled in this one
    answer,              \* the room QueryMatchResult returned
    \* scheduling
    ticked               \* instances that began a MatchTick in this period

Sessions == INSTANCE Gateway WITH route <- gwRoute, pc <- gwPc, old <- gwOld,
                                  Readers <- Conns, Modes <- {0, 1}, Rooms <- {},
                                  Faults <- FALSE, MaxFrames <- 1
Match == INSTANCE MatchPool WITH Queriers <- Workers, MaxFailures <- 0,
                                 route <- roomRoute, pc <- loopPc, old <- expired

gateway == <<socket, player, roomID, matchMode, sessions, gwRoute, gwPc, frames,
             wanted, gwOld, left>>
match   == <<pool, seq, result, roomRoute, rooms, loopPc, mode, pair, room, expired,
             query, joins, made, failures>>
worker  == <<wpc, client, asked, waited, polled, answer>>
vars == <<gateway, match, over, worker, ticked>>

Init ==
    /\ Sessions!Init /\ Match!Init
    /\ over = {}
    /\ wpc = [w \in Workers |-> "free"]
    /\ client = [w \in Workers |-> NoConn]
    /\ asked = [w \in Workers |-> 0]
    /\ waited = [w \in Workers |-> 0]
    /\ polled = [w \in Workers |-> FALSE]
    /\ answer = [w \in Workers |-> NoRoom]
    /\ ticked = {}

-----------------------------------------------------------------------------
\* No worker is at work for a session.
Idle(c) == \A w \in Workers : wpc[w] # "free" => client[w] # c

\* A patient player waits for his answer, and for the end of the battle he is told of; so do the
\* players of interactive_client.py.  The gateway asks it of nobody.
MayAsk(c) ==
    player[c] \in Patient => Idle(c) /\ (roomID[c] # NoRoom => roomID[c] \in over)

\* The connections, but for what they do to matches and rooms.  A client logs in
\* once on a connection, and sends only requests that do something here.
Connection(c) ==
    /\ \/ Sessions!Connect(c)
       \/ c \in Drops /\ (Sessions!Drop(c) \/ Sessions!ScanTimeout(c))
       \/ Sessions!Read(c) /\ MayAsk(c)
       \/ Sessions!LoginReq(c, AccountOf(c)) /\ player[c] = NoPlayer
       \/ Sessions!Login(c)
       \/ Sessions!Disconnect(c) \/ Sessions!RemoveSession(c)
       \/ Sessions!GetRoute(c) \/ Sessions!DelRoute(c)
    /\ UNCHANGED <<match, over, worker, ticked>>

Member(c) == [player |-> player[c], gateway |-> CHOOSE gw \in Gateways : TRUE]

\* OnClientDisconnect, in a room: QuitRoomTo, if the room has a route.
QuitRoomTo(c) ==
    /\ gwPc[c] = "quit" /\ Sessions!Notify(c)
    /\ over' = over \cup {r.id : r \in {s \in made :
                 /\ s.id = left[c].room /\ s.id \in DOMAIN roomRoute
                 /\ s.id \in rooms[roomRoute[s.id]]
                 /\ player[c] \in Match!Of(s)}}
    /\ UNCHANGED <<match, worker, ticked>>

\* OnClientDisconnect, waiting: BroadcastLeaveMatch, all its ZREM in one step.
BroadcastLeaveMatch(c) ==
    /\ gwPc[c] = "leave" /\ Sessions!Notify(c)
    /\ pool' = [mo \in {0, 1} |-> Match!ZRem(pool[mo], {Member(c)})]
    /\ UNCHANGED <<seq, result, roomRoute, rooms, loopPc, mode, pair, room, expired,
                   query, joins, made, failures, over, worker, ticked>>

\* SubmitOp of an instance: the battle an input for a room gets into, if it has the room.
SubmitOpTo(g, id) == {r \in made : r.id = id /\ id \in rooms[g]}

\* HandleOpInput: where an input of a connection goes, by the room of its session
\* and the route of that room.
OpInput(c) ==
    IF roomID[c] \in DOMAIN roomRoute THEN SubmitOpTo(roomRoute[roomID[c]], roomID[c]) ELSE {}

-----------------------------------------------------------------------------
\* HandleMatchReq starts a worker, whatever else is at work for the session.
MatchReq(c, mo, w) ==
    /\ MayAsk(c)
    /\ wpc[w] = "free"
    /\ FoldFunction(+, 0, joins)
         + Cardinality({v \in Workers : wpc[v] \in {"start", "join"}}) < MaxJoins
    /\ Sessions!MatchReq(c, mo)
    /\ wpc' = [wpc EXCEPT ![w] = "start"]
    /\ client' = [client EXCEPT ![w] = c]
    /\ asked' = [asked EXCEPT ![w] = mo]
    /\ UNCHANGED <<match, over, waited, polled, answer, ticked>>

\* The worker's alive().
Alive(w) == sessions[player[client[w]]] = client[w]

\* matchWorker returns.
Release(w) == /\ wpc' = [wpc EXCEPT ![w] = "free"]
              /\ client' = [client EXCEPT ![w] = NoConn]
              /\ asked' = [asked EXCEPT ![w] = 0]
              /\ waited' = [waited EXCEPT ![w] = 0]
              /\ polled' = [polled EXCEPT ![w] = FALSE]
              /\ answer' = [answer EXCEPT ![w] = NoRoom]

\* alive() before the pool is entered, and the call that enters it, are two
\* steps.
WorkerStart(w) ==
    /\ wpc[w] = "start"
    /\ \/ /\ Alive(w)
          /\ wpc' = [wpc EXCEPT ![w] = "join"]
          /\ UNCHANGED <<client, asked, waited, polled, answer>>
       \/ ~Alive(w) /\ Release(w)
    /\ UNCHANGED <<gateway, match, over, ticked>>

\* JoinMatch.
WorkerJoin(w) ==
    /\ wpc[w] = "join"
    /\ Match!JoinMatch(Member(client[w]), asked[w])
    /\ wpc' = [wpc EXCEPT ![w] = "poll"]
    /\ UNCHANGED <<gateway, over, client, asked, waited, polled, answer, ticked>>

\* Mutant: the worker polls no longer than the pool keeps its player.
PollTimesShort(t) == t

\* 22 polls, of 500 ms, for the 20 that kMatchTimeoutMs is long.
matchPollTimes(t) == t + 2

\* A poll; a result that is there is read (QueryMatchResult).
WorkerPoll(w) ==
    /\ wpc[w] = "poll" /\ ~polled[w]
    /\ Alive(w) /\ waited[w] < matchPollTimes(MatchTimeout)
    /\ polled' = [polled EXCEPT ![w] = TRUE]
    /\ \/ /\ Match!QueryGet(w, player[client[w]])
          /\ wpc' = [wpc EXCEPT ![w] = "query"]
       \/ /\ result[player[client[w]]] = Match!NoResult
          /\ UNCHANGED <<match, wpc>>
    /\ UNCHANGED <<gateway, over, client, asked, waited, answer, ticked>>

\* The session is not the player's any more: no answer, no LeaveMatch.
WorkerStop(w) ==
    /\ wpc[w] = "poll" /\ ~polled[w]
    /\ ~Alive(w)
    /\ Release(w)
    /\ UNCHANGED <<gateway, match, over, ticked>>

\* Mutant: a wait that was in vain begins again.
WorkerRetries(w) ==
    /\ wpc[w] = "poll" /\ ~polled[w]
    /\ Alive(w) /\ waited[w] >= matchPollTimes(MatchTimeout)
    /\ waited' = [waited EXCEPT ![w] = 0]
    /\ polled' = [polled EXCEPT ![w] = TRUE]
    /\ UNCHANGED <<gateway, match, over, wpc, client, asked, answer, ticked>>

\* The deadline has passed: no opponent.
WorkerGiveUp(w) ==
    /\ wpc[w] = "poll" /\ ~polled[w]
    /\ Alive(w) /\ waited[w] >= matchPollTimes(MatchTimeout)
    /\ Sessions!SendMatchRsp(client[w], NoRoom)
    /\ Release(w)
    /\ UNCHANGED <<match, over, ticked>>

\* QueryMatchResult deletes the result and returns.
WorkerQueried(w) ==
    /\ wpc[w] = "query"
    /\ Match!QueryDel(w)
    /\ answer' = [answer EXCEPT ![w] = query[w].room]
    /\ wpc' = [wpc EXCEPT ![w] = "answer"]
    /\ UNCHANGED <<gateway, over, client, asked, waited, polled, ticked>>

\* The session gets the room, be it the player's or not any more.
WorkerAnswer(w) ==
    /\ wpc[w] = "answer"
    /\ Sessions!SendMatchRsp(client[w], answer[w])
    /\ Release(w)
    /\ UNCHANGED <<match, over, ticked>>

matchWorker(w) ==
    \/ WorkerStart(w) \/ WorkerJoin(w) \/ WorkerPoll(w) \/ WorkerStop(w)
    \/ WorkerGiveUp(w) \/ WorkerQueried(w) \/ WorkerAnswer(w)

-----------------------------------------------------------------------------
\* An instance, its tick as often as it may in a period.
Game(g) ==
    /\ \/ Match!StartGame(g) /\ UNCHANGED ticked
       \/ Match!Wake(g) /\ ticked' = ticked \cup {g}
       \/ loopPc[g] # "idle" /\ Match!MatchTick(g) /\ UNCHANGED ticked
    /\ UNCHANGED <<gateway, over, worker>>

\* A battle ends by itself and is dropped at last.
BattleEnds(g, id) ==
    /\ id \in rooms[g] \ over
    /\ over' = over \cup {id}
    /\ UNCHANGED <<gateway, match, worker, ticked>>

\* TickAll drops it.
DropRoom(g, id) ==
    /\ id \in over
    /\ Match!DropRoom(g, id)
    /\ UNCHANGED <<gateway, over, worker, ticked>>

\* A period passes.
Advance ==
    /\ \A g \in Games : loopPc[g] = "idle" /\ g \in ticked
    /\ \A w \in Workers : wpc[w] = "free" \/ (wpc[w] = "poll" /\ polled[w])
    /\ Match!Advance
    /\ ticked' = {}
    /\ polled' = [w \in Workers |-> FALSE]
    /\ waited' = [w \in Workers |-> IF wpc[w] = "poll" THEN waited[w] + 1 ELSE 0]
    /\ UNCHANGED <<gateway, over, wpc, client, asked, answer>>

Next ==
    \/ \E c \in Conns : \/ Connection(c) \/ QuitRoomTo(c) \/ BroadcastLeaveMatch(c)
                        \/ \E mo \in Asked, w \in Workers : MatchReq(c, mo, w)
    \/ \E w \in Workers : matchWorker(w)
    \/ \E g \in Games : \/ Game(g)
                        \/ \E id \in rooms[g] : (BattleEnds(g, id) \/ DropRoom(g, id))
    \/ Advance

\* Goroutines run on.  A period ends: it is strongly fair because the model lets
\* an instance tick any number of times in one, and the code two or three.
Fairness == /\ \A c \in Conns : WF_vars(Connection(c) /\ gwPc[c] # "read")
            /\ \A w \in Workers : WF_vars(matchWorker(w))
            /\ \A g \in Games : WF_vars(Game(g))
            /\ SF_vars(Advance)

Spec == Init /\ [][Next]_vars /\ Fairness

-----------------------------------------------------------------------------
(* WHERE LOBBY KEEPS THE PROMISE OF MATCHMAKING *)

\* Nothing is promised to player p, or nothing any more: his connection has ended.
IsGone(p) == p \notin Patient \/ \E c \in Conns : player[c] = p /\ socket[c] = "closed"

\* A worker is at work for him.
Asks(p) == \E w \in Workers : wpc[w] # "free" /\ player[client[w]] = p

\* The rooms he is still to be told of: the loop that made it has his result to write, or it is
\* written, read, or about to be sent.
NewsOf(p) ==
    ({room[g] : g \in {h \in Games :
                 \/ loopPc[h] = "result1" /\ p \in {pair[h][1].player, pair[h][2].player}
                 \/ loopPc[h] = "result2" /\ p = pair[h][2].player}}
     \cup {result[p].room}
     \cup {query[w].room : w \in {v \in Workers : query[v].player = p}}
     \cup {answer[w] : w \in {v \in Workers : wpc[v] = "answer" /\ player[client[v]] = p}})
    \ {NoRoom}

\* The room that his session names.
ToldOf(p) == IF sessions[p] = NoConn THEN NoRoom ELSE roomID[sessions[p]]

Promise == INSTANCE Matchmaking WITH
    gone <- {p \in Players : IsGone(p)},
    asking <- {p \in Players : Asks(p) /\ ~IsGone(p)},
    news <- [p \in Players |-> IF IsGone(p) THEN {} ELSE NewsOf(p)],
    told <- [p \in Players |-> IF IsGone(p) THEN NoRoom ELSE ToldOf(p)],
    battles <- {[id |-> r.id, players |-> Match!Of(r)] : r \in made}

-----------------------------------------------------------------------------
(* PROPERTIES *)

\* Every variable of the workers has its type, and a worker has a session and a
\* query exactly where the code does.
TypeOK ==
    /\ over \subseteq {r.id : r \in made}
    /\ wpc \in [Workers -> {"free", "start", "join", "poll", "query", "answer"}]
    /\ waited \in [Workers -> 0..matchPollTimes(MatchTimeout) + 1]
    /\ asked \in [Workers -> Asked \cup {0}]
    /\ polled \in [Workers -> BOOLEAN]
    /\ ticked \subseteq Games
    /\ \A w \in Workers :
         /\ wpc[w] = "free" <=> client[w] = NoConn
         /\ wpc[w] # "free" => client[w] \in Conns /\ player[client[w]] \in Players
         /\ wpc[w] = "query" <=> query[w] # Match!NoQuery
         /\ wpc[w] = "answer" <=> answer[w] # NoRoom

\* The session of player p knows of room id, and its end will quit the room.
Knows(p, id) == sessions[p] # NoConn /\ roomID[sessions[p]] = id

\* ... or will know: the result is still to be published, or somebody is there
\* to fetch it, or has it in hand.
WillKnow(p, id) ==
    \/ \E g \in Games : room[g] = id /\ loopPc[g] \in {"result1", "result2"}
    \/ /\ result[p].room = id
       /\ \E w \in Workers : wpc[w] = "poll" /\ player[client[w]] = p /\ Alive(w)
    \/ \E w \in Workers : query[w].player = p /\ query[w].room = id
    \/ \E w \in Workers : wpc[w] = "answer" /\ player[client[w]] = p /\ answer[w] = id

\* A battle that goes on has its patient players, whatever the others do: each is in it or about
\* to be told of it, unless he went himself.  So a worker polls for long enough, its player is
\* in no pool when it gives up, and the end of one's connection takes nothing from
\* the other (matchPollTimes against kMatchTimeoutMs, MatchTick, LeaveMatch).
NobodyMissesHisBattle ==
    \A r \in made : r.id \notin over =>
        \A p \in Match!Of(r) \cap Patient :
            \/ Knows(p, r.id) \/ WillKnow(p, r.id)
            \/ \E c \in Conns : player[c] = p /\ socket[c] = "closed"

\* What a player does gets into his own battle and no other, from the moment on that
\* its route is there until it is over: he is told of the room before (MatchTick
\* publishes the results first), and his inputs are lost only till then.
InputsReachBattle ==
    \A c \in Conns : socket[c] = "open" /\ roomID[c] # NoRoom =>
        /\ \A r \in OpInput(c) : r.id = roomID[c] /\ player[c] \in Match!Of(r)
        /\ \/ OpInput(c) # {} \/ roomID[c] \in over
           \/ \E g \in Games : loopPc[g] \in {"result2", "route"} /\ room[g] = roomID[c]

\* A request leaves nothing behind: when nobody is at work for a patient player who is
\* still here, he is in no pool and no result waits for him (matchWorker's polls,
\* MatchTick's clean-up), so that his next request meets nothing of this one.
NothingLeftBehind ==
    \A c \in Conns :
        player[c] \in Patient /\ socket[c] = "open" /\ Idle(c) =>
            /\ result[player[c]] = Match!NoResult
            /\ \A mo \in {0, 1} : Member(c) \notin DOMAIN pool[mo]

\* However workers, pools, loops and the ends of connections interleave, what they do to the
\* requests is a step that Matchmaking allows, or none: an answer is given once, and is 'no
\* opponent' only if there is no battle (matchWorker, MatchTick).
MatchesAsPromised == Promise!SafeSpec

\* ... and while nobody goes, every request is answered (the deadline of matchWorker).
KeepsMatchPromise == Promise!Spec

\* README.md:14 says that dropping out of a battle counts as losing it.
DroppedLoses ==
    \A c \in Conns : gwPc[c] = "gone" =>
        \A r \in made : player[c] \in Match!Of(r) /\ ~Knows(player[c], r.id)
                          => r.id \in over
=============================================================================
