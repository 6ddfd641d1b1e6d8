----------------------------- MODULE LobbyProofs -----------------------------
(***************************************************************************)
(* Proofs about Lobby, for any number of connections, players, instances   *)
(* and workers.                                                            *)
(*                                                                         *)
(* A step of Lobby is one of MatchPool, or none, and likewise of Gateway,  *)
(* so what MatchPoolProofs and GatewayProofs prove of a step holds of its  *)
(* pools and its sessions (MatchStep, GateStep).  LobbyInv joins the two:  *)
(* where the workers, the battles and their routes are, and who has heard  *)
(* of which battle.  It holds however many devices a player has.           *)
(*                                                                         *)
(* The second part is about players with one device.  PlaceInv follows a   *)
(* match request through the pool, the hand of a tick, the result and the  *)
(* query, and compares at each place the time the entry has left with the  *)
(* time its worker still polls; BattleInv follows the battle to the player *)
(* who is told of it.                                                      *)
(*                                                                         *)
(* The third part shows that what Lobby does to the requests is what       *)
(* Matchmaking allows (MatchesAsPromised).  PromiseInv adds to DevicesInv  *)
(* that what waits for a player whose result is being read is what was     *)
(* read, or nothing.                                                       *)
(***************************************************************************)
EXTENDS Lobby, TLAPS

MP == INSTANCE MatchPoolProofs WITH
        Queriers <- Workers, MaxFailures <- 0,
        route <- roomRoute, pc <- loopPc, old <- expired

SP == INSTANCE GatewayProofs WITH
        route <- gwRoute, pc <- gwPc, old <- gwOld,
        Readers <- Conns, Modes <- {0, 1}, Rooms <- Nat \ {NoRoom}, Faults <- FALSE, MaxFrames <- 1

\* MatchPool's and Gateway's assumptions hold here.
LEMMA Pool == MP!PoolAssumption
BY LobbyAssumption DEF MP!PoolAssumption

LEMMA Gate == SP!GatewayAssumption
BY LobbyAssumption DEF SP!GatewayAssumption, SP!NotWaiting

\* What the steps do to the pools, seen from MatchPool.
LEMMA MatchTypes == MP!TypeOK /\ [MP!Next]_(MP!vars) => MP!TypeOK'
BY Pool, MP!TypeStep DEF MP!TypeStep, MP!PoolAssumption

LEMMA MatchNumbers == MP!RoomIdInv /\ [MP!Next]_(MP!vars) => MP!RoomIdInv'
BY Pool, MP!RoomIdStep DEF MP!RoomIdStep, MP!PoolAssumption

LEMMA MatchNames == MP!TypeOK /\ MP!NameInv /\ [MP!Next]_(MP!vars) => MP!NameInv'
BY Pool, MP!NameStep DEF MP!NameStep, MP!PoolAssumption

LEMMA MatchPairs == MP!TypeOK /\ MP!TwoPlayersInv /\ [MP!Next]_(MP!vars) => MP!TwoPlayersInv'
<1>1. \A a, b \in Gateways : a = b
  BY LobbyAssumption
<1> QED BY <1>1, Pool, MP!TwoPlayersStep DEF MP!TwoPlayersStep, MP!PoolAssumption

\* ... and to the sessions, seen from Gateway.
LEMMA SessionTypes == SP!TypeOK /\ [SP!Next]_(SP!vars) => SP!TypeOK'
BY Gate, SP!TypeStep DEF SP!TypeStep, SP!GatewayAssumption

LEMMA SessionsKept == SP!TypeOK /\ SP!SessionInv /\ [SP!Next]_(SP!vars) => SP!SessionInv'
BY Gate, SP!SessionStep DEF SP!SessionStep, SP!GatewayAssumption

\* The pools and the sessions begin as their modules say.
LEMMA Begins ==
    Init => /\ MP!TypeOK /\ MP!RoomIdInv /\ MP!NameInv /\ MP!TwoPlayersInv
            /\ SP!TypeOK /\ SP!SessionInv
<1> SUFFICES ASSUME Init
             PROVE  /\ MP!TypeOK /\ MP!RoomIdInv /\ MP!NameInv /\ MP!TwoPlayersInv
                    /\ SP!TypeOK /\ SP!SessionInv
  OBVIOUS
<1>1. MP!Init
  BY DEF Init, Match!Init, MP!Init, Match!Modes, MP!Modes, Match!NoResult, MP!NoResult,
         Match!NoQuery, MP!NoQuery, Match!NoPair, MP!NoPair, Match!Members, MP!Members
<1>2. SP!Init
  BY DEF Init, Sessions!Init, SP!Init, Sessions!Nowhere, SP!Nowhere, Sessions!NotWaiting, SP!NotWaiting
<1>3. MP!TypeOK
  BY <1>1, Pool, MP!TypeInit DEF MP!TypeInit, MP!PoolAssumption
<1>4. MP!RoomIdInv
  BY <1>1, Pool, MP!RoomIdInit DEF MP!RoomIdInit, MP!PoolAssumption
<1>5. MP!NameInv
  BY <1>1 DEF MP!Init, MP!NameInv, MP!ResultNamesOwnRoom
<1>6. MP!TwoPlayersInv
  BY <1>1 DEF MP!Init, MP!TwoPlayersInv, MP!NobodyPlaysHimself
<1>7. SP!TypeOK
  BY <1>2, Gate, SP!TypeInit DEF SP!TypeInit, SP!GatewayAssumption
<1>8. SP!SessionInv
  BY <1>2, Gate, SP!SessionInit DEF SP!SessionInit, SP!GatewayAssumption
<1> QED BY <1>3, <1>4, <1>5, <1>6, <1>7, <1>8

-----------------------------------------------------------------------------
\* A step of the composition is one of MatchPool, or none, and likewise of Gateway.
LEMMA SameTick ==
    ASSUME NEW g \in Games, Match!MatchTick(g)
    PROVE  MP!MatchTick(g)
<1> USE DEF Match!Goto, MP!Goto, Match!EndTick, MP!EndTick, Match!Failure, MP!Failure,
            Match!redis, MP!redis, Match!history, MP!history
<1>0. \A z : Match!OldestTwo(z) = MP!OldestTwo(z) /\ \A two : Match!Popped(z, two) = MP!Popped(z, two)
  BY DEF Match!OldestTwo, MP!OldestTwo, Match!Popped, MP!Popped, Match!ZRem, MP!ZRem
<1>1. Match!Wake(g) => MP!Wake(g)
  BY DEF Match!Wake, MP!Wake
<1>2. Match!PopPair(g) => MP!PopPair(g)
  BY <1>0 DEF Match!PopPair, MP!PopPair
<1>3. Match!PopNothing(g) => MP!PopNothing(g)
  BY <1>0 DEF Match!PopNothing, MP!PopNothing
<1>4. Match!PopFailed(g) => MP!PopFailed(g)
  BY <1>0 DEF Match!PopFailed, MP!PopFailed
<1>5. Match!NextRoomId(g) => MP!NextRoomId(g)
  BY DEF Match!NextRoomId, MP!NextRoomId
<1>6. Match!NextRoomIdFailed(g) => MP!NextRoomIdFailed(g)
  BY DEF Match!NextRoomIdFailed, MP!NextRoomIdFailed, Match!NoPair, MP!NoPair
<1>7. Match!CreateRoom(g) => MP!CreateRoom(g)
  BY DEF Match!CreateRoom, MP!CreateRoom
<1>8. Match!PublishResults(g) => MP!PublishResults(g)
  BY DEF Match!PublishResults, MP!PublishResults, Match!PublishResult, MP!PublishResult,
         Match!Answered, MP!Answered
<1>9. Match!PublishRoute(g) => MP!PublishRoute(g)
  BY DEF Match!PublishRoute, MP!PublishRoute, Match!NoPair, MP!NoPair
<1>10. Match!ScanExpired(g) => MP!ScanExpired(g)
  BY DEF Match!ScanExpired, MP!ScanExpired
<1>11. Match!ScanFailed(g) => MP!ScanFailed(g)
  BY DEF Match!ScanFailed, MP!ScanFailed
<1>12. Match!RemoveExpired(g) => MP!RemoveExpired(g)
  BY DEF Match!RemoveExpired, MP!RemoveExpired, Match!ZRem, MP!ZRem
<1> QED BY <1>1, <1>2, <1>3, <1>4, <1>5, <1>6, <1>7, <1>8, <1>9, <1>10, <1>11, <1>12
        DEF Match!MatchTick, MP!MatchTick

\* A busy worker has a session that is logged in, of its own if the player is patient.
ClientOK ==
    /\ client \in [Workers -> Conns \cup {NoConn}]
    /\ \A w \in Workers :
         /\ wpc[w] = "free" <=> client[w] = NoConn
         /\ wpc[w] # "free" => player[client[w]] \in Players
         /\ \A v \in Workers :
              wpc[w] # "free" /\ player[client[w]] \in Patient /\ client[v] = client[w] => v = w

\* A client logs in once on a connection.
LoginOK ==
    \A c \in Conns :
        /\ player[c] \in {NoPlayer, AccountOf(c)}
        /\ gwPc[c] = "auth" => player[c] = NoPlayer /\ wanted[c] = AccountOf(c)

\* The gateway's address, and a player of this gateway as a member of a pool.
LEMMA OneGateway == (CHOOSE gw \in Gateways : TRUE) \in Gateways
BY LobbyAssumption

LEMMA AsMember ==
    ASSUME NEW c, player[c] \in Players
    PROVE  Member(c) \in MP!Members
BY OneGateway DEF Member, MP!Members

\* All steps but BroadcastLeaveMatch, which joins two ZREM, are steps of MatchPool.
LEMMA MatchStep ==
    ASSUME ClientOK, asked \in [Workers -> {0, 1}], [Next]_vars,
           ~\E c \in Conns : BroadcastLeaveMatch(c)
    PROVE  [MP!Next]_(MP!vars)
<1> USE DEF Match!redis, MP!redis, Match!loop, MP!loop, Match!history, MP!history
<1>a. UNCHANGED match => UNCHANGED MP!vars
  BY DEF match, MP!vars
<1>1. ASSUME NEW c \in Conns,
             \/ Connection(c) \/ QuitRoomTo(c)
             \/ \E mo \in Asked, w \in Workers : MatchReq(c, mo, w)
      PROVE  UNCHANGED match
  BY <1>1 DEF Connection, QuitRoomTo, MatchReq
<1>2. ASSUME NEW w \in Workers, matchWorker(w)
      PROVE  [MP!Next]_(MP!vars)
  <2>1. CASE WorkerStart(w) \/ WorkerStop(w) \/ WorkerGiveUp(w) \/ WorkerAnswer(w)
    BY <1>a, <2>1 DEF WorkerStart, WorkerStop, WorkerGiveUp, WorkerAnswer
  <2>2. CASE WorkerJoin(w)
    <3>1. Member(client[w]) \in MP!Members /\ asked[w] \in MP!Modes
      <4>1. wpc[w] = "join"
        BY <2>2 DEF WorkerJoin
      <4> QED BY <4>1, AsMember DEF ClientOK, MP!Modes
    <3>2. MP!JoinMatch(Member(client[w]), asked[w])
      <4>1. Match!FoldFunction(+, 0, joins) = MP!FoldFunction(+, 0, joins)
        BY DEF Match!FoldFunction, MP!FoldFunction, Match!FoldFunctionOnSet, MP!FoldFunctionOnSet,
               Match!MapThenFoldSet, MP!MapThenFoldSet
      <4> QED BY <2>2, <4>1 DEF WorkerJoin, Match!JoinMatch, MP!JoinMatch, Match!Serving, MP!Serving,
                  Match!ZAdd, MP!ZAdd
    <3> QED BY <3>1, <3>2 DEF MP!Next
  <2>3. CASE WorkerPoll(w)
    <3>1. player[client[w]] \in Players
      <4>1. wpc[w] = "poll"
        BY <2>3 DEF WorkerPoll
      <4> QED BY <4>1 DEF ClientOK
    <3>2. CASE Match!QueryGet(w, player[client[w]])
      <4>1. MP!QueryGet(w, player[client[w]])
        BY <3>2 DEF Match!QueryGet, MP!QueryGet, Match!Serving, MP!Serving, Match!NoQuery,
                    MP!NoQuery, Match!NoResult, MP!NoResult
      <4> QED BY <3>1, <4>1 DEF MP!Next
    <3>3. CASE UNCHANGED match
      BY <1>a, <3>3
    <3> QED BY <2>3, <3>2, <3>3 DEF WorkerPoll
  <2>4. CASE WorkerQueried(w)
    <3>1. MP!QueryDel(w)
      BY <2>4 DEF WorkerQueried, Match!QueryDel, MP!QueryDel, Match!NoQuery, MP!NoQuery,
                  Match!NoResult, MP!NoResult, Match!Failure, MP!Failure
    <3> QED BY <3>1 DEF MP!Next
  <2> QED BY <1>2, <2>1, <2>2, <2>3, <2>4 DEF matchWorker
<1>3. ASSUME NEW g \in Games, Game(g)
      PROVE  [MP!Next]_(MP!vars)
  <2>1. CASE Match!StartGame(g)
    <3>1. MP!StartGame(g)
      BY <2>1 DEF Match!StartGame, MP!StartGame, Match!RoomSeqInit, MP!RoomSeqInit,
                  Match!Failure, MP!Failure
    <3> QED BY <3>1 DEF MP!Next
  <2>2. CASE Match!MatchTick(g)
    <3>1. MP!MatchTick(g)
      BY <2>2, SameTick
    <3> QED BY <3>1 DEF MP!Next
  <2> QED BY <1>3, <2>1, <2>2 DEF Game, Match!MatchTick
<1>4. ASSUME NEW g \in Games, NEW id \in rooms[g], BattleEnds(g, id) \/ DropRoom(g, id)
      PROVE  [MP!Next]_(MP!vars)
  <2>1. CASE BattleEnds(g, id)
    BY <1>a, <2>1 DEF BattleEnds
  <2>2. CASE DropRoom(g, id)
    <3>1. MP!DropRoom(g, id)
      BY <2>2 DEF DropRoom, Match!DropRoom, MP!DropRoom
    <3> QED BY <3>1 DEF MP!Next
  <2> QED BY <1>4, <2>1, <2>2
<1>5. CASE Advance
  <2>1. Match!Advance
    BY <1>5 DEF Advance
  <2>2. MP!Advance
    BY <2>1 DEF Match!Advance, MP!Advance, Match!NoResult, MP!NoResult, Match!Modes, MP!Modes
  <2> QED BY <2>2 DEF MP!Next
<1>6. CASE UNCHANGED vars
  BY <1>6, <1>a DEF vars
<1> QED BY <1>1, <1>2, <1>3, <1>4, <1>5, <1>6, <1>a DEF Next

\* All steps are steps of Gateway.
LEMMA GateStep ==
    ASSUME ClientOK, answer \in [Workers -> Nat], [Next]_vars
    PROVE  [SP!Next]_(SP!vars)
<1> USE DEF Sessions!session, SP!session, Sessions!local, SP!local, Sessions!Goto, SP!Goto,
            Sessions!NotWaiting, SP!NotWaiting, Sessions!NextFrame, SP!NextFrame,
            Sessions!Here, SP!Here, Sessions!Nowhere, SP!Nowhere
<1>a. UNCHANGED gateway => UNCHANGED SP!vars
  BY DEF gateway, SP!vars
<1>b. ASSUME NEW c \in Conns, SP!Serve(c) PROVE SP!Next
  BY <1>b DEF SP!Next
<1>1. ASSUME NEW c \in Conns, Connection(c)
      PROVE  SP!Next
  <2>1. CASE Sessions!Connect(c)
    <3>1. SP!Connect(c)
      BY <2>1 DEF Sessions!Connect, SP!Connect
    <3> QED BY <3>1 DEF SP!Next
  <2>2. CASE Sessions!Drop(c) \/ Sessions!ScanTimeout(c)
    <3>1. SP!Drop(c) \/ SP!ScanTimeout(c)
      BY <2>2 DEF Sessions!Drop, SP!Drop, Sessions!ScanTimeout, SP!ScanTimeout
    <3> QED BY <3>1 DEF SP!Next
  <2>3. CASE Sessions!Read(c)
    <3>1. SP!Read(c)
      BY <2>3 DEF Sessions!Read, SP!Read
    <3> QED BY <3>1 DEF SP!Next
  <2>4. CASE Sessions!LoginReq(c, AccountOf(c))
    <3>1. SP!LoginReq(c, AccountOf(c)) /\ AccountOf(c) \in Players
      BY <2>4, LobbyAssumption DEF Sessions!LoginReq, SP!LoginReq
    <3> QED BY <3>1, <1>b DEF SP!Serve, SP!HandleFrame
  <2>5. CASE Sessions!Login(c)
    <3>1. Sessions!LoginFailed(c) => SP!LoginFailed(c)
      BY DEF Sessions!LoginFailed, SP!LoginFailed
    <3>2. Sessions!BindSession(c) => SP!BindSession(c)
      BY DEF Sessions!BindSession, SP!BindSession, Sessions!OldSession, SP!OldSession
    <3>3. Sessions!KickOld(c) => SP!KickOld(c)
      BY DEF Sessions!KickOld, SP!KickOld
    <3>4. Sessions!WriteRoute(c) => SP!WriteRoute(c)
      BY DEF Sessions!WriteRoute, SP!WriteRoute
    <3>5. SP!Login(c)
      BY <2>5, <3>1, <3>2, <3>3, <3>4 DEF Sessions!Login, SP!Login
    <3> QED BY <3>5, <1>b DEF SP!Serve
  <2>6. CASE Sessions!Disconnect(c)
    <3>1. SP!Disconnect(c)
      BY <2>6 DEF Sessions!Disconnect, SP!Disconnect
    <3> QED BY <3>1, <1>b DEF SP!Serve, SP!OnClientDisconnect
  <2>7. CASE Sessions!RemoveSession(c)
    <3>1. SP!RemoveSession(c)
      BY <2>7 DEF Sessions!RemoveSession, SP!RemoveSession, Sessions!Without, SP!Without
    <3> QED BY <3>1, <1>b DEF SP!Serve, SP!OnClientDisconnect
  <2>8. CASE Sessions!GetRoute(c)
    <3>1. SP!GetRoute(c)
      BY <2>8 DEF Sessions!GetRoute, SP!GetRoute
    <3> QED BY <3>1, <1>b DEF SP!Serve, SP!OnClientDisconnect
  <2>9. CASE Sessions!DelRoute(c)
    <3>1. SP!DelRoute(c)
      BY <2>9 DEF Sessions!DelRoute, SP!DelRoute
    <3> QED BY <3>1, <1>b DEF SP!Serve, SP!OnClientDisconnect
  <2> QED BY <1>1, <2>1, <2>2, <2>3, <2>4, <2>5, <2>6, <2>7, <2>8, <2>9 DEF Connection
<1>2. ASSUME NEW c \in Conns, QuitRoomTo(c) \/ BroadcastLeaveMatch(c)
      PROVE  SP!Next
  <2>1. SP!Notify(c)
    BY <1>2 DEF QuitRoomTo, BroadcastLeaveMatch, Sessions!Notify, SP!Notify
  <2> QED BY <2>1, <1>b DEF SP!Serve, SP!OnClientDisconnect
<1>3. ASSUME NEW c \in Conns, NEW mo \in Asked, NEW w \in Workers, MatchReq(c, mo, w)
      PROVE  SP!Next
  <2>1. SP!MatchReq(c, mo) /\ mo \in {0, 1}
    BY <1>3, LobbyAssumption DEF MatchReq, Sessions!MatchReq, SP!MatchReq
  <2> QED BY <2>1, <1>b DEF SP!Serve, SP!HandleFrame
<1>4. ASSUME NEW w \in Workers, matchWorker(w)
      PROVE  [SP!Next]_(SP!vars)
  <2>1. CASE WorkerStart(w) \/ WorkerJoin(w) \/ WorkerPoll(w) \/ WorkerStop(w) \/ WorkerQueried(w)
    BY <1>a, <2>1 DEF WorkerStart, WorkerJoin, WorkerPoll, WorkerStop, WorkerQueried
  <2>2. CASE WorkerGiveUp(w) \/ WorkerAnswer(w)
    <3>1. wpc[w] # "free"
      BY <2>2 DEF WorkerGiveUp, WorkerAnswer
    <3>2. PICK c : c = client[w]
      OBVIOUS
    <3>3. c \in Conns /\ player[c] # NoPlayer
      BY <3>1, <3>2, LobbyAssumption DEF ClientOK
    <3>4. \E id \in Nat : SP!SendMatchRsp(c, id)
      BY <2>2, <3>2, LobbyAssumption
         DEF WorkerGiveUp, WorkerAnswer, Sessions!SendMatchRsp, SP!SendMatchRsp
    <3>5. \E id \in (Nat \ {NoRoom}) \cup {NoRoom} : SP!SendMatchRsp(c, id)
      BY <3>4
    <3> QED BY <3>3, <3>5 DEF SP!Next
  <2> QED BY <1>4, <2>1, <2>2 DEF matchWorker
<1>5. ASSUME NEW g \in Games, \/ Game(g)
                              \/ \E id \in rooms[g] : BattleEnds(g, id) \/ DropRoom(g, id)
      PROVE  UNCHANGED SP!vars
  BY <1>a, <1>5 DEF Game, BattleEnds, DropRoom
<1>6. CASE Advance
  BY <1>a, <1>6 DEF Advance
<1>7. CASE UNCHANGED vars
  BY <1>7, <1>a DEF vars
<1> QED BY <1>1, <1>2, <1>3, <1>4, <1>5, <1>6, <1>7 DEF Next

-----------------------------------------------------------------------------
\* What holds of the pools and of the sessions by themselves, and that a room's
\* number is none of the numbers that mean something else.
PartsInv ==
    /\ MP!TypeOK /\ MP!RoomIdInv /\ MP!NameInv /\ MP!TwoPlayersInv
    /\ SP!TypeOK /\ SP!SessionInv
    /\ \A r \in made : r.id # NoRoom

\* Where a worker is, and what it has: the time it has waited, a query, an answer.
WorkerInv ==
    /\ ClientOK /\ LoginOK
    /\ wpc \in [Workers -> {"free", "start", "join", "poll", "query", "answer"}]
    /\ asked \in [Workers -> Asked \cup {0}]
    /\ polled \in [Workers -> BOOLEAN]
    /\ waited \in [Workers -> 0..matchPollTimes(MatchTimeout)]
    /\ answer \in [Workers -> Nat]
    /\ ticked \subseteq Games
    /\ \A w \in Workers :
         /\ polled[w] => waited[w] < matchPollTimes(MatchTimeout)
         /\ wpc[w] \in {"free", "start", "join"} => waited[w] = 0
         /\ wpc[w] = "query" <=> query[w] # Match!NoQuery
         /\ wpc[w] = "query" => query[w].player = player[client[w]]
         /\ wpc[w] = "answer" <=> answer[w] # NoRoom

\* The end of a connection takes its player from the pools, and nothing else.
LEMMA LeaveParts ==
    ASSUME PartsInv, NEW c \in Conns, BroadcastLeaveMatch(c)
    PROVE  /\ MP!TypeOK' /\ MP!RoomIdInv' /\ MP!NameInv' /\ MP!TwoPlayersInv'
           /\ \A r \in made' : r.id # NoRoom
<1>1. /\ pool' = [mo \in {0, 1} |-> MP!ZRem(pool[mo], {Member(c)})]
      /\ UNCHANGED <<seq, result, roomRoute, rooms, loopPc, mode, pair, room, expired, query,
                     joins, made, failures>>
  BY DEF BroadcastLeaveMatch, Match!ZRem, MP!ZRem
<1>2. pool' \in [{0, 1} -> MP!Zsets]
  <2>1. ASSUME NEW mo \in {0, 1} PROVE MP!ZRem(pool[mo], {Member(c)}) \in MP!Zsets
    <3>1. pool[mo] \in MP!Zsets
      BY DEF PartsInv, MP!TypeOK, MP!Modes
    <3> QED BY <3>1, Pool, MP!ZRemType DEF MP!ZRemType, MP!PoolAssumption
  <2> QED BY <1>1, <2>1
<1>3. MP!TypeOK'
  BY <1>1, <1>2 DEF PartsInv, MP!TypeOK, MP!Modes
<1>4. MP!RoomIdInv'
  BY <1>1 DEF PartsInv, MP!RoomIdInv, MP!RoomIdsDistinct
<1>5. MP!NameInv' /\ MP!TwoPlayersInv'
  BY <1>1 DEF PartsInv, MP!NameInv, MP!ResultNamesOwnRoom, MP!TwoPlayersInv, MP!NobodyPlaysHimself
<1> QED BY <1>1, <1>3, <1>4, <1>5 DEF PartsInv

\* A room is made with a number that was drawn.
LEMMA MadeNumbered ==
    ASSUME MP!TypeOK, \A r \in made : r.id # NoRoom, [MP!Next]_(MP!vars)
    PROVE  \A r \in made' : r.id # NoRoom
<1>1. ASSUME NEW g \in Games, MP!CreateRoom(g) PROVE \A r \in made' : r.id # NoRoom
  <2>1. room[g] # NoRoom
    BY <1>1 DEF MP!CreateRoom, MP!TypeOK
  <2> QED BY <1>1, <2>1 DEF MP!CreateRoom
<1>2. CASE ~\E g \in Games : MP!CreateRoom(g)
  <2>1. made' = made
    BY <1>2 DEF MP!Next, MP!vars, MP!redis, MP!loop, MP!history, MP!Advance, MP!StartGame, MP!Crash,
                MP!DropRoom, MP!JoinMatch, MP!LeaveMatch, MP!QueryGet, MP!QueryDel, MP!MatchTick,
                MP!Wake, MP!PopPair, MP!PopNothing, MP!PopFailed, MP!NextRoomId,
                MP!NextRoomIdFailed, MP!PublishResults, MP!PublishResult, MP!PublishRoute,
                MP!ScanExpired, MP!ScanFailed, MP!RemoveExpired
  <2> QED BY <2>1
<1> QED BY <1>1, <1>2

\* The parts stay as their own modules prove.
LEMMA PartsStep == PartsInv /\ WorkerInv /\ [Next]_vars => PartsInv'
<1> SUFFICES ASSUME PartsInv, WorkerInv, [Next]_vars PROVE PartsInv'
  OBVIOUS
<1>1. SP!TypeOK' /\ SP!SessionInv'
  BY GateStep, SessionTypes, SessionsKept DEF PartsInv, WorkerInv
<1>2. CASE \E c \in Conns : BroadcastLeaveMatch(c)
  BY <1>1, <1>2, LeaveParts DEF PartsInv
<1>3. CASE ~\E c \in Conns : BroadcastLeaveMatch(c)
  <2>1. asked \in [Workers -> {0, 1}]
    <3>1. Asked \cup {0} \subseteq {0, 1}
      BY LobbyAssumption
    <3> QED BY <3>1 DEF WorkerInv
  <2>2. [MP!Next]_(MP!vars)
    BY <1>3, <2>1, MatchStep DEF WorkerInv
  <2>3. MP!TypeOK' /\ MP!RoomIdInv' /\ MP!NameInv' /\ MP!TwoPlayersInv'
    BY <2>2, MatchTypes, MatchNumbers, MatchNames, MatchPairs DEF PartsInv
  <2>4. \A r \in made' : r.id # NoRoom
    BY <2>2, MadeNumbered DEF PartsInv
  <2> QED BY <1>1, <2>3, <2>4 DEF PartsInv
<1> QED BY <1>2, <1>3

-----------------------------------------------------------------------------
\* A session that is logged in keeps its player and its room, whatever its connection
\* does.
LEMMA ConnectionKeeps ==
    ASSUME SP!TypeOK, LoginOK, NEW c \in Conns,
           Connection(c) \/ QuitRoomTo(c) \/ BroadcastLeaveMatch(c)
    PROVE  /\ LoginOK' /\ roomID' = roomID
           /\ \A d \in Conns : player[d] # NoPlayer => player'[d] = player[d]
<1> USE DEF Sessions!session, Sessions!local, Sessions!Goto, Sessions!NextFrame
<1>0. AccountOf(c) \in Players /\ NoPlayer \notin Players
  BY LobbyAssumption
<1>1. CASE Sessions!LoginReq(c, AccountOf(c)) /\ player[c] = NoPlayer
  <2>1. /\ UNCHANGED <<player, roomID>>
        /\ gwPc' = [gwPc EXCEPT ![c] = "auth"] /\ wanted' = [wanted EXCEPT ![c] = AccountOf(c)]
    BY <1>1 DEF Sessions!LoginReq
  <2> QED BY <1>1, <2>1 DEF LoginOK, SP!TypeOK
<1>2. CASE Sessions!BindSession(c)
  <2>1. /\ gwPc[c] = "auth" /\ roomID' = roomID
        /\ player' = [player EXCEPT ![c] = wanted[c]]
        /\ wanted' = [wanted EXCEPT ![c] = NoPlayer]
        /\ \E l \in {"kick", "route"} : gwPc' = [gwPc EXCEPT ![c] = l]
    BY <1>2 DEF Sessions!BindSession
  <2>2. player[c] = NoPlayer /\ wanted[c] = AccountOf(c)
    BY <2>1 DEF LoginOK
  <2> QED BY <2>1, <2>2 DEF LoginOK, SP!TypeOK
<1>3. CASE ~Sessions!BindSession(c) /\ ~(Sessions!LoginReq(c, AccountOf(c)) /\ player[c] = NoPlayer)
  <2>1. UNCHANGED <<player, roomID>>
    BY <1>3 DEF Connection, QuitRoomTo, BroadcastLeaveMatch, Sessions!Connect, Sessions!Drop,
                Sessions!ScanTimeout, Sessions!Read, Sessions!Login, Sessions!LoginFailed,
                Sessions!KickOld, Sessions!WriteRoute, Sessions!Disconnect, Sessions!RemoveSession,
                Sessions!Notify, Sessions!GetRoute, Sessions!DelRoute
  <2>2. CASE Sessions!Connect(c) \/ Sessions!Drop(c) \/ Sessions!ScanTimeout(c) \/ Sessions!Read(c)
    <3>1. UNCHANGED <<gwPc, wanted>>
      BY <2>2 DEF Sessions!Connect, Sessions!Drop, Sessions!ScanTimeout, Sessions!Read
    <3> QED BY <2>1, <3>1 DEF LoginOK
  <2>3. CASE Sessions!LoginFailed(c)
    <3>1. gwPc' = [gwPc EXCEPT ![c] = "read"] /\ wanted' = [wanted EXCEPT ![c] = NoPlayer]
      BY <2>3 DEF Sessions!LoginFailed
    <3> QED BY <2>1, <3>1 DEF LoginOK, SP!TypeOK
  <2>4. CASE \/ Sessions!KickOld(c) \/ Sessions!WriteRoute(c)
             \/ Sessions!Disconnect(c) \/ Sessions!RemoveSession(c) \/ Sessions!Notify(c)
             \/ Sessions!GetRoute(c) \/ Sessions!DelRoute(c)
    <3>1. wanted' = wanted
      BY <2>4 DEF Sessions!KickOld, Sessions!WriteRoute, Sessions!Disconnect,
                  Sessions!RemoveSession, Sessions!Notify, Sessions!GetRoute, Sessions!DelRoute
    <3>2. \E l \in {"read", "route", "gone", "remove", "quit", "leave", "getroute", "delroute"} :
            gwPc' = [gwPc EXCEPT ![c] = l]
      BY <2>4 DEF Sessions!KickOld, Sessions!WriteRoute, Sessions!Disconnect,
                  Sessions!RemoveSession, Sessions!Notify, Sessions!GetRoute, Sessions!DelRoute
    <3> QED BY <2>1, <3>1, <3>2 DEF LoginOK, SP!TypeOK
  <2> QED BY <1>3, <2>1, <2>2, <2>3, <2>4
          DEF Connection, QuitRoomTo, BroadcastLeaveMatch, Sessions!Login
<1> QED BY <1>1, <1>2, <1>3

\* A worker that is done is as it was before it began.
LEMMA ReleaseKeeps ==
    ASSUME WorkerInv, NEW w \in Workers, Release(w), player' = player,
           wpc[w] # "query", query' = query, ticked' = ticked,
           UNCHANGED <<wanted, gwPc>>
    PROVE  WorkerInv'
<1>1. /\ wpc' = [wpc EXCEPT ![w] = "free"]
      /\ client' = [client EXCEPT ![w] = NoConn]
      /\ asked' = [asked EXCEPT ![w] = 0]
      /\ waited' = [waited EXCEPT ![w] = 0]
      /\ polled' = [polled EXCEPT ![w] = FALSE]
      /\ answer' = [answer EXCEPT ![w] = NoRoom]
  BY DEF Release
<1>2. ClientOK'
  <2>1. ASSUME NEW v \in Workers, v # w
        PROVE  client'[v] = client[v] /\ wpc'[v] = wpc[v]
    BY <1>1, <2>1 DEF WorkerInv, ClientOK
  <2>2. client'[w] = NoConn /\ wpc'[w] = "free"
    BY <1>1 DEF WorkerInv, ClientOK
  <2>3. client' \in [Workers -> Conns \cup {NoConn}]
    BY <1>1 DEF WorkerInv, ClientOK
  <2>4. ASSUME NEW v \in Workers
        PROVE  /\ wpc'[v] = "free" <=> client'[v] = NoConn
               /\ wpc'[v] # "free" => player[client'[v]] \in Players
    <3>1. CASE v = w
      BY <2>2, <3>1
    <3>2. CASE v # w
      BY <2>1, <3>2 DEF WorkerInv, ClientOK
    <3> QED BY <3>1, <3>2
  <2>5. ASSUME NEW v \in Workers, NEW u \in Workers,
               wpc'[u] # "free", player'[client'[u]] \in Patient, client'[v] = client'[u]
        PROVE  v = u
    <3>1. u # w /\ wpc[u] # "free" /\ client'[u] = client[u] /\ client[u] # NoConn
      BY <2>1, <2>2, <2>5 DEF WorkerInv, ClientOK
    <3>2. v # w /\ client'[v] = client[v]
      BY <2>1, <2>2, <2>5, <3>1
    <3> QED BY <2>5, <3>1, <3>2 DEF WorkerInv, ClientOK
  <2> QED BY <2>3, <2>4, <2>5 DEF ClientOK
<1>3. LoginOK'
  BY DEF WorkerInv, LoginOK
<1>4. /\ wpc' \in [Workers -> {"free", "start", "join", "poll", "query", "answer"}]
      /\ asked' \in [Workers -> Asked \cup {0}]
      /\ polled' \in [Workers -> BOOLEAN]
      /\ waited' \in [Workers -> 0..matchPollTimes(MatchTimeout)]
      /\ answer' \in [Workers -> Nat]
      /\ ticked' \subseteq Games
  <2>1. 0 \in 0..matchPollTimes(MatchTimeout) /\ NoRoom \in Nat
    BY LobbyAssumption DEF matchPollTimes
  <2> QED BY <1>1, <2>1 DEF WorkerInv
<1>5. ASSUME NEW v \in Workers
      PROVE  /\ polled'[v] => waited'[v] < matchPollTimes(MatchTimeout)
             /\ wpc'[v] \in {"free", "start", "join"} => waited'[v] = 0
             /\ wpc'[v] = "query" <=> query'[v] # Match!NoQuery
             /\ wpc'[v] = "query" => query'[v].player = player'[client'[v]]
             /\ wpc'[v] = "answer" <=> answer'[v] # NoRoom
  <2>1. CASE v = w
    BY <1>1, <2>1 DEF WorkerInv, ClientOK
  <2>2. CASE v # w
    BY <1>1, <2>2 DEF WorkerInv, ClientOK
  <2> QED BY <2>1, <2>2
<1> QED BY <1>2, <1>3, <1>4, <1>5 DEF WorkerInv

\* The workers: one step of each, and what the connections and the time do to them.
LEMMA WorkerStep == PartsInv /\ WorkerInv /\ [Next]_vars => WorkerInv'
<1> SUFFICES ASSUME PartsInv, WorkerInv, [Next]_vars PROVE WorkerInv'
  OBVIOUS
<1> USE DEF worker
<1>a. \A w \in Workers : wpc[w] # "free" => client[w] \in Conns /\ player[client[w]] # NoPlayer
  BY LobbyAssumption DEF WorkerInv, ClientOK
<1>b. ASSUME UNCHANGED <<worker, query, ticked>>, UNCHANGED <<player, wanted, gwPc>>
      PROVE  WorkerInv'
  BY <1>b DEF WorkerInv, ClientOK, LoginOK
<1>1. ASSUME NEW c \in Conns, Connection(c) \/ QuitRoomTo(c) \/ BroadcastLeaveMatch(c)
      PROVE  WorkerInv'
  <2>1. UNCHANGED <<worker, query, ticked>>
    BY <1>1 DEF Connection, QuitRoomTo, BroadcastLeaveMatch, match
  <2>2. LoginOK' /\ \A d \in Conns : player[d] # NoPlayer => player'[d] = player[d]
    BY <1>1, ConnectionKeeps DEF PartsInv, WorkerInv
  <2>3. ClientOK'
    BY <1>a, <2>1, <2>2 DEF WorkerInv, ClientOK
  <2> QED BY <1>a, <2>1, <2>2, <2>3 DEF WorkerInv
<1>2. ASSUME NEW c \in Conns, NEW mo \in Asked, NEW w \in Workers, MatchReq(c, mo, w)
      PROVE  WorkerInv'
  <2>1. /\ wpc[w] = "free"
        /\ wpc' = [wpc EXCEPT ![w] = "start"] /\ client' = [client EXCEPT ![w] = c]
        /\ asked' = [asked EXCEPT ![w] = mo]
        /\ UNCHANGED <<query, waited, polled, answer, ticked>>
    BY <1>2 DEF MatchReq, match
  <2>2. /\ player[c] \in Players /\ gwPc[c] = "read" /\ UNCHANGED <<player, gwPc, wanted>>
    BY <1>2 DEF MatchReq, Sessions!MatchReq, Sessions!NextFrame, PartsInv, SP!TypeOK
  <2>4. player[c] \in Patient => \A v \in Workers : wpc[v] # "free" => client[v] # c
    BY <1>2 DEF MatchReq, MayAsk, Idle
  <2>5. ClientOK'
    <3>1. client' \in [Workers -> Conns \cup {NoConn}] /\ c # NoConn
      BY <2>1, LobbyAssumption DEF WorkerInv, ClientOK
    <3>2. ASSUME NEW v \in Workers, v # w
          PROVE  client'[v] = client[v] /\ wpc'[v] = wpc[v]
      BY <2>1, <3>2 DEF WorkerInv, ClientOK
    <3>3. client'[w] = c /\ wpc'[w] = "start"
      BY <2>1 DEF WorkerInv, ClientOK
    <3>4. ASSUME NEW v \in Workers
          PROVE  /\ wpc'[v] = "free" <=> client'[v] = NoConn
                 /\ wpc'[v] # "free" => player'[client'[v]] \in Players
      <4>1. CASE v = w
        BY <2>2, <3>1, <3>3, <4>1
      <4>2. CASE v # w
        BY <2>2, <3>2, <4>2 DEF WorkerInv, ClientOK
      <4> QED BY <4>1, <4>2
    <3>5. ASSUME NEW v \in Workers, NEW u \in Workers,
                 wpc'[u] # "free", player'[client'[u]] \in Patient, client'[v] = client'[u]
          PROVE  v = u
      <4>1. CASE u = w
        <5>1. ASSUME v # w PROVE FALSE
          <6>1. client[v] = c /\ player[c] \in Patient
            BY <2>2, <3>2, <3>3, <3>5, <4>1, <5>1
          <6>2. wpc[v] # "free"
            BY <3>1, <6>1 DEF WorkerInv, ClientOK
          <6> QED BY <2>4, <6>1, <6>2
        <5> QED BY <4>1, <5>1
      <4>2. CASE u # w
        <5>1. wpc[u] # "free" /\ client'[u] = client[u] /\ player[client[u]] \in Patient
          BY <2>2, <3>2, <3>5, <4>2
        <5>2. CASE v = w
          BY <2>4, <3>3, <3>5, <5>1, <5>2
        <5>3. CASE v # w
          BY <3>2, <3>5, <5>1, <5>3 DEF WorkerInv, ClientOK
        <5> QED BY <5>2, <5>3
      <4> QED BY <4>1, <4>2
    <3> QED BY <3>1, <3>4, <3>5 DEF ClientOK
  <2>6. LoginOK'
    BY <2>2 DEF WorkerInv, LoginOK
  <2>7. ASSUME NEW v \in Workers
        PROVE  /\ polled'[v] => waited'[v] < matchPollTimes(MatchTimeout)
               /\ wpc'[v] \in {"free", "start", "join"} => waited'[v] = 0
               /\ wpc'[v] = "query" <=> query'[v] # Match!NoQuery
               /\ wpc'[v] = "query" => query'[v].player = player'[client'[v]]
               /\ wpc'[v] = "answer" <=> answer'[v] # NoRoom
    <3>1. CASE v = w
      BY <2>1, <3>1 DEF WorkerInv
    <3>2. CASE v # w
      BY <2>1, <2>2, <3>2 DEF WorkerInv, ClientOK
    <3> QED BY <3>1, <3>2
  <2>8. /\ wpc' \in [Workers -> {"free", "start", "join", "poll", "query", "answer"}]
        /\ asked' \in [Workers -> Asked \cup {0}]
    BY <2>1 DEF WorkerInv
  <2> QED BY <2>1, <2>5, <2>6, <2>7, <2>8 DEF WorkerInv
<1>3. ASSUME NEW w \in Workers, WorkerStart(w)
      PROVE  WorkerInv'
  <2>1. UNCHANGED <<query, ticked, player, wanted, gwPc>>
    BY <1>3 DEF WorkerStart, gateway, match
  <2>2. CASE Release(w)
    BY <1>3, <2>1, <2>2, ReleaseKeeps DEF WorkerStart
  <2>3. CASE wpc' = [wpc EXCEPT ![w] = "join"] /\ UNCHANGED <<client, asked, waited, polled, answer>>
    BY <1>3, <2>1, <2>3 DEF WorkerStart, WorkerInv, ClientOK, LoginOK
  <2> QED BY <1>3, <2>2, <2>3 DEF WorkerStart
<1>4. ASSUME NEW w \in Workers, WorkerJoin(w)
      PROVE  WorkerInv'
  <2>1. /\ wpc[w] = "join" /\ wpc' = [wpc EXCEPT ![w] = "poll"]
        /\ UNCHANGED <<query, ticked, player, wanted, gwPc>>
        /\ UNCHANGED <<client, asked, waited, polled, answer>>
    BY <1>4 DEF WorkerJoin, Match!JoinMatch, gateway
  <2> QED BY <2>1 DEF WorkerInv, ClientOK, LoginOK
<1>5. ASSUME NEW w \in Workers, WorkerPoll(w)
      PROVE  WorkerInv'
  <2>1. /\ wpc[w] = "poll" /\ waited[w] < matchPollTimes(MatchTimeout)
        /\ polled' = [polled EXCEPT ![w] = TRUE]
        /\ UNCHANGED <<ticked, player, wanted, gwPc>>
        /\ UNCHANGED <<client, asked, waited, answer>>
    BY <1>5 DEF WorkerPoll, gateway
  <2>2. CASE Match!QueryGet(w, player[client[w]]) /\ wpc' = [wpc EXCEPT ![w] = "query"]
    <3>1. PICK p, id : p = player[client[w]] /\ id = result[p].room
      OBVIOUS
    <3>2. p \in Players /\ p # NoPlayer
      BY <2>1, <3>1, LobbyAssumption DEF WorkerInv, ClientOK
    <3>3. query' = [query EXCEPT ![w] = [player |-> p, room |-> id]]
      BY <2>2, <3>1 DEF Match!QueryGet
    <3>4. [player |-> p, room |-> id] # Match!NoQuery
      BY <3>2 DEF Match!NoQuery
    <3>5. /\ query'[w] = [player |-> p, room |-> id]
          /\ \A v \in Workers \ {w} : query'[v] = query[v]
      BY <3>3 DEF PartsInv, MP!TypeOK
    <3>6. ClientOK' /\ LoginOK'
      BY <2>1, <2>2 DEF WorkerInv, ClientOK, LoginOK
    <3>7. ASSUME NEW v \in Workers
          PROVE  /\ polled'[v] => waited'[v] < matchPollTimes(MatchTimeout)
                 /\ wpc'[v] \in {"free", "start", "join"} => waited'[v] = 0
                 /\ wpc'[v] = "query" <=> query'[v] # Match!NoQuery
                 /\ wpc'[v] = "query" => query'[v].player = player'[client'[v]]
                 /\ wpc'[v] = "answer" <=> answer'[v] # NoRoom
      <4>1. CASE v = w
        <5>1. wpc'[v] = "query" /\ query'[v].player = p /\ query'[v] # Match!NoQuery
          BY <2>2, <3>4, <3>5, <4>1 DEF WorkerInv
        <5> QED BY <2>1, <3>1, <4>1, <5>1 DEF WorkerInv
      <4>2. CASE v # w
        BY <2>1, <2>2, <3>5, <4>2 DEF WorkerInv, ClientOK
      <4> QED BY <4>1, <4>2
    <3> QED BY <2>1, <2>2, <3>6, <3>7 DEF WorkerInv
  <2>3. CASE UNCHANGED <<match, wpc>>
    BY <2>1, <2>3 DEF WorkerInv, ClientOK, LoginOK, match
  <2> QED BY <1>5, <2>2, <2>3 DEF WorkerPoll
<1>6. ASSUME NEW w \in Workers, WorkerStop(w)
      PROVE  WorkerInv'
  <2>1. UNCHANGED <<query, ticked, player, wanted, gwPc>> /\ wpc[w] = "poll" /\ Release(w)
    BY <1>6 DEF WorkerStop, gateway, match
  <2> QED BY <2>1, ReleaseKeeps
<1>7. ASSUME NEW w \in Workers, WorkerGiveUp(w) \/ WorkerAnswer(w)
      PROVE  WorkerInv'
  <2>1. /\ UNCHANGED <<query, ticked, player, wanted, gwPc>> /\ wpc[w] # "query" /\ Release(w)
    BY <1>7 DEF WorkerGiveUp, WorkerAnswer, Sessions!SendMatchRsp, Sessions!local, match
  <2> QED BY <2>1, ReleaseKeeps
<1>8. ASSUME NEW w \in Workers, WorkerQueried(w)
      PROVE  WorkerInv'
  <2>1. PICK id : id = query[w].room
    OBVIOUS
  <2>2. /\ wpc[w] = "query" /\ wpc' = [wpc EXCEPT ![w] = "answer"]
        /\ query[w] # Match!NoQuery /\ query' = [query EXCEPT ![w] = Match!NoQuery]
        /\ answer' = [answer EXCEPT ![w] = id]
        /\ UNCHANGED <<ticked, player, wanted, gwPc>>
        /\ UNCHANGED <<client, asked, waited, polled>>
    BY <1>8, <2>1 DEF WorkerQueried, Match!QueryDel, gateway
  <2>3. id \in Nat /\ id # NoRoom
    <3>1. PICK r \in made : r.id = query[w].room
      BY <2>2 DEF PartsInv, MP!NameInv, MP!ResultNamesOwnRoom, Match!NoQuery, MP!NoQuery
    <3>2. r.id \in Nat
      BY DEF PartsInv, MP!RoomIdInv
    <3> QED BY <2>1, <3>1, <3>2 DEF PartsInv
  <2>4. \A v \in Workers : query'[v] = IF v = w THEN Match!NoQuery ELSE query[v]
    BY <2>2 DEF PartsInv, MP!TypeOK
  <2>5. ClientOK' /\ LoginOK'
    BY <2>2 DEF WorkerInv, ClientOK, LoginOK
  <2>6. ASSUME NEW v \in Workers
        PROVE  /\ polled'[v] => waited'[v] < matchPollTimes(MatchTimeout)
               /\ wpc'[v] \in {"free", "start", "join"} => waited'[v] = 0
               /\ wpc'[v] = "query" <=> query'[v] # Match!NoQuery
               /\ wpc'[v] = "query" => query'[v].player = player'[client'[v]]
               /\ wpc'[v] = "answer" <=> answer'[v] # NoRoom
    <3>1. CASE v = w
      BY <2>2, <2>3, <2>4, <3>1 DEF WorkerInv
    <3>2. CASE v # w
      BY <2>2, <2>4, <3>2 DEF WorkerInv
    <3> QED BY <3>1, <3>2
  <2> QED BY <2>2, <2>3, <2>5, <2>6 DEF WorkerInv
<1>9. ASSUME NEW g \in Games, Game(g)
      PROVE  WorkerInv'
  <2>1. UNCHANGED gateway /\ UNCHANGED worker /\ ticked' \subseteq Games
    BY <1>9 DEF Game, WorkerInv
  <2>2. UNCHANGED query
    BY <1>9 DEF Game, Match!StartGame, Match!MatchTick, Match!Wake, Match!PopPair,
                Match!PopNothing, Match!PopFailed, Match!NextRoomId, Match!NextRoomIdFailed,
                Match!CreateRoom, Match!PublishResults, Match!PublishResult, Match!PublishRoute,
                Match!ScanExpired, Match!ScanFailed, Match!RemoveExpired
  <2> QED BY <2>1, <2>2 DEF WorkerInv, ClientOK, LoginOK, gateway
<1>10. ASSUME NEW g \in Games, NEW id \in rooms[g], BattleEnds(g, id) \/ DropRoom(g, id)
       PROVE  WorkerInv'
  BY <1>10 DEF BattleEnds, DropRoom, Match!DropRoom, WorkerInv, ClientOK, LoginOK, gateway, match
<1>11. CASE Advance
  <2>1. /\ UNCHANGED <<player, wanted, gwPc>> /\ UNCHANGED <<query, wpc, client, asked, answer>>
        /\ ticked' = {} /\ polled' = [w \in Workers |-> FALSE]
        /\ waited' = [w \in Workers |-> IF wpc[w] = "poll" THEN waited[w] + 1 ELSE 0]
        /\ \A w \in Workers : wpc[w] = "free" \/ (wpc[w] = "poll" /\ polled[w])
    BY <1>11 DEF Advance, Match!Advance, gateway
  <2>2. waited' \in [Workers -> 0..matchPollTimes(MatchTimeout)]
    <3>1. matchPollTimes(MatchTimeout) \in Nat
      BY LobbyAssumption DEF matchPollTimes
    <3>2. ASSUME NEW w \in Workers
          PROVE  (IF wpc[w] = "poll" THEN waited[w] + 1 ELSE 0) \in 0..matchPollTimes(MatchTimeout)
      BY <2>1, <3>1 DEF WorkerInv
    <3> QED BY <2>1, <3>2
  <2>3. \A w \in Workers : polled'[w] = FALSE /\ (wpc[w] \in {"free", "start", "join"} => waited'[w] = 0)
    BY <2>1
  <2> QED BY <2>1, <2>2, <2>3 DEF WorkerInv, ClientOK, LoginOK
<1>12. CASE UNCHANGED vars
  BY <1>12, <1>b DEF vars, gateway, match
<1> QED BY <1>1, <1>2, <1>3, <1>4, <1>5, <1>6, <1>7, <1>8, <1>9, <1>10, <1>11, <1>12
        DEF Next, matchWorker

-----------------------------------------------------------------------------
\* Where the battles are: what an instance holds is a battle of its own, and one that
\* goes on is held; its route is there or still to be written by the loop that made it.
RoomsInv ==
    /\ over \subseteq {r.id : r \in made}
    /\ \A r \in made : r.id \in over \/ r.id \in rooms[r.game]
    /\ \A g \in Games : \A id \in rooms[g] : \E r \in made : r.id = id /\ r.game = g
    /\ \A i \in DOMAIN roomRoute : \E r \in made : r.id = i /\ r.game = roomRoute[i]
    /\ \A r \in made :
         \/ r.id \in DOMAIN roomRoute
         \/ loopPc[r.game] \in {"result1", "result2", "route"} /\ room[r.game] = r.id
    /\ \A g \in Games : loopPc[g] \in {"result1", "result2", "route"} =>
         \E r \in made : r.id = room[g] /\ r.game = g

\* No command fails here.
LEMMA NoFailure == MP!TypeOK => ~Match!Failure
BY DEF MP!TypeOK, Match!Failure

\* A battle is put into its instance before its route is written, and leaves it when it is over.
LEMMA RoomsStep == PartsInv /\ WorkerInv /\ RoomsInv /\ [Next]_vars => RoomsInv'
<1> SUFFICES ASSUME PartsInv, WorkerInv, RoomsInv, [Next]_vars PROVE RoomsInv'
  OBVIOUS
<1> USE DEF Match!Goto
<1>a. /\ ~Match!Failure /\ MP!TypeOK
      /\ \A r \in made : r.game \in Games
  BY NoFailure DEF PartsInv, MP!TypeOK, MP!RoomRecords
<1>b. ASSUME UNCHANGED <<made, rooms, roomRoute, loopPc, room, over>> PROVE RoomsInv'
  BY <1>b DEF RoomsInv
<1>1. ASSUME NEW c \in Conns, Connection(c) \/ BroadcastLeaveMatch(c)
      PROVE  RoomsInv'
  BY <1>1, <1>b DEF Connection, BroadcastLeaveMatch, match
<1>2. ASSUME NEW c \in Conns, QuitRoomTo(c) PROVE RoomsInv'
  <2>1. UNCHANGED match /\ \E D \in SUBSET {r.id : r \in made} : over' = over \cup D
    BY <1>2 DEF QuitRoomTo
  <2> QED BY <2>1 DEF RoomsInv, match
<1>3. ASSUME NEW c \in Conns, \E mo \in Asked, w \in Workers : MatchReq(c, mo, w)
      PROVE  RoomsInv'
  BY <1>3, <1>b DEF MatchReq, match
<1>4. ASSUME NEW w \in Workers, matchWorker(w)
      PROVE  RoomsInv'
  <2> USE DEF Match!redis, Match!loop, match
  <2>1. WorkerStart(w) \/ WorkerStop(w) \/ WorkerGiveUp(w) \/ WorkerAnswer(w)
          => UNCHANGED <<made, rooms, roomRoute, loopPc, room, over>>
    BY DEF WorkerStart, WorkerStop, WorkerGiveUp, WorkerAnswer
  <2>2. WorkerJoin(w) => UNCHANGED <<made, rooms, roomRoute, loopPc, room, over>>
    BY DEF WorkerJoin, Match!JoinMatch
  <2>3. WorkerPoll(w) => UNCHANGED <<made, rooms, roomRoute, loopPc, room, over>>
    BY DEF WorkerPoll, Match!QueryGet, Match!history
  <2>4. WorkerQueried(w) => UNCHANGED <<made, rooms, roomRoute, loopPc, room, over>>
    BY DEF WorkerQueried, Match!QueryDel
  <2> QED BY <1>4, <2>1, <2>2, <2>3, <2>4, <1>b DEF matchWorker
<1>5. ASSUME NEW g \in Games, Game(g), ~Match!CreateRoom(g), ~Match!PublishRoute(g)
      PROVE  RoomsInv'
  <2>1. UNCHANGED <<made, rooms, roomRoute, over>>
    BY <1>5 DEF Game, Match!StartGame, Match!MatchTick, Match!Wake, Match!PopPair,
                Match!PopNothing, Match!PopFailed, Match!NextRoomId, Match!NextRoomIdFailed,
                Match!PublishResults, Match!PublishResult, Match!ScanExpired, Match!ScanFailed,
                Match!RemoveExpired, Match!redis, Match!history
  <2>2. /\ loopPc[g] \in {"result1", "result2", "route"} =>
             UNCHANGED room /\ (loopPc' = [loopPc EXCEPT ![g] = "result2"]
                                \/ loopPc' = [loopPc EXCEPT ![g] = "route"])
        /\ loopPc[g] \notin {"result1", "result2", "route"} =>
             /\ \A h \in Games \ {g} : room'[h] = room[h]
             /\ \E l \in {"idle", "pair", "incr", "create", "scan", "expire"} :
                  loopPc' = [loopPc EXCEPT ![g] = l]
    <3>1. CASE Match!PublishResults(g)
      BY <3>1 DEF Match!PublishResults, Match!PublishResult
    <3>2. CASE Match!NextRoomId(g)
      <4>1. loopPc[g] = "incr" /\ loopPc' = [loopPc EXCEPT ![g] = "create"]
            /\ room' = [room EXCEPT ![g] = seq + 1]
        BY <3>2 DEF Match!NextRoomId
      <4> QED BY <4>1, <1>a DEF MP!TypeOK
    <3>3. CASE ~Match!PublishResults(g) /\ ~Match!NextRoomId(g)
      <4>1. room' = room
        BY <1>5, <3>3 DEF Game, Match!StartGame, Match!MatchTick, Match!Wake, Match!PopPair,
             Match!PopNothing, Match!PopFailed, Match!NextRoomIdFailed, Match!ScanExpired,
             Match!ScanFailed, Match!RemoveExpired
      <4>2. /\ loopPc[g] \in {"down", "idle", "pair", "incr", "scan", "expire"}
            /\ \E l \in {"idle", "pair", "incr", "create", "scan", "expire"} :
                  loopPc' = [loopPc EXCEPT ![g] = l]
        BY <1>5, <3>3 DEF Game, Match!StartGame, Match!MatchTick, Match!Wake, Match!PopPair,
             Match!PopNothing, Match!PopFailed, Match!NextRoomIdFailed, Match!ScanExpired,
             Match!ScanFailed, Match!RemoveExpired, Match!EndTick
      <4> QED BY <4>1, <4>2
    <3> QED BY <3>1, <3>2, <3>3
  <2>3. /\ \A h \in Games \ {g} : loopPc'[h] = loopPc[h] /\ room'[h] = room[h]
        /\ loopPc[g] \in {"result1", "result2", "route"} <=> loopPc'[g] \in {"result1", "result2", "route"}
        /\ loopPc[g] \in {"result1", "result2", "route"} => room'[g] = room[g]
    BY <1>a, <2>2 DEF MP!TypeOK
  <2> QED BY <1>a, <2>1, <2>3 DEF RoomsInv
<1>6. ASSUME NEW g \in Games, Game(g), Match!CreateRoom(g)
      PROVE  RoomsInv'
  <2>1. PICK r : r.id = room[g] /\ r.game = g /\ made' = made \cup {r}
    BY <1>6 DEF Match!CreateRoom
  <2>2. /\ rooms' = [rooms EXCEPT ![g] = @ \cup {room[g]}]
        /\ loopPc[g] = "create" /\ loopPc' = [loopPc EXCEPT ![g] = "result1"]
        /\ UNCHANGED <<room, roomRoute, over>>
    BY <1>6 DEF Match!CreateRoom, Game, Match!redis
  <2>3. /\ \A h \in Games \ {g} : rooms'[h] = rooms[h] /\ loopPc'[h] = loopPc[h]
        /\ rooms'[g] = rooms[g] \cup {room[g]} /\ loopPc'[g] = "result1"
    BY <1>a, <2>2 DEF MP!TypeOK
  <2>4. over' \subseteq {s.id : s \in made'}
    BY <2>1, <2>2 DEF RoomsInv
  <2>5. \A s \in made' : s.id \in over \/ s.id \in rooms'[s.game]
    BY <1>a, <2>1, <2>3 DEF RoomsInv
  <2>6. \A h \in Games : \A id \in rooms'[h] : \E s \in made' : s.id = id /\ s.game = h
    BY <2>1, <2>3 DEF RoomsInv
  <2>7. \A s \in made' : \/ s.id \in DOMAIN roomRoute
                         \/ loopPc'[s.game] \in {"result1", "result2", "route"} /\ room[s.game] = s.id
    BY <1>a, <2>1, <2>2, <2>3 DEF RoomsInv
  <2>8. \A h \in Games : loopPc'[h] \in {"result1", "result2", "route"} =>
          \E s \in made' : s.id = room[h] /\ s.game = h
    BY <2>1, <2>3 DEF RoomsInv
  <2> QED BY <2>1, <2>2, <2>4, <2>5, <2>6, <2>7, <2>8 DEF RoomsInv
<1>7. ASSUME NEW g \in Games, Game(g), Match!PublishRoute(g)
      PROVE  RoomsInv'
  <2>1. /\ loopPc[g] = "route" /\ loopPc' = [loopPc EXCEPT ![g] = "scan"]
        /\ roomRoute' = [i \in DOMAIN roomRoute \cup {room[g]} |->
                           IF i = room[g] THEN g ELSE roomRoute[i]]
        /\ room' = [room EXCEPT ![g] = NoRoom]
        /\ UNCHANGED <<made, rooms, over>>
    BY <1>7, <1>a DEF Match!PublishRoute, Game
  <2>2. PICK r \in made : r.id = room[g] /\ r.game = g
    BY <2>1 DEF RoomsInv
  <2>3. DOMAIN roomRoute' = DOMAIN roomRoute \cup {room[g]}
    BY <2>1
  <2>4. \A i \in DOMAIN roomRoute' : \E s \in made : s.id = i /\ s.game = roomRoute'[i]
    <3> SUFFICES ASSUME NEW i \in DOMAIN roomRoute'
                 PROVE  \E s \in made : s.id = i /\ s.game = roomRoute'[i]
      OBVIOUS
    <3>1. CASE i = room[g]
      <4>1. roomRoute'[i] = g
        BY <2>1, <3>1
      <4> QED BY <2>2, <3>1, <4>1
    <3>2. CASE i # room[g]
      <4>1. i \in DOMAIN roomRoute /\ roomRoute'[i] = roomRoute[i]
        BY <2>1, <2>3, <3>2
      <4> QED BY <4>1 DEF RoomsInv
    <3> QED BY <3>1, <3>2
  <2>5. /\ \A h \in Games \ {g} : room'[h] = room[h] /\ loopPc'[h] = loopPc[h]
        /\ loopPc'[g] = "scan"
    BY <1>a, <2>1 DEF MP!TypeOK
  <2>6. \A s \in made : \/ s.id \in DOMAIN roomRoute'
                        \/ loopPc'[s.game] \in {"result1", "result2", "route"} /\ room'[s.game] = s.id
    BY <1>a, <2>3, <2>5 DEF RoomsInv
  <2>7. \A h \in Games : loopPc'[h] \in {"result1", "result2", "route"} =>
          \E s \in made : s.id = room'[h] /\ s.game = h
    BY <2>5 DEF RoomsInv
  <2>8. \A s \in made : s.id \in over \/ s.id \in rooms[s.game]
    BY DEF RoomsInv
  <2>9. \A h \in Games : \A id \in rooms[h] : \E s \in made : s.id = id /\ s.game = h
    BY DEF RoomsInv
  <2>10. over \subseteq {s.id : s \in made}
    BY DEF RoomsInv
  <2>11. UNCHANGED <<made, rooms, over>>
    BY <2>1
  <2> QED BY <2>4, <2>6, <2>7, <2>8, <2>9, <2>10, <2>11 DEF RoomsInv
<1>8. ASSUME NEW g \in Games, NEW id \in rooms[g], BattleEnds(g, id)
      PROVE  RoomsInv'
  <2>1. over' = over \cup {id} /\ UNCHANGED match
    BY <1>8 DEF BattleEnds
  <2> QED BY <2>1 DEF RoomsInv, match
<1>9. ASSUME NEW g \in Games, NEW id \in rooms[g], DropRoom(g, id)
      PROVE  RoomsInv'
  <2>1. id \in over /\ rooms' = [rooms EXCEPT ![g] = @ \ {id}]
        /\ UNCHANGED <<made, roomRoute, loopPc, room, over>>
    BY <1>9 DEF DropRoom, Match!DropRoom, Match!redis, Match!loop, Match!history
  <2>2. \A h \in Games : rooms'[h] = IF h = g THEN rooms[h] \ {id} ELSE rooms[h]
    BY <1>a, <2>1 DEF MP!TypeOK
  <2> QED BY <1>a, <2>1, <2>2 DEF RoomsInv
<1>10. CASE Advance
  BY <1>10, <1>b DEF Advance, Match!Advance, Match!loop, Match!history
<1>11. CASE UNCHANGED vars
  BY <1>11, <1>b DEF vars, match
<1> QED BY <1>1, <1>2, <1>3, <1>4, <1>5, <1>6, <1>7, <1>8, <1>9, <1>10, <1>11 DEF Next

-----------------------------------------------------------------------------
\* What a worker is about to answer and what a session knows is a battle of its player.
NamesInv ==
    /\ \A w \in Workers : answer[w] # NoRoom =>
         \E r \in made : r.id = answer[w] /\ player[client[w]] \in Match!Of(r)
    /\ \A c \in Conns : roomID[c] # NoRoom =>
         \E r \in made : r.id = roomID[c] /\ player[c] \in Match!Of(r)

\* Whose battle it is does not change, and battles are only added.
LEMMA Belongs == MP!TypeOK => \A r \in made : Match!Of(r) \subseteq Players
BY DEF MP!TypeOK, MP!RoomRecords, MP!Members, Match!Of

LEMMA MadeGrows ==
    ASSUME NEW g \in Games, Game(g)
    PROVE  made \subseteq made'
BY DEF Game, Match!StartGame, Match!MatchTick, Match!Wake, Match!PopPair, Match!PopNothing,
       Match!PopFailed, Match!NextRoomId, Match!NextRoomIdFailed, Match!CreateRoom,
       Match!PublishResults, Match!PublishResult, Match!PublishRoute, Match!ScanExpired,
       Match!ScanFailed, Match!RemoveExpired, Match!redis, Match!history

\* The steps that leave what is known as it is.
LEMMA NamesKept ==
    ASSUME NamesInv, made \subseteq made', UNCHANGED <<answer, client, roomID, player>>
    PROVE  NamesInv'
BY DEF NamesInv, Match!Of

\* A query hands its own player's battle to the worker, and the worker to its session.
LEMMA NamesStep == PartsInv /\ WorkerInv /\ NamesInv /\ [Next]_vars => NamesInv'
<1> SUFFICES ASSUME PartsInv, WorkerInv, NamesInv, [Next]_vars PROVE NamesInv'
  OBVIOUS
<1>a. \A w \in Workers : wpc[w] # "free" => client[w] \in Conns /\ player[client[w]] # NoPlayer
  BY LobbyAssumption DEF WorkerInv, ClientOK
<1>b. \A r \in made : NoPlayer \notin Match!Of(r)
  BY Belongs, LobbyAssumption DEF PartsInv
<1>1. ASSUME NEW c \in Conns, Connection(c) \/ QuitRoomTo(c) \/ BroadcastLeaveMatch(c)
      PROVE  NamesInv'
  <2>1. UNCHANGED <<worker, made>>
    BY <1>1 DEF Connection, QuitRoomTo, BroadcastLeaveMatch, match
  <2>2. roomID' = roomID /\ \A d \in Conns : player[d] # NoPlayer => player'[d] = player[d]
    BY <1>1, ConnectionKeeps DEF PartsInv, WorkerInv
  <2>3. \A w \in Workers : answer[w] # NoRoom => player'[client[w]] = player[client[w]]
    BY <1>a, <2>2 DEF WorkerInv
  <2>4. \A d \in Conns : roomID[d] # NoRoom => player'[d] = player[d]
    BY <1>b, <2>2 DEF NamesInv
  <2> QED BY <2>1, <2>2, <2>3, <2>4 DEF NamesInv, Match!Of, worker
<1>2. ASSUME NEW c \in Conns, NEW mo \in Asked, NEW w \in Workers, MatchReq(c, mo, w)
      PROVE  NamesInv'
  <2>1. /\ wpc[w] = "free" /\ client' = [client EXCEPT ![w] = c]
        /\ UNCHANGED <<made, answer, roomID, player>>
    BY <1>2 DEF MatchReq, Sessions!MatchReq, match
  <2>2. answer[w] = NoRoom /\ \A v \in Workers \ {w} : client'[v] = client[v]
    BY <2>1 DEF WorkerInv, ClientOK
  <2> QED BY <2>1, <2>2 DEF NamesInv, Match!Of
<1>3. ASSUME NEW w \in Workers, Release(w), UNCHANGED <<made, player>>,
             \/ roomID' = roomID
             \/ answer[w] # NoRoom /\ roomID' = [roomID EXCEPT ![client[w]] = answer[w]]
      PROVE  NamesInv'
  <2>1. /\ answer'[w] = NoRoom
        /\ \A v \in Workers \ {w} : answer'[v] = answer[v] /\ client'[v] = client[v]
    BY <1>3 DEF Release, WorkerInv, ClientOK
  <2>2. ASSUME NEW d \in Conns, roomID'[d] # NoRoom
        PROVE  \E r \in made : r.id = roomID'[d] /\ player[d] \in Match!Of(r)
    <3>1. CASE roomID'[d] = roomID[d]
      BY <2>2, <3>1 DEF NamesInv
    <3>2. CASE roomID'[d] # roomID[d]
      <4>1. answer[w] # NoRoom /\ d = client[w] /\ roomID'[d] = answer[w]
        BY <1>3, <3>2 DEF PartsInv, SP!TypeOK
      <4> QED BY <4>1 DEF NamesInv
    <3> QED BY <3>1, <3>2
  <2>3. ASSUME NEW v \in Workers, answer'[v] # NoRoom
        PROVE  \E r \in made : r.id = answer'[v] /\ player[client'[v]] \in Match!Of(r)
    BY <2>1, <2>3 DEF NamesInv
  <2> QED BY <1>3, <2>2, <2>3 DEF NamesInv, Match!Of
<1>4. ASSUME NEW w \in Workers, matchWorker(w)
      PROVE  NamesInv'
  <2>1. CASE WorkerStart(w) \/ WorkerStop(w)
    <3>1. UNCHANGED <<made, player, roomID>>
      BY <2>1 DEF WorkerStart, WorkerStop, gateway, match
    <3>2. Release(w) \/ UNCHANGED <<answer, client>>
      BY <2>1 DEF WorkerStart, WorkerStop
    <3> QED BY <1>3, <3>1, <3>2, NamesKept
  <2>2. CASE WorkerJoin(w) \/ WorkerPoll(w)
    <3>1. UNCHANGED <<answer, client, roomID, player, made>>
      BY <2>2 DEF WorkerJoin, WorkerPoll, gateway, match, Match!JoinMatch, Match!QueryGet,
                  Match!history
    <3> QED BY <3>1, NamesKept
  <2>3. CASE WorkerQueried(w)
    <3>1. /\ query[w] # Match!NoQuery /\ answer' = [answer EXCEPT ![w] = query[w].room]
          /\ wpc[w] = "query" /\ UNCHANGED <<made, client, roomID, player>>
      BY <2>3 DEF WorkerQueried, Match!QueryDel, gateway
    <3>2. \E r \in made : r.id = query[w].room /\ player[client[w]] \in Match!Of(r)
      BY <3>1 DEF PartsInv, MP!NameInv, MP!ResultNamesOwnRoom, Match!NoQuery, MP!NoQuery,
                  Match!Of, MP!Of, WorkerInv
    <3>3. answer'[w] = query[w].room /\ \A v \in Workers \ {w} : answer'[v] = answer[v]
      BY <3>1 DEF WorkerInv
    <3> QED BY <3>1, <3>2, <3>3 DEF NamesInv, Match!Of
  <2>4. CASE WorkerGiveUp(w) \/ WorkerAnswer(w)
    <3>1. Release(w) /\ UNCHANGED <<made, player>>
      BY <2>4 DEF WorkerGiveUp, WorkerAnswer, Sessions!SendMatchRsp, match
    <3>2. CASE WorkerGiveUp(w)
      <4>1. roomID' = [roomID EXCEPT ![client[w]] = @]
        BY <3>2 DEF WorkerGiveUp, Sessions!SendMatchRsp
      <4>2. roomID' = roomID
        BY <4>1 DEF PartsInv, SP!TypeOK
      <4> QED BY <1>3, <3>1, <4>2
    <3>3. CASE WorkerAnswer(w)
      <4>1. answer[w] # NoRoom
        BY <3>3 DEF WorkerAnswer, WorkerInv
      <4>2. roomID' = [roomID EXCEPT ![client[w]] = answer[w]]
        BY <3>3, <4>1 DEF WorkerAnswer, Sessions!SendMatchRsp
      <4> QED BY <1>3, <3>1, <4>1, <4>2
    <3> QED BY <2>4, <3>2, <3>3
  <2> QED BY <1>4, <2>1, <2>2, <2>3, <2>4 DEF matchWorker
<1>5. ASSUME NEW g \in Games, Game(g)
      PROVE  NamesInv'
  BY <1>5, MadeGrows, NamesKept DEF Game, gateway, worker
<1>6. ASSUME NEW g \in Games, NEW id \in rooms[g], BattleEnds(g, id) \/ DropRoom(g, id)
      PROVE  NamesInv'
  BY <1>6, NamesKept DEF BattleEnds, DropRoom, Match!DropRoom, Match!history, gateway, worker, match
<1>7. CASE Advance
  BY <1>7, NamesKept DEF Advance, Match!Advance, Match!history, gateway
<1>8. CASE UNCHANGED vars
  BY <1>8, NamesKept DEF vars, gateway, worker, match
<1> QED BY <1>1, <1>2, <1>4, <1>5, <1>6, <1>7, <1>8 DEF Next

-----------------------------------------------------------------------------
\* Nobody has heard of room id, or is about to.
Unheard(id) ==
    /\ \A p \in Players : result[p].room # id
    /\ \A w \in Workers : query[w].room # id /\ answer[w] # id
    /\ \A c \in Conns : roomID[c] # id

\* Nobody has heard of a battle before the first of its results is published.
ToldInv == \A g \in Games : loopPc[g] = "result1" => Unheard(room[g])

\* A step that tells nobody anything new.
LEMMA UnheardKept ==
    ASSUME NEW id, id # NoRoom, Unheard(id),
           \A p \in Players : result'[p].room \in {result[p].room, NoRoom},
           \A w \in Workers : query'[w].room \in {query[w].room, NoRoom}
                                \cup {result[p].room : p \in Players},
           \A w \in Workers : answer'[w] \in {answer[w], query[w].room, NoRoom},
           \A c \in Conns : roomID'[c] \in {roomID[c]} \cup {answer[w] : w \in Workers}
    PROVE  Unheard(id)'
BY DEF Unheard

LEMMA ToldKept ==
    ASSUME MP!TypeOK, ToldInv, UNCHANGED <<loopPc, room>>,
           \A p \in Players : result'[p].room \in {result[p].room, NoRoom},
           \A w \in Workers : query'[w].room \in {query[w].room, NoRoom}
                                \cup {result[p].room : p \in Players},
           \A w \in Workers : answer'[w] \in {answer[w], query[w].room, NoRoom},
           \A c \in Conns : roomID'[c] \in {roomID[c]} \cup {answer[w] : w \in Workers}
    PROVE  ToldInv'
<1> SUFFICES ASSUME NEW g \in Games, loopPc[g] = "result1"
             PROVE  Unheard(room[g])'
  BY DEF ToldInv
<1>1. PICK id : id = room[g]
  OBVIOUS
<1>2. id # NoRoom /\ Unheard(id)
  BY <1>1 DEF MP!TypeOK, ToldInv
<1>3. Unheard(id)'
  BY <1>2, UnheardKept
<1>4. room'[g] = id
  BY <1>1
<1> QED BY <1>3, <1>4 DEF Unheard

\* A number that is drawn, and not yet a room's, is in nobody's hands.
LEMMA NewRoomUnheard ==
    ASSUME PartsInv, NamesInv, NEW g \in Games, loopPc[g] = "create"
    PROVE  Unheard(room[g])
<1>1. room[g] # NoRoom /\ \A r \in made : r.id # room[g]
  BY DEF PartsInv, MP!RoomIdInv
<1>2. ASSUME NEW p \in Players PROVE result[p].room # room[g]
  BY <1>1 DEF PartsInv, MP!NameInv, MP!ResultNamesOwnRoom, MP!NoResult
<1>3. ASSUME NEW w \in Workers PROVE query[w].room # room[g] /\ answer[w] # room[g]
  BY <1>1 DEF PartsInv, MP!NameInv, MP!ResultNamesOwnRoom, MP!NoQuery, NamesInv
<1>4. ASSUME NEW c \in Conns PROVE roomID[c] # room[g]
  BY <1>1 DEF NamesInv
<1> QED BY <1>2, <1>3, <1>4 DEF Unheard

\* Only the first result tells of a battle, and its number is new.
LEMMA ToldStep == PartsInv /\ WorkerInv /\ NamesInv /\ ToldInv /\ [Next]_vars => ToldInv'
<1> SUFFICES ASSUME PartsInv, WorkerInv, NamesInv, ToldInv, [Next]_vars PROVE ToldInv'
  OBVIOUS
<1>a. MP!TypeOK /\ ~Match!Failure
  BY NoFailure DEF PartsInv
<1>b. ASSUME UNCHANGED <<loopPc, room, result, query, answer, roomID>> PROVE ToldInv'
  BY <1>b DEF ToldInv, Unheard
<1>1. ASSUME NEW c \in Conns, Connection(c) \/ QuitRoomTo(c) \/ BroadcastLeaveMatch(c)
      PROVE  ToldInv'
  <2>1. UNCHANGED <<loopPc, room, result, query, answer>>
    BY <1>1 DEF Connection, QuitRoomTo, BroadcastLeaveMatch, match, worker
  <2>2. roomID' = roomID
    BY <1>1, ConnectionKeeps DEF PartsInv, WorkerInv
  <2> QED BY <1>b, <2>1, <2>2
<1>2. ASSUME NEW c \in Conns, NEW mo \in Asked, NEW w \in Workers, MatchReq(c, mo, w)
      PROVE  ToldInv'
  BY <1>2, <1>b DEF MatchReq, Sessions!MatchReq, match
<1>3. ASSUME NEW w \in Workers, Release(w), UNCHANGED <<loopPc, room, result, query>>,
             \/ roomID' = roomID
             \/ roomID' = [roomID EXCEPT ![client[w]] = answer[w]]
      PROVE  ToldInv'
  <2>1. \A v \in Workers : answer'[v] \in {answer[v], NoRoom}
    BY <1>3 DEF Release, WorkerInv
  <2>2. \A c \in Conns : roomID'[c] \in {roomID[c], answer[w]}
    BY <1>3 DEF PartsInv, SP!TypeOK
  <2> QED BY <1>3, <1>a, <2>1, <2>2, ToldKept
<1>4. ASSUME NEW w \in Workers, matchWorker(w)
      PROVE  ToldInv'
  <2>1. CASE WorkerStart(w) \/ WorkerStop(w)
    <3>1. UNCHANGED <<loopPc, room, result, query, roomID>>
      BY <2>1 DEF WorkerStart, WorkerStop, gateway, match
    <3>2. Release(w) \/ UNCHANGED answer
      BY <2>1 DEF WorkerStart, WorkerStop
    <3> QED BY <1>b, <1>3, <3>1, <3>2
  <2>2. CASE WorkerJoin(w)
    BY <1>b, <2>2 DEF WorkerJoin, Match!JoinMatch, Match!loop, gateway
  <2>3. CASE WorkerPoll(w)
    <3>1. UNCHANGED <<answer, roomID>>
      BY <2>3 DEF WorkerPoll, gateway
    <3>2. CASE Match!QueryGet(w, player[client[w]])
      <4>1. PICK p : p = player[client[w]]
        OBVIOUS
      <4>2. p \in Players
        BY <2>3, <4>1 DEF WorkerPoll, WorkerInv, ClientOK
      <4>3. /\ query' = [query EXCEPT ![w] = [player |-> p, room |-> result[p].room]]
            /\ UNCHANGED <<loopPc, room, result>>
        BY <3>2, <4>1 DEF Match!QueryGet, Match!redis, Match!loop
      <4>4. \A v \in Workers : query'[v].room \in {query[v].room, result[p].room}
        BY <1>a, <4>3 DEF MP!TypeOK
      <4> QED BY <1>a, <3>1, <4>2, <4>3, <4>4, ToldKept
    <3>3. CASE UNCHANGED match
      BY <1>b, <3>1, <3>3 DEF match
    <3> QED BY <2>3, <3>2, <3>3 DEF WorkerPoll
  <2>4. CASE WorkerQueried(w)
    <3>1. PICK p, id : p = query[w].player /\ id = query[w].room
      OBVIOUS
    <3>2. /\ answer' = [answer EXCEPT ![w] = id] /\ UNCHANGED <<loopPc, room, roomID>>
          /\ result' = [result EXCEPT ![p] = Match!NoResult]
          /\ query' = [query EXCEPT ![w] = Match!NoQuery]
      BY <1>a, <2>4, <3>1 DEF WorkerQueried, Match!QueryDel, Match!loop, gateway
    <3>3. \A v \in Workers : answer'[v] \in {answer[v], query[v].room}
      BY <3>1, <3>2 DEF WorkerInv
    <3>4. \A v \in Workers : query'[v].room \in {query[v].room, NoRoom}
      BY <1>a, <3>2 DEF MP!TypeOK, Match!NoQuery
    <3>5. \A q \in Players : result'[q].room \in {result[q].room, NoRoom}
      BY <1>a, <3>2 DEF MP!TypeOK, Match!NoResult
    <3> QED BY <1>a, <3>2, <3>3, <3>4, <3>5, ToldKept
  <2>5. CASE WorkerGiveUp(w) \/ WorkerAnswer(w)
    <3>1. Release(w) /\ UNCHANGED <<loopPc, room, result, query>>
      BY <2>5 DEF WorkerGiveUp, WorkerAnswer, match
    <3>2. CASE WorkerGiveUp(w)
      <4>1. roomID' = [roomID EXCEPT ![client[w]] = @]
        BY <3>2 DEF WorkerGiveUp, Sessions!SendMatchRsp
      <4>2. roomID' = roomID
        BY <4>1 DEF PartsInv, SP!TypeOK
      <4> QED BY <1>3, <3>1, <4>2
    <3>3. CASE WorkerAnswer(w)
      <4>1. answer[w] # NoRoom
        BY <3>3 DEF WorkerAnswer, WorkerInv
      <4>2. roomID' = [roomID EXCEPT ![client[w]] = answer[w]]
        BY <3>3, <4>1 DEF WorkerAnswer, Sessions!SendMatchRsp
      <4> QED BY <1>3, <3>1, <4>2
    <3> QED BY <2>5, <3>2, <3>3
  <2> QED BY <1>4, <2>1, <2>2, <2>3, <2>4, <2>5 DEF matchWorker
<1>5. ASSUME NEW g \in Games, Game(g)
      PROVE  ToldInv'
  <2> USE DEF Match!Goto
  <2>0. UNCHANGED <<query, answer, roomID>>
    BY <1>5 DEF Game, gateway, worker, Match!StartGame, Match!MatchTick, Match!Wake, Match!PopPair,
                Match!PopNothing, Match!PopFailed, Match!NextRoomId, Match!NextRoomIdFailed,
                Match!CreateRoom, Match!PublishResults, Match!PublishResult, Match!PublishRoute,
                Match!ScanExpired, Match!ScanFailed, Match!RemoveExpired
  <2>1. CASE Match!CreateRoom(g)
    <3>1. /\ loopPc[g] = "create" /\ loopPc' = [loopPc EXCEPT ![g] = "result1"]
          /\ UNCHANGED <<room, result>>
      BY <2>1 DEF Match!CreateRoom, Match!redis
    <3>2. ASSUME NEW h \in Games, loopPc'[h] = "result1" PROVE Unheard(room[h])
      BY <1>a, <3>1, <3>2, NewRoomUnheard DEF MP!TypeOK, ToldInv
    <3> QED BY <2>0, <3>1, <3>2 DEF ToldInv, Unheard
  <2>2. CASE Match!PublishResults(g)
    <3>1. PICK p \in Players : result' = [result EXCEPT ![p] = [room |-> room[g], left |-> ResultTtl]]
      <4>1. PICK m : /\ m \in {pair[g][1], pair[g][2]}
                     /\ result' = [result EXCEPT ![m.player] = [room |-> room[g], left |-> ResultTtl]]
        BY <1>a, <2>2 DEF Match!PublishResults, Match!PublishResult, Match!Answered
      <4>2. loopPc[g] \in {"result1", "result2"}
        BY <2>2 DEF Match!PublishResults, Match!PublishResult
      <4>3. pair[g] \in MP!Members \X MP!Members
        BY <1>a, <4>2 DEF MP!TypeOK
      <4>4. m.player \in Players
        BY <4>1, <4>3 DEF MP!Members
      <4> QED BY <4>1, <4>4
    <3>2. /\ room' = room /\ room[g] # NoRoom
          /\ \A h \in Games : loopPc'[h] = "result1" => h # g /\ loopPc[h] = "result1"
      BY <1>a, <2>2 DEF MP!TypeOK, Match!PublishResults, Match!PublishResult
    <3>3. ASSUME NEW h \in Games, loopPc'[h] = "result1" PROVE Unheard(room[h])'
      <4>1. PICK id : id = room[h]
        OBVIOUS
      <4>2. Unheard(id) /\ room'[h] = id
        BY <3>2, <3>3, <4>1 DEF ToldInv
      <4>3. id # room[g]
        BY <3>2, <3>3, <4>1 DEF PartsInv, MP!RoomIdInv
      <4>4. \A q \in Players : result'[q].room \in {result[q].room, room[g]}
        BY <1>a, <3>1 DEF MP!TypeOK
      <4>5. Unheard(id)'
        BY <2>0, <4>2, <4>3, <4>4 DEF Unheard
      <4> QED BY <4>2, <4>5 DEF Unheard
    <3> QED BY <3>3 DEF ToldInv, Unheard
  <2>3. CASE ~Match!CreateRoom(g) /\ ~Match!PublishResults(g)
    <3>1. /\ result' = result
          /\ \E l \in {"idle", "pair", "incr", "create", "scan", "expire"} :
                loopPc' = [loopPc EXCEPT ![g] = l]
      BY <1>5, <2>3, <1>a DEF Game, Match!StartGame, Match!MatchTick, Match!Wake, Match!PopPair,
           Match!PopNothing, Match!PopFailed, Match!NextRoomId, Match!NextRoomIdFailed,
           Match!PublishRoute, Match!ScanExpired, Match!ScanFailed, Match!RemoveExpired,
           Match!EndTick, Match!redis
    <3>2. room' = room \/ \E id : room' = [room EXCEPT ![g] = id]
      BY <1>5, <2>3, <1>a DEF Game, Match!StartGame, Match!MatchTick, Match!Wake, Match!PopPair,
           Match!PopNothing, Match!PopFailed, Match!NextRoomId, Match!NextRoomIdFailed,
           Match!PublishRoute, Match!ScanExpired, Match!ScanFailed, Match!RemoveExpired
    <3>3. \A h \in Games : loopPc'[h] = "result1" => loopPc[h] = "result1" /\ room'[h] = room[h]
      BY <1>a, <3>1, <3>2 DEF MP!TypeOK
    <3> QED BY <2>0, <3>1, <3>3 DEF ToldInv, Unheard
  <2> QED BY <2>1, <2>2, <2>3
<1>6. ASSUME NEW g \in Games, NEW id \in rooms[g], BattleEnds(g, id) \/ DropRoom(g, id)
      PROVE  ToldInv'
  BY <1>6, <1>b DEF BattleEnds, DropRoom, Match!DropRoom, Match!redis, Match!loop, gateway, worker,
                    match
<1>7. CASE Advance
  <2>1. UNCHANGED <<loopPc, room, query, answer, roomID>>
    BY <1>7 DEF Advance, Match!Advance, Match!loop, gateway
  <2>2. \A p \in Players : result'[p].room \in {result[p].room, NoRoom}
    BY <1>7, <1>a DEF Advance, Match!Advance, Match!NoResult, MP!TypeOK
  <2> QED BY <1>a, <2>1, <2>2, ToldKept
<1>8. CASE UNCHANGED vars
  BY <1>8, <1>b DEF vars, gateway, worker, match
<1> QED BY <1>1, <1>2, <1>4, <1>5, <1>6, <1>7, <1>8 DEF Next

-----------------------------------------------------------------------------
\* All of it, for every number of connections, workers, instances and battles.
LobbyInv == PartsInv /\ WorkerInv /\ RoomsInv /\ NamesInv /\ ToldInv

\* The invariant holds before the first connection, and every step keeps it.
LEMMA LobbyInit == Init => LobbyInv
<1> SUFFICES ASSUME Init PROVE LobbyInv
  OBVIOUS
<1>1. /\ made = {} /\ over = {} /\ ticked = {} /\ wpc = [w \in Workers |-> "free"]
      /\ client = [w \in Workers |-> NoConn] /\ asked = [w \in Workers |-> 0]
      /\ waited = [w \in Workers |-> 0] /\ polled = [w \in Workers |-> FALSE]
      /\ answer = [w \in Workers |-> NoRoom]
      /\ query = [w \in Workers |-> Match!NoQuery]
      /\ player = [c \in Conns |-> NoPlayer] /\ roomID = [c \in Conns |-> NoRoom]
      /\ gwPc = [c \in Conns |-> "read"]
      /\ loopPc = [g \in Games |-> "down"] /\ rooms = [g \in Games |-> {}]
      /\ roomRoute = [i \in {} |-> NoGame]
  BY DEF Init, Sessions!Init, Match!Init
<1>2. PartsInv
  BY <1>1, Begins DEF PartsInv
<1>3. WorkerInv
  <2>1. 0 \in 0..matchPollTimes(MatchTimeout) /\ 0 < matchPollTimes(MatchTimeout) /\ NoRoom \in Nat
    BY LobbyAssumption DEF matchPollTimes
  <2>2. ClientOK /\ LoginOK
    BY <1>1 DEF ClientOK, LoginOK
  <2> QED BY <1>1, <2>1, <2>2 DEF WorkerInv
<1>4. RoomsInv
  BY <1>1 DEF RoomsInv
<1>5. NamesInv /\ ToldInv
  BY <1>1 DEF NamesInv, ToldInv
<1> QED BY <1>2, <1>3, <1>4, <1>5 DEF LobbyInv

LEMMA LobbyStep == LobbyInv /\ [Next]_vars => LobbyInv'
BY PartsStep, WorkerStep, RoomsStep, NamesStep, ToldStep DEF LobbyInv

\* The pools, the sessions and the workers between them stay in the states the invariant
\* describes.
THEOREM PartsAgree == Spec => []LobbyInv
BY LobbyInit, LobbyStep, PTL DEF Spec

\* Every variable of the workers has its type, and a worker has a session, a query and an
\* answer exactly where matchWorker has them.
THEOREM LobbyTyped == Spec => []TypeOK
<1>1. LobbyInv => TypeOK
  <2> SUFFICES ASSUME LobbyInv PROVE TypeOK
    OBVIOUS
  <2>1. waited \in [Workers -> 0..matchPollTimes(MatchTimeout) + 1]
    <3>1. matchPollTimes(MatchTimeout) \in Nat
      BY LobbyAssumption DEF matchPollTimes
    <3>2. 0..matchPollTimes(MatchTimeout) \subseteq 0..matchPollTimes(MatchTimeout) + 1
      BY <3>1
    <3> QED BY <3>2 DEF LobbyInv, WorkerInv
  <2>2. ASSUME NEW w \in Workers
        PROVE  /\ wpc[w] = "free" <=> client[w] = NoConn
               /\ wpc[w] # "free" => client[w] \in Conns /\ player[client[w]] \in Players
               /\ wpc[w] = "query" <=> query[w] # Match!NoQuery
               /\ wpc[w] = "answer" <=> answer[w] # NoRoom
    BY DEF LobbyInv, WorkerInv, ClientOK
  <2>3. over \subseteq {r.id : r \in made}
    BY DEF LobbyInv, RoomsInv
  <2> QED BY <2>1, <2>2, <2>3 DEF LobbyInv, WorkerInv, TypeOK
<1> QED BY <1>1, PartsAgree, PTL

\* What a player does gets into his own battle and no other, from the moment on that its
\* route is there until it is over (HandleOpInput and SubmitOp, against MatchTick).
THEOREM InputsArrive == Spec => []InputsReachBattle
<1>1. LobbyInv => InputsReachBattle
  <2> SUFFICES ASSUME LobbyInv, NEW c \in Conns, roomID[c] # NoRoom
               PROVE  /\ \A r \in OpInput(c) : r.id = roomID[c] /\ player[c] \in Match!Of(r)
                      /\ \/ OpInput(c) # {} \/ roomID[c] \in over
                         \/ \E g \in Games : /\ loopPc[g] \in {"result2", "route"}
                                             /\ room[g] = roomID[c]
    BY DEF InputsReachBattle
  <2>1. PICK own \in made : own.id = roomID[c] /\ player[c] \in Match!Of(own)
    BY DEF LobbyInv, NamesInv
  <2>2. \A r \in made : r.id = roomID[c] => r = own
    BY <2>1 DEF LobbyInv, PartsInv, MP!RoomIdInv, MP!RoomIdsDistinct
  <2>3. own.game \in Games
    BY DEF LobbyInv, PartsInv, MP!TypeOK, MP!RoomRecords
  <2>4. \A r \in OpInput(c) : r.id = roomID[c] /\ player[c] \in Match!Of(r)
    BY <2>1, <2>2 DEF OpInput, SubmitOpTo
  <2>5. CASE roomID[c] \in DOMAIN roomRoute
    <3>1. roomRoute[roomID[c]] = own.game
      BY <2>2, <2>5 DEF LobbyInv, RoomsInv
    <3>2. own.id \in over \/ own.id \in rooms[own.game]
      BY DEF LobbyInv, RoomsInv
    <3>3. own.id \in over \/ own \in OpInput(c)
      BY <2>1, <2>5, <3>1, <3>2 DEF OpInput, SubmitOpTo
    <3> QED BY <2>1, <2>4, <3>3
  <2>6. CASE roomID[c] \notin DOMAIN roomRoute
    <3>1. loopPc[own.game] \in {"result1", "result2", "route"} /\ room[own.game] = own.id
      BY <2>1, <2>6 DEF LobbyInv, RoomsInv
    <3>2. loopPc[own.game] # "result1"
      BY <2>1, <2>3, <3>1 DEF LobbyInv, ToldInv, Unheard
    <3> QED BY <2>1, <2>3, <2>4, <3>1, <3>2
  <2> QED BY <2>5, <2>6
<1> QED BY <1>1, PartsAgree, PTL


-----------------------------------------------------------------------------
\* From here on nobody plays on two devices at once.
OneDevice == \A c, d \in Conns : AccountOf(c) = AccountOf(d) => c = d

\* The member of a pool that stands for the player of connection c.
Entry(c) == [player |-> AccountOf(c), gateway |-> CHOOSE gw \in Gateways : TRUE]

\* There is one gateway, so a player is one member.
LEMMA EntryOf ==
    ASSUME NEW c \in Conns, NEW m \in MP!Members
    PROVE  m.player = AccountOf(c) <=> m = Entry(c)
<1>1. PICK gw : Gateways = {gw}
  BY LobbyAssumption
<1>2. (CHOOSE x \in Gateways : TRUE) = gw
  BY <1>1
<1> QED BY <1>1, <1>2 DEF MP!Members, Entry

LEMMA EntryIs ==
    ASSUME LoginOK, NEW c \in Conns, player[c] # NoPlayer
    PROVE  player[c] = AccountOf(c) /\ Member(c) = Entry(c)
BY DEF LoginOK, Member, Entry

\* No connection displaces another, and a session is that of its player.
DeviceInv ==
    /\ \A c \in Conns : gwPc[c] # "kick"
    /\ \A p \in Players : sessions[p] # NoConn => player[sessions[p]] = p

\* A login finds no session of its player but its own.
LEMMA DeviceStep ==
    ASSUME OneDevice, SP!TypeOK, LoginOK, DeviceInv, [Next]_vars
    PROVE  DeviceInv'
<1> USE DEF Sessions!session, Sessions!local, Sessions!Goto, Sessions!NextFrame
<1>a. UNCHANGED <<gwPc, sessions, player>> => DeviceInv'
  BY DEF DeviceInv
<1>1. ASSUME NEW c \in Conns, Connection(c) \/ QuitRoomTo(c) \/ BroadcastLeaveMatch(c)
      PROVE  DeviceInv'
  <2>1. CASE Sessions!BindSession(c)
    <3>1. PICK p : p = wanted[c]
      OBVIOUS
    <3>2. p = AccountOf(c) /\ p \in Players /\ player[c] = NoPlayer
      BY <2>1, <3>1, LobbyAssumption DEF LoginOK, Sessions!BindSession
    <3>3. sessions[p] \in {NoConn, c}
      <4>1. ASSUME sessions[p] # NoConn PROVE sessions[p] = c
        <5>1. PICK d \in Conns : d = sessions[p]
          BY <3>2, <4>1 DEF SP!TypeOK
        <5>2. player[d] = p /\ p # NoPlayer
          BY <3>2, <4>1, <5>1, LobbyAssumption DEF DeviceInv
        <5>3. AccountOf(d) = AccountOf(c)
          BY <3>2, <5>2 DEF LoginOK
        <5> QED BY <5>1, <5>3 DEF OneDevice
      <4> QED BY <4>1
    <3>4. /\ sessions' = [sessions EXCEPT ![p] = c] /\ player' = [player EXCEPT ![c] = p]
          /\ gwPc' = [gwPc EXCEPT ![c] = "route"]
      BY <2>1, <3>1, <3>3 DEF Sessions!BindSession, Sessions!OldSession
    <3>5. ASSUME NEW q \in Players, sessions'[q] # NoConn PROVE player'[sessions'[q]] = q
      <4>1. CASE q = p
        BY <3>2, <3>4, <4>1 DEF SP!TypeOK
      <4>2. CASE q # p
        <5>1. sessions'[q] = sessions[q]
          BY <3>2, <3>4, <4>2 DEF SP!TypeOK
        <5>2. PICK d \in Conns : d = sessions[q]
          BY <3>5, <5>1 DEF SP!TypeOK
        <5>3. player[d] = q /\ q # NoPlayer
          BY <3>5, <5>1, <5>2, LobbyAssumption DEF DeviceInv
        <5> QED BY <3>2, <3>4, <5>1, <5>2, <5>3 DEF SP!TypeOK
      <4> QED BY <4>1, <4>2
    <3> QED BY <3>4, <3>5 DEF DeviceInv, SP!TypeOK
  <2>2. CASE Sessions!RemoveSession(c)
    <3>1. /\ player' = player
          /\ \A p \in Players : sessions'[p] \in {NoConn, sessions[p]}
          /\ \E l \in {"quit", "leave", "getroute"} : gwPc' = [gwPc EXCEPT ![c] = l]
      BY <2>2 DEF Sessions!RemoveSession, Sessions!Without
    <3> QED BY <3>1 DEF DeviceInv, SP!TypeOK
  <2>3. CASE ~Sessions!BindSession(c) /\ ~Sessions!RemoveSession(c)
    <3>1. UNCHANGED <<sessions, player>>
      BY <1>1, <2>3 DEF Connection, QuitRoomTo, BroadcastLeaveMatch, Sessions!Connect, Sessions!Drop,
           Sessions!ScanTimeout, Sessions!Read, Sessions!LoginReq, Sessions!Login,
           Sessions!LoginFailed, Sessions!KickOld, Sessions!WriteRoute, Sessions!Disconnect,
           Sessions!Notify, Sessions!GetRoute, Sessions!DelRoute
    <3>2. gwPc' = gwPc \/ \E l \in {"read", "auth", "route", "remove", "getroute", "delroute", "gone"} :
                              gwPc' = [gwPc EXCEPT ![c] = l]
      BY <1>1, <2>3 DEF Connection, QuitRoomTo, BroadcastLeaveMatch, Sessions!Connect, Sessions!Drop,
           Sessions!ScanTimeout, Sessions!Read, Sessions!LoginReq, Sessions!Login,
           Sessions!LoginFailed, Sessions!KickOld, Sessions!WriteRoute, Sessions!Disconnect,
           Sessions!Notify, Sessions!GetRoute, Sessions!DelRoute
    <3> QED BY <3>1, <3>2 DEF DeviceInv, SP!TypeOK
  <2> QED BY <2>1, <2>2, <2>3
<1>2. ASSUME NEW c \in Conns, NEW mo \in Asked, NEW w \in Workers, MatchReq(c, mo, w)
      PROVE  DeviceInv'
  BY <1>2, <1>a DEF MatchReq, Sessions!MatchReq
<1>3. ASSUME NEW w \in Workers, matchWorker(w)
      PROVE  DeviceInv'
  BY <1>3, <1>a DEF matchWorker, WorkerStart, WorkerJoin, WorkerPoll, WorkerStop, WorkerGiveUp,
                    WorkerQueried, WorkerAnswer, Sessions!SendMatchRsp, gateway
<1>4. ASSUME NEW g \in Games, Game(g) \/ \E id \in rooms[g] : BattleEnds(g, id) \/ DropRoom(g, id)
      PROVE  DeviceInv'
  BY <1>4, <1>a DEF Game, BattleEnds, DropRoom, gateway
<1>5. CASE Advance \/ UNCHANGED vars
  BY <1>5, <1>a DEF Advance, vars, gateway
<1> QED BY <1>1, <1>2, <1>3, <1>4, <1>5 DEF Next

\* The worker of a connection that is not closed is alive: no poll of it ends early.
LEMMA OpenIsAlive ==
    ASSUME SP!TypeOK, SP!SessionInv, ClientOK, DeviceInv,
           NEW w \in Workers, wpc[w] # "free", socket[client[w]] # "closed"
    PROVE  Alive(w)
<1>1. PICK c \in Conns : c = client[w]
  BY LobbyAssumption DEF ClientOK
<1>2. player[c] \in Players /\ player[c] # NoPlayer
  BY <1>1, LobbyAssumption DEF ClientOK
<1>3. socket[c] = "open"
  BY <1>1, <1>2 DEF SP!TypeOK, SP!SessionInv
<1>4. sessions[player[c]] = c
  BY <1>2, <1>3 DEF SP!SessionInv, DeviceInv
<1> QED BY <1>1, <1>4 DEF Alive

\* A tick that is under way was begun in this period, and ticks begin with pool 0.
TickInv ==
    \A g \in Games : /\ g \notin ticked => loopPc[g] \in {"idle", "down"}
                     /\ loopPc[g] \in {"idle", "down"} => mode[g] = 0

\* A tick goes through pool 0, then pool 1, and ends idle.
LEMMA TickStep ==
    ASSUME PartsInv, TickInv, [Next]_vars
    PROVE  TickInv'
<1> USE DEF Match!Goto, Match!redis, Match!loop
<1>a. MP!TypeOK /\ ~Match!Failure
  BY NoFailure DEF PartsInv
<1>b. UNCHANGED <<loopPc, mode, ticked>> => TickInv'
  BY DEF TickInv
<1>1. ASSUME NEW c \in Conns,
             \/ Connection(c) \/ QuitRoomTo(c) \/ BroadcastLeaveMatch(c)
             \/ \E mo \in Asked, w \in Workers : MatchReq(c, mo, w)
      PROVE  TickInv'
  BY <1>1, <1>b DEF Connection, QuitRoomTo, BroadcastLeaveMatch, MatchReq, match
<1>2. ASSUME NEW w \in Workers, matchWorker(w)
      PROVE  TickInv'
  BY <1>2, <1>b DEF matchWorker, WorkerStart, WorkerJoin, WorkerPoll, WorkerStop, WorkerGiveUp,
                    WorkerQueried, WorkerAnswer, Match!JoinMatch, Match!QueryGet, Match!QueryDel,
                    match
<1>3. ASSUME NEW g \in Games, Game(g)
      PROVE  TickInv'
  <2>1. CASE Match!StartGame(g)
    <3>1. /\ loopPc[g] = "down" /\ loopPc' = [loopPc EXCEPT ![g] = "idle"]
          /\ UNCHANGED <<mode, ticked>>
      BY <1>3, <2>1 DEF Match!StartGame, Game, Match!Wake, Match!MatchTick
    <3> QED BY <3>1, <1>a DEF TickInv, MP!TypeOK
  <2>2. CASE Match!Wake(g)
    <3>1. loopPc[g] = "idle" /\ loopPc' = [loopPc EXCEPT ![g] = "pair"] /\ mode' = mode
          /\ ticked' = ticked \cup {g}
      BY <1>3, <2>2 DEF Match!Wake, Game, Match!StartGame
    <3> QED BY <3>1, <1>a DEF TickInv, MP!TypeOK
  <2>3. CASE ~Match!StartGame(g) /\ ~Match!Wake(g)
    <3>1. loopPc[g] \notin {"idle", "down"} /\ ticked' = ticked
      BY <1>3, <2>3 DEF Game, Match!MatchTick, Match!PopPair, Match!PopNothing, Match!PopFailed,
           Match!NextRoomId, Match!NextRoomIdFailed, Match!CreateRoom, Match!PublishResults,
           Match!PublishResult, Match!PublishRoute, Match!ScanExpired, Match!ScanFailed,
           Match!RemoveExpired
    <3>2. \/ Match!EndTick(g)
          \/ /\ mode' = mode
             /\ \E l \in Match!Labels \ {"idle", "down"} : loopPc' = [loopPc EXCEPT ![g] = l]
      BY <1>3, <2>3 DEF Game, Match!MatchTick, Match!PopPair, Match!PopNothing, Match!PopFailed,
           Match!NextRoomId, Match!NextRoomIdFailed, Match!CreateRoom, Match!PublishResults,
           Match!PublishResult, Match!PublishRoute, Match!ScanExpired, Match!ScanFailed,
           Match!RemoveExpired, Match!Labels
    <3>3. g \in ticked
      BY <3>1 DEF TickInv
    <3>4. CASE Match!EndTick(g)
      <4>1. mode[g] \in {0, 1}
        BY <1>a DEF MP!TypeOK, MP!Modes
      <4> QED BY <1>a, <3>1, <3>3, <3>4, <4>1 DEF TickInv, MP!TypeOK, Match!EndTick
    <3>5. CASE ~Match!EndTick(g)
      BY <1>a, <3>1, <3>2, <3>3, <3>5 DEF TickInv, MP!TypeOK
    <3> QED BY <3>4, <3>5
  <2> QED BY <2>1, <2>2, <2>3
<1>4. ASSUME NEW g \in Games, NEW id \in rooms[g], BattleEnds(g, id) \/ DropRoom(g, id)
      PROVE  TickInv'
  BY <1>4, <1>b DEF BattleEnds, DropRoom, Match!DropRoom, match
<1>5. CASE Advance
  BY <1>5 DEF Advance, Match!Advance, TickInv
<1>6. CASE UNCHANGED vars
  BY <1>6, <1>b DEF vars, match
<1> QED BY <1>1, <1>2, <1>3, <1>4, <1>5, <1>6 DEF Next

-----------------------------------------------------------------------------
\* The loop of instance g has popped member m and not published its result.
InHand(g, m) ==
    \/ loopPc[g] \in {"incr", "create", "result1"} /\ m = pair[g][1]
    \/ loopPc[g] \in {"incr", "create", "result1", "result2"} /\ m = pair[g][2]

\* The tick of instance g still comes to m in pool mo, and takes it when it is old.
StillScans(g, mo, m) ==
    /\ loopPc[g] \notin {"idle", "down"}
    /\ \/ mode[g] = 0 /\ mo = 1
       \/ mode[g] = mo /\ (loopPc[g] = "expire" => m \in expired[g])

\* In this period every instance that has begun its tick still comes to m.
Due(mo, m) == \A g \in Games : g \notin ticked \/ StillScans(g, mo, m)

Polls(w, c) == client[w] = c /\ wpc[w] = "poll"

\* A player who is in a pool is there once and nowhere else, and his worker polls and has
\* waited as long as he is in the pool.
WaitsOK(c, e) ==
    \A mo \in {0, 1} : e \in DOMAIN pool[mo] =>
        /\ \A mp \in {0, 1} : e \in DOMAIN pool[mp] => mp = mo
        /\ \A g \in Games : ~InHand(g, e)
        /\ result[e.player] = Match!NoResult
        /\ Games # {}
        /\ \E w \in Workers : /\ Polls(w, c) /\ pool[mo][e] = waited[w]
                              /\ waited[w] = MatchTimeout => Due(mo, e)

\* One who is popped is popped by one instance, and his worker polls, in time.
HandOK(c, e) ==
    \A g \in Games : InHand(g, e) =>
        /\ \A h \in Games : InHand(h, e) => h = g
        /\ result[e.player] = Match!NoResult
        /\ \E w \in Workers : Polls(w, c) /\ waited[w] <= MatchTimeout

\* A result has a worker that fetches it, before it gives up and before the result expires.
ResultOK(c, e) ==
    result[e.player] # Match!NoResult =>
        \E w \in Workers :
            \/ client[w] = c /\ wpc[w] = "query"
            \/ /\ Polls(w, c) /\ waited[w] <= MatchTimeout + 1
               /\ polled[w] => waited[w] <= MatchTimeout /\ result[e.player].left >= 2

Place(c, e) == WaitsOK(c, e) /\ HandOK(c, e) /\ ResultOK(c, e)

PlaceInv ==
    \A c \in Conns : AccountOf(c) \in Patient /\ socket[c] # "closed" => Place(c, Entry(c))

\* A step that leaves this player and his worker as they are.
LEMMA PlaceKept ==
    ASSUME NEW c, NEW e, Place(c, e), c # NoConn,
           \A mo \in {0, 1} : /\ e \in DOMAIN pool'[mo] => e \in DOMAIN pool[mo]
                              /\ e \in DOMAIN pool'[mo] => pool'[mo][e] = pool[mo][e],
           \A mo \in {0, 1} : e \in DOMAIN pool'[mo] /\ Due(mo, e) => Due(mo, e)',
           \A g \in Games : InHand(g, e)' => InHand(g, e),
           result'[e.player] = result[e.player],
           \A w \in Workers : client[w] = c /\ wpc[w] \in {"poll", "query"} =>
              /\ client'[w] = c /\ wpc'[w] = wpc[w]
              /\ waited'[w] = waited[w] /\ polled'[w] = polled[w]
    PROVE  Place(c, e)'
<1> USE DEF Place
<1>1. WaitsOK(c, e)'
  <2> SUFFICES ASSUME NEW mo \in {0, 1}, e \in DOMAIN pool'[mo]
               PROVE  /\ \A mp \in {0, 1} : e \in DOMAIN pool'[mp] => mp = mo
                      /\ \A g \in Games : ~InHand(g, e)'
                      /\ result'[e.player] = Match!NoResult
                      /\ Games # {}
                      /\ \E w \in Workers : /\ Polls(w, c)' /\ pool'[mo][e] = waited'[w]
                                            /\ waited'[w] = MatchTimeout => Due(mo, e)'
    BY DEF WaitsOK, Match!NoResult
  <2>1. e \in DOMAIN pool[mo] /\ pool'[mo][e] = pool[mo][e]
    OBVIOUS
  <2>2. PICK w \in Workers : /\ Polls(w, c) /\ pool[mo][e] = waited[w]
                             /\ waited[w] = MatchTimeout => Due(mo, e)
    BY <2>1 DEF WaitsOK
  <2>3. /\ Polls(w, c)' /\ pool'[mo][e] = waited'[w]
        /\ waited'[w] = MatchTimeout => Due(mo, e)'
    BY <2>1, <2>2 DEF Polls
  <2>4. \A mp \in {0, 1} : e \in DOMAIN pool'[mp] => mp = mo
    BY <2>1 DEF WaitsOK
  <2>5. /\ \A g \in Games : ~InHand(g, e)'
        /\ result'[e.player] = Match!NoResult
        /\ Games # {}
    BY <2>1 DEF WaitsOK
  <2> QED BY <2>3, <2>4, <2>5
<1>2. HandOK(c, e)'
  <2> SUFFICES ASSUME NEW g \in Games, InHand(g, e)'
               PROVE  /\ \A h \in Games : InHand(h, e)' => h = g
                      /\ result'[e.player] = Match!NoResult
                      /\ \E w \in Workers : Polls(w, c)' /\ waited'[w] <= MatchTimeout
    BY DEF HandOK, Match!NoResult
  <2>1. /\ \A h \in Games : InHand(h, e) => h = g
        /\ result[e.player] = Match!NoResult
        /\ \E w \in Workers : Polls(w, c) /\ waited[w] <= MatchTimeout
    BY DEF HandOK
  <2>2. \A w \in Workers : Polls(w, c) => Polls(w, c)' /\ waited'[w] = waited[w]
    BY DEF Polls
  <2> QED BY <2>1, <2>2
<1>3. ResultOK(c, e)'
  <2>1. \A w \in Workers : client[w] = c /\ wpc[w] = "query" => client'[w] = c /\ wpc'[w] = "query"
    OBVIOUS
  <2>2. \A w \in Workers : Polls(w, c) => /\ Polls(w, c)'
                                          /\ waited'[w] = waited[w] /\ polled'[w] = polled[w]
    BY DEF Polls
  <2> QED BY <2>1, <2>2 DEF ResultOK, Match!NoResult
<1> QED BY <1>1, <1>2, <1>3

\* A player whose worker neither polls nor asks is nowhere.
LEMMA PlaceNone ==
    ASSUME NEW c, NEW e, Place(c, e),
           \A w \in Workers : client[w] = c => wpc[w] \notin {"poll", "query"}
    PROVE  /\ \A mo \in {0, 1} : e \notin DOMAIN pool[mo]
           /\ \A g \in Games : ~InHand(g, e)
           /\ result[e.player] = Match!NoResult
<1>1. \A w \in Workers : ~Polls(w, c) /\ ~(client[w] = c /\ wpc[w] = "query")
  BY DEF Polls
<1> QED BY <1>1 DEF Place, WaitsOK, HandOK, ResultOK

\* A player who is nowhere has nothing to wait for.
LEMMA NowhereOK ==
    ASSUME NEW c, NEW e,
           \A mo \in {0, 1} : e \notin DOMAIN pool'[mo],
           \A g \in Games : ~InHand(g, e)',
           result'[e.player] = Match!NoResult
    PROVE  Place(c, e)'
BY DEF Place, WaitsOK, HandOK, ResultOK, Match!NoResult

\* What a worker is about: its connection's own player, whose only worker it is if he is patient.
LEMMA WorkerIs ==
    ASSUME WorkerInv, NEW w \in Workers, wpc[w] # "free"
    PROVE  /\ client[w] \in Conns /\ player[client[w]] = AccountOf(client[w])
           /\ AccountOf(client[w]) \in Players
           /\ Member(client[w]) = Entry(client[w])
           /\ AccountOf(client[w]) \in Patient => \A v \in Workers : client[v] = client[w] => v = w
<1>1. client[w] \in Conns /\ player[client[w]] \in Players
  BY LobbyAssumption DEF WorkerInv, ClientOK
<1>2. player[client[w]] = AccountOf(client[w]) /\ Member(client[w]) = Entry(client[w])
  BY <1>1, LobbyAssumption, EntryIs DEF WorkerInv
<1> QED BY <1>1, <1>2, LobbyAssumption DEF WorkerInv, ClientOK

\* A step that leaves the pools, the results and the loops as they are.
LEMMA PlaceWhenIdle ==
    ASSUME NEW c \in Conns, NEW e, Place(c, e),
           UNCHANGED <<pool, result, loopPc, mode, pair, expired, ticked>>,
           \A w \in Workers : client[w] = c /\ wpc[w] \in {"poll", "query"} =>
              /\ client'[w] = c /\ wpc'[w] = wpc[w]
              /\ waited'[w] = waited[w] /\ polled'[w] = polled[w]
    PROVE  Place(c, e)'
<1>1. \A mo \in {0, 1} : Due(mo, e) => Due(mo, e)'
  BY DEF Due, StillScans
<1>2. \A g \in Games : InHand(g, e)' => InHand(g, e)
  BY DEF InHand
<1>3. c # NoConn
  BY LobbyAssumption
<1> QED BY <1>1, <1>2, <1>3, PlaceKept

\* What a connection does by itself, and a request of any connection.
LEMMA PlaceConnection ==
    ASSUME NEW c \in Conns, NEW e, Place(c, e), NEW d \in Conns, Connection(d) \/ QuitRoomTo(d)
    PROVE  Place(c, e)'
<1>1. UNCHANGED <<match, worker, ticked>>
  BY DEF Connection, QuitRoomTo
<1> QED BY <1>1, PlaceWhenIdle DEF match, worker

\* The end of another connection takes another member from the pools.
LEMMA PlaceLeave ==
    ASSUME OneDevice, PartsInv, WorkerInv, NEW c \in Conns, NEW e, e = Entry(c), Place(c, e),
           socket[c] # "closed", NEW d \in Conns, BroadcastLeaveMatch(d)
    PROVE  Place(c, e)'
<1>1. /\ gwPc[d] = "leave" /\ pool' = [mo \in {0, 1} |-> Match!ZRem(pool[mo], {Member(d)})]
      /\ UNCHANGED <<result, loopPc, mode, pair, expired, ticked, worker>>
  BY DEF BroadcastLeaveMatch
<1>2. socket[d] = "closed" /\ player[d] # NoPlayer
  BY <1>1 DEF PartsInv, SP!TypeOK, SP!SessionInv
<1>3. Member(d) # e
  <2>1. Member(d) = Entry(d)
    BY <1>2, EntryIs DEF WorkerInv
  <2>2. AccountOf(d) # AccountOf(c)
    BY <1>2 DEF OneDevice
  <2> QED BY <2>1, <2>2 DEF Entry
<1>4. \A mo \in {0, 1} : /\ e \in DOMAIN pool'[mo] => e \in DOMAIN pool[mo]
                         /\ e \in DOMAIN pool'[mo] => pool'[mo][e] = pool[mo][e]
  BY <1>1, <1>3 DEF Match!ZRem
<1>5. \A mo \in {0, 1} : Due(mo, e) => Due(mo, e)'
  BY <1>1 DEF Due, StillScans
<1>6. \A g \in Games : InHand(g, e)' => InHand(g, e)
  BY <1>1 DEF InHand
<1>7. c # NoConn /\ UNCHANGED <<client, wpc, waited, polled>>
  BY <1>1, LobbyAssumption DEF worker
<1> QED BY <1>1, <1>4, <1>5, <1>6, <1>7, PlaceKept

LEMMA PlaceRequest ==
    ASSUME WorkerInv, NEW c \in Conns, NEW e, Place(c, e),
           NEW d \in Conns, NEW mo \in Asked, NEW w \in Workers, MatchReq(d, mo, w)
    PROVE  Place(c, e)'
<1>1. /\ wpc[w] = "free" /\ wpc' = [wpc EXCEPT ![w] = "start"]
      /\ client' = [client EXCEPT ![w] = d]
      /\ UNCHANGED <<match, waited, polled, ticked>>
  BY DEF MatchReq
<1>2. \A v \in Workers : v # w => client'[v] = client[v] /\ wpc'[v] = wpc[v]
  BY <1>1 DEF WorkerInv, ClientOK
<1> QED BY <1>1, <1>2, PlaceWhenIdle DEF match

\* A worker that ends, for another player or for one who is nowhere.
LEMMA PlaceRelease ==
    ASSUME WorkerInv, NEW c \in Conns, NEW e, Place(c, e), NEW w \in Workers, Release(w),
           UNCHANGED <<match, ticked>>,
           \/ client[w] # c \/ wpc[w] \notin {"poll", "query"}
           \/ /\ \A mo \in {0, 1} : e \notin DOMAIN pool[mo]
              /\ \A g \in Games : ~InHand(g, e)
              /\ result[e.player] = Match!NoResult
    PROVE  Place(c, e)'
<1>1. CASE client[w] # c \/ wpc[w] \notin {"poll", "query"}
  <2>1. \A v \in Workers : v # w => /\ client'[v] = client[v] /\ wpc'[v] = wpc[v]
                                    /\ waited'[v] = waited[v] /\ polled'[v] = polled[v]
    BY DEF WorkerInv, ClientOK, Release
  <2> QED BY <1>1, <2>1, PlaceWhenIdle DEF match
<1>2. CASE /\ \A mo \in {0, 1} : e \notin DOMAIN pool[mo]
           /\ \A g \in Games : ~InHand(g, e)
           /\ result[e.player] = Match!NoResult
  <2>1. \A g \in Games : ~InHand(g, e)'
    BY <1>2 DEF InHand, match
  <2> QED BY <1>2, <2>1, NowhereOK DEF match
<1> QED BY <1>1, <1>2

\* The polls outlast the wait in the pool: the worker that gives up leaves nothing.
LEMMA GivesUpNowhere ==
    ASSUME PartsInv, WorkerInv, NEW c \in Conns, AccountOf(c) \in Patient,
           NEW e, Place(c, e), NEW w \in Workers, Polls(w, c), waited[w] >= matchPollTimes(MatchTimeout)
    PROVE  /\ \A mo \in {0, 1} : e \notin DOMAIN pool[mo]
           /\ \A g \in Games : ~InHand(g, e)
           /\ result[e.player] = Match!NoResult
<1>1. \A v \in Workers : client[v] = c => v = w
  BY WorkerIs DEF Polls
<1>2. waited[w] \in Nat /\ waited[w] >= MatchTimeout + 2 /\ MatchTimeout \in Nat
  BY LobbyAssumption DEF WorkerInv, matchPollTimes
<1>3. ASSUME NEW mo \in {0, 1}, e \in DOMAIN pool[mo] PROVE FALSE
  <2>1. pool[mo][e] = waited[w]
    BY <1>1, <1>3 DEF Place, WaitsOK, Polls
  <2>2. pool[mo][e] \in 0..MatchTimeout
    <3>1. pool[mo] \in MP!Zsets
      BY DEF PartsInv, MP!TypeOK, MP!Modes
    <3> QED BY <1>3, <3>1 DEF MP!Zsets
  <2> QED BY <1>2, <2>1, <2>2
<1>4. ASSUME NEW g \in Games, InHand(g, e) PROVE FALSE
  <2>1. waited[w] <= MatchTimeout
    BY <1>1, <1>4 DEF Place, HandOK, Polls
  <2> QED BY <1>2, <2>1
<1>5. ASSUME result[e.player] # Match!NoResult PROVE FALSE
  <2>1. waited[w] <= MatchTimeout + 1
    BY <1>1, <1>5 DEF Place, ResultOK, Polls
  <2> QED BY <1>2, <2>1
<1> QED BY <1>3, <1>4, <1>5

\* A worker that joins begins its wait with the entry's age, 0; it was nowhere before.
LEMMA PlaceJoin ==
    ASSUME OneDevice, PartsInv, WorkerInv, NEW c \in Conns, AccountOf(c) \in Patient, NEW e, e = Entry(c), Place(c, e),
           NEW w \in Workers, WorkerJoin(w)
    PROVE  Place(c, e)'
<1>1. PICK d, mo : d = client[w] /\ mo = asked[w]
  OBVIOUS
<1>2. /\ wpc[w] = "join" /\ wpc' = [wpc EXCEPT ![w] = "poll"]
      /\ UNCHANGED <<client, waited, polled, ticked>>
      /\ Match!JoinMatch(Member(d), mo)
  BY <1>1 DEF WorkerJoin
<1>3. /\ d \in Conns /\ Member(d) = Entry(d)
      /\ AccountOf(d) \in Patient => \A v \in Workers : client[v] = d => v = w
  BY <1>1, <1>2, WorkerIs
<1>4. /\ pool' = [pool EXCEPT ![mo] = Match!ZAdd(@, Entry(d), 0)]
      /\ UNCHANGED <<result, loopPc, mode, pair, expired>> /\ Games # {}
  BY <1>2, <1>3 DEF Match!JoinMatch, Match!loop, Match!Serving
<1>5. mo \in {0, 1} /\ waited[w] = 0 /\ MatchTimeout # 0
  BY <1>1, <1>2, LobbyAssumption DEF WorkerInv
<1>6. \A v \in Workers : v # w => wpc'[v] = wpc[v]
  BY <1>2 DEF WorkerInv
<1>7. \A g \in Games : InHand(g, e)' => InHand(g, e)
  BY <1>4 DEF InHand
<1>8. pool \in [{0, 1} -> MP!Zsets]
  BY DEF PartsInv, MP!TypeOK, MP!Modes
<1>9. CASE c = d
  <2>1. /\ \A mp \in {0, 1} : e \notin DOMAIN pool[mp]
        /\ \A g \in Games : ~InHand(g, e)
        /\ result[e.player] = Match!NoResult
    BY <1>2, <1>3, <1>9, PlaceNone
  <2>2. /\ \A mp \in {0, 1} : e \in DOMAIN pool'[mp] => mp = mo
        /\ pool'[mo][e] = 0
    BY <1>4, <1>5, <1>8, <1>9, <2>1 DEF Match!ZAdd
  <2>3. Polls(w, c)' /\ waited'[w] = 0
    BY <1>1, <1>2, <1>5, <1>9 DEF Polls, WorkerInv
  <2>4. WaitsOK(c, e)'
    BY <1>4, <1>5, <1>7, <2>1, <2>2, <2>3 DEF WaitsOK, Match!NoResult
  <2>5. HandOK(c, e)' /\ ResultOK(c, e)'
    BY <1>4, <1>7, <2>1 DEF HandOK, ResultOK, Match!NoResult
  <2> QED BY <2>4, <2>5 DEF Place
<1>10. CASE c # d
  <2>1. Entry(d) # e
    BY <1>3, <1>10 DEF OneDevice, Entry
  <2>2. \A mp \in {0, 1} : /\ e \in DOMAIN pool'[mp] => e \in DOMAIN pool[mp]
                           /\ e \in DOMAIN pool'[mp] => pool'[mp][e] = pool[mp][e]
    BY <1>4, <1>5, <1>8, <2>1 DEF Match!ZAdd
  <2>3. \A mp \in {0, 1} : Due(mp, e) => Due(mp, e)'
    BY <1>2, <1>4 DEF Due, StillScans
  <2>4. c # NoConn /\ UNCHANGED <<client, waited, polled, result>>
        /\ \A v \in Workers : client[v] = c => wpc'[v] = wpc[v]
    BY <1>1, <1>2, <1>4, <1>6, <1>10, LobbyAssumption
  <2> QED BY <1>7, <2>2, <2>3, <2>4, PlaceKept
<1> QED BY <1>9, <1>10

\* A poll that finds a result turns into the query of it.
LEMMA PlacePoll ==
    ASSUME WorkerInv, NEW c \in Conns, AccountOf(c) \in Patient, NEW e, e = Entry(c), Place(c, e),
           NEW w \in Workers, WorkerPoll(w)
    PROVE  Place(c, e)'
<1>1. /\ wpc[w] = "poll" /\ polled' = [polled EXCEPT ![w] = TRUE]
      /\ UNCHANGED <<client, waited, ticked>>
      /\ \/ wpc' = [wpc EXCEPT ![w] = "query"] /\ result[player[client[w]]] # Match!NoResult
         \/ wpc' = wpc /\ result[player[client[w]]] = Match!NoResult
      /\ UNCHANGED <<pool, result, loopPc, mode, pair, expired>>
  BY DEF WorkerPoll, Match!QueryGet, Match!redis, Match!loop, match
<1>2. client[w] \in Conns /\ player[client[w]] = AccountOf(client[w])
  BY <1>1, WorkerIs
<1>3. \A v \in Workers : v # w => wpc'[v] = wpc[v] /\ polled'[v] = polled[v]
  BY <1>1 DEF WorkerInv
<1>4. CASE client[w] # c
  BY <1>1, <1>3, <1>4, PlaceWhenIdle
<1>5. CASE client[w] = c
  <2>1. player[client[w]] = e.player
    BY <1>2, <1>5 DEF Entry
  <2>2. \A g \in Games : InHand(g, e)' => InHand(g, e)
    BY <1>1 DEF InHand
  <2>3. CASE wpc' = [wpc EXCEPT ![w] = "query"] /\ result[e.player] # Match!NoResult
    <3>1. wpc'[w] = "query" /\ client'[w] = c
      BY <1>1, <1>5, <2>3 DEF WorkerInv
    <3>2. ResultOK(c, e)'
      BY <3>1 DEF ResultOK
    <3>3. (\A mo \in {0, 1} : e \notin DOMAIN pool'[mo]) /\ \A g \in Games : ~InHand(g, e)'
      BY <1>1, <2>2, <2>3 DEF Place, WaitsOK, HandOK
    <3> QED BY <3>2, <3>3 DEF Place, WaitsOK, HandOK
  <2>4. CASE wpc' = wpc /\ result[e.player] = Match!NoResult
    <3>1. ResultOK(c, e)'
      BY <1>1, <2>4 DEF ResultOK, Match!NoResult
    <3>2. \A v \in Workers : Polls(v, c) => Polls(v, c)'
      BY <1>1, <2>4 DEF Polls
    <3>3. HandOK(c, e)'
      BY <1>1, <2>2, <3>2 DEF Place, HandOK, Match!NoResult
    <3>4. \A mo \in {0, 1} : Due(mo, e) => Due(mo, e)'
      BY <1>1 DEF Due, StillScans
    <3>5. WaitsOK(c, e)'
      <4> SUFFICES ASSUME NEW mo \in {0, 1}, e \in DOMAIN pool'[mo]
                   PROVE  /\ \A mp \in {0, 1} : e \in DOMAIN pool'[mp] => mp = mo
                          /\ \A g \in Games : ~InHand(g, e)'
                          /\ result'[e.player] = Match!NoResult
                          /\ Games # {}
                          /\ \E v \in Workers : /\ Polls(v, c)' /\ pool'[mo][e] = waited'[v]
                                                /\ waited'[v] = MatchTimeout => Due(mo, e)'
        BY DEF WaitsOK, Match!NoResult
      <4>1. e \in DOMAIN pool[mo]
        BY <1>1
      <4>2. PICK v \in Workers : /\ Polls(v, c) /\ pool[mo][e] = waited[v]
                                 /\ waited[v] = MatchTimeout => Due(mo, e)
        BY <4>1 DEF Place, WaitsOK
      <4>3. /\ Polls(v, c)' /\ pool'[mo][e] = waited'[v]
            /\ waited'[v] = MatchTimeout => Due(mo, e)'
        BY <1>1, <3>2, <3>4, <4>2
      <4> QED BY <1>1, <2>2, <2>4, <4>1, <4>3 DEF Place, WaitsOK
    <3> QED BY <3>1, <3>3, <3>5 DEF Place
  <2> QED BY <1>1, <2>1, <2>3, <2>4
<1> QED BY <1>4, <1>5

\* The query takes its own player's result only.
LEMMA PlaceQueried ==
    ASSUME OneDevice, PartsInv, WorkerInv, NEW c \in Conns, AccountOf(c) \in Patient, NEW e, e = Entry(c), Place(c, e),
           NEW w \in Workers, WorkerQueried(w)
    PROVE  Place(c, e)'
<1>1. PICK p : p = query[w].player
  OBVIOUS
<1>2. /\ wpc[w] = "query" /\ wpc' = [wpc EXCEPT ![w] = "answer"]
      /\ UNCHANGED <<client, waited, polled, ticked>>
      /\ result' = [result EXCEPT ![p] = Match!NoResult]
      /\ UNCHANGED <<pool, loopPc, mode, pair, expired>>
  BY <1>1, NoFailure DEF WorkerQueried, Match!QueryDel, Match!loop, PartsInv
<1>3. /\ client[w] \in Conns /\ p = AccountOf(client[w])
      /\ AccountOf(client[w]) \in Patient => \A v \in Workers : client[v] = client[w] => v = w
  BY <1>1, <1>2, WorkerIs DEF WorkerInv
<1>4. \A v \in Workers : v # w => wpc'[v] = wpc[v]
  BY <1>2 DEF WorkerInv
<1>5. \A g \in Games : InHand(g, e)' => InHand(g, e)
  BY <1>2 DEF InHand
<1>6. \A mo \in {0, 1} : Due(mo, e) => Due(mo, e)'
  BY <1>2 DEF Due, StillScans
<1>7. /\ AccountOf(c) \in Players /\ e.player = AccountOf(c)
      /\ result \in [Players -> [room : Nat, left : 0..ResultTtl]]
  BY LobbyAssumption DEF Entry, PartsInv, MP!TypeOK
<1>8. CASE client[w] = c
  <2>1. result'[e.player] = Match!NoResult
    BY <1>2, <1>3, <1>7, <1>8
  <2>2. \A v \in Workers : ~Polls(v, c)
    BY <1>2, <1>3, <1>8 DEF Polls
  <2>3. (\A mo \in {0, 1} : e \notin DOMAIN pool[mo]) /\ \A g \in Games : ~InHand(g, e)
    BY <2>2 DEF Place, WaitsOK, HandOK
  <2>4. (\A mo \in {0, 1} : e \notin DOMAIN pool'[mo]) /\ \A g \in Games : ~InHand(g, e)'
    BY <1>2, <1>5, <2>3
  <2> QED BY <2>1, <2>4, NowhereOK
<1>9. CASE client[w] # c
  <2>1. result'[e.player] = result[e.player]
    BY <1>2, <1>3, <1>7, <1>9 DEF OneDevice
  <2>2. c # NoConn /\ \A v \in Workers : client[v] = c => wpc'[v] = wpc[v]
    BY <1>4, <1>9, LobbyAssumption
  <2> QED BY <1>2, <1>5, <1>6, <2>1, <2>2, PlaceKept
<1> QED BY <1>8, <1>9

\* Every step of a worker, its own player's or another's.
LEMMA PlaceWorker ==
    ASSUME OneDevice, PartsInv, WorkerInv, DeviceInv, NEW c \in Conns, AccountOf(c) \in Patient, NEW e, e = Entry(c),
           Place(c, e), socket[c] # "closed", NEW w \in Workers, matchWorker(w)
    PROVE  Place(c, e)'
<1>1. CASE WorkerStart(w)
  <2>1. UNCHANGED <<match, ticked>> /\ wpc[w] = "start"
    BY <1>1 DEF WorkerStart
  <2>2. CASE Release(w)
    BY <2>1, <2>2, PlaceRelease
  <2>3. CASE wpc' = [wpc EXCEPT ![w] = "join"] /\ UNCHANGED <<client, waited, polled>>
    <3>1. \A v \in Workers : v # w => wpc'[v] = wpc[v]
      BY <2>3 DEF WorkerInv
    <3> QED BY <2>1, <2>3, <3>1, PlaceWhenIdle DEF match
  <2> QED BY <1>1, <2>2, <2>3 DEF WorkerStart
<1>2. CASE WorkerStop(w)
  <2>1. UNCHANGED <<match, ticked>> /\ wpc[w] = "poll" /\ ~Alive(w) /\ Release(w)
    BY <1>2 DEF WorkerStop
  <2>2. client[w] # c
    BY <2>1, OpenIsAlive DEF PartsInv, WorkerInv
  <2> QED BY <2>1, <2>2, PlaceRelease
<1>3. CASE WorkerGiveUp(w)
  <2>1. /\ UNCHANGED <<match, ticked>> /\ wpc[w] = "poll" /\ Release(w)
        /\ waited[w] >= matchPollTimes(MatchTimeout)
    BY <1>3 DEF WorkerGiveUp
  <2>2. CASE client[w] = c
    <3>1. Polls(w, c)
      BY <2>1, <2>2 DEF Polls
    <3> QED BY <2>1, <3>1, GivesUpNowhere, PlaceRelease
  <2>3. CASE client[w] # c
    BY <2>1, <2>3, PlaceRelease
  <2> QED BY <2>2, <2>3
<1>4. CASE WorkerAnswer(w)
  <2>1. UNCHANGED <<match, ticked>> /\ wpc[w] = "answer" /\ Release(w)
    BY <1>4 DEF WorkerAnswer
  <2> QED BY <2>1, PlaceRelease
<1> QED BY <1>1, <1>2, <1>3, <1>4, PlaceJoin, PlacePoll, PlaceQueried DEF matchWorker

\* A step of an instance that leaves the pools, the results and what it has in hand.
LEMMA PlaceTickQuiet ==
    ASSUME NEW c \in Conns, NEW e, Place(c, e), UNCHANGED <<pool, result, worker>>,
           \A g \in Games : InHand(g, e)' => InHand(g, e),
           \A mo \in {0, 1} : e \in DOMAIN pool[mo] /\ Due(mo, e) => Due(mo, e)'
    PROVE  Place(c, e)'
<1>1. c # NoConn
  BY LobbyAssumption
<1> QED BY <1>1, PlaceKept DEF worker

\* Which of the loops has whom.
LEMMA HandsOthers ==
    ASSUME MP!TypeOK, NEW g \in Games, NEW e,
           \A h \in Games \ {g} : loopPc'[h] = loopPc[h] /\ pair'[h] = pair[h]
    PROVE  \A h \in Games \ {g} : InHand(h, e)' <=> InHand(h, e)
BY DEF InHand

\* What the other instances still come to does not depend on this one.
LEMMA DueOthers ==
    ASSUME NEW g \in Games, NEW mo, NEW e, ticked' = ticked, Due(mo, e),
           \A h \in Games \ {g} : /\ loopPc'[h] = loopPc[h] /\ mode'[h] = mode[h]
                                  /\ expired'[h] = expired[h],
           g \in ticked /\ StillScans(g, mo, e) => StillScans(g, mo, e)'
    PROVE  Due(mo, e)'
BY DEF Due, StillScans

\* An instance that starts begins no tick; one that wakes comes to everyone.
LEMMA PlaceStart ==
    ASSUME PartsInv, NEW c \in Conns, NEW e, Place(c, e), NEW g \in Games, Match!StartGame(g),
           UNCHANGED <<ticked, worker>>
    PROVE  Place(c, e)'
<1>1. /\ loopPc[g] = "down" /\ loopPc' = [loopPc EXCEPT ![g] = "idle"]
      /\ UNCHANGED <<pool, result, mode, pair, expired>>
  BY DEF Match!StartGame
<1>2. MP!TypeOK
  BY DEF PartsInv
<1>3. /\ \A h \in Games \ {g} : loopPc'[h] = loopPc[h]
      /\ loopPc'[g] = "idle"
  BY <1>1, <1>2 DEF MP!TypeOK
<1>4. \A h \in Games : InHand(h, e)' => InHand(h, e)
  BY <1>1, <1>3 DEF InHand
<1>5. \A mo \in {0, 1} : Due(mo, e) => Due(mo, e)'
  BY <1>1, <1>3 DEF Due, StillScans
<1> QED BY <1>1, <1>4, <1>5, PlaceTickQuiet

LEMMA PlaceWake ==
    ASSUME PartsInv, TickInv, NEW c \in Conns, NEW e, Place(c, e), NEW g \in Games, Match!Wake(g),
           ticked' = ticked \cup {g}, UNCHANGED worker
    PROVE  Place(c, e)'
<1>1. /\ loopPc[g] = "idle" /\ loopPc' = [loopPc EXCEPT ![g] = "pair"]
      /\ UNCHANGED <<pool, result, mode, pair, expired>>
  BY DEF Match!Wake, Match!Goto, Match!redis
<1>2. MP!TypeOK /\ mode[g] = 0
  BY <1>1 DEF PartsInv, TickInv
<1>3. /\ \A h \in Games \ {g} : loopPc'[h] = loopPc[h]
      /\ loopPc'[g] = "pair"
  BY <1>1, <1>2 DEF MP!TypeOK
<1>4. \A h \in Games : InHand(h, e)' => InHand(h, e)
  BY <1>1, <1>3 DEF InHand
<1>5. \A mo \in {0, 1} : Due(mo, e) => Due(mo, e)'
  BY <1>1, <1>2, <1>3 DEF Due, StillScans
<1> QED BY <1>1, <1>4, <1>5, PlaceTickQuiet

\* The pair that is popped goes from the pool into one hand.
LEMMA PlacePopped ==
    ASSUME PartsInv, NEW c \in Conns, NEW e, Place(c, e), NEW g \in Games, Match!PopPair(g),
           UNCHANGED <<ticked, worker>>
    PROVE  Place(c, e)'
<1>1. MP!TypeOK
  BY DEF PartsInv
<1>2. PICK m \in {0, 1} : m = mode[g]
  BY <1>1 DEF MP!TypeOK, MP!Modes
<1>3. PICK two \in Match!OldestTwo(pool[m]) :
        /\ pool' = [pool EXCEPT ![m] = Match!Popped(@, two)]
        /\ pair' = [pair EXCEPT ![g] = two]
  BY <1>2 DEF Match!PopPair
<1>4. /\ loopPc[g] = "pair" /\ loopPc' = [loopPc EXCEPT ![g] = "incr"]
      /\ UNCHANGED <<result, mode, expired>>
  BY DEF Match!PopPair, Match!Goto
<1>5. two[1] \in DOMAIN pool[m] /\ two[2] \in DOMAIN pool[m]
  BY DEF Match!OldestTwo
<1>6. pool \in [{0, 1} -> MP!Zsets]
  BY <1>1 DEF MP!TypeOK, MP!Modes
<1>7. \A mo \in {0, 1} : DOMAIN pool'[mo] = IF mo = m THEN DOMAIN pool[mo] \ {two[1], two[2]}
                                                      ELSE DOMAIN pool[mo]
  BY <1>3, <1>6 DEF Match!Popped, Match!ZRem
<1>8. \A mo \in {0, 1} : e \in DOMAIN pool'[mo] => pool'[mo][e] = pool[mo][e]
  BY <1>3, <1>6 DEF Match!Popped, Match!ZRem
<1>9. /\ \A h \in Games \ {g} : loopPc'[h] = loopPc[h] /\ pair'[h] = pair[h]
      /\ loopPc'[g] = "incr" /\ pair'[g] = two
  BY <1>1, <1>3, <1>4 DEF MP!TypeOK
<1>10. \A h \in Games \ {g} : InHand(h, e)' <=> InHand(h, e)
  BY <1>1, <1>9, HandsOthers
<1>11. ~InHand(g, e) /\ (InHand(g, e)' <=> e \in {two[1], two[2]})
  BY <1>4, <1>9 DEF InHand
<1>12. CASE e \in {two[1], two[2]}
  <2>1. /\ e \in DOMAIN pool[m]
        /\ \A mo \in {0, 1} : e \notin DOMAIN pool'[mo]
    BY <1>5, <1>7, <1>12 DEF Place, WaitsOK
  <2>2. /\ \A h \in Games : ~InHand(h, e) /\ result[e.player] = Match!NoResult
        /\ \E w \in Workers : Polls(w, c) /\ pool[m][e] = waited[w]
    BY <2>1 DEF Place, WaitsOK
  <2>3. pool[m][e] <= MatchTimeout
    BY <1>6, <2>1, LobbyAssumption DEF MP!Zsets
  <2>4. UNCHANGED <<client, wpc, waited>>
    BY DEF worker
  <2>5. HandOK(c, e)'
    BY <1>4, <1>10, <2>2, <2>3, <2>4 DEF HandOK, Match!NoResult, Polls
  <2>6. WaitsOK(c, e)'
    BY <2>1 DEF WaitsOK
  <2>7. ResultOK(c, e)'
    BY <1>4, <2>2 DEF ResultOK, Match!NoResult
  <2> QED BY <2>5, <2>6, <2>7 DEF Place
<1>13. CASE e \notin {two[1], two[2]}
  <2>1. \A h \in Games : InHand(h, e)' => InHand(h, e)
    BY <1>10, <1>11, <1>13
  <2>2. \A mo \in {0, 1} : e \in DOMAIN pool'[mo] => e \in DOMAIN pool[mo]
    BY <1>7
  <2>3. \A mo \in {0, 1} : Due(mo, e) => Due(mo, e)'
    <3>1. \A mo \in {0, 1} : StillScans(g, mo, e) => StillScans(g, mo, e)'
      BY <1>4, <1>9 DEF StillScans
    <3> QED BY <1>4, <1>9, <3>1, DueOthers
  <2>4. c # NoConn /\ UNCHANGED <<client, wpc, waited, polled>>
    BY LobbyAssumption DEF worker
  <2> QED BY <1>4, <1>8, <2>1, <2>2, <2>3, <2>4, PlaceKept
<1> QED BY <1>12, <1>13

\* Getting a number and creating the room: the pair stays in the same hand.
LEMMA PlaceMaking ==
    ASSUME PartsInv, NEW c \in Conns, NEW e, Place(c, e), NEW g \in Games,
           Match!PopNothing(g) \/ Match!NextRoomId(g) \/ Match!CreateRoom(g)
             \/ Match!PublishRoute(g),
           UNCHANGED <<ticked, worker>>
    PROVE  Place(c, e)'
<1>1. MP!TypeOK /\ ~Match!Failure
  BY NoFailure DEF PartsInv
<1>2. /\ UNCHANGED <<pool, result, mode, expired>>
      /\ \/ loopPc[g] = "pair" /\ loopPc' = [loopPc EXCEPT ![g] = "scan"] /\ pair' = pair
         \/ loopPc[g] = "incr" /\ loopPc' = [loopPc EXCEPT ![g] = "create"] /\ pair' = pair
         \/ loopPc[g] = "create" /\ loopPc' = [loopPc EXCEPT ![g] = "result1"] /\ pair' = pair
         \/ loopPc[g] = "route" /\ loopPc' = [loopPc EXCEPT ![g] = "scan"]
              /\ pair' = [pair EXCEPT ![g] = Match!NoPair]
  BY DEF Match!PopNothing, Match!NextRoomId, Match!CreateRoom, Match!PublishRoute, Match!Goto,
         Match!redis
<1>3. \A h \in Games \ {g} : loopPc'[h] = loopPc[h] /\ pair'[h] = pair[h]
  BY <1>1, <1>2 DEF MP!TypeOK
<1>4. /\ loopPc[g] \notin {"idle", "down"} /\ loopPc'[g] \notin {"idle", "down", "expire"}
      /\ InHand(g, e)' => InHand(g, e)
  BY <1>1, <1>2 DEF MP!TypeOK, InHand
<1>5. \A h \in Games : InHand(h, e)' => InHand(h, e)
  BY <1>1, <1>3, <1>4, HandsOthers
<1>6. \A mo \in {0, 1} : Due(mo, e) => Due(mo, e)'
  <2>1. \A mo \in {0, 1} : StillScans(g, mo, e) => StillScans(g, mo, e)'
    BY <1>2, <1>4 DEF StillScans
  <2> QED BY <1>2, <1>3, <2>1, DueOthers
<1> QED BY <1>2, <1>5, <1>6, PlaceTickQuiet

\* A result that is published goes to one who was in this hand only, and in time.
LEMMA PlacePublished ==
    ASSUME PartsInv, WorkerInv, NEW c \in Conns, NEW e, e = Entry(c), Place(c, e), NEW g \in Games,
           Match!PublishResults(g), UNCHANGED <<ticked, worker>>
    PROVE  Place(c, e)'
<1>1. MP!TypeOK /\ ~Match!Failure
  BY NoFailure DEF PartsInv
<1>2. PICK m, from, to :
        /\ \/ from = "result1" /\ to = "result2" /\ m = pair[g][1]
           \/ from = "result2" /\ to = "route" /\ m = pair[g][2]
        /\ loopPc[g] = from /\ loopPc' = [loopPc EXCEPT ![g] = to]
        /\ result' = [result EXCEPT ![m.player] = [room |-> room[g], left |-> ResultTtl]]
        /\ UNCHANGED <<pool, pair, mode, expired>>
  BY <1>1 DEF Match!PublishResults, Match!PublishResult, Match!Answered, Match!Goto
<1>3. /\ pair[g] \in MP!Members \X MP!Members /\ pair[g][1].player # pair[g][2].player
      /\ room[g] # NoRoom
  BY <1>1, <1>2 DEF MP!TypeOK, PartsInv, MP!TwoPlayersInv, MP!NoPair
<1>4. m \in MP!Members /\ m.player \in Players
  BY <1>2, <1>3 DEF MP!Members
<1>5. m.player = e.player <=> m = e
  <2>1. e.player = AccountOf(c)
    BY DEF Entry
  <2> QED BY <1>4, <2>1, EntryOf
<1>6. \A h \in Games \ {g} : loopPc'[h] = loopPc[h] /\ pair'[h] = pair[h]
  BY <1>1, <1>2 DEF MP!TypeOK
<1>7. /\ loopPc'[g] = to /\ \A h \in Games \ {g} : InHand(h, e)' <=> InHand(h, e)
  BY <1>1, <1>2, <1>6, HandsOthers DEF MP!TypeOK
<1>8. UNCHANGED <<client, wpc, waited, polled>>
  BY DEF worker
<1>9. CASE m = e
  <2>1. InHand(g, e)
    BY <1>2, <1>9 DEF InHand
  <2>2. ~InHand(g, e)'
    BY <1>2, <1>3, <1>7, <1>9 DEF InHand
  <2>3. /\ \A h \in Games \ {g} : ~InHand(h, e)
        /\ \A mo \in {0, 1} : e \notin DOMAIN pool[mo]
        /\ \E w \in Workers : Polls(w, c) /\ waited[w] <= MatchTimeout
    BY <2>1 DEF Place, HandOK, WaitsOK
  <2>4. WaitsOK(c, e)' /\ HandOK(c, e)'
    BY <1>2, <1>7, <2>2, <2>3 DEF WaitsOK, HandOK
  <2>5. result'[e.player] = [room |-> room[g], left |-> ResultTtl]
    BY <1>1, <1>2, <1>4, <1>9 DEF MP!TypeOK
  <2>6. result'[e.player].left >= 2
    BY <2>5, LobbyAssumption
  <2>7. ResultOK(c, e)'
    <3>1. PICK w \in Workers : Polls(w, c) /\ waited[w] <= MatchTimeout
      BY <2>3
    <3>2. waited[w] \in Int
      BY LobbyAssumption DEF WorkerInv, matchPollTimes
    <3>3. waited[w] <= MatchTimeout + 1
      BY <3>1, <3>2, LobbyAssumption
    <3> QED BY <1>8, <2>6, <3>1, <3>3 DEF ResultOK, Polls
  <2> QED BY <2>4, <2>7 DEF Place
<1>10. CASE m # e
  <2>1. result'[e.player] = result[e.player]
    BY <1>1, <1>2, <1>4, <1>5, <1>10 DEF MP!TypeOK
  <2>2. InHand(g, e)' => InHand(g, e)
    BY <1>2, <1>7 DEF InHand
  <2>3. \A h \in Games : InHand(h, e)' => InHand(h, e)
    BY <1>7, <2>2
  <2>4. \A mo \in {0, 1} : Due(mo, e) => Due(mo, e)'
    <3>1. \A mo \in {0, 1} : StillScans(g, mo, e) => StillScans(g, mo, e)'
      BY <1>2, <1>7 DEF StillScans
    <3> QED BY <1>2, <1>6, <3>1, DueOthers
  <2>5. c # NoConn
    BY LobbyAssumption
  <2> QED BY <1>2, <1>8, <2>1, <2>3, <2>4, <2>5, PlaceKept
<1> QED BY <1>9, <1>10

\* A tick that is under way when a player's time is up comes to him yet, or has him.
LEMMA PlaceScanned ==
    ASSUME PartsInv, TickInv, NEW c \in Conns, NEW e, Place(c, e), NEW g \in Games,
           Match!ScanExpired(g), UNCHANGED <<ticked, worker>>
    PROVE  Place(c, e)'
<1>1. MP!TypeOK
  BY DEF PartsInv
<1>2. PICK m \in {0, 1} : m = mode[g]
  BY <1>1 DEF MP!TypeOK, MP!Modes
<1>3. PICK S : S = {x \in DOMAIN pool[m] : pool[m][x] >= MatchTimeout}
  OBVIOUS
<1>4. /\ loopPc[g] = "scan" /\ expired' = [expired EXCEPT ![g] = S]
      /\ UNCHANGED <<pool, result, pair>>
      /\ S = {} => Match!EndTick(g)
      /\ S # {} => loopPc' = [loopPc EXCEPT ![g] = "expire"] /\ mode' = mode
  BY <1>2, <1>3 DEF Match!ScanExpired, Match!Goto, Match!redis
<1>5. g \in ticked
  BY <1>4 DEF TickInv
<1>6. \A h \in Games \ {g} : /\ loopPc'[h] = loopPc[h] /\ mode'[h] = mode[h]
                             /\ expired'[h] = expired[h]
  BY <1>1, <1>4 DEF MP!TypeOK, Match!EndTick
<1>7. /\ expired'[g] = S
      /\ S = {} => /\ loopPc'[g] = IF m = 0 THEN "pair" ELSE "idle"
                   /\ mode'[g] = 1 - m
      /\ S # {} => loopPc'[g] = "expire" /\ mode'[g] = m
  BY <1>1, <1>2, <1>4 DEF MP!TypeOK, Match!EndTick
<1>8. \A h \in Games : InHand(h, e)' => InHand(h, e)
  <2>1. ~InHand(g, e)'
    BY <1>7 DEF InHand
  <2> QED BY <1>1, <1>4, <1>6, <2>1, HandsOthers
<1>9. c # NoConn /\ UNCHANGED <<client, wpc, waited, polled>>
  BY LobbyAssumption DEF worker
<1>10. ASSUME NEW mo \in {0, 1}, e \in DOMAIN pool[mo], pool[mo][e] = MatchTimeout, Due(mo, e)
       PROVE  Due(mo, e)'
  <2>1. StillScans(g, mo, e)
    BY <1>5, <1>10 DEF Due
  <2>2. (m = 0 /\ mo = 1) \/ m = mo
    BY <1>2, <2>1 DEF StillScans
  <2>3. MatchTimeout >= MatchTimeout
    BY LobbyAssumption
  <2>4. m = mo => e \in S
    BY <1>3, <1>10, <2>3
  <2>5. StillScans(g, mo, e)'
    BY <1>7, <2>2, <2>4 DEF StillScans
  <2> QED BY <1>6, <1>10, <2>5, DueOthers
<1>11. WaitsOK(c, e)'
  <2> SUFFICES ASSUME NEW mo \in {0, 1}, e \in DOMAIN pool'[mo]
               PROVE  /\ \A mp \in {0, 1} : e \in DOMAIN pool'[mp] => mp = mo
                      /\ \A h \in Games : ~InHand(h, e)'
                      /\ result'[e.player] = Match!NoResult
                      /\ Games # {}
                      /\ \E w \in Workers : /\ Polls(w, c)' /\ pool'[mo][e] = waited'[w]
                                            /\ waited'[w] = MatchTimeout => Due(mo, e)'
    BY DEF WaitsOK, Match!NoResult
  <2>1. e \in DOMAIN pool[mo]
    BY <1>4
  <2>2. PICK w \in Workers : /\ Polls(w, c) /\ pool[mo][e] = waited[w]
                             /\ waited[w] = MatchTimeout => Due(mo, e)
    BY <2>1 DEF Place, WaitsOK
  <2>3. /\ Polls(w, c)' /\ pool'[mo][e] = waited'[w]
        /\ waited'[w] = MatchTimeout => Due(mo, e)'
    BY <1>4, <1>9, <1>10, <2>1, <2>2 DEF Polls
  <2> QED BY <1>4, <1>8, <2>1, <2>3 DEF Place, WaitsOK
<1>12. HandOK(c, e)' /\ ResultOK(c, e)'
  BY <1>4, <1>8, <1>9 DEF Place, HandOK, ResultOK, Match!NoResult, Polls
<1> QED BY <1>11, <1>12 DEF Place

\* The clean-up takes one member, and still comes to the others it has read.
LEMMA PlaceExpired ==
    ASSUME PartsInv, TickInv, NEW c \in Conns, NEW e, Place(c, e), NEW g \in Games,
           Match!RemoveExpired(g), UNCHANGED <<ticked, worker>>
    PROVE  Place(c, e)'
<1>1. MP!TypeOK /\ ~Match!Failure
  BY NoFailure DEF PartsInv
<1>2. PICK m \in {0, 1} : m = mode[g]
  BY <1>1 DEF MP!TypeOK, MP!Modes
<1>3. PICK x \in expired[g] :
        /\ pool' = [pool EXCEPT ![m] = Match!ZRem(@, {x})]
        /\ expired' = [expired EXCEPT ![g] = @ \ {x}]
  BY <1>1, <1>2 DEF Match!RemoveExpired
<1>4. /\ loopPc[g] = "expire" /\ UNCHANGED <<result, pair>>
      /\ expired'[g] = {} => Match!EndTick(g)
      /\ expired'[g] # {} => loopPc' = [loopPc EXCEPT ![g] = "expire"] /\ mode' = mode
  BY DEF Match!RemoveExpired, Match!Goto
<1>5. g \in ticked
  BY <1>4 DEF TickInv
<1>6. \A h \in Games \ {g} : /\ loopPc'[h] = loopPc[h] /\ mode'[h] = mode[h]
                             /\ expired'[h] = expired[h]
  BY <1>1, <1>3, <1>4 DEF MP!TypeOK, Match!EndTick
<1>7. /\ expired'[g] = expired[g] \ {x}
      /\ expired'[g] = {} => /\ loopPc'[g] = IF m = 0 THEN "pair" ELSE "idle"
                             /\ mode'[g] = 1 - m
      /\ expired'[g] # {} => loopPc'[g] = "expire" /\ mode'[g] = m
  BY <1>1, <1>2, <1>3, <1>4 DEF MP!TypeOK, Match!EndTick
<1>8. \A h \in Games : InHand(h, e)' => InHand(h, e)
  <2>1. ~InHand(g, e)'
    BY <1>7 DEF InHand
  <2> QED BY <1>1, <1>4, <1>6, <2>1, HandsOthers
<1>9. c # NoConn /\ UNCHANGED <<client, wpc, waited, polled>>
  BY LobbyAssumption DEF worker
<1>10. pool \in [{0, 1} -> MP!Zsets]
  BY <1>1 DEF MP!TypeOK, MP!Modes
<1>11. \A mo \in {0, 1} : /\ e \in DOMAIN pool'[mo] => e \in DOMAIN pool[mo]
                          /\ e \in DOMAIN pool'[mo] => pool'[mo][e] = pool[mo][e]
                          /\ e \in DOMAIN pool'[mo] => ~(mo = m /\ e = x)
  BY <1>3, <1>10 DEF Match!ZRem
<1>12. ASSUME NEW mo \in {0, 1}, e \in DOMAIN pool'[mo], Due(mo, e)
       PROVE  Due(mo, e)'
  <2>1. StillScans(g, mo, e)
    BY <1>5, <1>12 DEF Due
  <2>2. (m = 0 /\ mo = 1) \/ (m = mo /\ e \in expired[g])
    BY <1>2, <1>4, <2>1 DEF StillScans
  <2>3. m = mo => e \in expired'[g]
    BY <1>7, <1>11, <1>12, <2>2
  <2>4. StillScans(g, mo, e)'
    BY <1>7, <2>2, <2>3 DEF StillScans
  <2> QED BY <1>6, <1>12, <2>4, DueOthers
<1> QED BY <1>4, <1>8, <1>9, <1>11, <1>12, PlaceKept

\* Every step of an instance.
LEMMA PlaceGame ==
    ASSUME PartsInv, WorkerInv, TickInv, NEW c \in Conns, NEW e, e = Entry(c), Place(c, e),
           NEW g \in Games, Game(g)
    PROVE  Place(c, e)'
<1>1. ~Match!Failure /\ UNCHANGED worker
  BY NoFailure DEF PartsInv, Game
<1>2. CASE Match!StartGame(g) /\ ticked' = ticked
  BY <1>1, <1>2, PlaceStart
<1>3. CASE Match!Wake(g) /\ ticked' = ticked \cup {g}
  BY <1>1, <1>3, PlaceWake
<1>4. CASE loopPc[g] # "idle" /\ Match!MatchTick(g) /\ ticked' = ticked
  <2>1. ~Match!Wake(g) /\ ~Match!PopFailed(g) /\ ~Match!NextRoomIdFailed(g) /\ ~Match!ScanFailed(g)
    BY <1>1, <1>4 DEF Match!Wake, Match!PopFailed, Match!NextRoomIdFailed, Match!ScanFailed
  <2> QED BY <1>1, <1>4, <2>1, PlacePopped, PlaceMaking, PlacePublished, PlaceScanned, PlaceExpired
          DEF Match!MatchTick
<1> QED BY <1>2, <1>3, <1>4 DEF Game

\* A period passes only when every instance has been through the pools: nobody is in them
\* whose time is up.
LEMMA PlaceAdvance ==
    ASSUME PartsInv, WorkerInv, NEW c \in Conns, NEW e, e = Entry(c), Place(c, e), Advance
    PROVE  Place(c, e)'
<1>1. /\ \A g \in Games : loopPc[g] = "idle" /\ g \in ticked
      /\ \A w \in Workers : wpc[w] = "free" \/ (wpc[w] = "poll" /\ polled[w])
      /\ Match!Advance /\ ticked' = {}
      /\ polled' = [w \in Workers |-> FALSE]
      /\ waited' = [w \in Workers |-> IF wpc[w] = "poll" THEN waited[w] + 1 ELSE 0]
      /\ UNCHANGED <<wpc, client>>
  BY DEF Advance
<1>2. /\ pool' = [mo \in {0, 1} |-> [m \in DOMAIN pool[mo] |->
                     IF pool[mo][m] < MatchTimeout THEN pool[mo][m] + 1 ELSE MatchTimeout]]
      /\ result' = [p \in Players |-> IF result[p].left > 1
                                        THEN [result[p] EXCEPT !.left = @ - 1] ELSE Match!NoResult]
      /\ UNCHANGED <<loopPc, pair>>
  BY <1>1 DEF Match!Advance, Match!Modes, Match!loop
<1>3. e.player \in Players /\ result[e.player] \in [room : Nat, left : 0..ResultTtl]
  BY LobbyAssumption DEF Entry, PartsInv, MP!TypeOK
<1>4. \A g \in Games : ~InHand(g, e)'
  BY <1>1, <1>2 DEF InHand
<1>5. \A w \in Workers : Polls(w, c) => /\ Polls(w, c)' /\ polled[w] /\ ~polled'[w]
                                        /\ waited'[w] = waited[w] + 1 /\ waited[w] \in Nat
  BY <1>1 DEF Polls, WorkerInv
<1>6. result[e.player] = Match!NoResult => result'[e.player] = Match!NoResult
  BY <1>2, <1>3 DEF Match!NoResult
<1>7. \A mo \in {0, 1} : Due(mo, e)'
  BY <1>1 DEF Due
<1>8. WaitsOK(c, e)'
  <2> SUFFICES ASSUME NEW mo \in {0, 1}, e \in DOMAIN pool'[mo]
               PROVE  /\ \A mp \in {0, 1} : e \in DOMAIN pool'[mp] => mp = mo
                      /\ \A h \in Games : ~InHand(h, e)'
                      /\ result'[e.player] = Match!NoResult
                      /\ Games # {}
                      /\ \E w \in Workers : /\ Polls(w, c)' /\ pool'[mo][e] = waited'[w]
                                            /\ waited'[w] = MatchTimeout => Due(mo, e)'
    BY DEF WaitsOK, Match!NoResult
  <2>1. \A mp \in {0, 1} : DOMAIN pool'[mp] = DOMAIN pool[mp]
    BY <1>2
  <2>2. PICK w \in Workers : /\ Polls(w, c) /\ pool[mo][e] = waited[w]
                             /\ waited[w] = MatchTimeout => Due(mo, e)
    BY <2>1 DEF Place, WaitsOK
  <2>3. Games # {} /\ result[e.player] = Match!NoResult
        /\ \A mp \in {0, 1} : e \in DOMAIN pool[mp] => mp = mo
    BY <2>1 DEF Place, WaitsOK
  <2>4. ~Due(mo, e)
    BY <1>1, <2>3 DEF Due, StillScans
  <2>5. pool[mo][e] < MatchTimeout
    <3>1. pool[mo] \in MP!Zsets
      BY DEF PartsInv, MP!TypeOK, MP!Modes
    <3>2. pool[mo][e] \in 0..MatchTimeout
      BY <2>1, <3>1 DEF MP!Zsets
    <3> QED BY <2>2, <2>4, <3>2, LobbyAssumption
  <2>6. pool'[mo][e] = pool[mo][e] + 1
    BY <1>2, <2>1, <2>5
  <2>7. Polls(w, c)' /\ pool'[mo][e] = waited'[w]
    BY <1>5, <2>2, <2>6
  <2> QED BY <1>4, <1>6, <1>7, <2>1, <2>3, <2>7
<1>9. HandOK(c, e)'
  BY <1>4 DEF HandOK
<1>10. ResultOK(c, e)'
  <2> SUFFICES ASSUME result[e.player] # Match!NoResult
               PROVE  \E w \in Workers : Polls(w, c)' /\ waited'[w] <= MatchTimeout + 1 /\ ~polled'[w]
    BY <1>6 DEF ResultOK, Match!NoResult
  <2>1. \A w \in Workers : wpc[w] # "query"
    BY <1>1
  <2>2. PICK w \in Workers : /\ Polls(w, c)
                             /\ polled[w] => waited[w] <= MatchTimeout
    BY <2>1 DEF Place, ResultOK
  <2>3. waited'[w] <= MatchTimeout + 1
    BY <1>5, <2>2, LobbyAssumption
  <2> QED BY <1>5, <2>2, <2>3
<1> QED BY <1>8, <1>9, <1>10 DEF Place

\* A connection that is closed stays so.
LEMMA ClosedForGood ==
    ASSUME SP!TypeOK, [Next]_vars, NEW c \in Conns, socket'[c] # "closed"
    PROVE  socket[c] # "closed"
<1> USE DEF Sessions!session, Sessions!local, Sessions!NextFrame
<1>1. ASSUME NEW d \in Conns, Connection(d) \/ QuitRoomTo(d) \/ BroadcastLeaveMatch(d)
      PROVE  socket[c] # "closed"
  <2>1. CASE Sessions!Connect(d)
    BY <2>1 DEF Sessions!Connect, SP!TypeOK
  <2>2. CASE ~Sessions!Connect(d)
    <3>1. socket' = socket \/ \E x : socket' = [socket EXCEPT ![x] = "closed"]
      BY <1>1, <2>2 DEF Connection, QuitRoomTo, BroadcastLeaveMatch, Sessions!Drop,
           Sessions!ScanTimeout, Sessions!Read, Sessions!LoginReq, Sessions!Login,
           Sessions!LoginFailed, Sessions!BindSession, Sessions!KickOld, Sessions!WriteRoute,
           Sessions!Disconnect, Sessions!RemoveSession, Sessions!Notify, Sessions!GetRoute,
           Sessions!DelRoute
    <3> QED BY <3>1 DEF SP!TypeOK
  <2> QED BY <2>1, <2>2
<1>2. CASE ~\E d \in Conns : Connection(d) \/ QuitRoomTo(d) \/ BroadcastLeaveMatch(d)
  <2>1. socket' = socket
    BY <1>2 DEF Next, MatchReq, Sessions!MatchReq, matchWorker, WorkerStart, WorkerJoin, WorkerPoll,
         WorkerStop, WorkerGiveUp, WorkerQueried, WorkerAnswer, Sessions!SendMatchRsp, Game,
         BattleEnds, DropRoom, Advance, gateway, vars
  <2> QED BY <2>1
<1> QED BY <1>1, <1>2 DEF SP!TypeOK

\* The places of every patient player whose connection is not closed.
LEMMA PlaceStep ==
    ASSUME OneDevice, PartsInv, WorkerInv, DeviceInv, TickInv, PlaceInv, [Next]_vars
    PROVE  PlaceInv'
<1> SUFFICES ASSUME NEW c \in Conns, AccountOf(c) \in Patient, socket'[c] # "closed"
             PROVE  Place(c, Entry(c))'
  BY DEF PlaceInv
<1>1. PICK e : e = Entry(c)
  OBVIOUS
<1>2. socket[c] # "closed" /\ Place(c, e)
  BY <1>1, ClosedForGood DEF PartsInv, PlaceInv
<1>3. ASSUME NEW d \in Conns, Connection(d) \/ QuitRoomTo(d) PROVE Place(c, e)'
  BY <1>2, <1>3, PlaceConnection
<1>4. ASSUME NEW d \in Conns, BroadcastLeaveMatch(d) PROVE Place(c, e)'
  BY <1>1, <1>2, <1>4, PlaceLeave
<1>5. ASSUME NEW d \in Conns, NEW mo \in Asked, NEW w \in Workers, MatchReq(d, mo, w)
      PROVE  Place(c, e)'
  BY <1>2, <1>5, PlaceRequest
<1>6. ASSUME NEW w \in Workers, matchWorker(w) PROVE Place(c, e)'
  BY <1>1, <1>2, <1>6, PlaceWorker
<1>7. ASSUME NEW g \in Games, Game(g) PROVE Place(c, e)'
  BY <1>1, <1>2, <1>7, PlaceGame
<1>8. ASSUME NEW g \in Games, NEW id \in rooms[g], BattleEnds(g, id) \/ DropRoom(g, id)
      PROVE  Place(c, e)'
  <2>1. UNCHANGED <<pool, result, loopPc, mode, pair, expired, ticked, worker>>
    BY <1>8 DEF BattleEnds, DropRoom, Match!DropRoom, Match!redis, Match!loop, match
  <2> QED BY <1>2, <2>1, PlaceWhenIdle DEF worker
<1>9. ASSUME Advance PROVE Place(c, e)'
  BY <1>1, <1>2, <1>9, PlaceAdvance
<1>10. ASSUME UNCHANGED vars PROVE Place(c, e)'
  <2>1. UNCHANGED <<pool, result, loopPc, mode, pair, expired, ticked, worker>>
    BY <1>10 DEF vars, match
  <2> QED BY <1>2, <2>1, PlaceWhenIdle DEF worker
<1>11. Place(c, e)'
  BY <1>3, <1>4, <1>5, <1>6, <1>7, <1>8, <1>9, <1>10 DEF Next
<1> QED BY <1>1, <1>11

-----------------------------------------------------------------------------
\* A session that is logged in keeps its player.
LEMMA PlayersStay ==
    ASSUME PartsInv, WorkerInv, [Next]_vars, NEW c \in Conns, player[c] # NoPlayer
    PROVE  player'[c] = player[c]
<1>1. ASSUME NEW d \in Conns, Connection(d) \/ QuitRoomTo(d) \/ BroadcastLeaveMatch(d)
      PROVE  player'[c] = player[c]
  BY <1>1, ConnectionKeeps DEF PartsInv, WorkerInv
<1>2. CASE ~\E d \in Conns : Connection(d) \/ QuitRoomTo(d) \/ BroadcastLeaveMatch(d)
  <2>1. player' = player
    BY <1>2 DEF Next, MatchReq, Sessions!MatchReq, matchWorker, WorkerStart, WorkerJoin, WorkerPoll,
         WorkerStop, WorkerGiveUp, WorkerQueried, WorkerAnswer, Sessions!SendMatchRsp, Game,
         BattleEnds, DropRoom, Advance, gateway, vars
  <2> QED BY <2>1
<1> QED BY <1>1, <1>2

\* A connection has logged in as player p.
Known(p) == \E c \in Conns : player[c] = p

\* Who is in a pool, in hand or in a battle has logged in.
KnownInv ==
    /\ \A mo \in {0, 1} : \A m \in DOMAIN pool[mo] : Known(m.player)
    /\ \A g \in Games : pair[g] # Match!NoPair =>
         Known(pair[g][1].player) /\ Known(pair[g][2].player)
    /\ \A r \in made : Known(r.m1.player) /\ Known(r.m2.player)

LEMMA KnownKept ==
    ASSUME PartsInv, WorkerInv, [Next]_vars, NEW p \in Players, Known(p)
    PROVE  Known(p)'
<1>1. PICK c \in Conns : player[c] = p
  BY DEF Known
<1>2. player'[c] = p
  BY <1>1, PlayersStay, LobbyAssumption
<1> QED BY <1>2 DEF Known

\* Only JoinMatch adds to the pools, only the script of a tick takes a pair, from them,
\* and only CreateRoom makes a battle, of a pair.
LEMMA PoolsShrink ==
    ASSUME PartsInv, WorkerInv, [Next]_vars, NEW mo \in {0, 1}, NEW m \in DOMAIN pool'[mo],
           m \notin DOMAIN pool[mo]
    PROVE  \E c \in Conns : player[c] # NoPlayer /\ m.player = player[c]
<1> USE DEF Match!redis, Match!loop
<1>1. MP!TypeOK /\ ~Match!Failure /\ pool \in [{0, 1} -> MP!Zsets]
  BY NoFailure DEF PartsInv, MP!TypeOK, MP!Modes
<1>2. ASSUME NEW w \in Workers, WorkerJoin(w)
      PROVE  \E c \in Conns : player[c] # NoPlayer /\ m.player = player[c]
  <2>1. PICK d, md : d = client[w] /\ md = asked[w]
    OBVIOUS
  <2>2. wpc[w] = "join" /\ pool' = [pool EXCEPT ![md] = Match!ZAdd(@, Member(d), 0)]
    BY <1>2, <2>1 DEF WorkerJoin, Match!JoinMatch
  <2>3. m = Member(d)
    BY <1>1, <2>2 DEF Match!ZAdd
  <2>4. d \in Conns /\ player[d] \in Players
    BY <2>1, <2>2, LobbyAssumption DEF WorkerInv, ClientOK
  <2> QED BY <2>3, <2>4, LobbyAssumption DEF Member
<1>3. ASSUME DOMAIN pool'[mo] \subseteq DOMAIN pool[mo] PROVE FALSE
  BY <1>3
<1>4. ASSUME NEW c \in Conns,
             \/ Connection(c) \/ QuitRoomTo(c)
             \/ \E mp \in Asked, w \in Workers : MatchReq(c, mp, w)
      PROVE  FALSE
  BY <1>3, <1>4 DEF Connection, QuitRoomTo, MatchReq, match
<1>5. ASSUME NEW c \in Conns, BroadcastLeaveMatch(c) PROVE FALSE
  BY <1>3, <1>5 DEF BroadcastLeaveMatch, Match!ZRem
<1>6. ASSUME NEW w \in Workers, matchWorker(w), ~WorkerJoin(w) PROVE FALSE
  BY <1>3, <1>6 DEF matchWorker, WorkerStart, WorkerPoll, WorkerStop, WorkerGiveUp,
                    WorkerQueried, WorkerAnswer, Match!QueryGet, Match!QueryDel, match
<1>7. ASSUME NEW g \in Games, Game(g) PROVE FALSE
  <2>1. CASE Match!PopPair(g)
    <3>1. PICK two : pool' = [pool EXCEPT ![mode[g]] = Match!Popped(@, two)]
      BY <2>1 DEF Match!PopPair
    <3> QED BY <1>1, <1>3, <3>1 DEF Match!Popped, Match!ZRem
  <2>2. CASE Match!RemoveExpired(g)
    <3>1. PICK x : pool' = [pool EXCEPT ![mode[g]] = Match!ZRem(@, {x})]
      BY <1>1, <2>2 DEF Match!RemoveExpired
    <3> QED BY <1>1, <1>3, <3>1 DEF Match!ZRem
  <2>3. CASE ~Match!PopPair(g) /\ ~Match!RemoveExpired(g)
    <3>1. pool' = pool
      BY <1>1, <1>7, <2>3 DEF Game, Match!StartGame, Match!MatchTick, Match!Wake, Match!PopNothing,
           Match!PopFailed, Match!NextRoomId, Match!NextRoomIdFailed, Match!CreateRoom,
           Match!PublishResults, Match!PublishResult, Match!PublishRoute, Match!ScanExpired,
           Match!ScanFailed
    <3> QED BY <1>3, <3>1
  <2> QED BY <2>1, <2>2, <2>3
<1>8. ASSUME NEW g \in Games, NEW id \in rooms[g], BattleEnds(g, id) \/ DropRoom(g, id)
      PROVE  FALSE
  BY <1>3, <1>8 DEF BattleEnds, DropRoom, Match!DropRoom, match
<1>9. ASSUME Advance PROVE FALSE
  BY <1>3, <1>9 DEF Advance, Match!Advance, Match!Modes
<1>10. ASSUME UNCHANGED vars PROVE FALSE
  BY <1>3, <1>10 DEF vars, match
<1> QED BY <1>2, <1>4, <1>5, <1>6, <1>7, <1>8, <1>9, <1>10 DEF Next

LEMMA PairsPopped ==
    ASSUME PartsInv, WorkerInv, [Next]_vars, NEW g \in Games
    PROVE  \/ pair'[g] \in {pair[g], Match!NoPair}
           \/ \E mo \in {0, 1} : pair'[g] \in (DOMAIN pool[mo]) \X (DOMAIN pool[mo])
<1> USE DEF Match!redis, Match!loop
<1>1. MP!TypeOK /\ ~Match!Failure
  BY NoFailure DEF PartsInv
<1>2. ASSUME NEW h \in Games, Match!PopPair(h)
      PROVE  \/ pair'[g] = pair[g]
             \/ \E mo \in {0, 1} : pair'[g] \in (DOMAIN pool[mo]) \X (DOMAIN pool[mo])
  <2>1. PICK two \in Match!OldestTwo(pool[mode[h]]) : pair' = [pair EXCEPT ![h] = two]
    BY <1>2 DEF Match!PopPair
  <2>2. two \in (DOMAIN pool[mode[h]]) \X (DOMAIN pool[mode[h]]) /\ mode[h] \in {0, 1}
    BY <1>1 DEF Match!OldestTwo, MP!TypeOK, MP!Modes
  <2>3. pair'[g] = pair[g] \/ pair'[g] = two
    BY <1>1, <2>1 DEF MP!TypeOK
  <2> QED BY <2>2, <2>3
<1>3. ASSUME NEW h \in Games, Match!PublishRoute(h)
      PROVE  pair'[g] \in {pair[g], Match!NoPair}
  BY <1>1, <1>3 DEF Match!PublishRoute, MP!TypeOK
<1>4. CASE ~\E h \in Games : Match!PopPair(h) \/ Match!PublishRoute(h)
  <2>1. ASSUME NEW c \in Conns,
               \/ Connection(c) \/ QuitRoomTo(c) \/ BroadcastLeaveMatch(c)
               \/ \E mp \in Asked, w \in Workers : MatchReq(c, mp, w)
        PROVE  pair' = pair
    BY <2>1 DEF Connection, QuitRoomTo, BroadcastLeaveMatch, MatchReq, match
  <2>2. ASSUME NEW w \in Workers, matchWorker(w) PROVE pair' = pair
    BY <2>2 DEF matchWorker, WorkerStart, WorkerJoin, WorkerPoll, WorkerStop, WorkerGiveUp,
         WorkerQueried, WorkerAnswer, Match!JoinMatch, Match!QueryGet, Match!QueryDel, match
  <2>3. ASSUME NEW h \in Games, Game(h) PROVE pair' = pair
    BY <1>1, <1>4, <2>3 DEF Game, Match!StartGame, Match!MatchTick, Match!Wake, Match!PopNothing,
         Match!PopFailed, Match!NextRoomId, Match!NextRoomIdFailed, Match!CreateRoom,
         Match!PublishResults, Match!PublishResult, Match!ScanExpired, Match!ScanFailed,
         Match!RemoveExpired
  <2>4. ASSUME NEW h \in Games, NEW id \in rooms[h], BattleEnds(h, id) \/ DropRoom(h, id)
        PROVE  pair' = pair
    BY <2>4 DEF BattleEnds, DropRoom, Match!DropRoom, match
  <2>5. Advance => pair' = pair
    BY DEF Advance, Match!Advance
  <2>6. UNCHANGED vars => pair' = pair
    BY DEF vars, match
  <2>7. pair' = pair
    BY <2>1, <2>2, <2>3, <2>4, <2>5, <2>6 DEF Next
  <2> QED BY <2>7
<1> QED BY <1>2, <1>3, <1>4

LEMMA BattlesMade ==
    ASSUME PartsInv, WorkerInv, [Next]_vars, NEW r \in made', r \notin made
    PROVE  \E g \in Games : /\ loopPc[g] = "create" /\ loopPc' = [loopPc EXCEPT ![g] = "result1"]
                            /\ room' = room /\ r.id = room[g]
                            /\ r.m1 = pair[g][1] /\ r.m2 = pair[g][2]
<1> USE DEF Match!redis, Match!loop, Match!history
<1>1. ~Match!Failure
  BY NoFailure DEF PartsInv
<1>2. ASSUME NEW g \in Games, Match!CreateRoom(g)
      PROVE  /\ loopPc[g] = "create" /\ loopPc' = [loopPc EXCEPT ![g] = "result1"]
             /\ room' = room /\ r.id = room[g]
             /\ r.m1 = pair[g][1] /\ r.m2 = pair[g][2]
  BY <1>2 DEF Match!CreateRoom, Match!Goto
<1>3. CASE ~\E h \in Games : Match!CreateRoom(h)
  <2>1. ASSUME NEW c \in Conns,
               \/ Connection(c) \/ QuitRoomTo(c) \/ BroadcastLeaveMatch(c)
               \/ \E mp \in Asked, w \in Workers : MatchReq(c, mp, w)
        PROVE  made' = made
    BY <2>1 DEF Connection, QuitRoomTo, BroadcastLeaveMatch, MatchReq, match
  <2>2. ASSUME NEW w \in Workers, matchWorker(w) PROVE made' = made
    BY <2>2 DEF matchWorker, WorkerStart, WorkerJoin, WorkerPoll, WorkerStop, WorkerGiveUp,
         WorkerQueried, WorkerAnswer, Match!JoinMatch, Match!QueryGet, Match!QueryDel, match
  <2>3. ASSUME NEW h \in Games, Game(h) PROVE made' = made
    BY <1>1, <1>3, <2>3 DEF Game, Match!StartGame, Match!MatchTick, Match!Wake, Match!PopPair,
         Match!PopNothing, Match!PopFailed, Match!NextRoomId, Match!NextRoomIdFailed,
         Match!PublishResults, Match!PublishResult, Match!PublishRoute, Match!ScanExpired,
         Match!ScanFailed, Match!RemoveExpired
  <2>4. ASSUME NEW h \in Games, NEW id \in rooms[h], BattleEnds(h, id) \/ DropRoom(h, id)
        PROVE  made' = made
    BY <2>4 DEF BattleEnds, DropRoom, Match!DropRoom, match
  <2>5. Advance => made' = made
    BY DEF Advance, Match!Advance
  <2>6. UNCHANGED vars => made' = made
    BY DEF vars, match
  <2>7. made' = made
    BY <2>1, <2>2, <2>3, <2>4, <2>5, <2>6 DEF Next
  <2> QED BY <2>7
<1> QED BY <1>2, <1>3

\* They stay known, since a session keeps its player.
LEMMA KnownStep ==
    ASSUME PartsInv, WorkerInv, KnownInv, [Next]_vars
    PROVE  KnownInv'
<1>1. MP!TypeOK /\ pool \in [{0, 1} -> MP!Zsets]
  BY DEF PartsInv, MP!TypeOK, MP!Modes
<1>2. ASSUME NEW mo \in {0, 1}, NEW m \in DOMAIN pool[mo] PROVE m.player \in Players
  BY <1>1 DEF MP!Zsets, MP!Members
<1>3. ASSUME NEW mo \in {0, 1}, NEW m \in DOMAIN pool'[mo] PROVE Known(m.player)'
  <2>1. PICK p : p = m.player
    OBVIOUS
  <2>2. p \in Players /\ Known(p)
    <3>1. CASE m \in DOMAIN pool[mo]
      BY <1>2, <2>1, <3>1 DEF KnownInv
    <3>2. CASE m \notin DOMAIN pool[mo]
      <4>1. PICK c \in Conns : player[c] # NoPlayer /\ p = player[c]
        BY <2>1, <3>2, PoolsShrink
      <4> QED BY <4>1 DEF Known, PartsInv, SP!TypeOK
    <3> QED BY <3>1, <3>2
  <2>3. Known(p)'
    BY <2>2, KnownKept
  <2> QED BY <2>1, <2>3
<1>4. ASSUME NEW g \in Games, pair[g] # Match!NoPair
      PROVE  /\ pair[g][1].player \in Players /\ Known(pair[g][1].player)
             /\ pair[g][2].player \in Players /\ Known(pair[g][2].player)
  <2>1. pair[g] \in MP!Members \X MP!Members
    BY <1>1, <1>4 DEF MP!TypeOK, Match!NoPair, MP!NoPair
  <2> QED BY <1>4, <2>1 DEF KnownInv, MP!Members
<1>5. ASSUME NEW g \in Games, pair'[g] # Match!NoPair
      PROVE  Known(pair[g][1].player)' /\ Known(pair[g][2].player)'
  <2>1. PICK p, q : p = pair'[g][1].player /\ q = pair'[g][2].player
    OBVIOUS
  <2>2. p \in Players /\ Known(p) /\ q \in Players /\ Known(q)
    <3>1. CASE pair'[g] = pair[g]
      BY <1>4, <1>5, <2>1, <3>1
    <3>2. CASE \E mo \in {0, 1} : pair'[g] \in (DOMAIN pool[mo]) \X (DOMAIN pool[mo])
      <4>1. PICK mo \in {0, 1} : pair'[g][1] \in DOMAIN pool[mo] /\ pair'[g][2] \in DOMAIN pool[mo]
        BY <3>2
      <4> QED BY <1>2, <2>1, <4>1 DEF KnownInv
    <3> QED BY <1>5, <3>1, <3>2, PairsPopped
  <2>3. Known(p)' /\ Known(q)'
    BY <2>2, KnownKept
  <2> QED BY <2>1, <2>3 DEF Known
<1>6. ASSUME NEW r \in made' PROVE Known(r.m1.player)' /\ Known(r.m2.player)'
  <2>1. PICK p, q : p = r.m1.player /\ q = r.m2.player
    OBVIOUS
  <2>2. p \in Players /\ Known(p) /\ q \in Players /\ Known(q)
    <3>1. CASE r \in made
      BY <1>1, <2>1, <3>1 DEF KnownInv, MP!TypeOK, MP!RoomRecords, MP!Members
    <3>2. CASE r \notin made
      <4>1. PICK g \in Games : /\ loopPc[g] = "create"
                               /\ r.m1 = pair[g][1] /\ r.m2 = pair[g][2]
        BY <3>2, BattlesMade
      <4>2. pair[g] # Match!NoPair
        BY <1>1, <4>1 DEF MP!TypeOK, Match!NoPair, MP!NoPair
      <4> QED BY <1>4, <2>1, <4>1, <4>2
    <3> QED BY <3>1, <3>2
  <2>3. Known(p)' /\ Known(q)'
    BY <2>2, KnownKept
  <2> QED BY <2>1, <2>3
<1> QED BY <1>3, <1>5, <1>6 DEF KnownInv, Known, Match!NoPair

\* A patient player who has a worker is in no battle that goes on, for all his session knows.
BusyInv ==
    \A w \in Workers, c \in Conns :
        AccountOf(c) \in Patient /\ client[w] = c => roomID[c] = NoRoom \/ roomID[c] \in over

\* He asks when he is in no battle, and is told of one only by his worker, at its end.
LEMMA BusyStep ==
    ASSUME PartsInv, WorkerInv, BusyInv, [Next]_vars
    PROVE  BusyInv'
<1>a. ASSUME over \subseteq over', roomID' = roomID,
             \A w \in Workers : client'[w] \in {client[w], NoConn}
      PROVE  BusyInv'
  BY <1>a, LobbyAssumption DEF BusyInv
<1>1. ASSUME NEW d \in Conns, Connection(d) \/ QuitRoomTo(d) \/ BroadcastLeaveMatch(d)
      PROVE  BusyInv'
  <2>1. roomID' = roomID
    BY <1>1, ConnectionKeeps DEF PartsInv, WorkerInv
  <2>2. over \subseteq over' /\ client' = client
    BY <1>1 DEF Connection, QuitRoomTo, BroadcastLeaveMatch, worker
  <2> QED BY <1>a, <2>1, <2>2
<1>2. ASSUME NEW d \in Conns, NEW mo \in Asked, NEW w \in Workers, MatchReq(d, mo, w)
      PROVE  BusyInv'
  <2>1. player[d] = AccountOf(d)
    BY <1>2 DEF MatchReq, Sessions!MatchReq, WorkerInv, LoginOK
  <2>2. AccountOf(d) \in Patient => roomID[d] = NoRoom \/ roomID[d] \in over
    BY <1>2, <2>1 DEF MatchReq, MayAsk
  <2>3. client' = [client EXCEPT ![w] = d] /\ UNCHANGED <<over, roomID>>
    BY <1>2 DEF MatchReq, Sessions!MatchReq
  <2> QED BY <2>2, <2>3 DEF BusyInv, WorkerInv, ClientOK
<1>3. ASSUME NEW w \in Workers, matchWorker(w)
      PROVE  BusyInv'
  <2>1. CASE WorkerAnswer(w)
    <3>1. PICK d, id : d = client[w] /\ id = answer[w]
      OBVIOUS
    <3>2. /\ \E x : roomID' = [roomID EXCEPT ![d] = x]
          /\ client' = [client EXCEPT ![w] = NoConn] /\ over' = over /\ wpc[w] = "answer"
      BY <2>1, <3>1 DEF WorkerAnswer, Sessions!SendMatchRsp, Release
    <3>3. AccountOf(d) \in Patient => \A v \in Workers : client[v] = d => v = w
      BY <3>1, <3>2, WorkerIs
    <3>4. ASSUME NEW v \in Workers, NEW c \in Conns, AccountOf(c) \in Patient, client'[v] = c
          PROVE  client[v] = c /\ c # d
      BY <3>2, <3>3, <3>4, LobbyAssumption DEF WorkerInv, ClientOK
    <3>5. \A c \in Conns : c # d => roomID'[c] = roomID[c]
      BY <3>2 DEF PartsInv, SP!TypeOK
    <3> QED BY <3>2, <3>4, <3>5 DEF BusyInv
  <2>2. CASE WorkerGiveUp(w)
    <3>1. /\ roomID' = [roomID EXCEPT ![client[w]] = @] /\ over' = over
          /\ client' = [client EXCEPT ![w] = NoConn]
      BY <2>2 DEF WorkerGiveUp, Sessions!SendMatchRsp, Release
    <3>2. roomID' = roomID
      BY <3>1 DEF PartsInv, SP!TypeOK
    <3> QED BY <1>a, <3>1, <3>2 DEF WorkerInv, ClientOK
  <2>3. CASE WorkerStart(w) \/ WorkerStop(w)
    <3>1. UNCHANGED <<roomID, over>>
      BY <2>3 DEF WorkerStart, WorkerStop, gateway
    <3>2. client' = client \/ client' = [client EXCEPT ![w] = NoConn]
      BY <2>3 DEF WorkerStart, WorkerStop, Release
    <3> QED BY <1>a, <3>1, <3>2 DEF WorkerInv, ClientOK
  <2>4. CASE WorkerJoin(w) \/ WorkerPoll(w) \/ WorkerQueried(w)
    <3>1. UNCHANGED <<roomID, over, client>>
      BY <2>4 DEF WorkerJoin, WorkerPoll, WorkerQueried, gateway
    <3> QED BY <1>a, <3>1
  <2> QED BY <1>3, <2>1, <2>2, <2>3, <2>4 DEF matchWorker
<1>4. ASSUME NEW g \in Games, Game(g) \/ \E id \in rooms[g] : BattleEnds(g, id) \/ DropRoom(g, id)
      PROVE  BusyInv'
  <2>1. UNCHANGED <<roomID, client>> /\ over \subseteq over'
    BY <1>4 DEF Game, BattleEnds, DropRoom, gateway, worker
  <2> QED BY <1>a, <2>1
<1>5. CASE Advance \/ UNCHANGED vars
  <2>1. UNCHANGED <<roomID, client, over>>
    BY <1>5 DEF Advance, vars, gateway, worker
  <2> QED BY <1>a, <2>1
<1> QED BY <1>1, <1>2, <1>3, <1>4, <1>5 DEF Next

-----------------------------------------------------------------------------
\* The player p of connection c knows of battle id, or his worker will tell him.
Heard(c, p, id) ==
    \/ roomID[c] = id
    \/ \E g \in Games : /\ room[g] = id
                        /\ \/ loopPc[g] = "result1"
                           \/ loopPc[g] = "result2" /\ pair[g][2].player = p
    \/ result[p].room = id /\ \E w \in Workers : Polls(w, c)
    \/ \E w \in Workers : client[w] = c /\ wpc[w] = "query" /\ query[w].room = id
    \/ \E w \in Workers : client[w] = c /\ wpc[w] = "answer" /\ answer[w] = id

\* No patient player whose connection is not closed misses a battle of his that goes on.
BattleInv ==
    \A r \in made, c \in Conns, p \in Patient :
        r.id \notin over /\ socket[c] # "closed" /\ player[c] = p /\ p \in {r.m1.player, r.m2.player}
          => Heard(c, p, r.id)

\* A step that leaves what the worker of a connection and the loops have.
LEMMA HeardKept ==
    ASSUME NEW c, NEW p, NEW id, Heard(c, p, id),
           roomID[c] = id => roomID'[c] = id,
           \A g \in Games : loopPc[g] \in {"result1", "result2"} =>
              loopPc'[g] = loopPc[g] /\ room'[g] = room[g] /\ pair'[g] = pair[g],
           result[p].room = id => result'[p].room = id,
           \A w \in Workers : client[w] = c /\ wpc[w] \in {"poll", "query", "answer"} =>
              client'[w] = c /\ wpc'[w] = wpc[w] /\ query'[w] = query[w] /\ answer'[w] = answer[w]
    PROVE  Heard(c, p, id)'
<1>1. CASE roomID[c] = id
  BY <1>1 DEF Heard
<1>2. ASSUME NEW g \in Games, room[g] = id,
             \/ loopPc[g] = "result1"
             \/ loopPc[g] = "result2" /\ pair[g][2].player = p
      PROVE  Heard(c, p, id)'
  BY <1>2 DEF Heard
<1>3. ASSUME result[p].room = id, NEW w \in Workers, Polls(w, c)
      PROVE  Heard(c, p, id)'
  BY <1>3 DEF Heard, Polls
<1>4. ASSUME NEW w \in Workers, client[w] = c,
             \/ wpc[w] = "query" /\ query[w].room = id
             \/ wpc[w] = "answer" /\ answer[w] = id
      PROVE  Heard(c, p, id)'
  BY <1>4 DEF Heard
<1> QED BY <1>1, <1>2, <1>3, <1>4 DEF Heard

\* What is assumed of the connection and the battle in a step.
Listens(c, p, r) ==
    /\ r \in made /\ r.id \notin over /\ socket[c] # "closed" /\ player[c] = p
    /\ p \in Patient /\ p \in Players /\ p \in {r.m1.player, r.m2.player}
    /\ p = AccountOf(c) /\ r.id # NoRoom
    /\ Place(c, Entry(c)) /\ Heard(c, p, r.id)

\* What connections do, and requests, takes no news away.
LEMMA HeardConnection ==
    ASSUME PartsInv, WorkerInv, NEW c \in Conns, NEW p, NEW r, Listens(c, p, r),
           NEW d \in Conns, Connection(d) \/ QuitRoomTo(d) \/ BroadcastLeaveMatch(d)
    PROVE  Heard(c, p, r.id)'
<1>1. roomID' = roomID
  BY ConnectionKeeps DEF PartsInv, WorkerInv
<1>2. UNCHANGED <<worker, query, result, loopPc, room, pair>>
  BY DEF Connection, QuitRoomTo, BroadcastLeaveMatch, match
<1> QED BY <1>1, <1>2, HeardKept DEF Listens, worker

LEMMA HeardRequest ==
    ASSUME WorkerInv, NEW c \in Conns, NEW p, NEW r, Listens(c, p, r),
           NEW d \in Conns, NEW mo \in Asked, NEW w \in Workers, MatchReq(d, mo, w)
    PROVE  Heard(c, p, r.id)'
<1>1. /\ wpc[w] = "free" /\ wpc' = [wpc EXCEPT ![w] = "start"]
      /\ client' = [client EXCEPT ![w] = d]
      /\ UNCHANGED <<roomID, result, query, answer, loopPc, room, pair>>
  BY DEF MatchReq, Sessions!MatchReq, match
<1>2. \A v \in Workers : v # w => client'[v] = client[v] /\ wpc'[v] = wpc[v]
  BY <1>1 DEF WorkerInv, ClientOK
<1> QED BY <1>1, <1>2, HeardKept DEF Listens

\* A worker that ends tells its session what it has, or has nothing.
LEMMA HeardRelease ==
    ASSUME WorkerInv, NEW c \in Conns, NEW p, NEW r, Listens(c, p, r),
           NEW w \in Workers, Release(w), client[w] # c \/ wpc[w] = "start",
           roomID'[c] = roomID[c], UNCHANGED match
    PROVE  Heard(c, p, r.id)'
<1>1. \A v \in Workers : v # w => client'[v] = client[v] /\ wpc'[v] = wpc[v] /\ answer'[v] = answer[v]
  BY DEF WorkerInv, ClientOK, Release
<1>2. UNCHANGED <<result, query, loopPc, room, pair>>
  BY DEF match
<1> QED BY <1>1, <1>2, HeardKept DEF Listens

\* A poll takes the news from the result into the query, the query into the answer.
LEMMA HeardPoll ==
    ASSUME PartsInv, WorkerInv, NEW c \in Conns, NEW p, NEW r, Listens(c, p, r),
           NEW w \in Workers, WorkerPoll(w)
    PROVE  Heard(c, p, r.id)'
<1>1. /\ wpc[w] = "poll" /\ UNCHANGED <<client, answer, roomID, result, loopPc, room, pair>>
      /\ \/ /\ query' = [query EXCEPT ![w] = [player |-> player[client[w]],
                                              room |-> result[player[client[w]]].room]]
            /\ wpc' = [wpc EXCEPT ![w] = "query"]
         \/ UNCHANGED <<query, wpc>> /\ result[player[client[w]]] = Match!NoResult
  BY DEF WorkerPoll, Match!QueryGet, Match!redis, Match!loop, match, gateway
<1>2. \A v \in Workers : v # w => wpc'[v] = wpc[v] /\ query'[v] = query[v]
  BY <1>1 DEF WorkerInv, PartsInv, MP!TypeOK
<1>3. CASE UNCHANGED <<query, wpc>>
  BY <1>1, <1>3, HeardKept DEF Listens
<1>4. CASE client[w] # c
  BY <1>1, <1>2, <1>4, HeardKept DEF Listens
<1>5. CASE client[w] = c /\ ~UNCHANGED <<query, wpc>>
  <2>1. /\ query'[w].room = result[p].room /\ wpc'[w] = "query"
        /\ \A v \in Workers : client[v] = c => v = w
    <3>1. PICK s : s = result[p].room
      OBVIOUS
    <3>2. player[client[w]] = p
      BY <1>5 DEF Listens
    <3>3. query' = [query EXCEPT ![w] = [player |-> p, room |-> s]] /\ wpc' = [wpc EXCEPT ![w] = "query"]
      BY <1>1, <1>5, <3>1, <3>2
    <3>4. query'[w].room = s /\ wpc'[w] = "query"
      BY <3>3 DEF WorkerInv, PartsInv, MP!TypeOK
    <3>5. \A v \in Workers : client[v] = c => v = w
      BY <1>1, <1>5, WorkerIs DEF Listens
    <3> QED BY <3>1, <3>4, <3>5
  <2>2. CASE result[p].room = r.id
    BY <1>1, <1>5, <2>1, <2>2 DEF Heard
  <2>3. CASE result[p].room # r.id
    BY <1>1, <2>1, <2>3 DEF Listens, Heard
  <2> QED BY <2>2, <2>3
<1> QED BY <1>1, <1>3, <1>4, <1>5

LEMMA HeardQueried ==
    ASSUME OneDevice, PartsInv, WorkerInv, NEW c \in Conns, NEW p, NEW r, Listens(c, p, r),
           NEW w \in Workers, WorkerQueried(w)
    PROVE  Heard(c, p, r.id)'
<1>1. PICK q, id : q = query[w].player /\ id = query[w].room
  OBVIOUS
<1>2. /\ wpc[w] = "query" /\ wpc' = [wpc EXCEPT ![w] = "answer"]
      /\ answer' = [answer EXCEPT ![w] = id]
      /\ result' = [result EXCEPT ![q] = Match!NoResult]
      /\ query' = [query EXCEPT ![w] = Match!NoQuery]
      /\ UNCHANGED <<client, roomID, loopPc, room, pair>>
  BY <1>1, NoFailure DEF WorkerQueried, Match!QueryDel, Match!loop, gateway, PartsInv
<1>3. /\ client[w] \in Conns /\ q = AccountOf(client[w])
      /\ AccountOf(client[w]) \in Patient => \A v \in Workers : client[v] = client[w] => v = w
  BY <1>1, <1>2, WorkerIs DEF WorkerInv
<1>4. \A v \in Workers : v # w => wpc'[v] = wpc[v] /\ query'[v] = query[v] /\ answer'[v] = answer[v]
  BY <1>2 DEF WorkerInv, PartsInv, MP!TypeOK
<1>5. CASE client[w] # c
  <2>1. q # p
    BY <1>3, <1>5 DEF OneDevice, Listens
  <2>2. result'[p] = result[p]
    BY <1>2, <2>1 DEF PartsInv, MP!TypeOK, Listens
  <2> QED BY <1>2, <1>4, <1>5, <2>2, HeardKept DEF Listens
<1>6. CASE client[w] = c
  <2>1. \A v \in Workers : client[v] = c => v = w
    BY <1>3, <1>6 DEF Listens
  <2>2. wpc'[w] = "answer" /\ answer'[w] = id
    BY <1>2 DEF WorkerInv
  <2>3. CASE id = r.id
    BY <1>2, <1>6, <2>2, <2>3 DEF Heard
  <2>4. CASE id # r.id
    <3>1. \/ roomID[c] = r.id
          \/ \E g \in Games : /\ room[g] = r.id
                              /\ \/ loopPc[g] = "result1"
                                 \/ loopPc[g] = "result2" /\ pair[g][2].player = p
      BY <1>1, <1>2, <2>1, <2>4 DEF Listens, Heard, Polls
    <3> QED BY <1>2, <3>1 DEF Heard
  <2> QED BY <2>3, <2>4
<1> QED BY <1>5, <1>6

\* A worker answers in no battle that the session knows of and that goes on.
LEMMA HeardAnswer ==
    ASSUME PartsInv, WorkerInv, BusyInv, NEW c \in Conns, NEW p, NEW r, Listens(c, p, r),
           NEW w \in Workers, WorkerAnswer(w)
    PROVE  Heard(c, p, r.id)'
<1>1. PICK d, id : d = client[w] /\ id = answer[w]
  OBVIOUS
<1>2. wpc[w] = "answer" /\ id # NoRoom /\ Release(w) /\ UNCHANGED match
  BY <1>1 DEF WorkerAnswer, WorkerInv
<1>3. roomID' = [roomID EXCEPT ![d] = id]
  BY <1>1, <1>2 DEF WorkerAnswer, Sessions!SendMatchRsp
<1>4. d \in Conns /\ (AccountOf(d) \in Patient => \A v \in Workers : client[v] = d => v = w)
  BY <1>1, <1>2, WorkerIs
<1>5. \A e \in Conns : roomID'[e] = IF e = d THEN id ELSE roomID[e]
  BY <1>3 DEF PartsInv, SP!TypeOK
<1>6. CASE c # d
  BY <1>1, <1>2, <1>5, <1>6, HeardRelease
<1>7. CASE c = d
  <2>1. roomID[c] # r.id
    BY <1>1, <1>7 DEF BusyInv, Listens
  <2>2. CASE id = r.id
    BY <1>5, <1>7, <2>2 DEF Heard
  <2>3. CASE id # r.id
    <3>1. \E g \in Games : /\ room[g] = r.id
                           /\ \/ loopPc[g] = "result1"
                              \/ loopPc[g] = "result2" /\ pair[g][2].player = p
      BY <1>1, <1>2, <1>4, <1>7, <2>1, <2>3 DEF Listens, Heard, Polls
    <3> QED BY <1>2, <3>1 DEF Heard, match
  <2> QED BY <2>2, <2>3
<1> QED BY <1>6, <1>7

\* A worker gives up only when there is no news.
LEMMA HeardGiveUp ==
    ASSUME PartsInv, WorkerInv, NEW c \in Conns, NEW p, NEW r, Listens(c, p, r),
           NEW w \in Workers, WorkerGiveUp(w)
    PROVE  Heard(c, p, r.id)'
<1>1. /\ wpc[w] = "poll" /\ Release(w) /\ UNCHANGED match
      /\ waited[w] >= matchPollTimes(MatchTimeout)
      /\ roomID' = [roomID EXCEPT ![client[w]] = @]
  BY DEF WorkerGiveUp, Sessions!SendMatchRsp
<1>2. roomID' = roomID
  BY <1>1 DEF PartsInv, SP!TypeOK
<1>3. CASE client[w] # c
  BY <1>1, <1>2, <1>3, HeardRelease
<1>4. CASE client[w] = c
  <2>1. result[p] = Match!NoResult
    <3>1. PICK e : e = Entry(c)
      OBVIOUS
    <3>2. e.player = p
      BY <3>1 DEF Entry, Listens
    <3>3. Polls(w, c) /\ Place(c, e)
      BY <1>1, <1>4, <3>1 DEF Polls, Listens
    <3> QED BY <1>1, <3>2, <3>3, GivesUpNowhere DEF Listens
  <2>2. \A v \in Workers : client[v] = c => v = w
    BY <1>1, <1>4, WorkerIs DEF Listens
  <2>3. \/ roomID[c] = r.id
        \/ \E g \in Games : /\ room[g] = r.id
                            /\ \/ loopPc[g] = "result1"
                               \/ loopPc[g] = "result2" /\ pair[g][2].player = p
    BY <1>1, <2>1, <2>2 DEF Listens, Heard, Match!NoResult
  <2> QED BY <1>1, <1>2, <2>3 DEF Heard, match
<1> QED BY <1>3, <1>4

\* Every step of a worker.
LEMMA HeardWorker ==
    ASSUME OneDevice, PartsInv, WorkerInv, DeviceInv, BusyInv,
           NEW c \in Conns, NEW p, NEW r, Listens(c, p, r), NEW w \in Workers, matchWorker(w)
    PROVE  Heard(c, p, r.id)'
<1>1. CASE WorkerStart(w)
  <2>1. UNCHANGED match /\ roomID' = roomID /\ wpc[w] = "start"
    BY <1>1 DEF WorkerStart, gateway
  <2>2. CASE Release(w)
    BY <2>1, <2>2, HeardRelease
  <2>3. CASE wpc' = [wpc EXCEPT ![w] = "join"] /\ UNCHANGED <<client, answer>>
    <3>1. \A v \in Workers : v # w => wpc'[v] = wpc[v]
      BY <2>3 DEF WorkerInv
    <3> QED BY <2>1, <2>3, <3>1, HeardKept DEF Listens, match
  <2> QED BY <1>1, <2>2, <2>3 DEF WorkerStart
<1>2. CASE WorkerJoin(w)
  <2>1. /\ wpc[w] = "join" /\ wpc' = [wpc EXCEPT ![w] = "poll"]
        /\ UNCHANGED <<client, answer, query, roomID, result, loopPc, room, pair>>
    BY <1>2 DEF WorkerJoin, Match!JoinMatch, Match!loop, gateway
  <2>2. \A v \in Workers : v # w => wpc'[v] = wpc[v]
    BY <2>1 DEF WorkerInv
  <2> QED BY <2>1, <2>2, HeardKept DEF Listens
<1>3. CASE WorkerStop(w)
  <2>1. UNCHANGED match /\ roomID' = roomID /\ wpc[w] = "poll" /\ ~Alive(w) /\ Release(w)
    BY <1>3 DEF WorkerStop, gateway
  <2>2. client[w] # c
    BY <2>1, OpenIsAlive DEF PartsInv, WorkerInv, Listens
  <2> QED BY <2>1, <2>2, HeardRelease
<1> QED BY <1>1, <1>2, <1>3, HeardPoll, HeardGiveUp, HeardQueried, HeardAnswer DEF matchWorker

\* What is published goes to the two who play, and nothing is written over.
LEMMA HeardPublished ==
    ASSUME PartsInv, WorkerInv, NEW c \in Conns, NEW p, NEW r, Listens(c, p, r),
           NEW g \in Games, Match!PublishResults(g), UNCHANGED <<gateway, worker>>
    PROVE  Heard(c, p, r.id)'
<1>1. MP!TypeOK /\ ~Match!Failure
  BY NoFailure DEF PartsInv
<1>2. PICK m, from, to :
        /\ \/ from = "result1" /\ to = "result2" /\ m = pair[g][1]
           \/ from = "result2" /\ to = "route" /\ m = pair[g][2]
        /\ loopPc[g] = from /\ loopPc' = [loopPc EXCEPT ![g] = to]
        /\ result' = [result EXCEPT ![m.player] = [room |-> room[g], left |-> ResultTtl]]
        /\ UNCHANGED <<pair, room, query>>
  BY <1>1 DEF Match!PublishResults, Match!PublishResult, Match!Answered, Match!Goto
<1>3. /\ pair[g] \in MP!Members \X MP!Members /\ m \in MP!Members /\ m.player \in Players
  BY <1>1, <1>2 DEF MP!TypeOK, MP!NoPair, MP!Members
<1>4. UNCHANGED <<roomID, client, wpc, answer>>
  BY DEF gateway, worker
<1>5. \A h \in Games : h # g => loopPc'[h] = loopPc[h]
  BY <1>1, <1>2 DEF MP!TypeOK
<1>6. loopPc'[g] = to
  BY <1>1, <1>2 DEF MP!TypeOK
<1>7. PICK e : e = Entry(c)
  OBVIOUS
<1>8. e.player = p /\ Place(c, e)
  BY <1>7 DEF Entry, Listens
<1>9. m.player = p => InHand(g, e)
  <2>1. m.player = AccountOf(c) => m = e
    BY <1>3, <1>7, EntryOf
  <2>2. m = e => InHand(g, e)
    BY <1>2 DEF InHand
  <2> QED BY <2>1, <2>2 DEF Listens
<1>10. result[p].room = r.id => result'[p].room = r.id
  <2>1. ASSUME result[p].room = r.id PROVE m.player # p
    <3>1. result[p] # Match!NoResult
      BY <2>1 DEF Listens, Match!NoResult
    <3> QED BY <1>8, <1>9, <3>1 DEF Place, HandOK
  <2> QED BY <1>1, <1>2, <1>3, <2>1 DEF MP!TypeOK, Listens
<1>11. m.player = p => \E w \in Workers : Polls(w, c)'
  BY <1>4, <1>8, <1>9 DEF Place, HandOK, Polls
<1>12. m.player = p => result'[p].room = room[g]
  BY <1>1, <1>2, <1>3 DEF MP!TypeOK
<1>13. ASSUME NEW h \in Games, room[h] = r.id,
              \/ loopPc[h] = "result1"
              \/ loopPc[h] = "result2" /\ pair[h][2].player = p
       PROVE  Heard(c, p, r.id)'
  <2>1. CASE h # g
    BY <1>2, <1>5, <1>13, <2>1 DEF Heard
  <2>2. CASE h = g /\ m.player = p
    BY <1>11, <1>12, <1>13, <2>2 DEF Heard
  <2>3. CASE h = g /\ m.player # p
    <3>1. from = "result1" /\ to = "result2" /\ m = pair[g][1]
      BY <1>2, <1>13, <2>3
    <3>2. PICK s \in made : s.id = room[g] /\ s.m1 = pair[g][1] /\ s.m2 = pair[g][2]
      BY <1>2, <3>1 DEF PartsInv, MP!NameInv
    <3>3. s = r
      BY <1>13, <2>3, <3>2 DEF PartsInv, MP!RoomIdInv, MP!RoomIdsDistinct, Listens
    <3>4. pair[g][2].player = p
      BY <2>3, <3>1, <3>2, <3>3 DEF Listens
    <3> QED BY <1>2, <1>6, <1>13, <2>3, <3>1, <3>4 DEF Heard
  <2> QED BY <2>1, <2>2, <2>3
<1>14. CASE roomID[c] = r.id \/ (result[p].room = r.id /\ \E w \in Workers : Polls(w, c))
  BY <1>4, <1>10, <1>14 DEF Heard, Polls
<1>15. CASE \E w \in Workers : /\ client[w] = c
                               /\ \/ wpc[w] = "query" /\ query[w].room = r.id
                                  \/ wpc[w] = "answer" /\ answer[w] = r.id
  BY <1>2, <1>4, <1>15 DEF Heard
<1> QED BY <1>13, <1>14, <1>15 DEF Listens, Heard

\* Every step of an instance; those that publish nothing leave the news as it is.
LEMMA HeardGame ==
    ASSUME PartsInv, WorkerInv, NEW c \in Conns, NEW p, NEW r, Listens(c, p, r),
           NEW g \in Games, Game(g)
    PROVE  Heard(c, p, r.id)'
<1>1. MP!TypeOK /\ ~Match!Failure /\ UNCHANGED <<gateway, worker>>
  BY NoFailure DEF PartsInv, Game
<1>2. CASE Match!PublishResults(g)
  BY <1>1, <1>2, HeardPublished
<1>3. CASE ~Match!PublishResults(g)
  <2>1. /\ UNCHANGED <<result, query>> /\ loopPc[g] \notin {"result1", "result2"}
        /\ \E l : loopPc' = [loopPc EXCEPT ![g] = l]
        /\ room' = room \/ \E i : room' = [room EXCEPT ![g] = i]
        /\ pair' = pair \/ \E i : pair' = [pair EXCEPT ![g] = i]
    BY <1>1, <1>3 DEF Game, Match!StartGame, Match!MatchTick, Match!Wake, Match!PopPair,
         Match!PopNothing, Match!PopFailed, Match!NextRoomId, Match!NextRoomIdFailed,
         Match!CreateRoom, Match!PublishRoute, Match!ScanExpired, Match!ScanFailed,
         Match!RemoveExpired, Match!EndTick, Match!Goto, Match!redis
  <2>2. \A h \in Games : h # g => loopPc'[h] = loopPc[h] /\ room'[h] = room[h] /\ pair'[h] = pair[h]
    BY <1>1, <2>1 DEF MP!TypeOK
  <2> QED BY <1>1, <2>1, <2>2, HeardKept DEF Listens, gateway, worker
<1> QED BY <1>2, <1>3

\* A result that waits for a poll outlives the period.
LEMMA HeardAdvance ==
    ASSUME PartsInv, WorkerInv, NEW c \in Conns, NEW p, NEW r, Listens(c, p, r), Advance
    PROVE  Heard(c, p, r.id)'
<1>1. /\ \A g \in Games : loopPc[g] = "idle"
      /\ \A w \in Workers : wpc[w] = "free" \/ (wpc[w] = "poll" /\ polled[w])
      /\ UNCHANGED <<roomID, wpc, client>>
  BY DEF Advance, gateway
<1>2. result' = [q \in Players |-> IF result[q].left > 1
                                     THEN [result[q] EXCEPT !.left = @ - 1] ELSE Match!NoResult]
  BY DEF Advance, Match!Advance
<1>3. CASE roomID[c] = r.id
  BY <1>1, <1>3 DEF Heard
<1>4. CASE roomID[c] # r.id
  <2>1. result[p].room = r.id /\ \E w \in Workers : Polls(w, c)
    BY <1>1, <1>4 DEF Listens, Heard
  <2>2. PICK w \in Workers : Polls(w, c) /\ polled[w] /\ \A v \in Workers : client[v] = c => v = w
    <3>1. PICK w \in Workers : Polls(w, c)
      BY <2>1
    <3>2. wpc[w] # "free" /\ client[w] = c /\ polled[w]
      BY <1>1, <3>1 DEF Polls
    <3> QED BY <3>1, <3>2, WorkerIs DEF Listens
  <2>3. result[p].left >= 2
    <3>1. PICK e : e = Entry(c)
      OBVIOUS
    <3>2. e.player = p /\ Place(c, e)
      BY <3>1 DEF Entry, Listens
    <3>3. result[p] # Match!NoResult
      BY <2>1 DEF Listens, Match!NoResult
    <3> QED BY <1>1, <2>2, <3>2, <3>3 DEF Place, ResultOK, Polls
  <2>4. p \in Players /\ result[p] \in [room : Nat, left : 0..ResultTtl]
    BY DEF Listens, PartsInv, MP!TypeOK
  <2>5. result'[p].room = r.id
    BY <1>2, <2>1, <2>3, <2>4
  <2> QED BY <1>1, <2>2, <2>5 DEF Heard, Polls
<1> QED BY <1>3, <1>4

\* A battle is made before its results are published, and is heard of from then on.
LEMMA BattleStep ==
    ASSUME OneDevice, PartsInv, WorkerInv, DeviceInv, PlaceInv, KnownInv, BusyInv, BattleInv, RoomsInv,
           [Next]_vars
    PROVE  BattleInv'
<1> SUFFICES ASSUME NEW r \in made', NEW c \in Conns, NEW p \in Patient,
                    r.id \notin over', socket'[c] # "closed", player'[c] = p,
                    p \in {r.m1.player, r.m2.player}
             PROVE  Heard(c, p, r.id)'
  BY DEF BattleInv
<1>p. p \in Players
  BY LobbyAssumption
<1>1. CASE r \notin made
  <2>1. PICK g \in Games : /\ loopPc[g] = "create" /\ loopPc' = [loopPc EXCEPT ![g] = "result1"]
                           /\ room' = room /\ r.id = room[g]
    BY <1>1, BattlesMade
  <2>2. loopPc'[g] = "result1"
    BY <2>1 DEF PartsInv, MP!TypeOK
  <2> QED BY <2>1, <2>2 DEF Heard
<1>2. CASE r \in made
  <2>1. over \subseteq over'
    BY DEF Next, Connection, QuitRoomTo, BroadcastLeaveMatch, MatchReq, matchWorker, WorkerStart,
         WorkerJoin, WorkerPoll, WorkerStop, WorkerGiveUp, WorkerQueried, WorkerAnswer, Game,
         BattleEnds, DropRoom, Advance, vars
  <2>2. player[c] = p /\ p = AccountOf(c)
    <3>1. PICK d \in Conns : player[d] = p
      BY <1>2 DEF KnownInv, Known
    <3>2. p = AccountOf(d) /\ player'[d] = p /\ p # NoPlayer
      BY <1>p, <3>1, PlayersStay, LobbyAssumption DEF WorkerInv, LoginOK
    <3>3. p = AccountOf(c)
      <4>1. LoginOK'
        BY WorkerStep DEF WorkerInv
      <4>2. player'[c] \in {NoPlayer, AccountOf(c)}
        BY <4>1 DEF LoginOK
      <4> QED BY <3>2, <4>2
    <3>4. c = d
      BY <3>2, <3>3 DEF OneDevice
    <3> QED BY <3>1, <3>3, <3>4
  <2>3. socket[c] # "closed"
    BY ClosedForGood DEF PartsInv
  <2>4. Listens(c, p, r)
    BY <1>p, <1>2, <2>1, <2>2, <2>3 DEF Listens, PartsInv, PlaceInv, BattleInv
  <2>5. ASSUME NEW d \in Conns, Connection(d) \/ QuitRoomTo(d) \/ BroadcastLeaveMatch(d)
        PROVE  Heard(c, p, r.id)'
    BY <2>4, <2>5, HeardConnection
  <2>6. ASSUME NEW d \in Conns, NEW mo \in Asked, NEW w \in Workers, MatchReq(d, mo, w)
        PROVE  Heard(c, p, r.id)'
    BY <2>4, <2>6, HeardRequest
  <2>7. ASSUME NEW w \in Workers, matchWorker(w) PROVE Heard(c, p, r.id)'
    BY <2>4, <2>7, HeardWorker
  <2>8. ASSUME NEW g \in Games, Game(g) PROVE Heard(c, p, r.id)'
    BY <2>4, <2>8, HeardGame
  <2>9. ASSUME UNCHANGED <<roomID, loopPc, room, pair, result, worker, query>>
        PROVE  Heard(c, p, r.id)'
    BY <2>4, <2>9, HeardKept DEF Listens, worker
  <2>10. ASSUME NEW g \in Games, NEW id \in rooms[g], BattleEnds(g, id) \/ DropRoom(g, id)
         PROVE  Heard(c, p, r.id)'
    BY <2>9, <2>10 DEF BattleEnds, DropRoom, Match!DropRoom, Match!redis, Match!loop, match, gateway
  <2>11. ASSUME UNCHANGED vars PROVE Heard(c, p, r.id)'
    BY <2>9, <2>11 DEF vars, match, gateway
  <2> QED BY <2>4, <2>5, <2>6, <2>7, <2>8, <2>10, <2>11, HeardAdvance DEF Next
<1> QED BY <1>1, <1>2

-----------------------------------------------------------------------------
\* All of it, with one device for each player.
DevicesInv == LobbyInv /\ DeviceInv /\ TickInv /\ PlaceInv /\ KnownInv /\ BusyInv /\ BattleInv

\* The invariant holds before the first connection, and every step keeps it.
LEMMA DevicesInit == Init => DevicesInv
<1> SUFFICES ASSUME Init PROVE DevicesInv
  OBVIOUS
<1>1. /\ made = {} /\ pool = [mo \in {0, 1} |-> [m \in {} |-> 0]]
      /\ result = [p \in Players |-> Match!NoResult]
      /\ pair = [g \in Games |-> Match!NoPair] /\ mode = [g \in Games |-> 0]
      /\ loopPc = [g \in Games |-> "down"]
      /\ client = [w \in Workers |-> NoConn]
      /\ gwPc = [c \in Conns |-> "read"] /\ sessions = [p \in Players |-> NoConn]
      /\ roomID = [c \in Conns |-> NoRoom]
  BY DEF Init, Sessions!Init, Match!Init, Match!Modes
<1>2. DeviceInv /\ TickInv /\ KnownInv /\ BusyInv /\ BattleInv
  BY <1>1 DEF DeviceInv, TickInv, KnownInv, BusyInv, BattleInv
<1>3. ASSUME NEW c \in Conns PROVE Place(c, Entry(c))
  <2>1. Entry(c).player \in Players
    BY LobbyAssumption DEF Entry
  <2>2. /\ \A mo \in {0, 1} : DOMAIN pool[mo] = {}
        /\ \A g \in Games : ~InHand(g, Entry(c))
        /\ result[Entry(c).player] = Match!NoResult
    BY <1>1, <2>1 DEF InHand
  <2> QED BY <2>2 DEF Place, WaitsOK, HandOK, ResultOK
<1> QED BY <1>2, <1>3, LobbyInit DEF DevicesInv, PlaceInv

LEMMA DevicesStep ==
    ASSUME OneDevice, DevicesInv, [Next]_vars
    PROVE  DevicesInv'
<1>1. PartsInv /\ WorkerInv /\ RoomsInv /\ SP!TypeOK /\ LoginOK
  BY DEF DevicesInv, LobbyInv, PartsInv, WorkerInv
<1>2. LobbyInv'
  BY LobbyStep DEF DevicesInv
<1>3. DeviceInv' /\ TickInv' /\ PlaceInv'
  BY <1>1, DeviceStep, TickStep, PlaceStep DEF DevicesInv
<1>4. KnownInv' /\ BusyInv' /\ BattleInv'
  BY <1>1, KnownStep, BusyStep, BattleStep DEF DevicesInv
<1> QED BY <1>2, <1>3, <1>4 DEF DevicesInv

\* With one device for each player the places and the news are always in order.
LEMMA OneDeviceAgrees ==
    ASSUME OneDevice
    PROVE  Spec => []DevicesInv
<1>1. DevicesInv /\ [Next]_vars => DevicesInv'
  BY DevicesStep
<1> QED BY <1>1, DevicesInit, PTL DEF Spec

\* A request leaves nothing behind: when nobody is at work for a patient player who is still
\* here, he is in no pool and no result waits for him, whatever the polls, the ticks and the other
\* players did, patient or not (matchWorker's polls against MatchTick's clean-up).
THEOREM RequestsLeaveNothing ==
    ASSUME \A c, d \in Conns : AccountOf(c) = AccountOf(d) => c = d
    PROVE  Spec => []NothingLeftBehind
<1>1. OneDevice
  BY DEF OneDevice
<1>2. DevicesInv => NothingLeftBehind
  <2> SUFFICES ASSUME DevicesInv, NEW c \in Conns,
                      player[c] \in Patient, socket[c] = "open", Idle(c)
               PROVE  /\ result[player[c]] = Match!NoResult
                      /\ \A mo \in {0, 1} : Member(c) \notin DOMAIN pool[mo]
    BY DEF NothingLeftBehind
  <2>1. PICK e : e = Entry(c)
    OBVIOUS
  <2>2. e = Member(c) /\ e.player = player[c] /\ AccountOf(c) = player[c]
    BY <2>1, EntryIs, LobbyAssumption DEF DevicesInv, LobbyInv, WorkerInv, Member
  <2>3. Place(c, e)
    BY <2>1, <2>2 DEF DevicesInv, PlaceInv
  <2>4. \A w \in Workers : client[w] = c => wpc[w] \notin {"poll", "query"}
    BY DEF Idle
  <2> QED BY <2>2, <2>3, <2>4, PlaceNone
<1> QED BY <1>1, <1>2, OneDeviceAgrees, PTL

\* A battle that goes on has its patient players, whoever the others are and whatever they ask:
\* each is in it or about to be told of it, unless his connection has ended (MatchTick,
\* QueryMatchResult and the polls of matchWorker).
THEOREM NobodyMisses ==
    ASSUME \A c, d \in Conns : AccountOf(c) = AccountOf(d) => c = d
    PROVE  Spec => []NobodyMissesHisBattle
<1>1. OneDevice
  BY DEF OneDevice
<1>2. DevicesInv => NobodyMissesHisBattle
  <2> SUFFICES ASSUME DevicesInv, NEW r \in made, r.id \notin over, NEW p \in Match!Of(r) \cap Patient,
                      ~\E c \in Conns : player[c] = p /\ socket[c] = "closed"
               PROVE  Knows(p, r.id) \/ WillKnow(p, r.id)
    BY DEF NobodyMissesHisBattle
  <2>1. PartsInv /\ WorkerInv /\ ClientOK /\ DeviceInv /\ SP!TypeOK /\ SP!SessionInv
    BY DEF DevicesInv, LobbyInv, PartsInv, WorkerInv
  <2>2. p \in Players /\ p # NoPlayer /\ p \in {r.m1.player, r.m2.player}
    BY <2>1, Belongs, LobbyAssumption DEF PartsInv, Match!Of
  <2>3. PICK c \in Conns : player[c] = p
    BY <2>2 DEF DevicesInv, KnownInv, Known
  <2>4. socket[c] = "open"
    BY <2>1, <2>2, <2>3 DEF SP!TypeOK, SP!SessionInv
  <2>5. Heard(c, p, r.id)
    BY <2>2, <2>3, <2>4 DEF DevicesInv, BattleInv
  <2>6. CASE roomID[c] = r.id
    <3>1. sessions[p] = c
      BY <2>1, <2>2, <2>3, <2>4 DEF SP!SessionInv, DeviceInv
    <3> QED BY <2>6, <3>1, LobbyAssumption DEF Knows
  <2>7. CASE \E g \in Games : /\ room[g] = r.id
                              /\ \/ loopPc[g] = "result1"
                                 \/ loopPc[g] = "result2" /\ pair[g][2].player = p
    BY <2>7 DEF WillKnow
  <2>8. ASSUME result[p].room = r.id, NEW w \in Workers, Polls(w, c)
        PROVE  WillKnow(p, r.id)
    <3>1. wpc[w] = "poll" /\ client[w] = c
      BY <2>8 DEF Polls
    <3>2. Alive(w)
      BY <2>1, <2>4, <3>1, OpenIsAlive
    <3> QED BY <2>3, <2>8, <3>1, <3>2 DEF WillKnow
  <2>9. ASSUME NEW w \in Workers, client[w] = c, wpc[w] = "query", query[w].room = r.id
        PROVE  WillKnow(p, r.id)
    BY <2>1, <2>3, <2>9 DEF WorkerInv, WillKnow
  <2>10. ASSUME NEW w \in Workers, client[w] = c, wpc[w] = "answer", answer[w] = r.id
         PROVE  WillKnow(p, r.id)
    BY <2>3, <2>10 DEF WillKnow
  <2> QED BY <2>5, <2>6, <2>7, <2>8, <2>9, <2>10 DEF Heard
<1> QED BY <1>1, <1>2, OneDeviceAgrees, PTL

-----------------------------------------------------------------------------
\* From here on: what Lobby does to the requests is what Matchmaking allows.

\* A patient player is gone when his one connection is closed.
LEMMA GoneIs ==
    ASSUME OneDevice, LoginOK, NEW c \in Conns, NEW p \in Players, player[c] = p
    PROVE  /\ IsGone(p) <=> p \notin Patient \/ socket[c] = "closed"
           /\ p = AccountOf(c)
           /\ \A d \in Conns : player[d] = p => d = c
<1>1. p # NoPlayer
  BY LobbyAssumption
<1>2. p = AccountOf(c) /\ \A d \in Conns : player[d] = p => d = c
  BY <1>1 DEF LoginOK, OneDevice
<1> QED BY <1>2 DEF IsGone

\* A step after which Matchmaking sees of player p what it saw before.
Alike(p) ==
    /\ IsGone(p)' <=> IsGone(p)
    /\ ~IsGone(p) => /\ Asks(p)' <=> Asks(p)
                     /\ NewsOf(p)' = NewsOf(p) /\ ToldOf(p)' = ToldOf(p)

\* What is to be shown of a step, for each step of Matchmaking.
LEMMA Stutters ==
    ASSUME \A p \in Players : Alike(p), UNCHANGED <<made, over>>
    PROVE  UNCHANGED Promise!vars
BY DEF Promise!vars, Alike

LEMMA Leaves ==
    ASSUME NEW p \in Players, ~IsGone(p), IsGone(p)', \A q \in Players \ {p} : Alike(q),
           UNCHANGED <<made, over>>
    PROVE  Promise!Leave(p)
BY DEF Promise!Leave, Alike

LEMMA Requests ==
    ASSUME NEW p \in Players, \A q \in Players \ {p} : Alike(q), UNCHANGED <<made, over>>,
           ~IsGone(p), ~IsGone(p)', ~Asks(p), Asks(p)',
           NewsOf(p)' = NewsOf(p), ToldOf(p)' = ToldOf(p),
           \A r \in made : p \in Match!Of(r) => r.id \in over
    PROVE  Promise!Ask(p)
BY DEF Promise!Ask, Promise!Free, Alike

LEMMA Refuses ==
    ASSUME NEW p \in Players, \A q \in Players \ {p} : Alike(q), UNCHANGED <<made, over>>,
           ~IsGone(p), ~IsGone(p)', Asks(p), ~Asks(p)',
           NewsOf(p) = {}, NewsOf(p)' = {}, ToldOf(p)' = ToldOf(p)
    PROVE  Promise!Refuse(p)
BY DEF Promise!Refuse, Alike

LEMMA Tells ==
    ASSUME NEW p \in Players, \A q \in Players \ {p} : Alike(q), UNCHANGED <<made, over>>,
           ~IsGone(p), ~IsGone(p)', Asks(p), ~Asks(p)', NewsOf(p)' = {}, ToldOf(p)' \in NewsOf(p)
    PROVE  Promise!Tell(p)
BY DEF Promise!Tell, Alike

LEMMA Ends ==
    ASSUME \A p \in Players : Alike(p), made' = made, NEW r \in made, over' = over \cup {r.id}
    PROVE  Promise!Next
BY DEF Promise!Next, Promise!End, Alike

LEMMA Pairs ==
    ASSUME NEW p \in Players, NEW q \in Players, p # q, \A x \in Players \ {p, q} : Alike(x),
           NEW r, made' = made \cup {r}, Match!Of(r) = {p, q}, over' = over,
           \A s \in made : s.id # r.id,
           \A x \in {p, q} : /\ IsGone(x)' <=> IsGone(x)
                             /\ ~IsGone(x) => /\ Asks(x) /\ Asks(x)' /\ NewsOf(x) = {}
                                              /\ NewsOf(x)' = {r.id} /\ ToldOf(x)' = ToldOf(x)
                                              /\ \A s \in made : x \in Match!Of(s) => s.id \in over
    PROVE  Promise!Next
<1> DEFINE B == {[id |-> s.id, players |-> Match!Of(s)] : s \in made}
           b == [id |-> r.id, players |-> {p, q}]
<1>1. B' = B \cup {b} /\ b \notin B
  OBVIOUS
<1>2. \A x \in Players : IsGone(x)' <=> IsGone(x)
  BY DEF Alike
<1>3. {x \in Players : Asks(x) /\ ~IsGone(x)}' = {x \in Players : Asks(x) /\ ~IsGone(x)}
  BY <1>2 DEF Alike
<1>4. \A x \in Players : IsGone(x) \/ ToldOf(x)' = ToldOf(x)
  BY DEF Alike
<1>5. \A x \in Players \ {p, q} : IsGone(x) \/ NewsOf(x)' = NewsOf(x)
  BY DEF Alike
<1>6. \A x \in {p, q} \ {y \in Players : IsGone(y)} : Promise!Free(x)
  BY DEF Promise!Free
<1>7. Promise!Pair(p, q, r.id)
  <2>1. {p, q} \subseteq {x \in Players : Asks(x) /\ ~IsGone(x)} \cup {x \in Players : IsGone(x)}
    OBVIOUS
  <2>2. \A x \in {p, q} \ {y \in Players : IsGone(y)} :
          [y \in Players |-> IF IsGone(y) THEN {} ELSE NewsOf(y)][x] = {}
    OBVIOUS
  <2>3. \A s \in B : s.id # r.id
    OBVIOUS
  <2>4. [y \in Players |-> IF IsGone(y) THEN {} ELSE NewsOf(y)]'
          = [x \in Players |-> IF x \in {p, q} \ {y \in Players : IsGone(y)} THEN {r.id}
                               ELSE [y \in Players |-> IF IsGone(y) THEN {} ELSE NewsOf(y)][x]]
    BY <1>2, <1>5
  <2>5. [y \in Players |-> IF IsGone(y) THEN NoRoom ELSE ToldOf(y)]'
          = [y \in Players |-> IF IsGone(y) THEN NoRoom ELSE ToldOf(y)]
    BY <1>2, <1>4
  <2>6. {x \in Players : IsGone(x)}' = {x \in Players : IsGone(x)}
    BY <1>2
  <2> HIDE DEF B, b
  <2>7. B' = B \cup {[id |-> r.id, players |-> {p, q}]}
    BY <1>1 DEF b
  <2> QED BY <1>3, <1>6, <2>1, <2>2, <2>3, <2>4, <2>5, <2>6, <2>7 DEF Promise!Pair, B
<1>8. b \in B' \ B /\ b.id = r.id
  BY <1>1
<1> QED BY <1>7, <1>8 DEF Promise!Next

-----------------------------------------------------------------------------
\* What waits for a patient player whose result is being read is what is read, or nothing any more.
ReadInv ==
    \A w \in Workers :
        wpc[w] = "query" /\ AccountOf(client[w]) \in Patient /\ socket[client[w]] # "closed" =>
        result[query[w].player].room \in {NoRoom, query[w].room}

\* A step of an instance that is neither CreateRoom nor PublishResults.
LEMMA GameQuiet ==
    ASSUME PartsInv, NEW g \in Games, Game(g), ~Match!CreateRoom(g), ~Match!PublishResults(g)
    PROVE  /\ UNCHANGED <<result, query, made>>
           /\ loopPc[g] \notin {"result1", "result2"} /\ loopPc'[g] \notin {"result1", "result2"}
           /\ \A h \in Games \ {g} : loopPc'[h] = loopPc[h] /\ room'[h] = room[h] /\ pair'[h] = pair[h]
<1>1. MP!TypeOK /\ ~Match!Failure
  BY NoFailure DEF PartsInv
<1>2. /\ UNCHANGED <<result, query, made>> /\ loopPc[g] \notin {"result1", "result2"}
      /\ \E l \in {"idle", "pair", "incr", "create", "route", "scan", "expire"} :
            loopPc' = [loopPc EXCEPT ![g] = l]
      /\ room' = room \/ \E i : room' = [room EXCEPT ![g] = i]
      /\ pair' = pair \/ \E i : pair' = [pair EXCEPT ![g] = i]
  BY <1>1 DEF Game, Match!StartGame, Match!MatchTick, Match!Wake, Match!PopPair, Match!PopNothing,
       Match!PopFailed, Match!NextRoomId, Match!NextRoomIdFailed, Match!CreateRoom,
       Match!PublishResults, Match!PublishResult, Match!PublishRoute, Match!ScanExpired,
       Match!ScanFailed, Match!RemoveExpired, Match!EndTick, Match!Goto, Match!redis, Match!history
<1> QED BY <1>1, <1>2 DEF MP!TypeOK

\* What PublishResults publishes, and for whom.
LEMMA Publishes ==
    ASSUME PartsInv, NEW g \in Games, Match!PublishResults(g)
    PROVE  \E m, from, to :
              /\ m \in MP!Members
              /\ \/ from = "result1" /\ to = "result2" /\ m = pair[g][1]
                 \/ from = "result2" /\ to = "route" /\ m = pair[g][2]
              /\ pair[g] \in MP!Members \X MP!Members
              /\ m.player \in Players /\ loopPc[g] = from /\ loopPc'[g] = to
              /\ \A h \in Games \ {g} : loopPc'[h] = loopPc[h]
              /\ result'[m.player] = [room |-> room[g], left |-> ResultTtl]
              /\ \A p \in Players \ {m.player} : result'[p] = result[p]
              /\ UNCHANGED <<pair, room, query, made>>
<1>1. MP!TypeOK /\ ~Match!Failure
  BY NoFailure DEF PartsInv
<1>2. PICK m, from, to :
        /\ \/ from = "result1" /\ to = "result2" /\ m = pair[g][1]
           \/ from = "result2" /\ to = "route" /\ m = pair[g][2]
        /\ loopPc[g] = from /\ loopPc' = [loopPc EXCEPT ![g] = to]
        /\ result' = [result EXCEPT ![m.player] = [room |-> room[g], left |-> ResultTtl]]
        /\ UNCHANGED <<pair, room, query, made>>
  BY <1>1 DEF Match!PublishResults, Match!PublishResult, Match!Answered, Match!Goto
<1>3. /\ pair[g] \in MP!Members \X MP!Members /\ m \in MP!Members /\ m.player \in Players
  BY <1>1, <1>2 DEF MP!TypeOK, MP!NoPair, MP!Members
<1>4. /\ loopPc'[g] = to /\ \A h \in Games \ {g} : loopPc'[h] = loopPc[h]
  BY <1>1, <1>2 DEF MP!TypeOK
<1>5. /\ result'[m.player] = [room |-> room[g], left |-> ResultTtl]
      /\ \A p \in Players \ {m.player} : result'[p] = result[p]
  BY <1>1, <1>2, <1>3 DEF MP!TypeOK
<1> QED BY <1>2, <1>3, <1>4, <1>5

\* ... and nobody is published anything while his worker reads.
LEMMA ReadStep ==
    ASSUME OneDevice, DevicesInv, ReadInv, [Next]_vars
    PROVE  ReadInv'
<1> SUFFICES ASSUME NEW w \in Workers, wpc'[w] = "query", AccountOf(client'[w]) \in Patient,
                    socket'[client'[w]] # "closed"
             PROVE  result'[query'[w].player].room \in {NoRoom, query'[w].room}
  BY DEF ReadInv
<1>0. PartsInv /\ WorkerInv /\ MP!TypeOK
  BY DEF DevicesInv, LobbyInv, PartsInv
<1>a. ASSUME wpc[w] = "query", client'[w] = client[w]
      PROVE  /\ client[w] \in Conns /\ AccountOf(client[w]) \in Patient
             /\ socket[client[w]] # "closed"
             /\ query[w].player = AccountOf(client[w]) /\ query[w].player \in Players
             /\ result[query[w].player].room \in {NoRoom, query[w].room}
  <2>1. client[w] \in Conns /\ query[w].player = AccountOf(client[w]) /\ AccountOf(client[w]) \in Players
    BY <1>0, <1>a, WorkerIs DEF WorkerInv
  <2>2. PICK c \in Conns : c = client[w]
    BY <2>1
  <2>3. socket[c] # "closed"
    BY <1>0, <1>a, <2>2, ClosedForGood DEF PartsInv
  <2>4. AccountOf(client[w]) \in Patient
    BY <1>a
  <2> QED BY <1>a, <2>1, <2>2, <2>3, <2>4 DEF ReadInv
<1>b. ASSUME wpc'[w] = wpc[w], client'[w] = client[w], query'[w] = query[w], result' = result
      PROVE  result'[query'[w].player].room \in {NoRoom, query'[w].room}
  BY <1>a, <1>b
<1>1. ASSUME NEW c \in Conns, Connection(c) \/ QuitRoomTo(c) \/ BroadcastLeaveMatch(c)
      PROVE  result'[query'[w].player].room \in {NoRoom, query'[w].room}
  BY <1>1, <1>b DEF Connection, QuitRoomTo, BroadcastLeaveMatch, match, worker
<1>2. ASSUME NEW c \in Conns, NEW mo \in Asked, NEW v \in Workers, MatchReq(c, mo, v)
      PROVE  result'[query'[w].player].room \in {NoRoom, query'[w].room}
  <2>1. /\ wpc' = [wpc EXCEPT ![v] = "start"] /\ client' = [client EXCEPT ![v] = c]
        /\ UNCHANGED <<query, result>>
    BY <1>2 DEF MatchReq, match
  <2>2. v # w
    BY <1>0, <2>1 DEF WorkerInv
  <2> QED BY <1>0, <1>b, <2>1, <2>2 DEF WorkerInv, ClientOK
<1>3. ASSUME NEW v \in Workers, matchWorker(v)
      PROVE  result'[query'[w].player].room \in {NoRoom, query'[w].room}
  <2>1. CASE WorkerPoll(v)
    <3>1. /\ UNCHANGED <<client, result>>
          /\ \/ /\ query' = [query EXCEPT ![v] = [player |-> player[client[v]],
                                                  room |-> result[player[client[v]]].room]]
                /\ wpc' = [wpc EXCEPT ![v] = "query"]
             \/ UNCHANGED <<query, wpc>>
      BY <2>1 DEF WorkerPoll, Match!QueryGet, Match!redis, match
    <3>2. CASE v = w /\ ~UNCHANGED <<query, wpc>>
      <4>1. PICK p, id : p = player[client[w]] /\ id = result[p].room
        OBVIOUS
      <4>2. query' = [query EXCEPT ![w] = [player |-> p, room |-> id]]
        BY <3>1, <3>2, <4>1
      <4>3. query'[w].player = p /\ query'[w].room = id
        BY <1>0, <4>2 DEF MP!TypeOK
      <4> QED BY <3>1, <4>1, <4>3
    <3>3. CASE v # w \/ UNCHANGED <<query, wpc>>
      <4>1. query'[w] = query[w] /\ wpc'[w] = wpc[w]
        BY <1>0, <3>1, <3>3 DEF MP!TypeOK, WorkerInv
      <4> QED BY <1>b, <3>1, <4>1
    <3> QED BY <3>2, <3>3
  <2>2. CASE WorkerQueried(v)
    <3>1. PICK q : q = query[v].player
      OBVIOUS
    <3>2. /\ wpc' = [wpc EXCEPT ![v] = "answer"] /\ UNCHANGED client
          /\ result' = [result EXCEPT ![q] = Match!NoResult]
          /\ query' = [query EXCEPT ![v] = Match!NoQuery]
      BY <1>0, <2>2, <3>1, NoFailure DEF WorkerQueried, Match!QueryDel
    <3>3. v # w
      BY <1>0, <3>2 DEF WorkerInv
    <3>4. wpc[w] = "query" /\ query'[w] = query[w]
      BY <1>0, <3>2, <3>3 DEF WorkerInv, MP!TypeOK
    <3>5. PICK p : p = query[w].player
      OBVIOUS
    <3>6. p \in Players /\ result[p].room \in {NoRoom, query[w].room}
      BY <1>a, <3>2, <3>4, <3>5
    <3>7. result'[p].room \in {NoRoom, result[p].room}
      BY <1>0, <3>2, <3>6 DEF MP!TypeOK, Match!NoResult
    <3> QED BY <3>4, <3>5, <3>6, <3>7
  <2>3. CASE ~WorkerPoll(v) /\ ~WorkerQueried(v)
    <3>1. /\ UNCHANGED <<query, result>>
          /\ \E l \in {"free", "join", "poll"} : wpc' = [wpc EXCEPT ![v] = l]
          /\ client' = client \/ client' = [client EXCEPT ![v] = NoConn]
      BY <1>3, <2>3 DEF matchWorker, WorkerStart, WorkerJoin, WorkerStop, WorkerGiveUp, WorkerAnswer,
           Release, Match!JoinMatch, match
    <3>2. v # w
      BY <1>0, <3>1 DEF WorkerInv
    <3>3. wpc'[w] = wpc[w] /\ client'[w] = client[w]
      BY <1>0, <3>1, <3>2 DEF WorkerInv, ClientOK
    <3> QED BY <1>b, <3>1, <3>3
  <2> QED BY <2>1, <2>2, <2>3
<1>4. ASSUME NEW g \in Games, Game(g)
      PROVE  result'[query'[w].player].room \in {NoRoom, query'[w].room}
  <2>1. UNCHANGED <<wpc, client>>
    BY <1>4 DEF Game, worker
  <2>2. CASE Match!PublishResults(g)
    <3>1. PICK m, from, to :
              /\ m \in MP!Members
              /\ \/ from = "result1" /\ to = "result2" /\ m = pair[g][1]
                 \/ from = "result2" /\ to = "route" /\ m = pair[g][2]
              /\ pair[g] \in MP!Members \X MP!Members
              /\ m.player \in Players /\ loopPc[g] = from /\ loopPc'[g] = to
              /\ \A h \in Games \ {g} : loopPc'[h] = loopPc[h]
              /\ result'[m.player] = [room |-> room[g], left |-> ResultTtl]
              /\ \A p \in Players \ {m.player} : result'[p] = result[p]
              /\ UNCHANGED <<pair, room, query, made>>
      BY <1>0, <2>2, Publishes
    <3>2. PICK c \in Conns : c = client[w]
      BY <1>a, <2>1
    <3>3. /\ socket[c] # "closed" /\ AccountOf(c) \in Patient /\ query[w].player = AccountOf(c) /\ query[w].player \in Players
          /\ result[query[w].player].room \in {NoRoom, query[w].room}
      BY <1>a, <2>1, <3>2
    <3>4. ASSUME m.player = AccountOf(c) PROVE FALSE
      <4>1. PICK e : e = Entry(c)
        OBVIOUS
      <4>2. InHand(g, e)
        BY <3>1, <3>4, <4>1, EntryOf DEF InHand
      <4>3. Place(c, e)
        BY <3>3, <4>1 DEF DevicesInv, PlaceInv
      <4>4. PICK v \in Workers : client[v] = c /\ wpc[v] = "poll"
        BY <4>2, <4>3 DEF Place, HandOK, Polls
      <4>5. v = w
        BY <1>0, <3>2, <3>3, <4>4, WorkerIs
      <4> QED BY <2>1, <4>4, <4>5
    <3> QED BY <3>1, <3>3, <3>4
  <2>3. CASE ~Match!PublishResults(g)
    <3>1. UNCHANGED <<result, query>>
      <4>1. CASE Match!CreateRoom(g)
        BY <4>1 DEF Match!CreateRoom, Match!redis
      <4>2. CASE ~Match!CreateRoom(g)
        BY <1>0, <1>4, <2>3, <4>2, GameQuiet
      <4> QED BY <4>1, <4>2
    <3> QED BY <1>b, <2>1, <3>1
  <2> QED BY <2>2, <2>3
<1>5. ASSUME NEW g \in Games, NEW id \in rooms[g], BattleEnds(g, id) \/ DropRoom(g, id)
      PROVE  result'[query'[w].player].room \in {NoRoom, query'[w].room}
  BY <1>5, <1>b DEF BattleEnds, DropRoom, Match!DropRoom, Match!redis, match, worker
<1>6. CASE Advance
  BY <1>6 DEF Advance
<1>7. CASE UNCHANGED vars
  BY <1>7, <1>b DEF vars, match, worker
<1> QED BY <1>1, <1>2, <1>3, <1>4, <1>5, <1>6, <1>7 DEF Next

-----------------------------------------------------------------------------
\* The loop of instance g has the result of player p still to write.
Writes(g, p) ==
    \/ loopPc[g] = "result1" /\ p \in {pair[g][1].player, pair[g][2].player}
    \/ loopPc[g] = "result2" /\ p = pair[g][2].player

\* Room id is on its way to player p.
Coming(p, id) ==
    /\ id # NoRoom
    /\ \/ \E g \in Games : room[g] = id /\ Writes(g, p)
       \/ result[p].room = id
       \/ \E w \in Workers : query[w].player = p /\ query[w].room = id
       \/ \E w \in Workers : wpc[w] = "answer" /\ player[client[w]] = p /\ answer[w] = id

LEMMA NewsIs == \A p, id : id \in NewsOf(p) <=> Coming(p, id)
BY DEF NewsOf, Coming, Writes

\* ... and after a step.
LEMMA NewsThen == \A p, id : id \in NewsOf(p)' <=> Coming(p, id)'
BY DEF NewsOf, Coming, Writes

LEMMA SameNews ==
    ASSUME NEW p, \A id : Coming(p, id)' <=> Coming(p, id)
    PROVE  NewsOf(p)' = NewsOf(p)
<1>1. \A id : id \in NewsOf(p)' <=> id \in NewsOf(p)
  BY NewsIs, NewsThen
<1> QED BY <1>1

\* What is assumed of a state, and of a patient player p who is here, by connection c.
PromiseInv == DevicesInv /\ ReadInv

Here(c, p) ==
    c \in Conns /\ p \in Players /\ p \in Patient /\ player[c] = p /\ socket[c] # "closed"

\* He is not gone, has one connection, and his session is that one.
LEMMA HereIs ==
    ASSUME OneDevice, PromiseInv, NEW c, NEW p, Here(c, p)
    PROVE  /\ ~IsGone(p) /\ p = AccountOf(c) /\ p # NoPlayer /\ c # NoConn
           /\ Entry(c).player = p /\ Place(c, Entry(c))
           /\ \A d \in Conns : player[d] = p => d = c
           /\ \A w \in Workers : wpc[w] # "free" /\ player[client[w]] = p => client[w] = c
           /\ Asks(p) <=> \E w \in Workers : client[w] = c
           /\ ToldOf(p) = roomID[c]
<1>1. PartsInv /\ WorkerInv /\ ClientOK /\ LoginOK /\ DeviceInv /\ SP!TypeOK /\ SP!SessionInv /\ PlaceInv
  BY DEF PromiseInv, DevicesInv, LobbyInv, PartsInv, WorkerInv
<1>2. c \in Conns /\ p \in Players /\ player[c] = p /\ p # NoPlayer /\ c # NoConn
  BY LobbyAssumption DEF Here
<1>3. /\ ~IsGone(p) /\ p = AccountOf(c)
      /\ \A d \in Conns : player[d] = p => d = c
  BY <1>1, <1>2, GoneIs DEF Here
<1>4. \A w \in Workers : /\ wpc[w] # "free" => client[w] \in Conns
                         /\ wpc[w] = "free" <=> client[w] = NoConn
  BY <1>1, LobbyAssumption DEF ClientOK
<1>5. /\ \A w \in Workers : wpc[w] # "free" /\ player[client[w]] = p => client[w] = c
      /\ Asks(p) <=> \E w \in Workers : client[w] = c
  BY <1>2, <1>3, <1>4 DEF Asks
<1>6. sessions[p] = c
  BY <1>1, <1>2 DEF Here, SP!TypeOK, SP!SessionInv, DeviceInv
<1>7. Entry(c).player = p /\ Place(c, Entry(c))
  BY <1>1, <1>2, <1>3 DEF Here, Entry, PlaceInv
<1> QED BY <1>2, <1>3, <1>5, <1>6, <1>7 DEF ToldOf

\* Of a player with no connection nothing is known.
LEMMA Unknown ==
    ASSUME PromiseInv, NEW p \in Players, ~Known(p)
    PROVE  /\ result[p] = Match!NoResult
           /\ \A r \in made : p \notin Match!Of(r)
<1>1. MP!NameInv /\ KnownInv
  BY DEF PromiseInv, DevicesInv, LobbyInv, PartsInv
<1>2. \A r \in made : p \notin Match!Of(r)
  BY <1>1 DEF KnownInv, Match!Of
<1>3. result[p] = Match!NoResult
  BY <1>1, <1>2 DEF MP!NameInv, MP!ResultNamesOwnRoom, MP!NoResult, Match!NoResult, Match!Of, MP!Of
<1> QED BY <1>2, <1>3

\* Whoever is not gone is here or unknown.
LEMMA WhoIsNotGone ==
    ASSUME NEW p \in Players, ~IsGone(p)
    PROVE  ~Known(p) \/ \E c \in Conns : Here(c, p)
BY DEF IsGone, Known, Here

\* The result that a loop has still to write for him is in its hand.
LEMMA WritesOfHand ==
    ASSUME OneDevice, PromiseInv, NEW c, NEW p, Here(c, p), NEW g \in Games, Writes(g, p)
    PROVE  InHand(g, Entry(c))
<1>1. MP!TypeOK
  BY DEF PromiseInv, DevicesInv, LobbyInv, PartsInv
<1>2. pair[g] \in MP!Members \X MP!Members
  BY <1>1 DEF MP!TypeOK, MP!NoPair, Writes
<1>3. c \in Conns /\ p = AccountOf(c)
  BY HereIs DEF Here
<1>4. \A m \in MP!Members : m.player = p => m = Entry(c)
  BY <1>3, EntryOf
<1> QED BY <1>2, <1>4 DEF InHand, Writes

\* Nothing comes to whom no loop has to write to, no result waits for and no worker reads or answers.
LEMMA NothingNew ==
    ASSUME OneDevice, PromiseInv, NEW c, NEW p, Here(c, p),
           \A g \in Games : ~Writes(g, p), result[p] = Match!NoResult,
           \A w \in Workers : client[w] = c => wpc[w] \notin {"query", "answer"}
    PROVE  NewsOf(p) = {}
<1>1. WorkerInv /\ ClientOK /\ MP!TypeOK
  BY DEF PromiseInv, DevicesInv, LobbyInv, PartsInv, WorkerInv
<1>2. p # NoPlayer /\ \A w \in Workers : wpc[w] # "free" /\ player[client[w]] = p => client[w] = c
  BY HereIs
<1>3. \A w \in Workers : query[w].player # p
  <2> SUFFICES ASSUME NEW w \in Workers, query[w].player = p PROVE FALSE
    OBVIOUS
  <2>1. query[w] # Match!NoQuery
    BY <1>2 DEF Match!NoQuery
  <2>2. wpc[w] = "query" /\ player[client[w]] = p
    BY <1>1, <2>1 DEF WorkerInv
  <2> QED BY <1>2, <2>2
<1>4. \A w \in Workers : ~(wpc[w] = "answer" /\ player[client[w]] = p)
  BY <1>2
<1>5. result[p].room = NoRoom
  BY DEF Match!NoResult
<1>6. \A id : ~Coming(p, id)
  BY <1>3, <1>4, <1>5 DEF Coming
<1> QED BY <1>6, NewsIs

\* A battle of his that he is told of, or has been.
LEMMA HeardIsNews ==
    ASSUME OneDevice, PromiseInv, NEW c, NEW p, Here(c, p), NEW r \in made, p \in Match!Of(r),
           r.id \notin over
    PROVE  roomID[c] = r.id \/ r.id \in NewsOf(p)
<1>1. PartsInv /\ WorkerInv /\ MP!NameInv /\ MP!RoomIdInv /\ r.id # NoRoom /\ BattleInv
  BY DEF PromiseInv, DevicesInv, LobbyInv, PartsInv
<1>2. Heard(c, p, r.id)
  BY <1>1 DEF Here, BattleInv, Match!Of
<1>3. ASSUME NEW g \in Games, room[g] = r.id, loopPc[g] = "result1"
      PROVE  p \in {pair[g][1].player, pair[g][2].player}
  <2>1. PICK s \in made : s.id = room[g] /\ s.m1 = pair[g][1] /\ s.m2 = pair[g][2]
    BY <1>1, <1>3 DEF MP!NameInv
  <2>2. s = r
    BY <1>1, <1>3, <2>1 DEF MP!RoomIdInv, MP!RoomIdsDistinct
  <2> QED BY <2>1, <2>2 DEF Match!Of
<1>4. player[c] = p
  BY DEF Here
<1>5. \A w \in Workers : client[w] = c /\ wpc[w] = "query" => query[w].player = p
  BY <1>1, <1>4 DEF WorkerInv
<1>6. Heard(c, p, r.id) => roomID[c] = r.id \/ Coming(p, r.id)
  BY <1>1, <1>3, <1>4, <1>5 DEF Heard, Coming, Writes
<1> QED BY <1>2, <1>6, NewsIs

\* Whom nothing comes to, and who knows of no battle that goes on, is in none.
LEMMA Freed ==
    ASSUME OneDevice, PromiseInv, NEW c, NEW p, Here(c, p), NewsOf(p) = {},
           roomID[c] = NoRoom \/ roomID[c] \in over, NEW r \in made, p \in Match!Of(r)
    PROVE  r.id \in over
<1>1. r.id # NoRoom
  BY DEF PromiseInv, DevicesInv, LobbyInv, PartsInv
<1> QED BY <1>1, HeardIsNews

-----------------------------------------------------------------------------
\* Whoever is gone stays so, and Matchmaking sees no more of him.
LEMMA GoneAlike ==
    ASSUME PromiseInv, [Next]_vars, NEW p \in Players, IsGone(p)
    PROVE  Alike(p)
<1>1. CASE p \notin Patient
  BY <1>1 DEF IsGone, Alike
<1>2. CASE p \in Patient
  <2>1. PICK c \in Conns : player[c] = p /\ socket[c] = "closed"
    BY <1>2 DEF IsGone
  <2>2. player'[c] = p
    BY <2>1, PlayersStay, LobbyAssumption DEF PromiseInv, DevicesInv, LobbyInv
  <2>3. socket'[c] = "closed"
    BY <2>1, ClosedForGood DEF PromiseInv, DevicesInv, LobbyInv, PartsInv
  <2> QED BY <2>2, <2>3 DEF IsGone, Alike
<1> QED BY <1>1, <1>2

\* A step of the sessions that leaves this player where he is.
LEMMA GateAlike ==
    ASSUME PromiseInv, NEW p \in Players, UNCHANGED <<match, worker>>,
           IsGone(p)' <=> IsGone(p), ToldOf(p)' = ToldOf(p),
           \A c \in Conns : player[c] # NoPlayer => player'[c] = player[c]
    PROVE  Alike(p)
<1>1. ClientOK /\ UNCHANGED <<result, query, loopPc, pair, room, wpc, client, answer>>
  BY DEF PromiseInv, DevicesInv, LobbyInv, WorkerInv, match, worker
<1>2. \A w \in Workers : wpc[w] # "free" => player'[client[w]] = player[client[w]]
  BY <1>1, LobbyAssumption DEF ClientOK
<1>3. Asks(p)' <=> Asks(p)
  BY <1>1, <1>2 DEF Asks
<1>4. \A id : Coming(p, id)' <=> Coming(p, id)
  BY <1>1, <1>2 DEF Coming, Writes
<1> QED BY <1>3, <1>4, SameNews DEF Alike

\* A login is news of nobody; the end of a connection is a Leave, of its player.
LEMMA PromisedConnection ==
    ASSUME OneDevice, PromiseInv, [Next]_vars, NEW d \in Conns, Connection(d)
    PROVE  [Promise!Next]_(Promise!vars)
<1> USE DEF Sessions!session, Sessions!local, Sessions!Goto, Sessions!NextFrame
<1>1. /\ PartsInv /\ WorkerInv /\ LoginOK /\ DeviceInv /\ NamesInv
      /\ SP!TypeOK /\ SP!SessionInv /\ MP!TypeOK
  BY DEF PromiseInv, DevicesInv, LobbyInv, PartsInv, WorkerInv
<1>2. /\ UNCHANGED <<match, over, worker, made, roomID>>
      /\ \A c \in Conns : player[c] # NoPlayer => player'[c] = player[c]
  BY <1>1, ConnectionKeeps DEF Connection, match
<1>3. NoPlayer \notin Players /\ NoConn \notin Conns
  BY LobbyAssumption
<1>4. CASE Sessions!Drop(d) \/ Sessions!ScanTimeout(d)
  <2>1. /\ socket[d] = "open" /\ socket' = [socket EXCEPT ![d] = "closed"]
        /\ UNCHANGED <<player, sessions>>
    BY <1>4 DEF Sessions!Drop, Sessions!ScanTimeout
  <2>2. ASSUME NEW p \in Players, p # player[d] PROVE Alike(p)
    <3>1. IsGone(p)' <=> IsGone(p)
      BY <1>1, <2>1, <2>2 DEF IsGone, SP!TypeOK
    <3> QED BY <1>2, <2>1, <3>1, GateAlike DEF ToldOf
  <2>3. CASE player[d] \notin Patient
    <3>1. \A p \in Players : p \notin Patient => Alike(p)
      BY GoneAlike DEF IsGone
    <3> QED BY <1>2, <2>2, <2>3, <3>1, Stutters
  <2>4. CASE player[d] \in Patient
    <3>1. PICK p \in Players : p = player[d]
      BY <2>4, LobbyAssumption
    <3>2. ~IsGone(p)
      BY <1>1, <2>1, <2>4, <3>1, GoneIs
    <3>3. IsGone(p)'
      BY <1>1, <2>1, <3>1 DEF IsGone, SP!TypeOK
    <3>4. Promise!Leave(p)
      BY <1>2, <2>2, <3>1, <3>2, <3>3, Leaves
    <3> QED BY <2>4, <3>1, <3>4 DEF Promise!Next
  <2> QED BY <2>3, <2>4
<1>5. CASE Sessions!BindSession(d)
  <2>1. PICK p : p = wanted[d]
    OBVIOUS
  <2>2. p = AccountOf(d) /\ p \in Players /\ player[d] = NoPlayer
    BY <1>1, <1>5, <2>1, LobbyAssumption DEF LoginOK, Sessions!BindSession
  <2>3. /\ sessions' = [sessions EXCEPT ![p] = d] /\ player' = [player EXCEPT ![d] = p]
        /\ UNCHANGED socket
    BY <1>5, <2>1 DEF Sessions!BindSession
  <2>4. \A c \in Conns : player[c] # p
    BY <1>1, <1>3, <2>2 DEF LoginOK, OneDevice
  <2>5. sessions[p] = NoConn /\ (p \in Patient => ~IsGone(p))
    BY <1>1, <2>2, <2>4 DEF DeviceInv, SP!TypeOK, IsGone
  <2>6. /\ sessions'[p] = d /\ player'[d] = p
        /\ \A q \in Players \ {p} : sessions'[q] = sessions[q]
        /\ \A c \in Conns \ {d} : player'[c] = player[c]
    BY <1>1, <2>2, <2>3 DEF SP!TypeOK
  <2>7. ASSUME NEW q \in Players, q # p PROVE Alike(q)
    <3>1. IsGone(q)' <=> IsGone(q)
      BY <1>3, <2>2, <2>3, <2>6, <2>7 DEF IsGone
    <3>2. ToldOf(q)' = ToldOf(q)
      BY <1>2, <2>6, <2>7 DEF ToldOf
    <3> QED BY <1>2, <3>1, <3>2, GateAlike
  <2>8. CASE p \in Patient /\ socket[d] = "closed"
    <3>1. IsGone(p)'
      BY <2>3, <2>6, <2>8 DEF IsGone
    <3>2. Promise!Leave(p)
      BY <1>2, <2>2, <2>5, <2>7, <2>8, <3>1, Leaves
    <3> QED BY <2>8, <3>2 DEF Promise!Next
  <2>9. CASE p \in Patient /\ socket[d] # "closed"
    <3>1. ~IsGone(p)'
      BY <2>3, <2>4, <2>6, <2>9 DEF IsGone
    <3>2. roomID[d] = NoRoom
      <4>1. \A r \in made : NoPlayer \notin Match!Of(r)
        BY <1>1, <1>3, Belongs
      <4> QED BY <1>1, <2>2, <4>1 DEF NamesInv
    <3>3. ToldOf(p)' = ToldOf(p)
      BY <1>2, <1>3, <2>5, <2>6, <3>2 DEF ToldOf
    <3>4. Alike(p)
      BY <1>2, <2>2, <2>5, <2>9, <3>1, <3>3, GateAlike
    <3> QED BY <1>2, <2>7, <3>4, Stutters
  <2>10. CASE p \notin Patient
    <3>1. Alike(p)
      BY <2>2, <2>10, GoneAlike DEF IsGone
    <3> QED BY <1>2, <2>7, <3>1, Stutters
  <2> QED BY <2>8, <2>9, <2>10
<1>6. CASE Sessions!RemoveSession(d)
  <2>1. /\ gwPc[d] = "remove" /\ UNCHANGED <<socket, player>>
        /\ \A p \in Players : p # player[d] => sessions'[p] = sessions[p]
    BY <1>6 DEF Sessions!RemoveSession, Sessions!Without
  <2>2. socket[d] = "closed"
    BY <1>1, <2>1 DEF SP!SessionInv
  <2>3. ASSUME NEW p \in Players PROVE Alike(p)
    <3>1. CASE p = player[d]
      BY <2>2, <3>1, GoneAlike DEF IsGone
    <3>2. CASE p # player[d]
      <4>1. ToldOf(p)' = ToldOf(p)
        BY <1>2, <2>1, <3>2 DEF ToldOf
      <4> QED BY <1>2, <2>1, <4>1, GateAlike DEF IsGone
    <3> QED BY <3>1, <3>2
  <2> QED BY <1>2, <2>3, Stutters
<1>7. CASE \/ Sessions!Connect(d) \/ Sessions!Read(d) \/ Sessions!LoginReq(d, AccountOf(d))
           \/ Sessions!LoginFailed(d) \/ Sessions!WriteRoute(d) \/ Sessions!Disconnect(d)
           \/ Sessions!GetRoute(d) \/ Sessions!DelRoute(d)
  <2>1. /\ UNCHANGED <<player, sessions>>
        /\ socket' = socket \/ (socket[d] = "new" /\ socket' = [socket EXCEPT ![d] = "open"])
    BY <1>7 DEF Sessions!Connect, Sessions!Read, Sessions!LoginReq, Sessions!LoginFailed,
         Sessions!WriteRoute, Sessions!Disconnect, Sessions!GetRoute, Sessions!DelRoute
  <2>2. \A c \in Conns : socket'[c] = "closed" <=> socket[c] = "closed"
    BY <1>1, <2>1 DEF SP!TypeOK
  <2>3. ASSUME NEW p \in Players PROVE Alike(p)
    <3>1. IsGone(p)' <=> IsGone(p)
      BY <2>1, <2>2 DEF IsGone
    <3> QED BY <1>2, <2>1, <3>1, GateAlike DEF ToldOf
  <2> QED BY <1>2, <2>3, Stutters
<1>8. ~Sessions!KickOld(d)
  BY <1>1 DEF Sessions!KickOld, DeviceInv
<1> QED BY <1>4, <1>5, <1>6, <1>7, <1>8 DEF Connection, Sessions!Login

\* What a connection that has ended calls: the quit of a room is its end, the leaving of the
\* pools shows nothing.
LEMMA PromisedLeaving ==
    ASSUME OneDevice, PromiseInv, NEW d \in Conns, QuitRoomTo(d) \/ BroadcastLeaveMatch(d)
    PROVE  [Promise!Next]_(Promise!vars)
<1>1. UNCHANGED <<socket, player, sessions, roomID, result, query, loopPc, pair, room, worker, made>>
  BY DEF QuitRoomTo, BroadcastLeaveMatch, Sessions!Notify, Sessions!local, Sessions!session, match
<1>2. \A p \in Players : Alike(p)
  <2> SUFFICES ASSUME NEW p \in Players PROVE Alike(p)
    OBVIOUS
  <2>1. \A id : Coming(p, id)' <=> Coming(p, id)
    BY <1>1 DEF Coming, Writes, worker
  <2>2. UNCHANGED <<IsGone(p), Asks(p), ToldOf(p)>>
    BY <1>1 DEF IsGone, Asks, ToldOf, worker
  <2> QED BY <2>1, <2>2, SameNews DEF Alike
<1>3. over' = over \/ \E r \in made : over' = over \cup {r.id}
  <2>1. CASE QuitRoomTo(d)
    <3>1. PICK S \in SUBSET made : over' = over \cup {r.id : r \in S} /\ \A s \in S : s.id = left[d].room
      <4>1. PICK S : S = {s \in made : /\ s.id = left[d].room /\ s.id \in DOMAIN roomRoute
                                       /\ s.id \in rooms[roomRoute[s.id]]
                                       /\ player[d] \in Match!Of(s)}
        OBVIOUS
      <4>2. over' = over \cup {r.id : r \in S}
        BY <2>1, <4>1 DEF QuitRoomTo
      <4> QED BY <4>1, <4>2
    <3>2. CASE S = {}
      BY <3>1, <3>2
    <3>3. CASE S # {}
      <4>1. PICK r \in S : r \in made
        BY <3>1, <3>3
      <4>2. {s.id : s \in S} = {r.id}
        BY <3>1, <4>1
      <4> QED BY <3>1, <4>1, <4>2
    <3> QED BY <3>2, <3>3
  <2>2. CASE BroadcastLeaveMatch(d)
    BY <2>2 DEF BroadcastLeaveMatch
  <2> QED BY <2>1, <2>2
<1>4. CASE over' = over
  BY <1>1, <1>2, <1>4, Stutters
<1>5. ASSUME NEW r \in made, over' = over \cup {r.id} PROVE Promise!Next
  BY <1>1, <1>2, <1>5, Ends
<1> QED BY <1>3, <1>4, <1>5

-----------------------------------------------------------------------------
\* A request, of a patient player who is here, for whom nobody is at work and who is in no battle;
\* requests of the others show nothing.
LEMMA PromisedRequest ==
    ASSUME OneDevice, PromiseInv, [Next]_vars,
           NEW d \in Conns, NEW mo \in Asked, NEW w \in Workers, MatchReq(d, mo, w)
    PROVE  [Promise!Next]_(Promise!vars)
<1>1. /\ WorkerInv /\ ClientOK /\ SP!TypeOK
  BY DEF PromiseInv, DevicesInv, LobbyInv, PartsInv, WorkerInv
<1>2. /\ player[d] \in Patient => Idle(d) /\ (roomID[d] = NoRoom \/ roomID[d] \in over)
      /\ wpc[w] = "free" /\ wpc' = [wpc EXCEPT ![w] = "start"] /\ client' = [client EXCEPT ![w] = d]
      /\ player[d] # NoPlayer
      /\ UNCHANGED <<socket, player, sessions, roomID, result, query, loopPc, pair, room, answer,
                     made, over>>
  BY DEF MatchReq, MayAsk, Sessions!MatchReq, match
<1>3. PICK p \in Players : p = player[d]
  BY <1>1, <1>2 DEF SP!TypeOK
<1>4. /\ wpc'[w] = "start" /\ client'[w] = d
      /\ \A v \in Workers \ {w} : wpc'[v] = wpc[v] /\ client'[v] = client[v]
  BY <1>1, <1>2 DEF WorkerInv, ClientOK
<1>5. ASSUME NEW q \in Players
      PROVE  /\ NewsOf(q)' = NewsOf(q) /\ ToldOf(q)' = ToldOf(q)
             /\ IsGone(q)' <=> IsGone(q)
             /\ q # p => (Asks(q)' <=> Asks(q))
             /\ q = p => Asks(q)'
  <2>1. \A id : Coming(q, id)' <=> Coming(q, id)
    BY <1>2, <1>4 DEF Coming, Writes
  <2>2. q # p => (Asks(q)' <=> Asks(q))
    BY <1>2, <1>3, <1>4 DEF Asks
  <2>3. q = p => Asks(q)'
    BY <1>2, <1>3, <1>4 DEF Asks
  <2> QED BY <1>2, <2>1, <2>2, <2>3, SameNews DEF ToldOf, IsGone
<1>6. \A q \in Players \ {p} : Alike(q)
  BY <1>5 DEF Alike
<1>7. CASE p \notin Patient \/ socket[d] = "closed"
  <2>1. Alike(p)
    BY <1>3, <1>7, GoneAlike DEF IsGone
  <2> QED BY <1>2, <1>6, <2>1, Stutters
<1>8. CASE p \in Patient /\ socket[d] # "closed"
  <2>1. Here(d, p)
    BY <1>3, <1>8 DEF Here
  <2>2. /\ ~IsGone(p) /\ Place(d, Entry(d)) /\ Entry(d).player = p
        /\ Asks(p) <=> \E v \in Workers : client[v] = d
    BY <2>1, HereIs
  <2>3. \A v \in Workers : client[v] # d
    BY <1>1, <1>2, <1>3, <1>8, LobbyAssumption DEF Idle, ClientOK
  <2>4. NewsOf(p) = {}
    <3>1. (\A g \in Games : ~InHand(g, Entry(d))) /\ result[p] = Match!NoResult
      BY <2>2, <2>3, PlaceNone
    <3> QED BY <2>1, <2>3, <3>1, WritesOfHand, NothingNew
  <2>5. \A r \in made : p \in Match!Of(r) => r.id \in over
    BY <1>2, <1>3, <1>8, <2>1, <2>4, Freed
  <2>6. ~Asks(p)
    BY <2>2, <2>3
  <2>7. Promise!Ask(p)
    BY <1>2, <1>5, <1>6, <2>2, <2>5, <2>6, Requests
  <2> QED BY <1>8, <2>7 DEF Promise!Next
<1> QED BY <1>7, <1>8

\* What a worker does for its own player does not show on the others.
LEMMA WorkersOthers ==
    ASSUME OneDevice, PromiseInv, NEW w \in Workers, wpc[w] # "free",
           \A v \in Workers \ {w} : /\ wpc'[v] = wpc[v] /\ client'[v] = client[v]
                                    /\ query'[v] = query[v] /\ answer'[v] = answer[v],
           wpc'[w] = "free" \/ client'[w] = client[w],
           query[w].player \in {player[client[w]], NoPlayer},
           query'[w].player \in {player[client[w]], NoPlayer},
           \A c \in Conns \ {client[w]} : roomID'[c] = roomID[c],
           \A p \in Players \ {player[client[w]]} : result'[p] = result[p],
           UNCHANGED <<socket, player, sessions, loopPc, pair, room>>,
           NEW q \in Players, q # player[client[w]]
    PROVE  Alike(q)
<1>1. DeviceInv /\ SP!TypeOK
  BY DEF PromiseInv, DevicesInv, LobbyInv, PartsInv
<1>2. q # NoPlayer
  BY LobbyAssumption
<1>3. IsGone(q)' <=> IsGone(q)
  BY DEF IsGone
<1>4. Asks(q)' <=> Asks(q)
  BY DEF Asks
<1>5. ToldOf(q)' = ToldOf(q)
  <2>1. sessions[q] # NoConn => sessions[q] \in Conns \ {client[w]}
    BY <1>1 DEF DeviceInv, SP!TypeOK
  <2> QED BY <2>1 DEF ToldOf
<1>6. \A id : Coming(q, id)' <=> Coming(q, id)
  <2>1. query[w].player # q /\ query'[w].player # q
    BY <1>2
  <2>2. ~(wpc[w] = "answer" /\ player[client[w]] = q) /\ ~(wpc'[w] = "answer" /\ player'[client'[w]] = q)
    OBVIOUS
  <2>3. \A v \in Workers :
          /\ query'[v].player = q <=> query[v].player = q
          /\ query[v].player = q => query'[v] = query[v]
          /\ wpc'[v] = "answer" /\ player'[client'[v]] = q <=> wpc[v] = "answer" /\ player[client[v]] = q
          /\ wpc[v] = "answer" /\ player[client[v]] = q => answer'[v] = answer[v]
    BY <2>1, <2>2
  <2> QED BY <2>3 DEF Coming, Writes
<1> QED BY <1>3, <1>4, <1>5, <1>6, SameNews DEF Alike

\* A worker that gives up refuses, one that answers tells; whose connection has ended is told
\* nothing, and what a worker does before shows nothing.
LEMMA PromisedWorker ==
    ASSUME OneDevice, PromiseInv, [Next]_vars, NEW w \in Workers, matchWorker(w)
    PROVE  [Promise!Next]_(Promise!vars)
<1> USE DEF Sessions!session, Sessions!local
<1>1. /\ PartsInv /\ WorkerInv /\ ClientOK /\ SP!TypeOK /\ SP!SessionInv /\ MP!TypeOK /\ DeviceInv
      /\ ~Match!Failure
  BY NoFailure DEF PromiseInv, DevicesInv, LobbyInv, PartsInv, WorkerInv
<1>2. wpc[w] # "free"
  BY DEF matchWorker, WorkerStart, WorkerJoin, WorkerPoll, WorkerStop, WorkerGiveUp, WorkerQueried,
         WorkerAnswer
<1>3. PICK c \in Conns : c = client[w]
  BY <1>2, WorkerIs, <1>1
<1>4. PICK p \in Players : p = player[c]
  BY <1>1, <1>2, <1>3 DEF ClientOK
<1>5. /\ p # NoPlayer /\ p = AccountOf(c)
      /\ p \in Patient => \A v \in Workers : client[v] = c => v = w
  BY <1>1, <1>2, <1>3, <1>4, WorkerIs, LobbyAssumption
<1>6. query[w].player \in {p, NoPlayer} /\ (wpc[w] # "query" => query[w] = Match!NoQuery)
  BY <1>1, <1>3, <1>4 DEF WorkerInv, Match!NoQuery
<1>7. UNCHANGED <<socket, player, sessions, loopPc, pair, room, made, over>>
  BY DEF matchWorker, WorkerStart, WorkerJoin, WorkerPoll, WorkerStop, WorkerGiveUp, WorkerQueried,
         WorkerAnswer, Sessions!SendMatchRsp, Match!JoinMatch, Match!QueryGet, Match!QueryDel,
         Match!redis, Match!loop, Match!history, gateway, match
<1>8. IsGone(p)' <=> IsGone(p)
  BY <1>7 DEF IsGone
<1>9. /\ IsGone(p) => Alike(p)
      /\ socket[c] = "closed" => IsGone(p)
  BY <1>4, GoneAlike DEF IsGone
<1>10. ~IsGone(p) => Here(c, p)
  BY <1>4 DEF Here, IsGone
\* Once all but p are seen alike, p is all there is to see.
<1>11. ASSUME \A q \in Players \ {p} : Alike(q), Alike(p) PROVE UNCHANGED Promise!vars
  BY <1>7, <1>11, Stutters
\* What a worker that is done leaves.
<1>12. ASSUME Release(w), query' = query, result' = result,
              \A d \in Conns \ {c} : roomID'[d] = roomID[d], wpc[w] # "query"
       PROVE  /\ \A q \in Players \ {p} : Alike(q)
              /\ Here(c, p) => /\ Asks(p) /\ ~Asks(p)' /\ ~IsGone(p) /\ ~IsGone(p)'
                               /\ ToldOf(p) = roomID[c] /\ ToldOf(p)' = roomID'[c]
  <2>1. /\ wpc'[w] = "free"
        /\ \A v \in Workers \ {w} : wpc'[v] = wpc[v] /\ client'[v] = client[v] /\ answer'[v] = answer[v]
    BY <1>1, <1>12 DEF Release, WorkerInv, ClientOK
  <2>2. ASSUME NEW q \in Players, q # p PROVE Alike(q)
    BY <1>2, <1>3, <1>4, <1>6, <1>7, <1>12, <2>1, <2>2, WorkersOthers
  <2>3. ASSUME Here(c, p)
        PROVE  /\ Asks(p) /\ ~Asks(p)' /\ ~IsGone(p) /\ ~IsGone(p)'
               /\ ToldOf(p) = roomID[c] /\ ToldOf(p)' = roomID'[c]
    <3>1. /\ ~IsGone(p) /\ ToldOf(p) = roomID[c] /\ c # NoConn
          /\ Asks(p) <=> \E v \in Workers : client[v] = c
          /\ \A v \in Workers : wpc[v] # "free" /\ player[client[v]] = p => client[v] = c
      BY <2>3, HereIs
    <3>2. ~Asks(p)'
      BY <1>5, <1>7, <2>1, <2>3, <3>1 DEF Asks, Here
    <3>3. sessions[p] = c
      <4>1. socket[c] # "closed" /\ p = player[c]
        BY <2>3 DEF Here
      <4> QED BY <1>1, <1>5, <4>1 DEF SP!TypeOK, SP!SessionInv, DeviceInv
    <3>4. ToldOf(p)' = roomID'[c]
      BY <1>7, <3>1, <3>3 DEF ToldOf
    <3> QED BY <1>3, <1>8, <3>1, <3>2, <3>4
  <2> QED BY <2>2, <2>3
<1>13. CASE WorkerStart(w) \/ WorkerStop(w)
  <2>1. UNCHANGED <<roomID, query, result>> /\ wpc[w] # "query"
    BY <1>13 DEF WorkerStart, WorkerStop, gateway, match
  <2>2. CASE Alive(w) /\ wpc' = [wpc EXCEPT ![w] = "join"] /\ UNCHANGED <<client, answer>> /\ wpc[w] = "start"
    <3>1. wpc'[w] = "join" /\ \A v \in Workers \ {w} : wpc'[v] = wpc[v]
      BY <1>1, <2>2 DEF WorkerInv
    <3>2. ASSUME NEW q \in Players PROVE Alike(q)
      <4>1. \A id : Coming(q, id)' <=> Coming(q, id)
        BY <1>7, <2>1, <2>2, <3>1 DEF Coming, Writes
      <4>2. Asks(q)' <=> Asks(q)
        BY <1>7, <2>2, <3>1 DEF Asks
      <4> QED BY <1>7, <2>1, <4>1, <4>2, SameNews DEF Alike, IsGone, ToldOf
    <3> QED BY <1>11, <3>2
  <2>3. CASE ~Alive(w) /\ Release(w)
    <3>1. socket[c] = "closed"
      BY <1>1, <1>2, <1>3, <2>3, OpenIsAlive
    <3> QED BY <1>9, <1>11, <1>12, <2>1, <2>3, <3>1
  <2> QED BY <1>13, <2>2, <2>3 DEF WorkerStart, WorkerStop
<1>14. CASE WorkerJoin(w)
  <2>1. /\ wpc[w] = "join" /\ wpc' = [wpc EXCEPT ![w] = "poll"]
        /\ UNCHANGED <<client, answer, roomID, query, result>>
    BY <1>14 DEF WorkerJoin, Match!JoinMatch, gateway
  <2>2. wpc'[w] = "poll" /\ \A v \in Workers \ {w} : wpc'[v] = wpc[v]
    BY <1>1, <2>1 DEF WorkerInv
  <2>3. ASSUME NEW q \in Players PROVE Alike(q)
    <3>1. \A id : Coming(q, id)' <=> Coming(q, id)
      BY <1>7, <2>1, <2>2 DEF Coming, Writes
    <3>2. Asks(q)' <=> Asks(q)
      BY <1>7, <2>1, <2>2 DEF Asks
    <3> QED BY <1>7, <2>1, <3>1, <3>2, SameNews DEF Alike, IsGone, ToldOf
  <2> QED BY <1>11, <2>3
<1>15. CASE WorkerPoll(w)
  <2>1. /\ wpc[w] = "poll" /\ UNCHANGED <<client, answer, roomID, result>>
        /\ \/ /\ query' = [query EXCEPT ![w] = [player |-> player[client[w]],
                                                room |-> result[player[client[w]]].room]]
              /\ wpc' = [wpc EXCEPT ![w] = "query"]
           \/ UNCHANGED <<query, wpc>>
    BY <1>15 DEF WorkerPoll, Match!QueryGet, Match!redis, match, gateway
  <2>2. CASE UNCHANGED <<query, wpc>>
    <3>1. ASSUME NEW q \in Players PROVE Alike(q)
      <4>1. \A id : Coming(q, id)' <=> Coming(q, id)
        BY <1>7, <2>1, <2>2 DEF Coming, Writes
      <4>2. Asks(q)' <=> Asks(q)
        BY <1>7, <2>1, <2>2 DEF Asks
      <4> QED BY <1>7, <2>1, <4>1, <4>2, SameNews DEF Alike, IsGone, ToldOf
    <3> QED BY <1>11, <3>1
  <2>3. CASE ~UNCHANGED <<query, wpc>>
    <3>1. PICK id : id = result[p].room
      OBVIOUS
    <3>2. query' = [query EXCEPT ![w] = [player |-> p, room |-> id]] /\ wpc' = [wpc EXCEPT ![w] = "query"]
      BY <1>3, <1>4, <2>1, <2>3, <3>1
    <3>3. /\ query'[w] = [player |-> p, room |-> id] /\ wpc'[w] = "query"
          /\ \A v \in Workers \ {w} : query'[v] = query[v] /\ wpc'[v] = wpc[v]
      BY <1>1, <3>2 DEF WorkerInv, MP!TypeOK
    <3>4. query'[w].player = p /\ query'[w].room = id
      BY <3>3
    <3>5. ASSUME NEW q \in Players, q # p PROVE Alike(q)
      BY <1>2, <1>3, <1>4, <1>6, <1>7, <2>1, <3>3, <3>4, <3>5, WorkersOthers
    <3>6. ASSUME NEW x PROVE Coming(p, x)' <=> Coming(p, x)
      <4>1. \A v \in Workers : query[v].player = p => v # w
        BY <1>5, <1>6, <2>1 DEF Match!NoQuery
      <4>2. (\E v \in Workers : query'[v].player = p /\ query'[v].room = x)
              <=> x = id \/ \E v \in Workers : query[v].player = p /\ query[v].room = x
        BY <3>3, <3>4, <4>1
      <4>3. \A v \in Workers : wpc'[v] = "answer" <=> wpc[v] = "answer"
        BY <2>1, <3>3
      <4> QED BY <1>7, <2>1, <3>1, <4>2, <4>3 DEF Coming, Writes
    <3>7. Asks(p)' <=> Asks(p)
      BY <1>7, <2>1, <3>3 DEF Asks
    <3>8. Alike(p)
      BY <1>7, <1>8, <2>1, <3>6, <3>7, SameNews DEF Alike, ToldOf
    <3> QED BY <1>11, <3>5, <3>8
  <2> QED BY <2>2, <2>3
<1>16. CASE WorkerQueried(w)
  <2>1. PICK id : id = query[w].room
    OBVIOUS
  <2>2. wpc[w] = "query" /\ query[w].player = p
    BY <1>1, <1>3, <1>4, <1>16 DEF WorkerQueried, WorkerInv
  <2>3. /\ wpc' = [wpc EXCEPT ![w] = "answer"] /\ answer' = [answer EXCEPT ![w] = id]
        /\ result' = [result EXCEPT ![p] = Match!NoResult]
        /\ query' = [query EXCEPT ![w] = Match!NoQuery]
        /\ UNCHANGED <<client, roomID>>
    BY <1>1, <1>16, <2>1, <2>2 DEF WorkerQueried, Match!QueryDel, gateway
  <2>4. /\ wpc'[w] = "answer" /\ answer'[w] = id
        /\ query'[w] = Match!NoQuery /\ query'[w].player = NoPlayer
        /\ \A v \in Workers \ {w} : query'[v] = query[v] /\ wpc'[v] = wpc[v] /\ answer'[v] = answer[v]
        /\ result'[p].room = NoRoom /\ \A q \in Players \ {p} : result'[q] = result[q]
    BY <1>1, <2>3 DEF WorkerInv, MP!TypeOK, Match!NoQuery, Match!NoResult
  <2>5. ASSUME NEW q \in Players, q # p PROVE Alike(q)
    BY <1>2, <1>3, <1>4, <1>6, <1>7, <2>3, <2>4, <2>5, WorkersOthers
  <2>6. ASSUME ~IsGone(p) PROVE Alike(p)
    <3>1. result[p].room \in {NoRoom, id}
      BY <1>3, <1>5, <1>10, <2>1, <2>2, <2>6 DEF PromiseInv, ReadInv, Here
    <3>2. ASSUME NEW x PROVE Coming(p, x)' <=> Coming(p, x)
      <4>1. (\E v \in Workers : query[v].player = p /\ query[v].room = x)
              <=> x = id \/ \E v \in Workers \ {w} : query[v].player = p /\ query[v].room = x
        BY <2>1, <2>2
      <4>2. (\E v \in Workers : query'[v].player = p /\ query'[v].room = x)
              <=> \E v \in Workers \ {w} : query[v].player = p /\ query[v].room = x
        BY <1>5, <2>4
      <4>3. (\E v \in Workers : wpc'[v] = "answer" /\ player'[client'[v]] = p /\ answer'[v] = x)
              <=> \/ x = id
                  \/ \E v \in Workers : wpc[v] = "answer" /\ player[client[v]] = p /\ answer[v] = x
        BY <1>3, <1>4, <1>7, <2>2, <2>3, <2>4
      <4>4. x # NoRoom => result'[p].room # x /\ (result[p].room = x => x = id)
        BY <2>4, <3>1
      <4> QED BY <1>7, <4>1, <4>2, <4>3, <4>4 DEF Coming, Writes
    <3>3. Asks(p)' <=> Asks(p)
      BY <1>7, <2>2, <2>3, <2>4 DEF Asks
    <3> QED BY <1>7, <1>8, <2>3, <3>2, <3>3, SameNews DEF Alike, ToldOf
  <2> QED BY <1>9, <1>11, <2>5, <2>6
<1>17. CASE WorkerGiveUp(w)
  <2>1. /\ wpc[w] = "poll" /\ waited[w] >= matchPollTimes(MatchTimeout) /\ Release(w)
        /\ UNCHANGED <<query, result>> /\ roomID' = [roomID EXCEPT ![client[w]] = @]
    BY <1>17 DEF WorkerGiveUp, Sessions!SendMatchRsp, match
  <2>2. roomID' = roomID
    BY <1>1, <2>1 DEF SP!TypeOK
  <2>3. CASE IsGone(p)
    BY <1>9, <1>11, <1>12, <2>1, <2>2, <2>3
  <2>4. CASE ~IsGone(p)
    <3>1. Here(c, p)
      BY <1>10, <2>4
    <3>2. Place(c, Entry(c)) /\ Entry(c).player = p
      BY <3>1, HereIs
    <3>3. (\A g \in Games : ~InHand(g, Entry(c))) /\ result[p] = Match!NoResult
      <4>1. Polls(w, c)
        BY <1>3, <2>1 DEF Polls
      <4>2. AccountOf(c) \in Patient
        BY <1>5, <3>1 DEF Here
      <4> QED BY <1>1, <2>1, <3>2, <4>1, <4>2, GivesUpNowhere
    <3>4. NewsOf(p) = {}
      <4>1. \A v \in Workers : client[v] = c => v = w
        BY <1>5, <3>1 DEF Here
      <4>2. \A v \in Workers : client[v] = c => wpc[v] \notin {"query", "answer"}
        BY <2>1, <4>1
      <4>3. \A g \in Games : ~Writes(g, p)
        BY <3>1, <3>3, WritesOfHand
      <4> QED BY <3>1, <3>3, <4>2, <4>3, NothingNew
    <3>5. NewsOf(p)' = NewsOf(p)
      <4>1. /\ wpc'[w] = "free"
            /\ \A v \in Workers \ {w} : wpc'[v] = wpc[v] /\ client'[v] = client[v] /\ answer'[v] = answer[v]
        BY <1>1, <2>1 DEF Release, WorkerInv, ClientOK
      <4>2. \A x : Coming(p, x)' <=> Coming(p, x)
        BY <1>7, <2>1, <4>1 DEF Coming, Writes
      <4> QED BY <4>2, SameNews
    <3>6. Promise!Refuse(p)
      BY <1>7, <1>12, <2>1, <2>2, <3>1, <3>4, <3>5, Refuses
    <3> QED BY <3>1, <3>6 DEF Here, Promise!Next
  <2> QED BY <2>3, <2>4
<1>18. CASE WorkerAnswer(w)
  <2>1. PICK id : id = answer[w]
    OBVIOUS
  <2>2. wpc[w] = "answer" /\ id # NoRoom /\ Release(w) /\ UNCHANGED <<query, result>>
    BY <1>1, <1>18, <2>1 DEF WorkerAnswer, WorkerInv, match
  <2>3. roomID' = [roomID EXCEPT ![c] = id]
    BY <1>3, <1>18, <2>1, <2>2 DEF WorkerAnswer, Sessions!SendMatchRsp
  <2>4. roomID'[c] = id /\ \A d \in Conns \ {c} : roomID'[d] = roomID[d]
    BY <1>1, <2>3 DEF SP!TypeOK
  <2>5. CASE IsGone(p)
    BY <1>9, <1>11, <1>12, <2>2, <2>4, <2>5
  <2>6. CASE ~IsGone(p)
    <3>1. Here(c, p)
      BY <1>10, <2>6
    <3>2. /\ Place(c, Entry(c)) /\ Entry(c).player = p
          /\ \A v \in Workers : wpc[v] # "free" /\ player[client[v]] = p => client[v] = c
      BY <3>1, HereIs
    <3>3. (\A g \in Games : ~InHand(g, Entry(c))) /\ result[p] = Match!NoResult
      BY <1>5, <2>2, <3>1, <3>2, PlaceNone DEF Here
    <3>4. id \in NewsOf(p)
      <4>1. Coming(p, id)
        BY <1>3, <1>4, <2>1, <2>2 DEF Coming, Writes
      <4> QED BY <4>1, NewsIs
    <3>5. NewsOf(p)' = {}
      <4>1. /\ wpc'[w] = "free" /\ \A v \in Workers \ {w} : wpc'[v] = wpc[v] /\ client'[v] = client[v]
        BY <1>1, <2>2 DEF Release, WorkerInv, ClientOK
      <4>2. \A v \in Workers : ~(wpc'[v] = "answer" /\ player'[client'[v]] = p)
        BY <1>5, <1>7, <3>1, <3>2, <4>1 DEF Here
      <4>3. \A v \in Workers : query'[v].player # p
        <5>1. ASSUME NEW v \in Workers, query[v].player = p PROVE FALSE
          <6>1. wpc[v] = "query" /\ player[client[v]] = p
            BY <1>1, <1>5, <5>1 DEF WorkerInv, Match!NoQuery
          <6> QED BY <1>5, <2>2, <3>1, <3>2, <6>1 DEF Here
        <5> QED BY <2>2, <5>1
      <4>4. \A g \in Games : ~Writes(g, p)
        BY <3>1, <3>3, WritesOfHand
      <4>5. \A x : ~Coming(p, x)'
        BY <1>7, <2>2, <3>3, <4>2, <4>3, <4>4 DEF Coming, Writes, Match!NoResult
      <4> QED BY <4>5, NewsThen
    <3>6. Promise!Tell(p)
      BY <1>7, <1>12, <2>2, <2>4, <3>1, <3>4, <3>5, Tells
    <3> QED BY <3>1, <3>6 DEF Here, Promise!Next
  <2> QED BY <2>5, <2>6
<1> QED BY <1>13, <1>14, <1>15, <1>16, <1>17, <1>18 DEF matchWorker

-----------------------------------------------------------------------------
\* A step of the instances shows in what comes to a player only.
LEMMA GameAlike ==
    ASSUME UNCHANGED <<gateway, worker>>, NEW p \in Players, \A id : Coming(p, id)' <=> Coming(p, id)
    PROVE  Alike(p)
<1>1. UNCHANGED <<IsGone(p), Asks(p), ToldOf(p)>>
  BY DEF IsGone, Asks, ToldOf, gateway, worker
<1> QED BY <1>1, SameNews DEF Alike

\* Whoever is in the hand of a loop is gone or here.
LEMMA PairedIsHere ==
    ASSUME PromiseInv, NEW g \in Games, pair[g] # Match!NoPair,
           NEW p \in {pair[g][1].player, pair[g][2].player}
    PROVE  p \in Players /\ (IsGone(p) \/ \E c \in Conns : Here(c, p))
<1>1. MP!TypeOK /\ KnownInv
  BY DEF PromiseInv, DevicesInv, LobbyInv, PartsInv
<1>2. pair[g] \in MP!Members \X MP!Members
  BY <1>1 DEF MP!TypeOK, MP!NoPair, Match!NoPair
<1>3. p \in Players /\ Known(p)
  BY <1>1, <1>2 DEF KnownInv, MP!Members
<1> QED BY <1>3, WhoIsNotGone

\* The two that CreateRoom puts into a battle are gone, or ask, are in none, and nothing comes
\* to them yet.
LEMMA PromisedPair ==
    ASSUME OneDevice, PromiseInv, [Next]_vars, NEW g \in Games, Match!CreateRoom(g),
           UNCHANGED <<gateway, over, worker>>
    PROVE  Promise!Next
<1>1. /\ PartsInv /\ WorkerInv /\ MP!TypeOK /\ MP!RoomIdInv /\ MP!TwoPlayersInv /\ BusyInv
  BY DEF PromiseInv, DevicesInv, LobbyInv, PartsInv
<1>2. PICK r : r = [id |-> room[g], game |-> g, mode |-> mode[g], m1 |-> pair[g][1], m2 |-> pair[g][2]]
  OBVIOUS
<1>3. /\ loopPc[g] = "create" /\ loopPc' = [loopPc EXCEPT ![g] = "result1"]
      /\ made' = made \cup {r} /\ UNCHANGED <<result, pair, room, query>>
  BY <1>2 DEF Match!CreateRoom, Match!Goto, Match!redis
<1>4. loopPc'[g] = "result1" /\ \A h \in Games \ {g} : loopPc'[h] = loopPc[h]
  BY <1>1, <1>3 DEF MP!TypeOK
<1>5. PICK p, q : p = pair[g][1].player /\ q = pair[g][2].player
  OBVIOUS
<1>6. pair[g] # Match!NoPair /\ p # q /\ Match!Of(r) = {p, q}
  BY <1>1, <1>2, <1>3, <1>5 DEF MP!TypeOK, MP!NoPair, Match!NoPair, MP!TwoPlayersInv, Match!Of
<1>7. p \in Players /\ q \in Players /\ \A x \in {p, q} : IsGone(x) \/ \E c \in Conns : Here(c, x)
  BY <1>5, <1>6, PairedIsHere
<1>8. r.id = room[g] /\ room[g] # NoRoom /\ \A s \in made : s.id # r.id
  BY <1>1, <1>2, <1>3 DEF MP!RoomIdInv
<1>9. \A x, id : Coming(x, id)' <=> Coming(x, id) \/ (id = room[g] /\ x \in {p, q})
  <2> SUFFICES ASSUME NEW x, NEW id
               PROVE  Coming(x, id)' <=> Coming(x, id) \/ (id = room[g] /\ x \in {p, q})
    OBVIOUS
  <2>1. \A h \in Games : Writes(h, x)' <=> Writes(h, x) \/ (h = g /\ x \in {p, q})
    BY <1>3, <1>4, <1>5 DEF Writes
  <2>2. UNCHANGED <<wpc, client, answer, player>>
    BY DEF gateway, worker
  <2> QED BY <1>3, <1>8, <2>1, <2>2 DEF Coming
<1>10. \A x \in Players \ {p, q} : Alike(x)
  BY <1>9, GameAlike
<1>11. ASSUME NEW x \in {p, q}, ~IsGone(x)
       PROVE  /\ Asks(x) /\ NewsOf(x) = {} /\ NewsOf(x)' = {r.id}
              /\ \A s \in made : x \in Match!Of(s) => s.id \in over
  <2>1. PICK c \in Conns : Here(c, x)
    BY <1>7, <1>11
  <2>2. /\ Place(c, Entry(c)) /\ Entry(c).player = x /\ c # NoConn
        /\ x = AccountOf(c) /\ AccountOf(c) \in Patient
        /\ Asks(x) <=> \E w \in Workers : client[w] = c
    BY <2>1, HereIs DEF Here
  <2>3. InHand(g, Entry(c))
    <3>1. pair[g] \in MP!Members \X MP!Members
      BY <1>1, <1>6 DEF MP!TypeOK, MP!NoPair, Match!NoPair
    <3> QED BY <1>3, <1>5, <2>2, <3>1, EntryOf DEF InHand
  <2>4. PICK w \in Workers : Polls(w, c) /\ result[x] = Match!NoResult
    BY <2>2, <2>3 DEF Place, HandOK
  <2>5. \A v \in Workers : client[v] = c => v = w
    BY <1>1, <2>2, <2>4, WorkerIs DEF Polls
  <2>6. \A h \in Games : ~Writes(h, x)
    <3>1. \A h \in Games : InHand(h, Entry(c)) => h = g
      BY <2>2, <2>3 DEF Place, HandOK
    <3>2. ~Writes(g, x)
      BY <1>3 DEF Writes
    <3> QED BY <2>1, <3>1, <3>2, WritesOfHand
  <2>7. NewsOf(x) = {}
    BY <2>1, <2>4, <2>5, <2>6, NothingNew DEF Polls
  <2>8. NewsOf(x)' = {r.id}
    <3>1. \A id : Coming(x, id)' <=> id = r.id
      BY <1>8, <1>9, <2>7, NewsIs
    <3> QED BY <3>1, NewsThen
  <2>9. \A s \in made : x \in Match!Of(s) => s.id \in over
    <3>1. roomID[c] = NoRoom \/ roomID[c] \in over
      BY <1>1, <2>1, <2>2, <2>4 DEF Here, Polls, BusyInv
    <3> QED BY <2>1, <2>7, <3>1, Freed
  <2> QED BY <2>2, <2>4, <2>7, <2>8, <2>9 DEF Polls
<1>12. \A x : /\ IsGone(x)' <=> IsGone(x)
              /\ Asks(x)' <=> Asks(x)
              /\ ToldOf(x)' = ToldOf(x)
  BY DEF IsGone, Asks, ToldOf, gateway, worker
<1>13. \A x \in {p, q} : /\ IsGone(x)' <=> IsGone(x)
                         /\ ~IsGone(x) => /\ Asks(x) /\ Asks(x)' /\ NewsOf(x) = {}
                                          /\ NewsOf(x)' = {r.id} /\ ToldOf(x)' = ToldOf(x)
                                          /\ \A s \in made : x \in Match!Of(s) => s.id \in over
  BY <1>11, <1>12
<1> QED BY <1>3, <1>6, <1>7, <1>8, <1>10, <1>13, Pairs

\* A result that is written comes to its player as before.
LEMMA PublishedAlike ==
    ASSUME OneDevice, PromiseInv, NEW g \in Games, Match!PublishResults(g),
           UNCHANGED <<gateway, worker>>, NEW p \in Players, ~IsGone(p)
    PROVE  Alike(p)
<1>1. PartsInv /\ MP!TypeOK
  BY DEF PromiseInv, DevicesInv, LobbyInv, PartsInv
<1>2. PICK m, from, to :
          /\ m \in MP!Members
          /\ \/ from = "result1" /\ to = "result2" /\ m = pair[g][1]
             \/ from = "result2" /\ to = "route" /\ m = pair[g][2]
          /\ pair[g] \in MP!Members \X MP!Members
          /\ m.player \in Players /\ loopPc[g] = from /\ loopPc'[g] = to
          /\ \A h \in Games \ {g} : loopPc'[h] = loopPc[h]
          /\ result'[m.player] = [room |-> room[g], left |-> ResultTtl]
          /\ \A q \in Players \ {m.player} : result'[q] = result[q]
          /\ UNCHANGED <<pair, room, query, made>>
  BY <1>1, Publishes
<1>3. UNCHANGED <<wpc, client, answer, player>>
  BY DEF gateway, worker
<1>4. CASE p # m.player
  <2>1. \A h \in Games : Writes(h, p)' <=> Writes(h, p)
    BY <1>2, <1>4 DEF Writes
  <2>2. \A id : Coming(p, id)' <=> Coming(p, id)
    BY <1>2, <1>3, <1>4, <2>1 DEF Coming
  <2> QED BY <2>2, GameAlike
<1>5. CASE p = m.player
  <2>1. Writes(g, p)
    BY <1>2, <1>5 DEF Writes
  <2>2. PICK c \in Conns : Here(c, p)
    <3>1. pair[g] # Match!NoPair /\ p \in {pair[g][1].player, pair[g][2].player}
      BY <1>1, <1>2, <1>5 DEF MP!TypeOK, MP!NoPair, Match!NoPair
    <3> QED BY <3>1, PairedIsHere
  <2>3. result[p].room = NoRoom
    <3>1. InHand(g, Entry(c))
      BY <2>1, <2>2, WritesOfHand
    <3>2. Place(c, Entry(c)) /\ Entry(c).player = p
      BY <2>2, HereIs
    <3> QED BY <3>1, <3>2 DEF Place, HandOK, Match!NoResult
  <2>4. \A h \in Games \ {g} : Writes(h, p)' <=> Writes(h, p)
    BY <1>2 DEF Writes
  <2>5. result'[p].room = room[g]
    BY <1>2, <1>5
  <2>6. \A id : Coming(p, id)' <=> Coming(p, id)
    <3> SUFFICES ASSUME NEW id, id # NoRoom PROVE Coming(p, id)' <=> Coming(p, id)
      BY DEF Coming
    <3>1. (\E h \in Games : room[h] = id /\ Writes(h, p))
            <=> id = room[g] \/ \E h \in Games \ {g} : room[h] = id /\ Writes(h, p)
      BY <2>1
    <3>2. (\E h \in Games : room'[h] = id /\ Writes(h, p)') \/ id = room[g]
            <=> id = room[g] \/ \E h \in Games \ {g} : room[h] = id /\ Writes(h, p)
      BY <1>2, <2>4
    <3> QED BY <1>2, <1>3, <2>3, <2>5, <3>1, <3>2 DEF Coming
  <2> QED BY <2>6, GameAlike
<1> QED BY <1>4, <1>5

\* An instance pairs, or does what does not show.
LEMMA PromisedGame ==
    ASSUME OneDevice, PromiseInv, [Next]_vars, NEW g \in Games, Game(g)
    PROVE  [Promise!Next]_(Promise!vars)
<1>1. PartsInv /\ UNCHANGED <<gateway, over, worker>>
  BY DEF PromiseInv, DevicesInv, LobbyInv, Game
<1>2. CASE Match!CreateRoom(g)
  BY <1>1, <1>2, PromisedPair
<1>3. CASE Match!PublishResults(g)
  <2>1. made' = made
    BY <1>3 DEF Match!PublishResults, Match!PublishResult
  <2>2. \A p \in Players : Alike(p)
    BY <1>1, <1>3, PublishedAlike, GoneAlike
  <2> QED BY <1>1, <2>1, <2>2, Stutters
<1>4. CASE ~Match!CreateRoom(g) /\ ~Match!PublishResults(g)
  <2>1. /\ UNCHANGED <<result, query, made>>
        /\ loopPc[g] \notin {"result1", "result2"} /\ loopPc'[g] \notin {"result1", "result2"}
        /\ \A h \in Games \ {g} : loopPc'[h] = loopPc[h] /\ room'[h] = room[h] /\ pair'[h] = pair[h]
    BY <1>1, <1>4, GameQuiet
  <2>2. ASSUME NEW p \in Players PROVE Alike(p)
    <3>1. \A h \in Games : /\ Writes(h, p)' <=> Writes(h, p)
                           /\ Writes(h, p) => room'[h] = room[h]
      BY <2>1 DEF Writes
    <3>2. UNCHANGED <<wpc, client, answer, player>>
      BY <1>1 DEF gateway, worker
    <3>3. \A id : Coming(p, id)' <=> Coming(p, id)
      BY <2>1, <3>1, <3>2 DEF Coming
    <3> QED BY <1>1, <3>3, GameAlike
  <2> QED BY <1>1, <2>1, <2>2, Stutters
<1> QED BY <1>2, <1>3, <1>4

\* A battle that ends is an End; that its instance drops it does not show.
LEMMA PromisedRoom ==
    ASSUME PromiseInv, NEW g \in Games, NEW id \in rooms[g], BattleEnds(g, id) \/ DropRoom(g, id)
    PROVE  [Promise!Next]_(Promise!vars)
<1>1. UNCHANGED <<gateway, worker, result, query, loopPc, pair, room, made>>
  BY DEF BattleEnds, DropRoom, Match!DropRoom, Match!redis, Match!loop, Match!history, match
<1>2. \A p \in Players : Alike(p)
  <2>1. \A p, x : Coming(p, x)' <=> Coming(p, x)
    BY <1>1 DEF Coming, Writes, gateway, worker
  <2> QED BY <1>1, <2>1, GameAlike
<1>3. CASE BattleEnds(g, id)
  <2>1. PICK r \in made : r.id = id
    BY DEF PromiseInv, DevicesInv, LobbyInv, RoomsInv
  <2>2. over' = over \cup {r.id}
    BY <1>3, <2>1 DEF BattleEnds
  <2> QED BY <1>1, <1>2, <2>2, Ends
<1>4. CASE DropRoom(g, id)
  BY <1>1, <1>2, <1>4, Stutters DEF DropRoom
<1> QED BY <1>3, <1>4

\* No result expires that somebody is still to be told of.
LEMMA PromisedAdvance ==
    ASSUME OneDevice, PromiseInv, [Next]_vars, Advance
    PROVE  [Promise!Next]_(Promise!vars)
<1>1. /\ \A w \in Workers : wpc[w] = "free" \/ (wpc[w] = "poll" /\ polled[w])
      /\ result' = [q \in Players |-> IF result[q].left > 1
                                     THEN [result[q] EXCEPT !.left = @ - 1] ELSE Match!NoResult]
      /\ UNCHANGED <<gateway, over, wpc, client, answer, query, loopPc, pair, room, made>>
  BY DEF Advance, Match!Advance, Match!loop, Match!history
<1>2. ASSUME NEW p \in Players PROVE Alike(p)
  <2>1. result[p] \in [room : Nat, left : 0..ResultTtl]
    BY DEF PromiseInv, DevicesInv, LobbyInv, PartsInv, MP!TypeOK
  <2>2. ASSUME result[p] = Match!NoResult \/ result[p].left >= 2 PROVE Alike(p)
    <3>1. result'[p].room = result[p].room
      BY <1>1, <2>1, <2>2 DEF Match!NoResult
    <3>2. \A x : Coming(p, x)' <=> Coming(p, x)
      BY <1>1, <3>1 DEF Coming, Writes, gateway
    <3>3. UNCHANGED <<IsGone(p), Asks(p), ToldOf(p)>>
      BY <1>1 DEF IsGone, Asks, ToldOf, gateway
    <3> QED BY <3>2, <3>3, SameNews DEF Alike
  <2>3. CASE IsGone(p)
    BY <2>3, GoneAlike
  <2>4. CASE ~Known(p)
    BY <2>2, <2>4, Unknown
  <2>5. ASSUME NEW c \in Conns, Here(c, p) PROVE Alike(p)
    <3>1. Place(c, Entry(c)) /\ Entry(c).player = p
      BY <2>5, HereIs
    <3>2. result[p] # Match!NoResult => result[p].left >= 2
      BY <1>1, <3>1 DEF Place, ResultOK, Polls
    <3> QED BY <2>2, <3>2
  <2> QED BY <2>3, <2>4, <2>5, WhoIsNotGone
<1> QED BY <1>1, <1>2, Stutters

-----------------------------------------------------------------------------
\* Every step is one that Matchmaking allows, or none.
LEMMA PromisedStep ==
    ASSUME OneDevice, PromiseInv, [Next]_vars
    PROVE  [Promise!Next]_(Promise!vars)
<1>1. CASE UNCHANGED vars
  <2>1. UNCHANGED <<gateway, worker, over, result, query, loopPc, pair, room, made>>
    BY <1>1 DEF vars, match
  <2>2. \A p, x : Coming(p, x)' <=> Coming(p, x)
    BY <2>1 DEF Coming, Writes, gateway, worker
  <2>3. \A p \in Players : Alike(p)
    BY <2>1, <2>2, GameAlike
  <2> QED BY <2>1, <2>3, Stutters
<1> QED BY <1>1, PromisedConnection, PromisedLeaving, PromisedRequest, PromisedWorker, PromisedGame,
           PromisedRoom, PromisedAdvance DEF Next

\* Before the first connection no patient player is gone, asks, or is in a battle.
LEMMA PromisedInit == Init => Promise!Init
<1> SUFFICES ASSUME Init PROVE Promise!Init
  OBVIOUS
<1>1. /\ made = {} /\ over = {} /\ result = [p \in Players |-> Match!NoResult]
      /\ loopPc = [g \in Games |-> "down"] /\ query = [w \in Workers |-> Match!NoQuery]
      /\ wpc = [w \in Workers |-> "free"] /\ sessions = [p \in Players |-> NoConn]
      /\ player = [c \in Conns |-> NoPlayer]
  BY DEF Init, Sessions!Init, Match!Init
<1>2. ASSUME NEW p \in Players
      PROVE  /\ IsGone(p) <=> p \notin Patient
             /\ ~Asks(p) /\ NewsOf(p) = {} /\ ToldOf(p) = NoRoom
  <2>1. (IsGone(p) <=> p \notin Patient) /\ ~Asks(p) /\ ToldOf(p) = NoRoom
    BY <1>1, LobbyAssumption DEF IsGone, Asks, ToldOf
  <2>2. \A id : ~Coming(p, id)
    BY <1>1, LobbyAssumption DEF Coming, Writes, Match!NoResult, Match!NoQuery
  <2> QED BY <2>1, <2>2, NewsIs
<1> QED BY <1>1, <1>2 DEF Promise!Init

\* The invariant that the steps need is one.
LEMMA PromiseKept ==
    ASSUME OneDevice
    PROVE  Spec => []PromiseInv
<1>1. Init => PromiseInv
  <2>1. Init => wpc = [w \in Workers |-> "free"]
    BY DEF Init
  <2> QED BY <2>1, DevicesInit DEF PromiseInv, ReadInv
<1>2. PromiseInv /\ [Next]_vars => PromiseInv'
  BY DevicesStep, ReadStep DEF PromiseInv
<1> QED BY <1>1, <1>2, PTL DEF Spec

\* However workers, pools, loops, the requests of the impatient and the ends of connections
\* interleave, what they do to a patient player's requests is a step that Matchmaking allows, or
\* none: he is not paired again in a battle that goes on, is answered once, and with 'no opponent'
\* only if there is no battle (HandleMatchReq, matchWorker, MatchTick, OnClientDisconnect).
THEOREM RequestsAsPromised ==
    ASSUME \A c, d \in Conns : AccountOf(c) = AccountOf(d) => c = d
    PROVE  Spec => MatchesAsPromised
<1>1. OneDevice
  BY DEF OneDevice
<1>2. PromiseInv /\ [Next]_vars => [Promise!Next]_(Promise!vars)
  BY <1>1, PromisedStep
<1>3. Spec => []PromiseInv
  BY <1>1, PromiseKept
<1> QED BY <1>2, <1>3, PromisedInit, PTL DEF Spec, MatchesAsPromised, Promise!SafeSpec

-----------------------------------------------------------------------------
\* What follows of every system that keeps the promise, proved of its steps alone.
LEMMA InformedStep ==
    ASSUME Promise!Informed, [Promise!Next]_(Promise!vars)
    PROVE  Promise!Informed'
<1> DEFINE Gone == {p \in Players : IsGone(p)}
           Asking == {p \in Players : Asks(p) /\ ~IsGone(p)}
           News == [p \in Players |-> IF IsGone(p) THEN {} ELSE NewsOf(p)]
           Told == [p \in Players |-> IF IsGone(p) THEN NoRoom ELSE ToldOf(p)]
           Battles == {[id |-> r.id, players |-> Match!Of(r)] : r \in made}
           OK(p, b) == p \in b.players /\ b.id \notin over =>
                         \/ p \in Asking /\ News[p] = {b.id}
                         \/ p \notin Asking /\ Told[p] = b.id
<1>1. \A p \in Players \ Gone : \A b \in Battles : OK(p, b)
  BY DEF Promise!Informed
<1>2. DOMAIN News = Players /\ DOMAIN Told = Players
  OBVIOUS
<1>3. SUFFICES ASSUME NEW p \in Players, p \notin Gone', NEW b \in Battles', p \in b.players, b.id \notin over'
               PROVE  \/ p \in Asking' /\ News'[p] = {b.id}
                      \/ p \notin Asking' /\ Told'[p] = b.id
  <2> HIDE DEF Gone, Asking, News, Told, Battles
  <2> QED BY <1>3 DEF Promise!Informed, Gone, Asking, News, Told, Battles
<1>4. News = [x \in Players |-> News[x]] /\ Told = [x \in Players |-> Told[x]]
  OBVIOUS
<1>a. CASE UNCHANGED <<Gone, Asking, News, Told, Battles, over>>
  <2> HIDE DEF Gone, Asking, News, Told, Battles
  <2> QED BY <1>1, <1>3, <1>a
<1>b. ASSUME NEW q \in Patient, Promise!Ask(q)
      PROVE  \/ p \in Asking' /\ News'[p] = {b.id}
             \/ p \notin Asking' /\ Told'[p] = b.id
  <2>1. /\ \A d \in Battles : q \in d.players => d.id \in over
        /\ Asking' = Asking \cup {q} /\ UNCHANGED <<Gone, News, Told, Battles, over>>
    BY <1>b DEF Promise!Ask, Promise!Free
  <2> HIDE DEF Gone, Asking, News, Told, Battles
  <2> QED BY <1>1, <1>3, <2>1
<1>c. ASSUME NEW q \in Patient, Promise!Tell(q)
      PROVE  \/ p \in Asking' /\ News'[p] = {b.id}
             \/ p \notin Asking' /\ Told'[p] = b.id
  <2>1. /\ q \in Asking /\ \E id \in News[q] : Told' = [Told EXCEPT ![q] = id]
        /\ News' = [News EXCEPT ![q] = {}] /\ Asking' = Asking \ {q}
        /\ UNCHANGED <<Gone, Battles, over>>
    BY <1>c DEF Promise!Tell
  <2> HIDE DEF Gone, Asking, News, Told, Battles
  <2>2. CASE p = q
    BY <1>1, <1>2, <1>3, <2>1, <2>2
  <2>3. CASE p # q
    BY <1>1, <1>2, <1>3, <2>1, <2>3
  <2> QED BY <2>2, <2>3
<1>d. ASSUME NEW q \in Patient, Promise!Refuse(q)
      PROVE  \/ p \in Asking' /\ News'[p] = {b.id}
             \/ p \notin Asking' /\ Told'[p] = b.id
  <2>1. /\ q \in Asking /\ News[q] = {} /\ Asking' = Asking \ {q}
        /\ UNCHANGED <<Gone, News, Told, Battles, over>>
    BY <1>d DEF Promise!Refuse
  <2> HIDE DEF Gone, Asking, News, Told, Battles
  <2> QED BY <1>1, <1>3, <2>1
<1>e. ASSUME NEW q \in Patient, Promise!Leave(q)
      PROVE  \/ p \in Asking' /\ News'[p] = {b.id}
             \/ p \notin Asking' /\ Told'[p] = b.id
  <2>1. /\ Gone' = Gone \cup {q} /\ Asking' = Asking \ {q}
        /\ News' = [News EXCEPT ![q] = {}] /\ Told' = [Told EXCEPT ![q] = NoRoom]
        /\ UNCHANGED <<Battles, over>>
    BY <1>e DEF Promise!Leave
  <2> HIDE DEF Gone, Asking, News, Told, Battles
  <2> QED BY <1>1, <1>2, <1>3, <2>1
<1>f. ASSUME NEW x \in Players, NEW y \in Players, NEW id, Promise!Pair(x, y, id)
      PROVE  \/ p \in Asking' /\ News'[p] = {b.id}
             \/ p \notin Asking' /\ Told'[p] = b.id
  <2>1. /\ {x, y} \subseteq Asking \cup Gone
        /\ \A z \in {x, y} \ Gone : \A d \in Battles : z \in d.players => d.id \in over
        /\ Battles' = Battles \cup {[id |-> id, players |-> {x, y}]}
        /\ News' = [z \in Players |-> IF z \in {x, y} \ Gone THEN {id} ELSE News[z]]
        /\ UNCHANGED <<Gone, Asking, Told, over>>
    BY <1>f DEF Promise!Pair, Promise!Free
  <2> HIDE DEF Gone, Asking, News, Told, Battles
  <2>2. CASE b \in Battles
    BY <1>1, <1>3, <2>1, <2>2
  <2>3. CASE b = [id |-> id, players |-> {x, y}]
    BY <1>3, <2>1, <2>3
  <2> QED BY <1>3, <2>1, <2>2, <2>3
<1>g. ASSUME NEW id, Promise!End(id)
      PROVE  \/ p \in Asking' /\ News'[p] = {b.id}
             \/ p \notin Asking' /\ Told'[p] = b.id
  <2>1. over' = over \cup {id} /\ UNCHANGED <<Gone, Asking, News, Told, Battles>>
    BY <1>g DEF Promise!End
  <2> HIDE DEF Gone, Asking, News, Told, Battles
  <2> QED BY <1>1, <1>3, <2>1
<1> HIDE DEF Gone, Asking, News, Told, Battles
<1>h. UNCHANGED Promise!vars => UNCHANGED <<Gone, Asking, News, Told, Battles, over>>
  BY DEF Promise!vars, Gone, Asking, News, Told, Battles
<1> QED BY <1>a, <1>b, <1>c, <1>d, <1>e, <1>f, <1>g, <1>h DEF Promise!Next

\* A patient player who is here and in a battle that goes on has been told of it last, or waits
\* and will be told of that one and no other (QueryMatchResult, sendMatchRsp).
THEOREM WhoStaysIsInformed ==
    ASSUME \A c, d \in Conns : AccountOf(c) = AccountOf(d) => c = d
    PROVE  Spec => []Promise!Informed
<1>1. Spec => MatchesAsPromised
  BY RequestsAsPromised
<1>2. Promise!Init => Promise!Informed
  BY DEF Promise!Init, Promise!Informed
<1>3. Promise!Informed /\ [Promise!Next]_(Promise!vars) => Promise!Informed'
  BY InformedStep
<1> QED BY <1>1, <1>2, <1>3, PTL DEF MatchesAsPromised, Promise!SafeSpec

\* A patient player who is here is not in two battles that go on: nothing of an earlier request of
\* his is left to pair him once more, whatever the others ask (kPairLua, HandleMatchReq, the
\* clean-up of MatchTick).
THEOREM OneBattleAtATime ==
    ASSUME \A c, d \in Conns : AccountOf(c) = AccountOf(d) => c = d
    PROVE  Spec => []Promise!OneBattle
<1>1. Spec => []Promise!Informed
  BY WhoStaysIsInformed
<1>2. Spec => []PromiseInv
  <2>1. OneDevice
    BY DEF OneDevice
  <2> QED BY <2>1, PromiseKept
<1>3. PromiseInv /\ Promise!Informed => Promise!OneBattle
  <2> SUFFICES ASSUME PromiseInv, Promise!Informed PROVE Promise!OneBattle
    OBVIOUS
  <2>1. \A r, s \in made : r.id = s.id => r = s
    BY DEF PromiseInv, DevicesInv, LobbyInv, PartsInv, MP!RoomIdInv, MP!RoomIdsDistinct
  <2> DEFINE Battles == {[id |-> r.id, players |-> Match!Of(r)] : r \in made}
  <2>2. \A b, d \in Battles : b.id = d.id => b = d
    BY <2>1
  <2> HIDE DEF Battles
  <2> QED BY <2>2 DEF Promise!Informed, Promise!OneBattle, Battles
<1> QED BY <1>1, <1>2, <1>3, PTL
=============================================================================
