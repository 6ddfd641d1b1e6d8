--------------------------- MODULE MatchPoolProofs ---------------------------
(***************************************************************************)
(* Proofs about MatchPool, for any number of players, gateways, instances  *)
(* and failures.                                                           *)
(***************************************************************************)
EXTENDS MatchPool, FiniteSetTheorems, TLAPS

-----------------------------------------------------------------------------
\* Adding to and removing from a sorted set gives a sorted set.
LEMMA ZAddType ==
    ASSUME NEW z \in Zsets, NEW m \in Members, NEW n \in 0..MatchTimeout
    PROVE  ZAdd(z, m, n) \in Zsets
<1>1. PICK S \in SUBSET Members : z \in [S -> 0..MatchTimeout]
  BY DEF Zsets
<1>2. ZAdd(z, m, n) \in [S \cup {m} -> 0..MatchTimeout]
  BY <1>1 DEF ZAdd
<1>3. S \cup {m} \in SUBSET Members
  BY <1>1
<1>4. QED
  BY <1>2, <1>3 DEF Zsets

LEMMA ZRemType ==
    ASSUME NEW z \in Zsets, NEW R
    PROVE  ZRem(z, R) \in Zsets
<1>1. PICK S \in SUBSET Members : z \in [S -> 0..MatchTimeout]
  BY DEF Zsets
<1>2. ZRem(z, R) \in [S \ R -> 0..MatchTimeout]
  BY <1>1 DEF ZRem
<1>3. S \ R \in SUBSET Members
  BY <1>1
<1>4. QED
  BY <1>2, <1>3 DEF Zsets

\* The two that kPairLua takes are members of the set and differ.
LEMMA OldestTwoType ==
    ASSUME NEW z \in Zsets, NEW two \in OldestTwo(z)
    PROVE  /\ two \in Members \X Members /\ two # NoPair
           /\ two[1] \in DOMAIN z /\ two[2] \in DOMAIN z /\ two[1] # two[2]
<1>1. DOMAIN z \subseteq Members
  <2>1. PICK S \in SUBSET Members : z \in [S -> 0..MatchTimeout]
    BY DEF Zsets
  <2>2. QED
    BY <2>1
<1>2. two \in (DOMAIN z) \X (DOMAIN z) /\ two[1] # two[2]
  BY DEF OldestTwo
<1>3. two \in Members \X Members /\ two[1] \in DOMAIN z /\ two[2] \in DOMAIN z
  BY <1>1, <1>2
<1>4. two # NoPair
  <2>1. PICK a \in Members, b \in Members : two = <<a, b>>
    BY <1>3
  <2>2. <<a, b>> # << >>
    OBVIOUS
  <2>3. QED
    BY <2>1, <2>2 DEF NoPair
<1>5. QED
  BY <1>2, <1>3, <1>4

LEMMA PoolAge ==
    ASSUME NEW z \in Zsets, MatchTimeout \in Nat
    PROVE  [m \in DOMAIN z |-> IF z[m] < MatchTimeout THEN z[m] + 1 ELSE MatchTimeout] \in Zsets
<1>1. PICK S \in SUBSET Members : z \in [S -> 0..MatchTimeout]
  BY DEF Zsets
<1>2. [m \in DOMAIN z |-> IF z[m] < MatchTimeout THEN z[m] + 1 ELSE MatchTimeout]
        \in [S -> 0..MatchTimeout]
  BY <1>1
<1>3. QED
  BY <1>2 DEF Zsets

-----------------------------------------------------------------------------
LEMMA TypeInit == Init => TypeOK
<1> SUFFICES ASSUME Init PROVE TypeOK
  OBVIOUS
<1>1. pool \in [Modes -> Zsets]
  <2>1. [m \in {} |-> 0] \in [{} -> 0..MatchTimeout]
    OBVIOUS
  <2>2. [m \in {} |-> 0] \in Zsets
    BY <2>1 DEF Zsets
  <2>3. QED
    BY <2>2 DEF Init
<1>2. \A i \in DOMAIN route : i \in Nat /\ route[i] \in Games
  BY DEF Init
<1>3. seq \in Nat /\ result \in [Players -> [room : Nat, left : 0..ResultTtl]]
      /\ room \in [Games -> Nat] /\ query \in [Queriers -> [player : Players \cup {NoPlayer}, room : Nat]]
  BY PoolAssumption DEF Init, NoResult, NoQuery
<1>4. QED
  BY <1>1, <1>2, <1>3, PoolAssumption DEF Init, TypeOK, Labels, Modes

LEMMA TypeStep == TypeOK /\ [Next]_vars => TypeOK'
<1> SUFFICES ASSUME TypeOK, [Next]_vars PROVE TypeOK'
  OBVIOUS
<1> USE PoolAssumption
<1>1. CASE Advance
  <2>1. pool' \in [Modes -> Zsets]
    <3> DEFINE Aged(z) == [m \in DOMAIN z |->
                             IF z[m] < MatchTimeout THEN z[m] + 1 ELSE MatchTimeout]
    <3>1. pool' = [mo \in Modes |-> Aged(pool[mo])]
      BY <1>1 DEF Advance
    <3>2. \A mo \in Modes : Aged(pool[mo]) \in Zsets
      BY PoolAge DEF TypeOK
    <3> HIDE DEF Aged
    <3> QED BY <3>1, <3>2
  <2>2. result' \in [Players -> [room : Nat, left : 0..ResultTtl]]
    <3>1. NoResult \in [room : Nat, left : 0..ResultTtl]
      BY DEF NoResult
    <3>2. ASSUME NEW p \in Players, result[p].left > 1
          PROVE  [result[p] EXCEPT !.left = @ - 1] \in [room : Nat, left : 0..ResultTtl]
      BY <3>2 DEF TypeOK
    <3> QED BY <1>1, <3>1, <3>2 DEF Advance
  <2>3. UNCHANGED <<seq, route, rooms, loop, query, history>>
    BY <1>1 DEF Advance
  <2> QED BY <2>1, <2>2, <2>3 DEF TypeOK, loop, history
<1>2. ASSUME NEW g \in Games, StartGame(g) PROVE TypeOK'
  <2>1. seq' \in Nat /\ failures' \in 0..MaxFailures
    BY <1>2 DEF StartGame, RoomSeqInit, Failure, TypeOK
  <2>2. pc' = [pc EXCEPT ![g] = "idle"] /\ pc[g] = "down"
        /\ UNCHANGED <<pool, result, route, rooms, mode, pair, room, old, query, joins, made>>
    BY <1>2 DEF StartGame
  <2> QED BY <2>1, <2>2 DEF TypeOK, Labels
<1>3. ASSUME NEW g \in Games, Crash(g) PROVE TypeOK'
  BY <1>3 DEF TypeOK, Crash, Failure, redis, Labels, Modes
<1>4. ASSUME NEW g \in Games, NEW id \in rooms[g], DropRoom(g, id) PROVE TypeOK'
  BY <1>4 DEF TypeOK, DropRoom, redis, loop, history
<1>5. ASSUME NEW m \in Members, NEW mo \in Modes, JoinMatch(m, mo) PROVE TypeOK'
  <2>1. pool' = [pool EXCEPT ![mo] = ZAdd(@, m, 0)] /\ joins' = [joins EXCEPT ![m] = @ + 1]
        /\ UNCHANGED <<seq, result, route, rooms, loop, query, made, failures>>
    BY <1>5 DEF JoinMatch
  <2>2. ZAdd(pool[mo], m, 0) \in Zsets
    BY ZAddType DEF TypeOK
  <2>3. pool' \in [Modes -> Zsets]
    BY <2>1, <2>2 DEF TypeOK
  <2> QED BY <2>1, <2>3 DEF TypeOK, loop
<1>6. ASSUME NEW m \in Members, NEW mo \in Modes, LeaveMatch(m, mo) PROVE TypeOK'
  <2>1. pool' = [pool EXCEPT ![mo] = ZRem(@, {m})]
        /\ UNCHANGED <<seq, result, route, rooms, loop, query, history>>
    BY <1>6 DEF LeaveMatch
  <2>2. ZRem(pool[mo], {m}) \in Zsets
    BY ZRemType DEF TypeOK
  <2>3. pool' \in [Modes -> Zsets]
    BY <2>1, <2>2 DEF TypeOK
  <2> QED BY <2>1, <2>3 DEF TypeOK, loop, history
<1>7. ASSUME NEW q \in Queriers, NEW p \in Players, QueryGet(q, p) PROVE TypeOK'
  <2>1. query' \in [Queriers -> [player : Players \cup {NoPlayer}, room : Nat]]
    BY <1>7 DEF TypeOK, QueryGet
  <2>2. UNCHANGED <<redis, rooms, loop, history>>
    BY <1>7 DEF QueryGet
  <2> QED BY <2>1, <2>2 DEF TypeOK, redis, loop, history
<1>8. ASSUME NEW q \in Queriers, QueryDel(q) PROVE TypeOK'
  <2>1. query' \in [Queriers -> [player : Players \cup {NoPlayer}, room : Nat]]
    BY <1>8 DEF TypeOK, QueryDel, NoQuery
  <2>2. result' \in [Players -> [room : Nat, left : 0..ResultTtl]]
    BY <1>8 DEF TypeOK, QueryDel, NoResult
  <2>3. failures' \in 0..MaxFailures
    BY <1>8 DEF TypeOK, QueryDel, Failure
  <2>4. UNCHANGED <<pool, seq, route, rooms, loop, joins, made>>
    BY <1>8 DEF QueryDel
  <2> QED BY <2>1, <2>2, <2>3, <2>4 DEF TypeOK, loop
<1>9. ASSUME NEW g \in Games, MatchTick(g) PROVE TypeOK'
  <2>1. CASE Wake(g)
    BY <2>1 DEF TypeOK, Wake, Goto, redis, history, Labels
  <2>2. CASE PopPair(g)
    <3>1. PICK two \in OldestTwo(pool[mode[g]]) :
            /\ pool' = [pool EXCEPT ![mode[g]] = Popped(@, two)]
            /\ pair' = [pair EXCEPT ![g] = two]
      BY <2>2 DEF PopPair
    <3>2. pool[mode[g]] \in Zsets
      BY DEF TypeOK
    <3>3. two \in Members \X Members /\ two # NoPair
      BY <3>1, <3>2, OldestTwoType
    <3>4. pool' \in [Modes -> Zsets]
      <4>1. Popped(pool[mode[g]], two) \in Zsets
        BY <3>2, ZRemType DEF Popped
      <4> QED BY <3>1, <4>1 DEF TypeOK
    <3>5. /\ pc[g] = "pair" /\ pc' = [pc EXCEPT ![g] = "incr"] /\ mode' = mode
          /\ UNCHANGED <<seq, result, route, rooms, room, old, query, history>>
      BY <2>2 DEF PopPair, Goto
    <3>6. pair' \in [Games -> {NoPair} \cup (Members \X Members)]
      BY <3>1, <3>3 DEF TypeOK
    <3>7. \A h \in Games :
           /\ pc'[h] \in {"incr", "create", "result1", "result2", "route"} <=> pair'[h] # NoPair
           /\ pc'[h] \in {"create", "result1", "result2", "route"} <=> room[h] # NoRoom
      BY <3>1, <3>3, <3>5 DEF TypeOK
    <3> QED BY <3>4, <3>5, <3>6, <3>7 DEF TypeOK, history, Labels
  <2>3. CASE PopNothing(g)
    BY <2>3 DEF TypeOK, PopNothing, Goto, redis, history, Labels
  <2>4. CASE PopFailed(g)
    <3>1. pool' \in [Modes -> Zsets]
      <4>1. \A two : Popped(pool[mode[g]], two) \in Zsets
        BY ZRemType DEF TypeOK, Popped
      <4>2. \/ pool' = pool
            \/ \E two : pool' = [pool EXCEPT ![mode[g]] = Popped(@, two)]
        BY <2>4 DEF PopFailed
      <4> QED BY <4>1, <4>2 DEF TypeOK
    <3>2. failures' \in 0..MaxFailures /\ mode' \in [Games -> Modes]
      BY <2>4 DEF TypeOK, PopFailed, Failure, EndTick, Modes
    <3>3. pc[g] = "pair" /\ (\E l \in {"pair", "idle"} : pc' = [pc EXCEPT ![g] = l])
          /\ UNCHANGED <<seq, result, route, rooms, pair, room, old, query, joins, made>>
      BY <2>4 DEF PopFailed, EndTick
    <3> QED BY <3>1, <3>2, <3>3 DEF TypeOK, Labels
  <2>5. CASE NextRoomId(g)
    BY <2>5 DEF TypeOK, NextRoomId, Goto, history, Labels
  <2>6. CASE NextRoomIdFailed(g)
    <3>1. seq' \in Nat /\ failures' \in 0..MaxFailures /\ mode' \in [Games -> Modes]
      BY <2>6 DEF TypeOK, NextRoomIdFailed, Failure, EndTick, Modes
    <3>2. pc[g] = "incr" /\ (\E l \in {"pair", "idle"} : pc' = [pc EXCEPT ![g] = l])
          /\ pair' = [pair EXCEPT ![g] = NoPair]
          /\ UNCHANGED <<pool, result, route, rooms, room, old, query, joins, made>>
      BY <2>6 DEF NextRoomIdFailed, EndTick
    <3> QED BY <3>1, <3>2 DEF TypeOK, Labels
  <2>7. CASE CreateRoom(g)
    <3> DEFINE r == [id |-> room[g], game |-> g, mode |-> mode[g],
                     m1 |-> pair[g][1], m2 |-> pair[g][2]]
    <3>1. pc[g] = "create" /\ made' = made \cup {r} /\ rooms' = [rooms EXCEPT ![g] = @ \cup {room[g]}]
          /\ pc' = [pc EXCEPT ![g] = "result1"] /\ mode' = mode
          /\ UNCHANGED <<redis, pair, room, old, query, joins, failures>>
      BY <2>7 DEF CreateRoom, Goto
    <3>2. pair[g] \in Members \X Members
      BY <3>1 DEF TypeOK
    <3>3. r \in RoomRecords
      BY <3>2 DEF TypeOK, RoomRecords
    <3> HIDE DEF r
    <3>4. made' \subseteq RoomRecords /\ rooms' \in [Games -> SUBSET Nat]
      BY <3>1, <3>3 DEF TypeOK
    <3> QED BY <3>1, <3>4 DEF TypeOK, redis, Labels
  <2>8. CASE PublishResults(g)
    <3>1. PICK m \in Members, from \in {"result1", "result2"}, to \in {"result2", "route"} :
            PublishResult(g, from, m, to)
      <4>1. pair[g] \in Members \X Members
        BY <2>8 DEF TypeOK, PublishResults, PublishResult
      <4> QED BY <2>8, <4>1 DEF PublishResults
    <3>2. result' \in [Players -> [room : Nat, left : 0..ResultTtl]]
      <4>1. m.player \in Players /\ room[g] \in Nat
        BY DEF Members, TypeOK
      <4> QED BY <3>1, <4>1 DEF TypeOK, PublishResult, Answered
    <3>3. failures' \in 0..MaxFailures
      BY <3>1 DEF TypeOK, PublishResult, Failure
    <3>4. pc[g] = from /\ pc' = [pc EXCEPT ![g] = to] /\ mode' = mode
          /\ UNCHANGED <<pool, seq, route, rooms, pair, room, old, query, joins, made>>
      BY <3>1 DEF PublishResult, Goto
    <3> QED BY <3>2, <3>3, <3>4 DEF TypeOK, Labels
  <2>9. CASE PublishRoute(g)
    <3>1. \A i \in DOMAIN route' : i \in Nat /\ route'[i] \in Games
      BY <2>9 DEF TypeOK, PublishRoute
    <3>2. failures' \in 0..MaxFailures
      BY <2>9 DEF TypeOK, PublishRoute, Failure
    <3>3. pc[g] = "route" /\ pc' = [pc EXCEPT ![g] = "scan"] /\ mode' = mode
          /\ pair' = [pair EXCEPT ![g] = NoPair] /\ room' = [room EXCEPT ![g] = NoRoom]
          /\ UNCHANGED <<pool, seq, result, rooms, old, query, joins, made>>
      BY <2>9 DEF PublishRoute, Goto
    <3> QED BY <3>1, <3>2, <3>3 DEF TypeOK, Labels
  <2>10. CASE ScanExpired(g)
    <3>1. \A z \in Zsets : DOMAIN z \subseteq Members
      BY DEF Zsets
    <3>2. old' \in [Games -> SUBSET Members]
      BY <2>10, <3>1 DEF TypeOK, ScanExpired
    <3>3. pc[g] = "scan" /\ (\E l \in {"pair", "idle", "expire"} : pc' = [pc EXCEPT ![g] = l])
          /\ mode' \in [Games -> Modes]
      BY <2>10 DEF TypeOK, ScanExpired, EndTick, Goto, Modes
    <3>4. UNCHANGED <<redis, rooms, pair, room, query, history>>
      BY <2>10 DEF ScanExpired
    <3> QED BY <3>2, <3>3, <3>4 DEF TypeOK, redis, history, Labels
  <2>11. CASE ScanFailed(g)
    <3>1. pc[g] = "scan" /\ (\E l \in {"pair", "idle"} : pc' = [pc EXCEPT ![g] = l])
      BY <2>11 DEF ScanFailed, EndTick
    <3>2. mode' \in [Games -> Modes]
      BY <2>11 DEF TypeOK, ScanFailed, EndTick, Modes
    <3>3. failures' \in 0..MaxFailures
      BY <2>11 DEF TypeOK, ScanFailed, Failure
    <3>4. UNCHANGED <<redis, rooms, pair, room, old, query, joins, made>>
      BY <2>11 DEF ScanFailed
    <3> QED BY <3>1, <3>2, <3>3, <3>4 DEF TypeOK, redis, Labels
  <2>12. CASE RemoveExpired(g)
    <3>1. PICK m \in old[g] :
            /\ \/ pool' = [pool EXCEPT ![mode[g]] = ZRem(@, {m})] /\ UNCHANGED failures
               \/ Failure /\ UNCHANGED pool
            /\ old' = [old EXCEPT ![g] = @ \ {m}]
      BY <2>12 DEF RemoveExpired
    <3>2. pool' \in [Modes -> Zsets]
      BY <3>1, ZRemType DEF TypeOK
    <3>3. failures' \in 0..MaxFailures /\ old' \in [Games -> SUBSET Members]
      BY <3>1 DEF TypeOK, Failure
    <3>4. pc[g] = "expire" /\ (\E l \in {"pair", "idle", "expire"} : pc' = [pc EXCEPT ![g] = l])
          /\ mode' \in [Games -> Modes]
      BY <2>12 DEF TypeOK, RemoveExpired, EndTick, Goto, Modes
    <3>5. UNCHANGED <<seq, result, route, rooms, pair, room, query, joins, made>>
      BY <2>12 DEF RemoveExpired
    <3> QED BY <3>2, <3>3, <3>4, <3>5 DEF TypeOK, Labels
  <2> QED BY <1>9, <2>1, <2>2, <2>3, <2>4, <2>5, <2>6, <2>7, <2>8, <2>9, <2>10, <2>11, <2>12
          DEF MatchTick
<1>10. CASE UNCHANGED vars
  BY <1>10 DEF TypeOK, vars, redis, loop, history
<1> QED BY <1>1, <1>2, <1>3, <1>4, <1>5, <1>6, <1>7, <1>8, <1>9, <1>10 DEF Next

\* Every behaviour of the pools and the match loops is well typed.
THEOREM TypeCorrect == Spec => []TypeOK
<1> QED BY TypeInit, TypeStep, PTL DEF Spec
-----------------------------------------------------------------------------
\* The inductive invariant behind RoomIdsDistinct: the counter is never behind a number in use,
\* and a number that an instance has drawn is its own and not yet a room's.
RoomIdInv ==
    /\ seq \in Nat /\ room \in [Games -> Nat] /\ pc \in [Games -> Labels]
    /\ \A r \in made : r.id \in Nat /\ r.id <= seq
    /\ \A g \in Games :
         /\ room[g] <= seq
         /\ \A h \in Games : room[g] = room[h] /\ room[g] # NoRoom => g = h
         /\ pc[g] = "create" => room[g] # NoRoom /\ \A r \in made : r.id # room[g]
    /\ RoomIdsDistinct

\* The parts of the state the room numbers depend on.
Numbers == <<seq, room, made, pc>>

\* No instance has a number when none was started.
LEMMA RoomIdInit == Init => RoomIdInv
BY PoolAssumption DEF PoolAssumption, Init, RoomIdInv, RoomIdsDistinct, Labels

\* A match loop that moves on without drawing a number or making a room.
LEMMA RoomIdGoesOn ==
    ASSUME RoomIdInv, NEW g \in Games, UNCHANGED <<seq, room, made>>,
           NEW label \in Labels \ {"create"}, pc' = [pc EXCEPT ![g] = label]
    PROVE  RoomIdInv'
BY DEF RoomIdInv, RoomIdsDistinct, Labels

\* ... or with the end of what it held.
LEMMA RoomIdReleased ==
    ASSUME RoomIdInv, NEW g \in Games, UNCHANGED <<seq, made>>,
           NEW label \in Labels \ {"create"}, pc' = [pc EXCEPT ![g] = label],
           room' = [room EXCEPT ![g] = NoRoom]
    PROVE  RoomIdInv'
BY PoolAssumption DEF PoolAssumption, RoomIdInv, RoomIdsDistinct, Labels

\* A counter that grows while nobody draws from it does no harm.
LEMMA RoomIdCounted ==
    ASSUME RoomIdInv, NEW g \in Games, UNCHANGED <<room, made>>,
           seq' \in Nat, seq <= seq',
           NEW label \in Labels \ {"create"}, pc' = [pc EXCEPT ![g] = label]
    PROVE  RoomIdInv'
BY DEF RoomIdInv, RoomIdsDistinct, Labels

\* INCR gives a number above every one in use.
LEMMA RoomIdDrawn ==
    ASSUME RoomIdInv, NEW g \in Games, NextRoomId(g)
    PROVE  RoomIdInv'
<1>1. /\ seq \in Nat /\ seq' = seq + 1 /\ seq' # NoRoom
      /\ room' = [room EXCEPT ![g] = seq + 1]
      /\ pc' = [pc EXCEPT ![g] = "create"]
      /\ UNCHANGED made
  BY PoolAssumption DEF PoolAssumption, RoomIdInv, NextRoomId, Goto, history
<1> QED BY <1>1 DEF RoomIdInv, RoomIdsDistinct, Labels

\* The room takes the number its instance has drawn.
LEMMA RoomIdUsed ==
    ASSUME RoomIdInv, NEW g \in Games, CreateRoom(g)
    PROVE  RoomIdInv'
<1>1. PICK r : r.id = room[g] /\ made' = made \cup {r}
  BY DEF CreateRoom
<1>2. /\ pc[g] = "create" /\ pc' = [pc EXCEPT ![g] = "result1"]
      /\ UNCHANGED <<seq, room>>
  BY DEF CreateRoom, Goto, redis
<1>3. RoomIdsDistinct'
  BY <1>1, <1>2 DEF RoomIdInv, RoomIdsDistinct
<1>4. \A h \in Games : pc'[h] = "create" => h # g /\ pc[h] = "create"
  BY <1>2 DEF RoomIdInv
<1>5. \A h \in Games : pc'[h] = "create" => room[h] # NoRoom /\ \A s \in made' : s.id # room[h]
  BY <1>1, <1>2, <1>4 DEF RoomIdInv
<1> QED BY <1>1, <1>2, <1>3, <1>5 DEF RoomIdInv, Labels

\* Every step of a match loop keeps the invariant.
LEMMA RoomIdMatchTick ==
    ASSUME RoomIdInv, NEW g \in Games, MatchTick(g)
    PROVE  RoomIdInv'
<1>1. CASE Wake(g)
  BY <1>1, RoomIdGoesOn DEF Wake, Goto, redis, history, Labels
<1>2. CASE PopPair(g)
  BY <1>2, RoomIdGoesOn DEF PopPair, Goto, history, Labels
<1>3. CASE PopNothing(g)
  BY <1>3, RoomIdGoesOn DEF PopNothing, Goto, redis, history, Labels
<1>4. CASE PopFailed(g)
  BY <1>4, RoomIdGoesOn DEF PopFailed, EndTick, Labels
<1>5. CASE NextRoomId(g)
  BY <1>5, RoomIdDrawn
<1>6. CASE NextRoomIdFailed(g)
  <2>1. seq' \in Nat /\ seq <= seq' /\ UNCHANGED <<room, made>>
    BY <1>6 DEF NextRoomIdFailed, RoomIdInv
  <2>2. PICK label \in Labels \ {"create"} : pc' = [pc EXCEPT ![g] = label]
    BY <1>6 DEF NextRoomIdFailed, EndTick, Labels
  <2> QED BY <2>1, <2>2, RoomIdCounted
<1>7. CASE CreateRoom(g)
  BY <1>7, RoomIdUsed
<1>8. CASE PublishResults(g)
  BY <1>8, RoomIdGoesOn DEF PublishResults, PublishResult, Goto, Labels
<1>9. CASE PublishRoute(g)
  BY <1>9, RoomIdReleased DEF PublishRoute, Goto, Labels
<1>10. CASE ScanExpired(g)
  BY <1>10, RoomIdGoesOn DEF ScanExpired, Goto, EndTick, redis, history, Labels
<1>11. CASE ScanFailed(g)
  BY <1>11, RoomIdGoesOn DEF ScanFailed, EndTick, redis, Labels
<1>12. CASE RemoveExpired(g)
  BY <1>12, RoomIdGoesOn DEF RemoveExpired, Goto, EndTick, Labels
<1> QED BY <1>1, <1>2, <1>3, <1>4, <1>5, <1>6, <1>7, <1>8, <1>9, <1>10, <1>11, <1>12
        DEF MatchTick

\* Every step does.
LEMMA RoomIdStep == RoomIdInv /\ [Next]_vars => RoomIdInv'
<1> SUFFICES ASSUME RoomIdInv, [Next]_vars PROVE RoomIdInv'
  OBVIOUS
<1>1. CASE UNCHANGED Numbers
  BY <1>1 DEF Numbers, RoomIdInv, RoomIdsDistinct
<1>2. ASSUME NEW g \in Games, StartGame(g)
      PROVE  RoomIdInv'
  <2>1. seq' \in Nat /\ seq <= seq' /\ UNCHANGED <<room, made>>
    BY <1>2, PoolAssumption DEF StartGame, RoomSeqInit, RoomIdInv, PoolAssumption
  <2>2. pc' = [pc EXCEPT ![g] = "idle"]
    BY <1>2 DEF StartGame
  <2> QED BY <2>1, <2>2, RoomIdCounted DEF Labels
<1>3. ASSUME NEW g \in Games, Crash(g)
      PROVE  RoomIdInv'
  BY <1>3, RoomIdReleased DEF Crash, redis, Labels
<1>4. ASSUME NEW g \in Games, MatchTick(g)
      PROVE  RoomIdInv'
  BY <1>4, RoomIdMatchTick
<1>5. CASE Advance \/ \E g \in Games : \E id \in rooms[g] : DropRoom(g, id)
  BY <1>5, <1>1 DEF Advance, DropRoom, Numbers, redis, loop, history
<1>6. CASE \E m \in Members, mo \in Modes : JoinMatch(m, mo) \/ LeaveMatch(m, mo)
  BY <1>6, <1>1 DEF JoinMatch, LeaveMatch, Numbers, loop, history
<1>7. CASE \E q \in Queriers : QueryDel(q) \/ \E p \in Players : QueryGet(q, p)
  BY <1>7, <1>1 DEF QueryDel, QueryGet, Numbers, redis, loop, history
<1>8. CASE UNCHANGED vars
  BY <1>8, <1>1 DEF vars, Numbers, redis, loop, history
<1> QED BY <1>2, <1>3, <1>4, <1>5, <1>6, <1>7, <1>8 DEF Next

\* A number that was drawn belongs to one instance and then to one room, always
\* (kInitRoomSeqLua, INCR room:seq, NewRoom).
THEOREM RoomIdsCounted == Spec => []RoomIdInv
<1>1. QED BY RoomIdInit, RoomIdStep, PTL DEF Spec

\* Two rooms never share a number, with any number of instances that start, fail
\* and die at any moment, and whatever commands fail.
THEOREM DistinctRoomIds == Spec => []RoomIdsDistinct
<1>1. RoomIdInv => RoomIdsDistinct
  BY DEF RoomIdInv
<1> QED BY <1>1, RoomIdsCounted, PTL
-----------------------------------------------------------------------------
\* The inductive invariant behind ResultNamesOwnRoom: what an instance is about
\* to publish is the room it has made of the pair it holds.
NameInv ==
    /\ ResultNamesOwnRoom
    /\ \A g \in Games : pc[g] \in {"result1", "result2", "route"} =>
         \E r \in made : r.id = room[g] /\ r.m1 = pair[g][1] /\ r.m2 = pair[g][2]

\* The parts of the state it depends on.
Named == <<result, query, made, pc, pair, room>>

\* Rooms may be added, and instances leave what they held.
LEMMA NameKept ==
    ASSUME NameInv, UNCHANGED <<result, query>>, made \subseteq made',
           \A g \in Games : pc'[g] \in {"result1", "result2", "route"} =>
             /\ pc[g] \in {"result1", "result2", "route"}
             /\ pair'[g] = pair[g] /\ room'[g] = room[g]
    PROVE  NameInv'
BY DEF NameInv, ResultNamesOwnRoom

LEMMA NameStep == TypeOK /\ NameInv /\ [Next]_vars => NameInv'
<1> SUFFICES ASSUME TypeOK, NameInv, [Next]_vars PROVE NameInv'
  OBVIOUS
<1> USE PoolAssumption
<1>1. CASE Advance
  <2>1. \A p \in Players : result'[p] # NoResult =>
          result[p] # NoResult /\ result'[p].room = result[p].room
    <3> SUFFICES ASSUME NEW p \in Players, result'[p] # NoResult
                 PROVE  result[p] # NoResult /\ result'[p].room = result[p].room
      OBVIOUS
    <3>1. result[p].left > 1 /\ result'[p] = [result[p] EXCEPT !.left = @ - 1]
      BY <1>1 DEF Advance
    <3>2. result[p] \in [room : Nat, left : 0..ResultTtl]
      BY DEF TypeOK
    <3> QED BY <3>1, <3>2 DEF NoResult
  <2>2. UNCHANGED <<query, made, pc, pair, room>>
    BY <1>1 DEF Advance, loop, history
  <2> QED BY <2>1, <2>2 DEF NameInv, ResultNamesOwnRoom
<1>2. ASSUME NEW g \in Games, StartGame(g) \/ Crash(g) PROVE NameInv'
  <2>1. (\E l \in {"idle", "down"} : pc' = [pc EXCEPT ![g] = l]) /\ UNCHANGED <<result, query, made>>
    BY <1>2 DEF StartGame, Crash, redis
  <2>2. \A h \in Games \ {g} : pair'[h] = pair[h] /\ room'[h] = room[h]
    BY <1>2 DEF StartGame, Crash, TypeOK
  <2>3. \A h \in Games : pc'[h] \in {"result1", "result2", "route"} => h # g /\ pc[h] = pc'[h]
    BY <2>1 DEF TypeOK
  <2> QED BY <2>1, <2>2, <2>3, NameKept
<1>3. CASE (\E g \in Games : \E id \in rooms[g] : DropRoom(g, id))
           \/ (\E m \in Members, mo \in Modes : JoinMatch(m, mo) \/ LeaveMatch(m, mo))
           \/ UNCHANGED vars
  <2>1. UNCHANGED Named
    BY <1>3 DEF DropRoom, JoinMatch, LeaveMatch, Named, vars, redis, loop, history
  <2> QED BY <2>1, NameKept DEF Named
<1>4. ASSUME NEW q \in Queriers, NEW p \in Players, QueryGet(q, p) PROVE NameInv'
  <2>1. /\ result[p] # NoResult /\ UNCHANGED <<result, made, pc, pair, room>>
        /\ query' = [query EXCEPT ![q] = [player |-> p, room |-> result[p].room]]
    BY <1>4 DEF QueryGet, redis, loop, history
  <2>2. \E r \in made : r.id = query'[q].room /\ query'[q].player \in Of(r)
    BY <2>1 DEF TypeOK, NameInv, ResultNamesOwnRoom
  <2>3. \A k \in Queriers \ {q} : query'[k] = query[k]
    BY <2>1 DEF TypeOK
  <2> QED BY <2>1, <2>2, <2>3 DEF NameInv, ResultNamesOwnRoom
<1>5. ASSUME NEW q \in Queriers, QueryDel(q) PROVE NameInv'
  <2>1. /\ \A p \in Players : result'[p] # NoResult => result'[p] = result[p]
        /\ \A k \in Queriers : query'[k] # NoQuery => query'[k] = query[k]
        /\ UNCHANGED <<made, pc, pair, room>>
    BY <1>5 DEF TypeOK, QueryDel, loop
  <2> QED BY <2>1 DEF NameInv, ResultNamesOwnRoom
<1>6. ASSUME NEW g \in Games, MatchTick(g) PROVE NameInv'
  <2>1. CASE Wake(g) \/ PopPair(g) \/ PopNothing(g) \/ PopFailed(g) \/ NextRoomId(g)
             \/ NextRoomIdFailed(g) \/ PublishRoute(g) \/ ScanExpired(g) \/ ScanFailed(g)
             \/ RemoveExpired(g)
    <3>1. \E l \in {"idle", "pair", "incr", "create", "scan", "expire"} : pc' = [pc EXCEPT ![g] = l]
      BY <2>1 DEF Wake, PopPair, PopNothing, PopFailed, NextRoomId, NextRoomIdFailed,
                  PublishRoute, ScanExpired, ScanFailed, RemoveExpired, Goto, EndTick
    <3>2. UNCHANGED <<result, query, made>>
      BY <2>1 DEF Wake, PopPair, PopNothing, PopFailed, NextRoomId, NextRoomIdFailed,
                  PublishRoute, ScanExpired, ScanFailed, RemoveExpired, redis, history
    <3>3. \A h \in Games \ {g} : pair'[h] = pair[h]
      BY <2>1 DEF Wake, PopPair, PopNothing, PopFailed, NextRoomId, NextRoomIdFailed,
                  PublishRoute, ScanExpired, ScanFailed, RemoveExpired, TypeOK
    <3>4. \A h \in Games \ {g} : room'[h] = room[h]
      BY <2>1 DEF Wake, PopPair, PopNothing, PopFailed, NextRoomId, NextRoomIdFailed,
                  PublishRoute, ScanExpired, ScanFailed, RemoveExpired, TypeOK
    <3>5. \A h \in Games : pc'[h] \in {"result1", "result2", "route"} => h # g /\ pc[h] = pc'[h]
      BY <3>1 DEF TypeOK
    <3> QED BY <3>2, <3>3, <3>4, <3>5, NameKept
  <2>2. CASE CreateRoom(g)
    <3>1. PICK r : /\ r.id = room[g] /\ r.m1 = pair[g][1] /\ r.m2 = pair[g][2]
                   /\ made' = made \cup {r}
      BY <2>2 DEF CreateRoom
    <3>2. pc' = [pc EXCEPT ![g] = "result1"] /\ UNCHANGED <<result, query, pair, room>>
      BY <2>2 DEF CreateRoom, Goto, redis
    <3>3. ASSUME NEW h \in Games, pc'[h] \in {"result1", "result2", "route"}
          PROVE  \E s \in made' : s.id = room'[h] /\ s.m1 = pair'[h][1] /\ s.m2 = pair'[h][2]
      <4>1. CASE h = g
        BY <3>1, <3>2, <4>1
      <4>2. CASE h # g
        BY <3>1, <3>2, <3>3, <4>2 DEF TypeOK, NameInv
      <4> QED BY <4>1, <4>2
    <3>4. ResultNamesOwnRoom'
      BY <3>1, <3>2 DEF NameInv, ResultNamesOwnRoom
    <3> QED BY <3>3, <3>4 DEF NameInv
  <2>3. CASE PublishResults(g)
    <3>1. PICK m \in {pair[g][1], pair[g][2]}, from \in {"result1", "result2"},
               to \in {"result2", "route"} : PublishResult(g, from, m, to)
      BY <2>3 DEF PublishResults
    <3>2. /\ pc[g] \in {"result1", "result2"} /\ pc' = [pc EXCEPT ![g] = to]
          /\ UNCHANGED <<query, made, pair, room>>
      BY <3>1 DEF PublishResult, Goto
    <3>3. PICK r \in made : r.id = room[g] /\ m \in {r.m1, r.m2}
      BY <3>1, <3>2 DEF NameInv
    <3>4. \A p \in Players : result'[p] # NoResult =>
            \/ result'[p] = result[p]
            \/ p = m.player /\ result'[p].room = room[g]
      BY <3>1 DEF PublishResult, Answered, TypeOK
    <3>5. \A p \in Players : result'[p] # NoResult =>
            \E s \in made : s.id = result'[p].room /\ p \in Of(s)
      BY <3>3, <3>4 DEF NameInv, ResultNamesOwnRoom, Of
    <3>6. \A h \in Games : pc'[h] \in {"result1", "result2", "route"} =>
            pc[h] \in {"result1", "result2", "route"}
      BY <3>2 DEF TypeOK
    <3> QED BY <3>2, <3>5, <3>6 DEF NameInv, ResultNamesOwnRoom
  <2> QED BY <1>6, <2>1, <2>2, <2>3 DEF MatchTick
<1> QED BY <1>1, <1>2, <1>3, <1>4, <1>5, <1>6 DEF Next

\* A result, published or being read, names a room that was made with this player
\* in it, with any number of instances and queries (MatchTick, QueryMatchResult).
THEOREM OwnRoomNamed == Spec => []ResultNamesOwnRoom
<1>1. Init => NameInv
  BY DEF Init, NameInv, ResultNamesOwnRoom
<1>2. NameInv => ResultNamesOwnRoom
  BY DEF NameInv
<1> QED BY <1>1, <1>2, NameStep, TypeCorrect, PTL DEF Spec

-----------------------------------------------------------------------------
\* The inductive invariant behind NobodyPlaysHimself.
TwoPlayersInv ==
    /\ NobodyPlaysHimself
    /\ \A g \in Games : pair[g] # NoPair => pair[g][1].player # pair[g][2].player

LEMMA TwoPlayersStep ==
    ASSUME \A a, b \in Gateways : a = b, TypeOK, TwoPlayersInv, [Next]_vars
    PROVE  TwoPlayersInv'
<1>1. ASSUME NEW g \in Games, PopPair(g) PROVE TwoPlayersInv'
  <2>1. PICK two \in OldestTwo(pool[mode[g]]) : pair' = [pair EXCEPT ![g] = two]
    BY <1>1 DEF PopPair
  <2>2. two \in Members \X Members /\ two[1] # two[2]
    BY <2>1, OldestTwoType DEF TypeOK
  <2>3. two[1].player # two[2].player
    BY <2>2 DEF Members
  <2>4. made' = made
    BY <1>1 DEF PopPair, history
  <2> QED BY <2>1, <2>3, <2>4 DEF TypeOK, TwoPlayersInv, NobodyPlaysHimself
<1>2. ASSUME NEW g \in Games, CreateRoom(g) PROVE TwoPlayersInv'
  <2>1. PICK r : r.m1 = pair[g][1] /\ r.m2 = pair[g][2] /\ made' = made \cup {r}
    BY <1>2 DEF CreateRoom
  <2>2. pair[g] # NoPair /\ pair' = pair
    BY <1>2 DEF CreateRoom, TypeOK
  <2> QED BY <2>1, <2>2 DEF TwoPlayersInv, NobodyPlaysHimself
<1>3. CASE ~\E g \in Games : PopPair(g) \/ CreateRoom(g)
  <2>1. made' = made
    BY <1>3 DEF Next, vars, redis, loop, history, Advance, StartGame, Crash, DropRoom, JoinMatch,
                LeaveMatch, QueryGet, QueryDel, MatchTick, Wake, PopNothing, PopFailed, NextRoomId,
                NextRoomIdFailed, PublishResults, PublishResult, PublishRoute, ScanExpired,
                ScanFailed, RemoveExpired
  <2>2. pair' = pair \/ \E g \in Games : pair' = [pair EXCEPT ![g] = NoPair]
    BY <1>3 DEF Next, vars, redis, loop, history, Advance, StartGame, Crash, DropRoom, JoinMatch,
                LeaveMatch, QueryGet, QueryDel, MatchTick, Wake, PopNothing, PopFailed, NextRoomId,
                NextRoomIdFailed, PublishResults, PublishResult, PublishRoute, ScanExpired,
                ScanFailed, RemoveExpired
  <2> QED BY <2>1, <2>2 DEF TypeOK, TwoPlayersInv, NobodyPlaysHimself
<1> QED BY <1>1, <1>2, <1>3

\* Behind one gateway nobody is paired with himself, whatever he joins and how
\* often (the member of the pools is player and gateway, kPairLua).
THEOREM TwoPlayers ==
    ASSUME \A a, b \in Gateways : a = b
    PROVE  Spec => []NobodyPlaysHimself
<1>1. Init => TwoPlayersInv
  BY DEF Init, TwoPlayersInv, NobodyPlaysHimself
<1>2. TypeOK /\ TwoPlayersInv /\ [Next]_vars => TwoPlayersInv'
  BY TwoPlayersStep
<1>3. TwoPlayersInv => NobodyPlaysHimself
  BY DEF TwoPlayersInv
<1> QED BY <1>1, <1>2, <1>3, TypeCorrect, PTL DEF Spec
-----------------------------------------------------------------------------
\* Where the calls of JoinMatch of a member are: waiting in a pool, in the hands
\* of a match loop as first or second of a pair, or a room's.
InPools(m)  == {mo \in Modes : m \in DOMAIN pool[mo]}
InHand1(m)  == {g \in Games : pair[g] # NoPair /\ pair[g][1] = m /\ pc[g] \in {"incr", "create"}}
InHand2(m)  == {g \in Games : pair[g] # NoPair /\ pair[g][2] = m /\ pc[g] \in {"incr", "create"}}
InRooms1(m) == {r \in made : r.m1 = m}
InRooms2(m) == {r \in made : r.m2 = m}

\* The inductive invariant behind EntryPlaysOnce.
EntryInv == IsFiniteSet(made) /\ EntryPlaysOnce

LEMMA EntryCounts ==
    EntryPlaysOnce <=> \A m \in Members :
        Cardinality(InPools(m)) + (Cardinality(InHand1(m)) + Cardinality(InHand2(m)))
        + Cardinality(InRooms1(m)) + Cardinality(InRooms2(m)) <= joins[m]
BY DEF EntryPlaysOnce, Held, InPools, InHand1, InHand2, InRooms1, InRooms2

LEMMA ModesFinite == IsFiniteSet(Modes)
<1>1. IsFiniteSet({}) /\ IsFiniteSet({} \cup {0}) /\ IsFiniteSet(({} \cup {0}) \cup {1})
  BY FS_EmptySet, FS_AddElement
<1>2. Modes = ({} \cup {0}) \cup {1}
  BY DEF Modes
<1> QED BY <1>1, <1>2

\* All of these sets are finite.
LEMMA EntryFinite ==
    ASSUME IsFiniteSet(Games), IsFiniteSet(made), NEW m
    PROVE  /\ IsFiniteSet(InPools(m)) /\ Cardinality(InPools(m)) \in Nat
           /\ IsFiniteSet(InHand1(m)) /\ Cardinality(InHand1(m)) \in Nat
           /\ IsFiniteSet(InHand2(m)) /\ Cardinality(InHand2(m)) \in Nat
           /\ IsFiniteSet(InRooms1(m)) /\ Cardinality(InRooms1(m)) \in Nat
           /\ IsFiniteSet(InRooms2(m)) /\ Cardinality(InRooms2(m)) \in Nat
<1>1. /\ InPools(m) \in SUBSET Modes
      /\ InHand1(m) \in SUBSET Games /\ InHand2(m) \in SUBSET Games
      /\ InRooms1(m) \in SUBSET made /\ InRooms2(m) \in SUBSET made
  BY DEF InPools, InHand1, InHand2, InRooms1, InRooms2
<1>2. /\ IsFiniteSet(InPools(m)) /\ IsFiniteSet(InHand1(m)) /\ IsFiniteSet(InHand2(m))
      /\ IsFiniteSet(InRooms1(m)) /\ IsFiniteSet(InRooms2(m))
  BY <1>1, ModesFinite, FS_Subset
<1> QED BY <1>2, FS_CardinalityType

\* What moves from one set to another is counted once.
LEMMA Moved ==
    ASSUME NEW S, IsFiniteSet(S), NEW T, IsFiniteSet(T), NEW x, NEW y, x \in S, y \notin T,
           NEW S1, NEW T1, S1 = S \ {x}, T1 = T \cup {y}
    PROVE  Cardinality(S1) + Cardinality(T1) = Cardinality(S) + Cardinality(T)
<1>1. Cardinality(S \ {x}) = Cardinality(S) - 1
  BY FS_RemoveElement
<1>2. Cardinality(T \cup {y}) = Cardinality(T) + 1
  BY FS_AddElement
<1>3. Cardinality(S) \in Nat /\ Cardinality(T) \in Nat
  BY FS_CardinalityType
<1> QED BY <1>1, <1>2, <1>3

LEMMA NoMore ==
    ASSUME NEW S, IsFiniteSet(S), NEW S1, S1 \subseteq S
    PROVE  Cardinality(S1) \in Nat /\ Cardinality(S) \in Nat /\ Cardinality(S1) <= Cardinality(S)
<1>1. S1 \in SUBSET S
  OBVIOUS
<1> QED BY <1>1, FS_Subset, FS_CardinalityType

\* Nothing is added anywhere.
LEMMA EntryQuiet ==
    ASSUME IsFiniteSet(Games), TypeOK, EntryInv, UNCHANGED <<joins, made>>,
           \A m \in Members : /\ InPools(m)' \subseteq InPools(m)
                              /\ InHand1(m)' \subseteq InHand1(m)
                              /\ InHand2(m)' \subseteq InHand2(m)
    PROVE  EntryInv'
<1>1. IsFiniteSet(made)' /\ IsFiniteSet(made)
  BY DEF EntryInv
<1>2. ASSUME NEW m \in Members
      PROVE  Cardinality(InPools(m)') + (Cardinality(InHand1(m)') + Cardinality(InHand2(m)'))
             + Cardinality(InRooms1(m)') + Cardinality(InRooms2(m)') <= joins'[m]
  <2>1. /\ Cardinality(InPools(m)') \in Nat /\ Cardinality(InPools(m)) \in Nat
        /\ Cardinality(InPools(m)') <= Cardinality(InPools(m))
    BY <1>1, EntryFinite, NoMore
  <2>2. /\ Cardinality(InHand1(m)') \in Nat /\ Cardinality(InHand1(m)) \in Nat
        /\ Cardinality(InHand1(m)') <= Cardinality(InHand1(m))
    BY <1>1, EntryFinite, NoMore
  <2>3. /\ Cardinality(InHand2(m)') \in Nat /\ Cardinality(InHand2(m)) \in Nat
        /\ Cardinality(InHand2(m)') <= Cardinality(InHand2(m))
    BY <1>1, EntryFinite, NoMore
  <2>4. InRooms1(m)' = InRooms1(m) /\ InRooms2(m)' = InRooms2(m)
    BY DEF InRooms1, InRooms2
  <2>5. Cardinality(InRooms1(m)) \in Nat /\ Cardinality(InRooms2(m)) \in Nat
    BY <1>1, EntryFinite
  <2>6. joins[m] \in Nat /\ joins'[m] = joins[m]
    BY DEF TypeOK
  <2>7. Cardinality(InPools(m)) + (Cardinality(InHand1(m)) + Cardinality(InHand2(m)))
        + Cardinality(InRooms1(m)) + Cardinality(InRooms2(m)) <= joins[m]
    BY EntryCounts DEF EntryInv
  <2> QED BY <2>1, <2>2, <2>3, <2>4, <2>5, <2>6, <2>7
<1>3. EntryPlaysOnce'
  BY <1>2 DEF EntryPlaysOnce, Held, InPools, InHand1, InHand2, InRooms1, InRooms2
<1> QED BY <1>1, <1>3 DEF EntryInv
\* A call of JoinMatch waits in one pool more, or again in the same.
LEMMA EntryJoin ==
    ASSUME IsFiniteSet(Games), TypeOK, EntryInv,
           NEW n \in Members, NEW mo \in Modes, JoinMatch(n, mo)
    PROVE  EntryInv'
<1>1. /\ IsFiniteSet(made)' /\ IsFiniteSet(made) /\ joins' = [joins EXCEPT ![n] = @ + 1]
      /\ pool' = [pool EXCEPT ![mo] = ZAdd(@, n, 0)] /\ UNCHANGED <<made, pair, pc>>
  BY DEF JoinMatch, EntryInv, loop
<1>2. ASSUME NEW m \in Members
      PROVE  Cardinality(InPools(m)') + (Cardinality(InHand1(m)') + Cardinality(InHand2(m)'))
             + Cardinality(InRooms1(m)') + Cardinality(InRooms2(m)') <= joins'[m]
  <2>1. /\ InHand1(m)' = InHand1(m) /\ InHand2(m)' = InHand2(m)
        /\ InRooms1(m)' = InRooms1(m) /\ InRooms2(m)' = InRooms2(m)
    BY <1>1 DEF InHand1, InHand2, InRooms1, InRooms2
  <2>2. /\ Cardinality(InPools(m)) \in Nat /\ IsFiniteSet(InPools(m))
        /\ Cardinality(InHand1(m)) \in Nat /\ Cardinality(InHand2(m)) \in Nat
        /\ Cardinality(InRooms1(m)) \in Nat /\ Cardinality(InRooms2(m)) \in Nat
    BY <1>1, EntryFinite
  <2>3. Cardinality(InPools(m)) + (Cardinality(InHand1(m)) + Cardinality(InHand2(m)))
        + Cardinality(InRooms1(m)) + Cardinality(InRooms2(m)) <= joins[m]
    BY EntryCounts DEF EntryInv
  <2>4. DOMAIN ZAdd(pool[mo], n, 0) = DOMAIN pool[mo] \cup {n}
    BY DEF ZAdd
  <2>5. CASE m = n
    <3>1. InPools(m)' \subseteq InPools(m) \cup {mo}
      BY <1>1 DEF InPools, TypeOK
    <3>2. /\ IsFiniteSet(InPools(m) \cup {mo})
          /\ Cardinality(InPools(m) \cup {mo}) <= Cardinality(InPools(m)) + 1
      <4>1. /\ IsFiniteSet(InPools(m) \cup {mo})
            /\ \/ Cardinality(InPools(m) \cup {mo}) = Cardinality(InPools(m))
               \/ Cardinality(InPools(m) \cup {mo}) = Cardinality(InPools(m)) + 1
        BY <2>2, FS_AddElement
      <4> HIDE DEF InPools
      <4> QED BY <2>2, <4>1
    <3>3. Cardinality(InPools(m)') \in Nat
          /\ Cardinality(InPools(m)') <= Cardinality(InPools(m) \cup {mo})
          /\ Cardinality(InPools(m) \cup {mo}) \in Nat
      BY <3>1, <3>2, NoMore
    <3>4. joins'[m] = joins[m] + 1 /\ joins[m] \in Nat
      BY <1>1, <2>5 DEF TypeOK
    <3> QED BY <2>1, <2>2, <2>3, <3>2, <3>3, <3>4
  <2>6. CASE m # n
    <3>1. InPools(m)' \subseteq InPools(m)
      BY <1>1, <2>4, <2>6 DEF InPools, TypeOK
    <3>2. Cardinality(InPools(m)') \in Nat /\ Cardinality(InPools(m)') <= Cardinality(InPools(m))
      BY <2>2, <3>1, NoMore
    <3>3. joins'[m] = joins[m] /\ joins[m] \in Nat
      BY <1>1, <2>6 DEF TypeOK
    <3> QED BY <2>1, <2>2, <2>3, <3>2, <3>3
  <2> QED BY <2>5, <2>6
<1>3. EntryPlaysOnce'
  BY <1>2 DEF EntryPlaysOnce, Held, InPools, InHand1, InHand2, InRooms1, InRooms2
<1> QED BY <1>1, <1>3 DEF EntryInv

\* The two that are popped go from the pool to the hand of the one that popped.
LEMMA EntryPop ==
    ASSUME IsFiniteSet(Games), TypeOK, EntryInv, NEW g \in Games, PopPair(g)
    PROVE  EntryInv'
<1>1. PICK two \in OldestTwo(pool[mode[g]]) :
        /\ pool' = [pool EXCEPT ![mode[g]] = Popped(@, two)]
        /\ pair' = [pair EXCEPT ![g] = two]
  BY DEF PopPair
<1>2. /\ IsFiniteSet(made)' /\ IsFiniteSet(made) /\ UNCHANGED <<made, joins>>
      /\ pc[g] = "pair" /\ pc' = [pc EXCEPT ![g] = "incr"]
  BY DEF PopPair, Goto, history, EntryInv
<1>3. /\ two[1] \in DOMAIN pool[mode[g]] /\ two[2] \in DOMAIN pool[mode[g]]
      /\ two[1] # two[2] /\ two # NoPair
  BY OldestTwoType DEF TypeOK
<1>4. /\ mode[g] \in Modes /\ pool \in [Modes -> Zsets] /\ pc \in [Games -> Labels]
      /\ pair \in [Games -> {NoPair} \cup (Members \X Members)]
  BY DEF TypeOK
<1>5. DOMAIN pool'[mode[g]] = DOMAIN pool[mode[g]] \ {two[1], two[2]}
      /\ \A mo \in Modes : mo # mode[g] => pool'[mo] = pool[mo]
  BY <1>1, <1>4 DEF Popped, ZRem
<1>6. ASSUME NEW m \in Members
      PROVE  Cardinality(InPools(m)') + (Cardinality(InHand1(m)') + Cardinality(InHand2(m)'))
             + Cardinality(InRooms1(m)') + Cardinality(InRooms2(m)') <= joins'[m]
  <2>1. InRooms1(m)' = InRooms1(m) /\ InRooms2(m)' = InRooms2(m) /\ joins'[m] = joins[m]
    BY <1>2 DEF InRooms1, InRooms2
  <2>2. /\ Cardinality(InPools(m)) \in Nat /\ IsFiniteSet(InPools(m))
        /\ Cardinality(InHand1(m)) \in Nat /\ IsFiniteSet(InHand1(m))
        /\ Cardinality(InHand2(m)) \in Nat /\ IsFiniteSet(InHand2(m))
        /\ Cardinality(InRooms1(m)) \in Nat /\ Cardinality(InRooms2(m)) \in Nat
    BY <1>2, EntryFinite
  <2>3. /\ Cardinality(InPools(m)) + (Cardinality(InHand1(m)) + Cardinality(InHand2(m)))
           + Cardinality(InRooms1(m)) + Cardinality(InRooms2(m)) <= joins[m]
        /\ joins[m] \in Nat
    BY EntryCounts DEF EntryInv, TypeOK
  <2>4. g \notin InHand1(m) /\ g \notin InHand2(m)
    BY <1>2 DEF InHand1, InHand2
  <2>5. InHand1(m)' = IF two[1] = m THEN InHand1(m) \cup {g} ELSE InHand1(m)
    BY <1>1, <1>2, <1>3, <1>4 DEF InHand1
  <2>6. InHand2(m)' = IF two[2] = m THEN InHand2(m) \cup {g} ELSE InHand2(m)
    BY <1>1, <1>2, <1>3, <1>4 DEF InHand2
  <2>7. InPools(m)' = IF m \in {two[1], two[2]} THEN InPools(m) \ {mode[g]} ELSE InPools(m)
    BY <1>4, <1>5 DEF InPools
  <2>8. m \in {two[1], two[2]} => mode[g] \in InPools(m)
    BY <1>3, <1>4 DEF InPools
  <2>9. CASE m = two[1]
    <3>1. InHand2(m)' = InHand2(m)
      BY <1>3, <2>6, <2>9
    <3>2. Cardinality(InPools(m)') + Cardinality(InHand1(m)')
            = Cardinality(InPools(m)) + Cardinality(InHand1(m))
      BY <2>2, <2>4, <2>5, <2>7, <2>8, <2>9, Moved
    <3>3. Cardinality(InPools(m)') \in Nat /\ Cardinality(InHand1(m)') \in Nat
      BY <2>2, <2>5, <2>7, <2>9, FS_AddElement, FS_RemoveElement, FS_CardinalityType
    <3> QED BY <2>1, <2>2, <2>3, <3>1, <3>2, <3>3
  <2>10. CASE m = two[2]
    <3>1. InHand1(m)' = InHand1(m)
      BY <1>3, <2>5, <2>10
    <3>2. Cardinality(InPools(m)') + Cardinality(InHand2(m)')
            = Cardinality(InPools(m)) + Cardinality(InHand2(m))
      BY <2>2, <2>4, <2>6, <2>7, <2>8, <2>10, Moved
    <3>3. Cardinality(InPools(m)') \in Nat /\ Cardinality(InHand2(m)') \in Nat
      BY <2>2, <2>6, <2>7, <2>10, FS_AddElement, FS_RemoveElement, FS_CardinalityType
    <3> QED BY <2>1, <2>2, <2>3, <3>1, <3>2, <3>3
  <2>11. CASE m # two[1] /\ m # two[2]
    BY <2>1, <2>3, <2>5, <2>6, <2>7, <2>11
  <2> QED BY <2>9, <2>10, <2>11
<1>7. EntryPlaysOnce'
  BY <1>6 DEF EntryPlaysOnce, Held, InPools, InHand1, InHand2, InRooms1, InRooms2
<1> QED BY <1>2, <1>7 DEF EntryInv

\* The pair goes from the hand into a room, which is a new one.
LEMMA EntryCreate ==
    ASSUME IsFiniteSet(Games), TypeOK, RoomIdInv, EntryInv, NEW g \in Games, CreateRoom(g)
    PROVE  EntryInv'
<1> DEFINE r == [id |-> room[g], game |-> g, mode |-> mode[g],
                 m1 |-> pair[g][1], m2 |-> pair[g][2]]
<1>1. /\ made' = made \cup {r} /\ UNCHANGED <<pool, pair, joins>>
      /\ pc[g] = "create" /\ pc' = [pc EXCEPT ![g] = "result1"]
  BY DEF CreateRoom, Goto, redis
<1>2. r \notin made
  <2>1. \A s \in made : s.id # room[g]
    BY <1>1 DEF RoomIdInv
  <2> QED BY <2>1
<1>3. r.m1 = pair[g][1] /\ r.m2 = pair[g][2]
  OBVIOUS
<1> HIDE DEF r
<1>4. IsFiniteSet(made) /\ IsFiniteSet(made')
  BY <1>1, FS_AddElement DEF EntryInv
<1>5. pair[g] # NoPair /\ pc \in [Games -> Labels]
  BY <1>1 DEF TypeOK
<1>6. ASSUME NEW m \in Members
      PROVE  Cardinality(InPools(m)') + (Cardinality(InHand1(m)') + Cardinality(InHand2(m)'))
             + Cardinality(InRooms1(m)') + Cardinality(InRooms2(m)') <= joins'[m]
  <2>1. InPools(m)' = InPools(m) /\ joins'[m] = joins[m]
    BY <1>1 DEF InPools
  <2>2. /\ Cardinality(InPools(m)) \in Nat
        /\ IsFiniteSet(InHand1(m)) /\ Cardinality(InHand1(m)) \in Nat
        /\ IsFiniteSet(InHand2(m)) /\ Cardinality(InHand2(m)) \in Nat
        /\ IsFiniteSet(InRooms1(m)) /\ Cardinality(InRooms1(m)) \in Nat
        /\ IsFiniteSet(InRooms2(m)) /\ Cardinality(InRooms2(m)) \in Nat
    BY <1>4, EntryFinite
  <2>3. /\ Cardinality(InPools(m)) + (Cardinality(InHand1(m)) + Cardinality(InHand2(m)))
           + Cardinality(InRooms1(m)) + Cardinality(InRooms2(m)) <= joins[m]
        /\ joins[m] \in Nat
    BY EntryCounts DEF EntryInv, TypeOK
  <2>4. /\ Cardinality(InHand1(m)') + Cardinality(InRooms1(m)')
             = Cardinality(InHand1(m)) + Cardinality(InRooms1(m))
        /\ Cardinality(InHand1(m)') \in Nat /\ Cardinality(InRooms1(m)') \in Nat
    <3>1. InHand1(m)' = InHand1(m) \ {g}
      BY <1>1, <1>5 DEF InHand1
    <3>2. CASE pair[g][1] = m
      <4>1. InRooms1(m)' = InRooms1(m) \cup {r} /\ r \notin InRooms1(m)
        BY <1>1, <1>2, <1>3, <3>2 DEF InRooms1
      <4>2. g \in InHand1(m)
        BY <1>1, <1>5, <3>2 DEF InHand1
      <4>3. Cardinality(InHand1(m)') + Cardinality(InRooms1(m)')
              = Cardinality(InHand1(m)) + Cardinality(InRooms1(m))
        BY <2>2, <3>1, <4>1, <4>2, Moved
      <4>4. Cardinality(InHand1(m)') \in Nat
        BY <2>2, <3>1, FS_RemoveElement, FS_CardinalityType
      <4>5. Cardinality(InRooms1(m)') \in Nat
        BY <2>2, <4>1, FS_AddElement, FS_CardinalityType
      <4> QED BY <4>3, <4>4, <4>5
    <3>3. CASE pair[g][1] # m
      <4>1. InRooms1(m)' = InRooms1(m)
        BY <1>1, <1>3, <3>3 DEF InRooms1
      <4>2. InHand1(m)' = InHand1(m)
        BY <3>1, <3>3 DEF InHand1
      <4> QED BY <2>2, <4>1, <4>2
    <3> QED BY <3>2, <3>3
  <2>5. /\ Cardinality(InHand2(m)') + Cardinality(InRooms2(m)')
             = Cardinality(InHand2(m)) + Cardinality(InRooms2(m))
        /\ Cardinality(InHand2(m)') \in Nat /\ Cardinality(InRooms2(m)') \in Nat
    <3>1. InHand2(m)' = InHand2(m) \ {g}
      BY <1>1, <1>5 DEF InHand2
    <3>2. CASE pair[g][2] = m
      <4>1. InRooms2(m)' = InRooms2(m) \cup {r} /\ r \notin InRooms2(m)
        BY <1>1, <1>2, <1>3, <3>2 DEF InRooms2
      <4>2. g \in InHand2(m)
        BY <1>1, <1>5, <3>2 DEF InHand2
      <4>3. Cardinality(InHand2(m)') + Cardinality(InRooms2(m)')
              = Cardinality(InHand2(m)) + Cardinality(InRooms2(m))
        BY <2>2, <3>1, <4>1, <4>2, Moved
      <4>4. Cardinality(InHand2(m)') \in Nat
        BY <2>2, <3>1, FS_RemoveElement, FS_CardinalityType
      <4>5. Cardinality(InRooms2(m)') \in Nat
        BY <2>2, <4>1, FS_AddElement, FS_CardinalityType
      <4> QED BY <4>3, <4>4, <4>5
    <3>3. CASE pair[g][2] # m
      <4>1. InRooms2(m)' = InRooms2(m)
        BY <1>1, <1>3, <3>3 DEF InRooms2
      <4>2. InHand2(m)' = InHand2(m)
        BY <3>1, <3>3 DEF InHand2
      <4> QED BY <2>2, <4>1, <4>2
    <3> QED BY <3>2, <3>3
  <2> QED BY <2>1, <2>2, <2>3, <2>4, <2>5
<1>7. EntryPlaysOnce'
  BY <1>6 DEF EntryPlaysOnce, Held, InPools, InHand1, InHand2, InRooms1, InRooms2
<1> QED BY <1>4, <1>7 DEF EntryInv

\* Every other step of a match loop, a crash included, adds to nothing.
LEMMA EntryMatchTick ==
    ASSUME IsFiniteSet(Games), TypeOK, EntryInv, NEW g \in Games,
           MatchTick(g) \/ StartGame(g) \/ Crash(g), ~PopPair(g), ~CreateRoom(g)
    PROVE  EntryInv'
<1>1. UNCHANGED <<joins, made>>
  BY DEF MatchTick, StartGame, Crash, Wake, PopNothing, PopFailed, NextRoomId, NextRoomIdFailed,
         PublishResults, PublishResult, PublishRoute, ScanExpired, ScanFailed, RemoveExpired,
         history
<1>2. \A mo \in Modes : DOMAIN pool'[mo] \subseteq DOMAIN pool[mo]
  <2>1. \A z, R : DOMAIN ZRem(z, R) \subseteq DOMAIN z
    BY DEF ZRem
  <2>2. \/ pool' = pool
        \/ \E R : pool' = [pool EXCEPT ![mode[g]] = ZRem(@, R)]
    BY DEF MatchTick, StartGame, Crash, Wake, PopNothing, PopFailed, NextRoomId, NextRoomIdFailed,
         PublishResults, PublishResult, PublishRoute, ScanExpired, ScanFailed, RemoveExpired,
         redis, Popped
  <2> QED BY <2>1, <2>2 DEF TypeOK
<1>3. pair' = pair \/ pair' = [pair EXCEPT ![g] = NoPair]
  BY DEF MatchTick, StartGame, Crash, Wake, PopNothing, PopFailed, NextRoomId, NextRoomIdFailed,
         PublishResults, PublishResult, PublishRoute, ScanExpired, ScanFailed, RemoveExpired
<1>4. \A h \in Games : pc'[h] \in {"incr", "create"} => pc[h] \in {"incr", "create"}
  <2>1. \/ \E l \in Labels \ {"incr", "create"} : pc' = [pc EXCEPT ![g] = l]
        \/ pc[g] = "incr" /\ pc' = [pc EXCEPT ![g] = "create"]
    BY DEF MatchTick, StartGame, Crash, Wake, PopNothing, PopFailed, NextRoomId, NextRoomIdFailed,
         PublishResults, PublishResult, PublishRoute, ScanExpired, ScanFailed, RemoveExpired,
         Goto, EndTick, Labels
  <2> QED BY <2>1 DEF TypeOK
<1>5. ASSUME NEW m \in Members
      PROVE  /\ InPools(m)' \subseteq InPools(m)
             /\ InHand1(m)' \subseteq InHand1(m)
             /\ InHand2(m)' \subseteq InHand2(m)
  <2>1. \A h \in Games : pair'[h] # NoPair => pair'[h] = pair[h]
    BY <1>3 DEF TypeOK
  <2> QED BY <1>2, <1>4, <2>1 DEF InPools, InHand1, InHand2
<1> QED BY <1>1, <1>5, EntryQuiet

LEMMA EntryStep ==
    ASSUME IsFiniteSet(Games), TypeOK, RoomIdInv, EntryInv, [Next]_vars
    PROVE  EntryInv'
<1>1. ASSUME NEW g \in Games, MatchTick(g) \/ StartGame(g) \/ Crash(g) PROVE EntryInv'
  BY <1>1, EntryPop, EntryCreate, EntryMatchTick
<1>2. ASSUME NEW m \in Members, NEW mo \in Modes, JoinMatch(m, mo) PROVE EntryInv'
  BY <1>2, EntryJoin
<1>3. ASSUME NEW m \in Members, NEW mo \in Modes, LeaveMatch(m, mo) PROVE EntryInv'
  <2>1. DOMAIN ZRem(pool[mo], {m}) \subseteq DOMAIN pool[mo]
    BY DEF ZRem
  <2>2. \A k \in Modes : DOMAIN pool'[k] \subseteq DOMAIN pool[k]
    BY <1>3, <2>1 DEF LeaveMatch, TypeOK
  <2>3. UNCHANGED <<joins, made, pc, pair>>
    BY <1>3 DEF LeaveMatch, loop, history
  <2> QED BY <2>2, <2>3, EntryQuiet DEF InPools, InHand1, InHand2
<1>4. CASE Advance
  <2>1. \A k \in Modes : DOMAIN pool'[k] \subseteq DOMAIN pool[k]
    BY <1>4 DEF Advance
  <2>2. UNCHANGED <<joins, made, pc, pair>>
    BY <1>4 DEF Advance, loop, history
  <2> QED BY <2>1, <2>2, EntryQuiet DEF InPools, InHand1, InHand2
<1>5. CASE (\E g \in Games : \E id \in rooms[g] : DropRoom(g, id))
           \/ (\E q \in Queriers : QueryDel(q) \/ \E p \in Players : QueryGet(q, p))
           \/ UNCHANGED vars
  <2>1. UNCHANGED <<pool, joins, made, pc, pair>>
    BY <1>5 DEF DropRoom, QueryDel, QueryGet, vars, redis, loop, history
  <2> QED BY <2>1, EntryQuiet DEF InPools, InHand1, InHand2
<1> QED BY <1>1, <1>2, <1>3, <1>4, <1>5 DEF Next

\* A call of JoinMatch is good for one room at most, with any number of instances
\* that pop from the pools at once, fail and die (kPairLua, MatchTick).
THEOREM OneRoomPerJoin ==
    ASSUME IsFiniteSet(Games)
    PROVE  Spec => []EntryPlaysOnce
<1>1. Init => EntryInv
  <2> SUFFICES ASSUME Init PROVE EntryInv
    OBVIOUS
  <2>1. made = {} /\ IsFiniteSet({}) /\ Cardinality({}) = 0
    BY FS_EmptySet DEF Init
  <2>2. ASSUME NEW m \in Members
        PROVE  /\ InPools(m) = {} /\ InHand1(m) = {} /\ InHand2(m) = {}
               /\ InRooms1(m) = {} /\ InRooms2(m) = {} /\ joins[m] = 0
    BY DEF Init, InPools, InHand1, InHand2, InRooms1, InRooms2
  <2>3. EntryPlaysOnce
    BY <2>1, <2>2, EntryCounts
  <2> QED BY <2>1, <2>3 DEF EntryInv
<1>2. TypeOK /\ RoomIdInv /\ EntryInv /\ [Next]_vars => EntryInv'
  BY EntryStep
<1>3. EntryInv => EntryPlaysOnce
  BY DEF EntryInv
<1> QED BY <1>1, <1>2, <1>3, RoomIdsCounted, TypeCorrect, PTL DEF Spec
=============================================================================
