------------------------------ MODULE FrameSync ------------------------------
(***************************************************************************)
(* Frame synchronisation (mode 0): the server applies the inputs of a tick *)
(* in their order of arrival and broadcasts them ordered by player id; a   *)
(* client replays the frames with the same rules and never sees the        *)
(* server's state again after the first, full frame.  Server:              *)
(* internal/game/room.go.  Client: examples/interactive_client.py.         *)
(*                                                                         *)
(* Frames reach the client in order and none is lost on the way; nobody    *)
(* leaves.  But the room may tick before the client has its MatchRsp, and  *)
(* start_match throws away most of what it reads meanwhile.  What threads  *)
(* and failures do to a room is the subject of Room; here the data counts. *)
(* A simulation is one record of functions on the players, the plane a     *)
(* line of integers as in Room.                                            *)
(***************************************************************************)
EXTENDS Integers, SequencesExt

CONSTANTS P1, P2,              \* the players, in the order of the room
          LowId,               \* the one with the smaller id
          MaxHp, AtkDamage, SkillDamage, AtkRange, SkillRange,
          AtkCooldown, SkillCooldown, MapSize, SpawnOffset, MoveStep,
          Inputs,              \* OpInput messages the clients send
          EarlyInputs,         \* those they send before the first tick
          MaxPending,          \* bound on the inputs of one tick
          MaxFrames,           \* bound on the length of the battle, in ticks
          MaxInFlight          \* bound on the frames on their way

ASSUME FrameSyncAssumption ==
    /\ P1 # P2 /\ LowId \in {P1, P2}
    /\ MaxHp \in Nat \ {0} /\ AtkDamage \in Nat /\ SkillDamage \in Nat
    /\ AtkRange \in Nat /\ SkillRange \in Nat /\ AtkCooldown \in Nat /\ SkillCooldown \in Nat
    /\ MapSize \in Nat /\ SpawnOffset \in 0..MapSize /\ MoveStep \in Nat
    /\ EarlyInputs \subseteq Inputs /\ \A op \in Inputs : op.dx \in Int
    /\ MaxPending \in 0..12      \* so many inputs sort.Slice sorts stably
    /\ MaxFrames \in Nat /\ MaxInFlight \in Nat

VARIABLES server,              \* the server's simulation
          started, seq,        \* Room.Started, Room.TickCount
          over,                \* the tick has found a dead player
          pendingOps,          \* inputs in order of arrival
          channel,             \* frames on their way to the client
          client,              \* the client's simulation
          synced,              \* the client has had the full frame
          waiting,             \* start_match waits for the MatchRsp
          lost                 \* it threw a frame away

vars == <<server, started, seq, over, pendingOps, channel, client, synced, waiting, lost>>

Players == {P1, P2}
HighId == IF LowId = P1 THEN P2 ELSE P1

Fresh == [hp |-> [p \in Players |-> MaxHp], alive |-> [p \in Players |-> TRUE],
          pos |-> [p \in Players |-> 0], step |-> [p \in Players |-> 0],
          lastAtk |-> [p \in Players |-> 0], lastSkill |-> [p \in Players |-> 0]]

-----------------------------------------------------------------------------
\* The rules both sides follow, as functions of a simulation.
Distance(s, p, q) == IF s.pos[p] < s.pos[q] THEN s.pos[q] - s.pos[p]
                                           ELSE s.pos[p] - s.pos[q]

Strike(s, p, target, range, damage) ==
    IF target \in Players /\ s.alive[target] /\ Distance(s, p, target) <= range
    THEN [s EXCEPT !.hp[target] = @ - damage]
    ELSE s

\* ApplyOp in frame n.  Nobody dies of it: a player with no HP left still acts
\* and is still hit in this frame.
ApplyOp(s, n, p, op) ==
    CASE op.type = "MOVE" -> [s EXCEPT !.step[p] = op.dx]
      [] op.type = "ATK" /\ n - s.lastAtk[p] >= AtkCooldown ->
           Strike([s EXCEPT !.lastAtk[p] = n], p, op.target, AtkRange, AtkDamage)
      [] op.type = "SKILL" /\ n - s.lastSkill[p] >= SkillCooldown ->
           Strike([s EXCEPT !.lastSkill[p] = n], p, op.target, SkillRange, SkillDamage)
      [] OTHER -> s

\* An input of the loop; a dead player's is skipped.
ConsumeOp(s, n, rec) == IF s.alive[rec.player] THEN ApplyOp(s, n, rec.player, rec.op) ELSE s

\* The loop over the inputs.
Consume(s, n, ops) ==
    LET after[i \in 0..Len(ops)] == IF i = 0 THEN s ELSE ConsumeOp(after[i-1], n, ops[i])
    IN  after[Len(ops)]

Clamp(v) == IF v < 0 THEN 0 ELSE IF v > MapSize THEN MapSize ELSE v
Stride(d) == IF d > MoveStep THEN MoveStep ELSE IF d < -MoveStep THEN -MoveStep ELSE d

Walk(s) ==
    [s EXCEPT !.pos = [p \in Players |-> IF s.alive[p] THEN Clamp(s.pos[p] + Stride(s.step[p]))
                                                       ELSE s.pos[p]],
              !.step = [p \in Players |-> IF s.alive[p] THEN s.step[p] - Stride(s.step[p])
                                                        ELSE s.step[p]]]

\* Mutant: 0 HP is still standing.
FallenBelow(s) == {p \in Players : s.alive[p] /\ s.hp[p] < 0}

Fallen(s) == {p \in Players : s.alive[p] /\ s.hp[p] <= 0}

Bury(s, dead) == [s EXCEPT !.alive = [p \in Players |-> @[p] /\ p \notin dead],
                           !.hp = [p \in Players |-> IF p \in dead THEN 0 ELSE @[p]]]

-----------------------------------------------------------------------------
\* The inputs of one player, in order.
OpsOf(ops, p) ==
    LET own[i \in 0..Len(ops)] ==
            IF i = 0 THEN <<>>
            ELSE IF ops[i].player = p THEN Append(own[i-1], ops[i]) ELSE own[i-1]
    IN  own[Len(ops)]

\* Mutant: the order of one player's inputs is lost.
SortedUnstably(ops) == Reverse(OpsOf(ops, LowId)) \o Reverse(OpsOf(ops, HighId))

\* sort.Slice by player id.  It promises no stability, but sorts up to 12
\* elements by insertion, which keeps one player's inputs in their order.
Sorted(ops) == OpsOf(ops, LowId) \o OpsOf(ops, HighId)

Frame(full, s, n, ops) ==
    [full |-> full, seq |-> n, ops |-> Sorted(ops),
     entities |-> IF full THEN [pos |-> s.pos, hp |-> s.hp, alive |-> s.alive] ELSE <<>>]

Init == /\ server = Fresh /\ client = Fresh
        /\ started = FALSE /\ synced = FALSE /\ over = FALSE
        /\ seq = 0
        /\ pendingOps = <<>> /\ channel = <<>>
        /\ waiting = TRUE /\ lost = FALSE

SubmitOp(p, op) ==
    /\ ~over
    /\ started \/ op \in EarlyInputs
    /\ Len(pendingOps) < MaxPending
    /\ pendingOps' = Append(pendingOps, [player |-> p, op |-> op])
    /\ UNCHANGED <<server, started, seq, over, channel, client, synced, waiting, lost>>

\* Room.Tick, first frame.
FirstTick ==
    /\ ~started
    /\ LET s == [Consume(server, 1, pendingOps) EXCEPT
                   !.pos = [p \in Players |-> IF p = P1 THEN SpawnOffset
                                                        ELSE MapSize - SpawnOffset]]
       IN /\ server' = s
          /\ channel' = Append(channel, Frame(TRUE, s, 1, pendingOps))
    /\ started' = TRUE /\ seq' = 1 /\ pendingOps' = <<>>
    /\ UNCHANGED <<over, client, synced, waiting, lost>>

\* Room.Tick, the other frames; the tick that finds a dead player sends none.
Tick ==
    /\ started /\ ~over /\ seq < MaxFrames /\ Len(channel) < MaxInFlight
    /\ LET s == Walk(Consume(server, seq + 1, pendingOps))
       IN IF Fallen(s) = {}
          THEN /\ server' = s
               /\ channel' = Append(channel, Frame(FALSE, s, seq + 1, pendingOps))
               /\ UNCHANGED over
          ELSE /\ server' = Bury(s, IF P1 \in Fallen(s) THEN {P1} ELSE {P2})
               /\ over' = TRUE
               /\ UNCHANGED channel
    /\ seq' = seq + 1 /\ pendingOps' = <<>>
    /\ UNCHANGED <<started, client, synced, waiting, lost>>

\* _apply_frame: the full frame sets the entities and drops the frame's inputs;
\* a later frame is applied to what the client has, if it has anything.
TakeFullFrame ==
    /\ channel # <<>> /\ Head(channel).full
    /\ LET e == Head(channel).entities
       IN client' = [Fresh EXCEPT !.pos = e.pos, !.hp = e.hp, !.alive = e.alive]
    /\ synced' = TRUE
    /\ channel' = Tail(channel)
    /\ UNCHANGED <<server, started, seq, over, pendingOps, waiting, lost>>

TakeFrame ==
    /\ ~waiting
    /\ channel # <<>> /\ ~Head(channel).full
    /\ LET f == Head(channel)
           s == Walk(Consume(client, f.seq, f.ops))
       IN client' = IF synced THEN Bury(s, Fallen(s)) ELSE client
    /\ channel' = Tail(channel)
    /\ UNCHANGED <<server, started, seq, over, pendingOps, synced, waiting, lost>>

\* start_match: a frame that comes before the MatchRsp is thrown away if it is not full.
ThrowAway ==
    /\ waiting
    /\ channel # <<>> /\ ~Head(channel).full
    /\ channel' = Tail(channel)
    /\ lost' = TRUE
    /\ UNCHANGED <<server, started, seq, over, pendingOps, client, synced, waiting>>

\* start_match returns with the MatchRsp; the frames read along with it are thrown away.
MatchRsp ==
    /\ waiting
    /\ waiting' = FALSE
    /\ \/ UNCHANGED <<channel, lost>>
       \/ \E k \in 1..Len(channel) :
             /\ channel' = SubSeq(channel, k + 1, Len(channel))
             /\ lost' = TRUE
    /\ UNCHANGED <<server, started, seq, over, pendingOps, client, synced>>

Next == \/ \E p \in Players, op \in Inputs : SubmitOp(p, op)
        \/ FirstTick \/ Tick \/ TakeFullFrame \/ TakeFrame \/ ThrowAway \/ MatchRsp

Spec == Init /\ [][Next]_vars

-----------------------------------------------------------------------------
(* PROPERTIES *)

\* While the battle lasts, a client that has replayed every frame sent has the
\* server's simulation, although it applied the inputs in another order: inputs of
\* different players in one frame commute, those of one player keep their order (the
\* server's arrival order in Tick against the order of buildFrameDataLocked).  On the
\* way there no frame makes it bury a player: it hears of a death by the result only.
\* All this as long as start_match has thrown nothing away.
ClientFollowsServer ==
    ~lost => /\ started /\ ~over /\ channel = <<>> => client = server
             /\ \A p \in Players : client.alive[p] /\ (synced => client.hp[p] > 0)
=============================================================================
