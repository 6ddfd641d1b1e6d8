-------------------------------- MODULE Room --------------------------------
(***************************************************************************)
(* One battle room of the game server and the goroutines that work on it:  *)
(* internal/game/room.go, with the parts of internal/game/service.go that  *)
(* reach a room (SubmitOp, QuitRoom, TickAll).                             *)
(*                                                                         *)
(* Threads.  Ticker is the tick goroutine: every 50 ms TickAll runs        *)
(* Room.Tick and then drops the rooms that finished long enough ago.  Each *)
(* member of Handlers is a goroutine of a QuitRoom call.  A section under  *)
(* r.mu is one action, except the tick's, whose loop over the inputs is    *)
(* one action per input: Locked says that the tick holds r.mu meanwhile.   *)
(* Everything the code does with r.mu released (finish, the score calls,   *)
(* the pushes) is a step of its own, so other threads come in between.     *)
(*                                                                         *)
(* Time.  One Advance is one tick period.  age and finishedFor are         *)
(* now-CreatedMs and now-FinishMs in periods, saturating just above the    *)
(* limit the code compares them with, where every comparison it makes has  *)
(* the same outcome.  due is the one-place channel of the time.Ticker:     *)
(* a period that ends while the last one is unserved is dropped.           *)
(*                                                                         *)
(* Data.  The plane is a line of integers (the code uses the distance of   *)
(* two players and clamps each coordinate alike).  A frame or a snapshot   *)
(* is its sequence number.  RoomPlayer.Score is left out: it is added to   *)
(* and never read.  Names and gateway addresses play no role in a room.    *)
(***************************************************************************)
EXTENDS Integers, Sequences, FiniteSets

CONSTANTS
    P1, P2, NoPlayer,            \* ids of the two players; id 0
    Callers,                     \* ids that QuitRoom may be called with
    Ticker, Handlers,            \* threads
    MaxHp, AtkDamage, SkillDamage, AtkRange, SkillRange,
    AtkCooldown, SkillCooldown,  \* AtkCooldownFrames, SkillCooldownFrames
    MapSize, SpawnOffset,
    MoveStep,                    \* MoveSpeed*dt, the way one tick may cover
    Timeout, FinishCleanup,      \* TimeoutMs, FinishCleanupMs in tick periods
    WinScore, LoseScore,
    Inputs,                      \* the OpInput messages clients send
    MaxPending,                  \* bound on pendingOps; the code has none
    MaxUnreached                 \* bound on the players to whom pushes fail; it has none

ASSUME PlayersAssumption ==
    /\ P1 # P2                   \* the two members of a pair (MatchTick)
    /\ NoPlayer \notin {P1, P2}  \* id 0 is no account
    /\ Ticker \notin Handlers

ASSUME NumbersAssumption ==
    /\ {MaxHp, AtkDamage, SkillDamage, WinScore, LoseScore} \subseteq Nat \ {0}
    /\ {AtkRange, SkillRange, AtkCooldown, SkillCooldown, MapSize, SpawnOffset,
        MoveStep, Timeout, FinishCleanup} \subseteq Nat
    /\ SpawnOffset <= MapSize

ASSUME InputsAssumption ==
    \A op \in Inputs : op.type \in STRING /\ op.dx \in Int

VARIABLES
    \* Room
    tickCount, started, finished, outcome, pendingOps,
    \* RoomPlayer, by player
    hp, alive, pos, step, lastAtk, lastSkill,
    \* the service's map of rooms and its clock
    listed,      \* this room is in gs.rooms
    age, finishedFor, due,
    \* threads
    pc,
    caller,      \* the playerID argument of each QuitRoom call
    verdict,     \* the arguments of the finish call each thread is about to make
    overtime,    \* the tick's local now-CreatedMs > TimeoutMs
    \* what the world has received from this room
    frames,      \* the last frame (snapshot) that reached each player when it was pushed
    missed,      \* a frame did not reach him: the push failed, or was too late
    credit,      \* ranking points credited to each player
    sent,        \* pushes of the result to each player
    results      \* those that reached him

battle  == <<hp, alive, pos, step, lastAtk, lastSkill>>
clock   == <<age, finishedFor, due>>
outside == <<frames, missed, credit, sent, results>>
vars == <<tickCount, started, finished, outcome, pendingOps, battle, listed,
          clock, pc, caller, verdict, overtime, outside>>

Players == {P1, P2}
Threads == {Ticker} \cup Handlers
Other(p) == IF p = P1 THEN P2 ELSE P1

Undecided == [winner |-> NoPlayer, loser |-> NoPlayer, reason |-> ""]
Won(w, reason) == [winner |-> w, loser |-> Other(w), reason |-> reason]
Draw == [winner |-> NoPlayer, loser |-> NoPlayer, reason |-> "draw"]

\* Mutant: the tick calls finish with r.mu held, which finish takes itself.
LockedInFinish == pc[Ticker] \in {"consume", "finish"}

\* The tick goroutine holds r.mu.
Locked == pc[Ticker] = "consume"

Goto(t, label) == pc' = [pc EXCEPT ![t] = label]
\* The call ends: TickAll goes on to its clean-up, a QuitRoom call returns.
Return(t) == /\ Goto(t, IF t = Ticker THEN "cleanup" ELSE "idle")
             /\ caller' = [h \in Handlers |-> IF h = t THEN NoPlayer ELSE caller[h]]

-----------------------------------------------------------------------------
\* NewRoom with the two players MatchTick builds.
Init ==
    /\ tickCount = 0 /\ started = FALSE
    /\ finished = FALSE /\ outcome = Undecided
    /\ pendingOps = <<>>
    /\ hp = [p \in Players |-> MaxHp]
    /\ alive = [p \in Players |-> TRUE]
    /\ pos = [p \in Players |-> 0]
    /\ step = [p \in Players |-> 0]
    /\ lastAtk = [p \in Players |-> 0]
    /\ lastSkill = [p \in Players |-> 0]
    /\ listed = TRUE
    /\ age = 0 /\ finishedFor = 0 /\ due = FALSE
    /\ pc = [t \in Threads |-> "idle"]
    /\ caller = [h \in Handlers |-> NoPlayer]
    /\ verdict = [t \in Threads |-> Undecided]
    /\ overtime = FALSE
    /\ frames = [p \in Players |-> 0]
    /\ missed = [p \in Players |-> FALSE]
    /\ credit = [p \in Players |-> 0]
    /\ sent = [p \in Players |-> 0]
    /\ results = [p \in Players |-> 0]

-----------------------------------------------------------------------------
\* The wall clock and the time.Ticker of tickLoop.
Saturate(n, limit) == IF n > limit THEN n ELSE n + 1

Advance ==
    /\ age' = Saturate(age, Timeout)
    /\ finishedFor' = IF finished THEN Saturate(finishedFor, FinishCleanup) ELSE 0
    /\ due' = TRUE
    /\ UNCHANGED <<tickCount, started, finished, outcome, pendingOps, battle,
                   listed, pc, caller, verdict, overtime, outside>>

-----------------------------------------------------------------------------
\* GameService.SubmitOp and Room.SubmitOp.  A call that finds no room, a
\* finished room or an id that is not in the room changes nothing.
SubmitOp(p, op) ==
    /\ ~Locked
    /\ listed /\ ~finished
    /\ Len(pendingOps) < MaxPending
    /\ pendingOps' = Append(pendingOps, [player |-> p, op |-> op])
    /\ UNCHANGED <<tickCount, started, finished, outcome, battle, listed, clock,
                   pc, caller, verdict, overtime, outside>>

\* GameService.QuitRoom finds the room under roomsLock and releases it.
QuitRoom(h, id) ==
    /\ pc[h] = "idle"
    /\ listed
    /\ caller' = [caller EXCEPT ![h] = id]
    /\ Goto(h, "quit")
    /\ UNCHANGED <<tickCount, started, finished, outcome, pendingOps, battle,
                   listed, clock, verdict, overtime, outside>>

\* Room.OnPlayerQuit up to the unlock: the finish that follows is another
\* step.
\* Mutant: the check of Finished is missing.
CanQuitLate(id) == id \in Players /\ alive[id]

CanQuit(id) == ~finished /\ id \in Players /\ alive[id]

QuitAccepted(h) ==
    /\ pc[h] = "quit" /\ ~Locked
    /\ CanQuit(caller[h])
    /\ alive' = [alive EXCEPT ![caller[h]] = FALSE]
    /\ hp' = [hp EXCEPT ![caller[h]] = 0]
    /\ verdict' = [verdict EXCEPT ![h] = Won(Other(caller[h]), "opponent_left")]
    /\ Goto(h, "finish")
    /\ UNCHANGED <<tickCount, started, finished, outcome, pendingOps, pos, step,
                   lastAtk, lastSkill, listed, clock, caller, overtime, outside>>

QuitIgnored(h) ==
    /\ pc[h] = "quit" /\ ~Locked
    /\ ~CanQuit(caller[h])
    /\ Return(h)
    /\ UNCHANGED <<tickCount, started, finished, outcome, pendingOps, battle,
                   listed, clock, verdict, overtime, outside>>

-----------------------------------------------------------------------------
\* TickAll reaches this room: IsFinished, then Tick up to its input loop.
TickStart ==
    /\ pc[Ticker] = "idle" /\ due
    /\ listed /\ ~finished
    /\ due' = FALSE
    /\ tickCount' = tickCount + 1
    /\ overtime' = (age > Timeout)
    /\ Goto(Ticker, "consume")
    /\ UNCHANGED <<started, finished, outcome, pendingOps, battle, listed, age,
                   finishedFor, caller, verdict, outside>>

TickSkip ==
    /\ pc[Ticker] = "idle" /\ due
    /\ ~listed \/ finished
    /\ due' = FALSE
    /\ Goto(Ticker, "cleanup")
    /\ UNCHANGED <<tickCount, started, finished, outcome, pendingOps, battle,
                   listed, age, finishedFor, caller, verdict, overtime, outside>>

\* Mutants: 0 taken for 'has not attacked yet'; the cooldown holds for the first strike only.
ReadyAtFirst(last, cooldown) == last = 0 \/ tickCount - last >= cooldown
ReadyForGood(last, cooldown) == tickCount >= cooldown

\* The cooldown, in logical frames.
Ready(last, cooldown) == tickCount - last >= cooldown

\* Room.ApplyOp, case OP_MOVE.  step is 0 when the code's Stepping is false.
Move(p, op) ==
    /\ op.type = "MOVE"
    /\ step' = [step EXCEPT ![p] = op.dx]
    /\ UNCHANGED <<hp, alive, pos, lastAtk, lastSkill>>

Distance(p, q) == IF pos[p] < pos[q] THEN pos[q] - pos[p] ELSE pos[p] - pos[q]

\* The checks behind the cooldown; the target may be the attacker himself.
Hits(p, target, range) ==
    target \in Players /\ alive[target] /\ Distance(p, target) <= range

Strike(p, target, range, damage) ==
    hp' = IF Hits(p, target, range) THEN [hp EXCEPT ![target] = @ - damage] ELSE hp

\* Cases OP_ATK and OP_SKILL: the cooldown starts even if nobody is hit.
Atk(p, op) ==
    /\ op.type = "ATK"
    /\ Ready(lastAtk[p], AtkCooldown)
    /\ lastAtk' = [lastAtk EXCEPT ![p] = tickCount]
    /\ Strike(p, op.target, AtkRange, AtkDamage)
    /\ UNCHANGED <<alive, pos, step, lastSkill>>

Skill(p, op) ==
    /\ op.type = "SKILL"
    /\ Ready(lastSkill[p], SkillCooldown)
    /\ lastSkill' = [lastSkill EXCEPT ![p] = tickCount]
    /\ Strike(p, op.target, SkillRange, SkillDamage)
    /\ UNCHANGED <<alive, pos, step, lastAtk>>

\* On cooldown, or an input type the room does not know.
NoEffect(p, op) ==
    /\ \/ op.type = "ATK" /\ ~Ready(lastAtk[p], AtkCooldown)
       \/ op.type = "SKILL" /\ ~Ready(lastSkill[p], SkillCooldown)
       \/ op.type \notin {"MOVE", "ATK", "SKILL"}
    /\ UNCHANGED battle

ApplyOp(p, op) == Move(p, op) \/ Atk(p, op) \/ Skill(p, op) \/ NoEffect(p, op)

\* One round of the loop over pendingOps; a dead player's input is dropped.
ConsumeOp ==
    /\ Locked /\ pendingOps # <<>>
    /\ LET rec == Head(pendingOps)
       IN IF alive[rec.player] THEN ApplyOp(rec.player, rec.op)
                               ELSE UNCHANGED battle
    /\ pendingOps' = Tail(pendingOps)
    /\ UNCHANGED <<tickCount, started, finished, outcome, listed, clock, pc,
                   caller, verdict, overtime, outside>>

-----------------------------------------------------------------------------
\* The rest of Tick's section under r.mu, by the way it ends.
AllConsumed == Locked /\ pendingOps = <<>>

\* First frame: spawn points, no simulation.
Spawn ==
    /\ AllConsumed /\ ~started
    /\ started' = TRUE
    /\ pos' = [p \in Players |-> IF p = P1 THEN SpawnOffset ELSE MapSize - SpawnOffset]
    /\ Goto(Ticker, "push1")
    /\ UNCHANGED <<tickCount, finished, outcome, pendingOps, hp, alive, step,
                   lastAtk, lastSkill, listed, clock, caller, verdict, overtime,
                   outside>>

Clamp(v) == IF v < 0 THEN 0 ELSE IF v > MapSize THEN MapSize ELSE v

\* What of the remaining way s one tick covers.
Stride(s) == IF s > MoveStep THEN MoveStep ELSE IF s < -MoveStep THEN -MoveStep ELSE s

Walk ==
    /\ pos' = [p \in Players |-> IF alive[p] THEN Clamp(pos[p] + Stride(step[p]))
                                             ELSE pos[p]]
    /\ step' = [p \in Players |-> IF alive[p] THEN step[p] - Stride(step[p])
                                              ELSE step[p]]

Fallen(p) == alive[p] /\ hp[p] <= 0
\* Mutant: the players are looked at in the other order.
FirstFallenSwapped == IF Fallen(P2) THEN P2 ELSE P1

\* P1 is looked at first: when both fell in this tick, P1 is the dead one.
FirstFallen == IF Fallen(P1) THEN P1 ELSE P2

Kill ==
    /\ AllConsumed /\ started
    /\ Walk
    /\ Fallen(P1) \/ Fallen(P2)
    /\ alive' = [alive EXCEPT ![FirstFallen] = FALSE]
    /\ hp' = [hp EXCEPT ![FirstFallen] = 0]
    /\ verdict' = [verdict EXCEPT ![Ticker] = Won(Other(FirstFallen), "kill")]
    /\ Goto(Ticker, "finish")
    /\ UNCHANGED <<tickCount, started, finished, outcome, pendingOps, lastAtk,
                   lastSkill, listed, clock, caller, overtime, outside>>

\* Mutant: no draw.
VerdictOnTimeNoDraw == Won(IF hp[P1] >= hp[P2] THEN P1 ELSE P2, "timeout")

VerdictOnTime == IF hp[P1] = hp[P2] THEN Draw
                 ELSE Won(IF hp[P1] > hp[P2] THEN P1 ELSE P2, "timeout")

\* The HP values are read here, the finish call comes after the unlock.
TimeUp ==
    /\ AllConsumed /\ started
    /\ Walk
    /\ ~Fallen(P1) /\ ~Fallen(P2)
    /\ overtime
    /\ verdict' = [verdict EXCEPT ![Ticker] = VerdictOnTime]
    /\ Goto(Ticker, "finish")
    /\ UNCHANGED <<tickCount, started, finished, outcome, pendingOps, hp, alive,
                   lastAtk, lastSkill, listed, clock, caller, overtime, outside>>

Broadcast ==
    /\ AllConsumed /\ started
    /\ Walk
    /\ ~Fallen(P1) /\ ~Fallen(P2)
    /\ ~overtime
    /\ Goto(Ticker, "push1")
    /\ UNCHANGED <<tickCount, started, finished, outcome, pendingOps, hp, alive,
                   lastAtk, lastSkill, listed, clock, caller, verdict, overtime,
                   outside>>

\* A push to player p may fail.
Unreachable(p) ==
    Cardinality({q \in Players : missed[q] \/ results[q] < sent[q]} \cup {p}) <= MaxUnreached

\* pushFrame/pushSnapshot of player p, with r.mu released.  A push that fails or times out is
\* logged, and the tick goes on; what becomes of a late one is in Wire.
PushFrame(from, p, to) ==
    /\ pc[Ticker] = from
    /\ \/ frames' = [frames EXCEPT ![p] = tickCount] /\ UNCHANGED missed
       \/ Unreachable(p) /\ missed' = [missed EXCEPT ![p] = TRUE] /\ UNCHANGED frames
    /\ Goto(Ticker, to)
    /\ UNCHANGED <<tickCount, started, finished, outcome, pendingOps, battle,
                   listed, clock, caller, verdict, overtime, credit, sent, results>>

\* Mutant: the tick gives up at the first push that fails.
PushFramesOrStop ==
    \/ PushFrame("push1", P1, IF missed'[P1] THEN "cleanup" ELSE "push2")
    \/ PushFrame("push2", P2, "cleanup")

\* To P1 and then to P2.
PushFrames == PushFrame("push1", P1, "push2") \/ PushFrame("push2", P2, "cleanup")

-----------------------------------------------------------------------------
\* Mutants: finish is not idempotent; it ignores a room that has not started.
NeverOver == FALSE
OverUntilStarted == finished \/ ~started

\* Room.finish: idempotent by its check of Finished.
AlreadyOver == finished

Finish(t) ==
    /\ pc[t] = "finish" /\ ~Locked
    /\ ~AlreadyOver
    /\ finished' = TRUE
    /\ finishedFor' = 0
    /\ outcome' = verdict[t]
    /\ verdict' = [verdict EXCEPT ![t] = Undecided]
    /\ Goto(t, IF verdict[t].winner # NoPlayer THEN "score1" ELSE "result1")
    /\ UNCHANGED <<tickCount, started, pendingOps, battle, listed, age, due,
                   caller, overtime, outside>>

FinishTwice(t) ==
    /\ pc[t] = "finish" /\ ~Locked
    /\ AlreadyOver
    /\ verdict' = [verdict EXCEPT ![t] = Undecided]
    /\ Return(t)
    /\ UNCHANGED <<tickCount, started, finished, outcome, pendingOps, battle,
                   listed, clock, overtime, outside>>

\* Mutant: a failed score call ends the settlement.
SubmitScoreOrGiveUp(t, from, p, score, to) ==
    /\ pc[t] = from
    /\ \/ credit' = [credit EXCEPT ![p] = @ + score] /\ Goto(t, to) /\ UNCHANGED caller
       \/ UNCHANGED credit /\ Return(t)
    /\ UNCHANGED <<tickCount, started, finished, outcome, pendingOps, battle,
                   listed, clock, verdict, overtime, frames, missed, sent,
                   results>>

\* pushResult: submitScore of p.  The call may fail before or after the
\* ranking was changed; either way it is logged and not repeated.
SubmitScore(t, from, p, score, to) ==
    /\ pc[t] = from
    /\ \/ credit' = [credit EXCEPT ![p] = @ + score]
       \/ UNCHANGED credit
    /\ Goto(t, to)
    /\ UNCHANGED <<tickCount, started, finished, outcome, pendingOps, battle,
                   listed, clock, caller, verdict, overtime, frames, missed, sent,
                   results>>

SubmitScores(t) == \/ SubmitScore(t, "score1", outcome.winner, WinScore, "score2")
                   \/ SubmitScore(t, "score2", outcome.loser, LoseScore, "result1")

\* pushResult: the result to player p; a push that fails is logged and not repeated.
PushResult(p) ==
    /\ sent' = [sent EXCEPT ![p] = @ + 1]
    /\ \/ results' = [results EXCEPT ![p] = @ + 1]
       \/ Unreachable(p) /\ UNCHANGED results
    /\ UNCHANGED <<tickCount, started, finished, outcome, pendingOps, battle, listed,
                   clock, verdict, overtime, frames, missed, credit>>

\* To P1 and then to P2.
PushResult1(t) == pc[t] = "result1" /\ PushResult(P1) /\ Goto(t, "result2") /\ UNCHANGED caller
PushResult2(t) == pc[t] = "result2" /\ PushResult(P2) /\ Return(t)

\* Mutant: the delay is counted from the room's creation.
ExpiredByAge == age > FinishCleanup

Expired == finished /\ finishedFor > FinishCleanup

\* The end of TickAll: the room leaves the map FinishCleanup after its end.
Cleanup ==
    /\ pc[Ticker] = "cleanup"
    /\ listed' = (listed /\ ~Expired)
    /\ Goto(Ticker, "idle")
    /\ UNCHANGED <<tickCount, started, finished, outcome, pendingOps, battle,
                   clock, caller, verdict, overtime, outside>>

-----------------------------------------------------------------------------
Settle(t) == \/ Finish(t) \/ FinishTwice(t)
             \/ SubmitScores(t) \/ PushResult1(t) \/ PushResult2(t)

Tick == \/ TickStart \/ TickSkip \/ ConsumeOp \/ Spawn \/ Kill \/ TimeUp
        \/ Broadcast \/ PushFrames \/ Settle(Ticker) \/ Cleanup

OnPlayerQuit(h) == QuitAccepted(h) \/ QuitIgnored(h) \/ Settle(h)

Next == \/ Advance
        \/ \E p \in Players, op \in Inputs : SubmitOp(p, op)
        \/ \E h \in Handlers, id \in Callers : QuitRoom(h, id)
        \/ \E h \in Handlers : OnPlayerQuit(h)
        \/ Tick

\* Time passes, the tick goroutine is scheduled, and a QuitRoom call that was
\* made runs on: its remote calls are bounded by 3 s and 5 s deadlines.
\* Nobody is obliged to send inputs or to quit.
Fairness == /\ WF_vars(Advance)
            /\ WF_vars(Tick)
            /\ \A h \in Handlers : WF_vars(OnPlayerQuit(h))

Spec == Init /\ [][Next]_vars /\ Fairness

-----------------------------------------------------------------------------
(* PROPERTIES *)

Verdicts == {Won(p, reason) : p \in Players, reason \in {"kill", "opponent_left", "timeout"}}
            \cup {Draw}

TickLabels   == {"idle", "consume", "push1", "push2", "cleanup"}
QuitLabels   == {"idle", "quit"}
SettleLabels == {"finish", "score1", "score2", "result1", "result2"}

\* Every variable has its type, and every thread is at a label of its own code.
TypeOK ==
    /\ tickCount \in Nat
    /\ started \in BOOLEAN /\ finished \in BOOLEAN
    /\ outcome \in Verdicts \cup {Undecided}
    /\ pendingOps \in Seq([player : Players, op : Inputs])
    /\ hp \in [Players -> Int]
    /\ alive \in [Players -> BOOLEAN]
    /\ pos \in [Players -> 0..MapSize]
    /\ step \in [Players -> Int]
    /\ lastAtk \in [Players -> Nat]
    /\ lastSkill \in [Players -> Nat]
    /\ listed \in BOOLEAN
    /\ age \in Nat /\ finishedFor \in Nat /\ due \in BOOLEAN
    /\ pc \in [Threads -> TickLabels \cup QuitLabels \cup SettleLabels]
    /\ pc[Ticker] \in TickLabels \cup SettleLabels
    /\ \A h \in Handlers : pc[h] \in QuitLabels \cup SettleLabels
    /\ caller \in [Handlers -> Callers \cup {NoPlayer}]
    /\ verdict \in [Threads -> Verdicts \cup {Undecided}]
    /\ overtime \in BOOLEAN
    /\ frames \in [Players -> Nat] /\ missed \in [Players -> BOOLEAN]
    /\ credit \in [Players -> Nat]
    /\ sent \in [Players -> Nat]
    /\ results \in [Players -> Nat]

\* A player who fell or quit is never forgotten: the room is finished, or a
\* thread has the verdict in hand and is about to call finish.  The death is
\* marked under r.mu and finish takes r.mu again, so other threads run in
\* between (OnPlayerQuit, Tick steps 4 and 5).
DeathIsBeingSettled ==
    (\E p \in Players : ~alive[p]) => finished \/ \E t \in Threads : pc[t] = "finish"

\* What a verdict says of the two players is true of them: a loser by kill or by
\* leaving is down with 0 HP, the winner on time has HP left and more than the
\* loser, a draw means equal HP, unless the one in question left since.
Fits(v) ==
    \/ /\ v.reason \in {"kill", "opponent_left"}
       /\ ~alive[v.loser]
    \/ /\ v.reason = "timeout"
       /\ alive[v.winner] => hp[v.winner] > 0 /\ hp[v.winner] > hp[v.loser]
    \/ /\ v.reason = "draw"
       /\ alive[P1] /\ alive[P2] => hp[P1] = hp[P2]

\* The published result fits the players, though it is published later than
\* the HP were read, with other threads in between (Tick steps 4 and 5, finish).
OutcomeFitsBattle == finished => Fits(outcome)

\* The inductive invariant behind it: the dead have 0 HP and are never hit
\* again; every verdict on its way to finish fits; only the tick decides by HP,
\* and it consumes no input between that decision and its finish.
BattleInv ==
    /\ \A p \in Players : ~alive[p] => hp[p] = 0
    /\ \A h \in Handlers : pc[h] = "finish" => verdict[h].reason = "opponent_left"
    /\ \A t \in Threads : pc[t] = "finish" => verdict[t] \in Verdicts /\ Fits(verdict[t])
    /\ finished => ~Locked /\ outcome \in Verdicts /\ Fits(outcome)

\* The threads that won finish and are still publishing.
Settling(t) == pc[t] \in {"score1", "score2", "result1", "result2"}

\* The inductive invariant behind KeepsPromise: one thread at most publishes, and
\* what it has still to send has not been sent.
SettlementInv ==
    /\ finished <=> outcome # Undecided
    /\ finished => ~Locked
    /\ ~finished => \A p \in Players : credit[p] = 0 /\ sent[p] = 0
    /\ \A p \in Players : results[p] \in 0..sent[p]
    /\ \A t \in Threads :
         /\ pc[t] = "finish" => verdict[t] \in Verdicts
         /\ Settling(t) => finished /\ \A u \in Threads : Settling(u) => u = t
         /\ pc[t] \in {"score1", "score2"} => outcome.winner # NoPlayer
         /\ pc[t] = "score1" => \A p \in Players : credit[p] = 0
         /\ pc[t] = "score2" => credit[outcome.loser] = 0
         /\ pc[t] \in {"score1", "score2", "result1"} => \A p \in Players : sent[p] = 0
         /\ pc[t] = "result2" => sent[P2] = 0

\* Outside the tick's section a player stands with no HP left only as the P2
\* of a mutual kill, whom the order of Tick's death check makes the winner; no
\* frame or snapshot that shows it is ever built.
StandsWithoutHp(p) == alive[p] /\ hp[p] <= 0

MutualKillFavoursP2 ==
    ~Locked =>
      /\ ~StandsWithoutHp(P1)
      /\ StandsWithoutHp(P2) => ~alive[P1] /\ pc[Ticker] \notin {"push1", "push2"}

\* Inputs that arrive before the first tick find both players at the origin, at
\* distance 0; only the cooldown, counted from frame 0, keeps them harmless
\* (ApplyOp before the spawn in Tick).
NoDamageBeforeSpawn ==
    ~started => \A p \in Players : alive[p] => hp[p] = MaxHp

\* However the inputs are timed or batched, a standing player has lost at most
\* what two attackers may deal by now at one attack per AtkCooldownFrames and
\* one skill per SkillCooldownFrames.
DamageWithinCooldown ==
    \A p \in Players : alive[p] =>
        MaxHp - hp[p] <= 2 * (  AtkDamage * (tickCount \div AtkCooldown)
                              + SkillDamage * (tickCount \div SkillCooldown))

\* A player to whom every push succeeds is kept in step: he has every frame but perhaps the
\* tick's last, whatever becomes of the pushes to the other, of a quit between two of them, or of
\* a result that another thread pushes meanwhile (Tick step 6, pushFrame).
FramesInLockstep ==
    \A p \in Players : frames[p] <= tickCount /\ (missed[p] \/ tickCount <= frames[p] + 1)

\* What reaches a player at once reaches him in order and once, and without a gap as long as no
\* push to him failed: the frame number counts ticks, and a tick that ends the battle sends none
\* (Tick steps 4-6).
FramesInOrder ==
    [][\A p \in Players :
        frames'[p] # frames[p] =>
            /\ frames'[p] > frames[p]
            /\ missed[p] \/ frames'[p] = frames[p] + 1]_vars

\* Nothing changes a finished room: not a quit that was looked up before, not
\* an input, not a second verdict, not the tick (the checks of Finished under
\* r.mu in SubmitOp, OnPlayerQuit, finish and Tick).
OutcomeIsFinal ==
    [][finished => UNCHANGED <<finished, outcome, tickCount, started, battle,
                               pendingOps>>]_vars

\* TickAll drops no room that is still being fought, whatever thread holds a
\* reference to it, and never while the tick goroutine itself is settling it.
RemovedWhenOver ==
    ~listed => finished /\ pc[Ticker] \in {"idle", "cleanup"}

\* The room keeps the promise of Settlement: one outcome, no credit or result
\* twice, though several threads may reach finish with different verdicts.
Promise == INSTANCE Settlement
KeepsPromise == Promise!Spec

\* A room ends, if not otherwise then on time; the result is pushed to both its players, it is
\* removed, and every QuitRoom call returns, though it competes with the tick for r.mu
\* and a score call may fail.
RoomIsClosed ==
    /\ <>((\A p \in Players : sent[p] = 1) /\ ~listed)
    /\ \A h \in Handlers : pc[h] = "quit" ~> pc[h] = "idle"
=============================================================================
