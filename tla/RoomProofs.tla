----------------------------- MODULE RoomProofs -----------------------------
(***************************************************************************)
(* Theorems about Room for every value of its constants that meets the     *)
(* assumptions named there: its types and verdicts, and that a room        *)
(* implements the safety part of Settlement: whatever the tick and the     *)
(* quitters do, one outcome is decided and nothing is credited or          *)
(* delivered twice.  The last part is about the rules of the battle.       *)
(***************************************************************************)
EXTENDS Room, SequenceTheorems, TLAPS

USE DEF Goto, Return

-----------------------------------------------------------------------------
\* An attack changes HP by whole numbers only.
LEMMA StrikeType ==
    ASSUME hp \in [Players -> Int], NEW p, NEW target, NEW range, NEW damage \in Int,
           Strike(p, target, range, damage)
    PROVE  hp' \in [Players -> Int]
<1>1. CASE Hits(p, target, range)
  <2>1. target \in Players /\ hp' = [hp EXCEPT ![target] = @ - damage]
    BY <1>1 DEF Strike, Hits
  <2>2. QED
    BY <2>1
<1>2. CASE ~Hits(p, target, range)
  BY <1>2 DEF Strike
<1>3. QED
  BY <1>1, <1>2

\* Consuming an input keeps the type of everything it may change.
LEMMA ApplyOpType ==
    ASSUME TypeOK, NEW p \in Players, NEW op \in Inputs, ApplyOp(p, op)
    PROVE  /\ hp' \in [Players -> Int]
           /\ step' \in [Players -> Int]
           /\ lastAtk' \in [Players -> Nat]
           /\ lastSkill' \in [Players -> Nat]
           /\ UNCHANGED <<alive, pos>>
<1> USE PlayersAssumption, NumbersAssumption, InputsAssumption
<1>0. op.dx \in Int /\ AtkDamage \in Int /\ SkillDamage \in Int
  OBVIOUS
<1>1. CASE Move(p, op)
  BY <1>0, <1>1 DEF TypeOK, Move
<1>2. CASE Atk(p, op)
  <2>1. hp' \in [Players -> Int]
    BY <1>0, <1>2, StrikeType DEF TypeOK, Atk
  <2>2. QED
    BY <1>2, <2>1 DEF TypeOK, Atk
<1>3. CASE Skill(p, op)
  <2>1. hp' \in [Players -> Int]
    BY <1>0, <1>3, StrikeType DEF TypeOK, Skill
  <2>2. QED
    BY <1>3, <2>1 DEF TypeOK, Skill
<1>4. CASE NoEffect(p, op)
  BY <1>4 DEF TypeOK, NoEffect, battle
<1>5. QED
  BY <1>1, <1>2, <1>3, <1>4 DEF ApplyOp

\* An input changes no one's Alive, and the HP of no one who has fallen.
LEMMA ApplyOpFrame ==
    ASSUME TypeOK, ConsumeOp
    PROVE  /\ UNCHANGED <<alive, pc, verdict, finished>>
           /\ \A q \in Players : ~alive[q] => hp'[q] = hp[q]
<1>1. \/ UNCHANGED battle
      \/ \E p, op : ApplyOp(p, op)
  BY DEF ConsumeOp
<1>2. ASSUME NEW p, NEW target, NEW range, NEW damage, Strike(p, target, range, damage)
      PROVE  \A q \in Players : ~alive[q] => hp'[q] = hp[q]
  BY <1>2 DEF TypeOK, Strike, Hits
<1>3. ASSUME NEW p, NEW op, ApplyOp(p, op)
      PROVE  UNCHANGED alive /\ \A q \in Players : ~alive[q] => hp'[q] = hp[q]
  BY <1>2, <1>3 DEF ApplyOp, Move, Atk, Skill, NoEffect, battle
<1>4. QED
  BY <1>1, <1>3 DEF ConsumeOp, battle

\* One tick's walk ends on the map.
LEMMA WalkType ==
    ASSUME TypeOK, Walk
    PROVE  pos' \in [Players -> 0..MapSize] /\ step' \in [Players -> Int]
<1>1. MoveStep \in Nat /\ MapSize \in Nat
  BY NumbersAssumption
<1>2. \A s \in Int : Stride(s) \in Int
  BY <1>1 DEF Stride
<1>3. \A v \in Int : Clamp(v) \in 0..MapSize
  BY <1>1 DEF Clamp
<1>4. ASSUME NEW p \in Players
      PROVE  /\ Clamp(pos[p] + Stride(step[p])) \in 0..MapSize
             /\ step[p] - Stride(step[p]) \in Int
  <2>1. pos[p] \in 0..MapSize /\ step[p] \in Int
    BY DEF TypeOK
  <2>2. Stride(step[p]) \in Int
    BY <1>2, <2>1
  <2>3. pos[p] + Stride(step[p]) \in Int
    BY <1>1, <2>1, <2>2
  <2>4. Clamp(pos[p] + Stride(step[p])) \in 0..MapSize
    BY <1>3, <2>3
  <2>5. QED
    BY <2>1, <2>2, <2>4
<1>5. pos' \in [Players -> 0..MapSize]
  BY <1>4 DEF TypeOK, Walk
<1>6. step' \in [Players -> Int]
  BY <1>4 DEF TypeOK, Walk
<1>7. QED
  BY <1>5, <1>6

LEMMA OtherPlayer ==
    ASSUME NEW p \in Players
    PROVE  Other(p) \in Players /\ Other(p) # p
  BY PlayersAssumption DEF Players, Other

LEMMA WonIsVerdict ==
    ASSUME NEW p \in Players, NEW r \in {"kill", "opponent_left", "timeout"}
    PROVE  Won(p, r) \in Verdicts
  BY DEF Verdicts

LEMMA TypeStep == TypeOK /\ [Next]_vars => TypeOK'
<1> SUFFICES ASSUME TypeOK, [Next]_vars PROVE TypeOK'
  OBVIOUS
<1> USE PlayersAssumption
<1> USE DEF TickLabels, QuitLabels, SettleLabels
<1>1. CASE Advance
  <2>1. Timeout \in Nat /\ FinishCleanup \in Nat
    BY NumbersAssumption
  <2>2. age' \in Nat /\ finishedFor' \in Nat
    BY <1>1, <2>1 DEF TypeOK, Advance, Saturate
  <2>3. QED
    BY <1>1, <2>2 DEF TypeOK, Advance, battle, outside
<1>2. ASSUME NEW p \in Players, NEW op \in Inputs, SubmitOp(p, op) PROVE TypeOK'
  <2>1. pendingOps' \in Seq([player : Players, op : Inputs])
    BY <1>2 DEF TypeOK, SubmitOp
  <2>2. QED
    BY <1>2, <2>1 DEF TypeOK, SubmitOp, battle, clock, outside
<1>3. ASSUME NEW h \in Handlers, NEW id \in Callers, QuitRoom(h, id) PROVE TypeOK'
  BY <1>3 DEF TypeOK, QuitRoom, battle, clock, outside, Threads
<1>4. ASSUME NEW h \in Handlers, QuitAccepted(h) PROVE TypeOK'
  <2>1. caller[h] \in Players
    BY <1>4 DEF QuitAccepted, CanQuit
  <2>2. Won(Other(caller[h]), "opponent_left") \in Verdicts
    BY <2>1, OtherPlayer, WonIsVerdict
  <2>3. hp' \in [Players -> Int] /\ alive' \in [Players -> BOOLEAN]
    BY <1>4, <2>1 DEF TypeOK, QuitAccepted
  <2>4. verdict' \in [Threads -> Verdicts \cup {Undecided}]
    BY <1>4, <2>2 DEF TypeOK, QuitAccepted, Threads
  <2>5. QED
    BY <1>4, <2>3, <2>4 DEF TypeOK, QuitAccepted, clock, outside, Threads
<1>5. ASSUME NEW h \in Handlers, QuitIgnored(h) PROVE TypeOK'
  BY <1>5 DEF TypeOK, QuitIgnored, battle, clock, outside, Threads
<1>6. CASE TickStart
  <2>1. overtime' \in BOOLEAN
    <3>1. age \in Int /\ Timeout \in Int
      BY NumbersAssumption DEF TypeOK
    <3>2. overtime' = TRUE \/ overtime' = FALSE
      BY <1>6, <3>1 DEF TickStart
    <3>3. QED
      BY <3>2
  <2>2. tickCount' \in Nat
    BY <1>6 DEF TypeOK, TickStart
  <2>3. due' \in BOOLEAN /\ pc' = [pc EXCEPT ![Ticker] = "consume"]
    BY <1>6 DEF TickStart
  <2>4. UNCHANGED <<started, finished, outcome, pendingOps, battle, listed, age,
                    finishedFor, caller, verdict, outside>>
    BY <1>6 DEF TickStart
  <2>5. QED
    BY <2>1, <2>2, <2>3, <2>4 DEF TypeOK, battle, outside, Threads
<1>7. CASE TickSkip
  BY <1>7 DEF TypeOK, TickSkip, battle, outside, Threads
<1>8. CASE ConsumeOp
  <2> DEFINE rec == Head(pendingOps)
  <2>1. /\ rec.player \in Players /\ rec.op \in Inputs
        /\ pendingOps' \in Seq([player : Players, op : Inputs])
    <3>1. pendingOps \in Seq([player : Players, op : Inputs]) /\ pendingOps # <<>>
      BY <1>8 DEF TypeOK, ConsumeOp
    <3>2. /\ rec \in [player : Players, op : Inputs]
          /\ Tail(pendingOps) \in Seq([player : Players, op : Inputs])
      BY <3>1, HeadTailProperties
    <3>3. QED
      BY <1>8, <3>2 DEF ConsumeOp
  <2>2. ApplyOp(rec.player, rec.op) \/ UNCHANGED battle
    BY <1>8 DEF ConsumeOp
  <2>3. /\ hp' \in [Players -> Int]
        /\ step' \in [Players -> Int]
        /\ lastAtk' \in [Players -> Nat]
        /\ lastSkill' \in [Players -> Nat]
        /\ UNCHANGED <<alive, pos>>
    <3>1. CASE ApplyOp(rec.player, rec.op)
      BY <2>1, <3>1, ApplyOpType
    <3>2. CASE UNCHANGED battle
      BY <3>2 DEF TypeOK, battle
    <3>3. QED
      BY <2>2, <3>1, <3>2
  <2>4. QED
    BY <1>8, <2>1, <2>3 DEF TypeOK, ConsumeOp, clock, outside
<1>9. CASE Spawn
  <2>1. pos' \in [Players -> 0..MapSize]
    <3>1. SpawnOffset \in 0..MapSize /\ MapSize - SpawnOffset \in 0..MapSize
      BY NumbersAssumption
    <3>2. QED
      BY <1>9, <3>1 DEF Spawn
  <2>2. QED
    BY <1>9, <2>1 DEF TypeOK, Spawn, clock, outside, Threads
<1>10. CASE Kill
  <2>1. FirstFallen \in Players
    BY DEF FirstFallen, Players
  <2>2. Won(Other(FirstFallen), "kill") \in Verdicts
    BY <2>1, OtherPlayer, WonIsVerdict
  <2>3. hp' \in [Players -> Int] /\ alive' \in [Players -> BOOLEAN]
    BY <1>10, <2>1 DEF TypeOK, Kill
  <2>4. verdict' \in [Threads -> Verdicts \cup {Undecided}]
    BY <1>10, <2>2 DEF TypeOK, Kill, Threads
  <2>5. Walk
    BY <1>10 DEF Kill
  <2>6. QED
    BY <1>10, <2>3, <2>4, <2>5, WalkType DEF TypeOK, Kill, clock, outside, Threads
<1>11. CASE TimeUp
  <2>1. VerdictOnTime \in Verdicts
    BY WonIsVerdict DEF VerdictOnTime, Verdicts, Players
  <2>2. verdict' \in [Threads -> Verdicts \cup {Undecided}]
    BY <1>11, <2>1 DEF TypeOK, TimeUp, Threads
  <2>3. Walk
    BY <1>11 DEF TimeUp
  <2>4. QED
    BY <1>11, <2>2, <2>3, WalkType DEF TypeOK, TimeUp, clock, outside, Threads
<1>12. CASE Broadcast
  <2>1. Walk
    BY <1>12 DEF Broadcast
  <2>2. QED
    BY <1>12, <2>1, WalkType DEF TypeOK, Broadcast, clock, outside, Threads
<1>13. CASE PushFrames
  <2>1. \/ \E p \in Players : frames' = [frames EXCEPT ![p] = tickCount] /\ missed' = missed
        \/ \E p \in Players : missed' = [missed EXCEPT ![p] = TRUE] /\ frames' = frames
    BY <1>13 DEF PushFrames, PushFrame, Players
  <2>2. frames' \in [Players -> Nat] /\ missed' \in [Players -> BOOLEAN]
    <3>1. /\ tickCount \in Nat /\ frames \in [Players -> Nat]
          /\ missed \in [Players -> BOOLEAN]
      BY DEF TypeOK
    <3>2. frames' \in [Players -> Nat]
      BY <2>1, <3>1
    <3>3. CASE missed' = missed
      BY <3>1, <3>2, <3>3
    <3>4. ASSUME NEW p \in Players, missed' = [missed EXCEPT ![p] = TRUE]
          PROVE  missed' \in [Players -> BOOLEAN]
      BY <3>1, <3>4
    <3>5. QED
      BY <2>1, <3>2, <3>3, <3>4
  <2>3. \E l \in {"push2", "cleanup"} : pc' = [pc EXCEPT ![Ticker] = l]
    BY <1>13 DEF PushFrames, PushFrame
  <2>4. UNCHANGED <<tickCount, started, finished, outcome, pendingOps, battle,
                    listed, clock, caller, verdict, overtime, credit, sent, results>>
    BY <1>13 DEF PushFrames, PushFrame
  <2>5. /\ pc' \in [Threads -> TickLabels \cup QuitLabels \cup SettleLabels]
        /\ pc'[Ticker] \in TickLabels \cup SettleLabels
        /\ \A h \in Handlers : pc'[h] \in QuitLabels \cup SettleLabels
    BY <2>3 DEF TypeOK, Threads
  <2>6. QED
    BY <2>2, <2>4, <2>5 DEF TypeOK, battle, clock
<1>14. ASSUME NEW t \in Threads, Finish(t) PROVE TypeOK'
  BY <1>14 DEF TypeOK, Finish, battle, outside, Threads
<1>15. ASSUME NEW t \in Threads, FinishTwice(t) PROVE TypeOK'
  BY <1>15 DEF TypeOK, FinishTwice, battle, clock, outside, Threads
<1>16. ASSUME NEW t \in Threads, SubmitScores(t) PROVE TypeOK'
  <2>1. WinScore \in Nat /\ LoseScore \in Nat
    BY NumbersAssumption
  <2>2. \/ credit' = credit
        \/ \E q : \E n \in Nat : credit' = [credit EXCEPT ![q] = @ + n]
    <3>1. CASE SubmitScore(t, "score1", outcome.winner, WinScore, "score2")
      BY <2>1, <3>1 DEF SubmitScore
    <3>2. CASE SubmitScore(t, "score2", outcome.loser, LoseScore, "result1")
      BY <2>1, <3>2 DEF SubmitScore
    <3>3. QED
      BY <1>16, <3>1, <3>2 DEF SubmitScores
  <2>3. credit' \in [Players -> Nat]
    <3>1. credit \in [Players -> Nat]
      BY DEF TypeOK
    <3>2. QED
      BY <2>2, <3>1
  <2>4. \E l \in {"score2", "result1"} : pc' = [pc EXCEPT ![t] = l]
    BY <1>16 DEF SubmitScores, SubmitScore
  <2>5. UNCHANGED <<tickCount, started, finished, outcome, pendingOps, battle,
                    listed, clock, caller, verdict, overtime, frames, missed, sent, results>>
    BY <1>16 DEF SubmitScores, SubmitScore
  <2>6. QED
    BY <2>3, <2>4, <2>5 DEF TypeOK, battle, clock, Threads
<1>17. ASSUME NEW t \in Threads, PushResult1(t) \/ PushResult2(t) PROVE TypeOK'
  <2>1. \E p \in Players : sent' = [sent EXCEPT ![p] = @ + 1]
    BY <1>17 DEF PushResult1, PushResult2, PushResult, Players
  <2>2. sent' \in [Players -> Nat]
    <3>1. PICK p \in Players : sent' = [sent EXCEPT ![p] = @ + 1]
      BY <2>1
    <3>2. sent \in [Players -> Nat]
      BY DEF TypeOK
    <3>3. QED
      BY <3>1, <3>2
  <2>7. results' \in [Players -> Nat]
    <3>1. \/ results' = results
          \/ \E p \in Players : results' = [results EXCEPT ![p] = @ + 1]
      BY <1>17 DEF PushResult1, PushResult2, PushResult, Players
    <3>2. results \in [Players -> Nat]
      BY DEF TypeOK
    <3>3. QED
      BY <3>1, <3>2
  <2>3. /\ pc' \in [Threads -> TickLabels \cup QuitLabels \cup SettleLabels]
        /\ pc'[Ticker] \in TickLabels \cup SettleLabels
        /\ \A h \in Handlers : pc'[h] \in QuitLabels \cup SettleLabels
    <3>1. CASE PushResult1(t)
      BY <3>1 DEF TypeOK, PushResult1, PushResult, Threads
    <3>2. CASE PushResult2(t)
      BY <3>2 DEF TypeOK, PushResult2, PushResult, Threads
    <3>3. QED
      BY <1>17, <3>1, <3>2
  <2>4. UNCHANGED <<tickCount, started, finished, outcome, pendingOps, battle,
                    listed, clock, verdict, overtime, frames, missed, credit>>
    BY <1>17 DEF PushResult1, PushResult2, PushResult
  <2>5. caller' \in [Handlers -> Callers \cup {NoPlayer}]
    BY <1>17 DEF TypeOK, PushResult1, PushResult2, Return
  <2>6. QED
    BY <2>2, <2>3, <2>4, <2>5, <2>7 DEF TypeOK, battle, clock
<1>18. CASE Cleanup
  BY <1>18 DEF TypeOK, Cleanup, battle, clock, outside, Threads
<1>19. CASE UNCHANGED vars
  BY <1>19 DEF TypeOK, vars, battle, clock, outside
<1>20. QED
  BY <1>1, <1>2, <1>3, <1>4, <1>5, <1>6, <1>7, <1>8, <1>9, <1>10, <1>11, <1>12,
     <1>13, <1>14, <1>15, <1>16, <1>17, <1>18, <1>19
     DEF Next, Tick, OnPlayerQuit, Settle, Threads

\* A new room is well typed.
LEMMA TypeInit == Init => TypeOK
<1> SUFFICES ASSUME Init PROVE TypeOK
  OBVIOUS
<1>1. MaxHp \in Int /\ 0 \in 0..MapSize
  BY NumbersAssumption
<1>2. pendingOps \in Seq([player : Players, op : Inputs])
  BY DEF Init
<1>3. /\ pc \in [Threads -> TickLabels \cup QuitLabels \cup SettleLabels]
      /\ pc[Ticker] \in TickLabels \cup SettleLabels
      /\ \A h \in Handlers : pc[h] \in QuitLabels \cup SettleLabels
  BY DEF Init, Threads, TickLabels, QuitLabels, SettleLabels
<1>4. /\ verdict \in [Threads -> Verdicts \cup {Undecided}]
      /\ outcome \in Verdicts \cup {Undecided}
      /\ caller \in [Handlers -> Callers \cup {NoPlayer}]
  BY DEF Init
<1>5. /\ hp \in [Players -> Int] /\ alive \in [Players -> BOOLEAN]
      /\ pos \in [Players -> 0..MapSize] /\ step \in [Players -> Int]
      /\ lastAtk \in [Players -> Nat] /\ lastSkill \in [Players -> Nat]
      /\ frames \in [Players -> Nat] /\ credit \in [Players -> Nat]
      /\ missed \in [Players -> BOOLEAN] /\ sent \in [Players -> Nat]
  BY <1>1 DEF Init
<1>6. QED
  BY <1>2, <1>3, <1>4, <1>5 DEF Init, TypeOK

\* Every behaviour of the room is well typed.
THEOREM TypeCorrect == Spec => []TypeOK
<1>1. QED
  BY TypeInit, TypeStep, PTL DEF Spec

-----------------------------------------------------------------------------
\* An action under finished leaves the battle alone: the tick is not in its
\* section, and a quit or an input is refused.
LEMMA FinishedStep ==
    ASSUME TypeOK, BattleInv, [Next]_vars, finished
    PROVE  UNCHANGED <<finished, outcome, tickCount, started, battle, pendingOps>>
<1>1. ~Locked
  BY DEF BattleInv
<1>2. CASE UNCHANGED vars
  BY <1>2 DEF vars
<1>3. CASE Advance
  BY <1>3 DEF Advance
<1>4. ASSUME NEW p \in Players, NEW op \in Inputs, SubmitOp(p, op) PROVE FALSE
  BY <1>4 DEF SubmitOp
<1>5. CASE \E h \in Handlers, id \in Callers : QuitRoom(h, id)
  BY <1>5 DEF QuitRoom
<1>6. ASSUME NEW h \in Handlers, QuitAccepted(h) \/ QuitIgnored(h)
      PROVE  UNCHANGED <<finished, outcome, tickCount, started, battle, pendingOps>>
  BY <1>6 DEF QuitAccepted, QuitIgnored, CanQuit
<1>7. CASE TickStart \/ TickSkip \/ PushFrames \/ Cleanup
  BY <1>7 DEF TickStart, TickSkip, PushFrames, PushFrame, Cleanup
<1>8. ASSUME ConsumeOp \/ Spawn \/ Kill \/ TimeUp \/ Broadcast PROVE FALSE
  BY <1>1, <1>8 DEF ConsumeOp, Spawn, Kill, TimeUp, Broadcast, AllConsumed
<1>9. ASSUME NEW t \in Threads, Settle(t)
      PROVE  UNCHANGED <<finished, outcome, tickCount, started, battle, pendingOps>>
  BY <1>9 DEF Settle, Finish, FinishTwice, AlreadyOver, SubmitScores, SubmitScore,
              PushResult1, PushResult2, PushResult
<1>10. QED
  BY <1>2, <1>3, <1>4, <1>5, <1>6, <1>7, <1>8, <1>9
     DEF Next, Tick, OnPlayerQuit, Threads

-----------------------------------------------------------------------------
\* Verdicts whose players still look the same keep fitting; and a player who
\* leaves turns no fitting verdict into one that does not.
LEMMA FitsUnchanged ==
    ASSUME NEW v, Fits(v), UNCHANGED <<alive, hp>>
    PROVE  Fits(v)'
  BY DEF Fits

LEMMA FitsAfterQuit ==
    ASSUME TypeOK, NEW v \in Verdicts, Fits(v), NEW p \in Players,
           alive' = [alive EXCEPT ![p] = FALSE], hp' = [hp EXCEPT ![p] = 0]
    PROVE  Fits(v)'
<1>1. /\ alive \in [Players -> BOOLEAN] /\ hp \in [Players -> Int]
      /\ Draw.reason = "draw"
  BY DEF TypeOK, Draw
<1>2. CASE v = Draw
  BY <1>1, <1>2 DEF Fits, Players
<1>3. CASE v # Draw
  <2>1. v.winner \in Players /\ v.loser \in Players /\ v.winner # v.loser
    <3>1. PICK w \in Players, r \in {"kill", "opponent_left", "timeout"} : v = Won(w, r)
      BY <1>3 DEF Verdicts
    <3>2. v.winner = w /\ v.loser = Other(w)
      BY <3>1 DEF Won
    <3>3. QED
      BY <3>2, OtherPlayer
  <2>2. \A q \in Players : ~alive[q] => ~alive'[q]
    BY <1>1
  <2>3. CASE v.reason \in {"kill", "opponent_left"}
    BY <2>1, <2>2, <2>3 DEF Fits
  <2>4. CASE v.reason = "timeout"
    BY <1>1, <2>1, <2>4 DEF Fits
  <2>5. QED
    BY <1>3, <2>3, <2>4 DEF Verdicts, Won
<1>4. QED
  BY <1>2, <1>3

\* A step that touches neither player and brings no thread to finish.
LEMMA QuietStep ==
    ASSUME BattleInv, UNCHANGED <<alive, hp, finished, outcome>>,
           \A t \in Threads : pc'[t] = "finish" => pc[t] = "finish" /\ verdict'[t] = verdict[t],
           finished => ~Locked'
    PROVE  BattleInv'
  BY DEF BattleInv, Fits, Threads

LEMMA BattleStep ==
    ASSUME TypeOK, BattleInv, [Next]_vars
    PROVE  BattleInv'
<1> USE PlayersAssumption
<1> USE DEF battle
<1>1. CASE Advance \/ UNCHANGED vars
  BY <1>1, QuietStep DEF BattleInv, Advance, vars, Locked
<1>2. ASSUME NEW p \in Players, NEW op \in Inputs, SubmitOp(p, op) PROVE BattleInv'
  BY <1>2, QuietStep DEF SubmitOp, Locked
<1>3. ASSUME NEW h \in Handlers, NEW id \in Callers, QuitRoom(h, id) PROVE BattleInv'
  BY <1>3, QuietStep DEF TypeOK, BattleInv, QuitRoom, Locked, Threads
<1>4. ASSUME NEW h \in Handlers, QuitAccepted(h) PROVE BattleInv'
  <2> DEFINE p == caller[h]
  <2>1. /\ p \in Players /\ ~finished /\ finished' = finished
        /\ alive' = [alive EXCEPT ![p] = FALSE] /\ hp' = [hp EXCEPT ![p] = 0]
        /\ verdict' = [verdict EXCEPT ![h] = Won(Other(p), "opponent_left")]
        /\ pc' = [pc EXCEPT ![h] = "finish"]
    BY <1>4 DEF QuitAccepted, CanQuit
  <2>2. \A q \in Players : ~alive'[q] => hp'[q] = 0
    BY <2>1 DEF TypeOK, BattleInv
  <2>3. \A g \in Handlers : pc'[g] = "finish" => verdict'[g].reason = "opponent_left"
    BY <2>1 DEF TypeOK, BattleInv, Won, Threads
  <2>4. ASSUME NEW t \in Threads, pc'[t] = "finish"
        PROVE  verdict'[t] \in Verdicts /\ Fits(verdict[t])'
    <3>1. CASE t = h
      <4>1. verdict'[t] = Won(Other(p), "opponent_left")
        BY <2>1, <3>1 DEF TypeOK
      <4>2. verdict'[t] \in Verdicts
        BY <2>1, <4>1, OtherPlayer, WonIsVerdict
      <4>3. verdict'[t].loser = p /\ verdict'[t].reason = "opponent_left"
        BY <2>1, <4>1 DEF Won, Other, Players
      <4>4. ~alive'[p]
        BY <2>1 DEF TypeOK
      <4>5. QED
        BY <4>2, <4>3, <4>4 DEF Fits
    <3>2. CASE t # h
      <4>1. pc[t] = "finish" /\ verdict'[t] = verdict[t]
        BY <2>1, <2>4, <3>2 DEF TypeOK
      <4>2. verdict[t] \in Verdicts /\ Fits(verdict[t])
        BY <4>1 DEF BattleInv
      <4>3. QED
        BY <2>1, <4>1, <4>2, FitsAfterQuit DEF Fits
    <3>3. QED
      BY <3>1, <3>2
  <2>5. QED
    BY <2>1, <2>2, <2>3, <2>4 DEF BattleInv
<1>5. ASSUME NEW h \in Handlers, QuitIgnored(h) PROVE BattleInv'
  BY <1>5, QuietStep DEF TypeOK, BattleInv, QuitIgnored, Locked, Threads
<1>6. CASE TickStart
  BY <1>6, QuietStep DEF TypeOK, TickStart, Threads
<1>7. CASE TickSkip
  BY <1>7, QuietStep DEF TypeOK, TickSkip, Locked, Threads
<1>8. CASE PushFrames
  BY <1>8, QuietStep DEF TypeOK, PushFrames, PushFrame, Locked, Threads
<1>9. CASE Cleanup
  BY <1>9, QuietStep DEF TypeOK, Cleanup, Locked, Threads
<1>10. CASE Spawn
  BY <1>10, QuietStep DEF TypeOK, Spawn, Locked, Threads
<1>11. CASE Broadcast
  BY <1>11, QuietStep DEF TypeOK, Broadcast, Locked, Threads
<1>12. ASSUME NEW t \in Threads, FinishTwice(t) PROVE BattleInv'
  BY <1>12, QuietStep DEF TypeOK, FinishTwice, Locked, Threads
<1>13. ASSUME NEW t \in Threads, SubmitScores(t) PROVE BattleInv'
  <2>1. /\ \E l \in {"score2", "result1"} : pc' = [pc EXCEPT ![t] = l]
        /\ UNCHANGED <<alive, hp, finished, outcome, verdict>>
    BY <1>13 DEF SubmitScores, SubmitScore
  <2>2. \A u \in Threads : pc'[u] = "finish" => pc[u] = "finish"
    BY <2>1 DEF TypeOK
  <2>3. finished => ~Locked'
    BY <2>1 DEF TypeOK, BattleInv, Locked, Threads
  <2>4. QED
    BY <2>1, <2>2, <2>3, QuietStep
<1>14. ASSUME NEW t \in Threads, PushResult1(t) \/ PushResult2(t) PROVE BattleInv'
  <2>1. /\ \E l \in {"result2", "cleanup", "idle"} : pc' = [pc EXCEPT ![t] = l]
        /\ UNCHANGED <<alive, hp, finished, outcome, verdict>>
    BY <1>14 DEF PushResult1, PushResult2, PushResult
  <2>2. \A u \in Threads : pc'[u] = "finish" => pc[u] = "finish"
    BY <2>1 DEF TypeOK
  <2>3. finished => ~Locked'
    BY <2>1 DEF TypeOK, BattleInv, Locked, Threads
  <2>4. QED
    BY <2>1, <2>2, <2>3, QuietStep
<1>15. CASE ConsumeOp
  <2>1. /\ ~finished /\ finished' = finished
        /\ UNCHANGED <<alive, pc, verdict>>
    BY <1>15, ApplyOpFrame DEF ConsumeOp, BattleInv
  <2>2. \A q \in Players : ~alive[q] => hp'[q] = hp[q]
    BY <1>15, ApplyOpFrame DEF ConsumeOp, BattleInv
  <2>3. ASSUME NEW t \in Threads, pc[t] = "finish" PROVE Fits(verdict[t])'
    <3>1. t \in Handlers
      BY <1>15, <2>3 DEF ConsumeOp, Locked, Threads
    <3>2. verdict[t].reason = "opponent_left" /\ Fits(verdict[t])
      BY <2>3, <3>1 DEF BattleInv, Threads
    <3>3. QED
      BY <2>1, <3>2 DEF Fits
  <2>4. QED
    BY <2>1, <2>2, <2>3 DEF BattleInv
<1>16. CASE Kill
  <2> DEFINE p == FirstFallen
  <2>1. /\ p \in Players /\ alive[p]
        /\ alive' = [alive EXCEPT ![p] = FALSE] /\ hp' = [hp EXCEPT ![p] = 0]
        /\ verdict' = [verdict EXCEPT ![Ticker] = Won(Other(p), "kill")]
        /\ pc' = [pc EXCEPT ![Ticker] = "finish"]
        /\ finished' = finished /\ ~finished
    BY <1>16 DEF Kill, AllConsumed, BattleInv, FirstFallen, Fallen, Players
  <2> HIDE DEF p
  <2>2. \A q \in Players : ~alive'[q] => hp'[q] = 0
    BY <2>1 DEF TypeOK, BattleInv
  <2>3. \A h \in Handlers : pc'[h] = "finish" => verdict'[h].reason = "opponent_left"
    BY <2>1 DEF TypeOK, BattleInv, Threads
  <2>4. ASSUME NEW t \in Threads, pc'[t] = "finish"
        PROVE  verdict'[t] \in Verdicts /\ Fits(verdict[t])'
    <3>1. CASE t = Ticker
      <4>1. verdict'[t] = Won(Other(p), "kill")
        BY <2>1, <3>1 DEF TypeOK
      <4>2. verdict'[t] \in Verdicts
        BY <2>1, <4>1, OtherPlayer, WonIsVerdict
      <4>3. verdict'[t].loser = p /\ verdict'[t].reason = "kill"
        BY <2>1, <4>1 DEF Won, Other, Players
      <4>4. ~alive'[p]
        BY <2>1 DEF TypeOK
      <4>5. QED
        BY <4>2, <4>3, <4>4 DEF Fits
    <3>2. CASE t # Ticker
      <4>1. pc[t] = "finish" /\ verdict'[t] = verdict[t]
        BY <2>1, <2>4, <3>2 DEF TypeOK
      <4>2. verdict[t] \in Verdicts /\ Fits(verdict[t])
        BY <4>1 DEF BattleInv
      <4>3. QED
        BY <2>1, <4>1, <4>2, FitsAfterQuit DEF Fits
    <3>3. QED
      BY <3>1, <3>2
  <2>5. QED
    BY <2>1, <2>2, <2>3, <2>4 DEF BattleInv
<1>17. CASE TimeUp
  <2>1. /\ UNCHANGED <<alive, hp, finished>> /\ ~finished
        /\ verdict' = [verdict EXCEPT ![Ticker] = VerdictOnTime]
        /\ pc' = [pc EXCEPT ![Ticker] = "finish"]
    BY <1>17 DEF TimeUp, AllConsumed, BattleInv
  <2>2. VerdictOnTime \in Verdicts /\ Fits(VerdictOnTime)
    <3>1. \A q \in Players : alive[q] => hp[q] > 0
      <4>1. ~Fallen(P1) /\ ~Fallen(P2)
        BY <1>17 DEF TimeUp
      <4>2. \A q \in Players : hp[q] \in Int /\ (q = P1 \/ q = P2)
        BY DEF TypeOK, Players
      <4> QED BY <4>1, <4>2 DEF Fallen
    <3>2. CASE hp[P1] = hp[P2]
      BY <3>2 DEF VerdictOnTime, Draw, Fits, Verdicts
    <3>a. P1 \in Players /\ P2 \in Players /\ hp[P1] \in Int /\ hp[P2] \in Int
      <4>1. P1 \in Players /\ P2 \in Players
        BY DEF Players
      <4>2. hp \in [Players -> Int]
        BY DEF TypeOK
      <4> QED BY <4>1, <4>2
    <3>3. CASE hp[P1] > hp[P2]
      <4>1. VerdictOnTime = Won(P1, "timeout") /\ P1 \in Players
        BY <3>3, <3>a DEF VerdictOnTime
      <4>2. QED
        BY <3>1, <3>3, <4>1, WonIsVerdict DEF Won, Other, Fits
    <3>4. CASE hp[P1] < hp[P2]
      <4>1. VerdictOnTime = Won(P2, "timeout") /\ P2 \in Players
        BY <3>4, <3>a DEF VerdictOnTime
      <4>2. QED
        BY <3>1, <3>4, <4>1, WonIsVerdict DEF TypeOK, Won, Other, Fits, Players
    <3>5. QED
      BY <3>2, <3>3, <3>4, <3>a
  <2>3. ASSUME NEW t \in Threads, pc'[t] = "finish"
        PROVE  verdict'[t] \in Verdicts /\ Fits(verdict[t])'
    <3>1. CASE t = Ticker
      <4>1. verdict'[t] = VerdictOnTime
        BY <2>1, <3>1 DEF TypeOK
      <4>2. QED
        BY <2>1, <2>2, <4>1 DEF Fits
    <3>2. CASE t # Ticker
      BY <2>1, <2>3, <3>2 DEF TypeOK, BattleInv, Fits
    <3>3. QED
      BY <3>1, <3>2
  <2>4. QED
    BY <2>1, <2>3 DEF TypeOK, BattleInv, Threads
<1>18. ASSUME NEW t \in Threads, Finish(t) PROVE BattleInv'
  <2>1. /\ UNCHANGED <<alive, hp>> /\ finished'
        /\ outcome' = verdict[t] /\ pc[t] = "finish" /\ ~Locked
        /\ verdict' = [verdict EXCEPT ![t] = Undecided]
        /\ \E l \in {"score1", "result1"} : pc' = [pc EXCEPT ![t] = l]
    BY <1>18 DEF Finish
  <2>2. verdict[t] \in Verdicts /\ Fits(verdict[t])
    BY <2>1 DEF BattleInv
  <2>3. outcome' \in Verdicts /\ Fits(outcome)'
    BY <2>1, <2>2 DEF Fits
  <2>4. ~Locked'
    BY <2>1 DEF TypeOK, Locked, Threads
  <2>5. \A u \in Threads : pc'[u] = "finish" => pc[u] = "finish" /\ verdict'[u] = verdict[u]
    BY <2>1 DEF TypeOK
  <2>6. QED
    BY <2>1, <2>3, <2>4, <2>5 DEF BattleInv, Fits, Threads
<1>20. QED
  BY <1>1, <1>2, <1>3, <1>4, <1>5, <1>6, <1>7, <1>8, <1>9, <1>10, <1>11, <1>12,
     <1>13, <1>14, <1>15, <1>16, <1>17, <1>18
     DEF Next, Tick, OnPlayerQuit, Settle, Threads

-----------------------------------------------------------------------------
\* The dead have 0 HP and are never hit again, and every verdict on its way to
\* finish fits the players as they are now (BattleInv).
THEOREM VerdictsFit == Spec => []BattleInv
<1>1. Init => BattleInv
  BY DEF Init, BattleInv, Threads
<1>2. TypeOK /\ BattleInv /\ [Next]_vars => BattleInv'
  BY BattleStep
<1>3. QED
  BY <1>1, <1>2, TypeCorrect, PTL DEF Spec

\* The published result is true of the two players, for every interleaving of
\* the tick with the quits (OutcomeFitsBattle, by BattleInv).
THEOREM OutcomeFits == Spec => []OutcomeFitsBattle
<1>1. BattleInv => OutcomeFitsBattle
  BY DEF BattleInv, OutcomeFitsBattle
<1>2. QED
  BY <1>1, VerdictsFit, PTL

\* A finished room is never changed again (OutcomeIsFinal).
THEOREM FinishedIsFinal == Spec => OutcomeIsFinal
<1>1. TypeOK /\ BattleInv /\ [Next]_vars =>
        [finished => UNCHANGED <<finished, outcome, tickCount, started, battle,
                                 pendingOps>>]_vars
  BY FinishedStep
<1>2. QED
  BY <1>1, VerdictsFit, TypeCorrect, PTL DEF Spec, OutcomeIsFinal

-----------------------------------------------------------------------------
\* Whoever falls or leaves is settled: the death marked under r.mu is always
\* followed by the finish call of the thread that marked it.
LEMMA DeathStep ==
    ASSUME TypeOK, DeathIsBeingSettled, [Next]_vars
    PROVE  DeathIsBeingSettled'
<1>1. CASE Advance \/ UNCHANGED vars
  BY <1>1 DEF DeathIsBeingSettled, Advance, vars, battle
<1>2. ASSUME NEW p \in Players, NEW op \in Inputs, SubmitOp(p, op)
      PROVE  DeathIsBeingSettled'
  BY <1>2 DEF DeathIsBeingSettled, SubmitOp, battle
<1>3. ASSUME NEW h \in Handlers, NEW id \in Callers, QuitRoom(h, id)
      PROVE  DeathIsBeingSettled'
  BY <1>3 DEF TypeOK, DeathIsBeingSettled, QuitRoom, battle, Threads
<1>4. ASSUME NEW h \in Handlers, QuitAccepted(h) PROVE DeathIsBeingSettled'
  <2>1. h \in Threads /\ pc'[h] = "finish"
    BY <1>4 DEF TypeOK, QuitAccepted, Threads
  <2>2. QED
    BY <2>1 DEF DeathIsBeingSettled
<1>5. ASSUME NEW h \in Handlers, QuitIgnored(h) PROVE DeathIsBeingSettled'
  BY <1>5 DEF TypeOK, DeathIsBeingSettled, QuitIgnored, battle, Threads
<1>6. CASE TickStart
  BY <1>6 DEF TypeOK, DeathIsBeingSettled, TickStart, battle, Threads
<1>7. CASE TickSkip
  BY <1>7 DEF TypeOK, DeathIsBeingSettled, TickSkip, battle, Threads
<1>8. CASE ConsumeOp
  BY <1>8, ApplyOpFrame DEF DeathIsBeingSettled
<1>9. CASE Spawn
  BY <1>9 DEF TypeOK, DeathIsBeingSettled, Spawn, AllConsumed, Locked, Threads
<1>10. CASE Kill \/ TimeUp
  <2>1. Ticker \in Threads /\ pc'[Ticker] = "finish"
    BY <1>10 DEF TypeOK, Kill, TimeUp, Threads
  <2>2. QED
    BY <2>1 DEF DeathIsBeingSettled
<1>11. CASE Broadcast
  BY <1>11 DEF TypeOK, DeathIsBeingSettled, Broadcast, AllConsumed, Locked, Threads
<1>12. CASE PushFrames
  BY <1>12 DEF TypeOK, DeathIsBeingSettled, PushFrames, PushFrame, battle, Threads
<1>13. ASSUME NEW t \in Threads, Finish(t) \/ FinishTwice(t) PROVE DeathIsBeingSettled'
  BY <1>13 DEF DeathIsBeingSettled, Finish, FinishTwice, AlreadyOver
<1>14. ASSUME NEW t \in Threads, SubmitScores(t) PROVE DeathIsBeingSettled'
  BY <1>14 DEF TypeOK, DeathIsBeingSettled, SubmitScores, SubmitScore, battle, Threads
<1>15. ASSUME NEW t \in Threads, PushResult1(t) \/ PushResult2(t)
       PROVE  DeathIsBeingSettled'
  <2>1. UNCHANGED <<alive, finished>> /\ pc[t] # "finish"
    BY <1>15 DEF PushResult1, PushResult2, PushResult, battle
  <2>2. \A u \in Threads : pc[u] = "finish" => pc'[u] = "finish"
    BY <1>15, <2>1 DEF TypeOK, PushResult1, PushResult2, PushResult
  <2>3. QED
    BY <2>1, <2>2 DEF DeathIsBeingSettled
<1>16. CASE Cleanup
  BY <1>16 DEF TypeOK, DeathIsBeingSettled, Cleanup, battle, Threads
<1>17. QED
  BY <1>1, <1>2, <1>3, <1>4, <1>5, <1>6, <1>7, <1>8, <1>9, <1>10, <1>11, <1>12,
     <1>13, <1>14, <1>15, <1>16
     DEF Next, Tick, OnPlayerQuit, Settle, Threads

\* No player is left down in a room that nobody settles (DeathIsBeingSettled).
THEOREM DeathSettled == Spec => []DeathIsBeingSettled
<1>1. Init => DeathIsBeingSettled
  BY DEF Init, DeathIsBeingSettled
<1>2. TypeOK /\ DeathIsBeingSettled /\ [Next]_vars => DeathIsBeingSettled'
  BY DeathStep
<1>3. QED
  BY <1>1, <1>2, TypeCorrect, PTL DEF Spec

-----------------------------------------------------------------------------
\* A verdict other than a draw names the two players.
LEMMA DecisiveVerdict ==
    ASSUME NEW v \in Verdicts, v # Draw
    PROVE  v.winner \in Players /\ v.loser \in Players /\ v.winner # v.loser
<1>1. PICK w \in Players, r \in {"kill", "opponent_left", "timeout"} : v = Won(w, r)
  BY DEF Verdicts
<1>2. v.winner = w /\ v.loser = Other(w)
  BY <1>1 DEF Won
<1>3. QED
  BY <1>2, OtherPlayer

LEMMA UndecidedIsNoVerdict == Undecided \notin Verdicts
<1>1. Draw # Undecided
  <2>1. Draw.reason # Undecided.reason
    BY DEF Draw, Undecided
  <2>2. QED
    BY <2>1
<1>2. ASSUME NEW w \in Players, NEW r \in {"kill", "opponent_left", "timeout"}
      PROVE  Won(w, r) # Undecided
  <2>1. Won(w, r).reason # Undecided.reason
    BY DEF Won, Undecided
  <2>2. QED
    BY <2>1
<1>3. QED
  BY <1>1, <1>2 DEF Verdicts

LEMMA VerdictsAgree == Verdicts \subseteq Promise!Verdicts
<1> SUFFICES ASSUME NEW v \in Verdicts PROVE v \in Promise!Verdicts
  OBVIOUS
<1>1. CASE v = Draw
  BY <1>1 DEF Draw, Promise!Verdicts
<1>2. CASE v # Draw
  <2>1. PICK w \in Players, r \in {"kill", "opponent_left", "timeout"} : v = Won(w, r)
    BY <1>2 DEF Verdicts
  <2>2. QED
    <3>1. Other(w) \in Players /\ w # Other(w)
      BY OtherPlayer
    <3>2. v = [winner |-> w, loser |-> Other(w), reason |-> r]
      BY <2>1 DEF Won
    <3>3. QED
      BY <3>1, <3>2 DEF Promise!Verdicts
<1>3. QED
  BY <1>1, <1>2

\* A step that neither publishes, nor ends a battle, nor lets a thread enter
\* finish or leave the tick's section.
LEMMA QuietSettlementStep ==
    ASSUME SettlementInv, UNCHANGED <<finished, outcome, credit, sent, results>>,
           finished => ~Locked',
           \A t \in Threads : pc'[t] # pc[t] =>
             /\ ~Settling(t)'
             /\ pc'[t] = "finish" => verdict'[t] \in Verdicts,
           \A t \in Threads : pc'[t] = pc[t] => verdict'[t] = verdict[t]
    PROVE  SettlementInv'
<1>1. \A t \in Threads : Settling(t)' => Settling(t) /\ pc'[t] = pc[t]
  BY DEF Settling
<1>2. ASSUME NEW t \in Threads
      PROVE  /\ pc'[t] = "finish" => verdict'[t] \in Verdicts
             /\ Settling(t)' => finished' /\ \A u \in Threads : Settling(u)' => u = t
  BY <1>1 DEF SettlementInv
<1>3. ASSUME NEW t \in Threads, Settling(t)'
      PROVE  /\ pc'[t] \in {"score1", "score2"} => outcome'.winner # NoPlayer
             /\ pc'[t] = "score1" => \A p \in Players : credit'[p] = 0
             /\ pc'[t] = "score2" => credit'[outcome'.loser] = 0
             /\ pc'[t] \in {"score1", "score2", "result1"} => \A p \in Players : sent'[p] = 0
             /\ pc'[t] = "result2" => sent'[P2] = 0
  BY <1>1, <1>3 DEF SettlementInv
<1>4. QED
  BY <1>2, <1>3 DEF SettlementInv, Settling

\* One thread that is not publishing goes to a label where it does not publish.
Moves(t, l) ==
    /\ UNCHANGED <<finished, outcome, credit, sent, results>>
    /\ pc' = [pc EXCEPT ![t] = l]
    /\ ~Settling(t) /\ l \notin {"score1", "score2", "result1", "result2"}
    /\ l = "consume" => ~finished
    /\ l = "finish" => verdict'[t] \in Verdicts
    /\ \A u \in Threads : u # t => verdict'[u] = verdict[u]
    /\ l = pc[t] => verdict' = verdict

LEMMA OneThreadMoves ==
    ASSUME TypeOK, SettlementInv, NEW t \in Threads, NEW l, Moves(t, l)
    PROVE  SettlementInv'
<1> USE DEF Moves
<1>1. pc'[t] = l /\ \A u \in Threads : u # t => pc'[u] = pc[u]
  BY DEF TypeOK
<1>2. finished => ~Locked'
  BY <1>1 DEF SettlementInv, Locked, Threads
<1>3. \A u \in Threads : pc'[u] # pc[u] =>
          ~Settling(u)' /\ (pc'[u] = "finish" => verdict'[u] \in Verdicts)
  BY <1>1 DEF Settling
<1>4. \A u \in Threads : pc'[u] = pc[u] => verdict'[u] = verdict[u]
  BY <1>1
<1>5. QED
  BY <1>2, <1>3, <1>4, QuietSettlementStep

LEMMA SettlementStep ==
    ASSUME TypeOK, SettlementInv, [Next]_vars
    PROVE  SettlementInv'
<1> USE PlayersAssumption DEF outside
<1>0. Ticker \in Threads /\ \A h \in Handlers : h \in Threads
  BY DEF Threads
<1>1. CASE Advance \/ UNCHANGED vars
  BY <1>1, QuietSettlementStep DEF SettlementInv, Advance, vars, Locked
<1>2. ASSUME NEW p \in Players, NEW op \in Inputs, SubmitOp(p, op) PROVE SettlementInv'
  BY <1>2, QuietSettlementStep DEF SubmitOp, Locked
<1>3. ASSUME NEW h \in Handlers, NEW id \in Callers, QuitRoom(h, id) PROVE SettlementInv'
  <2>1. Moves(h, "quit")
    BY <1>0, <1>3 DEF Moves, QuitRoom, Settling
  <2>2. QED
    BY <1>0, <2>1, OneThreadMoves
<1>4. ASSUME NEW h \in Handlers, QuitAccepted(h) PROVE SettlementInv'
  <2>1. Won(Other(caller[h]), "opponent_left") \in Verdicts
    BY <1>4, OtherPlayer, WonIsVerdict DEF QuitAccepted, CanQuit
  <2>2. /\ verdict'[h] = Won(Other(caller[h]), "opponent_left")
        /\ \A u \in Threads : u # h => verdict'[u] = verdict[u]
    BY <1>0, <1>4 DEF TypeOK, QuitAccepted
  <2>3. Moves(h, "finish")
    BY <1>4, <2>1, <2>2 DEF Moves, QuitAccepted, Settling
  <2>4. QED
    BY <1>0, <2>3, OneThreadMoves
<1>5. ASSUME NEW h \in Handlers, QuitIgnored(h) PROVE SettlementInv'
  <2>1. Moves(h, "idle")
    BY <1>0, <1>5 DEF Moves, QuitIgnored, Settling
  <2>2. QED
    BY <1>0, <2>1, OneThreadMoves
<1>6. CASE TickStart
  <2>1. Moves(Ticker, "consume")
    BY <1>6 DEF Moves, TickStart, Settling
  <2>2. QED
    BY <1>0, <2>1, OneThreadMoves
<1>7. CASE TickSkip
  <2>1. Moves(Ticker, "cleanup")
    BY <1>7 DEF Moves, TickSkip, Settling
  <2>2. QED
    BY <1>0, <2>1, OneThreadMoves
<1>8. CASE ConsumeOp
  BY <1>8, QuietSettlementStep DEF SettlementInv, ConsumeOp, Locked
<1>9. CASE Spawn
  <2>1. Moves(Ticker, "push1")
    BY <1>9 DEF Moves, Spawn, AllConsumed, Locked, Settling
  <2>2. QED
    BY <1>0, <2>1, OneThreadMoves
<1>10. CASE Kill
  <2>1. FirstFallen \in Players
    BY DEF FirstFallen, Players
  <2>2. Won(Other(FirstFallen), "kill") \in Verdicts
    BY <2>1, OtherPlayer, WonIsVerdict
  <2>3. /\ verdict'[Ticker] = Won(Other(FirstFallen), "kill")
        /\ \A u \in Threads : u # Ticker => verdict'[u] = verdict[u]
    BY <1>0, <1>10 DEF TypeOK, Kill
  <2>4. Moves(Ticker, "finish")
    BY <1>10, <2>2, <2>3 DEF Moves, Kill, AllConsumed, Locked, Settling
  <2>5. QED
    BY <1>0, <2>4, OneThreadMoves
<1>11. CASE TimeUp
  <2>1. VerdictOnTime \in Verdicts
    BY WonIsVerdict DEF VerdictOnTime, Verdicts, Players
  <2>2. /\ verdict'[Ticker] = VerdictOnTime
        /\ \A u \in Threads : u # Ticker => verdict'[u] = verdict[u]
    BY <1>0, <1>11 DEF TypeOK, TimeUp
  <2>3. Moves(Ticker, "finish")
    BY <1>11, <2>1, <2>2 DEF Moves, TimeUp, AllConsumed, Locked, Settling
  <2>4. QED
    BY <1>0, <2>3, OneThreadMoves
<1>12. CASE Broadcast
  <2>1. Moves(Ticker, "push1")
    BY <1>12 DEF Moves, Broadcast, AllConsumed, Locked, Settling
  <2>2. QED
    BY <1>0, <2>1, OneThreadMoves
<1>13. CASE PushFrames
  <2>1. CASE PushFrame("push1", P1, "push2")
    <3>1. Moves(Ticker, "push2")
      BY <2>1 DEF Moves, PushFrame, Settling
    <3>2. QED
      BY <1>0, <3>1, OneThreadMoves
  <2>2. CASE PushFrame("push2", P2, "cleanup")
    <3>1. Moves(Ticker, "cleanup")
      BY <2>2 DEF Moves, PushFrame, Settling
    <3>2. QED
      BY <1>0, <3>1, OneThreadMoves
  <2>3. QED
    BY <1>13, <2>1, <2>2 DEF PushFrames
<1>14. ASSUME NEW t \in Threads, FinishTwice(t) PROVE SettlementInv'
  <2>1. \A u \in Threads : u # t => verdict'[u] = verdict[u]
    BY <1>14 DEF TypeOK, FinishTwice
  <2>2. PICK l \in {"cleanup", "idle"} : pc' = [pc EXCEPT ![t] = l]
    BY <1>14 DEF FinishTwice
  <2>3. Moves(t, l)
    BY <1>14, <2>1, <2>2 DEF Moves, FinishTwice, Settling
  <2>4. QED
    BY <2>3, OneThreadMoves
<1>15. CASE Cleanup
  <2>1. Moves(Ticker, "idle")
    BY <1>15 DEF Moves, Cleanup, Settling
  <2>2. QED
    BY <1>0, <2>1, OneThreadMoves
<1>16. ASSUME NEW t \in Threads, Finish(t) PROVE SettlementInv'
  <2>1. /\ ~finished /\ finished' /\ verdict[t] \in Verdicts /\ outcome' = verdict[t]
        /\ pc[t] = "finish" /\ ~Locked
        /\ verdict' = [verdict EXCEPT ![t] = Undecided]
        /\ UNCHANGED <<credit, sent, results>>
    BY <1>16 DEF Finish, AlreadyOver, SettlementInv
  <2>2. outcome' # Undecided
    BY <2>1, UndecidedIsNoVerdict
  <2>3. /\ pc'[t] \in {"score1", "result1"}
        /\ pc'[t] = "score1" => outcome'.winner # NoPlayer
        /\ \A u \in Threads : u # t => pc'[u] = pc[u]
    <3>1. /\ pc' = [pc EXCEPT ![t] = IF verdict[t].winner # NoPlayer THEN "score1"
                                                                  ELSE "result1"]
          /\ outcome' = verdict[t] /\ Threads = DOMAIN pc
      BY <1>16 DEF TypeOK, Finish
    <3>2. QED
      BY <3>1
  <2>4. \A u \in Threads : u # t => ~Settling(u)' /\ verdict'[u] = verdict[u]
    BY <2>1, <2>3 DEF TypeOK, SettlementInv, Settling
  <2>5. ~Locked'
    BY <2>1, <2>3, <1>0 DEF Locked
  <2>6. \A p \in Players : credit'[p] = 0 /\ sent'[p] = 0
    BY <2>1 DEF SettlementInv
  <2>7. \A u \in Threads : pc'[u] = "finish" => verdict'[u] \in Verdicts
    BY <2>3, <2>4 DEF SettlementInv
  <2>8. QED
    BY <2>1, <2>2, <2>3, <2>4, <2>5, <2>6, <2>7 DEF SettlementInv, Settling
<1>17. ASSUME NEW t \in Threads, SubmitScores(t) PROVE SettlementInv'
  <2>1. /\ UNCHANGED <<finished, outcome, sent, results, verdict>>
        /\ pc[t] \in {"score1", "score2"}
        /\ pc'[t] = IF pc[t] = "score1" THEN "score2" ELSE "result1"
        /\ \A u \in Threads : u # t => pc'[u] = pc[u]
    <3>1. CASE SubmitScore(t, "score1", outcome.winner, WinScore, "score2")
      BY <3>1 DEF TypeOK, SubmitScore
    <3>2. CASE SubmitScore(t, "score2", outcome.loser, LoseScore, "result1")
      BY <3>2 DEF TypeOK, SubmitScore
    <3>3. QED
      BY <1>17, <3>1, <3>2 DEF SubmitScores
  <2>2. Settling(t) /\ finished /\ \A u \in Threads : u # t => ~Settling(u)
    BY <2>1 DEF SettlementInv, Settling
  <2>3. outcome.winner # NoPlayer /\ \A p \in Players : sent[p] = 0
    BY <2>1 DEF SettlementInv
  <2>4. outcome \in Verdicts /\ outcome # Draw
    BY <2>2, <2>3 DEF TypeOK, SettlementInv, Draw
  <2>5. outcome.winner \in Players /\ outcome.loser \in Players /\ outcome.winner # outcome.loser
    BY <2>4, DecisiveVerdict
  <2>6. pc'[t] = "score2" => credit'[outcome.loser] = 0
    <3>1. CASE pc[t] = "score1"
      <4>1. \A p \in Players : credit[p] = 0
        BY <3>1 DEF SettlementInv
      <4>2. \/ credit' = credit
            \/ credit' = [credit EXCEPT ![outcome.winner] = @ + WinScore]
        BY <1>17, <3>1 DEF SubmitScores, SubmitScore
      <4>3. QED
        BY <2>5, <4>1, <4>2 DEF TypeOK
    <3>2. CASE pc[t] = "score2"
      BY <2>1, <3>2
    <3>3. QED
      BY <2>1, <3>1, <3>2
  <2>7. ~Locked'
    BY <1>0, <2>1, <2>2 DEF SettlementInv, Locked
  <2>8. \A u \in Threads : u # t => ~Settling(u)'
    BY <2>1, <2>2 DEF Settling
  <2>9. QED
    BY <2>1, <2>2, <2>3, <2>6, <2>7, <2>8 DEF SettlementInv, Settling
<1>18. ASSUME NEW t \in Threads, PushResult1(t) \/ PushResult2(t) PROVE SettlementInv'
  <2>1. /\ UNCHANGED <<finished, outcome, credit, verdict>>
        /\ pc[t] \in {"result1", "result2"}
        /\ pc'[t] \in IF pc[t] = "result1" THEN {"result2"} ELSE {"cleanup", "idle"}
        /\ \A u \in Threads : u # t => pc'[u] = pc[u]
    <3>1. CASE PushResult1(t)
      BY <3>1 DEF TypeOK, PushResult1, PushResult
    <3>2. CASE PushResult2(t)
      BY <3>2 DEF TypeOK, PushResult2, PushResult
    <3>3. QED
      BY <1>18, <3>1, <3>2
  <2>2. Settling(t) /\ finished /\ \A u \in Threads : u # t => ~Settling(u)
    BY <2>1 DEF SettlementInv, Settling
  <2>3. pc'[t] = "result2" => sent'[P2] = 0
    <3>1. CASE pc[t] = "result1"
      <4>1. \A p \in Players : sent[p] = 0
        BY <3>1 DEF SettlementInv
      <4>2. sent' = [sent EXCEPT ![P1] = @ + 1]
        BY <1>18, <3>1 DEF PushResult1, PushResult2, PushResult
      <4>3. QED
        BY <4>1, <4>2 DEF TypeOK, Players
    <3>2. CASE pc[t] = "result2"
      BY <2>1, <3>2
    <3>3. QED
      BY <2>1, <3>1, <3>2
  <2>4. ~Locked'
    BY <1>0, <2>1, <2>2 DEF SettlementInv, Locked
  <2>5. \A u \in Threads : u # t => ~Settling(u)'
    BY <2>1, <2>2 DEF Settling
  <2>6. \A p \in Players : results'[p] \in 0..sent'[p]
    <3>1. \E p \in Players :
            /\ sent' = [sent EXCEPT ![p] = @ + 1]
            /\ results' = results \/ results' = [results EXCEPT ![p] = @ + 1]
      BY <1>18 DEF PushResult1, PushResult2, PushResult, Players
    <3>2. /\ sent \in [Players -> Nat] /\ results \in [Players -> Nat]
          /\ \A p \in Players : results[p] \in 0..sent[p]
      BY DEF TypeOK, SettlementInv
    <3>3. QED
      BY <3>1, <3>2
  <2>7. QED
    BY <2>1, <2>2, <2>3, <2>4, <2>5, <2>6 DEF SettlementInv, Settling
<1>19. QED
  BY <1>1, <1>2, <1>3, <1>4, <1>5, <1>6, <1>7, <1>8, <1>9, <1>10, <1>11, <1>12,
     <1>13, <1>14, <1>15, <1>16, <1>17, <1>18
     DEF Next, Tick, OnPlayerQuit, Settle, Threads

\* At most one thread publishes, and nothing it has still to publish has been
\* published (SettlementInv).
THEOREM OneSettler == Spec => []SettlementInv
<1>1. Init => SettlementInv
  BY DEF Init, SettlementInv, Settling, Locked, Threads
<1>2. TypeOK /\ SettlementInv /\ [Next]_vars => SettlementInv'
  BY SettlementStep
<1>3. QED
  BY <1>1, <1>2, TypeCorrect, PTL DEF Spec

-----------------------------------------------------------------------------
\* The refinement mapping is the identity on outcome, credit and sent.
LEMMA InitPromise == Init => Promise!Init
  BY DEF Init, Promise!Init, Undecided, Promise!Undecided

LEMMA StepPromise ==
    ASSUME TypeOK, SettlementInv, [Next]_vars
    PROVE  [Promise!Next]_(Promise!vars)
<1> USE DEF Promise!vars, outside
<1>1. ASSUME NEW t \in Threads, Finish(t) PROVE Promise!Decide
  <2>1. verdict[t] \in Verdicts /\ outcome = Undecided
    BY <1>1 DEF SettlementInv, Finish, AlreadyOver
  <2>2. verdict[t] \in Promise!Verdicts
    BY <2>1, VerdictsAgree
  <2>3. QED
    BY <1>1, <2>1, <2>2 DEF Finish, Promise!Decide, Undecided, Promise!Undecided
<1>2. ASSUME NEW t \in Threads, SubmitScores(t)
      PROVE  (\E p \in Players : Promise!Credit(p)) \/ UNCHANGED <<outcome, credit, sent, results>>
  <2>1. /\ outcome # Undecided /\ pc[t] \in {"score1", "score2"}
        /\ outcome.winner # NoPlayer
    BY <1>2 DEF SettlementInv, SubmitScores, SubmitScore, Settling
  <2>2. outcome \in Verdicts /\ outcome # Draw
    BY <2>1 DEF TypeOK, Draw
  <2>3. outcome.winner \in Players /\ outcome.loser \in Players /\ outcome.winner # outcome.loser
    BY <2>2, DecisiveVerdict
  <2>4. CASE SubmitScore(t, "score1", outcome.winner, WinScore, "score2")
    <3>1. credit[outcome.winner] = 0
      BY <2>3, <2>4 DEF SettlementInv, SubmitScore
    <3>2. 0 + WinScore = WinScore
      BY NumbersAssumption
    <3>3. Promise!Credit(outcome.winner) \/ UNCHANGED <<outcome, credit, sent, results>>
      BY <2>1, <2>4, <3>1, <3>2
         DEF SubmitScore, Promise!Credit, Promise!Owed, Undecided, Promise!Undecided
    <3>4. QED
      BY <2>3, <3>3
  <2>5. CASE SubmitScore(t, "score2", outcome.loser, LoseScore, "result1")
    <3>1. credit[outcome.loser] = 0
      BY <2>5 DEF SettlementInv, SubmitScore
    <3>2. 0 + LoseScore = LoseScore
      BY NumbersAssumption
    <3>3. Promise!Credit(outcome.loser) \/ UNCHANGED <<outcome, credit, sent, results>>
      BY <2>1, <2>3, <2>5, <3>1, <3>2
         DEF SubmitScore, Promise!Credit, Promise!Owed, Undecided, Promise!Undecided
    <3>4. QED
      BY <2>3, <3>3
  <2>6. QED
    BY <1>2, <2>4, <2>5 DEF SubmitScores
<1>3. ASSUME NEW t \in Threads, PushResult1(t) PROVE Promise!Deliver(P1)
  <2>1. outcome # Undecided /\ sent[P1] = 0
    BY <1>3 DEF SettlementInv, PushResult1, PushResult, Settling, Players
  <2>2. QED
    <3>1. sent' = [sent EXCEPT ![P1] = 1]
      BY <1>3, <2>1 DEF PushResult1, PushResult
    <3>2. results[P1] = 0 /\ results \in [Players -> Nat]
      BY <2>1 DEF TypeOK, SettlementInv, Players
    <3>3. \E n \in {0, 1} : results' = [results EXCEPT ![P1] = n]
      <4>1. \/ results' = [results EXCEPT ![P1] = @ + 1]
            \/ results' = results
        BY <1>3 DEF PushResult1, PushResult
      <4>2. CASE results' = [results EXCEPT ![P1] = @ + 1]
        BY <3>2, <4>2
      <4>3. CASE results' = results
        <5>1. results' = [results EXCEPT ![P1] = 0]
          BY <3>2, <4>3
        <5>2. QED
          BY <5>1
      <4>4. QED
        BY <4>1, <4>2, <4>3
    <3>4. QED
      BY <1>3, <2>1, <3>1, <3>3
         DEF PushResult1, PushResult, Promise!Deliver, Undecided, Promise!Undecided
<1>4. ASSUME NEW t \in Threads, PushResult2(t) PROVE Promise!Deliver(P2)
  <2>1. outcome # Undecided /\ sent[P2] = 0
    BY <1>4 DEF SettlementInv, PushResult2, PushResult, Settling
  <2>2. QED
    <3>1. sent' = [sent EXCEPT ![P2] = 1]
      BY <1>4, <2>1 DEF PushResult2, PushResult
    <3>2. results[P2] = 0 /\ results \in [Players -> Nat]
      BY <2>1 DEF TypeOK, SettlementInv, Players
    <3>3. \E n \in {0, 1} : results' = [results EXCEPT ![P2] = n]
      <4>1. \/ results' = [results EXCEPT ![P2] = @ + 1]
            \/ results' = results
        BY <1>4 DEF PushResult2, PushResult
      <4>2. CASE results' = [results EXCEPT ![P2] = @ + 1]
        BY <3>2, <4>2
      <4>3. CASE results' = results
        <5>1. results' = [results EXCEPT ![P2] = 0]
          BY <3>2, <4>3
        <5>2. QED
          BY <5>1
      <4>4. QED
        BY <4>1, <4>2, <4>3
    <3>4. QED
      BY <1>4, <2>1, <3>1, <3>3
         DEF PushResult2, PushResult, Promise!Deliver, Undecided, Promise!Undecided
<1>5. ASSUME NEW t \in Threads, FinishTwice(t) PROVE UNCHANGED <<outcome, credit, sent, results>>
  BY <1>5 DEF FinishTwice
<1>6. ASSUME NEW t \in Threads, Settle(t) PROVE [Promise!Next]_(Promise!vars)
  BY <1>1, <1>2, <1>3, <1>4, <1>5, <1>6 DEF Settle, Promise!Next, Players
<1>7. CASE \/ Advance \/ UNCHANGED vars
           \/ \E p \in Players, op \in Inputs : SubmitOp(p, op)
           \/ \E h \in Handlers, id \in Callers : QuitRoom(h, id)
           \/ \E h \in Handlers : QuitAccepted(h) \/ QuitIgnored(h)
  BY <1>7 DEF Advance, vars, SubmitOp, QuitRoom, QuitAccepted, QuitIgnored
<1>8. CASE \/ TickStart \/ TickSkip \/ ConsumeOp \/ Spawn \/ Kill \/ TimeUp
           \/ Broadcast \/ PushFrames \/ Cleanup
  BY <1>8 DEF TickStart, TickSkip, ConsumeOp, Spawn, Kill, TimeUp, Broadcast,
              PushFrames, PushFrame, Cleanup
<1>9. QED
  BY <1>6, <1>7, <1>8 DEF Next, Tick, OnPlayerQuit, Threads

\* A room implements Settlement: one outcome, no credit and no result twice,
\* none before the outcome, and no points but those the outcome owes.
THEOREM RoomSettles == Spec => Promise!SafeSpec
<1>1. TypeOK /\ SettlementInv /\ [Next]_vars => [Promise!Next]_(Promise!vars)
  BY StepPromise
<1>2. QED
  BY <1>1, InitPromise, TypeCorrect, OneSettler, PTL DEF Spec, Promise!SafeSpec

-----------------------------------------------------------------------------
(* The rules of the battle: what damage a player can have taken, who falls in a *)
(* mutual kill, which frames the players have, when the room is dropped.        *)

\* The rest of the tick: it neither holds r.mu nor touches the battle.
RestOfTick == TickSkip \/ PushFrames \/ Settle(Ticker) \/ Cleanup

\* What every goroutine but the tick's leaves alone: it never moves the tick,
\* changes no frame, and the HP of nobody who is left standing.
LEMMA OthersFrame ==
    ASSUME TypeOK, [Next]_vars, ~Tick
    PROVE  /\ UNCHANGED <<tickCount, started, listed, frames, missed, lastAtk, lastSkill>>
           /\ pc'[Ticker] = pc[Ticker]
           /\ finished => finished'
           /\ \A p \in Players : alive'[p] => alive[p] /\ hp'[p] = hp[p]
<1> USE PlayersAssumption DEF battle, outside
<1> DEFINE Goal == /\ UNCHANGED <<tickCount, started, listed, frames, missed, lastAtk, lastSkill>>
                   /\ pc'[Ticker] = pc[Ticker]
                   /\ finished => finished'
                   /\ \A p \in Players : alive'[p] => alive[p] /\ hp'[p] = hp[p]
<1>1. CASE Advance \/ UNCHANGED vars
  BY <1>1 DEF Advance, vars
<1>2. ASSUME NEW p \in Players, NEW op \in Inputs, SubmitOp(p, op) PROVE Goal
  BY <1>2 DEF SubmitOp
<1>3. ASSUME NEW h \in Handlers, NEW id \in Callers, QuitRoom(h, id) PROVE Goal
  BY <1>3 DEF TypeOK, QuitRoom
<1>4. ASSUME NEW h \in Handlers, QuitAccepted(h) PROVE Goal
  <2>1. /\ UNCHANGED <<tickCount, started, listed, finished, frames, missed, lastAtk, lastSkill>>
        /\ pc'[Ticker] = pc[Ticker]
    BY <1>4 DEF TypeOK, QuitAccepted
  <2>2. \A p \in Players : alive'[p] => alive[p] /\ hp'[p] = hp[p]
    BY <1>4 DEF TypeOK, QuitAccepted, CanQuit
  <2>3. QED
    BY <2>1, <2>2
<1>5. ASSUME NEW h \in Handlers, QuitIgnored(h) PROVE Goal
  BY <1>5 DEF TypeOK, QuitIgnored
<1>6. ASSUME NEW h \in Handlers, Settle(h) PROVE Goal
  <2>1. UNCHANGED <<tickCount, started, listed, frames, missed, battle>> /\ (finished => finished')
    BY <1>6 DEF Settle, Finish, FinishTwice, SubmitScores, SubmitScore, PushResult1, PushResult2, PushResult
  <2>2. \E l : pc' = [pc EXCEPT ![h] = l]
    BY <1>6 DEF Settle, Finish, FinishTwice, SubmitScores, SubmitScore, PushResult1, PushResult2, PushResult
  <2>3. pc'[Ticker] = pc[Ticker]
    BY <2>2 DEF TypeOK
  <2>4. QED
    BY <2>1, <2>3
<1>7. QED
  BY <1>1, <1>2, <1>3, <1>4, <1>5, <1>6 DEF Next, OnPlayerQuit

\* What the rest of the tick leaves alone.
LEMMA RestFrame ==
    ASSUME TypeOK, RestOfTick
    PROVE  /\ UNCHANGED <<tickCount, started, alive, hp, lastAtk, lastSkill>>
           /\ ~Locked /\ ~Locked'
           /\ pc'[Ticker] \in {"push1", "push2"} => pc[Ticker] \in {"push1", "push2"}
<1> USE PlayersAssumption DEF battle
<1>0. Ticker \in Threads
  BY DEF Threads
<1>1. CASE TickSkip
  BY <1>0, <1>1 DEF TypeOK, TickSkip, Locked
<1>2. CASE PushFrames
  BY <1>0, <1>2 DEF TypeOK, PushFrames, PushFrame, Locked
<1>3. CASE Cleanup
  BY <1>0, <1>3 DEF TypeOK, Cleanup, Locked
<1>4. CASE Settle(Ticker)
  <2>1. /\ UNCHANGED <<tickCount, started, battle>>
        /\ pc[Ticker] \in SettleLabels
    BY <1>4 DEF Settle, SettleLabels, Finish, FinishTwice, SubmitScores, SubmitScore,
                PushResult1, PushResult2, PushResult
  <2>2. \E l \in {"score1", "score2", "result1", "result2", "cleanup"} :
           pc' = [pc EXCEPT ![Ticker] = l]
    BY <1>4 DEF Settle, Finish, FinishTwice, SubmitScores, SubmitScore, PushResult1, PushResult2, PushResult
  <2>3. pc'[Ticker] \in {"score1", "score2", "result1", "result2", "cleanup"}
    BY <1>0, <2>2 DEF TypeOK
  <2>4. QED
    BY <2>1, <2>3 DEF Locked, SettleLabels
<1>5. QED
  BY <1>1, <1>2, <1>3, <1>4 DEF RestOfTick

-----------------------------------------------------------------------------
\* The inductive invariant behind NoDamageBeforeSpawn: before the spawn there is
\* at most the first frame, and no cooldown has been started.
EarlyInv ==
    ~started =>
      /\ tickCount = IF Locked THEN 1 ELSE 0
      /\ \A p \in Players : /\ lastAtk[p] = 0 /\ lastSkill[p] = 0
                            /\ alive[p] => hp[p] = MaxHp

LEMMA EarlyStep ==
    ASSUME AtkCooldown > 1, SkillCooldown > 1, TypeOK, EarlyInv, [Next]_vars
    PROVE  EarlyInv'
<1> USE PlayersAssumption, NumbersAssumption
<1>1. CASE ~Tick
  BY <1>1, OthersFrame DEF EarlyInv, Locked
<1>2. CASE RestOfTick
  BY <1>2, RestFrame DEF EarlyInv
<1>3. CASE TickStart
  <2>1. /\ ~Locked /\ Locked'
        /\ tickCount' = tickCount + 1 /\ UNCHANGED <<started, alive, hp, lastAtk, lastSkill>>
    BY <1>3 DEF TypeOK, TickStart, Locked, Threads, battle
  <2>2. QED
    BY <2>1 DEF EarlyInv
<1>4. CASE ConsumeOp
  <2> DEFINE rec == Head(pendingOps)
  <2>1. UNCHANGED <<tickCount, started, alive, pc>> /\ Locked
    BY <1>4, ApplyOpFrame DEF ConsumeOp
  <2>2. CASE started
    BY <2>1, <2>2 DEF EarlyInv
  <2>3. CASE ~started
    <3>1. tickCount = 1
      BY <2>1, <2>3 DEF EarlyInv
    <3>2. rec.player \in Players
      <4>1. pendingOps \in Seq([player : Players, op : Inputs]) /\ pendingOps # <<>>
        BY <1>4 DEF TypeOK, ConsumeOp
      <4>2. rec \in [player : Players, op : Inputs]
        BY <4>1, HeadTailProperties
      <4>3. QED
        BY <4>2
    <3>3. ~Ready(lastAtk[rec.player], AtkCooldown) /\ ~Ready(lastSkill[rec.player], SkillCooldown)
      BY <2>3, <3>1, <3>2 DEF EarlyInv, Ready
    <3>4. UNCHANGED <<hp, lastAtk, lastSkill>>
      BY <1>4, <3>3 DEF ConsumeOp, ApplyOp, Move, Atk, Skill, NoEffect, battle
    <3>5. QED
      BY <2>1, <3>4 DEF EarlyInv, Locked
  <2>4. QED
    BY <2>2, <2>3
<1>5. CASE Spawn
  BY <1>5 DEF Spawn, EarlyInv
<1>6. CASE Kill \/ TimeUp \/ Broadcast
  BY <1>6 DEF Kill, TimeUp, Broadcast, EarlyInv
<1>7. QED
  BY <1>1, <1>2, <1>3, <1>4, <1>5, <1>6 DEF Tick, RestOfTick

LEMMA EarlyAlways == ASSUME AtkCooldown > 1, SkillCooldown > 1 PROVE Spec => []EarlyInv
<1>1. Init => EarlyInv
  BY DEF Init, EarlyInv, Locked, Threads
<1>2. TypeOK /\ EarlyInv /\ [Next]_vars => EarlyInv'
  BY EarlyStep
<1>3. QED
  BY <1>1, <1>2, TypeCorrect, PTL DEF Spec

\* If both cooldowns are longer than a frame, inputs that were queued before the
\* first tick, when both stand at the origin, hurt nobody (ApplyOp before the
\* spawn in Tick; the code has 10 and 40 frames).
THEOREM SafeUntilSpawn ==
    ASSUME AtkCooldown > 1, SkillCooldown > 1
    PROVE  Spec => []NoDamageBeforeSpawn
<1>1. EarlyInv => NoDamageBeforeSpawn
  BY DEF EarlyInv, NoDamageBeforeSpawn
<1>2. QED
  BY <1>1, EarlyAlways, PTL
-----------------------------------------------------------------------------
LEMMA MutualKillStep ==
    ASSUME TypeOK, EarlyInv, MutualKillFavoursP2, [Next]_vars
    PROVE  MutualKillFavoursP2'
<1> USE PlayersAssumption, NumbersAssumption
<1>0. hp \in [Players -> Int] /\ alive \in [Players -> BOOLEAN] /\ Ticker \in Threads
  BY DEF TypeOK, Threads
<1>1. CASE ~Tick
  <2>1. pc'[Ticker] = pc[Ticker] /\ \A p \in Players : alive'[p] => alive[p] /\ hp'[p] = hp[p]
    BY <1>1, OthersFrame
  <2>2. QED
    BY <2>1 DEF MutualKillFavoursP2, StandsWithoutHp, Locked, Players
<1>2. CASE RestOfTick
  BY <1>2, RestFrame DEF MutualKillFavoursP2, StandsWithoutHp
<1>3. CASE TickStart \/ ConsumeOp
  <2>1. Locked'
    BY <1>3 DEF TypeOK, TickStart, ConsumeOp, Locked, Threads
  <2>2. QED
    BY <2>1 DEF MutualKillFavoursP2
<1>4. CASE Spawn
  <2>1. \A p \in Players : ~StandsWithoutHp(p)
    BY <1>0, <1>4 DEF Spawn, EarlyInv, StandsWithoutHp
  <2>2. UNCHANGED <<alive, hp>>
    BY <1>4 DEF Spawn
  <2>3. QED
    BY <2>1, <2>2 DEF MutualKillFavoursP2, StandsWithoutHp, Players
<1>5. CASE TimeUp \/ Broadcast
  <2>1. ~StandsWithoutHp(P1) /\ ~StandsWithoutHp(P2)
    BY <1>5 DEF TimeUp, Broadcast, Fallen, StandsWithoutHp
  <2>2. UNCHANGED <<alive, hp>>
    BY <1>5 DEF TimeUp, Broadcast
  <2>3. QED
    BY <2>1, <2>2 DEF MutualKillFavoursP2, StandsWithoutHp
<1>6. CASE Kill
  <2>1. pc'[Ticker] = "finish"
    BY <1>0, <1>6 DEF TypeOK, Kill
  <2>2. CASE Fallen(P1)
    <3>1. alive' = [alive EXCEPT ![P1] = FALSE]
      BY <1>6, <2>2 DEF Kill, FirstFallen
    <3>2. ~alive'[P1]
      BY <1>0, <3>1 DEF Players
    <3>3. QED
      BY <2>1, <3>2 DEF MutualKillFavoursP2, StandsWithoutHp
  <2>3. CASE ~Fallen(P1)
    <3>1. alive' = [alive EXCEPT ![P2] = FALSE] /\ hp' = [hp EXCEPT ![P2] = 0]
      BY <1>6, <2>3 DEF Kill, FirstFallen
    <3>2. ~alive'[P2] /\ alive'[P1] = alive[P1] /\ hp'[P1] = hp[P1]
      BY <1>0, <3>1 DEF Players
    <3>3. QED
      BY <2>3, <3>2 DEF MutualKillFavoursP2, StandsWithoutHp, Fallen
  <2>4. QED
    BY <2>2, <2>3
<1>7. QED
  BY <1>1, <1>2, <1>3, <1>4, <1>5, <1>6 DEF Tick, RestOfTick

\* Whenever the tick is out of its section the only player who stands without HP
\* is the P2 of a mutual kill, and no frame is sent any more: P1 is looked at
\* first (the death check of Tick).
THEOREM P2WinsMutualKill ==
    ASSUME AtkCooldown > 1, SkillCooldown > 1
    PROVE  Spec => []MutualKillFavoursP2
<1>1. Init => MutualKillFavoursP2
  BY NumbersAssumption
     DEF Init, MutualKillFavoursP2, StandsWithoutHp, Players
<1>2. TypeOK /\ EarlyInv /\ MutualKillFavoursP2 /\ [Next]_vars => MutualKillFavoursP2'
  BY MutualKillStep
<1>3. QED
  BY <1>1, <1>2, EarlyAlways, TypeCorrect, PTL DEF Spec

-----------------------------------------------------------------------------
\* The inductive invariant behind FramesInLockstep, by where the tick is.  The
\* tick that ends the battle, or comes too late for it, sends no frame.
Got(p, n) == frames[p] <= n /\ (missed[p] \/ frames[p] = n)
Sent(n, m) == Got(P1, n) /\ Got(P2, m)

FrameInv ==
    LET here == pc[Ticker]
    IN /\ here \in {"consume", "push1"} => Sent(tickCount - 1, tickCount - 1)
       /\ here = "push2" => Sent(tickCount, tickCount - 1)
       /\ here = "finish" => Sent(tickCount - 1, tickCount - 1)
       /\ here \in SettleLabels \ {"finish"} =>
            finished /\ Sent(tickCount - 1, tickCount - 1)
       /\ here \in {"idle", "cleanup"} =>
            \/ Sent(tickCount, tickCount)
            \/ finished /\ Sent(tickCount - 1, tickCount - 1)

LEMMA FrameStep ==
    ASSUME TypeOK, FrameInv, [Next]_vars
    PROVE  FrameInv'
<1> USE PlayersAssumption DEF Sent, Got, SettleLabels
<1>0. /\ tickCount \in Nat /\ frames \in [Players -> Nat] /\ missed \in [Players -> BOOLEAN]
      /\ P1 \in Players /\ P2 \in Players
      /\ Ticker \in Threads /\ Ticker \in DOMAIN pc
  BY DEF TypeOK, Players, Threads
<1>1. CASE ~Tick
  BY <1>1, OthersFrame DEF FrameInv
<1>2. CASE TickStart
  BY <1>0, <1>2 DEF TickStart, FrameInv, outside
<1>3. CASE TickSkip
  <2>1. pc'[Ticker] = "cleanup" /\ pc[Ticker] = "idle"
    BY <1>0, <1>3 DEF TickSkip
  <2>2. QED
    BY <1>3, <2>1 DEF TickSkip, FrameInv, outside
<1>4. CASE ConsumeOp
  BY <1>4 DEF ConsumeOp, FrameInv, outside
<1>5. CASE Spawn \/ Kill \/ TimeUp \/ Broadcast
  <2>1. pc[Ticker] = "consume" /\ pc'[Ticker] \in {"push1", "finish"}
    BY <1>0, <1>5 DEF Spawn, Kill, TimeUp, Broadcast, AllConsumed, Locked
  <2>2. UNCHANGED <<tickCount, frames, missed>>
    BY <1>5 DEF Spawn, Kill, TimeUp, Broadcast, outside
  <2>3. QED
    BY <2>1, <2>2 DEF FrameInv
<1>6. CASE PushFrames
  <2>1. CASE PushFrame("push1", P1, "push2")
    <3>1. pc[Ticker] = "push1" /\ pc'[Ticker] = "push2"
      BY <1>0, <2>1 DEF PushFrame
    <3>2. /\ frames'[P1] = tickCount \/ (frames'[P1] = frames[P1] /\ missed'[P1])
          /\ frames'[P2] = frames[P2] /\ missed'[P2] = missed[P2]
          /\ tickCount' = tickCount
      BY <1>0, <2>1 DEF PushFrame
    <3>3. Sent(tickCount - 1, tickCount - 1)
      BY <3>1 DEF FrameInv
    <3>4. Sent(tickCount, tickCount - 1)'
      <4>1. Got(P1, tickCount)'
        BY <1>0, <3>2, <3>3
      <4>2. Got(P2, tickCount - 1)'
        BY <1>0, <3>2, <3>3
      <4>3. QED
        BY <4>1, <4>2
    <3>5. QED
      BY <3>1, <3>4 DEF FrameInv
  <2>2. CASE PushFrame("push2", P2, "cleanup")
    <3>1. pc[Ticker] = "push2" /\ pc'[Ticker] = "cleanup"
      BY <1>0, <2>2 DEF PushFrame
    <3>2. /\ frames'[P2] = tickCount \/ (frames'[P2] = frames[P2] /\ missed'[P2])
          /\ frames'[P1] = frames[P1] /\ missed'[P1] = missed[P1]
          /\ tickCount' = tickCount
      BY <1>0, <2>2 DEF PushFrame
    <3>3. Sent(tickCount, tickCount - 1)
      BY <3>1 DEF FrameInv
    <3>4. Sent(tickCount, tickCount)'
      <4>1. Got(P1, tickCount)'
        BY <1>0, <3>2, <3>3
      <4>2. Got(P2, tickCount)'
        BY <1>0, <3>2, <3>3
      <4>3. QED
        BY <4>1, <4>2
    <3>5. QED
      BY <3>1, <3>4 DEF FrameInv
  <2>3. QED
    BY <1>6, <2>1, <2>2 DEF PushFrames
<1>7. CASE Settle(Ticker)
  <2>1. UNCHANGED <<tickCount, frames, missed>> /\ (finished => finished')
    BY <1>7 DEF Settle, Finish, FinishTwice, SubmitScores, SubmitScore,
                PushResult1, PushResult2, PushResult, outside
  <2>2. pc[Ticker] \in SettleLabels /\ finished'
    BY <1>7 DEF Settle, Finish, FinishTwice, AlreadyOver, SubmitScores, SubmitScore,
                PushResult1, PushResult2, PushResult, FrameInv
  <2>3. \E l \in {"score1", "score2", "result1", "result2", "cleanup"} :
           pc' = [pc EXCEPT ![Ticker] = l]
    BY <1>7 DEF Settle, Finish, FinishTwice, SubmitScores, SubmitScore, PushResult1, PushResult2, PushResult
  <2>4. pc'[Ticker] \in {"score1", "score2", "result1", "result2", "cleanup"}
    BY <1>0, <2>3
  <2>5. QED
    BY <2>1, <2>2, <2>4 DEF FrameInv
<1>8. CASE Cleanup
  <2>1. pc[Ticker] = "cleanup" /\ pc'[Ticker] = "idle"
    BY <1>0, <1>8 DEF Cleanup
  <2>2. UNCHANGED <<tickCount, frames, missed, finished>>
    BY <1>8 DEF Cleanup, outside
  <2>3. QED
    BY <2>1, <2>2 DEF FrameInv
<1>9. QED
  BY <1>1, <1>2, <1>3, <1>4, <1>5, <1>6, <1>7, <1>8 DEF Tick

\* What has reached the players is known from where the tick is, always.
LEMMA FramesKnown == Spec => []FrameInv
<1>1. Init => FrameInv
  BY DEF Init, FrameInv, Sent, Got, Threads, Players, SettleLabels
<1>2. TypeOK /\ FrameInv /\ [Next]_vars => FrameInv'
  BY FrameStep
<1>3. QED
  BY <1>1, <1>2, TypeCorrect, PTL DEF Spec

\* A player to whom no push failed has every frame but perhaps the tick's last, whatever becomes
\* of the pushes to the other, of quits and of results pushed meanwhile (Tick step 6, pushFrame,
\* whose failures the tick only logs).
THEOREM Lockstep == Spec => []FramesInLockstep
<1>1. TypeOK /\ FrameInv => FramesInLockstep
  <2> SUFFICES ASSUME TypeOK, FrameInv PROVE FramesInLockstep
    OBVIOUS
  <2>1. tickCount \in Nat /\ frames \in [Players -> Nat] /\ P1 \in Players /\ P2 \in Players
    BY DEF TypeOK, Players
  <2>2. pc[Ticker] \in TickLabels \cup SettleLabels
    BY DEF TypeOK
  <2>3. \E n, m \in {tickCount, tickCount - 1} : Sent(n, m)
    BY <2>1, <2>2 DEF FrameInv, TickLabels, SettleLabels
  <2>4. QED
    BY <2>1, <2>3 DEF Sent, Got, FramesInLockstep, Players
<1>2. QED
  BY <1>1, FramesKnown, TypeCorrect, PTL

\* The frames that reach a player at once reach him in order and once, and without a gap as long
\* as no push to him failed (the frame numbers of pushFrame and pushSnapshot count the ticks that
\* send any).
THEOREM InOrder == Spec => FramesInOrder
<1> DEFINE Step == \A p \in Players :
                     frames'[p] # frames[p] => /\ frames'[p] > frames[p]
                                               /\ missed[p] \/ frames'[p] = frames[p] + 1
<1>1. TypeOK /\ FrameInv /\ [Next]_vars => Step
  <2> SUFFICES ASSUME TypeOK, FrameInv, [Next]_vars PROVE Step
    OBVIOUS
  <2>1. tickCount \in Nat /\ frames \in [Players -> Nat] /\ P1 # P2
    BY PlayersAssumption DEF TypeOK
  <2>2. CASE ~Tick
    BY <2>2, OthersFrame
  <2>3. CASE TickStart \/ TickSkip \/ ConsumeOp \/ Spawn \/ Kill \/ TimeUp \/ Broadcast
             \/ Settle(Ticker) \/ Cleanup
    <3>1. frames' = frames
      BY <2>3 DEF TickStart, TickSkip, ConsumeOp, Spawn, Kill, TimeUp, Broadcast, Settle,
                  Finish, FinishTwice, SubmitScores, SubmitScore, PushResult1, PushResult2, PushResult,
                  Cleanup, outside
    <3>2. QED
      BY <3>1
  <2>4. CASE PushFrames
    <3>1. PICK p \in Players : /\ \/ frames' = [frames EXCEPT ![p] = tickCount]
                                  \/ frames' = frames
                               /\ Got(p, tickCount - 1)
      BY <2>4 DEF PushFrames, PushFrame, FrameInv, Sent, Players
    <3>2. QED
      BY <2>1, <3>1 DEF Got
  <2>5. QED
    BY <2>2, <2>3, <2>4 DEF Tick
<1>2. Step => [Step]_vars
  OBVIOUS
<1>3. QED
  BY <1>1, <1>2, FramesKnown, TypeCorrect, PTL DEF Spec, FramesInOrder

-----------------------------------------------------------------------------
LEMMA RemovalStep ==
    ASSUME TypeOK, RemovedWhenOver, [Next]_vars
    PROVE  RemovedWhenOver'
<1> USE PlayersAssumption
<1>0. Ticker \in DOMAIN pc
  BY DEF TypeOK, Threads
<1>1. CASE ~Tick
  BY <1>1, OthersFrame DEF RemovedWhenOver
<1>2. CASE TickStart
  BY <1>2 DEF TickStart, RemovedWhenOver
<1>3. CASE TickSkip
  BY <1>0, <1>3 DEF TickSkip, RemovedWhenOver
<1>4. CASE ConsumeOp \/ Spawn \/ Kill \/ TimeUp \/ Broadcast \/ PushFrames \/ Settle(Ticker)
  <2>1. pc[Ticker] \notin {"idle", "cleanup"} /\ listed' = listed
    BY <1>4 DEF ConsumeOp, Spawn, Kill, TimeUp, Broadcast, AllConsumed, Locked, PushFrames,
                PushFrame, Settle, Finish, FinishTwice, SubmitScores, SubmitScore,
                PushResult1, PushResult2, PushResult
  <2>2. QED
    BY <2>1 DEF RemovedWhenOver
<1>5. CASE Cleanup
  BY <1>0, <1>5 DEF Cleanup, Expired, RemovedWhenOver
<1>6. QED
  BY <1>1, <1>2, <1>3, <1>4, <1>5 DEF Tick

\* No room is dropped from the map while its battle lasts or the tick settles it
\* (the clean-up at the end of TickAll).
THEOREM DroppedWhenOver == Spec => []RemovedWhenOver
<1>1. Init => RemovedWhenOver
  BY DEF Init, RemovedWhenOver
<1>2. TypeOK /\ RemovedWhenOver /\ [Next]_vars => RemovedWhenOver'
  BY RemovalStep
<1>3. QED
  BY <1>1, <1>2, TypeCorrect, PTL DEF Spec
-----------------------------------------------------------------------------
\* What one attacker may have dealt by now: an attack and a skill per cooldown.
Dealt(q) == AtkDamage * (lastAtk[q] \div AtkCooldown)
            + SkillDamage * (lastSkill[q] \div SkillCooldown)

\* The inductive invariant behind DamageWithinCooldown: the HP a standing player
\* has lost are accounted for by the frames at which the two last attacked.
DamageInv ==
    /\ \A q \in Players : lastAtk[q] <= tickCount /\ lastSkill[q] <= tickCount
    /\ \A p \in Players : alive[p] => MaxHp - hp[p] <= Dealt(P1) + Dealt(P2)

\* A whole cooldown later there is room for one more attack.
LEMMA OneMore ==
    ASSUME NEW c \in Nat, c > 0, NEW m \in Nat, NEW n \in Nat, n - m >= c
    PROVE  m \div c \in Nat /\ n \div c \in Nat /\ n \div c >= m \div c + 1
OBVIOUS

LEMMA NoLess ==
    ASSUME NEW c \in Nat, c > 0, NEW m \in Nat, NEW n \in Nat, m <= n
    PROVE  m \div c \in Nat /\ n \div c \in Nat /\ m \div c <= n \div c
OBVIOUS

LEMMA Times ==
    ASSUME NEW d \in Nat, NEW m \in Nat, NEW n \in Nat, NEW k \in Nat, n >= m + k
    PROVE  d * m \in Nat /\ d * n \in Nat /\ d * n >= d * m + d * k
OBVIOUS
LEMMA DealtType ==
    ASSUME TypeOK, AtkCooldown > 0, SkillCooldown > 0, NEW q \in Players
    PROVE  Dealt(q) \in Nat
<1>1. /\ AtkDamage \in Nat /\ SkillDamage \in Nat
      /\ AtkCooldown \in Nat /\ SkillCooldown \in Nat
  BY NumbersAssumption
<1>2. lastAtk[q] \in Nat /\ lastSkill[q] \in Nat
  BY DEF TypeOK
<1>3. lastAtk[q] \div AtkCooldown \in Nat /\ lastSkill[q] \div SkillCooldown \in Nat
  BY <1>1, <1>2, NoLess
<1>4. AtkDamage * (lastAtk[q] \div AtkCooldown) \in Nat
  BY <1>1, <1>3, Times
<1>5. SkillDamage * (lastSkill[q] \div SkillCooldown) \in Nat
  BY <1>1, <1>3, Times
<1>6. QED
  BY <1>4, <1>5 DEF Dealt

\* An attack off cooldown adds its damage to what the attacker may have dealt,
\* and takes no more than that from anybody.
LEMMA DamageAtk ==
    ASSUME TypeOK, AtkCooldown > 0, SkillCooldown > 0, DamageInv,
           NEW p \in Players, NEW op, Atk(p, op), tickCount' = tickCount
    PROVE  DamageInv'
<1>0. /\ AtkDamage \in Nat /\ SkillDamage \in Nat
      /\ AtkCooldown \in Nat /\ SkillCooldown \in Nat /\ MaxHp \in Nat
      /\ tickCount \in Nat /\ hp \in [Players -> Int]
      /\ lastAtk \in [Players -> Nat] /\ lastSkill \in [Players -> Nat]
  BY NumbersAssumption DEF TypeOK
<1>1. /\ tickCount - lastAtk[p] >= AtkCooldown
      /\ lastAtk' = [lastAtk EXCEPT ![p] = tickCount]
      /\ lastSkill' = lastSkill /\ alive' = alive
  BY DEF Atk, Ready
<1>2. \A q \in Players : hp'[q] \in Int /\ hp'[q] >= hp[q] - AtkDamage
  BY <1>0 DEF Atk, Strike, Hits
<1>3. \A q \in Players : q # p => Dealt(q)' = Dealt(q)
  BY <1>0, <1>1 DEF Dealt
<1>4. Dealt(p)' \in Nat /\ Dealt(p)' >= Dealt(p) + AtkDamage
  <2> DEFINE was == lastAtk[p] \div AtkCooldown
             now == tickCount \div AtkCooldown
             other == SkillDamage * (lastSkill[p] \div SkillCooldown)
  <2>1. was \in Nat /\ now \in Nat /\ now >= was + 1
    BY <1>0, <1>1, OneMore
  <2>2. Dealt(p) = AtkDamage * was + other /\ Dealt(p)' = AtkDamage * now + other
    BY <1>0, <1>1 DEF Dealt
  <2>3. other \in Nat
    <3>1. lastSkill[p] \div SkillCooldown \in Nat
      BY <1>0, NoLess
    <3>2. QED
      BY <1>0, <3>1, Times
  <2> HIDE DEF was, now, other
  <2>4. /\ AtkDamage * was \in Nat /\ AtkDamage * now \in Nat
        /\ AtkDamage * now >= AtkDamage * was + AtkDamage * 1
    BY <1>0, <2>1, Times
  <2>5. AtkDamage * 1 = AtkDamage
    BY <1>0
  <2>6. QED
    BY <1>0, <2>2, <2>3, <2>4, <2>5
<1>5. \A q \in Players : Dealt(q) \in Nat
  BY DealtType
<1>6. Dealt(P1)' + Dealt(P2)' >= Dealt(P1) + Dealt(P2) + AtkDamage
      /\ Dealt(P1)' \in Nat /\ Dealt(P2)' \in Nat
  <2>1. P1 # P2 /\ P1 \in Players /\ P2 \in Players /\ (p = P1 \/ p = P2)
    BY PlayersAssumption DEF Players
  <2> HIDE DEF Dealt
  <2>2. CASE p = P1
    BY <1>0, <1>3, <1>4, <1>5, <2>1, <2>2
  <2>3. CASE p = P2
    BY <1>0, <1>3, <1>4, <1>5, <2>1, <2>3
  <2>4. QED
    BY <2>1, <2>2, <2>3
<1>7. \A q \in Players : lastAtk'[q] <= tickCount' /\ lastSkill'[q] <= tickCount'
  BY <1>0, <1>1 DEF DamageInv
<1>8. ASSUME NEW q \in Players, alive'[q]
      PROVE  MaxHp - hp'[q] <= Dealt(P1)' + Dealt(P2)'
  <2>1. MaxHp - hp[q] <= Dealt(P1) + Dealt(P2)
    BY <1>1, <1>8 DEF DamageInv
  <2>2. P1 \in Players /\ P2 \in Players
    BY DEF Players
  <2>3. QED
    BY <1>0, <1>2, <1>5, <1>6, <2>1, <2>2
<1>9. QED
  BY <1>7, <1>8 DEF DamageInv

\* The same for a skill.
LEMMA DamageSkill ==
    ASSUME TypeOK, AtkCooldown > 0, SkillCooldown > 0, DamageInv,
           NEW p \in Players, NEW op, Skill(p, op), tickCount' = tickCount
    PROVE  DamageInv'
<1>0. /\ AtkDamage \in Nat /\ SkillDamage \in Nat
      /\ AtkCooldown \in Nat /\ SkillCooldown \in Nat /\ MaxHp \in Nat
      /\ tickCount \in Nat /\ hp \in [Players -> Int]
      /\ lastAtk \in [Players -> Nat] /\ lastSkill \in [Players -> Nat]
  BY NumbersAssumption DEF TypeOK
<1>1. /\ tickCount - lastSkill[p] >= SkillCooldown
      /\ lastSkill' = [lastSkill EXCEPT ![p] = tickCount]
      /\ lastAtk' = lastAtk /\ alive' = alive
  BY DEF Skill, Ready
<1>2. \A q \in Players : hp'[q] \in Int /\ hp'[q] >= hp[q] - SkillDamage
  BY <1>0 DEF Skill, Strike, Hits
<1>3. \A q \in Players : q # p => Dealt(q)' = Dealt(q)
  BY <1>0, <1>1 DEF Dealt
<1>4. Dealt(p)' \in Nat /\ Dealt(p)' >= Dealt(p) + SkillDamage
  <2> DEFINE was == lastSkill[p] \div SkillCooldown
             now == tickCount \div SkillCooldown
             other == AtkDamage * (lastAtk[p] \div AtkCooldown)
  <2>1. was \in Nat /\ now \in Nat /\ now >= was + 1
    BY <1>0, <1>1, OneMore
  <2>2. Dealt(p) = other + SkillDamage * was /\ Dealt(p)' = other + SkillDamage * now
    BY <1>0, <1>1 DEF Dealt
  <2>3. other \in Nat
    <3>1. lastAtk[p] \div AtkCooldown \in Nat
      BY <1>0, NoLess
    <3>2. QED
      BY <1>0, <3>1, Times
  <2> HIDE DEF was, now, other
  <2>4. /\ SkillDamage * was \in Nat /\ SkillDamage * now \in Nat
        /\ SkillDamage * now >= SkillDamage * was + SkillDamage * 1
    BY <1>0, <2>1, Times
  <2>5. SkillDamage * 1 = SkillDamage
    BY <1>0
  <2>6. QED
    BY <1>0, <2>2, <2>3, <2>4, <2>5
<1>5. \A q \in Players : Dealt(q) \in Nat
  BY DealtType
<1>6. Dealt(P1)' + Dealt(P2)' >= Dealt(P1) + Dealt(P2) + SkillDamage
      /\ Dealt(P1)' \in Nat /\ Dealt(P2)' \in Nat
  <2>1. P1 # P2 /\ P1 \in Players /\ P2 \in Players /\ (p = P1 \/ p = P2)
    BY PlayersAssumption DEF Players
  <2> HIDE DEF Dealt
  <2>2. CASE p = P1
    BY <1>0, <1>3, <1>4, <1>5, <2>1, <2>2
  <2>3. CASE p = P2
    BY <1>0, <1>3, <1>4, <1>5, <2>1, <2>3
  <2>4. QED
    BY <2>1, <2>2, <2>3
<1>7. \A q \in Players : lastAtk'[q] <= tickCount' /\ lastSkill'[q] <= tickCount'
  BY <1>0, <1>1 DEF DamageInv
<1>8. ASSUME NEW q \in Players, alive'[q]
      PROVE  MaxHp - hp'[q] <= Dealt(P1)' + Dealt(P2)'
  <2>1. MaxHp - hp[q] <= Dealt(P1) + Dealt(P2)
    BY <1>1, <1>8 DEF DamageInv
  <2>2. P1 \in Players /\ P2 \in Players
    BY DEF Players
  <2>3. QED
    BY <1>0, <1>2, <1>5, <1>6, <2>1, <2>2
<1>9. QED
  BY <1>7, <1>8 DEF DamageInv
\* A step that leaves what was dealt, and hurts nobody who is left standing.
LEMMA DamageQuiet ==
    ASSUME TypeOK, DamageInv, UNCHANGED <<lastAtk, lastSkill>>,
           tickCount' \in {tickCount, tickCount + 1},
           \A p \in Players : alive'[p] => alive[p] /\ hp'[p] = hp[p]
    PROVE  DamageInv'
<1>1. tickCount \in Nat /\ lastAtk \in [Players -> Nat] /\ lastSkill \in [Players -> Nat]
  BY DEF TypeOK
<1>2. \A q \in Players : lastAtk'[q] <= tickCount' /\ lastSkill'[q] <= tickCount'
  BY <1>1 DEF DamageInv
<1>3. \A q \in Players : Dealt(q)' = Dealt(q)
  BY DEF Dealt
<1>4. P1 \in Players /\ P2 \in Players
  BY DEF Players
<1>5. QED
  BY <1>2, <1>3, <1>4 DEF DamageInv

LEMMA DamageStep ==
    ASSUME AtkCooldown > 0, SkillCooldown > 0, TypeOK, DamageInv, [Next]_vars
    PROVE  DamageInv'
<1> USE PlayersAssumption
<1>1. CASE ~Tick
  BY <1>1, OthersFrame, DamageQuiet
<1>2. CASE RestOfTick
  BY <1>2, RestFrame, DamageQuiet
<1>3. CASE TickStart \/ Spawn \/ TimeUp \/ Broadcast
  BY <1>3, DamageQuiet DEF TickStart, Spawn, TimeUp, Broadcast, battle
<1>4. CASE Kill
  <2>1. FirstFallen \in Players /\ alive \in [Players -> BOOLEAN] /\ hp \in [Players -> Int]
    BY DEF TypeOK, FirstFallen, Players
  <2>2. \A p \in Players : alive'[p] => alive[p] /\ hp'[p] = hp[p]
    BY <1>4, <2>1 DEF Kill
  <2>3. QED
    BY <1>4, <2>2, DamageQuiet DEF Kill
<1>5. CASE ConsumeOp
  <2> DEFINE rec == Head(pendingOps)
  <2>1. pendingOps \in Seq([player : Players, op : Inputs]) /\ pendingOps # <<>>
    BY <1>5 DEF TypeOK, ConsumeOp
  <2>2. rec \in [player : Players, op : Inputs]
    BY <2>1, HeadTailProperties
  <2>3. rec.player \in Players
    BY <2>2
  <2>4. tickCount' = tickCount
    BY <1>5 DEF ConsumeOp
  <2>5. CASE Atk(rec.player, rec.op)
    BY <2>3, <2>4, <2>5, DamageAtk
  <2>6. CASE Skill(rec.player, rec.op)
    BY <2>3, <2>4, <2>6, DamageSkill
  <2>7. CASE Move(rec.player, rec.op) \/ UNCHANGED battle
    BY <2>4, <2>7, DamageQuiet DEF Move, battle
  <2>8. QED
    BY <1>5, <2>5, <2>6, <2>7 DEF ConsumeOp, ApplyOp, NoEffect
<1>6. QED
  BY <1>1, <1>2, <1>3, <1>4, <1>5 DEF Tick, RestOfTick

\* A standing player has lost at most what two attackers can deal by now, at one
\* attack and one skill per cooldown, however inputs are timed, queued or batched
\* (ApplyOp; the cooldowns are counted in frames).
THEOREM DamageBounded ==
    ASSUME AtkCooldown > 0, SkillCooldown > 0
    PROVE  Spec => []DamageWithinCooldown
<1>1. Init => DamageInv
  <2> SUFFICES ASSUME Init PROVE DamageInv
    OBVIOUS
  <2>1. /\ AtkDamage \in Nat /\ SkillDamage \in Nat /\ MaxHp \in Nat
        /\ AtkCooldown \in Nat /\ SkillCooldown \in Nat
    BY NumbersAssumption
  <2>2. TypeOK
    BY TypeInit
  <2>3. Dealt(P1) \in Nat /\ Dealt(P2) \in Nat
    BY <2>2, DealtType DEF Players
  <2>4. QED
    BY <2>1, <2>3 DEF Init, DamageInv
<1>2. TypeOK /\ DamageInv /\ [Next]_vars => DamageInv'
  BY DamageStep
<1>3. TypeOK /\ DamageInv => DamageWithinCooldown
  <2> SUFFICES ASSUME TypeOK, DamageInv, NEW p \in Players, alive[p]
               PROVE  MaxHp - hp[p] <= 2 * (  AtkDamage * (tickCount \div AtkCooldown)
                                            + SkillDamage * (tickCount \div SkillCooldown))
    BY DEF DamageWithinCooldown
  <2> DEFINE A == AtkDamage * (tickCount \div AtkCooldown)
             S == SkillDamage * (tickCount \div SkillCooldown)
  <2>1. /\ AtkDamage \in Nat /\ SkillDamage \in Nat /\ MaxHp \in Nat
        /\ AtkCooldown \in Nat /\ SkillCooldown \in Nat
        /\ tickCount \in Nat /\ hp[p] \in Int
    BY NumbersAssumption DEF TypeOK
  <2>2. ASSUME NEW q \in Players
        PROVE  A \in Nat /\ S \in Nat /\ Dealt(q) \in Nat /\ Dealt(q) <= A + S
    <3> DEFINE a == lastAtk[q] \div AtkCooldown
               s == lastSkill[q] \div SkillCooldown
               aa == tickCount \div AtkCooldown
               ss == tickCount \div SkillCooldown
    <3>1. lastAtk[q] \in Nat /\ lastSkill[q] \in Nat
      BY DEF TypeOK
    <3>2. lastAtk[q] <= tickCount /\ lastSkill[q] <= tickCount
      BY DEF DamageInv
    <3>3. a \in Nat /\ aa \in Nat /\ aa >= a + 0
      BY <2>1, <3>1, <3>2, NoLess
    <3>4. s \in Nat /\ ss \in Nat /\ ss >= s + 0
      BY <2>1, <3>1, <3>2, NoLess
    <3>5. Dealt(q) = AtkDamage * a + SkillDamage * s /\ A = AtkDamage * aa /\ S = SkillDamage * ss
      BY DEF Dealt
    <3> HIDE DEF a, s, aa, ss, A, S
    <3>6. /\ AtkDamage * a \in Nat /\ AtkDamage * aa \in Nat
          /\ AtkDamage * aa >= AtkDamage * a + AtkDamage * 0
      BY <2>1, <3>3, Times
    <3>7. /\ SkillDamage * s \in Nat /\ SkillDamage * ss \in Nat
          /\ SkillDamage * ss >= SkillDamage * s + SkillDamage * 0
      BY <2>1, <3>4, Times
    <3>8. AtkDamage * 0 = 0 /\ SkillDamage * 0 = 0
      BY <2>1
    <3>9. QED
      BY <3>5, <3>6, <3>7, <3>8
  <2>3. MaxHp - hp[p] <= Dealt(P1) + Dealt(P2)
    BY DEF DamageInv
  <2> HIDE DEF A, S
  <2>4. P1 \in Players /\ P2 \in Players
    BY DEF Players
  <2>5. MaxHp - hp[p] <= 2 * (A + S)
    BY <2>1, <2>2, <2>3, <2>4
  <2>6. QED
    BY <2>5 DEF A, S
<1>4. QED
  BY <1>1, <1>2, <1>3, TypeCorrect, PTL DEF Spec
=============================================================================
