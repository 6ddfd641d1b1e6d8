--------------------------- MODULE FrameSyncProofs ---------------------------
(***************************************************************************)
(* A client that replays the frames has the server's simulation: for any   *)
(* number of frames and inputs, and any values of the rules.               *)
(*                                                                         *)
(* The first half is about the rules as functions of a simulation: one     *)
(* input has an effect that does not depend on the other player's inputs   *)
(* of the same frame (Commute), hence the inputs sorted by player have the *)
(* effect they had as they arrived (SortedSame).  Consume and OpsOf are    *)
(* recursive functions on the length of a sequence, and what they compute  *)
(* is shown by induction on it, over a set of numbers (Induction).         *)
(*                                                                         *)
(* The second half is the invariant InStep: there is a simulation between *)
(* any two frames on their way, from the client's to the server's, each    *)
(* what the frame makes of the one before.                                 *)
(***************************************************************************)
EXTENDS FrameSync, SequenceTheorems, WellFoundedInduction, TLAPS

-----------------------------------------------------------------------------
\* The order of the natural numbers is well-founded.
LEMMA LessIs == \A x, y \in Nat : x < y => <<x, y>> \in OpToRel(<, Nat)
BY DEF OpToRel

\* Induction over the natural numbers, for a set of them.
LEMMA Induction ==
    ASSUME NEW S, 0 \in S, \A n \in Nat : n \in S => n + 1 \in S
    PROVE  Nat \subseteq S
<1> SUFFICES ASSUME Nat \ S # {} PROVE FALSE
  OBVIOUS
<1>1. \E x \in Nat \ S : \A y \in Nat \ S : ~(<<y, x>> \in OpToRel(<, Nat))
  BY NatLessThanWellFounded, WFMin
<1>2. PICK x \in Nat \ S : \A y \in Nat \ S : ~(<<y, x>> \in OpToRel(<, Nat))
  BY <1>1
<1>3. x # 0 /\ x - 1 \in Nat /\ x - 1 < x
  OBVIOUS
<1>4. x - 1 \in S
  BY <1>2, <1>3, LessIs
<1> QED BY <1>3, <1>4

-----------------------------------------------------------------------------
\* The simulations, and the inputs with who sent them.
Sims == [hp : [Players -> Int], alive : [Players -> BOOLEAN], pos : [Players -> Int],
         step : [Players -> Int], lastAtk : [Players -> Int], lastSkill : [Players -> Int]]

Recs == [player : Players, op : Inputs]

\* Input r is an attack or a skill whose cooldown is over in frame n.
Attacks(s, n, r) == r.op.type = "ATK" /\ n - s.lastAtk[r.player] >= AtkCooldown
Skills(s, n, r)  == r.op.type = "SKILL" /\ n - s.lastSkill[r.player] >= SkillCooldown

\* What player q loses by input r.
Hurt(s, n, r, q) ==
    IF Attacks(s, n, r) /\ r.op.target = q /\ s.alive[q] /\ Distance(s, r.player, q) <= AtkRange
    THEN AtkDamage
    ELSE IF Skills(s, n, r) /\ r.op.target = q /\ s.alive[q] /\ Distance(s, r.player, q) <= SkillRange
         THEN SkillDamage ELSE 0

\* Simulations are equal field by field.
LEMMA SimEqual ==
    ASSUME NEW s \in Sims, NEW t \in Sims,
           s.hp = t.hp, s.alive = t.alive, s.pos = t.pos, s.step = t.step,
           s.lastAtk = t.lastAtk, s.lastSkill = t.lastSkill
    PROVE  s = t
BY DEF Sims

\* A strike changes the HP of whom it hits, and nothing else.
LEMMA StrikeIs ==
    ASSUME NEW s \in Sims, NEW p, NEW target, NEW range, NEW damage \in Nat
    PROVE  LET u == Strike(s, p, target, range, damage) IN
           /\ u \in Sims
           /\ u.hp = [q \in Players |-> IF target = q /\ s.alive[q] /\ Distance(s, p, q) <= range
                                       THEN s.hp[q] - damage ELSE s.hp[q]]
           /\ u.alive = s.alive /\ u.pos = s.pos /\ u.step = s.step
           /\ u.lastAtk = s.lastAtk /\ u.lastSkill = s.lastSkill
<1> DEFINE u == Strike(s, p, target, range, damage)
<1>1. CASE target \in Players /\ s.alive[target] /\ Distance(s, p, target) <= range
  <2>1. u = [s EXCEPT !.hp[target] = @ - damage]
    BY <1>1 DEF Strike
  <2>2. /\ u \in Sims /\ u.hp = [s.hp EXCEPT ![target] = @ - damage]
        /\ u.alive = s.alive /\ u.pos = s.pos /\ u.step = s.step
        /\ u.lastAtk = s.lastAtk /\ u.lastSkill = s.lastSkill
    BY <2>1, <1>1 DEF Sims
  <2>3. u.hp = [q \in Players |-> IF target = q /\ s.alive[q] /\ Distance(s, p, q) <= range
                                 THEN s.hp[q] - damage ELSE s.hp[q]]
    BY <2>2, <1>1 DEF Sims
  <2> QED BY <2>2, <2>3
<1>2. CASE ~(target \in Players /\ s.alive[target] /\ Distance(s, p, target) <= range)
  <2>1. u = s
    BY <1>2 DEF Strike
  <2>2. s.hp = [q \in Players |-> IF target = q /\ s.alive[q] /\ Distance(s, p, q) <= range
                                 THEN s.hp[q] - damage ELSE s.hp[q]]
    BY <1>2 DEF Sims
  <2> QED BY <2>1, <2>2
<1> QED BY <1>1, <1>2

\* What an input does to each field.
Effect(s, n, r) ==
    [hp |-> [q \in Players |-> s.hp[q] - Hurt(s, n, r, q)],
     alive |-> s.alive, pos |-> s.pos,
     step |-> IF r.op.type = "MOVE" THEN [s.step EXCEPT ![r.player] = r.op.dx] ELSE s.step,
     lastAtk |-> IF Attacks(s, n, r) THEN [s.lastAtk EXCEPT ![r.player] = n] ELSE s.lastAtk,
     lastSkill |-> IF Skills(s, n, r) THEN [s.lastSkill EXCEPT ![r.player] = n] ELSE s.lastSkill]

\* Nobody dies or is moved by an input.
LEMMA EffectType ==
    ASSUME NEW s \in Sims, NEW n \in Int, NEW r \in Recs
    PROVE  /\ Effect(s, n, r) \in Sims
           /\ Effect(s, n, r).alive = s.alive /\ Effect(s, n, r).pos = s.pos
BY FrameSyncAssumption DEF Effect, Sims, Recs, Hurt, Players

\* ApplyOp, field by field.
LEMMA ApplyIs ==
    ASSUME NEW s \in Sims, NEW n \in Int, NEW r \in Recs
    PROVE  ApplyOp(s, n, r.player, r.op) = Effect(s, n, r)
<1> DEFINE e == Effect(s, n, r)
<1>e. e \in Sims
  BY EffectType
<1>1. CASE r.op.type = "MOVE"
  BY <1>1 DEF ApplyOp, Effect, Hurt, Attacks, Skills, Sims, Recs
<1>2. CASE Attacks(s, n, r)
  <2> DEFINE t == [s EXCEPT !.lastAtk[r.player] = n]
             u == Strike(t, r.player, r.op.target, AtkRange, AtkDamage)
  <2>1. /\ t \in Sims /\ t.alive = s.alive /\ t.pos = s.pos /\ t.hp = s.hp
        /\ t.step = s.step /\ t.lastSkill = s.lastSkill
        /\ t.lastAtk = [s.lastAtk EXCEPT ![r.player] = n]
    BY DEF Sims, Recs
  <2>2. ApplyOp(s, n, r.player, r.op) = u
    BY <1>2 DEF ApplyOp, Attacks
  <2> HIDE DEF t
  <2>3. /\ u \in Sims
        /\ u.hp = [q \in Players |-> IF r.op.target = q /\ t.alive[q] /\ Distance(t, r.player, q) <= AtkRange
                                    THEN t.hp[q] - AtkDamage ELSE t.hp[q]]
        /\ u.alive = t.alive /\ u.pos = t.pos /\ u.step = t.step
        /\ u.lastAtk = t.lastAtk /\ u.lastSkill = t.lastSkill
    BY <2>1, StrikeIs, FrameSyncAssumption
  <2> HIDE DEF u
  <2>4. r.op.type = "ATK" /\ ~Skills(s, n, r)
    BY <1>2 DEF Attacks, Skills
  <2>5. e.hp = u.hp
    <3>1. \A q \in Players : Distance(t, r.player, q) = Distance(s, r.player, q)
      BY <2>1 DEF Distance
    <3>2. \A q \in Players : s.hp[q] \in Int
      BY DEF Sims
    <3> QED BY <1>2, <2>1, <2>3, <2>4, <3>1, <3>2, FrameSyncAssumption DEF Effect, Hurt
  <2>6. /\ e.alive = u.alive /\ e.pos = u.pos /\ e.step = u.step
        /\ e.lastAtk = u.lastAtk /\ e.lastSkill = u.lastSkill
    BY <1>2, <2>1, <2>3, <2>4 DEF Effect
  <2> QED BY <1>e, <2>2, <2>3, <2>5, <2>6, SimEqual
<1>3. CASE Skills(s, n, r)
  <2> DEFINE t == [s EXCEPT !.lastSkill[r.player] = n]
             u == Strike(t, r.player, r.op.target, SkillRange, SkillDamage)
  <2>1. /\ t \in Sims /\ t.alive = s.alive /\ t.pos = s.pos /\ t.hp = s.hp
        /\ t.step = s.step /\ t.lastAtk = s.lastAtk
        /\ t.lastSkill = [s.lastSkill EXCEPT ![r.player] = n]
    BY DEF Sims, Recs
  <2>2. ApplyOp(s, n, r.player, r.op) = u
    BY <1>3 DEF ApplyOp, Skills
  <2> HIDE DEF t
  <2>3. /\ u \in Sims
        /\ u.hp = [q \in Players |-> IF r.op.target = q /\ t.alive[q] /\ Distance(t, r.player, q) <= SkillRange
                                    THEN t.hp[q] - SkillDamage ELSE t.hp[q]]
        /\ u.alive = t.alive /\ u.pos = t.pos /\ u.step = t.step
        /\ u.lastAtk = t.lastAtk /\ u.lastSkill = t.lastSkill
    BY <2>1, StrikeIs, FrameSyncAssumption
  <2> HIDE DEF u
  <2>4. r.op.type = "SKILL" /\ ~Attacks(s, n, r)
    BY <1>3 DEF Attacks, Skills
  <2>5. e.hp = u.hp
    <3>1. \A q \in Players : Distance(t, r.player, q) = Distance(s, r.player, q)
      BY <2>1 DEF Distance
    <3>2. \A q \in Players : s.hp[q] \in Int
      BY DEF Sims
    <3> QED BY <1>3, <2>1, <2>3, <2>4, <3>1, <3>2, FrameSyncAssumption DEF Effect, Hurt
  <2>6. /\ e.alive = u.alive /\ e.pos = u.pos /\ e.step = u.step
        /\ e.lastAtk = u.lastAtk /\ e.lastSkill = u.lastSkill
    BY <1>3, <2>1, <2>3, <2>4 DEF Effect
  <2> QED BY <1>e, <2>2, <2>3, <2>5, <2>6, SimEqual
<1>4. CASE r.op.type # "MOVE" /\ ~Attacks(s, n, r) /\ ~Skills(s, n, r)
  <2>1. ApplyOp(s, n, r.player, r.op) = s
    BY <1>4 DEF ApplyOp, Attacks, Skills
  <2> QED BY <1>4, <2>1 DEF Effect, Hurt, Sims
<1> QED BY <1>1, <1>2, <1>3, <1>4

\* An input that is consumed, whoever sent it.
LEMMA ConsumeType ==
    ASSUME NEW s \in Sims, NEW n \in Int, NEW r \in Recs
    PROVE  /\ ConsumeOp(s, n, r) \in Sims
           /\ ConsumeOp(s, n, r).alive = s.alive /\ ConsumeOp(s, n, r).pos = s.pos
BY ApplyIs, EffectType DEF ConsumeOp

\* Inputs of different players in one frame commute.
LEMMA Commute ==
    ASSUME NEW s \in Sims, NEW n \in Int, NEW a \in Recs, NEW b \in Recs, a.player # b.player
    PROVE  ConsumeOp(ConsumeOp(s, n, a), n, b) = ConsumeOp(ConsumeOp(s, n, b), n, a)
<1>1. CASE ~s.alive[a.player] \/ ~s.alive[b.player]
  BY <1>1, ConsumeType DEF ConsumeOp
<1>2. CASE s.alive[a.player] /\ s.alive[b.player]
  <2> DEFINE sa == Effect(s, n, a)  sb == Effect(s, n, b)
  <2>1. /\ sa \in Sims /\ sb \in Sims
        /\ ConsumeOp(s, n, a) = sa /\ ConsumeOp(s, n, b) = sb
    BY <1>2, ApplyIs, EffectType DEF ConsumeOp
  <2>2. ConsumeOp(sa, n, b) = Effect(sa, n, b) /\ ConsumeOp(sb, n, a) = Effect(sb, n, a)
    BY <1>2, <2>1, ApplyIs, EffectType DEF ConsumeOp
  <2>3. /\ Attacks(sa, n, b) = Attacks(s, n, b) /\ Skills(sa, n, b) = Skills(s, n, b)
        /\ Attacks(sb, n, a) = Attacks(s, n, a) /\ Skills(sb, n, a) = Skills(s, n, a)
    BY <2>1 DEF Attacks, Skills, Effect, Recs, Sims
  <2>4. \A q \in Players : Hurt(sa, n, b, q) = Hurt(s, n, b, q) /\ Hurt(sb, n, a, q) = Hurt(s, n, a, q)
    <3>1. sa.alive = s.alive /\ sa.pos = s.pos /\ sb.alive = s.alive /\ sb.pos = s.pos
      BY EffectType
    <3>2. \A p, q \in Players : Distance(sa, p, q) = Distance(s, p, q) /\ Distance(sb, p, q) = Distance(s, p, q)
      BY <3>1 DEF Distance
    <3> HIDE DEF sa, sb
    <3> QED BY <2>3, <3>1, <3>2 DEF Hurt, Recs
  <2>5. \A q \in Players : Hurt(s, n, a, q) \in Int /\ Hurt(s, n, b, q) \in Int /\ s.hp[q] \in Int
    BY FrameSyncAssumption DEF Hurt, Sims
  <2>6. Effect(sa, n, b).hp = Effect(sb, n, a).hp
    <3>1. Effect(sa, n, b).hp = [q \in Players |-> (s.hp[q] - Hurt(s, n, a, q)) - Hurt(s, n, b, q)]
      BY <2>4 DEF Effect
    <3>2. Effect(sb, n, a).hp = [q \in Players |-> (s.hp[q] - Hurt(s, n, b, q)) - Hurt(s, n, a, q)]
      BY <2>4 DEF Effect
    <3> QED BY <3>1, <3>2, <2>5
  <2>7. Effect(sa, n, b).step = Effect(sb, n, a).step
    BY DEF Effect, Sims, Recs
  <2>8. /\ Effect(sa, n, b).lastAtk = Effect(sb, n, a).lastAtk
        /\ Effect(sa, n, b).lastSkill = Effect(sb, n, a).lastSkill
    <3>1. s.lastAtk \in [Players -> Int] /\ s.lastSkill \in [Players -> Int]
      BY DEF Sims
    <3>2. a.player \in Players /\ b.player \in Players
      BY DEF Recs
    <3>3. /\ sa.lastAtk = IF Attacks(s, n, a) THEN [s.lastAtk EXCEPT ![a.player] = n] ELSE s.lastAtk
          /\ sb.lastAtk = IF Attacks(s, n, b) THEN [s.lastAtk EXCEPT ![b.player] = n] ELSE s.lastAtk
          /\ sa.lastSkill = IF Skills(s, n, a) THEN [s.lastSkill EXCEPT ![a.player] = n] ELSE s.lastSkill
          /\ sb.lastSkill = IF Skills(s, n, b) THEN [s.lastSkill EXCEPT ![b.player] = n] ELSE s.lastSkill
      BY DEF Effect
    <3> HIDE DEF sa, sb
    <3>4. Effect(sa, n, b).lastAtk = Effect(sb, n, a).lastAtk
      <4>1. /\ Effect(sa, n, b).lastAtk
                 = IF Attacks(s, n, b) THEN [sa.lastAtk EXCEPT ![b.player] = n] ELSE sa.lastAtk
            /\ Effect(sb, n, a).lastAtk
                 = IF Attacks(s, n, a) THEN [sb.lastAtk EXCEPT ![a.player] = n] ELSE sb.lastAtk
        BY <2>3 DEF Effect
      <4> QED BY <3>1, <3>2, <3>3, <4>1
    <3>5. Effect(sa, n, b).lastSkill = Effect(sb, n, a).lastSkill
      <4>1. /\ Effect(sa, n, b).lastSkill
                 = IF Skills(s, n, b) THEN [sa.lastSkill EXCEPT ![b.player] = n] ELSE sa.lastSkill
            /\ Effect(sb, n, a).lastSkill
                 = IF Skills(s, n, a) THEN [sb.lastSkill EXCEPT ![a.player] = n] ELSE sb.lastSkill
        BY <2>3 DEF Effect
      <4> QED BY <3>1, <3>2, <3>3, <4>1
    <3> QED BY <3>4, <3>5
  <2>9. Effect(sa, n, b).alive = Effect(sb, n, a).alive /\ Effect(sa, n, b).pos = Effect(sb, n, a).pos
    BY DEF Effect
  <2>10. Effect(sa, n, b) \in Sims /\ Effect(sb, n, a) \in Sims
    BY <2>1, EffectType
  <2> HIDE DEF sa, sb
  <2> QED BY <2>1, <2>2, <2>6, <2>7, <2>8, <2>9, <2>10, SimEqual
<1> QED BY <1>1, <1>2

-----------------------------------------------------------------------------
\* Induction over sequences, for a set of them.
LEMMA SeqInduction ==
    ASSUME NEW T, NEW S, <<>> \in T,
           \A t \in Seq(S), e \in S : t \in T => Append(t, e) \in T
    PROVE  Seq(S) \subseteq T
<1> DEFINE K == {k \in Nat : \A t \in Seq(S) : Len(t) = k => t \in T}
<1>1. 0 \in K
  BY EmptySeq
<1>2. ASSUME NEW k \in Nat, k \in K PROVE k + 1 \in K
  <2> SUFFICES ASSUME NEW t \in Seq(S), Len(t) = k + 1 PROVE t \in T
    OBVIOUS
  <2>1. t # <<>>
    BY EmptySeq
  <2>2. PICK u \in Seq(S), e \in S : t = Append(u, e)
    BY <2>1, SequenceEmptyOrAppend
  <2>3. Len(u) = k
    BY <2>2, AppendProperties, LenProperties
  <2>4. u \in T
    BY <1>2, <2>3
  <2> QED BY <2>2, <2>4
<1> HIDE DEF K
<1>3. Nat \subseteq K
  BY <1>1, <1>2, Induction
<1> USE DEF K
<1> QED BY <1>3, LenProperties

-----------------------------------------------------------------------------
\* f holds the simulations after 0 to k of the inputs ops.
Runs(f, s, n, ops, k) ==
    /\ f \in [0..k -> Sims] /\ f[0] = s
    /\ \A i \in 1..k : f[i] = ConsumeOp(f[i-1], n, ops[i])

\* There is such a run, one input longer than the one before.
LEMMA RunExists ==
    ASSUME NEW s \in Sims, NEW n \in Int, NEW ops \in Seq(Recs)
    PROVE  \E f : Runs(f, s, n, ops, Len(ops))
<1> DEFINE K == {k \in Nat : k <= Len(ops) => \E f : Runs(f, s, n, ops, k)}
<1>1. 0 \in K
  <2>1. Runs([i \in 0..0 |-> s], s, n, ops, 0)
    BY DEF Runs
  <2> QED BY <2>1
<1>2. ASSUME NEW k \in Nat, k \in K PROVE k + 1 \in K
  <2> SUFFICES ASSUME k + 1 <= Len(ops) PROVE \E f : Runs(f, s, n, ops, k + 1)
    OBVIOUS
  <2>1. Len(ops) \in Nat
    BY LenProperties
  <2>2. PICK f : Runs(f, s, n, ops, k)
    BY <1>2, <2>1
  <2>3. k + 1 \in 1..Len(ops) /\ ops[k + 1] \in Recs
    BY <2>1, ElementOfSeq
  <2> DEFINE e == ConsumeOp(f[k], n, ops[k + 1])
             g == [i \in 0..k + 1 |-> IF i = k + 1 THEN e ELSE f[i]]
  <2>4. e \in Sims
    BY <2>2, <2>3, ConsumeType DEF Runs
  <2> HIDE DEF e
  <2>5. g \in [0..k + 1 -> Sims] /\ g[0] = s
    BY <2>2, <2>4 DEF Runs
  <2>6. ASSUME NEW i \in 1..k + 1 PROVE g[i] = ConsumeOp(g[i-1], n, ops[i])
    <3>1. CASE i = k + 1
      BY <3>1 DEF e
    <3>2. CASE i \in 1..k
      BY <3>2, <2>2 DEF Runs
    <3> QED BY <3>1, <3>2
  <2>7. Runs(g, s, n, ops, k + 1)
    BY <2>5, <2>6 DEF Runs
  <2> QED BY <2>7
<1> HIDE DEF K
<1>3. Nat \subseteq K
  BY <1>1, <1>2, Induction
<1> USE DEF K
<1> QED BY <1>3, LenProperties

\* Two runs of the same inputs agree, as far as both go.
LEMMA RunUnique ==
    ASSUME NEW s, NEW n, NEW ops, NEW oqs, NEW k \in Nat, NEW m \in Nat, k <= m, NEW f, NEW g,
           Runs(f, s, n, ops, k), Runs(g, s, n, oqs, m), \A i \in 1..k : ops[i] = oqs[i]
    PROVE  \A i \in 0..k : f[i] = g[i]
<1> DEFINE K == {i \in Nat : i <= k => f[i] = g[i]}
<1>1. 0 \in K
  BY DEF Runs
<1>2. ASSUME NEW i \in Nat, i \in K PROVE i + 1 \in K
  <2> SUFFICES ASSUME i + 1 <= k PROVE f[i + 1] = g[i + 1]
    OBVIOUS
  <2>1. i + 1 \in 1..k /\ i + 1 \in 1..m /\ (i + 1) - 1 = i
    OBVIOUS
  <2>2. f[i + 1] = ConsumeOp(f[i], n, ops[i + 1]) /\ g[i + 1] = ConsumeOp(g[i], n, oqs[i + 1])
    BY <2>1 DEF Runs
  <2> QED BY <1>2, <2>1, <2>2
<1> HIDE DEF K
<1>3. Nat \subseteq K
  BY <1>1, <1>2, Induction
<1> USE DEF K
<1> QED BY <1>3

\* The loop of Consume is one.
LEMMA ConsumeRun ==
    ASSUME NEW s \in Sims, NEW n \in Int, NEW ops \in Seq(Recs)
    PROVE  \E f : Runs(f, s, n, ops, Len(ops)) /\ Consume(s, n, ops) = f[Len(ops)]
<1> DEFINE Rec(f) == f = [i \in 0..Len(ops) |-> IF i = 0 THEN s ELSE ConsumeOp(f[i-1], n, ops[i])]
           after == CHOOSE f : Rec(f)
<1>0. Len(ops) \in Nat
  BY LenProperties
<1>1. PICK g : Runs(g, s, n, ops, Len(ops))
  BY RunExists
<1>2. Rec(g)
  <2>1. g = [i \in 0..Len(ops) |-> g[i]]
    BY <1>1 DEF Runs
  <2>2. \A i \in 0..Len(ops) : g[i] = IF i = 0 THEN s ELSE ConsumeOp(g[i-1], n, ops[i])
    BY <1>0, <1>1 DEF Runs
  <2> QED BY <2>1, <2>2
<1>3. Rec(after)
  BY <1>2
<1>4. Consume(s, n, ops) = after[Len(ops)]
  BY DEF Consume
<1> HIDE DEF after
<1>5. \A i \in 0..Len(ops) : after[i] = IF i = 0 THEN s ELSE ConsumeOp(after[i-1], n, ops[i])
  BY <1>3
<1>6. \A i \in 0..Len(ops) : after[i] = g[i]
  <2> DEFINE K == {i \in Nat : i <= Len(ops) => after[i] = g[i]}
  <2>1. 0 \in K
    BY <1>0, <1>1, <1>5 DEF Runs
  <2>2. ASSUME NEW i \in Nat, i \in K PROVE i + 1 \in K
    <3> SUFFICES ASSUME i + 1 <= Len(ops) PROVE after[i + 1] = g[i + 1]
      OBVIOUS
    <3>1. i + 1 \in 1..Len(ops) /\ i + 1 \in 0..Len(ops) /\ (i + 1) - 1 = i /\ i + 1 # 0 /\ i <= Len(ops)
      BY <1>0
    <3>2. after[i + 1] = ConsumeOp(after[i], n, ops[i + 1])
      BY <1>5, <3>1
    <3>3. g[i + 1] = ConsumeOp(g[i], n, ops[i + 1])
      BY <1>1, <3>1 DEF Runs
    <3> QED BY <2>2, <3>1, <3>2, <3>3
  <2> HIDE DEF K
  <2>3. Nat \subseteq K
    BY <2>1, <2>2, Induction
  <2> USE DEF K
  <2> QED BY <1>0, <2>3
<1>7. after[Len(ops)] = g[Len(ops)]
  BY <1>0, <1>6
<1> QED BY <1>1, <1>4, <1>7

\* The loop without inputs.
LEMMA ConsumeEmpty ==
    ASSUME NEW s \in Sims, NEW n \in Int
    PROVE  Consume(s, n, <<>>) = s
<1>1. <<>> \in Seq(Recs) /\ Len(<<>>) = 0
  BY EmptySeq
<1>2. PICK f : Runs(f, s, n, <<>>, Len(<<>>)) /\ Consume(s, n, <<>>) = f[Len(<<>>)]
  BY <1>1, ConsumeRun
<1> QED BY <1>1, <1>2 DEF Runs

\* The loop with one input more.
LEMMA ConsumeAppend ==
    ASSUME NEW s \in Sims, NEW n \in Int, NEW ops \in Seq(Recs), NEW r \in Recs
    PROVE  /\ Consume(s, n, ops) \in Sims
           /\ Consume(s, n, Append(ops, r)) = ConsumeOp(Consume(s, n, ops), n, r)
<1> DEFINE ors == Append(ops, r)  k == Len(ops)
<1>1. /\ ors \in Seq(Recs) /\ Len(ors) = k + 1 /\ k \in Nat
      /\ \A i \in 1..k : ors[i] = ops[i]
      /\ ors[k + 1] = r
  BY AppendProperties, LenProperties
<1> HIDE DEF ors, k
<1>2. PICK f : Runs(f, s, n, ops, k) /\ Consume(s, n, ops) = f[k]
  BY ConsumeRun DEF k
<1>3. PICK g : Runs(g, s, n, ors, k + 1) /\ Consume(s, n, ors) = g[k + 1]
  BY <1>1, ConsumeRun
<1>4. f[k] = g[k]
  <2>1. k \in 0..k /\ k <= k + 1 /\ k + 1 \in Nat /\ \A i \in 1..k : ops[i] = ors[i]
    BY <1>1
  <2>2. \A i \in 0..k : f[i] = g[i]
    BY <1>1, <1>2, <1>3, <2>1, RunUnique
  <2> QED BY <2>1, <2>2
<1>5. g[k + 1] = ConsumeOp(g[k], n, r)
  <2>1. k + 1 \in 1..k + 1 /\ (k + 1) - 1 = k
    BY <1>1
  <2> QED BY <1>1, <1>3, <2>1 DEF Runs
<1>6. f[k] \in Sims
  BY <1>1, <1>2 DEF Runs
<1> QED BY <1>2, <1>3, <1>4, <1>5, <1>6 DEF ors

\* Nobody dies or is moved in the loop.
LEMMA ConsumeKeeps ==
    ASSUME NEW s \in Sims, NEW n \in Int, NEW ops \in Seq(Recs)
    PROVE  /\ Consume(s, n, ops) \in Sims
           /\ Consume(s, n, ops).alive = s.alive /\ Consume(s, n, ops).pos = s.pos
<1> DEFINE T == {t \in Seq(Recs) : /\ Consume(s, n, t) \in Sims
                                  /\ Consume(s, n, t).alive = s.alive
                                  /\ Consume(s, n, t).pos = s.pos}
<1>1. <<>> \in T
  BY ConsumeEmpty, EmptySeq
<1>2. ASSUME NEW t \in Seq(Recs), NEW r \in Recs, t \in T PROVE Append(t, r) \in T
  <2>1. Consume(s, n, Append(t, r)) = ConsumeOp(Consume(s, n, t), n, r)
    BY ConsumeAppend
  <2>2. Append(t, r) \in Seq(Recs)
    BY AppendProperties
  <2> QED BY <1>2, <2>1, <2>2, ConsumeType
<1> HIDE DEF T
<1>3. Seq(Recs) \subseteq T
  BY <1>1, <1>2, SeqInduction
<1> USE DEF T
<1> QED BY <1>3

\* Inputs after inputs.
LEMMA ConsumeConcat ==
    ASSUME NEW s \in Sims, NEW n \in Int, NEW a \in Seq(Recs), NEW b \in Seq(Recs)
    PROVE  Consume(s, n, a \o b) = Consume(Consume(s, n, a), n, b)
<1> DEFINE c == Consume(s, n, a)
           T == {t \in Seq(Recs) : Consume(s, n, a \o t) = Consume(c, n, t)}
<1>c. c \in Sims
  BY ConsumeKeeps
<1> HIDE DEF c
<1>1. <<>> \in T
  BY <1>c, ConsumeEmpty, EmptySeq, ConcatEmptySeq DEF c
<1>2. ASSUME NEW t \in Seq(Recs), NEW r \in Recs, t \in T PROVE Append(t, r) \in T
  <2>1. a \o Append(t, r) = Append(a \o t, r) /\ a \o t \in Seq(Recs)
    <3>1. a \o t \in Seq(Recs) /\ <<r>> \in Seq(Recs)
      BY ConcatProperties
    <3>2. Append(t, r) = t \o <<r>> /\ Append(a \o t, r) = (a \o t) \o <<r>>
      BY <3>1, AppendIsConcat
    <3> QED BY <3>1, <3>2, ConcatAssociative
  <2>2. Consume(s, n, Append(a \o t, r)) = ConsumeOp(Consume(s, n, a \o t), n, r)
    BY <2>1, ConsumeAppend
  <2>3. Consume(c, n, Append(t, r)) = ConsumeOp(Consume(c, n, t), n, r)
    BY <1>c, ConsumeAppend
  <2>4. Append(t, r) \in Seq(Recs)
    BY AppendProperties
  <2> QED BY <1>2, <2>1, <2>2, <2>3, <2>4
<1> HIDE DEF T
<1>3. Seq(Recs) \subseteq T
  BY <1>1, <1>2, SeqInduction
<1> USE DEF T
<1> QED BY <1>3 DEF c

-----------------------------------------------------------------------------
\* f holds what is p's among the first 0 to k of the inputs ops.
Keeps(f, p, ops, k) ==
    /\ f \in [0..k -> Seq(Recs)] /\ f[0] = <<>>
    /\ \A i \in 1..k : f[i] = IF ops[i].player = p THEN Append(f[i-1], ops[i]) ELSE f[i-1]

\* There is such a function, one input longer than the one before.
LEMMA KeepExists ==
    ASSUME NEW p, NEW ops \in Seq(Recs)
    PROVE  \E f : Keeps(f, p, ops, Len(ops))
<1> DEFINE K == {k \in Nat : k <= Len(ops) => \E f : Keeps(f, p, ops, k)}
<1>1. 0 \in K
  <2>1. Keeps([i \in 0..0 |-> <<>>], p, ops, 0)
    BY EmptySeq DEF Keeps
  <2> QED BY <2>1
<1>2. ASSUME NEW k \in Nat, k \in K PROVE k + 1 \in K
  <2> SUFFICES ASSUME k + 1 <= Len(ops) PROVE \E f : Keeps(f, p, ops, k + 1)
    OBVIOUS
  <2>1. Len(ops) \in Nat
    BY LenProperties
  <2>2. PICK f : Keeps(f, p, ops, k)
    BY <1>2, <2>1
  <2>3. k + 1 \in 1..Len(ops) /\ ops[k + 1] \in Recs
    BY <2>1, ElementOfSeq
  <2> DEFINE e == IF ops[k + 1].player = p THEN Append(f[k], ops[k + 1]) ELSE f[k]
             g == [i \in 0..k + 1 |-> IF i = k + 1 THEN e ELSE f[i]]
  <2>4. e \in Seq(Recs)
    BY <2>2, <2>3, AppendProperties DEF Keeps
  <2>5. g \in [0..k + 1 -> Seq(Recs)] /\ g[0] = <<>>
    <3> HIDE DEF e
    <3> QED BY <2>2, <2>4 DEF Keeps
  <2>6. ASSUME NEW i \in 1..k + 1
        PROVE  g[i] = IF ops[i].player = p THEN Append(g[i-1], ops[i]) ELSE g[i-1]
    <3>1. CASE i = k + 1
      <4>1. g[i] = e /\ g[i-1] = f[k]
        <5> HIDE DEF e
        <5> QED BY <3>1
      <4> HIDE DEF g
      <4> QED BY <3>1, <4>1
    <3>2. CASE i \in 1..k
      <4>1. g[i] = f[i] /\ g[i-1] = f[i-1]
        <5> HIDE DEF e
        <5> QED BY <3>2
      <4> HIDE DEF g
      <4> QED BY <3>2, <4>1, <2>2 DEF Keeps
    <3> QED BY <3>1, <3>2
  <2> HIDE DEF g
  <2>7. Keeps(g, p, ops, k + 1)
    BY <2>5, <2>6 DEF Keeps
  <2> QED BY <2>7
<1> HIDE DEF K
<1>3. Nat \subseteq K
  BY <1>1, <1>2, Induction
<1> USE DEF K
<1> QED BY <1>3, LenProperties

\* Two of the same inputs agree, as far as both go.
LEMMA KeepUnique ==
    ASSUME NEW p, NEW ops, NEW oqs, NEW k \in Nat, NEW m \in Nat, k <= m, NEW f, NEW g,
           Keeps(f, p, ops, k), Keeps(g, p, oqs, m), \A i \in 1..k : ops[i] = oqs[i]
    PROVE  \A i \in 0..k : f[i] = g[i]
<1> DEFINE K == {i \in Nat : i <= k => f[i] = g[i]}
<1>1. 0 \in K
  BY DEF Keeps
<1>2. ASSUME NEW i \in Nat, i \in K PROVE i + 1 \in K
  <2> SUFFICES ASSUME i + 1 <= k PROVE f[i + 1] = g[i + 1]
    OBVIOUS
  <2>1. i + 1 \in 1..k /\ i + 1 \in 1..m /\ (i + 1) - 1 = i
    OBVIOUS
  <2>2. /\ f[i + 1] = IF ops[i + 1].player = p THEN Append(f[i], ops[i + 1]) ELSE f[i]
        /\ g[i + 1] = IF oqs[i + 1].player = p THEN Append(g[i], oqs[i + 1]) ELSE g[i]
    BY <2>1 DEF Keeps
  <2> QED BY <1>2, <2>1, <2>2
<1> HIDE DEF K
<1>3. Nat \subseteq K
  BY <1>1, <1>2, Induction
<1> USE DEF K
<1> QED BY <1>3

\* OpsOf's is one.
LEMMA OpsOfKeep ==
    ASSUME NEW p, NEW ops \in Seq(Recs)
    PROVE  \E f : Keeps(f, p, ops, Len(ops)) /\ OpsOf(ops, p) = f[Len(ops)]
<1> DEFINE Rec(f) == f = [i \in 0..Len(ops) |->
                            IF i = 0 THEN <<>>
                            ELSE IF ops[i].player = p THEN Append(f[i-1], ops[i]) ELSE f[i-1]]
           own == CHOOSE f : Rec(f)
<1>0. Len(ops) \in Nat
  BY LenProperties
<1>1. PICK g : Keeps(g, p, ops, Len(ops))
  BY KeepExists
<1>2. Rec(g)
  <2>1. g = [i \in 0..Len(ops) |-> g[i]]
    BY <1>1 DEF Keeps
  <2>2. \A i \in 0..Len(ops) : g[i] = IF i = 0 THEN <<>>
                                     ELSE IF ops[i].player = p THEN Append(g[i-1], ops[i])
                                     ELSE g[i-1]
    <3> SUFFICES ASSUME NEW i \in 0..Len(ops)
                 PROVE  g[i] = IF i = 0 THEN <<>>
                               ELSE IF ops[i].player = p THEN Append(g[i-1], ops[i]) ELSE g[i-1]
      OBVIOUS
    <3>1. CASE i = 0
      BY <3>1, <1>1 DEF Keeps
    <3>2. CASE i \in 1..Len(ops)
      BY <3>2, <1>1 DEF Keeps
    <3> QED BY <1>0, <3>1, <3>2
  <2> QED BY <2>1, <2>2
<1>3. Rec(own)
  BY <1>2
<1>4. OpsOf(ops, p) = own[Len(ops)]
  BY DEF OpsOf
<1> HIDE DEF own
<1>5. \A i \in 0..Len(ops) : own[i] = IF i = 0 THEN <<>>
                                     ELSE IF ops[i].player = p THEN Append(own[i-1], ops[i])
                                     ELSE own[i-1]
  BY <1>3
<1>6. \A i \in 0..Len(ops) : own[i] = g[i]
  <2> DEFINE K == {i \in Nat : i <= Len(ops) => own[i] = g[i]}
  <2>1. 0 \in K
    BY <1>0, <1>1, <1>5 DEF Keeps
  <2>2. ASSUME NEW i \in Nat, i \in K PROVE i + 1 \in K
    <3> SUFFICES ASSUME i + 1 <= Len(ops) PROVE own[i + 1] = g[i + 1]
      OBVIOUS
    <3>1. i + 1 \in 1..Len(ops) /\ i + 1 \in 0..Len(ops) /\ (i + 1) - 1 = i /\ i + 1 # 0 /\ i <= Len(ops)
      BY <1>0
    <3>2. own[i + 1] = IF ops[i + 1].player = p THEN Append(own[i], ops[i + 1]) ELSE own[i]
      BY <1>5, <3>1
    <3>3. g[i + 1] = IF ops[i + 1].player = p THEN Append(g[i], ops[i + 1]) ELSE g[i]
      BY <1>1, <3>1 DEF Keeps
    <3> QED BY <2>2, <3>1, <3>2, <3>3
  <2> HIDE DEF K
  <2>3. Nat \subseteq K
    BY <2>1, <2>2, Induction
  <2> USE DEF K
  <2> QED BY <1>0, <2>3
<1>7. own[Len(ops)] = g[Len(ops)]
  BY <1>0, <1>6
<1> QED BY <1>1, <1>4, <1>7

\* A player's inputs among none, and with one input more.
LEMMA OpsOfEmpty == \A p : OpsOf(<<>>, p) = <<>>
<1> SUFFICES ASSUME NEW p PROVE OpsOf(<<>>, p) = <<>>
  OBVIOUS
<1>1. <<>> \in Seq(Recs) /\ Len(<<>>) = 0
  BY EmptySeq
<1>2. PICK f : Keeps(f, p, <<>>, Len(<<>>)) /\ OpsOf(<<>>, p) = f[Len(<<>>)]
  BY <1>1, OpsOfKeep
<1> QED BY <1>1, <1>2 DEF Keeps

\* One input more is his or it is not.
LEMMA OpsOfAppend ==
    ASSUME NEW p, NEW ops \in Seq(Recs), NEW r \in Recs
    PROVE  /\ OpsOf(ops, p) \in Seq(Recs)
           /\ OpsOf(Append(ops, r), p) = IF r.player = p THEN Append(OpsOf(ops, p), r)
                                                        ELSE OpsOf(ops, p)
<1> DEFINE ors == Append(ops, r)  k == Len(ops)
<1>1. /\ ors \in Seq(Recs) /\ Len(ors) = k + 1 /\ k \in Nat
      /\ \A i \in 1..k : ors[i] = ops[i]
      /\ ors[k + 1] = r
  BY AppendProperties, LenProperties
<1> HIDE DEF ors, k
<1>2. PICK f : Keeps(f, p, ops, k) /\ OpsOf(ops, p) = f[k]
  BY OpsOfKeep DEF k
<1>3. PICK g : Keeps(g, p, ors, k + 1) /\ OpsOf(ors, p) = g[k + 1]
  BY <1>1, OpsOfKeep
<1>4. f[k] = g[k]
  <2>1. k \in 0..k /\ k <= k + 1 /\ k + 1 \in Nat /\ \A i \in 1..k : ops[i] = ors[i]
    BY <1>1
  <2>2. \A i \in 0..k : f[i] = g[i]
    BY <1>1, <1>2, <1>3, <2>1, KeepUnique
  <2> QED BY <2>1, <2>2
<1>5. g[k + 1] = IF r.player = p THEN Append(g[k], r) ELSE g[k]
  <2>1. k + 1 \in 1..k + 1 /\ (k + 1) - 1 = k
    BY <1>1
  <2> QED BY <1>1, <1>3, <2>1 DEF Keeps
<1>6. f[k] \in Seq(Recs)
  BY <1>1, <1>2 DEF Keeps
<1> QED BY <1>2, <1>3, <1>4, <1>5, <1>6 DEF ors

-----------------------------------------------------------------------------
\* The inputs of player p.
By(p) == [player : {p}, op : Inputs]

\* OpsOf finds inputs of that player only.
LEMMA OpsOfOwn ==
    ASSUME NEW p \in Players, NEW ops \in Seq(Recs)
    PROVE  OpsOf(ops, p) \in Seq(By(p)) /\ OpsOf(ops, p) \in Seq(Recs)
<1> DEFINE T == {t \in Seq(Recs) : OpsOf(t, p) \in Seq(By(p))}
<1>1. <<>> \in T
  BY OpsOfEmpty, EmptySeq
<1>2. ASSUME NEW t \in Seq(Recs), NEW r \in Recs, t \in T PROVE Append(t, r) \in T
  <2>1. OpsOf(Append(t, r), p) = IF r.player = p THEN Append(OpsOf(t, p), r) ELSE OpsOf(t, p)
    BY OpsOfAppend
  <2>2. Append(t, r) \in Seq(Recs)
    BY AppendProperties
  <2>3. r.player = p => r \in By(p)
    BY DEF By, Recs
  <2>4. r.player = p => Append(OpsOf(t, p), r) \in Seq(By(p))
    BY <1>2, <2>3, AppendProperties
  <2> QED BY <1>2, <2>1, <2>2, <2>4
<1> HIDE DEF T
<1>3. Seq(Recs) \subseteq T
  BY <1>1, <1>2, SeqInduction
<1> USE DEF T
<1>4. By(p) \subseteq Recs
  BY DEF By, Recs
<1> QED BY <1>3, <1>4, SeqMonotonic

\* An input may go before those of the other player.
LEMMA CommutePast ==
    ASSUME NEW s \in Sims, NEW n \in Int, NEW p \in Players, NEW r \in Recs, r.player # p,
           NEW b \in Seq(By(p))
    PROVE  ConsumeOp(Consume(s, n, b), n, r) = Consume(ConsumeOp(s, n, r), n, b)
<1> DEFINE d == ConsumeOp(s, n, r)
           T == {t \in Seq(By(p)) : ConsumeOp(Consume(s, n, t), n, r) = Consume(d, n, t)}
<1>d. d \in Sims
  BY ConsumeType
<1>p. By(p) \subseteq Recs
  BY DEF By, Recs
<1> HIDE DEF d
<1>1. <<>> \in T
  BY <1>d, ConsumeEmpty, EmptySeq DEF d
<1>2. ASSUME NEW t \in Seq(By(p)), NEW e \in By(p), t \in T PROVE Append(t, e) \in T
  <2>1. t \in Seq(Recs) /\ e \in Recs /\ e.player = p
    BY <1>p, SeqMonotonic DEF By
  <2> DEFINE c == Consume(s, n, t)
  <2>2. c \in Sims
    BY <2>1, ConsumeKeeps
  <2>3. Consume(s, n, Append(t, e)) = ConsumeOp(c, n, e)
    BY <2>1, ConsumeAppend
  <2>4. Consume(d, n, Append(t, e)) = ConsumeOp(Consume(d, n, t), n, e)
    BY <1>d, <2>1, ConsumeAppend
  <2>5. Consume(d, n, t) = ConsumeOp(c, n, r)
    BY <1>2
  <2> HIDE DEF c
  <2>6. ConsumeOp(ConsumeOp(c, n, e), n, r) = ConsumeOp(ConsumeOp(c, n, r), n, e)
    BY <2>1, <2>2, Commute
  <2>7. Append(t, e) \in Seq(By(p))
    BY AppendProperties
  <2> QED BY <2>3, <2>4, <2>5, <2>6, <2>7
<1> HIDE DEF T
<1>3. Seq(By(p)) \subseteq T
  BY <1>1, <1>2, SeqInduction
<1> USE DEF T
<1> QED BY <1>3 DEF d

\* The two players in the order of their ids.
LEMMA TwoIds == /\ Players = {LowId, HighId} /\ LowId # HighId
BY FrameSyncAssumption DEF Players, HighId

\* A frame's inputs, sorted by player, have the effect they had in their order of arrival.
LEMMA SortedSame ==
    ASSUME NEW s \in Sims, NEW n \in Int, NEW ops \in Seq(Recs)
    PROVE  Sorted(ops) \in Seq(Recs) /\ Consume(s, n, Sorted(ops)) = Consume(s, n, ops)
<1> DEFINE T == {t \in Seq(Recs) : Consume(s, n, Sorted(t)) = Consume(s, n, t)}
<1>0. ASSUME NEW t \in Seq(Recs)
      PROVE  /\ OpsOf(t, LowId) \in Seq(By(LowId)) /\ OpsOf(t, LowId) \in Seq(Recs)
             /\ OpsOf(t, HighId) \in Seq(By(HighId)) /\ OpsOf(t, HighId) \in Seq(Recs)
             /\ Sorted(t) = OpsOf(t, LowId) \o OpsOf(t, HighId) /\ Sorted(t) \in Seq(Recs)
  BY TwoIds, OpsOfOwn, ConcatProperties DEF Sorted
<1>1. <<>> \in T
  <2>1. Sorted(<<>>) = <<>>
    BY OpsOfEmpty, EmptySeq, ConcatEmptySeq DEF Sorted
  <2> QED BY <2>1, EmptySeq
<1>2. ASSUME NEW t \in Seq(Recs), NEW r \in Recs, t \in T PROVE Append(t, r) \in T
  <2> DEFINE low == OpsOf(t, LowId)  high == OpsOf(t, HighId)  c == Consume(s, n, low)
  <2>1. /\ low \in Seq(Recs) /\ high \in Seq(Recs) /\ high \in Seq(By(HighId))
        /\ Sorted(t) = low \o high
    BY <1>0
  <2>2. Append(t, r) \in Seq(Recs) /\ Consume(s, n, Append(t, r)) = ConsumeOp(Consume(s, n, t), n, r)
    BY AppendProperties, ConsumeAppend
  <2>3. c \in Sims
    BY <2>1, ConsumeKeeps
  <2>4. Consume(s, n, t) = Consume(c, n, high)
    <3>1. Consume(s, n, low \o high) = Consume(c, n, high)
      <4> HIDE DEF low, high
      <4> QED BY <2>1, ConsumeConcat
    <3> QED BY <1>2, <2>1, <3>1
  <2>5. Sorted(Append(t, r)) = OpsOf(Append(t, r), LowId) \o OpsOf(Append(t, r), HighId)
    BY DEF Sorted
  <2>6. CASE r.player = HighId
    <3>1. OpsOf(Append(t, r), LowId) = low /\ OpsOf(Append(t, r), HighId) = Append(high, r)
      BY <2>6, OpsOfAppend, TwoIds
    <3>2. Append(high, r) \in Seq(Recs)
      BY <2>1, AppendProperties
    <3>3. Consume(s, n, Sorted(Append(t, r))) = Consume(c, n, Append(high, r))
      <4>1. Consume(s, n, low \o Append(high, r)) = Consume(c, n, Append(high, r))
        <5> DEFINE w == Append(high, r)
        <5> HIDE DEF low, high, w
        <5>1. w \in Seq(Recs)
          BY <3>2 DEF w
        <5>2. Consume(s, n, low \o w) = Consume(c, n, w)
          BY <2>1, <5>1, ConsumeConcat
        <5> QED BY <5>2 DEF w
      <4> QED BY <2>5, <3>1, <4>1
    <3>4. Consume(c, n, Append(high, r)) = ConsumeOp(Consume(c, n, high), n, r)
      BY <2>1, <2>3, ConsumeAppend
    <3> QED BY <2>2, <2>4, <3>3, <3>4
  <2>7. CASE r.player = LowId
    <3>1. OpsOf(Append(t, r), LowId) = Append(low, r) /\ OpsOf(Append(t, r), HighId) = high
      BY <2>7, OpsOfAppend, TwoIds
    <3>2. Append(low, r) \in Seq(Recs)
      BY <2>1, AppendProperties
    <3>3. Consume(s, n, Sorted(Append(t, r))) = Consume(Consume(s, n, Append(low, r)), n, high)
      <4>1. Consume(s, n, Append(low, r) \o high) = Consume(Consume(s, n, Append(low, r)), n, high)
        <5> DEFINE w == Append(low, r)
        <5> HIDE DEF low, high, w
        <5>1. w \in Seq(Recs)
          BY <3>2 DEF w
        <5>2. Consume(s, n, w \o high) = Consume(Consume(s, n, w), n, high)
          BY <2>1, <5>1, ConsumeConcat
        <5> QED BY <5>2 DEF w
      <4> QED BY <2>5, <3>1, <4>1
    <3>4. Consume(s, n, Append(low, r)) = ConsumeOp(c, n, r)
      BY <2>1, ConsumeAppend
    <3>5. ConsumeOp(Consume(c, n, high), n, r) = Consume(ConsumeOp(c, n, r), n, high)
      <4>1. HighId \in Players /\ r.player # HighId
        BY <2>7, TwoIds
      <4> HIDE DEF c, high
      <4> QED BY <2>1, <2>3, <4>1, CommutePast
    <3> QED BY <2>2, <2>4, <3>3, <3>4, <3>5
  <2>8. r.player \in {LowId, HighId}
    BY TwoIds DEF Recs
  <2> QED BY <2>6, <2>7, <2>8
<1> HIDE DEF T
<1>3. Seq(Recs) \subseteq T
  BY <1>1, <1>2, SeqInduction
<1> USE DEF T
<1> QED BY <1>0, <1>3

-----------------------------------------------------------------------------
\* Cooldowns of more than one frame, and no move before the first tick.
NoEarlyEffect ==
    /\ AtkCooldown > 1 /\ SkillCooldown > 1
    /\ \A op \in EarlyInputs : op.type # "MOVE"

EarlyRecs == [player : Players, op : EarlyInputs]

\* A fresh simulation is one.
LEMMA FreshType == Fresh \in Sims
BY FrameSyncAssumption DEF Fresh, Sims

\* What arrives before the first tick has no effect.
LEMMA EarlyNothing ==
    ASSUME NoEarlyEffect, NEW ops \in Seq(EarlyRecs)
    PROVE  Consume(Fresh, 1, ops) = Fresh
<1> DEFINE T == {t \in Seq(EarlyRecs) : Consume(Fresh, 1, t) = Fresh}
<1>r. EarlyRecs \subseteq Recs
  BY FrameSyncAssumption DEF EarlyRecs, Recs
<1>1. <<>> \in T
  BY FreshType, ConsumeEmpty, EmptySeq
<1>2. ASSUME NEW t \in Seq(EarlyRecs), NEW r \in EarlyRecs, t \in T PROVE Append(t, r) \in T
  <2>1. t \in Seq(Recs) /\ r \in Recs /\ Append(t, r) \in Seq(EarlyRecs)
    BY <1>r, SeqMonotonic, AppendProperties
  <2>2. Consume(Fresh, 1, Append(t, r)) = ConsumeOp(Fresh, 1, r)
    BY <1>2, <2>1, FreshType, ConsumeAppend
  <2>3. r.op \in EarlyInputs /\ r.player \in Players /\ r.op.type # "MOVE"
    BY DEF EarlyRecs, NoEarlyEffect
  <2>4. Fresh.lastAtk[r.player] = 0 /\ Fresh.lastSkill[r.player] = 0
    BY <2>3 DEF Fresh
  <2>5. ~(1 - Fresh.lastAtk[r.player] >= AtkCooldown) /\ ~(1 - Fresh.lastSkill[r.player] >= SkillCooldown)
    BY <2>4, FrameSyncAssumption DEF NoEarlyEffect
  <2>6. ApplyOp(Fresh, 1, r.player, r.op) = Fresh
    BY <2>3, <2>5 DEF ApplyOp
  <2>7. ConsumeOp(Fresh, 1, r) = Fresh
    BY <2>6 DEF ConsumeOp
  <2> QED BY <2>1, <2>2, <2>7
<1> HIDE DEF T
<1>3. Seq(EarlyRecs) \subseteq T
  BY <1>1, <1>2, SeqInduction
<1> USE DEF T
<1> QED BY <1>3

\* Walking changes positions and steps only.
LEMMA WalkType ==
    ASSUME NEW s \in Sims
    PROVE  Walk(s) \in Sims /\ Walk(s).alive = s.alive /\ Walk(s).hp = s.hp
<1>1. \A v \in Int : Clamp(v) \in Int /\ Stride(v) \in Int
  BY FrameSyncAssumption DEF Clamp, Stride
<1>2. \A p \in Players : s.pos[p] \in Int /\ s.step[p] \in Int
  BY DEF Sims
<1> DEFINE P == [p \in Players |-> IF s.alive[p] THEN Clamp(s.pos[p] + Stride(s.step[p])) ELSE s.pos[p]]
           D == [p \in Players |-> IF s.alive[p] THEN s.step[p] - Stride(s.step[p]) ELSE s.step[p]]
<1>3. P \in [Players -> Int] /\ D \in [Players -> Int]
  BY <1>1, <1>2
<1>4. Walk(s) = [s EXCEPT !.pos = P, !.step = D]
  BY DEF Walk
<1> HIDE DEF P, D
<1> QED BY <1>3, <1>4 DEF Sims

-----------------------------------------------------------------------------
\* Both players stand.
Healthy(s) == \A p \in Players : s.alive[p] /\ s.hp[p] > 0

\* What a client that has s makes of frame f.
Replay(s, f) ==
    IF f.full THEN [Fresh EXCEPT !.pos = f.entities.pos, !.hp = f.entities.hp,
                                 !.alive = f.entities.alive]
    ELSE Walk(Consume(s, f.seq, f.ops))

\* The frames, full or not.
Messages ==
    [full : {TRUE}, seq : Nat, ops : Seq(Recs),
     entities : [pos : [Players -> Int], hp : [Players -> Int], alive : [Players -> BOOLEAN]]]
      \cup [full : {FALSE}, seq : Nat, ops : Seq(Recs), entities : {<<>>}]

\* The types.
TypeInv ==
    /\ server \in Sims /\ client \in Sims
    /\ started \in BOOLEAN /\ synced \in BOOLEAN /\ over \in BOOLEAN
    /\ seq \in Nat /\ pendingOps \in Seq(Recs) /\ channel \in Seq(Messages)

\* The first frame is the full one.
FullFirst ==
    /\ ~started => /\ server = Fresh /\ ~synced /\ ~over /\ channel = <<>>
                   /\ pendingOps \in Seq(EarlyRecs)
    /\ ~synced => client = Fresh
    /\ started /\ ~synced => channel # <<>> /\ channel[1].full
    /\ \A i \in 1..Len(channel) : channel[i].full => i = 1 /\ ~synced

\* The simulations a client has between the frames on their way.
Ahead(sims) ==
    /\ sims \in [1..Len(channel) + 1 -> Sims]
    /\ sims[1] = client
    /\ \A i \in 1..Len(channel) : sims[i+1] = Replay(sims[i], channel[i]) /\ Healthy(sims[i+1])
    /\ ~over => sims[Len(channel) + 1] = server

\* What holds as long as start_match has thrown nothing away.
InStep ==
    /\ TypeInv /\ FullFirst
    /\ synced => Healthy(client)
    /\ \E sims : Ahead(sims)

\* The inductive invariant behind ClientFollowsServer.
SyncInv == ~lost => InStep

\* At the beginning both simulations are fresh and no frame is under way.
LEMMA SyncInit == Init => InStep
<1> SUFFICES ASSUME Init PROVE InStep
  OBVIOUS
<1>1. TypeInv
  BY FreshType, EmptySeq DEF Init, TypeInv
<1>2. FullFirst
  BY EmptySeq DEF Init, FullFirst
<1>3. Len(channel) = 0
  BY EmptySeq DEF Init
<1>4. Ahead([i \in 1..1 |-> Fresh])
  <2> DEFINE g == [i \in 1..1 |-> Fresh]
  <2>1. g \in [1..1 -> Sims] /\ g[1] = Fresh
    BY FreshType
  <2>2. 1..Len(channel) = {} /\ Len(channel) + 1 = 1
    BY <1>3
  <2> HIDE DEF g
  <2>3. client = Fresh /\ server = Fresh
    BY DEF Init
  <2>4. Ahead(g)
    BY <2>1, <2>2, <2>3 DEF Ahead
  <2> QED BY <2>4 DEF g
<1> QED BY <1>1, <1>2, <1>4 DEF InStep, Init

\* An input that arrives waits for its tick.
LEMMA SyncSubmit ==
    ASSUME InStep, NEW p \in Players, NEW op \in Inputs, SubmitOp(p, op)
    PROVE  InStep'
<1> DEFINE r == [player |-> p, op |-> op]
<1>1. r \in Recs /\ (op \in EarlyInputs => r \in EarlyRecs)
  BY DEF Recs, EarlyRecs
<1>2. pendingOps' = Append(pendingOps, r) /\ (started \/ op \in EarlyInputs)
      /\ UNCHANGED <<server, started, seq, over, channel, client, synced>>
  BY DEF SubmitOp
<1> HIDE DEF r
<1>3. pendingOps' \in Seq(Recs)
  BY <1>1, <1>2, AppendProperties DEF InStep, TypeInv
<1>4. ~started => pendingOps' \in Seq(EarlyRecs)
  BY <1>1, <1>2, AppendProperties DEF InStep, FullFirst
<1>5. TypeInv'
  BY <1>2, <1>3 DEF InStep, TypeInv
<1>6. FullFirst'
  BY <1>2, <1>4 DEF InStep, FullFirst
<1>7. PICK sims : Ahead(sims)
  BY DEF InStep
<1>8. Ahead(sims)'
  BY <1>2, <1>7 DEF Ahead
<1> QED BY <1>2, <1>5, <1>6, <1>8 DEF InStep, Healthy

\* A frame that has just been sent makes of the server's last simulation its new one.
LEMMA AheadGrows ==
    ASSUME TypeInv, NEW sims, Ahead(sims), ~over, NEW f \in Messages,
           channel' = Append(channel, f), client' = client, server' \in Sims,
           server' = Replay(server, f), Healthy(server')
    PROVE  \E g : Ahead(g)'
<1> DEFINE k == Len(channel)
<1>0. PICK g : g = [i \in 1..k + 2 |-> IF i = k + 2 THEN server' ELSE sims[i]]
  OBVIOUS
<1>1. /\ k \in Nat /\ Len(channel') = k + 1 /\ channel'[k + 1] = f
      /\ \A i \in 1..k : channel'[i] = channel[i]
  BY LenProperties, AppendProperties DEF TypeInv
<1> HIDE DEF k
<1>2. /\ sims \in [1..k + 1 -> Sims] /\ sims[1] = client /\ sims[k + 1] = server
      /\ \A i \in 1..k : sims[i+1] = Replay(sims[i], channel[i]) /\ Healthy(sims[i+1])
  BY DEF Ahead, k
<1>3. g \in [1..k + 2 -> Sims] /\ g[1] = client /\ g[k + 2] = server' /\ \A i \in 1..k + 1 : g[i] = sims[i]
  BY <1>0, <1>1, <1>2 DEF k
<1>4. ASSUME NEW i \in 1..k + 1
      PROVE  g[i+1] = Replay(g[i], channel'[i]) /\ Healthy(g[i+1])
  <2>1. CASE i = k + 1
    <3>1. i + 1 = k + 2 /\ g[i] = server
      BY <1>1, <1>2, <1>3, <2>1
    <3> QED BY <1>1, <1>3, <2>1, <3>1
  <2>2. CASE i \in 1..k
    <3>1. i + 1 \in 1..k + 1 /\ i \in 1..k + 1
      BY <1>1, <2>2
    <3>2. g[i] = sims[i] /\ g[i + 1] = sims[i + 1] /\ channel'[i] = channel[i]
      BY <1>1, <1>3, <2>2, <3>1
    <3> QED BY <1>2, <2>2, <3>2
  <2> QED BY <1>1, <2>1, <2>2
<1>5. (k + 1) + 1 = k + 2
  BY <1>1
<1>6. Ahead(g)'
  <2>1. g \in [1..Len(channel') + 1 -> Sims] /\ g[1] = client' /\ g[Len(channel') + 1] = server'
    BY <1>1, <1>3, <1>5
  <2>2. \A i \in 1..Len(channel') : g[i+1] = Replay(g[i], channel'[i]) /\ Healthy(g[i+1])
    BY <1>1, <1>4
  <2> QED BY <2>1, <2>2 DEF Ahead
<1> QED BY <1>6

\* A frame that is taken off the channel brings the client one simulation further.
LEMMA AheadShrinks ==
    ASSUME TypeInv, NEW sims, Ahead(sims), channel # <<>>, channel' = Tail(channel),
           client' = Replay(client, channel[1]), UNCHANGED <<server, over>>
    PROVE  /\ \E g : Ahead(g)'
           /\ client' \in Sims /\ Healthy(client')
<1> DEFINE k == Len(channel)
<1>0. PICK g : g = [i \in 1..k |-> sims[i + 1]]
  OBVIOUS
<1>1. /\ k \in Nat \ {0} /\ Len(channel') = k - 1
      /\ \A i \in 1..k - 1 : channel'[i] = channel[i + 1]
  BY LenProperties, HeadTailProperties, EmptySeq DEF TypeInv
<1> HIDE DEF k
<1>2. /\ sims \in [1..k + 1 -> Sims] /\ sims[1] = client /\ (~over => sims[k + 1] = server)
      /\ \A i \in 1..k : sims[i+1] = Replay(sims[i], channel[i]) /\ Healthy(sims[i+1])
  BY DEF Ahead, k
<1>3. g \in [1..k -> Sims] /\ \A i \in 1..k : g[i] = sims[i + 1]
  BY <1>0, <1>1, <1>2 DEF k
<1>4. client' = sims[2] /\ sims[2] \in Sims /\ Healthy(sims[2])
  <2>1. 1 \in 1..k /\ 1 + 1 = 2 /\ 2 \in 1..k + 1
    BY <1>1
  <2> QED BY <1>2, <2>1
<1>5. ASSUME NEW i \in 1..k - 1
      PROVE  g[i+1] = Replay(g[i], channel'[i]) /\ Healthy(g[i+1])
  <2>1. i \in 1..k /\ i + 1 \in 1..k
    BY <1>1
  <2>2. g[i] = sims[i + 1] /\ g[i + 1] = sims[(i + 1) + 1] /\ channel'[i] = channel[i + 1]
    BY <1>1, <1>3, <2>1
  <2> QED BY <1>2, <2>1, <2>2
<1>6. Ahead(g)'
  <2>1. (k - 1) + 1 = k /\ 1 \in 1..k /\ k \in 1..k /\ 1 + 1 = 2
    BY <1>1
  <2>2. g[1] = client' /\ (~over => g[k] = server)
    BY <1>2, <1>3, <1>4, <2>1
  <2>3. g \in [1..Len(channel') + 1 -> Sims] /\ g[1] = client' /\ (~over' => g[Len(channel') + 1] = server')
    BY <1>1, <1>3, <2>1, <2>2
  <2>4. \A i \in 1..Len(channel') : g[i+1] = Replay(g[i], channel'[i]) /\ Healthy(g[i+1])
    BY <1>1, <1>5
  <2> QED BY <2>3, <2>4 DEF Ahead
<1>7. Healthy(client')
  BY <1>4
<1> QED BY <1>4, <1>6, <1>7

\* The full frame is all there is to know of the first tick.
LEMMA SyncFirst ==
    ASSUME NoEarlyEffect, InStep, FirstTick
    PROVE  InStep'
<1>1. /\ ~started /\ started' = TRUE /\ seq' = 1 /\ pendingOps' = <<>>
      /\ UNCHANGED <<over, client, synced>>
  BY DEF FirstTick
<1>2. /\ server = Fresh /\ client = Fresh /\ ~synced /\ ~over /\ channel = <<>>
      /\ pendingOps \in Seq(EarlyRecs) /\ pendingOps \in Seq(Recs)
  BY <1>1 DEF InStep, FullFirst, TypeInv
<1> DEFINE P == [p \in Players |-> IF p = P1 THEN SpawnOffset ELSE MapSize - SpawnOffset]
           t == [Fresh EXCEPT !.pos = P]
           f == Frame(TRUE, t, 1, pendingOps)
<1>3. P \in [Players -> Int]
  BY FrameSyncAssumption
<1>4. server' = t /\ channel' = Append(channel, f)
  <2>1. Consume(server, 1, pendingOps) = Fresh
    BY <1>2, EarlyNothing
  <2> QED BY <2>1 DEF FirstTick
<1> HIDE DEF P
<1>5. /\ t \in Sims /\ t.pos = P /\ t.hp = Fresh.hp /\ t.alive = Fresh.alive
      /\ t.step = Fresh.step /\ t.lastAtk = Fresh.lastAtk /\ t.lastSkill = Fresh.lastSkill
  BY <1>3, FreshType DEF Sims
<1> HIDE DEF t
<1>6. /\ f \in Messages /\ f.full
      /\ f.entities.pos = t.pos /\ f.entities.hp = t.hp /\ f.entities.alive = t.alive
  <2>1. Sorted(pendingOps) \in Seq(Recs)
    <3>1. 1 \in Int
      OBVIOUS
    <3>2. Sorted(pendingOps) \in Seq(Recs) /\ Consume(Fresh, 1, Sorted(pendingOps)) = Consume(Fresh, 1, pendingOps)
      BY <1>2, <3>1, FreshType, SortedSame
    <3> QED BY <3>2
  <2>2. t.pos \in [Players -> Int] /\ t.hp \in [Players -> Int] /\ t.alive \in [Players -> BOOLEAN]
    BY <1>5 DEF Sims
  <2> QED BY <2>1, <2>2 DEF Frame, Messages
<1> HIDE DEF f
<1>7. server' = Replay(server, f)
  <2> DEFINE u == Replay(server, f)
  <2>1. u = [Fresh EXCEPT !.pos = t.pos, !.hp = t.hp, !.alive = t.alive]
    BY <1>6 DEF Replay
  <2>2. t.pos \in [Players -> Int] /\ t.hp \in [Players -> Int] /\ t.alive \in [Players -> BOOLEAN]
    BY <1>5 DEF Sims
  <2> HIDE DEF u
  <2>3. /\ u \in Sims /\ u.pos = t.pos /\ u.hp = t.hp /\ u.alive = t.alive
        /\ u.step = Fresh.step /\ u.lastAtk = Fresh.lastAtk /\ u.lastSkill = Fresh.lastSkill
    BY <2>1, <2>2, FreshType DEF Sims
  <2>4. u = t
    BY <1>5, <2>3, SimEqual
  <2> QED BY <1>4, <2>4 DEF u
<1>8. Healthy(server')
  BY <1>4, <1>5, FrameSyncAssumption DEF Healthy, Fresh
<1>9. server' \in Sims
  BY <1>4, <1>5
<1>10. PICK sims : Ahead(sims)
  BY DEF InStep
<1>11. TypeInv
  BY DEF InStep
<1>12. \E g : Ahead(g)'
  BY <1>1, <1>2, <1>4, <1>6, <1>7, <1>8, <1>9, <1>10, <1>11, AheadGrows
<1>13. /\ channel' \in Seq(Messages) /\ channel' # <<>> /\ Len(channel') = 1 /\ channel'[1] = f
  <2>1. <<>> \in Seq(Messages) /\ Len(<<>>) = 0
    BY EmptySeq
  <2> QED BY <1>2, <1>4, <1>6, <2>1, AppendProperties
<1>14. TypeInv'
  BY <1>1, <1>2, <1>9, <1>11, <1>13, EmptySeq DEF TypeInv
<1>15. FullFirst'
  BY <1>1, <1>2, <1>6, <1>13 DEF FullFirst
<1> QED BY <1>1, <1>2, <1>12, <1>14, <1>15 DEF InStep

\* While the battle lasts, the server has both players standing.
LEMMA ServerHealthy == InStep /\ started /\ ~over => Healthy(server)
<1> SUFFICES ASSUME InStep, started, ~over PROVE Healthy(server)
  OBVIOUS
<1>1. PICK sims : Ahead(sims)
  BY DEF InStep
<1>2. channel \in Seq(Messages) /\ Len(channel) \in Nat
  BY LenProperties DEF InStep, TypeInv
<1>3. CASE Len(channel) = 0
  <2>1. channel = <<>>
    BY <1>2, <1>3, EmptySeq
  <2>2. synced
    BY <2>1 DEF InStep, FullFirst
  <2>3. server = client
    BY <1>1, <1>3 DEF Ahead
  <2> QED BY <2>2, <2>3 DEF InStep
<1>4. CASE Len(channel) > 0
  <2>1. Len(channel) \in 1..Len(channel)
    BY <1>2, <1>4
  <2>2. Healthy(sims[Len(channel) + 1]) /\ sims[Len(channel) + 1] = server
    BY <1>1, <2>1 DEF Ahead
  <2> QED BY <2>2
<1> QED BY <1>2, <1>3, <1>4

\* Burying nobody changes nothing.
LEMMA BuryType ==
    ASSUME NEW s \in Sims, NEW dead
    PROVE  Bury(s, dead) \in Sims /\ (dead = {} => Bury(s, dead) = s)
<1> DEFINE A == [p \in Players |-> s.alive[p] /\ p \notin dead]
           H == [p \in Players |-> IF p \in dead THEN 0 ELSE s.hp[p]]
<1>1. Bury(s, dead) = [s EXCEPT !.alive = A, !.hp = H]
  BY DEF Bury
<1>2. A \in [Players -> BOOLEAN] /\ H \in [Players -> Int]
  BY DEF Sims
<1>3. dead = {} => A = s.alive /\ H = s.hp
  <2> SUFFICES ASSUME dead = {} PROVE A = s.alive /\ H = s.hp
    OBVIOUS
  <2>1. \A p \in Players : s.alive[p] \in BOOLEAN
    BY DEF Sims
  <2>2. A = s.alive
    BY <2>1 DEF Sims
  <2>3. H = s.hp
    BY DEF Sims
  <2> QED BY <2>2, <2>3
<1> HIDE DEF A, H
<1> QED BY <1>1, <1>2, <1>3 DEF Sims

\* A later tick sends what brings a client to the server's new simulation.
LEMMA SyncTick ==
    ASSUME InStep, Tick
    PROVE  InStep'
<1>1. TypeInv /\ FullFirst /\ started /\ ~over /\ Healthy(server)
  BY ServerHealthy DEF InStep, Tick
<1>2. /\ seq' = seq + 1 /\ pendingOps' = <<>> /\ UNCHANGED <<started, client, synced>>
      /\ seq' \in Nat /\ pendingOps' \in Seq(Recs)
  BY <1>1, EmptySeq DEF Tick, TypeInv
<1>3. server \in Sims /\ seq + 1 \in Nat /\ seq + 1 \in Int /\ pendingOps \in Seq(Recs)
  BY <1>1 DEF TypeInv
<1> DEFINE c == Consume(server, seq + 1, pendingOps)
           t == Walk(c)
           f == Frame(FALSE, t, seq + 1, pendingOps)
<1>4. /\ c \in Sims /\ c.alive = server.alive
      /\ Sorted(pendingOps) \in Seq(Recs)
      /\ Consume(server, seq + 1, Sorted(pendingOps)) = c
  BY <1>3, ConsumeKeeps, SortedSame
<1>5. t \in Sims /\ t.alive = server.alive
  BY <1>4, WalkType
<1>6. /\ f \in Messages /\ ~f.full /\ Replay(server, f) = t
  BY <1>3, <1>4 DEF Frame, Messages, Replay
<1>7. PICK sims : Ahead(sims)
  BY DEF InStep
<1>8. CASE Fallen(t) = {}
  <2>1. server' = t /\ channel' = Append(channel, f) /\ UNCHANGED over
    BY <1>8 DEF Tick
  <2> HIDE DEF t, f
  <2>2. Healthy(t)
    <3> SUFFICES ASSUME NEW p \in Players PROVE t.alive[p] /\ t.hp[p] > 0
      BY DEF Healthy
    <3>1. t.alive[p]
      BY <1>1, <1>5 DEF Healthy
    <3>2. t.hp[p] \in Int
      BY <1>5 DEF Sims
    <3> QED BY <1>8, <3>1, <3>2 DEF Fallen
  <2>3. \E g : Ahead(g)'
    BY <1>1, <1>2, <1>5, <1>6, <1>7, <2>1, <2>2, AheadGrows
  <2>4. /\ channel \in Seq(Messages) /\ Len(channel) \in Nat
        /\ channel' \in Seq(Messages) /\ channel' # <<>> /\ Len(channel') = Len(channel) + 1
        /\ channel'[Len(channel) + 1] = f /\ \A i \in 1..Len(channel) : channel'[i] = channel[i]
    BY <1>1, <1>6, <2>1, AppendProperties, LenProperties DEF TypeInv
  <2>5. TypeInv'
    BY <1>1, <1>2, <1>5, <2>1, <2>4 DEF TypeInv
  <2>6. FullFirst'
    <3>1. \A i \in 1..Len(channel') : i \in 1..Len(channel) \/ i = Len(channel) + 1
      BY <2>4
    <3>2. \A i \in 1..Len(channel') : channel'[i].full => i = 1 /\ ~synced'
      BY <1>1, <1>2, <1>6, <2>4, <3>1 DEF FullFirst
    <3>3. ~synced => channel'[1].full
      <4>1. ~synced => channel # <<>> /\ channel[1].full
        BY <1>1 DEF FullFirst
      <4>2. channel # <<>> => 1 \in 1..Len(channel)
        BY <2>4, EmptySeq
      <4> QED BY <2>4, <4>1, <4>2
    <3> QED BY <1>1, <1>2, <2>4, <3>2, <3>3 DEF FullFirst
  <2> QED BY <1>2, <2>3, <2>5, <2>6 DEF InStep, Healthy
<1>9. CASE Fallen(t) # {}
  <2>1. over' = TRUE /\ channel' = channel /\ server' = Bury(t, IF P1 \in Fallen(t) THEN {P1} ELSE {P2})
    BY <1>9 DEF Tick
  <2>2. server' \in Sims
    BY <1>5, <2>1, BuryType
  <2>3. TypeInv'
    BY <1>1, <1>2, <2>1, <2>2 DEF TypeInv
  <2>4. FullFirst'
    BY <1>1, <1>2, <2>1 DEF FullFirst
  <2>5. Ahead(sims)'
    BY <1>2, <1>7, <2>1 DEF Ahead
  <2> QED BY <1>2, <2>3, <2>4, <2>5 DEF InStep, Healthy
<1> QED BY <1>8, <1>9

\* What is on the channel after its first frame is no full frame.
LEMMA RestNotFull ==
    ASSUME TypeInv, FullFirst, channel # <<>>, channel' = Tail(channel)
    PROVE  /\ channel' \in Seq(Messages) /\ Head(channel) = channel[1]
           /\ \A i \in 1..Len(channel') : ~channel'[i].full
<1>1. /\ channel \in Seq(Messages) /\ Len(channel) \in Nat
      /\ channel' \in Seq(Messages) /\ Len(channel') = Len(channel) - 1
      /\ \A i \in 1..Len(channel') : channel'[i] = channel[i + 1]
  BY HeadTailProperties, LenProperties DEF TypeInv
<1>2. \A i \in 1..Len(channel') : i + 1 \in 1..Len(channel) /\ i + 1 # 1
  BY <1>1
<1>3. \A i \in 1..Len(channel') : ~channel'[i].full
  BY <1>1, <1>2 DEF FullFirst
<1> QED BY <1>1, <1>3

\* The client takes a frame, and buries nobody by it.
LEMMA SyncTake ==
    ASSUME InStep, TakeFullFrame \/ TakeFrame
    PROVE  InStep'
<1>1. TypeInv /\ FullFirst /\ channel # <<>> /\ channel' = Tail(channel)
      /\ UNCHANGED <<server, started, seq, over, pendingOps>>
  BY DEF InStep, TakeFullFrame, TakeFrame
<1>2. /\ channel' \in Seq(Messages) /\ Head(channel) = channel[1]
      /\ \A i \in 1..Len(channel') : ~channel'[i].full
  BY <1>1, RestNotFull
<1>3. PICK sims : Ahead(sims)
  BY DEF InStep
<1>4. 1 \in 1..Len(channel) /\ channel[1] \in Messages
  <2>1. Len(channel) \in Nat \ {0} /\ channel \in Seq(Messages)
    BY <1>1, EmptySeq DEF TypeInv
  <2> QED BY <2>1, ElementOfSeq
<1>5. client' = Replay(client, channel[1]) /\ synced'
  <2>1. CASE TakeFullFrame
    BY <1>2, <2>1 DEF TakeFullFrame, Replay
  <2>2. CASE TakeFrame
    <3> DEFINE f == Head(channel)
               t == Walk(Consume(client, f.seq, f.ops))
    <3>1. ~f.full /\ f = channel[1] /\ f \in Messages
      BY <1>2, <1>4, <2>2 DEF TakeFrame
    <3>2. synced
      BY <1>1, <3>1 DEF FullFirst
    <3>3. Replay(client, channel[1]) = t
      BY <3>1 DEF Replay
    <3>4. client' = Bury(t, Fallen(t)) /\ synced' = synced
      BY <2>2, <3>2 DEF TakeFrame
    <3>5. t \in Sims
      <4>1. f.seq \in Int /\ f.ops \in Seq(Recs) /\ client \in Sims
        <5> HIDE DEF f
        <5>1. f.seq \in Nat /\ f.ops \in Seq(Recs)
          BY <3>1 DEF Messages
        <5> QED BY <1>1, <5>1 DEF TypeInv
      <4> QED BY <4>1, ConsumeKeeps, WalkType
    <3>6. sims[1 + 1] = t /\ Healthy(t)
      BY <1>3, <1>4, <3>3 DEF Ahead
    <3> HIDE DEF t
    <3>7. Fallen(t) = {}
      <4>1. \A p \in Players : t.hp[p] > 0 /\ t.hp[p] \in Int
        BY <3>5, <3>6 DEF Healthy, Sims
      <4> QED BY <4>1 DEF Fallen
    <3> QED BY <3>2, <3>3, <3>4, <3>5, <3>7, BuryType
  <2> QED BY <2>1, <2>2
<1>6. (\E g : Ahead(g)') /\ client' \in Sims /\ Healthy(client')
  BY <1>1, <1>3, <1>5, AheadShrinks
<1>7. TypeInv'
  BY <1>1, <1>2, <1>5, <1>6 DEF TypeInv, TakeFullFrame, TakeFrame
<1>8. FullFirst'
  BY <1>1, <1>2, <1>5 DEF FullFirst
<1> QED BY <1>5, <1>6, <1>7, <1>8 DEF InStep, Healthy

\* No step disturbs it: what throws a frame away ends the promise.
LEMMA SyncStep == NoEarlyEffect /\ SyncInv /\ [Next]_vars => SyncInv'
<1> SUFFICES ASSUME NoEarlyEffect, SyncInv, [Next]_vars, ~lost' PROVE InStep'
  BY DEF SyncInv
<1>1. ~lost => InStep
  BY DEF SyncInv
<1>2. CASE UNCHANGED vars \/ MatchRsp
  <2>1. InStep /\ UNCHANGED <<server, started, seq, over, pendingOps, channel, client, synced>>
    BY <1>1, <1>2 DEF MatchRsp, vars
  <2>2. PICK sims : Ahead(sims)
    BY <2>1 DEF InStep
  <2>3. Ahead(sims)'
    BY <2>1, <2>2 DEF Ahead
  <2>4. TypeInv' /\ FullFirst'
    BY <2>1 DEF InStep, TypeInv, FullFirst
  <2> QED BY <2>1, <2>3, <2>4 DEF InStep, Healthy
<1>3. CASE \/ \E p \in Players, op \in Inputs : SubmitOp(p, op)
           \/ FirstTick \/ Tick \/ TakeFullFrame \/ TakeFrame
  <2>1. lost' = lost
    BY <1>3 DEF SubmitOp, FirstTick, Tick, TakeFullFrame, TakeFrame
  <2> QED BY <1>1, <1>3, <2>1, SyncSubmit, SyncFirst, SyncTick, SyncTake
<1> QED BY <1>2, <1>3 DEF Next, ThrowAway

\* However many inputs arrive in a frame and in whatever order, a client that has replayed all
\* frames sent has the server's simulation, and buried nobody on the way (Room.Tick and
\* buildFrameDataLocked against _apply_frame), if no input has an effect before the first tick
\* and start_match threw no frame away.
THEOREM ClientsFollow ==
    ASSUME AtkCooldown > 1, SkillCooldown > 1, \A op \in EarlyInputs : op.type # "MOVE"
    PROVE  Spec => []ClientFollowsServer
<1>1. NoEarlyEffect
  BY DEF NoEarlyEffect
<1>2. SyncInv => ClientFollowsServer
  <2> SUFFICES ASSUME InStep PROVE ClientFollowsServer
    BY DEF SyncInv, ClientFollowsServer
  <2>1. PICK sims : Ahead(sims)
    BY DEF InStep
  <2>2. ASSUME started, ~over, channel = <<>> PROVE client = server
    BY <2>1, <2>2, EmptySeq DEF Ahead
  <2>3. synced => Healthy(client)
    BY DEF InStep
  <2>4. ~synced => \A p \in Players : client.alive[p]
    BY DEF InStep, FullFirst, Fresh
  <2> QED BY <2>2, <2>3, <2>4 DEF ClientFollowsServer, Healthy
<1>3. Init => SyncInv
  BY SyncInit DEF SyncInv
<1> QED BY <1>1, <1>2, <1>3, SyncStep, PTL DEF Spec
=============================================================================
