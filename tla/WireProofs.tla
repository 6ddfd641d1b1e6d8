------------------------------ MODULE WireProofs ------------------------------
(***************************************************************************)
(* Proofs about Wire, for any players, frames, number of ticks and sockets *)
(* of any size: what a player reads are whole frames; what the gateway     *)
(* hears is what was sent, however it is cut; the frames of the ticks come *)
(* in their order until a call times out, and never twice.                 *)
(***************************************************************************)
EXTENDS Wire, SequenceTheorems, FiniteSetTheorems, TLAPS

\* The number of words of a half-read frame that were read.
Half(p) == IF begun[p] THEN 1 ELSE 0

\* The inductive invariant behind FramesIntact.  What is under way to a player
\* alternates between first and second words of frames, from where he is; what a
\* writer holds goes on from there, as long as the connection is open.
StreamOK(p) ==
    /\ down[p] \in Seq(Nat) /\ rest[p] \in Seq(Nat) /\ begun[p] \in BOOLEAN
    /\ \A i \in 1..Len(down[p]) : (i + Half(p)) % 2 = 1 => down[p][i] = FrameHeaderSize
    /\ Len(rest[p]) = 2 => rest[p][1] = FrameHeaderSize
    /\ holder[p] # Nobody => Len(rest[p]) \in {1, 2}
    /\ holder[p] = Nobody => rest[p] = <<>>
    /\ open[p] => (Len(down[p]) + Half(p) + Len(rest[p])) % 2 = 0

\* The functions by player.
Shape ==
    /\ down \in [Players -> Seq(Nat)] /\ rest \in [Players -> Seq(Nat)]
    /\ begun \in [Players -> BOOLEAN] /\ open \in [Players -> BOOLEAN]
    /\ holder \in [Players -> Writers \cup {Nobody}]
    /\ waiting \in [Players -> SUBSET Writers]
    /\ tick \in 0..MaxTicks /\ (todo # {} => tick >= 1)

StreamInv == Shape /\ \A p \in Players : StreamOK(p)

-----------------------------------------------------------------------------
\* What one player's stream depends on.
Same(p) == /\ down'[p] = down[p] /\ rest'[p] = rest[p] /\ begun'[p] = begun[p]
           /\ holder'[p] = holder[p]

\* Even and odd.
LEMMA Parity ==
    ASSUME NEW a \in Int
    PROVE  /\ a % 2 \in {0, 1}
           /\ (a + 1) % 2 = 1 - (a % 2)
           /\ (a + 2) % 2 = a % 2
OBVIOUS

\* The numbers of a write, of the word a writer is at, of the other half of a frame.
LEMMA Least ==
    ASSUME NEW a \in Nat, NEW b \in Nat, a >= 1, b >= 1
    PROVE  (IF a < b THEN a ELSE b) \in 1..b
OBVIOUS

LEMMA RoomLeft ==
    ASSUME NEW a \in Nat, NEW b \in Nat, a < b
    PROVE  b - a \in Nat /\ b - a >= 1
OBVIOUS

LEMMA FirstWord ==
    ASSUME NEW e \in Int, NEW l \in {1, 2}, NEW k \in 1..l, (e + l) % 2 = 0, (e + k) % 2 = 1
    PROVE  l = 2 /\ k = 1
<1>1. e % 2 \in {0, 1} /\ (e + 1) % 2 = 1 - (e % 2) /\ (e + 2) % 2 = e % 2
  BY Parity
<1>2. k \in {1, 2}
  OBVIOUS
<1>3. QED
  BY <1>1, <1>2

LEMMA OtherHalf ==
    ASSUME NEW a \in Nat, NEW b \in Nat, (a + 1 + b) % 2 = 0
    PROVE  (a - 1 + 0 + b) % 2 = 0
<1>1. (a + b - 1) \in Int /\ (a + b - 1) + 2 = a + 1 + b /\ a - 1 + 0 + b = a + b - 1
  OBVIOUS
<1>2. QED
  BY <1>1, Parity

LEMMA OneLeft ==
    ASSUME NEW l \in {1, 2}, NEW n \in 1..l, n # l
    PROVE  l - n = 1
OBVIOUS

LEMMA HalfType ==
    ASSUME NEW p, begun[p] \in BOOLEAN
    PROVE  Half(p) \in {0, 1}
BY DEF Half

\* A connection that stays as it is or is closed keeps its stream.
LEMMA StreamKept ==
    ASSUME NEW p, StreamOK(p), Same(p), open'[p] => open[p]
    PROVE  StreamOK(p)'
BY DEF StreamOK, Same, Half

\* A frame without payload is two words.
LEMMA BytesOf ==
    ASSUME NEW w \in Writers, MaxTicks \in Nat
    PROVE  Bytes(w) = <<FrameHeaderSize, w>> /\ w \in Nat
<1>1. FrameHeaderSize + Len(<<>>) = FrameHeaderSize
  BY DEF FrameHeaderSize
<1>2. <<FrameHeaderSize, w>> \o <<>> = <<FrameHeaderSize, w>>
  OBVIOUS
<1>3. QED
  BY <1>1, <1>2 DEF Bytes, EncodeFrame, Writers

\* Who gets the lock begins where a frame begins.
LEMMA StreamLocked ==
    ASSUME Shape, NEW p \in Players, StreamOK(p), Lock(p), MaxTicks \in Nat
    PROVE  StreamOK(p)' /\ rest' \in [Players -> Seq(Nat)]
<1>1. PICK w \in waiting[p] : /\ holder' = [holder EXCEPT ![p] = w]
                              /\ rest' = [rest EXCEPT ![p] = Bytes(w)]
  BY DEF Lock
<1>2. w \in Writers /\ w # Nobody
  BY <1>1 DEF Shape, Writers, Nobody
<1>3. Bytes(w) = <<FrameHeaderSize, w>> /\ w \in Nat
  BY <1>2, BytesOf
<1>4. <<FrameHeaderSize, w>> \in Seq(Nat) /\ Len(<<FrameHeaderSize, w>>) = 2
  BY <1>3 DEF FrameHeaderSize
<1>5. rest'[p] = <<FrameHeaderSize, w>> /\ holder'[p] = w
  BY <1>1, <1>3 DEF Shape
<1>6. /\ holder[p] = Nobody /\ down' = down /\ begun' = begun /\ open' = open
  BY DEF Lock, client
<1>7. Len(rest[p]) = 0 /\ Len(down[p]) \in Nat
  BY <1>6 DEF StreamOK
<1>8. StreamOK(p)'
  <2>1. Half(p)' = Half(p) /\ Half(p) \in {0, 1}
    BY <1>6, HalfType DEF Half, StreamOK
  <2>2. open[p] => (Len(down[p]) + Half(p)) % 2 = 0
    BY <1>7, <2>1 DEF StreamOK
  <2>3. (Len(down[p]) + Half(p) + 2) % 2 = (Len(down[p]) + Half(p)) % 2
    BY <1>7, <2>1, Parity
  <2>4. Len(rest'[p]) = 2 /\ rest'[p][1] = FrameHeaderSize /\ rest'[p] \in Seq(Nat)
    BY <1>4, <1>5
  <2>5. open'[p] => (Len(down'[p]) + Half(p)' + Len(rest'[p])) % 2 = 0
    BY <1>6, <2>1, <2>2, <2>3, <2>4
  <2>6. \A i \in 1..Len(down'[p]) : (i + Half(p)') % 2 = 1 => down'[p][i] = FrameHeaderSize
    BY <1>6, <2>1 DEF StreamOK
  <2>7. down'[p] \in Seq(Nat) /\ begun'[p] \in BOOLEAN
    BY <1>6 DEF StreamOK
  <2>8. QED
    BY <1>2, <1>5, <2>4, <2>5, <2>6, <2>7 DEF StreamOK
<1>9. QED
  BY <1>1, <1>3, <1>4, <1>8 DEF Shape

\* What is written goes on from where the stream ended.
LEMMA StreamWritten ==
    ASSUME Shape, NEW p \in Players, StreamOK(p), Write(p), SocketSize \in Nat
    PROVE  /\ StreamOK(p)'
           /\ down' \in [Players -> Seq(Nat)] /\ rest' \in [Players -> Seq(Nat)]
<1> DEFINE d == down[p]
           r == rest[p]
           room == SocketSize - Len(d)
           n == IF room < Len(r) THEN room ELSE Len(r)
<1>1. /\ open[p] /\ holder[p] # Nobody /\ Len(d) < SocketSize
      /\ down' = [down EXCEPT ![p] = d \o SubSeq(r, 1, n)]
      /\ rest' = [rest EXCEPT ![p] = SubSeq(r, n + 1, Len(r))]
      /\ UNCHANGED <<open, begun>>
      /\ \/ n = Len(r) /\ holder' = [holder EXCEPT ![p] = Nobody]
         \/ n # Len(r) /\ holder' = holder
  BY DEF Write, Unlock, client, Shape
<1>2. d \in Seq(Nat) /\ r \in Seq(Nat) /\ Len(d) \in Nat /\ Len(r) \in {1, 2}
  BY <1>1 DEF StreamOK
<1>3. n \in 1..Len(r)
  <2>1. room \in Nat /\ room >= 1
    <3>1. Len(d) \in Nat /\ SocketSize \in Nat /\ Len(d) < SocketSize
      BY <1>1, <1>2
    <3>2. QED
      BY <3>1, RoomLeft
  <2>2. Len(r) \in Nat /\ Len(r) >= 1
    <3>1. \A l \in {1, 2} : l \in Nat /\ l >= 1
      OBVIOUS
    <3>2. QED
      BY <1>2, <3>1
  <2>3. QED
    BY <2>1, <2>2, Least
<1> HIDE DEF n
<1>4. /\ SubSeq(r, 1, n) \in Seq(Nat) /\ Len(SubSeq(r, 1, n)) = n
      /\ \A i \in 1..n : SubSeq(r, 1, n)[i] = r[i]
  BY <1>2, <1>3, SubSeqProperties
<1>5. /\ SubSeq(r, n + 1, Len(r)) \in Seq(Nat) /\ Len(SubSeq(r, n + 1, Len(r))) = Len(r) - n
  BY <1>2, <1>3, SubSeqProperties
<1>6. /\ d \o SubSeq(r, 1, n) \in Seq(Nat) /\ Len(d \o SubSeq(r, 1, n)) = Len(d) + n
      /\ \A i \in 1..Len(d) : (d \o SubSeq(r, 1, n))[i] = d[i]
      /\ \A i \in 1..n : (d \o SubSeq(r, 1, n))[Len(d) + i] = r[i]
  <2>1. \A i \in 1..n : (d \o SubSeq(r, 1, n))[Len(d) + i] = SubSeq(r, 1, n)[i]
    BY <1>2, <1>4, ConcatProperties
  <2>2. QED
    BY <1>2, <1>4, <2>1, ConcatProperties
<1>7. down' \in [Players -> Seq(Nat)] /\ rest' \in [Players -> Seq(Nat)]
  BY <1>1, <1>5, <1>6 DEF Shape
<1>8. down'[p] = d \o SubSeq(r, 1, n) /\ rest'[p] = SubSeq(r, n + 1, Len(r))
  BY <1>1 DEF Shape
<1>9. Half(p) \in {0, 1} /\ Half(p)' = Half(p)
  BY <1>1 DEF Half
<1>10. (Len(d) + Half(p) + Len(r)) % 2 = 0
  BY <1>1 DEF StreamOK
<1>11. ASSUME NEW i \in 1..Len(down'[p]), (i + Half(p)) % 2 = 1
       PROVE  down'[p][i] = FrameHeaderSize
  <2>1. CASE i <= Len(d)
    BY <1>2, <1>6, <1>8, <1>11, <2>1 DEF StreamOK
  <2>2. CASE i > Len(d)
    <3>1. PICK k \in 1..n : i = Len(d) + k
      <4>1. i - Len(d) \in 1..n /\ i = Len(d) + (i - Len(d))
        BY <1>2, <1>3, <1>6, <1>8, <2>2
      <4>2. QED
        BY <4>1
    <3>2. down'[p][i] = r[k]
      BY <1>6, <1>8, <3>1
    <3>3. Len(r) = 2 /\ k = 1
      <4>1. /\ Len(d) + Half(p) \in Int
            /\ (Len(d) + Half(p)) + Len(r) = Len(d) + Half(p) + Len(r)
            /\ (Len(d) + Half(p)) + k = i + Half(p)
        BY <1>2, <1>9, <3>1
      <4>2. ((Len(d) + Half(p)) + Len(r)) % 2 = 0 /\ ((Len(d) + Half(p)) + k) % 2 = 1
        BY <1>10, <1>11, <4>1
      <4>3. Len(r) \in {1, 2} /\ k \in 1..Len(r)
        BY <1>2, <1>3
      <4>4. QED
        BY <4>1, <4>2, <4>3, FirstWord
    <3>4. QED
      BY <3>2, <3>3 DEF StreamOK
  <2>3. QED
    BY <1>2, <2>1, <2>2
<1>12. (Len(down'[p]) + Half(p) + Len(rest'[p])) % 2 = 0
  <2>1. Len(down'[p]) = Len(d) + n /\ Len(rest'[p]) = Len(r) - n
    BY <1>5, <1>6, <1>8
  <2>2. Len(down'[p]) + Half(p) + Len(rest'[p]) = Len(d) + Half(p) + Len(r)
    <3>1. Len(d) \in Nat /\ Len(r) \in Nat /\ n \in Nat /\ Half(p) \in Nat
      BY <1>2, <1>3, <1>9
    <3>2. QED
      BY <2>1, <3>1
  <2>3. QED
    BY <1>10, <2>2
<1>13. /\ Len(rest'[p]) # 2
       /\ holder'[p] # Nobody => Len(rest'[p]) = 1
       /\ holder'[p] = Nobody => rest'[p] = <<>>
  <2>1. Len(rest'[p]) = Len(r) - n
    BY <1>5, <1>8
  <2>2. CASE n = Len(r)
    <3>1. Len(rest'[p]) = 0 /\ rest'[p] \in Seq(Nat)
      BY <1>2, <1>5, <1>8, <2>1, <2>2
    <3>2. rest'[p] = <<>>
      BY <3>1, EmptySeq
    <3>3. holder'[p] = Nobody
      BY <1>1, <2>2 DEF Shape
    <3>4. QED
      BY <3>1, <3>2, <3>3
  <2>3. CASE n # Len(r)
    <3>1. holder' = holder /\ holder[p] # Nobody
      BY <1>1, <2>3
    <3>2. Len(rest'[p]) = 1
      <4>1. Len(r) - n = 1
        BY <1>2, <1>3, <2>3, OneLeft
      <4>2. QED
        BY <2>1, <4>1
    <3>3. QED
      BY <3>1, <3>2
  <2>4. QED
    BY <2>2, <2>3
<1>14. down'[p] \in Seq(Nat) /\ rest'[p] \in Seq(Nat) /\ begun'[p] \in BOOLEAN
  BY <1>1, <1>7 DEF Shape
<1>15. StreamOK(p)'
  BY <1>9, <1>11, <1>12, <1>13, <1>14 DEF StreamOK
<1>16. QED
  BY <1>7, <1>15

\* A player who reads a word is at the other half of a frame.
LEMMA StreamRead ==
    ASSUME Shape, NEW p \in Players, StreamOK(p), Receive(p)
    PROVE  /\ StreamOK(p)'
           /\ down' \in [Players -> Seq(Nat)] /\ begun' \in [Players -> BOOLEAN]
<1> DEFINE d == down[p]
<1>1. /\ d # <<>> /\ down' = [down EXCEPT ![p] = Tail(d)] /\ begun' = [begun EXCEPT ![p] = ~@]
      /\ UNCHANGED <<open, rest, holder>>
  BY DEF Receive, lock
<1>2. d \in Seq(Nat)
  BY DEF StreamOK
<1>3. /\ Tail(d) \in Seq(Nat) /\ Len(Tail(d)) = Len(d) - 1 /\ Len(d) \in Nat /\ Len(d) >= 1
      /\ \A i \in 1..Len(Tail(d)) : Tail(d)[i] = d[i + 1]
  BY <1>1, <1>2, HeadTailProperties, EmptySeq
<1>4. down'[p] = Tail(d) /\ begun'[p] = ~begun[p] /\ begun[p] \in BOOLEAN
  BY <1>1 DEF Shape
<1>5. Half(p) \in {0, 1} /\ Half(p)' = 1 - Half(p)
  <2>1. CASE begun[p]
    <3>1. Half(p) = 1
      BY <2>1 DEF Half
    <3>2. ~begun'[p]
      BY <1>4, <2>1, Zenon
    <3>3. Half(p)' = 0
      BY <3>2 DEF Half
    <3>4. QED
      BY <3>1, <3>3
  <2>2. CASE ~begun[p]
    <3>1. Half(p) = 0
      BY <2>2 DEF Half
    <3>2. begun'[p]
      BY <1>4, <2>2, Zenon
    <3>3. Half(p)' = 1
      BY <3>2 DEF Half
    <3>4. QED
      BY <3>1, <3>3
  <2>3. QED
    BY <2>1, <2>2, Zenon
<1>6. ASSUME NEW i \in 1..Len(down'[p]), (i + Half(p)') % 2 = 1
      PROVE  down'[p][i] = FrameHeaderSize
  <2>1. i \in 1..Len(Tail(d)) /\ i \in Int /\ i + 1 \in 1..Len(d)
    BY <1>3, <1>4
  <2>2. ((i + 1) + Half(p)) % 2 = 1
    <3>1. (i + 2) % 2 = i % 2
      BY <2>1, Parity
    <3>2. CASE Half(p) = 0
      BY <1>5, <1>6, <2>1, <3>2
    <3>3. CASE Half(p) = 1
      <4>1. (i + 1) + Half(p) = i + 2 /\ i + Half(p)' = i
        BY <1>5, <2>1, <3>3
      <4>2. QED
        BY <1>6, <3>1, <4>1
    <3>4. QED
      BY <1>5, <3>2, <3>3
  <2>3. QED
    BY <1>3, <1>4, <2>1, <2>2 DEF StreamOK
<1>7. open[p] => (Len(down'[p]) + Half(p)' + Len(rest'[p])) % 2 = 0
  <2>1. Len(rest[p]) \in Nat
    BY DEF StreamOK
  <2>2. open[p] => (Len(d) + Half(p) + Len(rest[p])) % 2 = 0
    BY DEF StreamOK
  <2>3. Len(down'[p]) = Len(d) - 1 /\ rest'[p] = rest[p]
    BY <1>1, <1>3, <1>4
  <2>4. CASE Half(p) = 0
    <3>1. Half(p)' = 1
      BY <1>5, <2>4
    <3>2. Len(d) - 1 + 1 + Len(rest[p]) = Len(d) + 0 + Len(rest[p])
      BY <1>3, <2>1
    <3>3. QED
      BY <2>2, <2>3, <2>4, <3>1, <3>2
  <2>5. CASE Half(p) = 1
    <3>1. Half(p)' = 0
      BY <1>5, <2>5
    <3>2. open[p] => (Len(d) + 1 + Len(rest[p])) % 2 = 0
      BY <2>2, <2>5
    <3>3. open[p] => (Len(d) - 1 + 0 + Len(rest[p])) % 2 = 0
      BY <1>3, <2>1, <3>2, OtherHalf
    <3>4. QED
      BY <2>3, <3>1, <3>3
  <2>6. QED
    BY <1>5, <2>4, <2>5
<1>8. StreamOK(p)'
  BY <1>1, <1>3, <1>4, <1>6, <1>7 DEF StreamOK
<1>9. QED
  BY <1>1, <1>3, <1>8 DEF Shape

-----------------------------------------------------------------------------
LEMMA StreamInit == Init => StreamInv
<1> SUFFICES ASSUME Init PROVE StreamInv
  OBVIOUS
<1>1. MaxTicks \in Nat /\ <<>> \in Seq(Nat) /\ Len(<<>>) = 0
  BY WireAssumption
<1>2. Shape
  BY <1>1 DEF Init, Shape
<1>3. ASSUME NEW p \in Players PROVE StreamOK(p)
  <2>1. down[p] = <<>> /\ rest[p] = <<>> /\ begun[p] = FALSE /\ holder[p] = Nobody
    BY DEF Init
  <2>2. Half(p) = 0 /\ Len(down[p]) = 0 /\ Len(rest[p]) = 0
    BY <1>1, <2>1 DEF Half
  <2>3. (Len(down[p]) + Half(p) + Len(rest[p])) % 2 = 0
    BY <2>2
  <2>4. \A i \in 1..Len(down[p]) : (i + Half(p)) % 2 = 1 => down[p][i] = FrameHeaderSize
    BY <2>2
  <2>5. down[p] \in Seq(Nat) /\ rest[p] \in Seq(Nat) /\ begun[p] \in BOOLEAN
    BY <1>1, <2>1
  <2>6. (Len(rest[p]) = 2 => rest[p][1] = FrameHeaderSize)
        /\ ~(holder[p] # Nobody) /\ rest[p] = <<>>
    BY <2>1, <2>2
  <2>7. QED
    BY <2>3, <2>4, <2>5, <2>6 DEF StreamOK
<1>4. QED
  BY <1>2, <1>3 DEF StreamInv

LEMMA StreamStep == StreamInv /\ [Next]_vars => StreamInv'
<1> SUFFICES ASSUME StreamInv, [Next]_vars PROVE StreamInv'
  OBVIOUS
<1>0. MaxTicks \in Nat /\ SocketSize \in Nat
  BY WireAssumption
<1>1. CASE Tick \/ PushReturns \/ PushTimesOut \/ UNCHANGED vars
  <2>1. UNCHANGED <<open, down, begun, rest, holder, waiting>>
    BY <1>1 DEF Tick, PushReturns, PushTimesOut, vars, lock, client
  <2>2. tick' \in 0..MaxTicks /\ (todo' # {} => tick' >= 1)
    BY <1>0, <1>1 DEF Tick, PushReturns, PushTimesOut, vars, game, StreamInv, Shape
  <2>3. \A p \in Players : Same(p) /\ open'[p] = open[p]
    BY <2>1 DEF Same
  <2>4. QED
    BY <2>1, <2>2, <2>3, StreamKept DEF StreamInv, Shape
<1>2. ASSUME NEW q \in Players,
             Push(q) \/ PushFails(q) \/ Read(q) \/ Scan(q) \/ Send(q) \/ Stall(q) \/ FallSilent(q)
      PROVE  StreamInv'
  <2>1. UNCHANGED <<open, down, begun, rest, holder, tick>>
    BY <1>2 DEF Push, PushFails, Handler, Read, Scan, Send, Stall, FallSilent, lock, client, game
  <2>2. waiting' \in [Players -> SUBSET Writers]
    <3>1. waiting \in [Players -> SUBSET Writers] /\ Kick \in Writers
          /\ (todo # {} => tick \in Writers)
      BY <1>0 DEF StreamInv, Shape, Writers, Kick
    <3>2. CASE Push(q)
      BY <3>1, <3>2 DEF Push, Handler
    <3>3. CASE Scan(q)
      BY <3>1, <3>3 DEF Scan
    <3>4. CASE PushFails(q) \/ Read(q) \/ Send(q) \/ Stall(q) \/ FallSilent(q)
      BY <3>1, <3>4 DEF PushFails, Read, Send, Stall, FallSilent, lock
    <3>5. QED
      BY <1>2, <3>2, <3>3, <3>4
  <2>3. todo' \subseteq todo
    BY <1>2 DEF Push, PushFails, Read, Scan, Send, Stall, FallSilent, game
  <2>4. \A p \in Players : Same(p) /\ open'[p] = open[p]
    BY <2>1 DEF Same
  <2>5. QED
    BY <2>1, <2>2, <2>3, <2>4, StreamKept DEF StreamInv, Shape
<1>3. CASE ScanCloses \/ \E q \in Players : Decode(q)
  <2>1. UNCHANGED <<down, begun, rest, holder, tick, todo>>
    BY <1>3 DEF ScanCloses, Decode, Close, lock, client, game
  <2>2. waiting' \in [Players -> SUBSET Writers]
    <3>1. waiting \in [Players -> SUBSET Writers] /\ Pong \in Writers
      BY <1>0 DEF StreamInv, Shape, Writers, Pong
    <3>2. waiting' = waiting \/ \E q : waiting' = [waiting EXCEPT ![q] = @ \cup {Pong}]
      BY <1>3 DEF ScanCloses, Decode, lock
    <3>3. QED
      BY <3>1, <3>2
  <2>3. open' = open \/ \E q : open' = [open EXCEPT ![q] = FALSE]
    BY <1>3 DEF ScanCloses, Decode, Close
  <2>4. open' \in [Players -> BOOLEAN] /\ \A p \in Players : open'[p] => open[p]
    BY <2>3 DEF StreamInv, Shape
  <2>5. \A p \in Players : Same(p)
    BY <2>1 DEF Same
  <2>6. QED
    BY <2>1, <2>2, <2>4, <2>5, StreamKept DEF StreamInv, Shape
<1>4. ASSUME NEW q \in Players, Lock(q) PROVE StreamInv'
  <2>1. StreamOK(q)' /\ rest' \in [Players -> Seq(Nat)]
    BY <1>0, <1>4, StreamLocked DEF StreamInv
  <2>2. /\ UNCHANGED <<open, down, begun, tick, todo>>
        /\ holder' \in [Players -> Writers \cup {Nobody}] /\ waiting' \in [Players -> SUBSET Writers]
    BY <1>4 DEF Lock, StreamInv, Shape, game, client
  <2>3. ASSUME NEW p \in Players \ {q} PROVE Same(p) /\ open'[p] = open[p]
    BY <1>4 DEF Lock, StreamInv, Shape, Same, client
  <2>4. QED
    BY <2>1, <2>2, <2>3, StreamKept DEF StreamInv, Shape
<1>5. ASSUME NEW q \in Players, Write(q) PROVE StreamInv'
  <2>1. StreamOK(q)' /\ down' \in [Players -> Seq(Nat)] /\ rest' \in [Players -> Seq(Nat)]
    BY <1>0, <1>5, StreamWritten DEF StreamInv
  <2>2. /\ UNCHANGED <<open, begun, tick, todo, waiting>>
        /\ holder' \in [Players -> Writers \cup {Nobody}]
    BY <1>5 DEF Write, Unlock, StreamInv, Shape, game, client
  <2>3. ASSUME NEW p \in Players \ {q} PROVE Same(p) /\ open'[p] = open[p]
    BY <1>5 DEF Write, Unlock, StreamInv, Shape, Same, client
  <2>4. QED
    BY <2>1, <2>2, <2>3, StreamKept DEF StreamInv, Shape
<1>6. ASSUME NEW q \in Players, WriteFails(q) PROVE StreamInv'
  <2>1. /\ ~open[q] /\ UNCHANGED <<open, down, begun, tick, todo, waiting>>
        /\ holder' = [holder EXCEPT ![q] = Nobody] /\ rest' = [rest EXCEPT ![q] = <<>>]
    BY <1>6 DEF WriteFails, Unlock, game, client
  <2>2. holder' \in [Players -> Writers \cup {Nobody}] /\ rest' \in [Players -> Seq(Nat)]
    BY <2>1 DEF StreamInv, Shape
  <2>3. StreamOK(q)'
    <3>1. rest'[q] = <<>> /\ holder'[q] = Nobody /\ ~open'[q]
      BY <2>1 DEF StreamInv, Shape
    <3>2. Len(<<>>) = 0 /\ <<>> \in Seq(Nat)
      OBVIOUS
    <3>3. Half(q)' = Half(q) /\ down'[q] = down[q] /\ begun'[q] = begun[q]
      BY <2>1 DEF Half
    <3>4. StreamOK(q)
      BY DEF StreamInv
    <3>5. QED
      BY <3>1, <3>2, <3>3, <3>4 DEF StreamOK
  <2>4. ASSUME NEW p \in Players \ {q} PROVE Same(p) /\ open'[p] = open[p]
    BY <2>1 DEF StreamInv, Shape, Same
  <2>5. QED
    BY <2>1, <2>2, <2>3, <2>4, StreamKept DEF StreamInv, Shape
<1>7. ASSUME NEW q \in Players, Receive(q) PROVE StreamInv'
  <2>1. StreamOK(q)' /\ down' \in [Players -> Seq(Nat)] /\ begun' \in [Players -> BOOLEAN]
    BY <1>7, StreamRead DEF StreamInv
  <2>2. UNCHANGED <<open, rest, holder, waiting, tick, todo>>
    BY <1>7 DEF Receive, lock, game
  <2>3. ASSUME NEW p \in Players \ {q} PROVE Same(p) /\ open'[p] = open[p]
    BY <1>7 DEF Receive, lock, StreamInv, Shape, Same
  <2>4. QED
    BY <2>1, <2>2, <2>3, StreamKept DEF StreamInv, Shape
<1>8. QED
  BY <1>1, <1>2, <1>3, <1>4, <1>5, <1>6, <1>7 DEF Next

\* Several goroutines write to a connection, a full socket cuts a frame anywhere
\* and a connection is closed in the middle of one: a player reads whole frames, one
\* after the other, as far as he gets (send under writeMu, Conn.Write).
THEOREM FramesWhole == Spec => []FramesIntact
<1>1. StreamInv => FramesIntact
  <2> SUFFICES ASSUME StreamInv, NEW p \in Players, down[p] # <<>>, ~begun[p]
               PROVE  down[p][1] = FrameHeaderSize
    BY DEF FramesIntact
  <2>1. down[p] \in Seq(Nat)
    BY DEF StreamInv, Shape
  <2>2. 1 \in 1..Len(down[p])
    BY <2>1, EmptySeq
  <2>3. (1 + Half(p)) % 2 = 1
    BY DEF Half
  <2>4. QED
    BY <2>2, <2>3 DEF StreamInv, StreamOK
<1>2. QED
  BY <1>1, StreamInit, StreamStep, PTL DEF Spec

-----------------------------------------------------------------------------
\* The invariant behind HeardAsSent.  The words s of a client that the gateway has
\* not taken out are those of his beats bs after the first m, each at its place: beat i
\* ends at pos[i].
Places(s, bs, m, pos) ==
    /\ pos[m] = 0 /\ pos[Len(bs)] = Len(s)
    /\ \A i, j \in m..Len(bs) : i <= j => pos[i] <= pos[j]
    /\ \A i \in (m + 1)..Len(bs) :
         /\ pos[i] = pos[i - 1] + Len(Words(bs[i]))
         /\ \A j \in 1..Len(Words(bs[i])) : s[pos[i - 1] + j] = Words(bs[i])[j]

LaidOut(s, bs, m) == \E pos \in [m..Len(bs) -> 0..Len(s)] : Places(s, bs, m, pos)

HeardOK(p) ==
    /\ Len(beats[p]) <= MaxBeats /\ Len(heard[p]) <= Len(beats[p])
    /\ \A i \in 1..Len(heard[p]) : heard[p][i] = beats[p][i]
    /\ LaidOut(buf[p] \o up[p], beats[p], Len(heard[p]))
    /\ reader[p] = "read" => TryDecodeFrame(buf[p]) = NeedMore

HeardShape ==
    /\ buf \in [Players -> Seq(Nat)] /\ up \in [Players -> Seq(Nat)]
    /\ beats \in [Players -> Seq(Frames \cup {Illegal})] /\ heard \in [Players -> Seq(Frames)]
    /\ reader \in [Players -> {"read", "decode", "pong", "ended"}]

HeardInv == HeardShape /\ \A p \in Players : HeardOK(p)

-----------------------------------------------------------------------------
\* The parts of a concatenation.
LEMMA ConcatParts ==
    ASSUME NEW r \in Seq(Nat), NEW t \in Seq(Nat)
    PROVE  /\ \A i \in 1..Len(r) : (r \o t)[i] = r[i]
           /\ \A j \in 1..Len(t) : (r \o t)[Len(r) + j] = t[j]
<1>1. Len(r) \in Nat /\ Len(t) \in Nat
  OBVIOUS
<1>2. ASSUME NEW i \in 1..Len(r) + Len(t)
      PROVE  (r \o t)[i] = IF i <= Len(r) THEN r[i] ELSE t[i - Len(r)]
  BY ConcatProperties
<1>3. ASSUME NEW j \in 1..Len(t) PROVE (r \o t)[Len(r) + j] = t[j]
  <2>1. Len(r) + j \in 1..Len(r) + Len(t) /\ ~(Len(r) + j <= Len(r)) /\ Len(r) + j - Len(r) = j
    BY <1>1
  <2>2. QED
    BY <1>2, <2>1
<1>4. QED
  BY <1>1, <1>2, <1>3

LEMMA Shifted ==
    ASSUME NEW L \in Nat, NEW T \in Nat, NEW k \in Nat, NEW x \in L..(L + T),
           x + k \in L..(L + T), NEW j \in 1..k
    PROVE  x - L + j \in 1..T /\ L + (x - L + j) = x + j
OBVIOUS

\* Two words in front of others.
LEMMA TwoInFront ==
    ASSUME NEW a \in Nat, NEW c \in Nat, NEW t \in Seq(Nat)
    PROVE  /\ <<a, c>> \o t \in Seq(Nat) /\ Len(<<a, c>> \o t) = 2 + Len(t)
           /\ (<<a, c>> \o t)[1] = a /\ (<<a, c>> \o t)[2] = c
           /\ \A j \in 1..Len(t) : (<<a, c>> \o t)[2 + j] = t[j]
<1> DEFINE h == <<a, c>>
<1>1. h \in Seq(Nat) /\ Len(h) = 2 /\ h[1] = a /\ h[2] = c
  OBVIOUS
<1> HIDE DEF h
<1>2. Len(t) \in Nat
  OBVIOUS
<1>3. /\ h \o t \in Seq(Nat) /\ Len(h \o t) = Len(h) + Len(t)
      /\ \A i \in 1..Len(h) + Len(t) : (h \o t)[i] = IF i <= Len(h) THEN h[i] ELSE t[i - Len(h)]
  BY <1>1, ConcatProperties
<1>4. (h \o t)[1] = h[1] /\ (h \o t)[2] = h[2]
  BY <1>1, <1>2, <1>3
<1>5. ASSUME NEW j \in 1..Len(t) PROVE (h \o t)[2 + j] = t[j]
  <2>1. 2 + j \in 1..Len(h) + Len(t) /\ ~(2 + j <= Len(h)) /\ 2 + j - Len(h) = j
    BY <1>1, <1>2
  <2>2. QED
    BY <1>3, <2>1
<1>6. QED
  BY <1>1, <1>3, <1>4, <1>5 DEF h

\* The words of a frame, and of an illegal length.
LEMMA WordsOfFrame ==
    ASSUME NEW f \in Frames
    PROVE  /\ f = Frame(f.msg, f.body) /\ f.kind = "frame" /\ f # Illegal /\ f.body \in Seq(Nat)
           /\ FrameHeaderSize + Len(f.body) <= MaxFrameSize
           /\ Words(f) \in Seq(Nat) /\ Len(Words(f)) = FrameHeaderSize + Len(f.body)
           /\ Words(f)[1] = FrameHeaderSize + Len(f.body) /\ Words(f)[2] = f.msg
           /\ \A j \in 1..Len(f.body) : Words(f)[FrameHeaderSize + j] = f.body[j]
<1>1. /\ f = Frame(f.msg, f.body) /\ f.msg \in Nat /\ f.body \in Seq(Nat)
      /\ FrameHeaderSize + Len(f.body) <= MaxFrameSize
  BY WireAssumption
<1>2. f.kind = "frame"
  BY <1>1 DEF Frame
<1>3. f # Illegal
  BY <1>2 DEF Illegal
<1>4. FrameHeaderSize + Len(f.body) \in Nat
  BY <1>1 DEF FrameHeaderSize
<1>5. Words(f) = <<FrameHeaderSize + Len(f.body), f.msg>> \o f.body
  BY <1>3 DEF Words, EncodeFrame
<1>6. FrameHeaderSize = 2
  BY DEF FrameHeaderSize
<1>7. QED
  BY <1>1, <1>2, <1>3, <1>4, <1>5, <1>6, TwoInFront

LEMMA WordsOfIllegal ==
    /\ Words(Illegal) \in Seq(Nat) /\ Len(Words(Illegal)) = 2
    /\ Words(Illegal)[1] = FrameHeaderSize - 1
BY DEF Words, FrameHeaderSize

LEMMA WordsType ==
    ASSUME NEW beat \in Frames \cup {Illegal}
    PROVE  Words(beat) \in Seq(Nat) /\ Len(Words(beat)) \in Nat /\ Len(Words(beat)) >= 2
<1>1. CASE beat = Illegal
  BY <1>1, WordsOfIllegal
<1>2. CASE beat \in Frames
  BY <1>2, WordsOfFrame DEF FrameHeaderSize
<1>3. QED
  BY <1>1, <1>2

\* A buffer that begins with part of a beat: a frame that is taken out of it is that beat.
LEMMA DecodeFirst ==
    ASSUME NEW b \in Seq(Nat), NEW u \in Seq(Nat), NEW beat \in Frames \cup {Illegal},
           Len(Words(beat)) <= Len(b \o u),
           \A j \in 1..Len(Words(beat)) : (b \o u)[j] = Words(beat)[j],
           TryDecodeFrame(b).kind = "frame"
    PROVE  beat \in Frames /\ TryDecodeFrame(b) = beat /\ Len(Words(beat)) <= Len(b)
<1> DEFINE w == Words(beat)
<1>1. w \in Seq(Nat) /\ Len(w) \in Nat /\ Len(w) >= 2
  BY WordsType
<1>2. /\ NeedMore.kind # "frame" /\ Illegal.kind # "frame"
  BY DEF NeedMore, Illegal
<1>3. /\ ~(Len(b) < FrameHeaderSize) /\ ~(b[1] < FrameHeaderSize \/ b[1] > MaxFrameSize)
      /\ ~(Len(b) < b[1])
      /\ TryDecodeFrame(b) = Frame(b[2], SubSeq(b, FrameHeaderSize + 1, b[1]))
  BY <1>2 DEF TryDecodeFrame
<1>4. Len(b) \in Nat /\ Len(b) >= 2 /\ \A i \in 1..Len(b) : (b \o u)[i] = b[i]
  BY <1>3, ConcatProperties DEF FrameHeaderSize
<1>5. b[1] = w[1] /\ b[2] = w[2]
  BY <1>1, <1>4
<1>6. beat # Illegal
  <2>1. CASE beat = Illegal
    BY <1>3, <1>5, <2>1, WordsOfIllegal DEF FrameHeaderSize
  <2>2. QED
    BY <2>1
<1>7. /\ beat \in Frames /\ beat = Frame(beat.msg, beat.body) /\ beat.body \in Seq(Nat)
      /\ w[1] = 2 + Len(beat.body) /\ w[2] = beat.msg /\ Len(w) = 2 + Len(beat.body)
      /\ \A j \in 1..Len(beat.body) : w[2 + j] = beat.body[j]
  BY <1>6, WordsOfFrame DEF FrameHeaderSize
<1>8. Len(w) <= Len(b) /\ b[1] = Len(w) /\ b[1] \in Nat
  BY <1>1, <1>3, <1>4, <1>5, <1>7
<1>9. SubSeq(b, 3, b[1]) = beat.body
  <2> DEFINE s == SubSeq(b, 3, b[1])
  <2>1. s \in Seq(Nat) /\ Len(s) = Len(beat.body) /\ \A j \in 1..Len(s) : s[j] = b[2 + j]
    <3>1. Len(beat.body) \in Nat /\ b[1] = 2 + Len(beat.body)
      BY <1>7, <1>8
    <3>2. CASE Len(beat.body) = 0
      <4>1. SubSeq(b, 3, 2) = <<>>
        BY SubSeqProperties
      <4>2. QED
        BY <3>1, <3>2, <4>1
    <3>3. CASE Len(beat.body) >= 1
      <4>1. 3 \in 1..Len(b) /\ b[1] \in 3..Len(b) /\ b[1] \in 1..Len(b)
        BY <1>4, <1>8, <3>1, <3>3
      <4>2. /\ SubSeq(b, 3, b[1]) \in Seq(Nat) /\ Len(SubSeq(b, 3, b[1])) = b[1] - 3 + 1
            /\ \A j \in 1..(b[1] - 3 + 1) : SubSeq(b, 3, b[1])[j] = b[3 + j - 1]
        BY <1>4, <4>1, SubSeqProperties
      <4>3. \A j \in 1..Len(s) : 3 + j - 1 = 2 + j
        OBVIOUS
      <4>4. QED
        BY <3>1, <4>2, <4>3
    <3>4. QED
      BY <3>1, <3>2, <3>3
  <2> HIDE DEF s
  <2>2. \A j \in 1..Len(s) : s[j] = beat.body[j]
    <3> TAKE j \in 1..Len(s)
    <3> DEFINE l == Len(beat.body)
    <3>0. l \in Nat /\ Len(s) = l /\ Len(w) = 2 + l /\ Len(w) <= Len(b) /\ Len(b) \in Nat
      BY <1>4, <1>7, <1>8, <2>1
    <3> HIDE DEF l
    <3>1. j \in 1..l /\ 2 + j \in 1..Len(w) /\ 2 + j \in 1..Len(b)
      BY <3>0
    <3>2. s[j] = b[2 + j] /\ b[2 + j] = (b \o u)[2 + j] /\ (b \o u)[2 + j] = w[2 + j]
      BY <1>4, <2>1, <3>1
    <3>3. QED
      BY <1>7, <3>1, <3>2 DEF l
  <2>3. s = beat.body
    BY <1>7, <2>1, <2>2, SeqEqual
  <2>4. QED
    BY <2>3 DEF s
<1>10. TryDecodeFrame(b) = Frame(beat.msg, beat.body)
  <2>1. FrameHeaderSize + 1 = 3
    BY DEF FrameHeaderSize
  <2>2. TryDecodeFrame(b) = Frame(b[2], SubSeq(b, 3, b[1]))
    BY <1>3, <2>1
  <2>3. QED
    BY <1>5, <1>7, <1>9, <2>2
<1>11. QED
  BY <1>7, <1>8, <1>10

\* The first beat that is not taken out begins the stream; after the last one it is empty.
LEMMA LaidFront ==
    ASSUME NEW s \in Seq(Nat), NEW bs \in Seq(Frames \cup {Illegal}), NEW m \in 0..Len(bs),
           LaidOut(s, bs, m)
    PROVE  /\ m = Len(bs) => Len(s) = 0
           /\ m < Len(bs) => /\ Len(Words(bs[m + 1])) <= Len(s)
                             /\ \A j \in 1..Len(Words(bs[m + 1])) : s[j] = Words(bs[m + 1])[j]
<1>1. PICK pos \in [m..Len(bs) -> 0..Len(s)] : Places(s, bs, m, pos)
  BY DEF LaidOut
<1>2. m = Len(bs) => Len(s) = 0
  BY <1>1 DEF Places
<1>3. ASSUME m < Len(bs)
      PROVE  /\ Len(Words(bs[m + 1])) <= Len(s)
             /\ \A j \in 1..Len(Words(bs[m + 1])) : s[j] = Words(bs[m + 1])[j]
  <2>1. Len(bs) \in Nat /\ m \in Nat /\ m + 1 \in (m + 1)..Len(bs) /\ m + 1 - 1 = m /\ pos[m] = 0
    BY <1>1, <1>3 DEF Places
  <2>a. \A i \in (m + 1)..Len(bs) :
           /\ pos[i] = pos[i - 1] + Len(Words(bs[i]))
           /\ \A j \in 1..Len(Words(bs[i])) : s[pos[i - 1] + j] = Words(bs[i])[j]
    BY <1>1 DEF Places
  <2>b. /\ pos[m + 1] = pos[m + 1 - 1] + Len(Words(bs[m + 1]))
        /\ \A j \in 1..Len(Words(bs[m + 1])) : s[pos[m + 1 - 1] + j] = Words(bs[m + 1])[j]
    BY <2>1, <2>a
  <2>2. /\ pos[m + 1] = pos[m] + Len(Words(bs[m + 1]))
        /\ \A j \in 1..Len(Words(bs[m + 1])) : s[pos[m] + j] = Words(bs[m + 1])[j]
    BY <2>1, <2>b
  <2>3. m + 1 \in m..Len(bs) /\ pos[m + 1] \in 0..Len(s)
    BY <1>1, <2>1
  <2>4. bs[m + 1] \in Frames \cup {Illegal}
    BY <2>1
  <2>5. Len(Words(bs[m + 1])) \in Nat
    BY <2>4, WordsType
  <2>6. pos[m + 1] = Len(Words(bs[m + 1]))
    BY <2>1, <2>2, <2>5
  <2>7. \A j \in 1..Len(Words(bs[m + 1])) : 0 + j = j
    BY <2>5
  <2>8. QED
    BY <2>1, <2>2, <2>3, <2>5, <2>6, <2>7
<1>4. QED
  BY <1>2, <1>3

\* A client that sends appends to the stream.
LEMMA LaidMore ==
    ASSUME NEW s \in Seq(Nat), NEW bs \in Seq(Frames \cup {Illegal}), NEW m \in 0..Len(bs),
           LaidOut(s, bs, m), NEW beat \in Frames \cup {Illegal}
    PROVE  LaidOut(s \o Words(beat), Append(bs, beat), m)
<1>a. PICK w, n, cs, t, L, S : /\ w = Words(beat) /\ n = Len(bs) /\ cs = Append(bs, beat)
                               /\ t = s \o w /\ L = Len(w) /\ S = Len(s)
  OBVIOUS
<1>1. PICK pos \in [m..n -> 0..S] : Places(s, bs, m, pos)
  BY <1>a DEF LaidOut
<1>2. w \in Seq(Nat) /\ L \in Nat /\ S \in Nat /\ n \in Nat /\ m \in Nat /\ m <= n
  BY <1>a, WordsType
<1>3. /\ Len(cs) = n + 1 /\ cs[n + 1] = beat /\ \A i \in 1..n : cs[i] = bs[i]
  BY <1>a, AppendProperties
<1>4. /\ t \in Seq(Nat) /\ Len(t) = S + L
      /\ \A i \in 1..S + L : t[i] = IF i <= S THEN s[i] ELSE w[i - S]
  BY <1>a, <1>2, ConcatProperties
<1>5. /\ pos[m] = 0 /\ pos[n] = S
      /\ \A i, j \in m..n : i <= j => pos[i] <= pos[j]
      /\ \A i \in (m + 1)..n :
           /\ pos[i] = pos[i - 1] + Len(Words(bs[i]))
           /\ \A j \in 1..Len(Words(bs[i])) : s[pos[i - 1] + j] = Words(bs[i])[j]
  BY <1>1, <1>a DEF Places
<1>15. \A i \in (m + 1)..n : Len(Words(bs[i])) \in Nat
  <2> TAKE i \in (m + 1)..n
  <2>1. i \in 1..n /\ bs[i] \in Frames \cup {Illegal}
    BY <1>2, <1>a
  <2>2. QED
    BY <2>1, WordsType
<1>b. PICK nxt : nxt = [i \in m..(n + 1) |-> IF i = n + 1 THEN S + L ELSE pos[i]]
  OBVIOUS
<1>6. \A i \in m..n : pos[i] \in 0..S /\ nxt[i] = pos[i]
  BY <1>1, <1>2, <1>b
<1>7. nxt[n + 1] = S + L
  BY <1>2, <1>b
<1>8. nxt \in [m..(n + 1) -> 0..(S + L)]
  <2> SUFFICES ASSUME NEW i \in m..(n + 1)
               PROVE  (IF i = n + 1 THEN S + L ELSE pos[i]) \in 0..(S + L)
    BY <1>b
  <2>1. CASE i = n + 1
    BY <1>2, <2>1
  <2>2. CASE i # n + 1
    <3>1. i \in m..n
      BY <1>2, <2>2
    <3>2. QED
      BY <1>2, <1>6, <2>2, <3>1
  <2>3. QED
    BY <2>1, <2>2
<1>9. nxt[m] = 0 /\ nxt[n + 1] = S + L
  BY <1>2, <1>5, <1>6, <1>7
<1>10. ASSUME NEW i \in m..(n + 1), NEW j \in m..(n + 1), i <= j PROVE nxt[i] <= nxt[j]
  <2>1. CASE j = n + 1
    <3>1. nxt[i] \in 0..(S + L)
      BY <1>8
    <3>2. QED
      BY <1>2, <1>7, <2>1, <3>1
  <2>2. CASE j # n + 1
    <3>1. i \in m..n /\ j \in m..n
      BY <1>2, <1>10, <2>2
    <3>2. QED
      BY <1>5, <1>6, <1>10, <3>1
  <2>3. QED
    BY <2>1, <2>2
<1>11. ASSUME NEW i \in (m + 1)..(n + 1)
       PROVE  /\ nxt[i] = nxt[i - 1] + Len(Words(cs[i]))
              /\ \A j \in 1..Len(Words(cs[i])) : t[nxt[i - 1] + j] = Words(cs[i])[j]
  <2>1. CASE i = n + 1
    <3>1. i - 1 = n /\ n \in m..n /\ Words(cs[i]) = w
      BY <1>2, <1>3, <1>a, <2>1
    <3>2. nxt[i - 1] = S /\ nxt[i] = S + L /\ Len(w) = L
      BY <1>5, <1>6, <1>7, <1>a, <2>1, <3>1
    <3>3. ASSUME NEW j \in 1..L PROVE t[S + j] = w[j]
      BY <1>2, <1>a, ConcatParts
    <3>4. QED
      BY <3>1, <3>2, <3>3
  <2>2. CASE i # n + 1
    <3>1. i \in (m + 1)..n /\ i \in m..n /\ i - 1 \in m..n /\ i \in 1..n
      BY <1>2, <2>2
    <3>2. cs[i] = bs[i] /\ nxt[i] = pos[i] /\ nxt[i - 1] = pos[i - 1]
      BY <1>3, <1>6, <3>1
    <3>3. ASSUME NEW j \in 1..Len(Words(bs[i])) PROVE t[pos[i - 1] + j] = Words(bs[i])[j]
      <4>a. PICK k : k = Len(Words(bs[i]))
        OBVIOUS
      <4>1. pos[i] = pos[i - 1] + k /\ pos[i] \in 0..S /\ pos[i - 1] \in 0..S /\ k \in Nat
        BY <1>5, <1>6, <1>15, <3>1, <4>a
      <4>2. j \in 1..k
        BY <3>3, <4>a
      <4>3. pos[i - 1] + j \in 1..(S + L) /\ pos[i - 1] + j <= S
        <5>1. PICK a : a = pos[i - 1]
          OBVIOUS
        <5>2. \A x, y, z, u, v \in Nat :
                1 <= z /\ z <= y /\ x + y <= u => x + z \in 1..(u + v) /\ x + z <= u
          OBVIOUS
        <5>3. a \in Nat /\ k \in Nat /\ j \in Nat /\ S \in Nat /\ L \in Nat
          BY <1>2, <4>1, <4>2, <5>1
        <5>4. 1 <= j /\ j <= k /\ a + k <= S
          BY <1>2, <4>1, <4>2, <5>1
        <5> QED BY <5>1, <5>2, <5>3, <5>4
      <4>4. t[pos[i - 1] + j] = s[pos[i - 1] + j]
        BY <1>4, <4>3
      <4>5. QED
        BY <1>5, <3>1, <3>3, <4>4
    <3>4. QED
      BY <1>5, <3>1, <3>2, <3>3
  <2>3. QED
    BY <2>1, <2>2
<1>12. Places(t, cs, m, nxt)
  <2>1. Len(cs) = n + 1 /\ Len(t) = S + L
    BY <1>3, <1>4
  <2>2. \A i, j \in m..(n + 1) : i <= j => nxt[i] <= nxt[j]
    BY <1>10
  <2>3. \A i \in (m + 1)..(n + 1) :
          /\ nxt[i] = nxt[i - 1] + Len(Words(cs[i]))
          /\ \A j \in 1..Len(Words(cs[i])) : t[nxt[i - 1] + j] = Words(cs[i])[j]
    BY <1>11
  <2>4. QED
    BY <1>9, <2>1, <2>2, <2>3 DEF Places
<1>13. LaidOut(t, cs, m)
  BY <1>3, <1>4, <1>8, <1>12, <1>a DEF LaidOut
<1>14. QED
  BY <1>13, <1>a

\* The gateway takes the first beat out.
LEMMA LaidCut ==
    ASSUME NEW s \in Seq(Nat), NEW bs \in Seq(Frames \cup {Illegal}), NEW m \in 0..Len(bs),
           m < Len(bs), LaidOut(s, bs, m), NEW t \in Seq(Nat),
           Len(s) = Len(Words(bs[m + 1])) + Len(t),
           \A i \in 1..Len(t) : t[i] = s[Len(Words(bs[m + 1])) + i]
    PROVE  LaidOut(t, bs, m + 1)
<1>a. PICK L, n, T : L = Len(Words(bs[m + 1])) /\ n = Len(bs) /\ T = Len(t)
  OBVIOUS
<1>1. PICK pos \in [m..n -> 0..Len(s)] : Places(s, bs, m, pos)
  BY <1>a DEF LaidOut
<1>2. n \in Nat /\ m \in Nat /\ m + 1 <= n /\ T \in Nat /\ Len(s) = L + T
  BY <1>a
<1>3. L \in Nat
  <2>1. bs[m + 1] \in Frames \cup {Illegal}
    BY <1>2, <1>a
  <2>2. QED
    BY <2>1, <1>a, WordsType
<1>4. /\ pos[m] = 0 /\ pos[n] = L + T
      /\ \A i, j \in m..n : i <= j => pos[i] <= pos[j]
      /\ \A i \in (m + 1)..n :
           /\ pos[i] = pos[i - 1] + Len(Words(bs[i]))
           /\ \A j \in 1..Len(Words(bs[i])) : s[pos[i - 1] + j] = Words(bs[i])[j]
  BY <1>1, <1>2, <1>a DEF Places
<1>5. pos[m + 1] = L
  <2>1. m + 1 \in (m + 1)..n /\ m + 1 - 1 = m
    BY <1>2
  <2>2. pos[m + 1] = pos[m + 1 - 1] + Len(Words(bs[m + 1]))
    BY <1>4, <2>1
  <2>3. QED
    BY <1>3, <1>4, <1>a, <2>1, <2>2
<1>14. \A i \in (m + 1)..n : Len(Words(bs[i])) \in Nat
  <2> TAKE i \in (m + 1)..n
  <2>1. i \in 1..n /\ bs[i] \in Frames \cup {Illegal}
    BY <1>2, <1>a
  <2>2. QED
    BY <2>1, WordsType
<1>15. \A i \in 1..T : t[i] = s[L + i]
  BY <1>a
<1>b. PICK nxt : nxt = [i \in (m + 1)..n |-> pos[i] - L]
  OBVIOUS
<1>6. \A i \in (m + 1)..n : pos[i] \in L..(L + T) /\ nxt[i] = pos[i] - L /\ nxt[i] \in 0..T
  <2> TAKE i \in (m + 1)..n
  <2>1. m + 1 \in m..n /\ i \in m..n /\ m + 1 <= i /\ n \in m..n /\ i <= n
    BY <1>2
  <2>2. pos[i] \in 0..Len(s)
    BY <1>1, <2>1
  <2>3. pos[m + 1] <= pos[i] /\ pos[i] <= pos[n]
    BY <1>4, <2>1
  <2>4. pos[i] \in L..(L + T)
    BY <1>2, <1>3, <1>4, <1>5, <2>2, <2>3
  <2>5. nxt[i] = pos[i] - L
    BY <1>b
  <2>6. PICK x : x = pos[i]
    OBVIOUS
  <2>7. \A u, v \in Nat : \A z \in u..(u + v) : z - u \in 0..v
    OBVIOUS
  <2>8. x - L \in 0..T
    BY <1>2, <1>3, <2>4, <2>6, <2>7
  <2>9. QED
    BY <2>4, <2>5, <2>6, <2>8
<1>7. nxt \in [(m + 1)..n -> 0..T]
  BY <1>6, <1>b
<1>8. nxt[m + 1] = 0 /\ nxt[n] = T
  <2>1. m + 1 \in (m + 1)..n /\ n \in (m + 1)..n
    BY <1>2
  <2>2. nxt[m + 1] = pos[m + 1] - L /\ nxt[n] = pos[n] - L
    BY <1>6, <2>1
  <2>3. pos[n] = L + T
    BY <1>4
  <2>4. QED
    BY <1>2, <1>3, <1>5, <2>2, <2>3
<1>9. ASSUME NEW i \in (m + 1)..n, NEW j \in (m + 1)..n, i <= j PROVE nxt[i] <= nxt[j]
  <2>1. i \in m..n /\ j \in m..n
    BY <1>2
  <2>2. pos[i] <= pos[j]
    BY <1>4, <1>9, <2>1
  <2>3. QED
    BY <1>3, <1>6, <2>2
<1>10. ASSUME NEW i \in (m + 2)..n
       PROVE  /\ nxt[i] = nxt[i - 1] + Len(Words(bs[i]))
              /\ \A j \in 1..Len(Words(bs[i])) : t[nxt[i - 1] + j] = Words(bs[i])[j]
  <2>a. PICK k : k = Len(Words(bs[i]))
    OBVIOUS
  <2>1. i \in (m + 1)..n /\ i - 1 \in (m + 1)..n
    BY <1>2
  <2>2. k \in Nat
    BY <1>14, <2>1, <2>a
  <2>3. /\ pos[i] = pos[i - 1] + k
        /\ \A j \in 1..k : s[pos[i - 1] + j] = Words(bs[i])[j]
    BY <1>4, <2>1, <2>a
  <2>4. /\ nxt[i] = pos[i] - L /\ nxt[i - 1] = pos[i - 1] - L
        /\ pos[i] \in L..(L + T) /\ pos[i - 1] \in L..(L + T)
    BY <1>6, <2>1
  <2>5. nxt[i] = nxt[i - 1] + k
    <3>1. PICK x, y : x = pos[i - 1] /\ y = pos[i]
      OBVIOUS
    <3>2. y = x + k /\ nxt[i] = y - L /\ nxt[i - 1] = x - L /\ x \in L..(L + T)
      BY <2>3, <2>4, <3>1
    <3>3. \A u \in L..(L + T) : (u + k) - L = (u - L) + k
      BY <1>2, <1>3, <2>2
    <3>4. QED
      BY <3>2, <3>3
  <2>6. ASSUME NEW j \in 1..k PROVE t[nxt[i - 1] + j] = Words(bs[i])[j]
    <3>a. PICK x, y : x = pos[i - 1] /\ y = pos[i]
      OBVIOUS
    <3>b. y = x + k /\ x \in L..(L + T) /\ y \in L..(L + T) /\ nxt[i - 1] = x - L
      BY <2>3, <2>4, <3>a
    <3>c. x - L + j \in 1..T /\ L + (x - L + j) = x + j
      <4>1. /\ L \in Nat /\ T \in Nat /\ k \in Nat
            /\ x \in L..(L + T) /\ x + k \in L..(L + T)
        <5>1. x + k = y
          BY <3>b
        <5>2. x \in L..(L + T) /\ y \in L..(L + T)
          BY <3>b
        <5>3. x + k \in L..(L + T)
          BY <5>1, <5>2, Zenon
        <5> QED BY <1>2, <1>3, <2>2, <5>2, <5>3, Zenon
      <4>2. QED
        BY <4>1, Shifted
    <3>1. nxt[i - 1] + j \in 1..T /\ L + (nxt[i - 1] + j) = pos[i - 1] + j
      BY <3>a, <3>b, <3>c
    <3>2. t[nxt[i - 1] + j] = s[L + (nxt[i - 1] + j)]
      BY <1>15, <3>1
    <3>3. QED
      BY <2>3, <3>1, <3>2
  <2>7. QED
    BY <2>5, <2>6, <2>a
<1>11. m + 1 + 1 = m + 2
  BY <1>2
<1>12. Places(t, bs, m + 1, nxt)
  BY <1>8, <1>9, <1>10, <1>11, <1>a DEF Places
<1>13. QED
  BY <1>7, <1>12, <1>a DEF LaidOut

-----------------------------------------------------------------------------
LEMMA ConcatAssoc ==
    ASSUME NEW b \in Seq(Nat), NEW u \in Seq(Nat), NEW w \in Seq(Nat)
    PROVE  (b \o u) \o w = b \o (u \o w)
OBVIOUS

LEMMA SumOfParts ==
    ASSUME NEW x \in Nat, NEW y \in Nat, NEW L \in 0..x
    PROVE  x + y = L + (x - L + y)
OBVIOUS

\* A stream in two parts, of which the second or the first is cut.
LEMMA CutSecond ==
    ASSUME NEW b \in Seq(Nat), NEW u \in Seq(Nat), NEW n \in 1..Len(u)
    PROVE  /\ SubSeq(u, 1, n) \in Seq(Nat) /\ SubSeq(u, n + 1, Len(u)) \in Seq(Nat)
           /\ (b \o SubSeq(u, 1, n)) \o SubSeq(u, n + 1, Len(u)) = b \o u
<1>1. SubSeq(u, 1, n) \in Seq(Nat) /\ SubSeq(u, n + 1, Len(u)) \in Seq(Nat)
  BY SubSeqProperties
<1>2. SubSeq(u, 1, n) \o SubSeq(u, n + 1, Len(u)) = SubSeq(u, 1, Len(u))
  <2>1. 1 \in 1..Len(u) + 1 /\ n \in (1 - 1)..Len(u) /\ Len(u) \in n..Len(u)
    OBVIOUS
  <2>2. QED
    BY <2>1, ConcatAdjacentSubSeq
<1>3. SubSeq(u, 1, Len(u)) = u
  BY SubSeqFull
<1>a. PICK v, w : v = SubSeq(u, 1, n) /\ w = SubSeq(u, n + 1, Len(u))
  OBVIOUS
<1>4. (b \o v) \o w = b \o (v \o w)
  BY <1>1, <1>a, ConcatAssoc
<1>5. QED
  BY <1>1, <1>2, <1>3, <1>4, <1>a

LEMMA CutFirst ==
    ASSUME NEW b \in Seq(Nat), NEW u \in Seq(Nat), NEW L \in 0..Len(b)
    PROVE  LET c == SubSeq(b, L + 1, Len(b)) IN
           /\ c \in Seq(Nat) /\ c \o u \in Seq(Nat)
           /\ Len(b \o u) = L + Len(c \o u)
           /\ \A i \in 1..Len(c \o u) : (c \o u)[i] = (b \o u)[L + i]
<1>b. PICK c : c = SubSeq(b, L + 1, Len(b))
  OBVIOUS
<1>1. L \in Nat /\ L <= Len(b) /\ Len(b) \in Nat /\ Len(u) \in Nat
  OBVIOUS
<1>2. c \in Seq(Nat) /\ Len(c) = Len(b) - L /\ \A i \in 1..Len(b) - L : c[i] = b[L + i]
  <2>1. \A i \in (L + 1)..Len(b) : b[i] \in Nat
    BY <1>1
  <2>2. /\ c \in Seq(Nat)
        /\ Len(c) = IF L + 1 <= Len(b) THEN Len(b) - (L + 1) + 1 ELSE 0
        /\ \A i \in 1..Len(b) - (L + 1) + 1 : c[i] = b[L + 1 + i - 1]
    BY <1>1, <1>b, <2>1, SubSeqProperties
  <2>3. Len(b) - (L + 1) + 1 = Len(b) - L /\ \A i \in 1..Len(b) - L : L + 1 + i - 1 = L + i
    BY <1>1
  <2>4. \A i \in 1..Len(b) - L : c[i] = b[L + i]
    BY <2>2, <2>3
  <2>5. Len(c) = Len(b) - L
    BY <1>1, <2>2
  <2>6. QED
    BY <2>2, <2>4, <2>5
<1>3. /\ c \o u \in Seq(Nat) /\ Len(c \o u) = Len(c) + Len(u)
      /\ Len(b \o u) = Len(b) + Len(u)
  BY <1>2, ConcatProperties
<1>4. ASSUME NEW i \in 1..Len(c \o u) PROVE (c \o u)[i] = (b \o u)[L + i]
  <2>1. CASE i <= Len(b) - L
    <3>1. i \in 1..Len(c) /\ i \in 1..Len(b) - L /\ L + i \in 1..Len(b)
      BY <1>1, <1>2, <1>3, <2>1
    <3>2. (c \o u)[i] = c[i] /\ (b \o u)[L + i] = b[L + i]
      BY <1>2, <3>1, ConcatParts
    <3>3. QED
      BY <1>2, <3>1, <3>2
  <2>2. CASE i > Len(b) - L
    <3>1. PICK k \in 1..Len(u) : i = Len(b) - L + k
      <4>1. i - (Len(b) - L) \in 1..Len(u) /\ i = Len(b) - L + (i - (Len(b) - L))
        BY <1>1, <1>2, <1>3, <2>2
      <4>2. QED
        BY <4>1
    <3>2. L + i = Len(b) + k /\ i = Len(c) + k
      BY <1>1, <1>2, <3>1
    <3>3. (c \o u)[Len(c) + k] = u[k] /\ (b \o u)[Len(b) + k] = u[k]
      BY <1>2, ConcatParts
    <3>4. QED
      BY <3>2, <3>3
  <2>3. i \in Int
    BY <1>1, <1>2, <1>3
  <2>4. i <= Len(b) - L \/ i > Len(b) - L
    BY <1>1, <2>3
  <2>5. QED
    BY <2>1, <2>2, <2>4
<1>5. Len(b \o u) = L + Len(c \o u)
  <2>a. PICK x, y : x = Len(b) /\ y = Len(u)
    OBVIOUS
  <2>1. x + y = L + (x - L + y)
    BY <1>1, <2>a, SumOfParts
  <2>2. QED
    BY <1>2, <1>3, <2>1, <2>a
<1>6. QED
  BY <1>2, <1>3, <1>4, <1>5, <1>b

\* What the gateway has heard of one player, and what is still to come, stays.
LEMMA HeardKept ==
    ASSUME NEW p, HeardOK(p), buf'[p] = buf[p], up'[p] = up[p], beats'[p] = beats[p],
           heard'[p] = heard[p], reader'[p] \in {reader[p], "decode", "ended"}
    PROVE  HeardOK(p)'
BY DEF HeardOK

\* A read moves words from the connection to the buffer.
LEMMA ReadKeeps ==
    ASSUME HeardShape, NEW q \in Players, HeardOK(q), Read(q)
    PROVE  HeardShape' /\ HeardOK(q)'
<1>1. PICK n \in 1..Len(up[q]) :
         /\ buf' = [buf EXCEPT ![q] = @ \o SubSeq(up[q], 1, n)]
         /\ up' = [up EXCEPT ![q] = SubSeq(@, n + 1, Len(@))]
  BY DEF Read
<1>2. /\ reader' = [reader EXCEPT ![q] = "decode"] /\ UNCHANGED <<heard, beats>>
  BY DEF Read, client
<1>3. buf[q] \in Seq(Nat) /\ up[q] \in Seq(Nat) /\ Len(up[q]) \in Nat
  BY DEF HeardShape
<1>4. /\ SubSeq(up[q], 1, n) \in Seq(Nat) /\ SubSeq(up[q], n + 1, Len(up[q])) \in Seq(Nat)
      /\ (buf[q] \o SubSeq(up[q], 1, n)) \o SubSeq(up[q], n + 1, Len(up[q])) = buf[q] \o up[q]
  BY <1>3, CutSecond
<1>5. buf'[q] = buf[q] \o SubSeq(up[q], 1, n) /\ up'[q] = SubSeq(up[q], n + 1, Len(up[q]))
  BY <1>1 DEF HeardShape
<1>6. buf'[q] \o up'[q] = buf[q] \o up[q]
  BY <1>4, <1>5
<1>7. HeardShape'
  <2>1. buf[q] \o SubSeq(up[q], 1, n) \in Seq(Nat)
    BY <1>3, <1>4, ConcatProperties
  <2>2. QED
    BY <1>1, <1>2, <1>4, <2>1 DEF HeardShape
<1>8. reader'[q] = "decode" /\ heard'[q] = heard[q] /\ beats'[q] = beats[q]
  BY <1>2 DEF HeardShape
<1>9. QED
  BY <1>6, <1>7, <1>8 DEF HeardOK

\* A frame that is taken out is the next one the client has sent.
LEMMA DecodeKeeps ==
    ASSUME HeardShape, NEW q \in Players, HeardOK(q), Decode(q)
    PROVE  HeardShape' /\ HeardOK(q)'
<1> DEFINE b == buf[q]
           frame == TryDecodeFrame(b)
<1>0. /\ b \in Seq(Nat) /\ up[q] \in Seq(Nat) /\ heard[q] \in Seq(Frames)
      /\ beats[q] \in Seq(Frames \cup {Illegal})
  BY DEF HeardShape
<1>1. up' = up /\ beats' = beats
  BY DEF Decode, client
<1>2. CASE frame.kind # "frame"
  <2>1. /\ UNCHANGED <<buf, heard>>
        /\ \/ frame = NeedMore /\ reader' = [reader EXCEPT ![q] = "read"]
           \/ reader' = [reader EXCEPT ![q] = "ended"]
    BY <1>2 DEF Decode
  <2>2. HeardShape'
    BY <1>1, <2>1 DEF HeardShape
  <2>3. reader'[q] = "read" => TryDecodeFrame(buf'[q]) = NeedMore
    BY <2>1 DEF HeardShape
  <2>4. QED
    BY <1>1, <2>1, <2>2, <2>3 DEF HeardOK
<1>3. CASE frame.kind = "frame"
  <2>1. /\ buf' = [buf EXCEPT ![q] = CutFrame(@, frame)]
        /\ heard' = [heard EXCEPT ![q] = Append(@, frame)]
        /\ reader' = [reader EXCEPT ![q] = "pong"]
    BY <1>3 DEF Decode, NeedMore, Illegal
  <2>a. PICK m, n, bs, s : /\ m = Len(heard[q]) /\ bs = beats[q] /\ n = Len(bs)
                          /\ s = b \o up[q]
    OBVIOUS
  <2>2. /\ m \in Nat /\ n \in Nat /\ m <= n /\ m \in 0..Len(bs) /\ s \in Seq(Nat)
        /\ bs \in Seq(Frames \cup {Illegal}) /\ LaidOut(s, bs, m)
    BY <1>0, <2>a, ConcatProperties DEF HeardOK
  <2>3. Len(s) = Len(b) + Len(up[q]) /\ Len(b) \in Nat /\ Len(up[q]) \in Nat
    BY <1>0, <2>a, ConcatProperties
  <2>4. Len(b) >= 2
    BY <1>3 DEF TryDecodeFrame, NeedMore, FrameHeaderSize
  <2>5. m < n
    <3>1. m = Len(bs) => Len(s) = 0
      BY <2>2, LaidFront
    <3>2. Len(s) # 0
      <4>1. \A x, y \in Nat : x >= 2 => x + y # 0
        OBVIOUS
      <4>2. QED
        BY <2>3, <2>4, <4>1
    <3>3. m # n
      BY <2>a, <3>1, <3>2
    <3>4. QED
      BY <2>2, <3>3
  <2>b. PICK beat : beat = bs[m + 1]
    OBVIOUS
  <2>6. /\ beat \in Frames \cup {Illegal}
        /\ Len(Words(beat)) <= Len(s) /\ \A j \in 1..Len(Words(beat)) : s[j] = Words(beat)[j]
    <3>1. m < Len(bs)
      BY <2>5, <2>a
    <3>2. /\ Len(Words(bs[m + 1])) <= Len(s)
          /\ \A j \in 1..Len(Words(bs[m + 1])) : s[j] = Words(bs[m + 1])[j]
      BY <2>2, <3>1, LaidFront
    <3>3. m + 1 \in 1..Len(bs)
      BY <2>2, <2>a, <3>1
    <3>4. QED
      BY <2>2, <2>b, <3>2, <3>3
  <2>7. beat \in Frames /\ frame = beat /\ Len(Words(beat)) <= Len(b)
    BY <1>0, <1>3, <2>6, <2>a, DecodeFirst
  <2>8. /\ Len(Words(beat)) \in Nat /\ Len(Words(beat)) = FrameHeaderSize + Len(beat.body)
    BY <2>7, WordsOfFrame, WordsType
  <2>c. PICK L : L = Len(Words(beat))
    OBVIOUS
  <2>9. buf'[q] = SubSeq(b, L + 1, Len(b)) /\ heard'[q] = Append(heard[q], beat)
    BY <2>1, <2>7, <2>8, <2>c DEF HeardShape, CutFrame
  <2>d. PICK t : t = buf'[q] \o up[q]
    OBVIOUS
  <2>10. L \in 0..Len(b)
    BY <2>3, <2>7, <2>8, <2>c
  <2>11. /\ buf'[q] \in Seq(Nat) /\ t \in Seq(Nat) /\ Len(s) = L + Len(t)
         /\ \A i \in 1..Len(t) : t[i] = s[L + i]
    <3>1. PICK c, x, u : c = buf'[q] /\ x = b /\ u = up[q]
      OBVIOUS
    <3>2. x \in Seq(Nat) /\ u \in Seq(Nat) /\ L \in 0..Len(x) /\ c = SubSeq(x, L + 1, Len(x))
      BY <1>0, <2>9, <2>10, <3>1
    <3>3. /\ c \in Seq(Nat) /\ c \o u \in Seq(Nat)
          /\ Len(x \o u) = L + Len(c \o u)
          /\ \A i \in 1..Len(c \o u) : (c \o u)[i] = (x \o u)[L + i]
      BY <3>2, CutFirst
    <3>4. QED
      BY <2>a, <2>d, <3>1, <3>3
  <2>12. LaidOut(t, bs, m + 1)
    BY <2>2, <2>5, <2>11, <2>a, <2>b, <2>c, LaidCut
  <2>13. /\ heard'[q] \in Seq(Frames) /\ Len(heard'[q]) = m + 1 /\ heard'[q][m + 1] = beat
         /\ \A i \in 1..m : heard'[q][i] = heard[q][i]
    BY <1>0, <2>7, <2>9, <2>a, AppendProperties
  <2>14. HeardShape'
    BY <1>1, <2>1, <2>9, <2>11, <2>13 DEF HeardShape
  <2>15. \A i \in 1..m + 1 : heard'[q][i] = beats'[q][i]
    <3>1. \A i \in 1..m : heard[q][i] = bs[i]
      BY <2>a DEF HeardOK
    <3>2. ASSUME NEW i \in 1..m + 1 PROVE i = m + 1 \/ i \in 1..m
      BY <2>2
    <3>3. QED
      BY <1>1, <2>13, <2>a, <2>b, <3>1, <3>2
  <2>16. reader'[q] = "pong"
    BY <2>1 DEF HeardShape
  <2>17. m + 1 <= n /\ n <= MaxBeats
    BY <2>2, <2>5, <2>a DEF HeardOK
  <2>18. QED
    BY <1>1, <2>12, <2>13, <2>14, <2>15, <2>16, <2>17, <2>a, <2>d DEF HeardOK
<1>4. QED
  BY <1>2, <1>3

\* A client that sends appends to the words under way.
LEMMA SendKeeps ==
    ASSUME HeardShape, NEW q \in Players, HeardOK(q), Send(q)
    PROVE  HeardShape' /\ HeardOK(q)'
<1>1. PICK beat \in Frames \cup {Illegal} :
         up' = [up EXCEPT ![q] = @ \o Words(beat)] /\ beats' = [beats EXCEPT ![q] = Append(@, beat)]
  BY DEF Send
<1>2. Len(beats[q]) < MaxBeats /\ UNCHANGED <<buf, heard, reader>>
  BY DEF Send, readers
<1>3. /\ buf[q] \in Seq(Nat) /\ up[q] \in Seq(Nat) /\ heard[q] \in Seq(Frames)
      /\ beats[q] \in Seq(Frames \cup {Illegal}) /\ Words(beat) \in Seq(Nat)
  BY WordsType DEF HeardShape
<1>4. up'[q] = up[q] \o Words(beat) /\ beats'[q] = Append(beats[q], beat)
  BY <1>1 DEF HeardShape
<1>5. /\ up'[q] \in Seq(Nat) /\ beats'[q] \in Seq(Frames \cup {Illegal})
      /\ Len(beats'[q]) = Len(beats[q]) + 1 /\ \A i \in 1..Len(beats[q]) : beats'[q][i] = beats[q][i]
  BY <1>3, <1>4, AppendProperties, ConcatProperties
<1>6. HeardShape'
  BY <1>1, <1>2, <1>4, <1>5 DEF HeardShape
<1>7. buf'[q] \o up'[q] = (buf[q] \o up[q]) \o Words(beat)
  <2>1. (buf[q] \o up[q]) \o Words(beat) = buf[q] \o (up[q] \o Words(beat))
    BY <1>3, ConcatAssoc
  <2>2. QED
    BY <1>2, <1>4, <2>1
<1>8. LaidOut(buf'[q] \o up'[q], beats'[q], Len(heard'[q]))
  <2>1. buf[q] \o up[q] \in Seq(Nat)
    BY <1>3, ConcatProperties
  <2>2. Len(heard[q]) \in 0..Len(beats[q])
    BY <1>3 DEF HeardOK
  <2>3. LaidOut(buf[q] \o up[q], beats[q], Len(heard[q]))
    BY DEF HeardOK
  <2>4. LaidOut((buf[q] \o up[q]) \o Words(beat), Append(beats[q], beat), Len(heard[q]))
    BY <1>3, <2>1, <2>2, <2>3, LaidMore
  <2>5. QED
    BY <1>2, <1>4, <1>7, <2>4
<1>9. Len(beats'[q]) <= MaxBeats /\ Len(heard'[q]) <= Len(beats'[q])
  <2>1. /\ Len(beats[q]) \in Nat /\ Len(heard[q]) \in Nat /\ MaxBeats \in Nat
        /\ Len(heard[q]) <= Len(beats[q])
    BY <1>3, WireAssumption DEF HeardOK
  <2>2. QED
    BY <1>2, <1>5, <2>1
<1>10. \A i \in 1..Len(heard'[q]) : heard'[q][i] = beats'[q][i]
  <2>1. Len(beats[q]) \in Nat /\ Len(heard[q]) \in Nat /\ Len(heard[q]) <= Len(beats[q])
    BY <1>3 DEF HeardOK
  <2>2. \A i \in 1..Len(heard[q]) : heard[q][i] = beats[q][i] /\ i \in 1..Len(beats[q])
    BY <2>1 DEF HeardOK
  <2>3. QED
    BY <1>2, <1>5, <2>2
<1>11. reader'[q] = "read" => TryDecodeFrame(buf'[q]) = NeedMore
  BY <1>2 DEF HeardOK
<1>12. QED
  BY <1>6, <1>8, <1>9, <1>10, <1>11 DEF HeardOK

LEMMA HeardStep == HeardInv /\ [Next]_vars => HeardInv'
<1> SUFFICES ASSUME HeardInv, [Next]_vars PROVE HeardInv'
  OBVIOUS
<1> USE DEF HeardInv
<1>1. CASE UNCHANGED <<buf, up, beats, heard, reader>>
  <2>1. HeardShape'
    BY <1>1 DEF HeardShape
  <2>2. QED
    BY <1>1, <2>1, HeardKept
<1>2. ASSUME NEW q \in Players, Write(q) \/ WriteFails(q) PROVE HeardInv'
  <2>1. /\ UNCHANGED <<buf, up, beats, heard>>
        /\ reader' = reader \/ reader' = [reader EXCEPT ![q] = IF holder[q] = Pong THEN "decode" ELSE @]
    BY <1>2 DEF Write, WriteFails, Unlock, client
  <2>2. HeardShape' /\ \A p \in Players : reader'[p] \in {reader[p], "decode", "ended"}
    BY <2>1 DEF HeardShape
  <2>3. QED
    BY <2>1, <2>2, HeardKept
<1>3. ASSUME NEW q \in Players, Read(q) \/ Decode(q) \/ Send(q) PROVE HeardInv'
  <2>1. HeardShape' /\ HeardOK(q)'
    BY <1>3, ReadKeeps, DecodeKeeps, SendKeeps
  <2>2. ASSUME NEW p \in Players \ {q}
        PROVE  /\ buf'[p] = buf[p] /\ up'[p] = up[p] /\ beats'[p] = beats[p]
               /\ heard'[p] = heard[p] /\ reader'[p] = reader[p]
    BY <1>3 DEF Read, Decode, Send, HeardShape, readers, client
  <2>3. QED
    BY <2>1, <2>2, HeardKept
<1>4. CASE Tick \/ PushReturns \/ PushTimesOut \/ ScanCloses \/ UNCHANGED vars
  <2>1. UNCHANGED <<buf, up, beats, heard, reader>>
    BY <1>4 DEF Tick, PushReturns, PushTimesOut, ScanCloses, vars, readers, client
  <2>2. QED
    BY <1>1, <2>1
<1>5. ASSUME NEW q \in Players,
             Push(q) \/ PushFails(q) \/ Lock(q) \/ Scan(q) \/ Receive(q) \/ Stall(q) \/ FallSilent(q)
      PROVE  HeardInv'
  <2>1. UNCHANGED <<buf, up, beats, heard, reader>>
    BY <1>5 DEF Push, PushFails, Lock, Scan, Receive, Stall, FallSilent, readers, client
  <2>2. QED
    BY <1>1, <2>1
<1>6. QED
  BY <1>2, <1>3, <1>4, <1>5 DEF Next

LEMMA HeardAlways == Spec => []HeardInv
<1>1. Init => HeardInv
  <2> SUFFICES ASSUME Init PROVE HeardInv
    OBVIOUS
  <2>1. HeardShape
    BY DEF Init, HeardShape
  <2>2. ASSUME NEW p \in Players PROVE HeardOK(p)
    <3>1. /\ buf[p] = <<>> /\ up[p] = <<>> /\ beats[p] = <<>> /\ heard[p] = <<>>
      BY DEF Init
    <3>2. Len(<<>>) = 0 /\ <<>> \o <<>> = <<>> /\ MaxBeats \in Nat
      BY WireAssumption
    <3>3. LaidOut(<<>>, <<>>, 0)
      <4> DEFINE pos == [i \in 0..0 |-> 0]
      <4>1. pos \in [0..0 -> 0..0] /\ pos[0] = 0
        OBVIOUS
      <4>2. \A i, j \in 0..0 : i = 0 /\ j = 0
        OBVIOUS
      <4>3. (0 + 1)..0 = {}
        OBVIOUS
      <4> HIDE DEF pos
      <4>4. Places(<<>>, <<>>, 0, pos)
        BY <3>2, <4>1, <4>2, <4>3 DEF Places
      <4>5. QED
        BY <3>2, <4>1, <4>4 DEF LaidOut
    <3>4. TryDecodeFrame(<<>>) = NeedMore
      BY <3>2 DEF TryDecodeFrame, FrameHeaderSize
    <3>5. QED
      BY <3>1, <3>2, <3>3, <3>4 DEF HeardOK
  <2>3. QED
    BY <2>1, <2>2 DEF HeardInv
<1>2. QED
  BY <1>1, HeardStep, PTL DEF Spec

\* However the reads cut the stream of a client, the gateway handles the frames he sent,
\* each once and in their order, up to the first illegal length, whatever their payloads;
\* and it reads on only when nothing more can be taken out (TryDecodeFrame and the loop of
\* handleClientConnection).
THEOREM FramesHeard == Spec => []HeardAsSent
<1>1. HeardInv => HeardAsSent
  <2> SUFFICES ASSUME HeardInv, NEW p \in Players
               PROVE  /\ \A i \in DOMAIN heard[p] : i \in DOMAIN beats[p] /\ heard[p][i] = beats[p][i]
                      /\ Illegal \notin Range(heard[p])
                      /\ reader[p] = "read" => TryDecodeFrame(buf[p]) = NeedMore
    BY DEF HeardAsSent
  <2>1. HeardOK(p) /\ heard[p] \in Seq(Frames) /\ beats[p] \in Seq(Frames \cup {Illegal})
    BY DEF HeardInv, HeardShape
  <2>2. DOMAIN heard[p] = 1..Len(heard[p]) /\ DOMAIN beats[p] = 1..Len(beats[p])
        /\ Len(heard[p]) \in Nat /\ Len(beats[p]) \in Nat /\ Len(heard[p]) <= Len(beats[p])
    BY <2>1, LenProperties DEF HeardOK
  <2>3. \A i \in 1..Len(heard[p]) : i \in 1..Len(beats[p]) /\ heard[p][i] = beats[p][i]
    BY <2>1, <2>2 DEF HeardOK
  <2>4. \A i \in 1..Len(heard[p]) : heard[p][i] \in Frames
    BY <2>1
  <2>5. Illegal \notin Frames
    BY WordsOfFrame
  <2>6. QED
    BY <2>1, <2>2, <2>3, <2>4, <2>5 DEF HeardOK, Range
<1>2. QED
  BY <1>1, HeardAlways, PTL

-----------------------------------------------------------------------------
\* The frame of tick t is at word i of what is under way to p, at its second word; it
\* is under way to him; he has it; it has been pushed to him.
Ticks == 1..MaxTicks
TickAt(p, i) == i \in 1..Len(down[p]) /\ (i + Half(p)) % 2 = 0 /\ down[p][i] <= MaxTicks
Coming(p, t) == \E i \in 1..Len(down[p]) : TickAt(p, i) /\ down[p][i] = t
Got(p, t)    == \E i \in 1..Len(got[p]) : got[p][i] = t
Pushed(p, t) == t <= tick /\ (p \in todo => t # tick)

\* The inductive invariant behind 'none comes twice': the frame of a tick is in one
\* place, with a handler that waits, with the one that writes, under way or read.
OnceOK(p) ==
    /\ got[p] \in Seq(Ticks) /\ Len(down[p]) <= SocketSize
    /\ holder[p] # Nobody /\ open[p] => rest[p][Len(rest[p])] = holder[p]
    /\ \A t \in Ticks :
         /\ UnderWay(p, t) => Pushed(p, t) /\ ~Coming(p, t) /\ ~Got(p, t)
         /\ ~(t \in waiting[p] /\ holder[p] = t)
         /\ Coming(p, t) => Pushed(p, t) /\ ~Got(p, t)
         /\ Got(p, t) => Pushed(p, t)
    /\ \A i, j \in 1..Len(down[p]) :
         TickAt(p, i) /\ TickAt(p, j) /\ down[p][i] = down[p][j] => i = j
    /\ \A i \in 1..Len(down[p]) : TickAt(p, i) => down[p][i] \in Ticks
    /\ \A i, j \in 1..Len(got[p]) : got[p][i] = got[p][j] => i = j

\* ... and behind the order: the frames under way are those of the ticks after the last
\* one that was read, up to the last one pushed, and a call that has not returned is about
\* the tick under way.
Upto(p) == IF p \in todo \/ UnderWay(p, tick) THEN tick - 1 ELSE tick
ComingUpto(p, last) ==
    /\ last \in Len(got[p])..tick
    /\ \A t \in Ticks : Coming(p, t) <=> t \in (Len(got[p]) + 1)..last
    /\ open[p] /\ p \in Battlers /\ tick >= 1 => last = Upto(p)
OrderOK(p) ==
    /\ \A t \in Ticks : UnderWay(p, t) => pending = p /\ t = tick
    /\ \A i \in 1..Len(got[p]) : got[p][i] = i
    /\ \A i, j \in 1..Len(down[p]) :
         TickAt(p, i) /\ TickAt(p, j) /\ i < j => down[p][i] < down[p][j]
    /\ \E last \in Int : ComingUpto(p, last)

PushOK ==
    /\ todo \subseteq Battlers /\ pending \in Battlers \cup {NoPlayer}
    /\ pending # NoPlayer => tick >= 1 /\ pending \notin todo
    /\ got \in [Players -> Seq(Nat)]
    /\ missed \in [Players -> BOOLEAN] /\ late \in [Players -> BOOLEAN]
    /\ kicking \in Players \cup {NoPlayer}
    /\ reads \in [Players -> BOOLEAN] /\ silent \in [Players -> BOOLEAN]

PlaceOK(p) == OnceOK(p) /\ (~late[p] /\ ~missed[p] => OrderOK(p))
PlaceInv == PushOK /\ \A p \in Players : PlaceOK(p)

-----------------------------------------------------------------------------
LEMMA TickNumbers ==
    MaxTicks \in Nat /\ Nobody \notin Ticks /\ Kick \notin Ticks /\ Pong \notin Ticks
BY WireAssumption DEF Nobody, Kick, Pong, Ticks

LEMMA SmallWriter ==
    ASSUME NEW w \in Writers, w <= MaxTicks
    PROVE  w \in Ticks
BY WireAssumption DEF Writers, Ticks

\* Where the words of a write go.
LEMMA OneMore ==
    ASSUME NEW d \in Seq(Nat), NEW r \in Seq(Nat), NEW n \in 1..Len(r)
    PROVE  LET e == d \o SubSeq(r, 1, n)
               f == SubSeq(r, n + 1, Len(r)) IN
           /\ e \in Seq(Nat) /\ Len(e) = Len(d) + n
           /\ \A i \in 1..Len(d) : e[i] = d[i]
           /\ \A i \in 1..n : e[Len(d) + i] = r[i]
           /\ f \in Seq(Nat) /\ Len(f) = Len(r) - n
           /\ n < Len(r) => f[Len(f)] = r[Len(r)]
<1>a. PICK v, f : v = SubSeq(r, 1, n) /\ f = SubSeq(r, n + 1, Len(r))
  OBVIOUS
<1>1. /\ v \in Seq(Nat) /\ Len(v) = n /\ \A i \in 1..n : v[i] = r[i]
      /\ Len(r) \in Nat /\ Len(d) \in Nat
  BY <1>a, SubSeqProperties
<1>2. /\ d \o v \in Seq(Nat) /\ Len(d \o v) = Len(d) + n
  BY <1>1, ConcatProperties
<1>3. /\ \A i \in 1..Len(d) : (d \o v)[i] = d[i]
      /\ \A i \in 1..n : (d \o v)[Len(d) + i] = r[i]
  <2>1. ASSUME NEW i \in 1..Len(d) + n
        PROVE  (d \o v)[i] = IF i <= Len(d) THEN d[i] ELSE v[i - Len(d)]
    BY <1>1, ConcatProperties
  <2>2. ASSUME NEW i \in 1..n PROVE (d \o v)[Len(d) + i] = r[i]
    <3>1. Len(d) + i \in 1..Len(d) + n /\ ~(Len(d) + i <= Len(d)) /\ Len(d) + i - Len(d) = i
      BY <1>1
    <3>2. QED
      BY <1>1, <2>1, <3>1
  <2>3. ASSUME NEW i \in 1..Len(d) PROVE (d \o v)[i] = d[i]
    <3>1. i \in 1..Len(d) + n /\ i <= Len(d)
      BY <1>1
    <3>2. QED
      BY <2>1, <3>1
  <2>4. QED
    BY <2>2, <2>3
<1>4. /\ f \in Seq(Nat) /\ Len(f) = Len(r) - n
      /\ n < Len(r) => f[Len(f)] = r[Len(r)]
  <2>1. /\ SubSeq(r, n + 1, Len(r)) \in Seq(Nat)
        /\ Len(SubSeq(r, n + 1, Len(r))) = IF n + 1 <= Len(r) THEN Len(r) - (n + 1) + 1 ELSE 0
        /\ \A i \in 1..Len(r) - (n + 1) + 1 : SubSeq(r, n + 1, Len(r))[i] = r[n + 1 + i - 1]
    <3>1. \A i \in (n + 1)..Len(r) : r[i] \in Nat
      BY <1>1
    <3>2. QED
      BY <1>1, <3>1, SubSeqProperties
  <2>2. Len(f) = Len(r) - n
    BY <1>1, <1>a, <2>1
  <2>3. ASSUME n < Len(r) PROVE f[Len(f)] = r[Len(r)]
    <3>1. Len(r) - n \in 1..Len(r) - (n + 1) + 1 /\ n + 1 + (Len(r) - n) - 1 = Len(r)
      BY <1>1, <2>3
    <3>2. f[Len(r) - n] = r[n + 1 + (Len(r) - n) - 1]
      BY <1>a, <2>1, <3>1
    <3>3. QED
      BY <2>2, <3>1, <3>2
  <2>4. QED
    BY <1>a, <2>1, <2>2, <2>3
<1>5. QED
  BY <1>2, <1>3, <1>4, <1>a

\* The parities of the words of a write: s words and the half before, l words to write.
LEMMA WriteParity ==
    ASSUME NEW s \in Nat, NEW l \in {1, 2}, NEW n \in 1..l, (s + l) % 2 = 0, NEW k \in 1..n
    PROVE  (s + k) % 2 = 0 <=> k = l
<1>1. s % 2 \in {0, 1} /\ (s + 1) % 2 = 1 - (s % 2) /\ (s + 2) % 2 = s % 2
  BY Parity
<1>2. CASE l = 1
  <2>1. k = 1
    BY <1>2
  <2>2. QED
    BY <1>2, <2>1
<1>3. CASE l = 2
  <2>1. s % 2 = 0 /\ k \in {1, 2}
    BY <1>1, <1>3
  <2>2. QED
    BY <1>1, <1>3, <2>1
<1>4. QED
  BY <1>2, <1>3

\* A write: what is under way stays where it is, and when all is in, the last word
\* is the writer's.
LEMMA WriteEffect ==
    ASSUME StreamInv, NEW q \in Players, Write(q), rest[q][Len(rest[q])] = holder[q]
    PROVE  /\ Len(down[q]) \in Nat /\ Len(down'[q]) \in Nat /\ Len(down[q]) <= Len(down'[q])
           /\ Len(down'[q]) <= SocketSize
           /\ \A i \in 1..Len(down[q]) : down'[q][i] = down[q][i]
           /\ holder'[q] = Nobody =>
                /\ Len(down[q]) < Len(down'[q]) /\ down'[q][Len(down'[q])] = holder[q]
                /\ (Len(down'[q]) + Half(q)) % 2 = 0
           /\ \A i \in (Len(down[q]) + 1)..Len(down'[q]) :
                (i + Half(q)) % 2 = 0 => i = Len(down'[q]) /\ holder'[q] = Nobody
           /\ holder'[q] # Nobody => /\ holder'[q] = holder[q]
                                    /\ rest'[q][Len(rest'[q])] = holder[q]
<1>a. PICK d, r, room, n, h :
         /\ d = down[q] /\ r = rest[q] /\ room = SocketSize - Len(d)
         /\ n = (IF room < Len(r) THEN room ELSE Len(r)) /\ h = Half(q)
  OBVIOUS
<1>1. /\ open[q] /\ holder[q] # Nobody /\ Len(d) < SocketSize
      /\ down' = [down EXCEPT ![q] = @ \o SubSeq(r, 1, n)]
      /\ rest' = [rest EXCEPT ![q] = SubSeq(@, n + 1, Len(@))]
      /\ \/ n = Len(r) /\ holder' = [holder EXCEPT ![q] = Nobody]
         \/ n # Len(r) /\ holder' = holder
  BY <1>a DEF Write, Unlock
<1>2. /\ d \in Seq(Nat) /\ r \in Seq(Nat) /\ Len(d) \in Nat /\ Len(r) \in {1, 2}
      /\ h \in {0, 1} /\ (Len(d) + h + Len(r)) % 2 = 0 /\ SocketSize \in Nat
  <2>1. d \in Seq(Nat) /\ r \in Seq(Nat) /\ Len(r) \in {1, 2} /\ h \in {0, 1}
    BY <1>1, <1>a, HalfType DEF StreamInv, StreamOK
  <2>2. (Len(d) + h + Len(r)) % 2 = 0
    BY <1>1, <1>a DEF StreamInv, StreamOK
  <2>3. QED
    BY <2>1, <2>2, WireAssumption
<1>3. n \in 1..Len(r) /\ n <= room /\ room \in Nat
  <2>1. \A x, y \in Nat : y < x => x - y \in Nat /\ x - y >= 1
    OBVIOUS
  <2>2. room \in Nat /\ room >= 1
    BY <1>1, <1>2, <1>a, <2>1
  <2>3. \A l \in {1, 2} : \A x \in Nat : x >= 1 =>
          (IF x < l THEN x ELSE l) \in 1..l /\ (IF x < l THEN x ELSE l) <= x
    OBVIOUS
  <2>4. QED
    BY <1>2, <1>a, <2>2, <2>3
<1>b. PICK e, f : e = d \o SubSeq(r, 1, n) /\ f = SubSeq(r, n + 1, Len(r))
  OBVIOUS
<1>4. /\ e \in Seq(Nat) /\ Len(e) = Len(d) + n
      /\ \A i \in 1..Len(d) : e[i] = d[i]
      /\ \A i \in 1..n : e[Len(d) + i] = r[i]
      /\ n < Len(r) => f[Len(f)] = r[Len(r)]
  <2>1. /\ d \o SubSeq(r, 1, n) \in Seq(Nat) /\ Len(d \o SubSeq(r, 1, n)) = Len(d) + n
        /\ \A i \in 1..Len(d) : (d \o SubSeq(r, 1, n))[i] = d[i]
        /\ \A i \in 1..n : (d \o SubSeq(r, 1, n))[Len(d) + i] = r[i]
        /\ n < Len(r) => SubSeq(r, n + 1, Len(r))[Len(SubSeq(r, n + 1, Len(r)))] = r[Len(r)]
    <3>1. d \in Seq(Nat) /\ r \in Seq(Nat) /\ n \in 1..Len(r)
      BY <1>2, <1>3
    <3>2. QED
      BY <3>1, OneMore
  <2>2. QED
    BY <1>b, <2>1
<1>5. down'[q] = e /\ rest'[q] = f
  BY <1>1, <1>a, <1>b DEF StreamInv, Shape
<1>c. PICK s, l, x : s = Len(d) + h /\ l = Len(r) /\ x = Len(d)
  OBVIOUS
<1>6. s \in Nat /\ l \in {1, 2} /\ n \in 1..l /\ (s + l) % 2 = 0 /\ x \in Nat /\ s = x + h
  BY <1>2, <1>3, <1>c
<1>7. \A k \in 1..n : (s + k) % 2 = 0 <=> k = l
  BY <1>6, WriteParity
<1>8. Len(e) = x + n /\ n \in Nat /\ n >= 1 /\ l \in Nat /\ h \in Nat
  BY <1>2, <1>4, <1>6, <1>c
<1>9. ASSUME NEW i \in (x + 1)..(x + n), (i + h) % 2 = 0 PROVE i = x + n /\ n = l
  <2>1. PICK k \in 1..n : i = x + k
    <3>1. i - x \in 1..n /\ i = x + (i - x)
      BY <1>6, <1>8
    <3>2. QED
      BY <3>1
  <2>2. i + h = s + k
    BY <1>6, <1>8, <2>1
  <2>3. k = l
    BY <1>7, <1>9, <2>1, <2>2
  <2>4. QED
    BY <1>6, <1>8, <2>1, <2>3
<1>10. n = l => (x + n + h) % 2 = 0
  <2>1. s + l = x + l + h
    BY <1>6, <1>8
  <2>2. QED
    BY <1>6, <2>1
<1>11. (holder'[q] = Nobody <=> n = l) /\ (n # l => holder'[q] = holder[q] /\ n < l)
  <2>1. n = l => holder'[q] = Nobody
    BY <1>1, <1>c DEF StreamInv, Shape
  <2>2. n # l => holder'[q] = holder[q] /\ holder[q] # Nobody
    BY <1>1, <1>c
  <2>3. n # l => n < l
    BY <1>6, <1>8
  <2>4. QED
    BY <2>1, <2>2, <2>3
<1>12. n = l => e[x + n] = r[l]
  <2>1. ASSUME n = l PROVE l \in 1..n
    BY <1>6, <2>1
  <2>2. QED
    BY <1>4, <1>c, <2>1
<1>13. x + n <= SocketSize
  <2>1. \A a, b, c \in Nat : c <= a - b => b + c <= a
    OBVIOUS
  <2>2. n <= SocketSize - x
    BY <1>3, <1>a, <1>c
  <2>3. SocketSize \in Nat /\ x \in Nat /\ n \in Nat
    BY <1>2, <1>6, <1>8
  <2>4. QED
    BY <2>1, <2>2, <2>3
<1>14. x <= x + n /\ x < x + n
  <2>1. \A a, b \in Nat : b >= 1 => a <= a + b /\ a < a + b
    OBVIOUS
  <2>2. x \in Nat /\ n \in Nat /\ n >= 1
    BY <1>6, <1>8
  <2>3. QED
    BY <2>1, <2>2
<1>15. /\ Len(down[q]) = x /\ Len(down'[q]) = x + n /\ Half(q) = h /\ r[l] = holder[q]
  BY <1>5, <1>8, <1>a, <1>c
<1>16. x + n \in Nat
  BY <1>6, <1>8
<1>17. QED
  <2>1. /\ Len(down[q]) \in Nat /\ Len(down'[q]) \in Nat /\ Len(down[q]) <= Len(down'[q])
        /\ Len(down'[q]) <= SocketSize
    BY <1>6, <1>13, <1>14, <1>15, <1>16
  <2>2. \A i \in 1..Len(down[q]) : down'[q][i] = down[q][i]
    BY <1>4, <1>5, <1>a
  <2>3. holder'[q] = Nobody =>
                /\ Len(down[q]) < Len(down'[q]) /\ down'[q][Len(down'[q])] = holder[q]
                /\ (Len(down'[q]) + Half(q)) % 2 = 0
    BY <1>5, <1>10, <1>11, <1>12, <1>14, <1>15
  <2>4. \A i \in (Len(down[q]) + 1)..Len(down'[q]) :
                (i + Half(q)) % 2 = 0 => i = Len(down'[q]) /\ holder'[q] = Nobody
    BY <1>9, <1>11, <1>15
  <2>5. holder'[q] # Nobody => /\ holder'[q] = holder[q]
                              /\ rest'[q][Len(rest'[q])] = holder[q]
    BY <1>4, <1>5, <1>11, <1>15, <1>c
  <2>6. QED
    BY <2>1, <2>2, <2>3, <2>4, <2>5

\* ... so it puts a frame under way when it is through, behind the others.
LEMMA WriteTicks ==
    ASSUME StreamInv, NEW q \in Players, Write(q), rest[q][Len(rest[q])] = holder[q],
           holder[q] \in Writers
    PROVE  \A i : TickAt(q, i)' <=> \/ TickAt(q, i)
                                   \/ /\ holder'[q] = Nobody /\ i = Len(down'[q])
                                      /\ holder[q] \in Ticks
<1>1. Half(q)' = Half(q) /\ holder[q] # Nobody
  BY DEF Write, client, Half
<1>2. /\ Len(down[q]) \in Nat /\ Len(down'[q]) \in Nat /\ Len(down[q]) <= Len(down'[q])
      /\ \A i \in 1..Len(down[q]) : down'[q][i] = down[q][i]
      /\ holder'[q] = Nobody =>
           /\ Len(down[q]) < Len(down'[q]) /\ down'[q][Len(down'[q])] = holder[q]
           /\ (Len(down'[q]) + Half(q)) % 2 = 0
      /\ \A i \in (Len(down[q]) + 1)..Len(down'[q]) :
           (i + Half(q)) % 2 = 0 => i = Len(down'[q]) /\ holder'[q] = Nobody
  BY WriteEffect
<1>3. holder[q] <= MaxTicks <=> holder[q] \in Ticks
  BY SmallWriter DEF Ticks
<1>4. ASSUME NEW i, TickAt(q, i)
      PROVE  TickAt(q, i)'
  <2>1. i \in 1..Len(down[q]) /\ i \in 1..Len(down'[q])
    BY <1>2, <1>4 DEF TickAt
  <2>2. QED
    BY <1>1, <1>2, <1>4, <2>1 DEF TickAt
<1>5. ASSUME NEW i, i = Len(down'[q]), holder'[q] = Nobody, holder[q] \in Ticks
      PROVE  TickAt(q, i)'
  <2>1. i \in 1..Len(down'[q])
    BY <1>2, <1>5
  <2>2. QED
    BY <1>1, <1>2, <1>3, <1>5, <2>1 DEF TickAt
<1>6. ASSUME NEW i, TickAt(q, i)', ~TickAt(q, i)
      PROVE  holder'[q] = Nobody /\ i = Len(down'[q]) /\ holder[q] \in Ticks
  <2>1. i \in 1..Len(down'[q]) /\ (i + Half(q)) % 2 = 0 /\ down'[q][i] <= MaxTicks
    BY <1>1, <1>6 DEF TickAt
  <2>2. i \notin 1..Len(down[q])
    BY <1>2, <1>6, <2>1 DEF TickAt
  <2>3. i \in (Len(down[q]) + 1)..Len(down'[q])
    BY <1>2, <2>1, <2>2
  <2>4. i = Len(down'[q]) /\ holder'[q] = Nobody
    BY <1>2, <2>1, <2>3
  <2>5. down'[q][i] = holder[q]
    BY <1>2, <2>4
  <2>6. QED
    BY <1>3, <2>1, <2>4, <2>5
<1>7. QED
  BY <1>4, <1>5, <1>6

\* A player who reads a word.
LEMMA ReceiveEffect ==
    ASSUME StreamInv, NEW q \in Players, Receive(q)
    PROVE  /\ Len(down[q]) \in Nat /\ Len(down'[q]) = Len(down[q]) - 1 /\ Len(down[q]) >= 1
           /\ \A i \in 1..Len(down'[q]) :
                /\ i + 1 \in 1..Len(down[q]) /\ down'[q][i] = down[q][i + 1]
                /\ TickAt(q, i)' <=> TickAt(q, i + 1)
           /\ TickAt(q, 1) <=> begun[q] /\ down[q][1] <= MaxTicks
<1>1. /\ down[q] # <<>> /\ down' = [down EXCEPT ![q] = Tail(@)] /\ begun' = [begun EXCEPT ![q] = ~@]
  BY DEF Receive
<1>2. down[q] \in Seq(Nat) /\ begun[q] \in BOOLEAN
  BY DEF StreamInv, Shape
<1>3. /\ Len(down[q]) \in Nat /\ Len(down[q]) >= 1 /\ Len(Tail(down[q])) = Len(down[q]) - 1
      /\ \A i \in 1..Len(Tail(down[q])) : Tail(down[q])[i] = down[q][i + 1]
  BY <1>1, <1>2, HeadTailProperties, EmptySeq
<1>4. down'[q] = Tail(down[q]) /\ begun'[q] = ~begun[q]
  BY <1>1 DEF StreamInv, Shape
<1>5. /\ begun[q] => Half(q) = 1 /\ Half(q)' = 0
      /\ ~begun[q] => Half(q) = 0 /\ Half(q)' = 1
  <2>1. ASSUME begun[q] PROVE Half(q) = 1 /\ Half(q)' = 0
    <3>1. ~begun'[q]
      BY <1>4, <2>1, Zenon
    <3>2. QED
      BY <2>1, <3>1 DEF Half
  <2>2. ASSUME ~begun[q] PROVE Half(q) = 0 /\ Half(q)' = 1
    <3>1. begun'[q]
      BY <1>4, <2>2, Zenon
    <3>2. QED
      BY <2>2, <3>1 DEF Half
  <2>3. QED
    BY <2>1, <2>2
<1>6. ASSUME NEW i \in 1..Len(down'[q])
      PROVE  /\ i + 1 \in 1..Len(down[q]) /\ down'[q][i] = down[q][i + 1]
             /\ TickAt(q, i)' <=> TickAt(q, i + 1)
  <2>1. i \in 1..Len(Tail(down[q])) /\ i + 1 \in 1..Len(down[q]) /\ i \in Int
    BY <1>3, <1>4
  <2>2. down'[q][i] = down[q][i + 1]
    BY <1>3, <1>4, <2>1
  <2>3. (i + Half(q)') % 2 = (i + 1 + Half(q)) % 2
    <3>1. (i + 2) % 2 = i % 2
      BY <2>1, Parity
    <3>2. CASE begun[q]
      <4>1. i + Half(q)' = i /\ i + 1 + Half(q) = i + 2
        BY <1>5, <2>1, <3>2
      <4>2. QED
        BY <3>1, <4>1
    <3>3. CASE ~begun[q]
      <4>1. i + Half(q)' = i + 1 /\ i + 1 + Half(q) = i + 1
        BY <1>5, <2>1, <3>3
      <4>2. QED
        BY <4>1
    <3>4. QED
      BY <3>2, <3>3
  <2>4. TickAt(q, i)' <=> TickAt(q, i + 1)
    BY <2>1, <2>2, <2>3 DEF TickAt
  <2>5. QED
    BY <2>1, <2>2, <2>4
<1>7. TickAt(q, 1) <=> begun[q] /\ down[q][1] <= MaxTicks
  <2>1. 1 \in 1..Len(down[q])
    BY <1>3
  <2>2. (1 + 1) % 2 = 0 /\ (1 + 0) % 2 = 1
    OBVIOUS
  <2>3. CASE begun[q]
    BY <1>5, <2>1, <2>2, <2>3 DEF TickAt
  <2>4. CASE ~begun[q]
    BY <1>5, <2>1, <2>2, <2>4 DEF TickAt
  <2>5. QED
    BY <2>3, <2>4
<1>8. QED
  BY <1>3, <1>4, <1>6, <1>7

-----------------------------------------------------------------------------
\* A step that leaves the frames of the ticks where they are.
Unmoved(p) ==
    /\ down'[p] = down[p] /\ begun'[p] = begun[p] /\ got'[p] = got[p]
    /\ holder'[p] = holder[p] /\ rest'[p] = rest[p]
    /\ \A t \in Ticks : t \in waiting'[p] <=> t \in waiting[p]
    /\ open'[p] => open[p]

LEMMA SamePlaces ==
    ASSUME NEW p, Unmoved(p)
    PROVE  /\ \A i : TickAt(p, i)' <=> TickAt(p, i)
           /\ \A t : Coming(p, t)' <=> Coming(p, t)
           /\ \A t : Got(p, t)' <=> Got(p, t)
           /\ \A t \in Ticks : UnderWay(p, t)' <=> UnderWay(p, t)
<1>1. Half(p)' = Half(p)
  BY DEF Unmoved, Half
<1>2. \A i : TickAt(p, i)' <=> TickAt(p, i)
  BY <1>1 DEF Unmoved, TickAt
<1>3. \A t : Coming(p, t)' <=> Coming(p, t)
  BY <1>2 DEF Unmoved, Coming
<1>4. \A t : Got(p, t)' <=> Got(p, t)
  BY DEF Unmoved, Got
<1>5. \A t \in Ticks : UnderWay(p, t)' <=> UnderWay(p, t)
  BY DEF Unmoved, UnderWay
<1>6. QED
  BY <1>2, <1>3, <1>4, <1>5

LEMMA OnceKept ==
    ASSUME NEW p, OnceOK(p), Unmoved(p), \A t \in Ticks : Pushed(p, t) => Pushed(p, t)'
    PROVE  OnceOK(p)'
<1>1. /\ \A i : TickAt(p, i)' <=> TickAt(p, i)
      /\ \A t : Coming(p, t)' <=> Coming(p, t)
      /\ \A t : Got(p, t)' <=> Got(p, t)
      /\ \A t \in Ticks : UnderWay(p, t)' <=> UnderWay(p, t)
  BY SamePlaces
<1>2. \A t \in Ticks :
         /\ UnderWay(p, t)' => Pushed(p, t)' /\ ~Coming(p, t)' /\ ~Got(p, t)'
         /\ ~(t \in waiting'[p] /\ holder'[p] = t)
         /\ Coming(p, t)' => Pushed(p, t)' /\ ~Got(p, t)'
         /\ Got(p, t)' => Pushed(p, t)'
  BY <1>1 DEF OnceOK, Unmoved
<1>3. /\ got'[p] \in Seq(Ticks) /\ Len(down'[p]) <= SocketSize
      /\ holder'[p] # Nobody /\ open'[p] => rest'[p][Len(rest'[p])] = holder'[p]
      /\ \A i, j \in 1..Len(got'[p]) : got'[p][i] = got'[p][j] => i = j
  BY DEF OnceOK, Unmoved
<1>4. /\ \A i, j \in 1..Len(down'[p]) :
           TickAt(p, i)' /\ TickAt(p, j)' /\ down'[p][i] = down'[p][j] => i = j
      /\ \A i \in 1..Len(down'[p]) : TickAt(p, i)' => down'[p][i] \in Ticks
  BY <1>1 DEF OnceOK, Unmoved
<1>5. Ticks' = Ticks
  BY DEF Ticks
<1>6. QED
  BY <1>2, <1>3, <1>4, <1>5 DEF OnceOK

\* ... keeps their order if the call under way is not forgotten with a frame on its way.
LEMMA OrderKept ==
    ASSUME NEW p, OrderOK(p), Unmoved(p), Len(got[p]) \in Nat, tick \in Nat, tick' \in Nat, tick <= tick',
           \A t \in Ticks : UnderWay(p, t) => pending' = pending /\ tick' = tick,
           open[p] /\ p \in Battlers /\ tick' >= 1 =>
             (tick >= 1 /\ Upto(p)' = Upto(p)) \/ (tick = 0 /\ Upto(p)' = 0)
    PROVE  OrderOK(p)'
<1>1. /\ \A i : TickAt(p, i)' <=> TickAt(p, i)
      /\ \A t : Coming(p, t)' <=> Coming(p, t)
      /\ \A t \in Ticks : UnderWay(p, t)' <=> UnderWay(p, t)
  BY SamePlaces
<1>2. \A t \in Ticks : UnderWay(p, t)' => pending' = p /\ t = tick'
  BY <1>1 DEF OrderOK
<1>3. \A i \in 1..Len(got'[p]) : got'[p][i] = i
  BY DEF OrderOK, Unmoved
<1>4. \A i, j \in 1..Len(down'[p]) :
        TickAt(p, i)' /\ TickAt(p, j)' /\ i < j => down'[p][i] < down'[p][j]
  BY <1>1 DEF OrderOK, Unmoved
<1>5. PICK last \in Int : ComingUpto(p, last)
  BY DEF OrderOK
<1>6. PICK l : l = Len(got[p])
  OBVIOUS
<1>7. last \in l..tick /\ Len(got'[p]) = l
  BY <1>5, <1>6 DEF ComingUpto, Unmoved
<1>8. ComingUpto(p, last)'
  <2>1. last \in l..tick'
    BY <1>7
  <2>2. \A t \in Ticks : Coming(p, t)' <=> t \in (l + 1)..last
    BY <1>1, <1>5, <1>6 DEF ComingUpto
  <2>3. ASSUME open'[p], p \in Battlers, tick' >= 1 PROVE last = Upto(p)'
    <3>1. open[p]
      BY <2>3 DEF Unmoved
    <3>2. CASE tick >= 1 /\ Upto(p)' = Upto(p)
      BY <1>5, <2>3, <3>1, <3>2 DEF ComingUpto
    <3>3. CASE tick = 0 /\ Upto(p)' = 0
      <4>1. l \in Nat
        BY <1>6
      <4>2. last = 0
        BY <1>7, <3>3, <4>1
      <4>3. QED
        BY <3>3, <4>2
    <3>4. QED
      BY <2>3, <3>1, <3>2, <3>3
  <2>4. QED
    BY <1>7, <2>1, <2>2, <2>3 DEF ComingUpto, Ticks
<1>9. QED
  BY <1>2, <1>3, <1>4, <1>8 DEF OrderOK, Ticks

\* Who takes the lock takes his frame along.
LEMMA PlaceLocked ==
    ASSUME StreamInv, NEW q \in Players, Lock(q), OnceOK(q)
    PROVE  /\ OnceOK(q)' /\ holder[q] = Nobody
           /\ UNCHANGED <<down, begun, got, open, tick, todo, pending, missed, late>>
           /\ \A i : TickAt(q, i)' <=> TickAt(q, i)
           /\ \A t : Coming(q, t)' <=> Coming(q, t)
           /\ \A t \in Ticks : UnderWay(q, t)' <=> UnderWay(q, t)
<1>1. PICK w \in waiting[q] : /\ waiting' = [waiting EXCEPT ![q] = @ \ {w}]
                              /\ holder' = [holder EXCEPT ![q] = w]
                              /\ rest' = [rest EXCEPT ![q] = Bytes(w)]
  BY DEF Lock
<1>2. /\ holder[q] = Nobody
      /\ UNCHANGED <<down, begun, got, open, tick, todo, pending, missed, late>>
  BY DEF Lock, client, game
<1>3. /\ waiting'[q] = waiting[q] \ {w} /\ holder'[q] = w /\ rest'[q] = Bytes(w) /\ w \in Writers
  BY <1>1 DEF StreamInv, Shape
<1>4. rest'[q][Len(rest'[q])] = w
  <2>1. Bytes(w) = <<FrameHeaderSize, w>>
    BY <1>3, BytesOf, TickNumbers
  <2>2. QED
    BY <1>3, <2>1
<1>5. \A t \in Ticks : UnderWay(q, t)' <=> UnderWay(q, t)
  BY <1>1, <1>2, <1>3, TickNumbers DEF UnderWay
<1>6. /\ \A i : TickAt(q, i)' <=> TickAt(q, i)
      /\ \A t : Coming(q, t)' <=> Coming(q, t)
      /\ \A t : Got(q, t)' <=> Got(q, t)
      /\ \A t : Pushed(q, t)' <=> Pushed(q, t)
  <2>1. Half(q)' = Half(q)
    BY <1>2 DEF Half
  <2>2. \A i : TickAt(q, i)' <=> TickAt(q, i)
    BY <1>2, <2>1 DEF TickAt
  <2>3. QED
    BY <1>2, <2>2 DEF Coming, Got, Pushed
<1>7. \A t \in Ticks :
         /\ UnderWay(q, t)' => Pushed(q, t)' /\ ~Coming(q, t)' /\ ~Got(q, t)'
         /\ ~(t \in waiting'[q] /\ holder'[q] = t)
         /\ Coming(q, t)' => Pushed(q, t)' /\ ~Got(q, t)'
         /\ Got(q, t)' => Pushed(q, t)'
  BY <1>3, <1>5, <1>6 DEF OnceOK
<1>8. /\ got'[q] \in Seq(Ticks) /\ Len(down'[q]) <= SocketSize
      /\ \A i, j \in 1..Len(got'[q]) : got'[q][i] = got'[q][j] => i = j
      /\ \A i, j \in 1..Len(down'[q]) :
           TickAt(q, i)' /\ TickAt(q, j)' /\ down'[q][i] = down'[q][j] => i = j
      /\ \A i \in 1..Len(down'[q]) : TickAt(q, i)' => down'[q][i] \in Ticks
  BY <1>2, <1>6 DEF OnceOK
<1>9. Ticks' = Ticks
  BY DEF Ticks
<1>10. QED
  BY <1>2, <1>3, <1>4, <1>5, <1>6, <1>7, <1>8, <1>9 DEF OnceOK

\* Where a write leaves the frames: that of a tick is under way when its writer is through.
LEMMA PlaceWritten ==
    ASSUME StreamInv, NEW q \in Players, Write(q), OnceOK(q)
    PROVE  /\ UNCHANGED <<got, open, waiting, tick, todo, pending, missed, late>> /\ open[q]
           /\ Len(down[q]) \in Nat /\ Len(down'[q]) \in Nat /\ Len(down'[q]) <= SocketSize
           /\ \A i \in 1..Len(down[q]) : i \in 1..Len(down'[q]) /\ down'[q][i] = down[q][i]
           /\ holder'[q] # Nobody => /\ holder'[q] = holder[q]
                                    /\ rest'[q][Len(rest'[q])] = holder'[q]
           /\ \/ /\ \A i : TickAt(q, i)' <=> TickAt(q, i)
                 /\ \A t : Coming(q, t)' <=> Coming(q, t)
                 /\ \A t \in Ticks : UnderWay(q, t)' <=> UnderWay(q, t)
              \/ \E new : /\ new \in Ticks /\ holder[q] = new /\ holder'[q] = Nobody
                          /\ \A i : TickAt(q, i)' <=> TickAt(q, i) \/ i = Len(down'[q])
                          /\ \A t : Coming(q, t)' <=> Coming(q, t) \/ t = new
                          /\ \A t \in Ticks : UnderWay(q, t)' <=> UnderWay(q, t) /\ t # new
                          /\ Len(down[q]) < Len(down'[q]) /\ down'[q][Len(down'[q])] = new
<1>1. /\ UNCHANGED <<got, open, waiting, tick, todo, pending, missed, late>> /\ open[q]
      /\ holder[q] # Nobody
  BY DEF Write, client, game
<1>2. rest[q][Len(rest[q])] = holder[q] /\ holder[q] \in Writers
  BY <1>1 DEF OnceOK, StreamInv, Shape
<1>3. /\ Len(down[q]) \in Nat /\ Len(down'[q]) \in Nat /\ Len(down[q]) <= Len(down'[q])
      /\ Len(down'[q]) <= SocketSize
      /\ \A i \in 1..Len(down[q]) : down'[q][i] = down[q][i]
      /\ holder'[q] = Nobody =>
           Len(down[q]) < Len(down'[q]) /\ down'[q][Len(down'[q])] = holder[q]
      /\ holder'[q] # Nobody => /\ holder'[q] = holder[q]
                               /\ rest'[q][Len(rest'[q])] = holder[q]
  BY <1>2, WriteEffect
<1>4. \A i : TickAt(q, i)' <=> \/ TickAt(q, i)
                               \/ /\ holder'[q] = Nobody /\ i = Len(down'[q])
                                  /\ holder[q] \in Ticks
  BY <1>2, WriteTicks
<1>5. \A i \in 1..Len(down[q]) : i \in 1..Len(down'[q]) /\ down'[q][i] = down[q][i]
  BY <1>3
<1>6. CASE ~(holder'[q] = Nobody /\ holder[q] \in Ticks)
  <2>1. \A i : TickAt(q, i)' <=> TickAt(q, i)
    BY <1>4, <1>6
  <2>2. ASSUME NEW t PROVE Coming(q, t)' <=> Coming(q, t)
    BY <1>5, <2>1 DEF Coming, TickAt
  <2>3. \A t \in Ticks : UnderWay(q, t)' <=> UnderWay(q, t)
    BY <1>1, <1>3, <1>6, TickNumbers DEF UnderWay
  <2>4. QED
    BY <1>1, <1>3, <1>5, <2>1, <2>2, <2>3
<1>7. CASE holder'[q] = Nobody /\ holder[q] \in Ticks
  <2>a. PICK new, l : new = holder[q] /\ l = Len(down'[q])
    OBVIOUS
  <2>1. \A i : TickAt(q, i)' <=> TickAt(q, i) \/ i = l
    BY <1>4, <1>7, <2>a
  <2>2. l \in 1..l /\ down'[q][l] = new
    BY <1>3, <1>7, <2>a
  <2>3. ASSUME NEW t PROVE Coming(q, t)' <=> Coming(q, t) \/ t = new
    <3>1. ASSUME Coming(q, t)' PROVE Coming(q, t) \/ t = new
      <4>1. PICK i \in 1..l : TickAt(q, i)' /\ down'[q][i] = t
        BY <2>a, <3>1 DEF Coming
      <4>2. CASE i = l
        BY <2>2, <4>1, <4>2
      <4>3. CASE TickAt(q, i)
        BY <1>5, <4>1, <4>3 DEF Coming, TickAt
      <4>4. QED
        BY <2>1, <4>1, <4>2, <4>3
    <3>2. ASSUME Coming(q, t) PROVE Coming(q, t)'
      BY <1>5, <2>1, <3>2 DEF Coming
    <3>3. ASSUME t = new PROVE Coming(q, t)'
      <4>1. TickAt(q, l)'
        BY <2>1
      <4>2. QED
        BY <2>2, <2>a, <3>3, <4>1 DEF Coming
    <3>4. QED
      BY <3>1, <3>2, <3>3
  <2>4. \A t \in Ticks : UnderWay(q, t)' <=> UnderWay(q, t) /\ t # new
    <3>1. new \notin waiting[q]
      BY <1>7, <2>a DEF OnceOK
    <3>2. QED
      BY <1>1, <1>7, <2>a, <3>1, TickNumbers DEF UnderWay
  <2>5. QED
    BY <1>1, <1>3, <1>5, <1>7, <2>1, <2>2, <2>3, <2>4, <2>a
<1>8. QED
  BY <1>6, <1>7

LEMMA OnceWritten ==
    ASSUME StreamInv, NEW q \in Players, Write(q), OnceOK(q)
    PROVE  OnceOK(q)'
<1>1. /\ UNCHANGED <<got, waiting, tick, todo>>
      /\ Len(down[q]) \in Nat /\ Len(down'[q]) \in Nat /\ Len(down'[q]) <= SocketSize
      /\ \A i \in 1..Len(down[q]) : i \in 1..Len(down'[q]) /\ down'[q][i] = down[q][i]
      /\ holder'[q] # Nobody => holder'[q] = holder[q] /\ rest'[q][Len(rest'[q])] = holder'[q]
  BY PlaceWritten
<1>2. /\ \A t : Got(q, t)' <=> Got(q, t)
      /\ \A t : Pushed(q, t)' <=> Pushed(q, t)
  BY <1>1 DEF Got, Pushed
<1>3. Ticks' = Ticks
  BY DEF Ticks
<1>4. \A t \in Ticks : ~(t \in waiting'[q] /\ holder'[q] = t)
  BY <1>1, TickNumbers DEF OnceOK
<1>5. /\ got'[q] \in Seq(Ticks)
      /\ \A i, j \in 1..Len(got'[q]) : got'[q][i] = got'[q][j] => i = j
  BY <1>1 DEF OnceOK
<1>6. CASE /\ \A i : TickAt(q, i)' <=> TickAt(q, i)
           /\ \A t : Coming(q, t)' <=> Coming(q, t)
           /\ \A t \in Ticks : UnderWay(q, t)' <=> UnderWay(q, t)
  <2>1. \A t \in Ticks :
         /\ UnderWay(q, t)' => Pushed(q, t)' /\ ~Coming(q, t)' /\ ~Got(q, t)'
         /\ Coming(q, t)' => Pushed(q, t)' /\ ~Got(q, t)'
         /\ Got(q, t)' => Pushed(q, t)'
    BY <1>2, <1>6 DEF OnceOK
  <2>2. \A i : TickAt(q, i)' => TickAt(q, i) /\ i \in 1..Len(down[q]) /\ down'[q][i] = down[q][i]
    BY <1>1, <1>6 DEF TickAt
  <2>3. /\ \A i, j \in 1..Len(down'[q]) :
             TickAt(q, i)' /\ TickAt(q, j)' /\ down'[q][i] = down'[q][j] => i = j
        /\ \A i \in 1..Len(down'[q]) : TickAt(q, i)' => down'[q][i] \in Ticks
    BY <2>2 DEF OnceOK
  <2>4. QED
    BY <1>1, <1>3, <1>4, <1>5, <2>1, <2>3 DEF OnceOK
<1>7. ASSUME NEW new, new \in Ticks, holder[q] = new, holder'[q] = Nobody,
             \A i : TickAt(q, i)' <=> TickAt(q, i) \/ i = Len(down'[q]),
             \A t : Coming(q, t)' <=> Coming(q, t) \/ t = new,
             \A t \in Ticks : UnderWay(q, t)' <=> UnderWay(q, t) /\ t # new,
             down'[q][Len(down'[q])] = new
      PROVE  OnceOK(q)'
  <2>1. UnderWay(q, new) /\ ~Coming(q, new) /\ ~Got(q, new) /\ Pushed(q, new)
    BY <1>7 DEF OnceOK, UnderWay
  <2>2. \A t \in Ticks :
         /\ UnderWay(q, t)' => Pushed(q, t)' /\ ~Coming(q, t)' /\ ~Got(q, t)'
         /\ Coming(q, t)' => Pushed(q, t)' /\ ~Got(q, t)'
         /\ Got(q, t)' => Pushed(q, t)'
    BY <1>2, <1>7, <2>1 DEF OnceOK
  <2>3. \A i : TickAt(q, i) => /\ i \in 1..Len(down[q]) /\ down'[q][i] = down[q][i]
                              /\ down[q][i] # new /\ down[q][i] \in Ticks
    <3>1. SUFFICES ASSUME NEW i, TickAt(q, i)
                   PROVE  /\ i \in 1..Len(down[q]) /\ down'[q][i] = down[q][i]
                          /\ down[q][i] # new /\ down[q][i] \in Ticks
      OBVIOUS
    <3>2. i \in 1..Len(down[q])
      BY <3>1 DEF TickAt
    <3>3. down[q][i] \in Ticks /\ Coming(q, down[q][i])
      BY <3>1, <3>2 DEF OnceOK, Coming
    <3>4. QED
      BY <1>1, <2>1, <3>2, <3>3
  <2>4. ASSUME NEW i, TickAt(q, i)', ~TickAt(q, i)
        PROVE  i = Len(down'[q]) /\ down'[q][i] = new
    <3>1. i = Len(down'[q])
      BY <1>7, <2>4
    <3>2. QED
      BY <1>7, <3>1
  <2>5. ASSUME NEW i \in 1..Len(down'[q]), NEW j \in 1..Len(down'[q]),
               TickAt(q, i)', TickAt(q, j)', down'[q][i] = down'[q][j]
        PROVE  i = j
    BY <2>3, <2>4, <2>5 DEF OnceOK
  <2>6. \A i \in 1..Len(down'[q]) : TickAt(q, i)' => down'[q][i] \in Ticks
    BY <1>7, <2>3, <2>4
  <2>7. QED
    BY <1>1, <1>3, <1>4, <1>5, <1>7, <2>2, <2>5, <2>6 DEF OnceOK
<1>8. \/ /\ \A i : TickAt(q, i)' <=> TickAt(q, i)
         /\ \A t : Coming(q, t)' <=> Coming(q, t)
         /\ \A t \in Ticks : UnderWay(q, t)' <=> UnderWay(q, t)
      \/ \E new : /\ new \in Ticks /\ holder[q] = new /\ holder'[q] = Nobody
                  /\ \A i : TickAt(q, i)' <=> TickAt(q, i) \/ i = Len(down'[q])
                  /\ \A t : Coming(q, t)' <=> Coming(q, t) \/ t = new
                  /\ \A t \in Ticks : UnderWay(q, t)' <=> UnderWay(q, t) /\ t # new
                  /\ Len(down[q]) < Len(down'[q]) /\ down'[q][Len(down'[q])] = new
  BY PlaceWritten
<1>9. QED
  BY <1>6, <1>7, <1>8

LEMMA OrderWritten ==
    ASSUME StreamInv, PushOK, NEW q \in Players, Write(q), OnceOK(q), OrderOK(q)
    PROVE  OrderOK(q)'
<1>1. /\ UNCHANGED <<got, open, tick, todo, pending>> /\ open[q]
      /\ Len(down[q]) \in Nat /\ Len(down'[q]) \in Nat
      /\ \A i \in 1..Len(down[q]) : i \in 1..Len(down'[q]) /\ down'[q][i] = down[q][i]
  BY PlaceWritten
<1>2. \A i \in 1..Len(got'[q]) : got'[q][i] = i
  BY <1>1 DEF OrderOK
<1>3. PICK last \in Int : ComingUpto(q, last)
  BY DEF OrderOK
<1>4. Len(got[q]) \in Nat /\ tick \in Nat /\ MaxTicks \in Nat /\ tick <= MaxTicks
  BY WireAssumption DEF PushOK, StreamInv, Shape
<1>5. Ticks' = Ticks
  BY DEF Ticks
<1>6. CASE /\ \A i : TickAt(q, i)' <=> TickAt(q, i)
           /\ \A t : Coming(q, t)' <=> Coming(q, t)
           /\ \A t \in Ticks : UnderWay(q, t)' <=> UnderWay(q, t)
  <2>1. \A t \in Ticks : UnderWay(q, t)' => pending' = q /\ t = tick'
    BY <1>1, <1>6 DEF OrderOK
  <2>2. \A i : TickAt(q, i)' => TickAt(q, i) /\ i \in 1..Len(down[q]) /\ down'[q][i] = down[q][i]
    BY <1>1, <1>6 DEF TickAt
  <2>3. \A i, j \in 1..Len(down'[q]) :
          TickAt(q, i)' /\ TickAt(q, j)' /\ i < j => down'[q][i] < down'[q][j]
    BY <2>2 DEF OrderOK
  <2>4. tick >= 1 => Upto(q)' = Upto(q)
    <3>1. PICK k : k = tick
      OBVIOUS
    <3>2. tick >= 1 => k \in Ticks
      BY <1>4, <3>1 DEF Ticks
    <3>3. tick >= 1 => (UnderWay(q, k)' <=> UnderWay(q, k))
      BY <1>6, <3>2
    <3>4. QED
      BY <1>1, <3>1, <3>3 DEF Upto, UnderWay
  <2>5. ComingUpto(q, last)'
    BY <1>1, <1>3, <1>5, <1>6, <2>4 DEF ComingUpto
  <2>6. QED
    BY <1>2, <1>5, <2>1, <2>3, <2>5 DEF OrderOK
<1>7. ASSUME NEW new, new \in Ticks, holder[q] = new, holder'[q] = Nobody,
             \A i : TickAt(q, i)' <=> TickAt(q, i) \/ i = Len(down'[q]),
             \A t : Coming(q, t)' <=> Coming(q, t) \/ t = new,
             \A t \in Ticks : UnderWay(q, t)' <=> UnderWay(q, t) /\ t # new,
             Len(down[q]) < Len(down'[q]), down'[q][Len(down'[q])] = new
      PROVE  OrderOK(q)'
  <2>1. UnderWay(q, new) /\ ~Coming(q, new) /\ pending = q /\ new = tick
    BY <1>7 DEF OnceOK, OrderOK, UnderWay
  <2>2. q \notin todo /\ q \in Battlers /\ tick >= 1
    BY <2>1, WireAssumption DEF PushOK
  <2>3. last = tick - 1
    BY <1>1, <1>3, <2>1, <2>2 DEF ComingUpto, Upto
  <2>4. \A t \in Ticks : ~UnderWay(q, t)'
    BY <1>7, <2>1 DEF OrderOK
  <2>5. \A i : TickAt(q, i) => /\ i \in 1..Len(down[q]) /\ i \in 1..Len(down'[q])
                              /\ down'[q][i] = down[q][i] /\ down[q][i] < new
    <3>1. SUFFICES ASSUME NEW i, TickAt(q, i)
                   PROVE  /\ i \in 1..Len(down[q]) /\ i \in 1..Len(down'[q])
                          /\ down'[q][i] = down[q][i] /\ down[q][i] < new
      OBVIOUS
    <3>2. i \in 1..Len(down[q]) /\ down[q][i] \in Ticks /\ Coming(q, down[q][i])
      BY <3>1 DEF TickAt, Coming, OnceOK
    <3>3. down[q][i] \in (Len(got[q]) + 1)..last
      BY <1>3, <3>2 DEF ComingUpto
    <3>4. down[q][i] < new
      BY <1>4, <2>1, <2>3, <3>3
    <3>5. QED
      BY <1>1, <3>2, <3>4
  <2>6. \A i, j \in 1..Len(down'[q]) :
          TickAt(q, i)' /\ TickAt(q, j)' /\ i < j => down'[q][i] < down'[q][j]
    <3>1. SUFFICES ASSUME NEW i \in 1..Len(down'[q]), NEW j \in 1..Len(down'[q]),
                          TickAt(q, i)', TickAt(q, j)', i < j
                   PROVE  down'[q][i] < down'[q][j]
      OBVIOUS
    <3>2. i # Len(down'[q])
      BY <1>1, <3>1
    <3>3. TickAt(q, i)
      BY <1>7, <3>1, <3>2
    <3>4. CASE TickAt(q, j)
      BY <2>5, <3>1, <3>3, <3>4 DEF OrderOK
    <3>5. CASE j = Len(down'[q])
      BY <1>7, <2>5, <3>3, <3>5
    <3>6. QED
      BY <1>7, <3>1, <3>4, <3>5
  <2>7. ComingUpto(q, tick)'
    <3>1. last \in Len(got[q])..tick
      BY <1>3 DEF ComingUpto
    <3>2. tick \in Len(got[q])..tick /\ tick \in Int
      BY <1>4, <3>1
    <3>3. ASSUME NEW t \in Ticks PROVE Coming(q, t)' <=> t \in (Len(got[q]) + 1)..tick
      <4>1. Coming(q, t) <=> t \in (Len(got[q]) + 1)..last
        BY <1>3 DEF ComingUpto
      <4>2. t \in Int
        BY DEF Ticks
      <4>3. t \in (Len(got[q]) + 1)..tick <=> t \in (Len(got[q]) + 1)..last \/ t = tick
        BY <1>4, <2>3, <3>1, <4>2
      <4>4. QED
        BY <1>7, <2>1, <4>1, <4>3
    <3>4. Upto(q)' = tick
      <4>1. PICK k : k = tick
        OBVIOUS
      <4>2. k \in Ticks
        BY <1>4, <2>2, <4>1 DEF Ticks
      <4>3. ~UnderWay(q, k)'
        BY <2>4, <4>2
      <4>4. QED
        BY <1>1, <2>2, <4>1, <4>3 DEF Upto, UnderWay
    <3>5. QED
      BY <1>1, <1>5, <3>2, <3>3, <3>4 DEF ComingUpto
  <2>8. QED
    BY <1>1, <1>2, <1>4, <1>5, <2>4, <2>6, <2>7 DEF OrderOK
<1>8. \/ /\ \A i : TickAt(q, i)' <=> TickAt(q, i)
         /\ \A t : Coming(q, t)' <=> Coming(q, t)
         /\ \A t \in Ticks : UnderWay(q, t)' <=> UnderWay(q, t)
      \/ \E new : /\ new \in Ticks /\ holder[q] = new /\ holder'[q] = Nobody
                  /\ \A i : TickAt(q, i)' <=> TickAt(q, i) \/ i = Len(down'[q])
                  /\ \A t : Coming(q, t)' <=> Coming(q, t) \/ t = new
                  /\ \A t \in Ticks : UnderWay(q, t)' <=> UnderWay(q, t) /\ t # new
                  /\ Len(down[q]) < Len(down'[q]) /\ down'[q][Len(down'[q])] = new
  BY PlaceWritten
<1>9. QED
  BY <1>6, <1>7, <1>8

\* A player reads the frame he has read the first word of: it is the first one under way.
LEMMA PlaceReceived ==
    ASSUME StreamInv, NEW q \in Players, Receive(q), OnceOK(q), got \in [Players -> Seq(Nat)]
    PROVE  /\ UNCHANGED <<open, waiting, holder, rest, tick, todo, pending, missed, late>>
           /\ Len(down[q]) \in Nat /\ Len(down'[q]) = Len(down[q]) - 1 /\ Len(down[q]) >= 1
           /\ \A i \in 1..Len(down'[q]) :
                /\ i + 1 \in 1..Len(down[q]) /\ down'[q][i] = down[q][i + 1]
                /\ TickAt(q, i)' <=> TickAt(q, i + 1)
           /\ \A t : Coming(q, t) <=> Coming(q, t)' \/ (TickAt(q, 1) /\ down[q][1] = t)
           /\ \A t : TickAt(q, 1) /\ down[q][1] = t => ~Coming(q, t)'
           /\ got'[q] = IF TickAt(q, 1) THEN Append(got[q], down[q][1]) ELSE got[q]
<1>1. /\ UNCHANGED <<open, waiting, holder, rest, tick, todo, pending, missed, late>>
      /\ got' = [got EXCEPT ![q] = IF begun[q] /\ down[q][1] <= MaxTicks
                                   THEN Append(@, down[q][1]) ELSE @]
  BY DEF Receive, lock, game
<1>2. /\ Len(down[q]) \in Nat /\ Len(down'[q]) = Len(down[q]) - 1 /\ Len(down[q]) >= 1
      /\ \A i \in 1..Len(down'[q]) :
           /\ i + 1 \in 1..Len(down[q]) /\ down'[q][i] = down[q][i + 1]
           /\ TickAt(q, i)' <=> TickAt(q, i + 1)
      /\ TickAt(q, 1) <=> begun[q] /\ down[q][1] <= MaxTicks
  BY ReceiveEffect
<1>3. ASSUME NEW t PROVE Coming(q, t)' => \E j \in 1..Len(down[q]) :
                           j # 1 /\ TickAt(q, j) /\ down[q][j] = t
  <2>1. SUFFICES ASSUME Coming(q, t)' PROVE \E j \in 1..Len(down[q]) :
                           j # 1 /\ TickAt(q, j) /\ down[q][j] = t
    OBVIOUS
  <2>2. PICK i \in 1..Len(down'[q]) : TickAt(q, i)' /\ down'[q][i] = t
    BY <2>1 DEF Coming
  <2>3. i + 1 \in 1..Len(down[q]) /\ i + 1 # 1 /\ TickAt(q, i + 1) /\ down[q][i + 1] = t
    BY <1>2, <2>2
  <2>4. QED
    BY <2>3
<1>4. ASSUME NEW t, NEW j \in 1..Len(down[q]), j # 1, TickAt(q, j), down[q][j] = t
      PROVE  Coming(q, t)'
  <2>1. PICK i \in 1..Len(down'[q]) : j = i + 1
    <3>1. j - 1 \in 1..Len(down'[q]) /\ j = (j - 1) + 1
      BY <1>2, <1>4
    <3>2. QED
      BY <3>1
  <2>2. TickAt(q, i)' /\ down'[q][i] = t
    BY <1>2, <1>4, <2>1
  <2>3. QED
    BY <2>2 DEF Coming
<1>5. ASSUME NEW t PROVE Coming(q, t) <=> Coming(q, t)' \/ (TickAt(q, 1) /\ down[q][1] = t)
  <2>1. 1 \in 1..Len(down[q])
    BY <1>2
  <2>2. QED
    BY <1>3, <1>4, <2>1 DEF Coming
<1>6. ASSUME NEW t, TickAt(q, 1), down[q][1] = t PROVE ~Coming(q, t)'
  <2>1. 1 \in 1..Len(down[q])
    BY <1>2
  <2>2. QED
    BY <1>3, <1>6, <2>1 DEF OnceOK
<1>7. got'[q] = IF TickAt(q, 1) THEN Append(got[q], down[q][1]) ELSE got[q]
  <2>1. got'[q] = IF begun[q] /\ down[q][1] <= MaxTicks THEN Append(got[q], down[q][1]) ELSE got[q]
    BY <1>1
  <2>2. QED
    BY <1>2, <2>1
<1>8. QED
  BY <1>1, <1>2, <1>5, <1>6, <1>7

\* What Append does.
LEMMA OneMoreAtEnd ==
    ASSUME NEW S, NEW g \in Seq(S), NEW e \in S
    PROVE  /\ Append(g, e) \in Seq(S) /\ Len(Append(g, e)) = Len(g) + 1 /\ Len(g) \in Nat
           /\ \A i \in 1..Len(g) : Append(g, e)[i] = g[i]
           /\ Append(g, e)[Len(g) + 1] = e
BY AppendProperties

LEMMA OnceReceived ==
    ASSUME StreamInv, NEW q \in Players, Receive(q), OnceOK(q), got \in [Players -> Seq(Nat)]
    PROVE  OnceOK(q)'
<1>1. /\ UNCHANGED <<open, waiting, holder, rest, tick, todo>>
      /\ Len(down[q]) \in Nat /\ Len(down'[q]) = Len(down[q]) - 1 /\ Len(down[q]) >= 1
      /\ \A i \in 1..Len(down'[q]) :
           /\ i + 1 \in 1..Len(down[q]) /\ down'[q][i] = down[q][i + 1]
           /\ TickAt(q, i)' <=> TickAt(q, i + 1)
      /\ \A t : Coming(q, t) <=> Coming(q, t)' \/ (TickAt(q, 1) /\ down[q][1] = t)
      /\ \A t : TickAt(q, 1) /\ down[q][1] = t => ~Coming(q, t)'
      /\ got'[q] = IF TickAt(q, 1) THEN Append(got[q], down[q][1]) ELSE got[q]
  BY PlaceReceived
<1>2. /\ \A t : UnderWay(q, t)' <=> UnderWay(q, t)
      /\ \A t : Pushed(q, t)' <=> Pushed(q, t)
      /\ \A t \in Ticks : ~(t \in waiting'[q] /\ holder'[q] = t)
      /\ holder'[q] # Nobody /\ open'[q] => rest'[q][Len(rest'[q])] = holder'[q]
  BY <1>1 DEF UnderWay, Pushed, OnceOK
<1>3. Ticks' = Ticks
  BY DEF Ticks
<1>4. Len(down'[q]) <= SocketSize
  <2>1. Len(down[q]) <= SocketSize /\ SocketSize \in Nat
    BY WireAssumption DEF OnceOK
  <2>2. QED
    BY <1>1, <2>1
<1>5. \A i \in 1..Len(down'[q]) : TickAt(q, i)' => down'[q][i] \in Ticks
  BY <1>1 DEF OnceOK
<1>6. ASSUME NEW i \in 1..Len(down'[q]), NEW j \in 1..Len(down'[q]),
             TickAt(q, i)', TickAt(q, j)', down'[q][i] = down'[q][j]
      PROVE  i = j
  <2>1. i + 1 = j + 1
    BY <1>1, <1>6 DEF OnceOK
  <2>2. QED
    BY <2>1
<1>7. got[q] \in Seq(Ticks) /\ \A i, j \in 1..Len(got[q]) : got[q][i] = got[q][j] => i = j
  BY DEF OnceOK
<1>8. CASE ~TickAt(q, 1)
  <2>1. /\ got'[q] = got[q] /\ \A t : Coming(q, t)' <=> Coming(q, t)
    BY <1>1, <1>8
  <2>2. \A t : Got(q, t)' <=> Got(q, t)
    BY <2>1 DEF Got
  <2>3. \A t \in Ticks :
         /\ UnderWay(q, t)' => Pushed(q, t)' /\ ~Coming(q, t)' /\ ~Got(q, t)'
         /\ Coming(q, t)' => Pushed(q, t)' /\ ~Got(q, t)'
         /\ Got(q, t)' => Pushed(q, t)'
    BY <1>2, <2>1, <2>2 DEF OnceOK
  <2>4. QED
    BY <1>2, <1>3, <1>4, <1>5, <1>6, <1>7, <2>1, <2>3 DEF OnceOK
<1>9. CASE TickAt(q, 1)
  <2>a. PICK e, g, l : e = down[q][1] /\ g = got[q] /\ l = Len(got[q])
    OBVIOUS
  <2>1. e \in Ticks /\ Coming(q, e) /\ ~Coming(q, e)' /\ ~Got(q, e) /\ Pushed(q, e)
        /\ ~UnderWay(q, e)
    <3>1. 1 \in 1..Len(down[q])
      BY <1>1
    <3>2. e \in Ticks /\ Coming(q, e) /\ ~Coming(q, e)'
      BY <1>1, <1>9, <2>a, <3>1 DEF OnceOK
    <3>3. QED
      BY <3>2 DEF OnceOK
  <2>2. /\ got'[q] = Append(g, e) /\ g \in Seq(Ticks)
        /\ Append(g, e) \in Seq(Ticks) /\ Len(Append(g, e)) = l + 1 /\ l \in Nat
        /\ \A i \in 1..l : Append(g, e)[i] = g[i]
        /\ Append(g, e)[l + 1] = e
    BY <1>1, <1>7, <1>9, <2>1, <2>a, OneMoreAtEnd
  <2>3. 1..(l + 1) = (1..l) \cup {l + 1}
    BY <2>2
  <2>4. \A t : Got(q, t)' <=> Got(q, t) \/ t = e
    <3>1. \A t : Got(q, t)' <=> \E i \in 1..(l + 1) : Append(g, e)[i] = t
      BY <2>2 DEF Got
    <3>2. \A t : Got(q, t) <=> \E i \in 1..l : g[i] = t
      BY <2>a DEF Got
    <3>3. QED
      BY <2>2, <2>3, <3>1, <3>2
  <2>5. \A t \in Ticks :
         /\ UnderWay(q, t)' => Pushed(q, t)' /\ ~Coming(q, t)' /\ ~Got(q, t)'
         /\ Coming(q, t)' => Pushed(q, t)' /\ ~Got(q, t)'
         /\ Got(q, t)' => Pushed(q, t)'
    BY <1>1, <1>2, <2>1, <2>4 DEF OnceOK
  <2>6. \A i \in 1..l : g[i] # e
    BY <2>1, <2>a DEF Got
  <2>7. \A i, j \in 1..Len(got'[q]) : got'[q][i] = got'[q][j] => i = j
    BY <1>7, <2>2, <2>3, <2>6, <2>a
  <2>8. QED
    BY <1>2, <1>3, <1>4, <1>5, <1>6, <2>2, <2>5, <2>7 DEF OnceOK
<1>10. QED
  BY <1>8, <1>9

LEMMA OrderReceived ==
    ASSUME StreamInv, NEW q \in Players, Receive(q), OnceOK(q), OrderOK(q),
           got \in [Players -> Seq(Nat)]
    PROVE  OrderOK(q)'
<1>1. /\ UNCHANGED <<open, waiting, holder, rest, tick, todo, pending>>
      /\ Len(down[q]) \in Nat /\ Len(down'[q]) = Len(down[q]) - 1 /\ Len(down[q]) >= 1
      /\ \A i \in 1..Len(down'[q]) :
           /\ i + 1 \in 1..Len(down[q]) /\ down'[q][i] = down[q][i + 1]
           /\ TickAt(q, i)' <=> TickAt(q, i + 1)
      /\ \A t : Coming(q, t) <=> Coming(q, t)' \/ (TickAt(q, 1) /\ down[q][1] = t)
      /\ \A t : TickAt(q, 1) /\ down[q][1] = t => ~Coming(q, t)'
      /\ got'[q] = IF TickAt(q, 1) THEN Append(got[q], down[q][1]) ELSE got[q]
  BY PlaceReceived
<1>2. /\ \A t : UnderWay(q, t)' <=> UnderWay(q, t)
      /\ Upto(q)' = Upto(q) /\ Ticks' = Ticks
  BY <1>1 DEF UnderWay, Upto, Ticks
<1>3. \A t \in Ticks : UnderWay(q, t)' => pending' = q /\ t = tick'
  BY <1>1, <1>2 DEF OrderOK
<1>4. ASSUME NEW i \in 1..Len(down'[q]), NEW j \in 1..Len(down'[q]),
             TickAt(q, i)', TickAt(q, j)', i < j
      PROVE  down'[q][i] < down'[q][j]
  <2>1. i + 1 < j + 1
    BY <1>4
  <2>2. QED
    BY <1>1, <1>4, <2>1 DEF OrderOK
<1>5. PICK last \in Int : ComingUpto(q, last)
  BY DEF OrderOK
<1>6. CASE ~TickAt(q, 1)
  <2>1. got'[q] = got[q] /\ \A t : Coming(q, t)' <=> Coming(q, t)
    BY <1>1, <1>6
  <2>2. ComingUpto(q, last)'
    BY <1>1, <1>2, <1>5, <2>1 DEF ComingUpto
  <2>3. QED
    BY <1>2, <1>3, <1>4, <2>1, <2>2 DEF OrderOK
<1>7. CASE TickAt(q, 1)
  <2>a. PICK e, g, l : e = down[q][1] /\ g = got[q] /\ l = Len(got[q])
    OBVIOUS
  <2>1. 1 \in 1..Len(down[q]) /\ e \in Ticks /\ Coming(q, e) /\ ~Coming(q, e)'
    <3>1. 1 \in 1..Len(down[q])
      BY <1>1
    <3>2. QED
      BY <1>1, <1>7, <2>a, <3>1 DEF OnceOK
  <2>2. /\ got'[q] = Append(g, e) /\ g \in Seq(Ticks)
        /\ Len(Append(g, e)) = l + 1 /\ l \in Nat
        /\ \A i \in 1..l : Append(g, e)[i] = g[i]
        /\ Append(g, e)[l + 1] = e
    <3>1. g \in Seq(Ticks)
      BY <2>a DEF OnceOK
    <3>2. QED
      BY <1>1, <1>7, <2>1, <2>a, <3>1, OneMoreAtEnd
  <2>3. last \in l..tick /\ tick \in Nat /\ MaxTicks \in Nat /\ tick <= MaxTicks
    BY <1>5, <2>a, WireAssumption DEF ComingUpto, StreamInv, Shape
  <2>4. e \in (l + 1)..last
    BY <1>5, <2>1, <2>a DEF ComingUpto
  <2>5. e = l + 1
    <3>1. l + 1 \in Ticks /\ l + 1 \in (l + 1)..last
      BY <2>2, <2>3, <2>4 DEF Ticks
    <3>2. Coming(q, l + 1)
      BY <1>5, <2>a, <3>1 DEF ComingUpto
    <3>3. PICK j \in 1..Len(down[q]) : TickAt(q, j) /\ down[q][j] = l + 1
      BY <3>2 DEF Coming
    <3>4. j # 1 => 1 < j
      BY <1>1, <3>3
    <3>5. j # 1 => e < l + 1
      BY <1>7, <2>1, <2>a, <3>3, <3>4 DEF OrderOK
    <3>6. QED
      BY <2>2, <2>4, <2>a, <3>3, <3>5
  <2>6. \A i \in 1..Len(got'[q]) : got'[q][i] = i
    <3>1. 1..(l + 1) = (1..l) \cup {l + 1}
      BY <2>2
    <3>2. \A i \in 1..l : g[i] = i
      BY <2>a DEF OrderOK
    <3>3. QED
      BY <2>2, <2>5, <3>1, <3>2
  <2>7. Len(got'[q]) = l + 1
    BY <2>2
  <2>8. last \in (l + 1)..tick
    BY <2>2, <2>3, <2>4
  <2>9. ASSUME NEW t \in Ticks PROVE Coming(q, t)' <=> t \in (l + 1 + 1)..last
    <3>1. Coming(q, t) <=> t \in (l + 1)..last
      BY <1>5, <2>a DEF ComingUpto
    <3>2. Coming(q, t)' <=> Coming(q, t) /\ t # l + 1
      BY <1>1, <2>1, <2>5, <2>a
    <3>3. t \in (l + 1 + 1)..last <=> t \in (l + 1)..last /\ t # l + 1
      <4>1. t \in Int
        BY DEF Ticks
      <4>2. QED
        BY <2>2, <2>8, <4>1
    <3>4. QED
      BY <3>1, <3>2, <3>3
  <2>10. ComingUpto(q, last)'
    BY <1>1, <1>2, <1>5, <2>7, <2>8, <2>9 DEF ComingUpto
  <2>11. QED
    BY <1>2, <1>3, <1>4, <2>6, <2>10 DEF OrderOK
<1>8. QED
  BY <1>6, <1>7

-----------------------------------------------------------------------------
\* Whether the tick under way is still to come to p.
LEMMA UptoKept ==
    ASSUME StreamInv, NEW p, tick' = tick, tick >= 1, todo' = todo,
           \A t \in Ticks : UnderWay(p, t)' <=> UnderWay(p, t)
    PROVE  Upto(p)' = Upto(p)
<1>1. PICK k : k = tick
  OBVIOUS
<1>2. k \in Ticks
  BY <1>1, WireAssumption DEF Ticks, StreamInv, Shape
<1>3. UnderWay(p, k)' <=> UnderWay(p, k)
  BY <1>2
<1>4. QED
  BY <1>1, <1>3 DEF Upto, UnderWay

\* Who has nothing to do with a step.
LEMMA StayPut ==
    ASSUME StreamInv, PushOK, NEW p \in Players, PlaceOK(p), Unmoved(p),
           UNCHANGED <<tick, todo, pending, missed, late>>
    PROVE  PlaceOK(p)'
<1>1. OnceOK(p)'
  <2>1. \A t \in Ticks : Pushed(p, t) => Pushed(p, t)'
    BY DEF Pushed
  <2>2. QED
    BY <2>1, OnceKept DEF PlaceOK
<1>2. ASSUME OrderOK(p) PROVE OrderOK(p)'
  <2>1. Len(got[p]) \in Nat /\ tick \in Nat
    BY WireAssumption DEF PushOK, StreamInv, Shape
  <2>2. tick >= 1 => Upto(p)' = Upto(p)
    BY SamePlaces, UptoKept
  <2>3. tick <= tick' /\ tick' \in Nat /\ (tick' >= 1 <=> tick >= 1)
    BY <2>1
  <2>4. QED
    BY <1>2, <2>1, <2>2, <2>3, OrderKept
<1>3. QED
  BY <1>1, <1>2 DEF PlaceOK

\* A new tick has been pushed to nobody.
LEMMA PlaceTick ==
    ASSUME StreamInv, PushOK, NEW p \in Players, PlaceOK(p), Tick
    PROVE  PlaceOK(p)'
<1>1. /\ todo = {} /\ pending = NoPlayer /\ tick' = tick + 1 /\ todo' = Battlers
      /\ UNCHANGED <<pending, missed, late, lock, open, down, begun, got>>
  BY DEF Tick, client
<1>2. Unmoved(p) /\ tick \in Nat /\ Len(got[p]) \in Nat
  BY <1>1, WireAssumption DEF Unmoved, lock, StreamInv, Shape, PushOK
<1>3. OnceOK(p)'
  <2>1. \A t \in Ticks : Pushed(p, t) => Pushed(p, t)'
    BY <1>1, <1>2 DEF Pushed, Ticks
  <2>2. QED
    BY <1>2, <2>1, OnceKept DEF PlaceOK
<1>4. ASSUME OrderOK(p) PROVE OrderOK(p)'
  <2>1. \A t \in Ticks : ~UnderWay(p, t)
    BY <1>1, <1>4, WireAssumption DEF OrderOK
  <2>2. p \in Battlers => Upto(p)' = tick
    BY <1>1, <1>2 DEF Upto
  <2>3. tick >= 1 => Upto(p) = tick
    <3>1. tick >= 1 => tick \in Ticks
      BY WireAssumption DEF Ticks, StreamInv, Shape
    <3>2. QED
      BY <1>1, <2>1, <3>1 DEF Upto
  <2>4. tick' \in Nat /\ tick <= tick' /\ (tick >= 1 \/ tick = 0)
    BY <1>1, <1>2
  <2>5. open[p] /\ p \in Battlers /\ tick' >= 1 =>
             (tick >= 1 /\ Upto(p)' = Upto(p)) \/ (tick = 0 /\ Upto(p)' = 0)
    BY <2>2, <2>3, <2>4
  <2>6. QED
    BY <1>2, <1>4, <2>1, <2>4, <2>5, OrderKept
<1>5. QED
  BY <1>1, <1>3, <1>4 DEF PlaceOK

\* A push of it is with the handler, if there is one.
LEMMA PlacePushed ==
    ASSUME StreamInv, PushOK, NEW q \in Players, PlaceOK(q), Push(q)
    PROVE  PlaceOK(q)'
<1>1. /\ q \in todo /\ pending = NoPlayer /\ todo' = todo \ {q} /\ pending' = q
      /\ UNCHANGED <<tick, missed, late, open, holder, rest, down, begun, got>>
      /\ waiting'[q] = waiting[q] \cup IF open[q] THEN {tick} ELSE {}
  BY DEF Push, Handler, client, StreamInv, Shape
<1>2. tick \in Ticks /\ tick >= 1 /\ tick \in Nat
  BY <1>1, WireAssumption DEF StreamInv, Shape, Ticks
<1>a. PICK k : k = tick
  OBVIOUS
<1>3. /\ \A i : TickAt(q, i)' <=> TickAt(q, i)
      /\ \A t : Coming(q, t)' <=> Coming(q, t)
      /\ \A t : Got(q, t)' <=> Got(q, t)
      /\ \A t \in Ticks : UnderWay(q, t)' <=> UnderWay(q, t) \/ (open[q] /\ t = k)
      /\ \A t \in Ticks : Pushed(q, t) => Pushed(q, t)' /\ t # k
      /\ Pushed(q, k)'
  <2>1. Half(q)' = Half(q)
    BY <1>1 DEF Half
  <2>2. \A i : TickAt(q, i)' <=> TickAt(q, i)
    BY <1>1, <2>1 DEF TickAt
  <2>3. \A t \in Ticks : UnderWay(q, t)' <=> UnderWay(q, t) \/ (open[q] /\ t = k)
    BY <1>1, <1>a DEF UnderWay
  <2>4. (\A t \in Ticks : Pushed(q, t) => Pushed(q, t)' /\ t # k) /\ Pushed(q, k)'
    BY <1>1, <1>2, <1>a DEF Pushed
  <2>5. QED
    BY <1>1, <2>2, <2>3, <2>4 DEF Coming, Got
<1>4. Ticks' = Ticks
  BY DEF Ticks
<1>5. ~UnderWay(q, k) /\ ~Coming(q, k) /\ ~Got(q, k) /\ k \in Ticks
  BY <1>2, <1>3, <1>a DEF PlaceOK, OnceOK
<1>6. OnceOK(q)'
  <2>1. \A t \in Ticks :
         /\ UnderWay(q, t)' => Pushed(q, t)' /\ ~Coming(q, t)' /\ ~Got(q, t)'
         /\ Coming(q, t)' => Pushed(q, t)' /\ ~Got(q, t)'
         /\ Got(q, t)' => Pushed(q, t)'
    BY <1>3, <1>5 DEF PlaceOK, OnceOK
  <2>2. \A t \in Ticks : ~(t \in waiting'[q] /\ holder'[q] = t)
    <3>1. holder[q] # k
      BY <1>5 DEF UnderWay
    <3>2. QED
      BY <1>1, <1>a, <3>1 DEF PlaceOK, OnceOK
  <2>3. /\ got'[q] \in Seq(Ticks) /\ Len(down'[q]) <= SocketSize
        /\ holder'[q] # Nobody /\ open'[q] => rest'[q][Len(rest'[q])] = holder'[q]
        /\ \A i, j \in 1..Len(got'[q]) : got'[q][i] = got'[q][j] => i = j
        /\ \A i, j \in 1..Len(down'[q]) :
             TickAt(q, i)' /\ TickAt(q, j)' /\ down'[q][i] = down'[q][j] => i = j
        /\ \A i \in 1..Len(down'[q]) : TickAt(q, i)' => down'[q][i] \in Ticks
    BY <1>1, <1>3 DEF PlaceOK, OnceOK
  <2>4. QED
    BY <1>4, <2>1, <2>2, <2>3 DEF OnceOK
<1>7. ASSUME OrderOK(q) PROVE OrderOK(q)'
  <2>1. \A t \in Ticks : UnderWay(q, t)' => pending' = q /\ t = tick'
    BY <1>1, <1>3, <1>7, <1>a, WireAssumption DEF OrderOK
  <2>2. /\ \A i \in 1..Len(got'[q]) : got'[q][i] = i
        /\ \A i, j \in 1..Len(down'[q]) :
             TickAt(q, i)' /\ TickAt(q, j)' /\ i < j => down'[q][i] < down'[q][j]
    BY <1>1, <1>3, <1>7 DEF OrderOK
  <2>3. PICK last \in Int : ComingUpto(q, last)
    BY <1>7 DEF OrderOK
  <2>4. Upto(q) = tick - 1 /\ (open[q] => Upto(q)' = tick - 1)
    <3>1. open[q] => UnderWay(q, k)'
      BY <1>3, <1>5
    <3>2. QED
      BY <1>1, <1>a, <3>1 DEF Upto, UnderWay
  <2>5. ComingUpto(q, last)'
    BY <1>1, <1>2, <1>3, <1>4, <2>3, <2>4 DEF ComingUpto
  <2>6. QED
    BY <1>4, <2>1, <2>2, <2>5 DEF OrderOK
<1>8. QED
  BY <1>1, <1>6, <1>7 DEF PlaceOK

\* A push that fails leaves nothing behind.
LEMMA PlaceUnpushed ==
    ASSUME StreamInv, PushOK, NEW q \in Players, NEW p \in Players, PlaceOK(p), PushFails(q)
    PROVE  PlaceOK(p)'
<1>1. /\ q \in todo /\ todo' = todo \ {q} /\ missed'[q] /\ (p # q => missed'[p] = missed[p])
      /\ UNCHANGED <<tick, pending, late, lock, open, down, begun, got>>
  BY DEF PushFails, client, PushOK
<1>2. Unmoved(p) /\ tick \in Nat /\ Len(got[p]) \in Nat
  BY <1>1, WireAssumption DEF Unmoved, lock, StreamInv, Shape, PushOK
<1>3. OnceOK(p)'
  <2>1. \A t \in Ticks : Pushed(p, t) => Pushed(p, t)'
    BY <1>1 DEF Pushed
  <2>2. QED
    BY <1>2, <2>1, OnceKept DEF PlaceOK
<1>4. ASSUME OrderOK(p), p # q PROVE OrderOK(p)'
  <2>1. Upto(p)' = Upto(p)
    BY <1>1, <1>4 DEF Upto, UnderWay, lock
  <2>2. tick <= tick' /\ tick' \in Nat /\ tick' = tick /\ (tick' >= 1 => tick >= 1)
    BY <1>1, <1>2
  <2>3. \A t \in Ticks : UnderWay(p, t) => pending' = pending /\ tick' = tick
    BY <1>1
  <2>4. QED
    BY <1>2, <1>4, <2>1, <2>2, <2>3, OrderKept
<1>5. QED
  BY <1>1, <1>3, <1>4 DEF PlaceOK

\* A call that returns, or is given up, is not under way to anybody whose calls have all returned.
LEMMA PlaceReturned ==
    ASSUME StreamInv, PushOK, NEW p \in Players, PlaceOK(p), PushReturns \/ PushTimesOut
    PROVE  PlaceOK(p)'
<1>1. /\ pending # NoPlayer /\ pending' = NoPlayer
      /\ UNCHANGED <<tick, todo, missed, lock, open, down, begun, got>>
  BY DEF PushReturns, PushTimesOut, client
<1>2. Unmoved(p) /\ tick \in Nat /\ Len(got[p]) \in Nat
  BY <1>1, WireAssumption DEF Unmoved, lock, StreamInv, Shape, PushOK
<1>3. OnceOK(p)'
  <2>1. \A t \in Ticks : Pushed(p, t) => Pushed(p, t)'
    BY <1>1 DEF Pushed
  <2>2. QED
    BY <1>2, <2>1, OnceKept DEF PlaceOK
<1>4. ~late'[p] => ~late[p] /\ (pending # p \/ ~UnderWay(pending, tick))
  BY DEF PushReturns, PushTimesOut, PushOK
<1>5. ASSUME OrderOK(p), ~late'[p] PROVE OrderOK(p)'
  <2>1. \A t \in Ticks : ~UnderWay(p, t)
    BY <1>4, <1>5 DEF OrderOK
  <2>2. tick >= 1 => Upto(p)' = Upto(p)
    BY <1>1, <1>2, SamePlaces, UptoKept
  <2>3. tick <= tick' /\ tick' \in Nat /\ (tick' >= 1 <=> tick >= 1)
    BY <1>1, <1>2
  <2>4. QED
    BY <1>2, <1>5, <2>1, <2>2, <2>3, OrderKept
<1>6. QED
  BY <1>1, <1>3, <1>4, <1>5 DEF PlaceOK

LEMMA PlaceTakesLock ==
    ASSUME StreamInv, PushOK, NEW q \in Players, PlaceOK(q), Lock(q)
    PROVE  PlaceOK(q)'
<1>1. /\ OnceOK(q)'
      /\ UNCHANGED <<down, begun, got, open, tick, todo, pending, missed, late>>
      /\ \A i : TickAt(q, i)' <=> TickAt(q, i)
      /\ \A t : Coming(q, t)' <=> Coming(q, t)
      /\ \A t \in Ticks : UnderWay(q, t)' <=> UnderWay(q, t)
  BY PlaceLocked DEF PlaceOK
<1>2. ASSUME OrderOK(q) PROVE OrderOK(q)'
  <2>1. \A t \in Ticks : UnderWay(q, t)' => pending' = q /\ t = tick'
    BY <1>1, <1>2 DEF OrderOK
  <2>2. /\ \A i \in 1..Len(got'[q]) : got'[q][i] = i
        /\ \A i, j \in 1..Len(down'[q]) :
             TickAt(q, i)' /\ TickAt(q, j)' /\ i < j => down'[q][i] < down'[q][j]
    BY <1>1, <1>2 DEF OrderOK
  <2>3. tick >= 1 => Upto(q)' = Upto(q)
    BY <1>1, UptoKept
  <2>4. Ticks' = Ticks
    BY DEF Ticks
  <2>5. PICK last \in Int : ComingUpto(q, last)
    BY <1>2 DEF OrderOK
  <2>6. ComingUpto(q, last)'
    BY <1>1, <2>3, <2>4, <2>5 DEF ComingUpto
  <2>7. QED
    BY <2>1, <2>2, <2>4, <2>6 DEF OrderOK
<1>3. QED
  BY <1>1, <1>2 DEF PlaceOK

\* A write that fails loses its frame; nothing comes after it, the connection is closed.
LEMMA PlaceLost ==
    ASSUME StreamInv, PushOK, NEW q \in Players, PlaceOK(q), WriteFails(q)
    PROVE  PlaceOK(q)'
<1>1. /\ ~open[q] /\ holder'[q] = Nobody
      /\ UNCHANGED <<waiting, down, begun, got, open, tick, todo, pending, missed, late>>
  BY DEF WriteFails, Unlock, client, game, StreamInv, Shape
<1>2. /\ \A i : TickAt(q, i)' <=> TickAt(q, i)
      /\ \A t : Coming(q, t)' <=> Coming(q, t)
      /\ \A t : Got(q, t)' <=> Got(q, t)
      /\ \A t \in Ticks : UnderWay(q, t)' => UnderWay(q, t)
      /\ \A t : Pushed(q, t)' <=> Pushed(q, t)
  <2>1. Half(q)' = Half(q)
    BY <1>1 DEF Half
  <2>2. \A i : TickAt(q, i)' <=> TickAt(q, i)
    BY <1>1, <2>1 DEF TickAt
  <2>3. \A t \in Ticks : UnderWay(q, t)' => UnderWay(q, t)
    BY <1>1, TickNumbers DEF UnderWay
  <2>4. QED
    BY <1>1, <2>2, <2>3 DEF Coming, Got, Pushed
<1>3. Ticks' = Ticks
  BY DEF Ticks
<1>4. OnceOK(q)'
  <2>1. \A t \in Ticks :
         /\ UnderWay(q, t)' => Pushed(q, t)' /\ ~Coming(q, t)' /\ ~Got(q, t)'
         /\ Coming(q, t)' => Pushed(q, t)' /\ ~Got(q, t)'
         /\ Got(q, t)' => Pushed(q, t)'
    BY <1>2 DEF PlaceOK, OnceOK
  <2>2. \A t \in Ticks : ~(t \in waiting'[q] /\ holder'[q] = t)
    BY <1>1, TickNumbers
  <2>3. /\ got'[q] \in Seq(Ticks) /\ Len(down'[q]) <= SocketSize
        /\ \A i, j \in 1..Len(got'[q]) : got'[q][i] = got'[q][j] => i = j
        /\ \A i, j \in 1..Len(down'[q]) :
             TickAt(q, i)' /\ TickAt(q, j)' /\ down'[q][i] = down'[q][j] => i = j
        /\ \A i \in 1..Len(down'[q]) : TickAt(q, i)' => down'[q][i] \in Ticks
    BY <1>1, <1>2 DEF PlaceOK, OnceOK
  <2>4. QED
    BY <1>1, <1>3, <2>1, <2>2, <2>3 DEF OnceOK
<1>5. ASSUME OrderOK(q) PROVE OrderOK(q)'
  <2>1. \A t \in Ticks : UnderWay(q, t)' => pending' = q /\ t = tick'
    BY <1>1, <1>2, <1>5 DEF OrderOK
  <2>2. /\ \A i \in 1..Len(got'[q]) : got'[q][i] = i
        /\ \A i, j \in 1..Len(down'[q]) :
             TickAt(q, i)' /\ TickAt(q, j)' /\ i < j => down'[q][i] < down'[q][j]
    BY <1>1, <1>2, <1>5 DEF OrderOK
  <2>3. PICK last \in Int : ComingUpto(q, last)
    BY <1>5 DEF OrderOK
  <2>4. ComingUpto(q, last)'
    BY <1>1, <1>2, <1>3, <2>3 DEF ComingUpto
  <2>5. QED
    BY <1>3, <2>1, <2>2, <2>4 DEF OrderOK
<1>6. QED
  BY <1>1, <1>4, <1>5 DEF PlaceOK

LEMMA PushStep == StreamInv /\ PushOK /\ [Next]_vars => PushOK'
<1> SUFFICES ASSUME StreamInv, PushOK, [Next]_vars PROVE PushOK'
  OBVIOUS
<1>0. /\ todo \subseteq Battlers /\ pending \in Battlers \cup {NoPlayer}
      /\ pending # NoPlayer => tick >= 1 /\ pending \notin todo
      /\ got \in [Players -> Seq(Nat)]
      /\ missed \in [Players -> BOOLEAN] /\ late \in [Players -> BOOLEAN]
      /\ kicking \in Players \cup {NoPlayer}
      /\ reads \in [Players -> BOOLEAN] /\ silent \in [Players -> BOOLEAN]
      /\ NoPlayer \notin Players /\ Battlers \subseteq Players
      /\ tick \in Nat /\ (todo # {} => tick >= 1)
  BY WireAssumption DEF PushOK, StreamInv, Shape
<1>1. CASE Tick
  BY <1>0, <1>1 DEF Tick, client, PushOK
<1>2. CASE PushReturns \/ PushTimesOut
  BY <1>0, <1>2 DEF PushReturns, PushTimesOut, client, PushOK
<1>3. ASSUME NEW q \in Players, Push(q) \/ PushFails(q) PROVE PushOK'
  BY <1>0, <1>3 DEF Push, PushFails, client, PushOK
<1>4. ASSUME NEW q \in Players, Receive(q) PROVE PushOK'
  <2>1. down[q] \in Seq(Nat) /\ down[q] # <<>> /\ got[q] \in Seq(Nat)
    BY <1>0, <1>4 DEF Receive, StreamInv, Shape
  <2>2. down[q][1] \in Nat
    BY <2>1
  <2>3. Append(got[q], down[q][1]) \in Seq(Nat)
    BY <2>1, <2>2, OneMoreAtEnd
  <2>4. got' \in [Players -> Seq(Nat)]
    BY <1>0, <1>4, <2>1, <2>3 DEF Receive
  <2>5. UNCHANGED <<game, kicking, reads, silent>>
    BY <1>4 DEF Receive
  <2>6. QED
    BY <1>0, <2>4, <2>5 DEF game, PushOK
<1>5. CASE ScanCloses \/ \E q \in Players : Scan(q)
  BY <1>0, <1>5 DEF ScanCloses, Scan, game, client, PushOK
<1>6. CASE UNCHANGED vars \/ \E q \in Players : Lock(q) \/ Write(q) \/ WriteFails(q) \/ Read(q) \/ Decode(q)
  <2>1. UNCHANGED <<game, kicking, client>>
    BY <1>6 DEF vars, Lock, Write, WriteFails, Read, Decode
  <2>2. QED
    BY <1>0, <2>1 DEF game, client, PushOK
<1>7. CASE \E q \in Players : Send(q) \/ Stall(q) \/ FallSilent(q)
  <2>1. UNCHANGED <<game, kicking, got>>
    BY <1>7 DEF Send, Stall, FallSilent
  <2>2. reads' \in [Players -> BOOLEAN] /\ silent' \in [Players -> BOOLEAN]
    BY <1>0, <1>7 DEF Send, Stall, FallSilent
  <2>3. QED
    BY <1>0, <2>1, <2>2 DEF game, PushOK
<1>8. QED
  BY <1>1, <1>2, <1>3, <1>4, <1>5, <1>6, <1>7 DEF Next

LEMMA PlaceStep == StreamInv /\ PlaceInv /\ [Next]_vars => PlaceInv'
<1> SUFFICES ASSUME StreamInv, PlaceInv, [Next]_vars PROVE PlaceInv'
  OBVIOUS
<1>1. PushOK /\ PushOK' /\ \A p \in Players : PlaceOK(p)
  BY PushStep DEF PlaceInv
<1>2. Kick \notin Ticks /\ Pong \notin Ticks
  BY TickNumbers
<1>3. SUFFICES ASSUME NEW p \in Players PROVE PlaceOK(p)'
  BY <1>1 DEF PlaceInv
<1>4. CASE Tick
  BY <1>1, <1>4, PlaceTick
<1>5. CASE PushReturns \/ PushTimesOut
  BY <1>1, <1>5, PlaceReturned
<1>6. ASSUME UNCHANGED <<game, down, begun, got, holder, rest, waiting>>, open'[p] => open[p]
      PROVE  PlaceOK(p)'
  BY <1>1, <1>6, StayPut DEF game, Unmoved
<1>7. CASE ScanCloses \/ UNCHANGED vars
  <2>1. UNCHANGED <<game, down, begun, got, holder, rest, waiting>>
    BY <1>7 DEF ScanCloses, vars, client, lock
  <2>2. open'[p] => open[p]
    BY <1>7 DEF ScanCloses, Close, vars, StreamInv, Shape
  <2>3. QED
    BY <1>6, <2>1, <2>2
<1>8. ASSUME NEW q \in Players, Push(q) PROVE PlaceOK(p)'
  <2>1. CASE p = q
    BY <1>1, <1>8, <2>1, PlacePushed
  <2>2. CASE p # q
    <3>1. /\ pending = NoPlayer /\ todo' = todo \ {q}
          /\ UNCHANGED <<tick, missed, late, open, holder, rest, down, begun, got>>
          /\ waiting'[p] = waiting[p]
      BY <1>8, <2>2 DEF Push, Handler, client, StreamInv, Shape
    <3>2. Unmoved(p) /\ tick \in Nat /\ Len(got[p]) \in Nat
      BY <1>1, <3>1, WireAssumption DEF Unmoved, StreamInv, Shape, PushOK
    <3>3. OnceOK(p)'
      <4>1. \A t \in Ticks : Pushed(p, t) => Pushed(p, t)'
        BY <2>2, <3>1 DEF Pushed
      <4>2. QED
        BY <1>1, <3>2, <4>1, OnceKept DEF PlaceOK
    <3>4. ASSUME OrderOK(p) PROVE OrderOK(p)'
      <4>1. \A t \in Ticks : ~UnderWay(p, t)
        BY <3>1, <3>4, WireAssumption DEF OrderOK
      <4>2. Upto(p)' = Upto(p)
        BY <2>2, <3>1 DEF Upto, UnderWay
      <4>3. tick <= tick' /\ tick' \in Nat /\ tick' = tick /\ (tick >= 1 \/ tick = 0)
        BY <3>1, <3>2
      <4>4. tick' >= 1 => tick >= 1
        BY <4>3
      <4>5. QED
        BY <3>2, <3>4, <4>1, <4>2, <4>3, <4>4, OrderKept
    <3>5. QED
      BY <1>1, <3>1, <3>3, <3>4 DEF PlaceOK
  <2>3. QED
    BY <2>1, <2>2
<1>9. ASSUME NEW q \in Players, Lock(q) \/ Write(q) \/ WriteFails(q) \/ Receive(q)
      PROVE  PlaceOK(p)'
  <2>1. CASE p = q
    <3>1. CASE Lock(q)
      BY <1>1, <2>1, <3>1, PlaceTakesLock
    <3>2. CASE WriteFails(q)
      BY <1>1, <2>1, <3>2, PlaceLost
    <3>3. CASE Write(q)
      <4>1. UNCHANGED <<missed, late>>
        BY <3>3 DEF Write, game
      <4>2. QED
        BY <1>1, <2>1, <3>3, <4>1, OnceWritten, OrderWritten DEF PlaceOK
    <3>4. CASE Receive(q)
      <4>1. UNCHANGED <<missed, late>> /\ got \in [Players -> Seq(Nat)]
        BY <1>1, <3>4 DEF Receive, game, PushOK
      <4>2. QED
        BY <1>1, <2>1, <3>4, <4>1, OnceReceived, OrderReceived DEF PlaceOK
    <3>5. QED
      BY <1>9, <3>1, <3>2, <3>3, <3>4
  <2>2. CASE p # q
    <3>1. UNCHANGED <<game, open>>
      BY <1>9 DEF Lock, Write, WriteFails, Receive
    <3>2. UNCHANGED <<down[p], begun[p], got[p], holder[p], rest[p], waiting[p]>>
      <4>1. CASE Lock(q)
        BY <2>2, <4>1 DEF Lock, client, StreamInv, Shape
      <4>2. CASE Write(q) \/ WriteFails(q)
        BY <2>2, <4>2 DEF Write, WriteFails, Unlock, client, StreamInv, Shape
      <4>3. CASE Receive(q)
        BY <1>1, <2>2, <4>3 DEF Receive, lock, PushOK, StreamInv, Shape
      <4>4. QED
        BY <1>9, <4>1, <4>2, <4>3
    <3>3. QED
      BY <1>1, <3>1, <3>2, StayPut DEF game, Unmoved
  <2>3. QED
    BY <2>1, <2>2
<1>10. ASSUME NEW q \in Players, Read(q) \/ Send(q) \/ Stall(q) \/ FallSilent(q)
       PROVE  PlaceOK(p)'
  <2>1. UNCHANGED <<game, down, begun, got, holder, rest, waiting, open>>
    BY <1>10 DEF Read, Send, Stall, FallSilent, lock, client
  <2>2. QED
    BY <1>6, <2>1
<1>11. ASSUME NEW q \in Players, Decode(q) \/ Scan(q)
       PROVE  PlaceOK(p)'
  <2>1. UNCHANGED <<game, down, begun, got, holder, rest>>
    BY <1>11 DEF Decode, Scan, client, lock
  <2>2. open'[p] => open[p]
    BY <1>11 DEF Decode, Scan, Close, StreamInv, Shape
  <2>3. \/ waiting' = waiting
        \/ \E w \in {Kick, Pong} : waiting' = [waiting EXCEPT ![q] = @ \cup {w}]
    BY <1>11 DEF Decode, Scan
  <2>4. \A t \in Ticks : t \in waiting'[p] <=> t \in waiting[p]
    BY <1>2, <2>3 DEF StreamInv, Shape
  <2>5. QED
    BY <1>1, <2>1, <2>2, <2>4, StayPut DEF game, Unmoved
<1>12. ASSUME NEW q \in Players, PushFails(q) PROVE PlaceOK(p)'
  BY <1>1, <1>12, PlaceUnpushed
<1>13. QED
  BY <1>4, <1>5, <1>7, <1>8, <1>9, <1>10, <1>11, <1>12 DEF Next

LEMMA PlaceAlways == Spec => [](StreamInv /\ PlaceInv)
<1>1. Init => PlaceInv
  <2> SUFFICES ASSUME Init PROVE PlaceInv
    OBVIOUS
  <2>1. PushOK
    BY WireAssumption DEF Init, PushOK
  <2>2. ASSUME NEW p \in Players PROVE PlaceOK(p)
    <3>1. /\ tick = 0 /\ down[p] = <<>> /\ got[p] = <<>> /\ holder[p] = Nobody
          /\ waiting[p] = {} /\ Len(<<>>) = 0
      BY <2>2 DEF Init
    <3>2. \A t \in Ticks : ~UnderWay(p, t) /\ ~Coming(p, t) /\ ~Got(p, t)
      BY <3>1, TickNumbers DEF UnderWay, Coming, Got
    <3>3. OnceOK(p)
      <4>1. <<>> \in Seq(Ticks) /\ 0 <= SocketSize
        BY WireAssumption
      <4>2. QED
        BY <3>1, <3>2, <4>1 DEF OnceOK
    <3>4. ComingUpto(p, 0)
      BY <3>1, <3>2 DEF ComingUpto, Ticks
    <3>5. OrderOK(p)
      BY <3>1, <3>2, <3>4 DEF OrderOK
    <3>6. QED
      BY <3>3, <3>5 DEF PlaceOK
  <2>3. QED
    BY <2>1, <2>2 DEF PlaceInv
<1>2. QED
  BY <1>1, StreamInit, StreamStep, PlaceStep, PTL DEF Spec

-----------------------------------------------------------------------------
\* The inductive invariant behind the order: what is under way to p is later than what he has
\* read, each frame later than the one before it, and what has not been written yet is of the
\* tick under way.
SortedOK(p) ==
    /\ \A t \in Ticks : UnderWay(p, t) => pending = p /\ t = tick
    /\ \A i, j \in 1..Len(got[p]) : i < j => got[p][i] < got[p][j]
    /\ \A i, j \in 1..Len(down[p]) :
         TickAt(p, i) /\ TickAt(p, j) /\ i < j => down[p][i] < down[p][j]
    /\ \A t, u \in Ticks : Got(p, t) /\ Coming(p, u) => t < u
SortedInv == \A p \in Players : ~late[p] => SortedOK(p)

\* Frames that stay where they are stay in order, whatever becomes of a call that is through.
LEMMA SortedKept ==
    ASSUME NEW p, SortedOK(p), Unmoved(p),
           \A t \in Ticks : UnderWay(p, t) => pending' = pending /\ tick' = tick
    PROVE  SortedOK(p)'
<1>1. /\ \A i : TickAt(p, i)' <=> TickAt(p, i)
      /\ \A t : Coming(p, t)' <=> Coming(p, t)
      /\ \A t : Got(p, t)' <=> Got(p, t)
      /\ \A t \in Ticks : UnderWay(p, t)' <=> UnderWay(p, t)
  BY SamePlaces
<1>2. Ticks' = Ticks
  BY DEF Ticks
<1>3. \A t \in Ticks : UnderWay(p, t)' => pending' = p /\ t = tick'
  BY <1>1 DEF SortedOK
<1>4. /\ \A i, j \in 1..Len(got'[p]) : i < j => got'[p][i] < got'[p][j]
      /\ \A i, j \in 1..Len(down'[p]) :
           TickAt(p, i)' /\ TickAt(p, j)' /\ i < j => down'[p][i] < down'[p][j]
      /\ \A t, u \in Ticks : Got(p, t)' /\ Coming(p, u)' => t < u
  BY <1>1 DEF SortedOK, Unmoved
<1>5. QED
  BY <1>2, <1>3, <1>4 DEF SortedOK

\* ... and those of a stream that only a handler moves to, or gets lost from.
LEMMA SortedSame ==
    ASSUME NEW p, SortedOK(p), UNCHANGED <<down, got>>,
           \A i : TickAt(p, i)' <=> TickAt(p, i),
           \A t \in Ticks : UnderWay(p, t)' => pending' = p /\ t = tick'
    PROVE  SortedOK(p)'
<1>1. /\ \A t : Coming(p, t)' <=> Coming(p, t)
      /\ \A t : Got(p, t)' <=> Got(p, t)
      /\ Ticks' = Ticks
  BY DEF Coming, Got, Ticks
<1>2. /\ \A i, j \in 1..Len(got'[p]) : i < j => got'[p][i] < got'[p][j]
      /\ \A i, j \in 1..Len(down'[p]) :
           TickAt(p, i)' /\ TickAt(p, j)' /\ i < j => down'[p][i] < down'[p][j]
      /\ \A t, u \in Ticks : Got(p, t)' /\ Coming(p, u)' => t < u
  BY <1>1 DEF SortedOK
<1>3. QED
  BY <1>1, <1>2 DEF SortedOK

LEMMA SortedPushed ==
    ASSUME StreamInv, PushOK, NEW q \in Players, SortedOK(q), Push(q)
    PROVE  SortedOK(q)'
<1>1. /\ pending = NoPlayer /\ pending' = q /\ NoPlayer \notin Players
      /\ UNCHANGED <<tick, holder, down, begun, got>>
      /\ waiting'[q] = waiting[q] \cup IF open[q] THEN {tick} ELSE {}
  BY WireAssumption DEF Push, Handler, client, StreamInv, Shape
<1>2. \A t \in Ticks : ~UnderWay(q, t)
  BY <1>1 DEF SortedOK
<1>3. \A t \in Ticks : UnderWay(q, t)' => pending' = q /\ t = tick'
  BY <1>1, <1>2 DEF UnderWay
<1>4. \A i : TickAt(q, i)' <=> TickAt(q, i)
  <2>1. Half(q)' = Half(q)
    BY <1>1 DEF Half
  <2>2. QED
    BY <1>1, <2>1 DEF TickAt
<1>5. QED
  BY <1>1, <1>3, <1>4, SortedSame

LEMMA SortedLost ==
    ASSUME StreamInv, NEW q \in Players, OnceOK(q), SortedOK(q), Lock(q) \/ WriteFails(q)
    PROVE  SortedOK(q)'
<1>1. CASE Lock(q)
  <2>1. /\ UNCHANGED <<down, got, tick, pending>>
        /\ \A i : TickAt(q, i)' <=> TickAt(q, i)
        /\ \A t \in Ticks : UnderWay(q, t)' <=> UnderWay(q, t)
    BY <1>1, PlaceLocked
  <2>2. \A t \in Ticks : UnderWay(q, t)' => pending' = q /\ t = tick'
    BY <2>1 DEF SortedOK
  <2>3. QED
    BY <2>1, <2>2, SortedSame
<1>2. CASE WriteFails(q)
  <2>1. /\ holder'[q] = Nobody /\ UNCHANGED <<waiting, down, begun, got, tick, pending>>
    BY <1>2 DEF WriteFails, Unlock, client, game, StreamInv, Shape
  <2>2. Half(q)' = Half(q)
    BY <2>1 DEF Half
  <2>3. \A i : TickAt(q, i)' <=> TickAt(q, i)
    BY <2>1, <2>2 DEF TickAt
  <2>4. \A t \in Ticks : UnderWay(q, t)' => pending' = q /\ t = tick'
    BY <2>1, TickNumbers DEF UnderWay, SortedOK
  <2>5. QED
    BY <2>1, <2>3, <2>4, SortedSame
<1>3. QED
  BY <1>1, <1>2

\* What is written last is of the tick under way, and whatever he has or is coming was pushed before.
LEMMA SortedWritten ==
    ASSUME StreamInv, NEW q \in Players, OnceOK(q), SortedOK(q), Write(q)
    PROVE  SortedOK(q)'
<1>1. /\ UNCHANGED <<got, open, tick, todo, pending>>
      /\ Len(down[q]) \in Nat /\ Len(down'[q]) \in Nat
      /\ \A i \in 1..Len(down[q]) : i \in 1..Len(down'[q]) /\ down'[q][i] = down[q][i]
  BY PlaceWritten
<1>2. /\ \A t : Got(q, t)' <=> Got(q, t)
      /\ \A i, j \in 1..Len(got'[q]) : i < j => got'[q][i] < got'[q][j]
      /\ Ticks' = Ticks
  BY <1>1 DEF SortedOK, Got, Ticks
<1>3. CASE /\ \A i : TickAt(q, i)' <=> TickAt(q, i)
           /\ \A t : Coming(q, t)' <=> Coming(q, t)
           /\ \A t \in Ticks : UnderWay(q, t)' <=> UnderWay(q, t)
  <2>1. \A t \in Ticks : UnderWay(q, t)' => pending' = q /\ t = tick'
    BY <1>1, <1>3 DEF SortedOK
  <2>2. \A i : TickAt(q, i)' => TickAt(q, i) /\ i \in 1..Len(down[q]) /\ down'[q][i] = down[q][i]
    BY <1>1, <1>3 DEF TickAt
  <2>3. \A i, j \in 1..Len(down'[q]) :
          TickAt(q, i)' /\ TickAt(q, j)' /\ i < j => down'[q][i] < down'[q][j]
    BY <2>2 DEF SortedOK
  <2>4. \A t, u \in Ticks : Got(q, t)' /\ Coming(q, u)' => t < u
    BY <1>2, <1>3 DEF SortedOK
  <2>5. QED
    BY <1>2, <2>1, <2>3, <2>4 DEF SortedOK
<1>4. ASSUME NEW new, new \in Ticks, holder[q] = new, holder'[q] = Nobody,
             \A i : TickAt(q, i)' <=> TickAt(q, i) \/ i = Len(down'[q]),
             \A t : Coming(q, t)' <=> Coming(q, t) \/ t = new,
             \A t \in Ticks : UnderWay(q, t)' <=> UnderWay(q, t) /\ t # new,
             Len(down[q]) < Len(down'[q]), down'[q][Len(down'[q])] = new
      PROVE  SortedOK(q)'
  <2>1. UnderWay(q, new) /\ ~Coming(q, new) /\ ~Got(q, new) /\ new = tick
    BY <1>4 DEF OnceOK, SortedOK, UnderWay
  <2>2. \A t \in Ticks : Coming(q, t) \/ Got(q, t) => t < new
    <3>1. SUFFICES ASSUME NEW t \in Ticks, Coming(q, t) \/ Got(q, t) PROVE t < new
      OBVIOUS
    <3>2. t <= tick
      BY <3>1 DEF OnceOK, Pushed
    <3>3. t # new /\ t \in Int /\ new \in Int
      BY <1>4, <2>1, <3>1 DEF Ticks
    <3>4. QED
      BY <2>1, <3>2, <3>3
  <2>3. \A t \in Ticks : UnderWay(q, t)' => pending' = q /\ t = tick'
    BY <1>1, <1>4 DEF SortedOK
  <2>4. \A i : TickAt(q, i) => /\ i \in 1..Len(down[q]) /\ i \in 1..Len(down'[q])
                              /\ down'[q][i] = down[q][i] /\ down[q][i] < new
    <3>1. SUFFICES ASSUME NEW i, TickAt(q, i)
                   PROVE  /\ i \in 1..Len(down[q]) /\ i \in 1..Len(down'[q])
                          /\ down'[q][i] = down[q][i] /\ down[q][i] < new
      OBVIOUS
    <3>2. i \in 1..Len(down[q]) /\ down[q][i] \in Ticks /\ Coming(q, down[q][i])
      BY <3>1 DEF TickAt, Coming, OnceOK
    <3>3. QED
      BY <1>1, <2>2, <3>2
  <2>5. \A i, j \in 1..Len(down'[q]) :
          TickAt(q, i)' /\ TickAt(q, j)' /\ i < j => down'[q][i] < down'[q][j]
    <3>1. SUFFICES ASSUME NEW i \in 1..Len(down'[q]), NEW j \in 1..Len(down'[q]),
                          TickAt(q, i)', TickAt(q, j)', i < j
                   PROVE  down'[q][i] < down'[q][j]
      OBVIOUS
    <3>2. i # Len(down'[q])
      BY <1>1, <3>1
    <3>3. TickAt(q, i)
      BY <1>4, <3>1, <3>2
    <3>4. CASE TickAt(q, j)
      BY <2>4, <3>1, <3>3, <3>4 DEF SortedOK
    <3>5. CASE j = Len(down'[q])
      BY <1>4, <2>4, <3>3, <3>5
    <3>6. QED
      BY <1>4, <3>1, <3>4, <3>5
  <2>6. \A t, u \in Ticks : Got(q, t)' /\ Coming(q, u)' => t < u
    BY <1>2, <1>4, <2>2 DEF SortedOK
  <2>7. QED
    BY <1>2, <2>3, <2>5, <2>6 DEF SortedOK
<1>5. \/ /\ \A i : TickAt(q, i)' <=> TickAt(q, i)
         /\ \A t : Coming(q, t)' <=> Coming(q, t)
         /\ \A t \in Ticks : UnderWay(q, t)' <=> UnderWay(q, t)
      \/ \E new : /\ new \in Ticks /\ holder[q] = new /\ holder'[q] = Nobody
                  /\ \A i : TickAt(q, i)' <=> TickAt(q, i) \/ i = Len(down'[q])
                  /\ \A t : Coming(q, t)' <=> Coming(q, t) \/ t = new
                  /\ \A t \in Ticks : UnderWay(q, t)' <=> UnderWay(q, t) /\ t # new
                  /\ Len(down[q]) < Len(down'[q]) /\ down'[q][Len(down'[q])] = new
  BY PlaceWritten
<1>6. QED
  BY <1>3, <1>4, <1>5

\* What is read is the first frame under way, later than all that was read before.
LEMMA SortedReceived ==
    ASSUME StreamInv, NEW q \in Players, Receive(q), OnceOK(q), SortedOK(q),
           got \in [Players -> Seq(Nat)]
    PROVE  SortedOK(q)'
<1>1. /\ UNCHANGED <<waiting, holder, tick, pending>>
      /\ Len(down[q]) \in Nat /\ Len(down'[q]) = Len(down[q]) - 1 /\ Len(down[q]) >= 1
      /\ \A i \in 1..Len(down'[q]) :
           /\ i + 1 \in 1..Len(down[q]) /\ down'[q][i] = down[q][i + 1]
           /\ TickAt(q, i)' <=> TickAt(q, i + 1)
      /\ \A t : Coming(q, t) <=> Coming(q, t)' \/ (TickAt(q, 1) /\ down[q][1] = t)
      /\ \A t : TickAt(q, 1) /\ down[q][1] = t => ~Coming(q, t)'
      /\ got'[q] = IF TickAt(q, 1) THEN Append(got[q], down[q][1]) ELSE got[q]
  BY PlaceReceived
<1>2. Ticks' = Ticks /\ \A t : UnderWay(q, t)' <=> UnderWay(q, t)
  BY <1>1 DEF UnderWay, Ticks
<1>3. \A t \in Ticks : UnderWay(q, t)' => pending' = q /\ t = tick'
  BY <1>1, <1>2 DEF SortedOK
<1>4. ASSUME NEW i \in 1..Len(down'[q]), NEW j \in 1..Len(down'[q]),
             TickAt(q, i)', TickAt(q, j)', i < j
      PROVE  down'[q][i] < down'[q][j]
  <2>1. i + 1 < j + 1
    BY <1>4
  <2>2. QED
    BY <1>1, <1>4, <2>1 DEF SortedOK
<1>5. CASE ~TickAt(q, 1)
  <2>1. got'[q] = got[q] /\ \A t : Coming(q, t)' <=> Coming(q, t)
    BY <1>1, <1>5
  <2>2. \A t : Got(q, t)' <=> Got(q, t)
    BY <2>1 DEF Got
  <2>3. /\ \A i, j \in 1..Len(got'[q]) : i < j => got'[q][i] < got'[q][j]
        /\ \A t, u \in Ticks : Got(q, t)' /\ Coming(q, u)' => t < u
    BY <2>1, <2>2 DEF SortedOK
  <2>4. QED
    BY <1>2, <1>3, <1>4, <2>3 DEF SortedOK
<1>6. CASE TickAt(q, 1)
  <2>a. PICK e, g, l : e = down[q][1] /\ g = got[q] /\ l = Len(got[q])
    OBVIOUS
  <2>1. 1 \in 1..Len(down[q]) /\ e \in Ticks /\ Coming(q, e) /\ ~Coming(q, e)'
    <3>1. 1 \in 1..Len(down[q])
      BY <1>1
    <3>2. QED
      BY <1>1, <1>6, <2>a, <3>1 DEF OnceOK
  <2>2. /\ got'[q] = Append(g, e) /\ g \in Seq(Ticks)
        /\ Len(Append(g, e)) = l + 1 /\ l \in Nat
        /\ \A i \in 1..l : Append(g, e)[i] = g[i]
        /\ Append(g, e)[l + 1] = e
    <3>1. g \in Seq(Ticks)
      BY <2>a DEF OnceOK
    <3>2. QED
      BY <1>1, <1>6, <2>1, <2>a, <3>1, OneMoreAtEnd
  <2>3. 1..(l + 1) = (1..l) \cup {l + 1} /\ \A i \in 1..l : g[i] \in Ticks
    BY <2>2
  <2>4. \A t : Got(q, t)' <=> Got(q, t) \/ t = e
    <3>1. \A t : Got(q, t)' <=> \E i \in 1..(l + 1) : Append(g, e)[i] = t
      BY <2>2 DEF Got
    <3>2. \A t : Got(q, t) <=> \E i \in 1..l : g[i] = t
      BY <2>a DEF Got
    <3>3. QED
      BY <2>2, <2>3, <3>1, <3>2
  <2>5. \A i \in 1..l : g[i] < e
    <3>1. \A i \in 1..l : Got(q, g[i])
      BY <2>a DEF Got
    <3>2. QED
      BY <2>1, <2>3, <3>1 DEF SortedOK
  <2>6. \A u \in Ticks : Coming(q, u)' => Coming(q, u) /\ e < u
    <3>1. SUFFICES ASSUME NEW u \in Ticks, Coming(q, u)' PROVE Coming(q, u) /\ e < u
      OBVIOUS
    <3>2. Coming(q, u) /\ u # e
      BY <1>1, <2>1, <3>1
    <3>3. PICK j \in 1..Len(down[q]) : TickAt(q, j) /\ down[q][j] = u
      BY <3>2 DEF Coming
    <3>4. j # 1
      BY <2>a, <3>2, <3>3
    <3>5. 1 < j
      BY <1>1, <3>4
    <3>6. QED
      BY <1>6, <2>1, <2>a, <3>2, <3>3, <3>5 DEF SortedOK
  <2>7. \A i, j \in 1..Len(got'[q]) : i < j => got'[q][i] < got'[q][j]
    <3>1. SUFFICES ASSUME NEW i \in 1..(l + 1), NEW j \in 1..(l + 1), i < j
                   PROVE  got'[q][i] < got'[q][j]
      BY <2>2
    <3>2. i \in 1..l /\ got'[q][i] = g[i]
      BY <2>2, <3>1
    <3>3. CASE j \in 1..l
      BY <2>2, <2>a, <3>1, <3>2, <3>3 DEF SortedOK
    <3>4. CASE j = l + 1
      BY <2>2, <2>5, <3>2, <3>4
    <3>5. QED
      BY <2>3, <3>3, <3>4
  <2>8. \A t, u \in Ticks : Got(q, t)' /\ Coming(q, u)' => t < u
    BY <2>4, <2>6 DEF SortedOK
  <2>9. QED
    BY <1>2, <1>3, <1>4, <2>7, <2>8 DEF SortedOK
<1>7. QED
  BY <1>5, <1>6

LEMMA SortedStep == StreamInv /\ PlaceInv /\ SortedInv /\ [Next]_vars => SortedInv'
<1> SUFFICES ASSUME StreamInv, PlaceInv, SortedInv, [Next]_vars,
                    NEW p \in Players, ~late'[p]
             PROVE  SortedOK(p)'
  BY DEF SortedInv
<1>a. Kick \notin Ticks /\ Pong \notin Ticks
  BY TickNumbers
<1>1. PushOK /\ OnceOK(p) /\ NoPlayer \notin Players /\ got \in [Players -> Seq(Nat)]
  BY WireAssumption DEF PlaceInv, PlaceOK, PushOK
<1>2. ~late[p] /\ SortedOK(p)
  <2>1. late' = late \/ late' = [late EXCEPT ![pending] = TRUE]
    BY DEF Next, Tick, PushReturns, PushTimesOut, ScanCloses, Push, PushFails, Lock, Write,
           WriteFails, Read, Decode, Scan, Send, Receive, Stall, FallSilent, vars, game
  <2>2. ~late[p]
    BY <1>1, <2>1 DEF PushOK
  <2>3. QED
    BY <2>2 DEF SortedInv
<1>3. ASSUME NEW q \in Players, Push(q), p = q PROVE SortedOK(p)'
  BY <1>1, <1>2, <1>3, SortedPushed
<1>4. ASSUME NEW q \in Players, Lock(q) \/ WriteFails(q), p = q PROVE SortedOK(p)'
  BY <1>1, <1>2, <1>4, SortedLost
<1>5. ASSUME NEW q \in Players, Write(q), p = q PROVE SortedOK(p)'
  BY <1>1, <1>2, <1>5, SortedWritten
<1>6. ASSUME NEW q \in Players, Receive(q), p = q PROVE SortedOK(p)'
  BY <1>1, <1>2, <1>6, SortedReceived
<1>7. CASE Tick \/ PushReturns \/ PushTimesOut \/ \E q \in Players : PushFails(q)
  <2>1. UNCHANGED <<lock, open, down, begun, got>>
    BY <1>7 DEF Tick, PushReturns, PushTimesOut, PushFails, client
  <2>2. ASSUME NEW t \in Ticks, UnderWay(p, t) PROVE pending' = pending /\ tick' = tick
    <3>1. pending = p /\ t = tick
      BY <1>2, <2>2 DEF SortedOK
    <3>2. ~Tick
      BY <1>1, <3>1 DEF Tick
    <3>3. ~PushReturns
      BY <2>2, <3>1 DEF PushReturns
    <3>4. ~PushTimesOut
      BY <1>1, <3>1 DEF PushTimesOut, PushOK
    <3>5. QED
      BY <1>7, <3>2, <3>3, <3>4 DEF PushFails
  <2>3. QED
    BY <1>2, <2>1, <2>2, SortedKept DEF Unmoved, lock
<1>8. ASSUME NEW q \in Players, Push(q) \/ Lock(q) \/ Write(q) \/ WriteFails(q) \/ Receive(q), p # q
      PROVE  SortedOK(p)'
  <2>1. CASE Push(q)
    <3>1. /\ pending = NoPlayer /\ tick' = tick
          /\ UNCHANGED <<open, holder, rest, down, begun, got>> /\ waiting'[p] = waiting[p]
      BY <1>8, <2>1 DEF Push, Handler, client, StreamInv, Shape
    <3>2. \A t \in Ticks : ~UnderWay(p, t)
      BY <1>1, <1>2, <3>1 DEF SortedOK
    <3>3. QED
      BY <1>2, <3>1, <3>2, SortedKept DEF Unmoved
  <2>2. CASE Lock(q) \/ Write(q) \/ WriteFails(q) \/ Receive(q)
    <3>1. UNCHANGED <<game, open>>
      BY <2>2 DEF Lock, Write, WriteFails, Receive
    <3>2. UNCHANGED <<down[p], begun[p], got[p], holder[p], rest[p], waiting[p]>>
      <4>1. CASE Lock(q)
        BY <1>8, <4>1 DEF Lock, client, StreamInv, Shape
      <4>2. CASE Write(q) \/ WriteFails(q)
        BY <1>8, <4>2 DEF Write, WriteFails, Unlock, client, StreamInv, Shape
      <4>3. CASE Receive(q)
        BY <1>1, <1>8, <4>3 DEF Receive, lock, StreamInv, Shape
      <4>4. QED
        BY <2>2, <4>1, <4>2, <4>3
    <3>3. QED
      BY <1>2, <3>1, <3>2, SortedKept DEF game, Unmoved
  <2>3. QED
    BY <1>8, <2>1, <2>2
<1>9. ASSUME UNCHANGED <<game, down, begun, got, holder, rest>>, open'[p] => open[p],
             \A t \in Ticks : t \in waiting'[p] <=> t \in waiting[p]
      PROVE  SortedOK(p)'
  BY <1>2, <1>9, SortedKept DEF game, Unmoved
<1>10. CASE \/ ScanCloses \/ UNCHANGED vars
            \/ \E q \in Players : Read(q) \/ Send(q) \/ Stall(q) \/ FallSilent(q)
  <2>1. UNCHANGED <<game, down, begun, got, holder, rest, waiting>>
    BY <1>10 DEF ScanCloses, Read, Send, Stall, FallSilent, vars, client, lock
  <2>2. open'[p] => open[p]
    BY <1>10 DEF ScanCloses, Close, Read, Send, Stall, FallSilent, vars, StreamInv, Shape
  <2>3. QED
    BY <1>9, <2>1, <2>2
<1>11. ASSUME NEW q \in Players, Decode(q) \/ Scan(q) PROVE SortedOK(p)'
  <2>1. UNCHANGED <<game, down, begun, got, holder, rest>>
    BY <1>11 DEF Decode, Scan, client, lock
  <2>2. open'[p] => open[p]
    BY <1>11 DEF Decode, Scan, Close, StreamInv, Shape
  <2>3. \/ waiting' = waiting
        \/ \E w \in {Kick, Pong} : waiting' = [waiting EXCEPT ![q] = @ \cup {w}]
    BY <1>11 DEF Decode, Scan
  <2>4. \A t \in Ticks : t \in waiting'[p] <=> t \in waiting[p]
    BY <1>a, <2>3 DEF StreamInv, Shape
  <2>5. QED
    BY <1>9, <2>1, <2>2, <2>4
<1>12. QED
  BY <1>3, <1>4, <1>5, <1>6, <1>7, <1>8, <1>10, <1>11 DEF Next

LEMMA SortedAlways == Spec => []SortedInv
<1>1. Init => SortedInv
  <2> SUFFICES ASSUME Init, NEW p \in Players PROVE SortedOK(p)
    BY DEF SortedInv
  <2>1. /\ down[p] = <<>> /\ got[p] = <<>> /\ holder[p] = Nobody /\ waiting[p] = {} /\ Len(<<>>) = 0
    BY DEF Init
  <2>2. \A t \in Ticks : ~UnderWay(p, t) /\ ~Coming(p, t)
    BY <2>1, TickNumbers DEF UnderWay, Coming
  <2>3. QED
    BY <2>1, <2>2 DEF SortedOK
<1>2. QED
  BY <1>1, PlaceAlways, SortedStep, PTL DEF Spec

\* The game waits for each push, a connection has one writer at a time and the socket keeps
\* the order: a player gets the frames of the ticks in their order until a call to him times out,
\* and without a gap as long as every call has also reached the gateway; after that the handlers
\* that are left write in any order, and yet no frame comes twice (PushFrame of the game's client,
\* send of the gateway).
THEOREM TicksInOrder == Spec => []InOrderUntilLate
<1>1. PlaceInv /\ SortedInv => InOrderUntilLate
  <2> SUFFICES ASSUME PlaceInv, SortedInv, NEW p \in Players
               PROVE  /\ ~late[p] => \A i, j \in DOMAIN got[p] : i < j => got[p][i] < got[p][j]
                      /\ ~late[p] /\ ~missed[p] => \A i \in DOMAIN got[p] : got[p][i] = i
                      /\ \A i, j \in DOMAIN got[p] : i # j => got[p][i] # got[p][j]
    BY DEF InOrderUntilLate
  <2>1. /\ OnceOK(p) /\ (~late[p] /\ ~missed[p] => OrderOK(p))
        /\ (~late[p] => SortedOK(p))
    BY DEF PlaceInv, PlaceOK, SortedInv
  <2>2. DOMAIN got[p] = 1..Len(got[p])
    BY <2>1 DEF OnceOK
  <2>3. QED
    BY <2>1, <2>2 DEF OnceOK, OrderOK, SortedOK
<1>2. QED
  BY <1>1, PlaceAlways, SortedAlways, PTL

-----------------------------------------------------------------------------
\* As many different numbers as there are.
LEMMA NoMoreThan ==
    ASSUME NEW n \in Nat, NEW g \in Seq(1..n), \A i, j \in 1..Len(g) : g[i] = g[j] => i = j
    PROVE  Len(g) <= n
<1>1. Len(g) \in Nat /\ g \in [1..Len(g) -> 1..n]
  BY LenProperties
<1>2. /\ IsFiniteSet(1..Len(g)) /\ IsFiniteSet(1..n)
      /\ Cardinality(1..Len(g)) = Len(g) /\ Cardinality(1..n) = n
  <2>1. ASSUME NEW k \in Nat PROVE IsFiniteSet(1..k) /\ Cardinality(1..k) = k
    <3>1. 1 \in Int /\ k \in Int
      OBVIOUS
    <3>2. IsFiniteSet(1..k) /\ Cardinality(1..k) = IF 1 > k THEN 0 ELSE k - 1 + 1
      BY <3>1, FS_Interval, Zenon
    <3>3. (IF 1 > k THEN 0 ELSE k - 1 + 1) = k
      OBVIOUS
    <3>4. QED
      BY <3>2, <3>3
  <2>2. QED
    BY <1>1, <2>1
<1>3. SUFFICES ASSUME Len(g) > n PROVE FALSE
  BY <1>1
<1>4. \E i, j \in 1..Len(g) : i # j /\ g[i] = g[j]
  <2>1. Cardinality(1..n) < Cardinality(1..Len(g))
    BY <1>1, <1>2, <1>3
  <2>2. PICK S, T : S = 1..Len(g) /\ T = 1..n
    OBVIOUS
  <2>3. IsFiniteSet(S) /\ IsFiniteSet(T) /\ Cardinality(T) < Cardinality(S) /\ g \in [S -> T]
    BY <1>1, <1>2, <2>1, <2>2
  <2>4. \E i, j \in S : i # j /\ g[i] = g[j]
    BY <2>3, FS_PigeonHole, Zenon
  <2>5. QED
    BY <2>2, <2>4
<1>5. QED
  BY <1>4

\* Wire's variables have their types: nothing is written to a socket beyond its size, a writer
\* holds at most one frame, and a player has no more frames of ticks than there were ticks.
THEOREM WireTyped == Spec => []TypeOK
<1>1. StreamInv /\ PlaceInv /\ HeardInv => TypeOK
  <2> SUFFICES ASSUME StreamInv, PlaceInv, HeardInv PROVE TypeOK
    OBVIOUS
  <2>1. /\ tick \in 0..MaxTicks /\ open \in [Players -> BOOLEAN]
        /\ waiting \in [Players -> SUBSET Writers] /\ holder \in [Players -> Writers \cup {Nobody}]
    BY DEF StreamInv, Shape
  <2>2. /\ todo \subseteq Players /\ pending \in Players \cup {NoPlayer}
        /\ kicking \in Players \cup {NoPlayer} /\ reads \in [Players -> BOOLEAN]
        /\ silent \in [Players -> BOOLEAN]
        /\ missed \in [Players -> BOOLEAN] /\ late \in [Players -> BOOLEAN]
    BY WireAssumption DEF PlaceInv, PushOK
  <2>3. reader \in [Players -> {"read", "decode", "pong", "ended"}]
    BY DEF HeardInv, HeardShape
  <2>4. ASSUME NEW p \in Players
        PROVE  /\ Len(rest[p]) <= FrameHeaderSize /\ Len(down[p]) <= SocketSize
               /\ Len(heard[p]) <= MaxBeats /\ Len(got[p]) <= MaxTicks
               /\ beats[p] \in Seq(Frames \cup {Illegal}) /\ Len(beats[p]) <= MaxBeats
    <3>1. Len(rest[p]) <= FrameHeaderSize
      <4>1. Len(rest[p]) \in {1, 2} \/ rest[p] = <<>>
        BY DEF StreamInv, StreamOK
      <4>2. Len(<<>>) = 0
        OBVIOUS
      <4>3. \A l \in {0, 1, 2} : l <= 2
        OBVIOUS
      <4>4. Len(rest[p]) \in {0, 1, 2}
        BY <4>1, <4>2
      <4>5. QED
        BY <4>3, <4>4 DEF FrameHeaderSize
    <3>2. OnceOK(p)
      BY DEF PlaceInv, PlaceOK
    <3>3. Len(down[p]) <= SocketSize
      BY <3>2 DEF OnceOK
    <3>4. Len(got[p]) <= MaxTicks
      BY <3>2, NoMoreThan, WireAssumption DEF OnceOK, Ticks
    <3>5. /\ beats[p] \in Seq(Frames \cup {Illegal}) /\ heard[p] \in Seq(Frames)
          /\ Len(beats[p]) <= MaxBeats /\ Len(heard[p]) <= Len(beats[p])
      BY DEF HeardInv, HeardShape, HeardOK
    <3>6. Len(heard[p]) <= MaxBeats
      <4>1. Len(heard[p]) \in Nat /\ Len(beats[p]) \in Nat /\ MaxBeats \in Nat
        BY <3>5, WireAssumption
      <4>2. QED
        BY <3>5, <4>1
    <3>7. QED
      BY <3>1, <3>3, <3>4, <3>5, <3>6
  <2>5. QED
    BY <2>1, <2>2, <2>3, <2>4 DEF TypeOK
<1>2. QED
  BY <1>1, PlaceAlways, HeardAlways, PTL
=============================================================================
