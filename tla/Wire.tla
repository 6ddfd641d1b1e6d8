-------------------------------- MODULE Wire ---------------------------------
(***************************************************************************)
(* From the tick goroutine of a game to the players: the synchronous push  *)
(* calls (internal/rpc/gateway_push_client.go), the gateway's handlers     *)
(* that write the frames under a session's writeMu (internal/gateway/      *)
(* grpc_server.go, gateway.go), the read loop and the time-out scan that   *)
(* want the same lock, and the byte streams of the TCP connections.        *)
(*                                                                         *)
(* Per player one connection.  The socket takes SocketSize words, then the *)
(* Write blocks with the lock held: no deadline is set anywhere.  A player *)
(* may stop reading, or not be heard of any more.  The push calls of the   *)
(* game wait at most 5 s, the handlers at the gateway go on.  The lock is  *)
(* given to any of those who wait.  A frame is its two header words: whose *)
(* it is stands for message id and payload.                                *)
(*                                                                         *)
(* Battlers are in a battle, so that ticks are pushed to them; Talkers may *)
(* send, up to MaxBeats frames; Quiet ones may not be heard of any more;   *)
(* Slow ones may stop reading.  MaxTicks bounds the ticks.                 *)
(***************************************************************************)
EXTENDS FrameCodec, Functions

CONSTANTS
    Players, NoPlayer, Battlers, Talkers, Quiet, Slow,
    Frames,                          \* what a client may send, illegal lengths apart
    SocketSize, MaxTicks, MaxBeats

ASSUME WireAssumption ==
    /\ NoPlayer \notin Players
    /\ Battlers \subseteq Players /\ Talkers \subseteq Players
    /\ Quiet \subseteq Players /\ Slow \subseteq Players
    /\ \A f \in Frames : /\ f = Frame(f.msg, f.body) /\ f.msg \in Nat /\ f.body \in Seq(Nat)
                          /\ FrameHeaderSize + Len(f.body) <= MaxFrameSize
    /\ SocketSize \in Nat \ {0} /\ MaxTicks \in Nat /\ MaxBeats \in Nat

VARIABLES
    \* the game
    tick, todo,     \* the tick under way, whom it has not pushed to yet
    pending,        \* whose push call has not returned
    \* the gateway
    open,           \* the connection of a player is open
    waiting,        \* who waits for writeMu
    holder, rest,   \* who holds it, and what he has not written yet
    buf, reader,    \* the read loop's buf, and where it is
    heard,          \* the frames it has taken out
    kicking,        \* whom scanTimeoutLoop is kicking
    \* the network and the players
    down, up,       \* words under way, in either direction
    begun, got,     \* a player has read the first word of a frame; the ticks he has frames of
    reads, silent,  \* he reads; nothing of him has come for 90 s
    beats,          \* what he has sent
    missed, late    \* a push to him has not reached the gateway; has timed out

game    == <<tick, todo, pending, missed, late>>
lock    == <<waiting, holder, rest>>
readers == <<buf, reader, heard>>
client  == <<begun, got, reads, silent, beats>>
vars == <<game, open, lock, readers, kicking, down, up, client>>

\* Who wants the lock: the handler of a tick's push, by its number, the scan, the read loop.
Nobody == 0
Kick == MaxTicks + 1
Pong == MaxTicks + 2
Writers == 1..(MaxTicks + 2)
Bytes(w) == EncodeFrame(w, <<>>)

Init ==
    /\ tick = 0 /\ todo = {} /\ pending = NoPlayer
    /\ open = [p \in Players |-> TRUE]
    /\ waiting = [p \in Players |-> {}] /\ holder = [p \in Players |-> Nobody]
    /\ rest = [p \in Players |-> <<>>]
    /\ buf = [p \in Players |-> <<>>] /\ reader = [p \in Players |-> "read"]
    /\ heard = [p \in Players |-> <<>>]
    /\ kicking = NoPlayer
    /\ down = [p \in Players |-> <<>>] /\ up = [p \in Players |-> <<>>]
    /\ begun = [p \in Players |-> FALSE] /\ got = [p \in Players |-> <<>>]
    /\ reads = [p \in Players |-> TRUE] /\ silent = [p \in Players |-> FALSE]
    /\ beats = [p \in Players |-> <<>>]
    /\ missed = [p \in Players |-> FALSE] /\ late = [p \in Players |-> FALSE]

-----------------------------------------------------------------------------
\* tickLoop: a new TickAll when the last one is through.
Tick ==
    /\ todo = {} /\ pending = NoPlayer /\ tick < MaxTicks
    /\ tick' = tick + 1 /\ todo' = Battlers
    /\ UNCHANGED <<pending, missed, late, open, lock, readers, kicking, down, up, client>>

\* The gateway's handler of a push, if there is a session of the player.
Handler(p) == waiting' = [waiting EXCEPT ![p] = @ \cup IF open[p] THEN {tick} ELSE {}]

\* Mutant: the tick does not wait for the call.
PushAsync(p) ==
    /\ p \in todo /\ todo' = todo \ {p} /\ Handler(p)
    /\ UNCHANGED <<tick, pending, missed, late, open, holder, rest, readers, kicking>>
    /\ UNCHANGED <<down, up, client>>

\* PushFrame or PushSnapshot of the game, or PushResult in the last tick: one player after the other.
Push(p) ==
    /\ p \in todo /\ pending = NoPlayer
    /\ todo' = todo \ {p} /\ pending' = p
    /\ Handler(p)
    /\ UNCHANGED <<tick, missed, late, open, holder, rest, readers, kicking, down, up, client>>

\* The gateway cannot be dialled or does not take the call, which is only logged.
PushFails(p) ==
    /\ p \in todo /\ pending = NoPlayer
    /\ todo' = todo \ {p} /\ missed' = [missed EXCEPT ![p] = TRUE]
    /\ UNCHANGED <<tick, pending, late, open, lock, readers, kicking, down, up, client>>

UnderWay(p, w) == w \in waiting[p] \/ holder[p] = w

\* The call returns when the handler is through ...
PushReturns ==
    /\ pending # NoPlayer /\ ~UnderWay(pending, tick)
    /\ pending' = NoPlayer
    /\ UNCHANGED <<tick, todo, missed, late, open, lock, readers, kicking, down, up, client>>

\* Mutant: the call has no time limit.
PushWaits == FALSE /\ UNCHANGED vars

\* Mutant: a call that has timed out is made again.
PushRetried ==
    /\ pending # NoPlayer /\ UnderWay(pending, tick)
    /\ pending' = NoPlayer /\ late' = [late EXCEPT ![pending] = TRUE] /\ todo' = todo \cup {pending}
    /\ UNCHANGED <<tick, missed, open, lock, readers, kicking, down, up, client>>

\* ... or after 5 s, which is only logged; the handler is not told.
PushTimesOut ==
    /\ pending # NoPlayer /\ UnderWay(pending, tick)
    /\ pending' = NoPlayer /\ late' = [late EXCEPT ![pending] = TRUE]
    /\ UNCHANGED <<tick, todo, missed, open, lock, readers, kicking, down, up, client>>

-----------------------------------------------------------------------------
\* Mutant: the lock is not waited for.
LockAnyhow(p) ==
    \E w \in waiting[p] :
      /\ waiting' = [waiting EXCEPT ![p] = @ \ {w}] /\ holder' = [holder EXCEPT ![p] = w]
      /\ rest' = [rest EXCEPT ![p] = Bytes(w)]
      /\ UNCHANGED <<game, open, readers, kicking, down, up, client>>

\* send: writeMu, then EncodeFrame.
Lock(p) ==
    /\ holder[p] = Nobody
    /\ \E w \in waiting[p] :
         /\ waiting' = [waiting EXCEPT ![p] = @ \ {w}] /\ holder' = [holder EXCEPT ![p] = w]
         /\ rest' = [rest EXCEPT ![p] = Bytes(w)]
    /\ UNCHANGED <<game, open, readers, kicking, down, up, client>>

Unlock(p) ==
    /\ holder' = [holder EXCEPT ![p] = Nobody]
    /\ reader' = [reader EXCEPT ![p] = IF holder[p] = Pong THEN "decode" ELSE @]

\* Conn.Write puts in what there is room for and waits for more; when all is in, send unlocks.
Write(p) ==
    /\ open[p] /\ holder[p] # Nobody /\ Len(down[p]) < SocketSize
    /\ LET room == SocketSize - Len(down[p])
           n == IF room < Len(rest[p]) THEN room ELSE Len(rest[p])
       IN  /\ down' = [down EXCEPT ![p] = @ \o SubSeq(rest[p], 1, n)]
           /\ rest' = [rest EXCEPT ![p] = SubSeq(@, n + 1, Len(@))]
           /\ IF n = Len(rest[p]) THEN Unlock(p) ELSE UNCHANGED <<holder, reader>>
    /\ UNCHANGED <<game, open, waiting, buf, heard, kicking, up, client>>

\* On a closed connection it fails, which nobody looks at.
WriteFails(p) ==
    /\ ~open[p] /\ holder[p] # Nobody
    /\ Unlock(p) /\ rest' = [rest EXCEPT ![p] = <<>>]
    /\ UNCHANGED <<game, open, waiting, buf, heard, kicking, down, up, client>>

-----------------------------------------------------------------------------
\* handleClientConnection: Read returns part of what has come, up to all of it.
Read(p) ==
    /\ reader[p] = "read" /\ open[p]
    /\ \E n \in 1..Len(up[p]) :
         /\ buf' = [buf EXCEPT ![p] = @ \o SubSeq(up[p], 1, n)]
         /\ up' = [up EXCEPT ![p] = SubSeq(@, n + 1, Len(@))]
    /\ reader' = [reader EXCEPT ![p] = "decode"]
    /\ UNCHANGED <<game, open, lock, heard, kicking, down, client>>

Close(p) == open' = [open EXCEPT ![p] = FALSE]

\* Every complete frame is handled before the next Read: HandleHeartbeat and the reply want the
\* lock one after the other, which is one wait here.  An illegal length ends the connection.
Decode(p) ==
    /\ reader[p] = "decode"
    /\ LET frame == TryDecodeFrame(buf[p]) IN
         \/ /\ frame = NeedMore
            /\ reader' = [reader EXCEPT ![p] = "read"] /\ UNCHANGED <<buf, heard, open, waiting>>
         \/ /\ frame = Illegal
            /\ reader' = [reader EXCEPT ![p] = "ended"] /\ Close(p) /\ UNCHANGED <<buf, heard, waiting>>
         \/ /\ frame.kind = "frame"
            /\ buf' = [buf EXCEPT ![p] = CutFrame(@, frame)]
            /\ heard' = [heard EXCEPT ![p] = Append(@, frame)]
            /\ reader' = [reader EXCEPT ![p] = "pong"]
            /\ waiting' = [waiting EXCEPT ![p] = @ \cup {Pong}] /\ UNCHANGED open
    /\ UNCHANGED <<game, holder, rest, kicking, down, up, client>>

\* scanTimeoutLoop, one session after the other: SendKick, then Close.
Scan(p) ==
    /\ kicking = NoPlayer /\ open[p] /\ silent[p]
    /\ kicking' = p /\ waiting' = [waiting EXCEPT ![p] = @ \cup {Kick}]
    /\ UNCHANGED <<game, open, holder, rest, readers, down, up, client>>

\* Mutant: the kicked session is left open.
ScanForgets ==
    /\ kicking # NoPlayer /\ ~UnderWay(kicking, Kick) /\ kicking' = NoPlayer
    /\ UNCHANGED <<game, open, lock, readers, down, up, client>>

ScanCloses ==
    /\ kicking # NoPlayer /\ ~UnderWay(kicking, Kick)
    /\ Close(kicking) /\ kicking' = NoPlayer
    /\ UNCHANGED <<game, lock, readers, down, up, client>>

-----------------------------------------------------------------------------
\* What a client puts on the stream: a frame, or a length that is illegal.
Words(beat) == IF beat = Illegal THEN <<FrameHeaderSize - 1, 0>> ELSE EncodeFrame(beat.msg, beat.body)

Send(p) ==
    /\ p \in Talkers /\ open[p] /\ ~silent[p] /\ Len(beats[p]) < MaxBeats
    /\ \E beat \in Frames \cup {Illegal} :
         up' = [up EXCEPT ![p] = @ \o Words(beat)] /\ beats' = [beats EXCEPT ![p] = Append(@, beat)]
    /\ UNCHANGED <<game, open, lock, readers, kicking, down, begun, got, reads, silent>>

\* It reads what has come word by word.
Receive(p) ==
    /\ reads[p] /\ down[p] # <<>>
    /\ down' = [down EXCEPT ![p] = Tail(@)] /\ begun' = [begun EXCEPT ![p] = ~@]
    /\ got' = [got EXCEPT ![p] = IF begun[p] /\ down[p][1] <= MaxTicks THEN Append(@, down[p][1]) ELSE @]
    /\ UNCHANGED <<game, open, lock, readers, kicking, up, reads, silent, beats>>

\* A player stops reading, or is not heard of for 90 s, for good.
Stall(p) ==
    /\ p \in Slow /\ reads[p] /\ reads' = [reads EXCEPT ![p] = FALSE]
    /\ UNCHANGED <<game, open, lock, readers, kicking, down, up, begun, got, silent, beats>>

FallSilent(p) ==
    /\ p \in Quiet /\ ~silent[p] /\ silent' = [silent EXCEPT ![p] = TRUE]
    /\ UNCHANGED <<game, open, lock, readers, kicking, down, up, begun, got, reads, beats>>

Next ==
    \/ Tick \/ PushReturns \/ PushTimesOut \/ ScanCloses
    \/ \E p \in Players :
         \/ Push(p) \/ PushFails(p) \/ Lock(p) \/ Write(p) \/ WriteFails(p)
         \/ Read(p) \/ Decode(p) \/ Scan(p)
         \/ Send(p) \/ Receive(p) \/ Stall(p) \/ FallSilent(p)

\* Goroutines run, the calls' time limit passes, and who reads reads; nobody has to go on reading.
Fairness ==
    /\ WF_vars(Tick) /\ WF_vars(PushReturns) /\ WF_vars(PushTimesOut) /\ WF_vars(ScanCloses)
    /\ \A p \in Players :
         /\ WF_vars(Push(p)) /\ WF_vars(Lock(p)) /\ WF_vars(Write(p)) /\ WF_vars(WriteFails(p))
         /\ WF_vars(Read(p)) /\ WF_vars(Decode(p)) /\ WF_vars(Scan(p))
         /\ WF_vars(Receive(p))

Spec == Init /\ [][Next]_vars /\ Fairness

-----------------------------------------------------------------------------
TypeOK ==
    /\ tick \in 0..MaxTicks /\ todo \subseteq Players /\ pending \in Players \cup {NoPlayer}
    /\ open \in [Players -> BOOLEAN] /\ waiting \in [Players -> SUBSET Writers]
    /\ holder \in [Players -> Writers \cup {Nobody}]
    /\ reader \in [Players -> {"read", "decode", "pong", "ended"}]
    /\ kicking \in Players \cup {NoPlayer}
    /\ \A p \in Players :
         /\ Len(rest[p]) <= FrameHeaderSize /\ Len(down[p]) <= SocketSize /\ Len(heard[p]) <= MaxBeats
         /\ Len(got[p]) <= MaxTicks
         /\ beats[p] \in Seq(Frames \cup {Illegal}) /\ Len(beats[p]) <= MaxBeats
    /\ reads \in [Players -> BOOLEAN] /\ silent \in [Players -> BOOLEAN]
    /\ missed \in [Players -> BOOLEAN] /\ late \in [Players -> BOOLEAN]

\* Whatever the cuts of the reads, the gateway handles the frames a client sent, each once and in
\* their order, up to the first illegal length; it reads on only when its buffer holds neither a
\* whole frame nor an illegal length.
HeardAsSent ==
    \A p \in Players :
      /\ \A i \in DOMAIN heard[p] : i \in DOMAIN beats[p] /\ heard[p][i] = beats[p][i]
      /\ Illegal \notin Range(heard[p])
      /\ reader[p] = "read" => TryDecodeFrame(buf[p]) = NeedMore

\* Several goroutines write to a connection, and a socket that is full cuts a frame anywhere: a
\* player still reads the frames one after the other, and never the words of two mixed.
FramesIntact ==
    \A p \in Players : down[p] # <<>> /\ ~begun[p] => down[p][1] = FrameHeaderSize

\* A player gets the frames of the ticks in their order as long as no push to him has timed out,
\* and without a gap if each has reached the gateway: the tick waits for each call, and a stalled
\* player delays the others instead.  Even after that none comes twice.
InOrderUntilLate ==
    \A p \in Players :
      /\ ~late[p] => \A i, j \in DOMAIN got[p] : i < j => got[p][i] < got[p][j]
      /\ ~late[p] /\ ~missed[p] => \A i \in DOMAIN got[p] : got[p][i] = i
      /\ \A i, j \in DOMAIN got[p] : i # j => got[p][i] # got[p][j]

\* The game's ticks go on, whoever has stopped reading: its calls have a time limit.
TicksGoOn == <>(tick = MaxTicks /\ todo = {} /\ pending = NoPlayer)

\* Who is not heard of any more is thrown out as long as everybody reads: the scan takes the
\* sessions one after the other, under the lock of each, so all of them have to.
SilentThrownOut == \A p \in Players : silent[p] ~> (~open[p] \/ \E q \in Players : ~reads[q])
=============================================================================
