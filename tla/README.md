# Verification of the game server

TLA+ models of the Go game server in this repository, TLC configurations that
check them on small instances, and TLAPS proofs of what matters most for every
value of their constants. Every definition is translated from the source;
`PROJECT.json` names the lines of each.

Contents: [the system](#1-the-system) · [the modules](#2-the-modules) ·
[the runs](#3-the-runs) · [fairness](#4-fairness) · [the proofs](#5-the-proofs) ·
[what the checks found](#6-what-the-checks-found) ·
[what is not modelled](#7-what-is-not-modelled) · [the plan](#8-the-plan)

## 1. The system

Six processes: a center, a login server, a gateway, two game instances and a
rank server, over one Redis and one MySQL, and an HTTP server for operators.
Clients speak a framed TCP protocol to the gateway; everything else is gRPC.

| Component | State | Operations | Talks to | Module |
|---|---|---|---|---|
| **Battle room** `internal/game/room.go` | two players (HP, position, cooldowns), queued inputs, tick counter, `Finished` and the outcome, under `r.mu` | `SubmitOp`, `OnPlayerQuit`, `Tick`, `finish`, `pushResult` | rank (score), gateways (frames, snapshots, result) | `Room`, `Settlement` |
| **Tick scheduler** `internal/game/service.go` | `rooms`, one goroutine with a 50 ms ticker | `TickAll`, `SubmitOp`, `QuitRoom` | its rooms | `Room`, `Wire` |
| **Match-making** `internal/game/service.go` | in Redis: two ZSET pools, `match:result:*`, `room:route:*`, `room:seq`; per instance one goroutine with a 200 ms ticker | `JoinMatch`, `QueryMatchResult`, `LeaveMatch`, `MatchTick`, `InitRoomSeq` | Redis | `MatchPool` |
| **Gateway sessions** `internal/gateway/gateway.go`, `cmd/gateway/main.go` | `sessions` by player under `sessionMu`; per connection a `Session`; `gateway:route:*` in Redis | log in, register, displace, timeout scan, clean-up | login, center, Redis | `Gateway` |
| **Match requests** (same file, with `rpc/cluster_client.go`) | a `matchWorker` goroutine per request | join, poll every 500 ms for 11 s, answer | game instances | `Lobby` |
| **Push to the gateways** `rpc/gateway_push_client.go`, `gateway/grpc_server.go` | a connection's `writeMu`, its receive buffer, its socket | `PushFrame`, `PushSnapshot`, `PushResult`, `SendKick`, `Read` | clients | `Wire` |
| **Client protocol** `internal/net/protocol.go` | none | `EncodeFrame`, `TryDecodeFrame` | | `FrameCodec` |
| **Center** `internal/center/center.go` | the table of services with their last heartbeat, in memory | `RegisterService`, `Heartbeat`, `GetServiceList`, `VerifyToken`, the sweep | Redis | `Registry`, `Accounts` |
| **Discovery** in `gateway.go`, `cmd/game/main.go`, `cmd/rank/main.go`, `api/service.go`, `rpc/cluster_client.go` | list of game instances, address of rank | register, heartbeat, refresh every 5 s, `PickGame` | center | `Registry` |
| **Login** `internal/login/login.go` | accounts in MySQL, tokens and hot player data in Redis | `Authenticate`, `Register` | MySQL, Redis | `Accounts` |
| **Rank** `internal/rank/rank.go` | a ZSET in Redis | `SubmitScore`, `GetTopN` | Redis | `Admin` |
| **Admin API** `internal/api` | operators' JWTs | six routes | center, rank, MySQL, Redis | `Admin`, `Registry` |
| **Client** `examples/interactive_client.py` | a simulation of its own, fed by frames | replay | gateway | `FrameSync` |
| Common, generated code | none over time | | | |

Where it is hard, and what makes each part correct:

* **Room.** `Tick` releases `r.mu` between finding a verdict and calling
  `finish`, which takes it again and is also reached from `QuitRoom`; rank calls
  and pushes follow without the lock, and one that fails is only logged. Right means:
  one outcome, published once, true of the players; nobody credited or sent it twice;
  nothing changes afterwards; a battle always ends; no room is dropped while it is
  fought; who can be reached misses no frame.
* **Frame synchronisation.** The server applies inputs as they arrive and
  broadcasts them sorted by player; the client throws frames away while it waits for
  the answer to its match request. Right means that a client that replays all
  frames has the server's simulation.
* **Match-making.** Several instances work on the same pools, one Redis command
  at a time, any of which may fail. Right means: a call of `JoinMatch` is good
  for at most one battle, room numbers never collide (also after a restart), a
  published result names a room one is in, nobody waits for ever.
* **Sessions.** Connections of one player overlap: log in, displacing, the
  clean-up of the displaced one, in any order. Right means: one connection per
  player, a clean-up that touches only its own session, no session left of a
  connection that has gone.
* **Match requests.** The worker gives up by its own clock (11 s), the pool by
  another (10 s), the connection may end meanwhile, and nothing keeps a player from
  asking again while he waits or fights. Right means: no battle
  that goes on without a player who still wants it, inputs that get into one's
  own battle, nothing left behind in pool or results, and every request ends, at least
  for those who ask once at a time.
* **Push.** The tick goroutine waits for each push; the gateway's handlers, its
  read loop and its scan want the same lock, which a `Write` to a full socket holds
  for as long as the player does not read. Right means: whole frames, in order, a
  tick that goes on, the silent thrown out.
* **Center and discovery.** A center that restarts with an empty table, entries that
  outlive their process, answers that are lost, lists that are stale. Right means: what is
  listed is where it runs, a live service is listed, stale knowledge has a bound and comes
  right.
* **Login.** Two stores written one after the other, errors that are not looked at,
  keys that expire one by one. Right means: an account is registered once, a session
  belongs to who gave the password, a token that lives is good for coming back.

## 2. The modules

```
Settlement <-- refined by -- Room      Gateway   MatchPool    Registry   Accounts   FrameCodec
                              |            \       /                        |           |
   RoomProofs                              Lobby                          Admin       Wire
                                             |
                  Matchmaking <-- refined by --
FrameSync (server and client simulations)
LobbyProofs, over MatchPoolProofs and GatewayProofs;
FrameSyncProofs, RegistryProofs, AccountsProofs, WireProofs
MCRoom, MCFrameSync, MCMatchPool, MCLobby, MCRegistry, MCAdmin, MCWire: instances for TLC
```

**`Room`** is one room and the threads that work on it: the tick goroutine
(`Ticker`) and one goroutine per `QuitRoom` call (`Handlers`). A critical section
under `r.mu` is one action, but for the tick's, which is one action per input
(`Locked` says that the tick holds the lock). Each remote call is a step of its
own. `pc[t]` is where a thread is, `verdict[t]` the arguments of the `finish` it
is about to call. `Advance` is a tick period; `age` and `finishedFor` saturate
where the code's comparisons no longer change; `due` is the one-place channel of
`time.Ticker`. The plane is a line: the code uses the distance of the players
and clamps each coordinate alike. A frame is its number.
`TickStart`, `ConsumeOp`, `AllConsumed` (steps 1 to 5 of `Tick`: spawn, walk,
deaths, time limit), `Broadcast`/`PushFrames`, `Finish`, `SubmitScores`,
`PushResult1/2` and `Cleanup` follow the code in its order. A push may fail, for which
the code has no more than a line in the log: then the frame does not reach its player
(`missed`), or the result does not (`sent` counts the pushes of it, `results` those that
arrived). A push that times out may still arrive later, which is in `Wire`.

**`Settlement`** is what a room promises of its result whatever it does inside:
one decision, each player credited at most once with what it owes, each sent the
result exactly once, whether it reaches him or not.

**`FrameSync`** has the rules of the battle as operators on a simulation, the
server that uses them in order of arrival and the client that replays the sorted
frames. While `start_match` waits for the `MATCH_RSP`, the client throws away every frame
that is not full (`ThrowAway`) and those it reads together with the answer (`MatchRsp`);
`lost` remembers that it did.

**`MatchPool`** has the Redis data as variables (`pool` maps each mode to the
ages of its members, `seq`, `result`, `route`) and, per instance, where its
`MatchTick` is. Every Redis command is one step; the Lua scripts are atomic as in
Redis. A command may fail, some of them before or after they took effect, and
instances crash and start again; `MaxFailures` bounds how often.

**`Gateway`** has one goroutine per connection: it reads frames (several at once,
which it handles even if the connection is closed meanwhile), logs in, displaces
(`BindSession` under `sessionMu`, then `KickOld`), and cleans up
(`Disconnect`, `RemoveSession`, `Notify`, `GetRoute`, `DelRoute`). The kick writes without
a time limit: when the client of the old connection reads no more (it is not one of
`Readers`), the goroutine may stay in `KickOld` until that connection ends by itself
(`Stuck`). A connection may log in again, also as someone else, as the code lets it.

**`Lobby`** instantiates both (`Sessions`, `Match`) and adds `matchWorker`, the
calls with which the end of a connection reaches pools and rooms, the way of an
input (`OpInput`), and battles that are over at some time. Timers are punctual: in
each period of 500 ms every worker polls and every instance finishes at least one
`MatchTick`. That is the assumption under which the code's two deadlines can be
compared at all. `HandleMatchReq` refuses nobody, and so does `MatchReq`: a player may
have several workers at work, and ask during his battle. `MayAsk` keeps only the players
in `Patient` from it, about whom the properties are; they do what the players of
`interactive_client.py` do, who wait for their answer and play their battle to its end.
All others ask whenever they like, and are paired with the patient ones.

**`Matchmaking`** is what a request promises its player, with neither worker, pool nor loop
in it: who asks is answered once, with a battle he was paired into or, if there is none,
with a refusal; nobody is paired while he is in a battle that goes on. `Lobby`
implements it (`Promise` at its end): a player asks while a worker is at work for him, and
his news is the battle that an instance has still to publish for him, that is published,
read, or about to be sent. The promise is made to patient players who are here; a player
is gone when a connection of his has closed. Who is not patient is promised nothing, and
may be paired with anybody at any time.

**`Registry`** has the center's table (`addrOf`, `age`; of the services that somebody
looks for, games and rank) and, per process, where it is
(`pc`), where it runs (`at`), what its tickers want in this period of 5 s (`due`), what
it remembers of the table (`gameList`, `rankAddr`) and the client of rank it made once
(`rankClient`, `CallRank`). `Registers` says what a process registers that runs
somewhere, which is what its configuration names. `Start`, `Crash`,
`TryRegister`, `Beat`, `Reregister`, `Refresh` are the loops of the four kinds of
process, which differ: a game that cannot register ends, a gateway and rank go on, and
only rank registers again by itself. The center crashes and starts with an empty table;
a call may be lost, or take effect and lose its answer (`Unheard`). `Advance` ends a period and lets the sweep run.

**`Accounts`** takes `Register` and `Authenticate` of login and `VerifyToken` of the
center apart, statement by statement and command by command, with the time each key
has left. `Loses` are the errors the code does not look at. A hash is the pair of what
was hashed, a token is named by the call that made it.

**`Admin`** extends it with the ranking and with every question of players and
operators: a request that changes nothing is an operator, its answer as a function of
the state and of the services that are up (`Respond`, `RankQuery`).

**`FrameCodec`** is the cutting of a stream of words into frames. **`Wire`** uses it in
both directions of a connection: the tick that pushes to one player after the other
(`Tick`, `Push`, `PushReturns`, `PushTimesOut`), everybody who waits for a connection's
`writeMu` (`waiting`, `holder`), calls that never reach the gateway (`PushFails`), a `Write`
that puts in what there is room for, the read
loop (`Read`, `Decode`), the scan (`Scan`, `ScanCloses`), and players who stop reading or
are not heard of any more. `Frames` is what a client may send, illegal lengths apart.

## 3. The runs

The passing runs take between ten seconds and three minutes with `-workers 2` on an
ordinary machine.

| Run | Question | Bounds, and why they do |
|---|---|---|
| `battle` | no damage before the spawn; damage bounded by the cooldowns; mutual kills | a whole battle, two inputs a tick (kill and counter-kill in one frame), two cells, range 0, which walking leaves and reaches; a time limit of three periods, with which both may attack a second time after a cooldown of two frames, but for the bound; the skill, of cooldown four, comes once |
| `settling` | does the outcome fit the players and stay; no death forgotten, removal only when over; every frame to whoever can be reached; the room ends, is closed, calls return; `Room` implements `Settlement` | a `QuitRoom` call by either player or a stranger, repeated, against the tick, its pushes and the settlement; unequal HP when the time is over; pushes to either of the players may fail, to one in a behaviour (`MaxUnreached`) |
| `framesync` | the client's simulation equals the server's, and buries nobody | three frames, two inputs each, in every order of arrival, two frames on their way (`MaxInFlight`), the `MATCH_RSP` at any time; battles stop at `MaxFrames`, so deadlock is not checked |
| `pool` | distinct room numbers; one battle per join; distinct players; results name one's own room | two instances that interleave command by command, four joins (two rooms in the making at once), one failure or crash at any point |
| `sessions` | one connection per player; clean-up touches only its own session; no session left behind; a displaced connection is closed, a closed one cleaned up | two connections, of which the client of one does not read, two players, two requests in one read, any number of logins |
| `calm` | deadlines fit: nothing is left behind; inputs get into one's own battle and no other, and are lost only until the route is written; `Lobby` implements the safety part of `Matchmaking`: nobody is paired in a battle, refused when there is one, or told of none | pool limit of one period against three polls (the code: 20 against 22); a patient player and one who asks also while he waits and fights; four requests, so a second battle after the first; connections do not end |
| `drops` | nobody misses his battle, and the end of one player's connection takes nothing from the other; `Lobby` implements `Matchmaking`: every request is answered | two patient players, of whom the connection of one may end anywhere; two requests, so one battle |
| `discovery` | is what is listed where it runs; is a live game listed; how stale a gateway's list may be; does it come right; do calls reach rank where it is | a game and rank with two places each, a gateway, two faults (a crash of anything, the center included, a lost call or answer); a timeout of one period and ages one further; one try to register |
| `accounts` | one registration; sessions of one's own; live tokens verify; ranking pages are right; what `healthz` says is true | one account, two clients, two passwords, three calls (two that race and one after), one failure anywhere; keys live for two units, an operator's token for one; a ranking of up to four, of whom two may tie; a page of two when no length is asked, three at most, and each length from -1 to one too many asked for |
| `push` | types; frames heard as sent, whole, in order until a push times out, without a gap if each reached the gateway, never twice; ticks go on; the silent are thrown out | one player who plays and may stop reading, one who talks or is silent: two frames of a client (`MaxBeats`), so that one read may bring both, or an illegal length after a frame; two ticks, so that one overtakes the other; a socket of half a header, so that every frame is cut; `MaxFrameSize` of one word of payload, `Frames` with a heartbeat and one frame with a payload |

The type invariants of `Room`, `MatchPool`, `Gateway`, `Lobby`, `Registry` and `Accounts`,
and the inductive invariants `BattleInv` and `SettlementInv`, are proved, and no run repeats them.

`missed` and `forgotten` check one sentence of the documentation each and fail; see
[section 6](#6-what-the-checks-found).

Deadlock is off in `framesync` and `push`, which stop at their bounds. Bounds that exist
only for TLC, and stand in guards: `MaxPending` (queued inputs), `MaxJoins`,
`MaxFailures`, `MaxFaults`, `MaxCalls`, `MaxTicks`, `MaxBeats`, `MaxScore`, `MaxUnreached`,
`MaxFrames` (in `Gateway`, requests per read; in `FrameSync`, ticks) and `MaxInFlight`; `Horizon` is where
ages of `Registry` that only its properties look at stop. Symmetry is used over
interchangeable instances and players of the pools (`pool`), clients and passwords
(`accounts`) and workers (`calm`), in runs without liveness. What two players and two
connections may leave out, the proofs have for any number of them (section 5).

Each property of a passing run has a mutant, an operator marked *Mutant* in the
module: the bug it stands for, put in place of the definition named in
`PROJECT.json`, makes TLC find the property violated.

## 4. Fairness

* `Room`: weak fairness of time, of the tick goroutine and of each `QuitRoom` call
  that was made: the Go scheduler runs ready goroutines, and the remote calls in
  them have deadlines of 3 s and 5 s. Nobody is obliged to send inputs or to quit.
* `MatchPool`: instances are started and their match loops run; time passes.
  Players need not call anything.
* `Gateway`: a goroutine that has something to do goes on, `WF(~Stuck(c) /\ Serve(c))`;
  calls of a log-in end within 5 s, those of a clean-up within 3 s. The kick of a client
  that does not read has no time limit and need not end while that connection is open
  (`Stuck`), so `ClosedIsCleanedUp` asks nothing of who is held up in it, nor of the
  connection that is kicked. Connections need not end.
* `Lobby`: the same for workers and instances. The end of a period is strongly
  fair, because the model lets an instance tick any number of times in a period;
  the code ticks two or three times.
* `Registry`: time and the loops of a process that runs. Nobody has to start a process,
  nor the center again: the liveness properties are conditions on a center and processes
  that stay up from some moment on.
* `Wire`: goroutines run, `writeMu` is given to each who waits for it (Go's mutex does not
  starve), the 5 s of a push call pass, and a player who reads reads on. A player may
  stop reading for good, and nobody has to send. A call that fails is a way for a push to end.

`Accounts` and `Admin` have no liveness: a client may leave a call where it is.

## 5. The proofs

Proved by TLAPS for all values of the constants that meet the assumption named in each
module. `Room`: the two players differ and are not id 0; damage, HP and scores are
positive, limits natural numbers, the spawn lies on the map; the types of an input.
`FrameSync`: the players differ, numbers are natural, and a frame has at most the twelve
inputs that `sort.Slice` sorts by insertion, so stably.
`Gateway`, `MatchPool`, `Registry`, `Accounts`, `Wire`, `Lobby`: numbers are natural, what
stands for "none" is none of the others, kinds of processes are disjoint, `TokenTtl` is at
most `InfoTtl`. `Accounts`: MySQL refuses a second row of an account, which is part of the
model (section 6) and not among the assumptions of the module. `Admin`: finitely many
players, none of them the "none" of a token, and a default page within the longest. `Wire`: a socket takes at least a word, and a client's `Frames` fit into
`MaxFrameSize`. `Lobby`: one gateway, and a result lives for two polls at least (the code:
60 of them). Where a theorem needs more it is in its ASSUME and in the table.

| Theorem | States | Rests on |
|---|---|---|
| `RoomProofs!TypeCorrect` | `TypeOK` | itself |
| `RoomProofs!VerdictsFit`, `OutcomeFits` | `BattleInv`; `OutcomeFitsBattle`: the outcome is true of the players | `BattleInv` |
| `RoomProofs!FinishedIsFinal` | `OutcomeIsFinal`: nothing changes a finished room | `BattleInv` (the tick is not in its section) |
| `RoomProofs!DeathSettled` | `DeathIsBeingSettled`: no death is forgotten | itself, with `TypeOK` |
| `RoomProofs!SafeUntilSpawn` | `NoDamageBeforeSpawn`, with cooldowns of more than one frame (the code: 10 and 40) | `EarlyInv` |
| `RoomProofs!P2WinsMutualKill` | `MutualKillFavoursP2`, with the same | `EarlyInv` |
| `RoomProofs!DamageBounded` | `DamageWithinCooldown`, with cooldowns of at least one | `DamageInv` |
| `RoomProofs!Lockstep` | `FramesInLockstep`: who can be reached has every frame but perhaps the last | `FrameInv` |
| `RoomProofs!InOrder` | `FramesInOrder`: what reaches a player at once comes in order and once, and without a gap until a push to him fails | `FrameInv` |
| `RoomProofs!DroppedWhenOver` | `RemovedWhenOver` | itself |
| `RoomProofs!OneSettler` | `SettlementInv`: one thread publishes, and nothing twice | `SettlementInv` |
| `RoomProofs!RoomSettles` | every behaviour of `Room` is one of `Settlement!SafeSpec` | `SettlementInv` |
| `FrameSyncProofs!ClientsFollow` | `ClientFollowsServer`, of a client that threw no frame away, with cooldowns of more than one frame and no move before the first tick (section 6) | `SyncInv` |
| `MatchPoolProofs!TypeCorrect` | `TypeOK` | itself |
| `MatchPoolProofs!DistinctRoomIds` | `RoomIdsDistinct` | `RoomIdInv` |
| `MatchPoolProofs!OneRoomPerJoin` | `EntryPlaysOnce`, with finitely many instances | `EntryInv` |
| `MatchPoolProofs!OwnRoomNamed` | `ResultNamesOwnRoom` | `NameInv` |
| `MatchPoolProofs!TwoPlayers` | `NobodyPlaysHimself`, with one gateway | `TwoPlayersInv` |
| `GatewayProofs!TypeCorrect` | `TypeOK` | itself |
| `GatewayProofs!OneConnection`, `NoSessionLeft` | `OneConnectionPerPlayer`, `NoSessionOfTheGone` | `SessionInv` |
| `GatewayProofs!OwnCleanupOnly` | `OnlyOwnCleanupRemoves` | `TypeOK` |
| `RegistryProofs!TypeCorrect` | `TypeOK` | itself |
| `RegistryProofs!ListedWhereTheyRun` | `GamesListedWhereTheyRun` | itself |
| `RegistryProofs!ServingListed` | `ServingGameListed` | `LapseInv` |
| `RegistryProofs!StalenessBounded` | `BoundedStaleness` | `StaleInv` |
| `AccountsProofs!OneRegistrationHolds` | `OneRegistration` | `RegistrationInv` |
| `AccountsProofs!SessionIsOwnHolds` | `SessionIsOwn` | `TokenInv`, `OwnInv` |
| `AccountsProofs!LiveTokens` | `LiveTokenVerifies` | `TokenInv`, `OwnInv`, `LiveInv` |
| `AccountsProofs!AdminKeepsAccounts` | every behaviour of `Admin` is one of `Accounts`, so that these three hold of it | `AdminStep` |
| `AccountsProofs!PagesRight` | `RankPagesRight`: the best, best first, as many as asked for or as there are | `ScoreInv`, `LiveTokenVerifies` |
| `WireProofs!FramesWhole` | `FramesIntact` | `StreamInv` |
| `WireProofs!FramesHeard` | `HeardAsSent` | `HeardInv` |
| `WireProofs!TicksInOrder` | `InOrderUntilLate` | `PlaceInv`, `SortedInv` |
| `WireProofs!WireTyped` | `TypeOK` | `StreamInv`, `HeardInv`, `PlaceInv` |
| `LobbyProofs!PartsAgree` | `LobbyInv` | the steps of `MatchPoolProofs` and `GatewayProofs` |
| `LobbyProofs!LobbyTyped` | `TypeOK` | `LobbyInv` |
| `LobbyProofs!InputsArrive` | `InputsReachBattle` | `LobbyInv` |
| `LobbyProofs!RequestsLeaveNothing` | `NothingLeftBehind` (of patient players, whatever the others do), with one connection per player | `DevicesInv` |
| `LobbyProofs!NobodyMisses` | `NobodyMissesHisBattle` (of patient players), with the same | `DevicesInv` |
| `LobbyProofs!RequestsAsPromised` | `MatchesAsPromised`: every behaviour of `Lobby` is one of `Matchmaking!SafeSpec`, with the same | `PromiseInv` |
| `LobbyProofs!WhoStaysIsInformed` | `Matchmaking!Informed` of `Lobby`: a patient player who is here and in a battle that goes on was told of it last, or will be | `RequestsAsPromised` |
| `LobbyProofs!OneBattleAtATime` | `Matchmaking!OneBattle` of `Lobby`: no patient player who is here is in two battles that go on, whatever the impatient ask | `WhoStaysIsInformed`, room numbers |

The strengthenings, and what they add:

* `OutcomeFitsBattle` alone is not inductive: the step that publishes takes a
  verdict that was computed earlier. `BattleInv` adds that every verdict on its way
  to `finish` fits *now*: the dead have 0 HP and are never hit again, handlers only
  carry `opponent_left`, and between the tick's reading of the HP and its `finish`
  no input is consumed, so that only a quit can intervene; `Fits` excuses exactly
  that one (section 6). `SettlementInv` adds which credits and results
  the one publishing thread has still to send at each of its labels.
* `EarlyInv`: before the spawn the frame counter is at most 1, so no cooldown that counts
  from frame 0 is over. `DamageInv`: what a living player has lost is at most what both
  could deal in the cooldowns up to their last strikes. `FrameInv`: at each label of the
  tick, which frame each of the two has last, exactly if no push to him failed, and at
  most otherwise.
* `SyncInv`, of a client that threw nothing away (`InStep`): between any two frames on their way there is a simulation, the first of them
  the client's, the last the server's, and each frame takes the one before it to the one
  after it. Everybody in them is alive and has HP, so that no input is skipped on one side
  only. That a frame does to the client what the inputs did to the server is `SortedSame`:
  two inputs of different players commute (`Commute`: distances and lives do not change
  within a frame, damage adds up, each has his own cooldowns), and the inputs in order of
  arrival can be moved past each other until they are sorted. This is an induction over
  their number; the library's rule takes an operator, so `SeqInduction` here
  says it of a set of sequences, from the well-foundedness of the natural numbers.
* `RoomIdInv`: `room:seq` is never behind a number in use, and a number drawn belongs to
  one instance until it is a room's; the initialisation, which may fail, and `INCR` both
  only raise the counter. `EntryInv` counts for each member where it waits, is held or
  plays, against its calls. `NameInv` has the instance that is about to publish name its
  own pair's room. `TwoPlayersInv` has the pair in hand be two players, since one member
  is in a pool once.
* `SessionInv` says why two open connections of a player are one too many only for a
  moment: every open one is in the table or in the hands of a kicker, and the table has
  one place. It also keeps what is being cleaned up closed, and out of the table once
  `RemoveSession` has run, so that the entry it removes is never a successor's.
* `LapseInv`: a game known to this center within the timeout is in the table, with an age
  no greater than that. `StaleInv`: where a game runs, no time has passed since one did,
  and an address that an entry names, which the sweep would spare, has been without a game
  for no longer than the entry's age. That several places may register one address is
  allowed for: what is said is said of the address.
* `RegistrationInv`: of the calls that register an account at most one has the row and
  has not been told. `TokenInv`: a token under way is held by nobody and belongs to one
  call. `OwnInv`: whoever is past the check of the password, and each token, has the
  password of the row. `LiveInv` covers a whole session's token at each write, and through
  the writes of others for the same player.
* `PagesRight` needs that the ranking, which is `CHOOSE`n, is there: the number of those
  before a member (`RankOf`, what ZREVRANK answers) grows along the order, so it is one to
  one, and a finite set has as many ranks as members (`RankTaken`). `BoardRight` then has
  everybody on the board, each at his rank.
* `StreamInv`: the words on the way to a player alternate between first and second words
  of frames, beginning with where he is, and what the holder of the lock has still to
  write goes on from there while the connection is open.
* `HeardInv`: at which word of what is in the gateway's buffer and in the socket each frame
  that is not handled yet begins. The invariant carries these places along from read to
  read, so that no induction over the stream is needed: `Decode` cuts off the first of
  them, or stops at the first illegal length.
* `Wire`'s `PlaceInv`: the frame of a tick is in one place, with a handler that waits for the
  lock, with the holder, on the way or read. Until a push times out, what is coming is
  exactly the ticks after the last one read, up to the last one pushed, in order, if each
  push reached the gateway; if one did not, they are still in order, without it
  (`SortedInv`). That no player has more frames than there were ticks follows by counting
  the places.
* `LobbyInv`: a step of `Lobby` is a step of `MatchPool` or none, and one of `Gateway` or
  none, so what was proved of the steps of the two holds of its pools and its sessions.
  `WorkerInv` has what a worker holds at each label, `RoomsInv` which battle has a route,
  `NamesInv` that a session names a battle of its own player, `ToldInv` that nobody has
  been told of a battle whose results are not published.
* `DevicesInv` is about patient players with one connection each; the impatient appear in
  it only as what a patient one may be paired with. Its `PlaceInv` follows a request
  from the pool to the hand of a tick, the result and the query, and compares the time its
  entry has left with the time its worker goes on polling: in a pool the two have the same
  age, and when the time is up every instance that has begun its tick still comes to the
  entry (`Due`, by `TickInv`); in hand the worker has waited for at most `MatchTimeout`; a
  result is fetched before the worker gives up and before it expires. This is where the 22
  polls against 20 of the two deadlines are needed. `BattleInv` follows the battle: each of
  its patient players whose connection is open is in it or about to be told. `BusyInv` has
  no worker at work for a patient player while he is in a battle, `KnownInv` everybody in a
  pool or a battle logged in.
* `PromiseInv` is `DevicesInv` with `ReadInv`: what waits for a player whose result is being
  read is what was read, or nothing; so `DEL` deletes nothing unread, and his news is at
  most one battle. The proof then goes over the steps of `Lobby` (lemmas `Promised...`) and
  says of each which step of `Matchmaking` it is. Most are none, and it is enough that each
  player looks as before (`Alike`). The pairing is the step of `MatchTick` that makes the
  room: whoever is in hand has a worker at work or is gone, is in no battle that goes on
  (`BusyInv`), and has no other news, or is not patient and promised nothing. The refusal is the worker's giving up, which the
  comparison of deadlines puts where nothing can wait for its player. `Informed` is then an
  induction over the steps of `Matchmaking` alone (`InformedStep`), and since a player is
  told of one battle last, and a number is one room's, `OneBattle` follows.

Both assumptions of these theorems are needed.

* *One connection per player.* The code does not ask for it: a second connection displaces
  the first, and the client of this repository logs in anew without closing its old
  connection. With a second one both properties of `DevicesInv` are false (TLC finds both
  when the connection `c3` of the first player and a third request are added to `drops`).
  The worker of the displaced connection may join after the second one has logged in and
  leave an entry of the same player behind (`gateway.go:467`), and a battle made for the
  displaced one is told to nobody: its worker, no longer `alive()`, stops polling, and the
  successor has no worker. So `calm` and `drops` have one connection per player too.
  `InputsArrive` and `LobbyTyped` do without. (`Promise` has a player gone with the first
  of his connections that closes, so it would say little of one with two.)
* *Patience.* Who asks again during his battle is paired again, and is then in two battles,
  of which his session names the second: the first goes on without him, and is not told
  when his connection ends. `Matchmaking` promises him nothing, and the properties do not
  speak of him. They do speak of those he is paired with, for whom nothing changes.

Only model-checked: all liveness (TLAPS's backends do not reason about fairness and
`ENABLED`), with `KeepsPromise` and `KeepsMatchPromise` as far as they are liveness (their
safety parts are `RoomSettles` and `RequestsAsPromised`); and `HealthyMeansTrue` of `Admin`.

## 6. What the checks found

| Run | The text | The behaviour |
|---|---|---|
| `missed` | README.md:14, gateway.go:246: dropping out of a battle loses it | not between the pairing and the answer: `Session.RoomID` is set up to 500 ms after the room was made, and the room is never told |
| `forgotten` | cmd/game/main.go:84, gateway.go:118, api/service.go:88: when the heartbeat fails, register again | the heartbeat of a service the center does not know succeeds (center.go:154): after a restart of the center nobody but rank registers again |

Met while modelling, and stated by no run of their own. Battles and matches:

* A player who leaves after the time limit was found (room.go:358) and before `finish`
  may win on time, though room.go:132 and README.md:14 say that whoever leaves loses.
  `Fits` in `Room` excuses this quit, and no other.
* A move that is queued before the first tick moves the player on the server only; the
  client of interactive_client.py:365 has the spawn. Other inputs of the first frame
  do nothing on either side, which `framesync` checks.
* room.go:24 and service.go:263 say that the 2 s before a finished room is dropped
  ensure that its result was pushed. The score calls and pushes of a `QuitRoom`
  call may take longer; dropping the room does not stop them (`RoomIsClosed`).
* The clean-up of the pool (service.go:345, the comment at :337) removes who has timed out
  and also who has just joined again since the scan.
* `Session.RoomID` is never cleared and goes first (gateway.go:250): from his second match
  on, a waiter whose connection ends stays in the pool, and his next opponent gets a battle
  against nobody. That takes four requests and a connection that ends, which no run has
  (section 7).
* Nothing refuses a request of a player who waits or is in a battle (gateway.go:422-447):
  he may be in two battles at once, see section 5. `calm` has a player who asks during a
  battle; two battles at once take a third player, whom only the theorems have.
* A push that fails or times out is only logged (service.go:138, :144): its player has a
  gap in the frames from which his simulation does not recover, or never learns the
  result. No run says otherwise: `FramesInLockstep` is about who can be reached.
* While `start_match` waits for the `MATCH_RSP`, the client throws away every frame that is
  not full, and with the answer all that was read along with it
  (interactive_client.py:234-249). The room ticks from the moment it is made, up to a poll
  (500 ms) before that answer. A client that lost the first, full frame or one after it
  does not follow the server any more; `ClientFollowsServer` excuses it (`lost`).
* room.go:398-401 says that inputs are sorted because they do not commute. Within one frame
  those of different players do, since a tick applies damage, not death or movement, as it
  takes the inputs in; what the sorting must keep is the order of each player's own, and
  it is that which the mutant of `ClientFollowsServer` loses.
* The players are told of a room before its route is written (service.go:329-331);
  inputs sent in between are dropped without a word. `InputsReachBattle` allows for it.
* `alive()` and `JoinMatch` are two steps (gateway.go:467): a connection that ends in
  between leaves its player in the pool until the time limit.
* Through two gateways a player has two entries in a pool and may meet himself; hence the
  assumption of `TwoPlayers`.

Connections:

* A `Write` has no deadline and holds `writeMu`: a player who does not read blocks
  `SendKick`, and with it the scan of all sessions (gateway.go:18 promises that 90 s
  of silence end a connection) and the log-in of his successor, whose `BindSession` does
  not return. `SilentThrownOut` therefore asks for the kick only as long as everybody
  reads, and `ClosedIsCleanedUp` nothing of who is `Stuck`.
* The clean-up of a displaced connection deletes `gateway:route` of the player who
  is back on the same gateway (gateway.go:256 compares gateways, not connections), and
  GET and DEL are two commands. Nothing reads that route to find a player.
* A connection that logs in as a second player leaves the first one's entry in the
  table when it goes (gateway.go:367); `NoSessionOfTheGone` is about the last player.

Accounts, ranking, operators:

* scripts/init_db.sql:7 creates `players`, the code uses `player` (mysql_client.go:30).
  `Insert` takes the unique key of the script for the table the code uses: nothing in the
  repository says what that table's keys are. Without one, two registrations that both
  find no row would both succeed, and `OneRegistration` and `SessionIsOwn` would be false.
* A registration whose session could not be stored is told as failed and leaves the row
  (login.go:102). `Authenticate` tells an error of MySQL as an unknown account.
* A token is not prolonged when a player comes back with it. The data of a player may
  expire between HSET and EXPIRE and lose its name; `LiveTokenVerifies` excuses that one.
* Rank answers with an empty list and no error when Redis fails; `handlePlayer` answers
  404 when MySQL does. `UpdatePlayerScore` is called by nobody: the score of an account
  stays at its default.

Discovery:

* A gateway whose center lists no game keeps its old list. A gateway or rank that was
  restarted and could not register keeps its predecessor's entry alive by its heartbeats,
  at the address of the predecessor; games end instead (`GamesListedWhereTheyRun`).
* A game registers the address it listens on (cmd/game/main.go:66), not `advertise_ip`.
  `Registry` has the address as what the configuration says (`Registers`) and promises no
  more than that.
* The client of rank is made once and kept (cluster_client.go:155), though the comment at
  :26 says that the address follows the center ('通过中心服务发现动态刷新'): a process that
  has called rank at one place calls it there for ever. `RankFound` excuses such a one.

## 7. What is not modelled

* `PickGame`'s rotation over the list (`PickGame` is the set it chooses from), the gRPC
  connections to games cached by address, with the data race on the cached clients.
* `Registry`: entries of services that nobody looks for (gateways, apis). `discovery` has
  one game, so a dead instance beside a live one in a gateway's list is not in the run;
  `BoundedStaleness` is proved for any number.
* Several rooms side by side on one tick goroutine: `Room` has one and its ticks may be
  late, `Wire` has the pushes of one tick to several players.
* The expiry of routes (120 s and 300 s): longer than what the models follow.
* `Lobby`: commands that fail (they are in `MatchPool`), several gateways, clients that
  log in twice on a connection (that is in `Gateway`). Nothing is promised to players who
  are not patient or have a second connection (section 5): an old result may meet their
  next request, or be deleted unread by a second worker. `drops` has two requests, so
  nobody there comes back after a battle.
* Data races on `Session` fields, which are read and written without the lock.
* `Wire`: message id and flags are one word, bytes are words.
* `FrameSync`: pushes that fail or overtake each other (they are in `Room` and `Wire`), and
  so what a client makes of a gap.
* How a JWT is signed, the hash function, level and gold of a player, `RoomPlayer.Score`,
  the rank that `SubmitScore` answers: nothing depends on them.
* Configuration, logging, start-up and shutdown by signal, the drawing and the input of the
  client: no state over time that others see. Generated code. What nothing calls (`HDel`,
  `ZScore`, `SetNX`, `UpdatePlayerScore` and the like).

## 8. The plan

Done: the core (`Settlement`, `Room`, `FrameSync`, `MatchPool`, `Gateway`, `Lobby`,
`Matchmaking`), then `Registry`, `Accounts`, `Admin`, `FrameCodec`, `Wire`, and the proofs of section 5. What
would come next, in this order:

1. **Several rooms** on one tick goroutine with slow pushes, against `Settlement` for each,
   and late pushes against `FrameSync`: how far a client may be behind.
2. **Several connections per player, and impatient players**: what of `Matchmaking` remains
   for whom some entry may stay until the pool's own time limit, but none for longer.
3. **Cached connections** of `cluster_client.go` and `gateway_push_client.go`, with an
   address that changes under them.
