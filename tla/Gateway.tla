------------------------------ MODULE Gateway ------------------------------
(***************************************************************************)
(* The connections and sessions of one gateway (internal/gateway/          *)
(* gateway.go; the read loop of a connection is in cmd/gateway/main.go):   *)
(* log in, displacing the player's older connection, and the clean-up when *)
(* a connection ends, in whatever order the connections of one player do   *)
(* so.  What a match request and a room do with a session is in Lobby.     *)
(*                                                                         *)
(* Every connection has its own goroutine.  Sections under sessionMu and   *)
(* under a session's writeMu are one action, and so is every call out; the *)
(* goroutines interleave between them.  The calls to login and center are  *)
(* one request that succeeds or fails.  An idle connection may time out at *)
(* any moment: a client that sends nothing for 90 s is not told apart.     *)
(* The expiry of gateway:route (120 s, never renewed) is left out.         *)
(***************************************************************************)
EXTENDS Integers

CONSTANTS
    Conns, NoConn,           \* TCP connections, each with its Session
    Readers,                 \* those whose client reads what it is sent
    Players, NoPlayer,       \* player ids; 0
    Rooms, NoRoom,           \* what a match worker may answer; 0
    Modes,                   \* 0 and 1
    Faults,                  \* Redis commands may fail
    MaxFrames                \* bound on the frames one Read returns

NotWaiting == -1             \* MatchMode outside match-making

ASSUME GatewayAssumption ==
    /\ NoConn \notin Conns /\ Readers \subseteq Conns /\ NoPlayer \notin Players
    /\ NoRoom \notin Rooms /\ Faults \in BOOLEAN
    /\ MaxFrames \in Nat \ {0}
    /\ 0 \in Modes /\ NotWaiting \notin Modes

VARIABLES
    socket,                  \* the TCP connection: "new", "open", "closed"
    \* Session
    player, roomID, matchMode,
    sessions,                \* Gateway.sessions, by player
    route,                   \* gateway:route:<player> in Redis
    \* the goroutine of each connection
    pc,
    frames,                  \* requests it has read and not handled
    wanted,                  \* the player its login request names
    old,                     \* BindSession's old
    left                     \* OnClientDisconnect's roomID and matchMode

session == <<player, roomID, matchMode>>
local   == <<frames, wanted, old, left>>
vars == <<socket, session, sessions, route, pc, local>>

Here == "here"  Elsewhere == "elsewhere"  Nowhere == "nowhere"
Goto(c, label) == pc' = [pc EXCEPT ![c] = label]

Init ==
    /\ socket = [c \in Conns |-> "new"]
    /\ player = [c \in Conns |-> NoPlayer]
    /\ roomID = [c \in Conns |-> NoRoom]
    /\ matchMode = [c \in Conns |-> 0]
    /\ sessions = [p \in Players |-> NoConn]
    /\ route = [p \in Players |-> Nowhere]
    /\ pc = [c \in Conns |-> "read"]
    /\ frames = [c \in Conns |-> 0]
    /\ wanted = [c \in Conns |-> NoPlayer]
    /\ old = [c \in Conns |-> NoConn]
    /\ left = [c \in Conns |-> [room |-> NoRoom, mode |-> NotWaiting]]

-----------------------------------------------------------------------------
Connect(c) ==
    /\ socket[c] = "new"
    /\ socket' = [socket EXCEPT ![c] = "open"]
    /\ UNCHANGED <<session, sessions, route, pc, local>>

\* The client or the network ends the connection.
Drop(c) ==
    /\ socket[c] = "open"
    /\ socket' = [socket EXCEPT ![c] = "closed"]
    /\ UNCHANGED <<session, sessions, route, pc, local>>

\* scanTimeoutLoop closes the connection of a session that has been silent.
ScanTimeout(c) ==
    /\ \E p \in Players : sessions[p] = c
    /\ socket[c] = "open"
    /\ socket' = [socket EXCEPT ![c] = "closed"]
    /\ UNCHANGED <<session, sessions, route, pc, local>>

\* Another gateway writes the player's route.
LoginElsewhere(p) ==
    /\ route' = [route EXCEPT ![p] = Elsewhere]
    /\ UNCHANGED <<socket, session, sessions, pc, local>>

-----------------------------------------------------------------------------
\* One Read may bring several frames; they are all handled before the next one,
\* and before the goroutine notices that its connection was closed.
Read(c) ==
    /\ pc[c] = "read" /\ socket[c] = "open"
    /\ frames[c] = 0
    /\ \E n \in 1..MaxFrames : frames' = [frames EXCEPT ![c] = n]
    /\ UNCHANGED <<socket, session, sessions, route, pc, wanted, old, left>>

NextFrame(c) ==
    /\ pc[c] = "read" /\ frames[c] > 0
    /\ frames' = [frames EXCEPT ![c] = @ - 1]

\* A heartbeat, an operation or a query, which do nothing here.
OtherFrame(c) ==
    /\ NextFrame(c)
    /\ UNCHANGED <<socket, session, sessions, route, pc, wanted, old, left>>

\* HandleLoginReq or HandleRegisterReq, on a connection that is logged in already
\* too; meanwhile the socket may close.
LoginReq(c, p) ==
    /\ NextFrame(c)
    /\ wanted' = [wanted EXCEPT ![c] = p]
    /\ Goto(c, "auth")
    /\ UNCHANGED <<socket, session, sessions, route, old, left>>

LoginFailed(c) ==
    /\ pc[c] = "auth"
    /\ wanted' = [wanted EXCEPT ![c] = NoPlayer]
    /\ Goto(c, "read")
    /\ UNCHANGED <<socket, session, sessions, route, frames, old, left>>

\* Mutant: the map is read after it was written.
OldAfterSwap(c) == c

OldSession(c) == sessions[wanted[c]]

\* The session's fields, then BindSession under sessionMu.  RoomID keeps what
\* it was.
BindSession(c) ==
    /\ pc[c] = "auth"
    /\ player' = [player EXCEPT ![c] = wanted[c]]
    /\ matchMode' = [matchMode EXCEPT ![c] = NotWaiting]
    /\ sessions' = [sessions EXCEPT ![wanted[c]] = c]
    /\ wanted' = [wanted EXCEPT ![c] = NoPlayer]
    /\ \/ /\ OldSession(c) \notin {NoConn, c}
          /\ old' = [old EXCEPT ![c] = OldSession(c)]
          /\ Goto(c, "kick")
       \/ /\ OldSession(c) \in {NoConn, c}
          /\ UNCHANGED old
          /\ Goto(c, "route")
    /\ UNCHANGED <<socket, roomID, route, frames, left>>

\* Mutant: the displaced client is told and its connection left open.
KickedOnly(c) ==
    /\ pc[c] = "kick"
    /\ old' = [old EXCEPT ![c] = NoConn]
    /\ Goto(c, "route")
    /\ UNCHANGED <<socket, session, sessions, route, frames, wanted, left>>

\* SendKick and Close of the displaced connection.  The write has no deadline: to a client that
\* does not read it may take for ever, and the login that waits for it with it.
KickOld(c) ==
    /\ pc[c] = "kick"
    /\ socket' = [socket EXCEPT ![old[c]] = "closed"]
    /\ old' = [old EXCEPT ![c] = NoConn]
    /\ Goto(c, "route")
    /\ UNCHANGED <<session, sessions, route, frames, wanted, left>>

\* SETEX gateway:route; an error is ignored.
WriteRoute(c) ==
    /\ pc[c] = "route"
    /\ \/ route' = [route EXCEPT ![player[c]] = Here]
       \/ Faults /\ UNCHANGED route
    /\ Goto(c, "read")
    /\ UNCHANGED <<socket, session, sessions, local>>

\* HandleMatchReq of a player who is logged in, up to the start of matchWorker.
MatchReq(c, mo) ==
    /\ NextFrame(c)
    /\ player[c] # NoPlayer
    /\ matchMode' = [matchMode EXCEPT ![c] = mo]
    /\ UNCHANGED <<socket, player, roomID, sessions, route, pc, wanted, old, left>>

\* sendMatchRsp of a worker, with a room or, for NoRoom, a refusal.  Several may be at work for
\* one session.
SendMatchRsp(c, room) ==
    /\ roomID' = [roomID EXCEPT ![c] = IF room # NoRoom THEN room ELSE @]
    /\ matchMode' = [matchMode EXCEPT ![c] = NotWaiting]
    /\ UNCHANGED <<socket, player, sessions, route, pc, local>>

-----------------------------------------------------------------------------
\* The read fails: the deferred OnClientDisconnect begins, and ends at once for
\* a connection that never logged in.  Otherwise it reads the session.
Disconnect(c) ==
    /\ pc[c] = "read" /\ socket[c] = "closed" /\ frames[c] = 0
    /\ left' = [left EXCEPT ![c] = [room |-> roomID[c], mode |-> matchMode[c]]]
    /\ Goto(c, IF player[c] = NoPlayer THEN "gone" ELSE "remove")
    /\ UNCHANGED <<socket, session, sessions, route, frames, wanted, old>>

\* Mutant: only a session that waits in a pool is removed.
WithoutWaiting(c) ==
    [p \in Players |-> IF p = player[c] /\ sessions[p] = c /\ left[c].mode # NotWaiting
                      THEN NoConn ELSE sessions[p]]

\* Mutant: whoever is the player's session is removed.
WithoutAny(c) == [sessions EXCEPT ![player[c]] = NoConn]

Without(c) == [p \in Players |-> IF p = player[c] /\ sessions[p] = c THEN NoConn
                                                                     ELSE sessions[p]]

\* RemoveSession.  A room is left before a pool: a session with a RoomID never
\* takes the second branch.
RemoveSession(c) ==
    /\ pc[c] = "remove"
    /\ sessions' = Without(c)
    /\ Goto(c, IF left[c].room # NoRoom THEN "quit"
               ELSE IF left[c].mode # NotWaiting THEN "leave" ELSE "getroute")
    /\ UNCHANGED <<socket, session, route, local>>

\* QuitRoomTo of the room, or BroadcastLeaveMatch: calls that go out.
Notify(c) ==
    /\ pc[c] \in {"quit", "leave"}
    /\ Goto(c, "getroute")
    /\ UNCHANGED <<socket, session, sessions, route, local>>

\* GET gateway:route, and DEL if it names this gateway.
GetRoute(c) ==
    /\ pc[c] = "getroute"
    /\ \/ route[player[c]] = Here /\ Goto(c, "delroute")
       \/ (route[player[c]] # Here \/ Faults) /\ Goto(c, "gone")
    /\ UNCHANGED <<socket, session, sessions, route, local>>

DelRoute(c) ==
    /\ pc[c] = "delroute"
    /\ \/ route' = [route EXCEPT ![player[c]] = Nowhere]
       \/ Faults /\ UNCHANGED route
    /\ Goto(c, "gone")
    /\ UNCHANGED <<socket, session, sessions, local>>

OnClientDisconnect(c) ==
    Disconnect(c) \/ RemoveSession(c) \/ Notify(c) \/ GetRoute(c) \/ DelRoute(c)

Login(c) == LoginFailed(c) \/ BindSession(c) \/ KickOld(c) \/ WriteRoute(c)

HandleFrame(c) == \/ OtherFrame(c)
                  \/ \E p \in Players : LoginReq(c, p)
                  \/ \E mo \in Modes : MatchReq(c, mo)

\* What the goroutine of a connection does next; it reads when there is something.
Serve(c) == HandleFrame(c) \/ Login(c) \/ OnClientDisconnect(c)

Next ==
    \/ \E c \in Conns :
         \/ Connect(c) \/ Drop(c) \/ ScanTimeout(c)
         \/ Read(c) \/ Serve(c)
         \/ /\ player[c] # NoPlayer
            /\ \E room \in Rooms \cup {NoRoom} : SendMatchRsp(c, room)
    \/ \E p \in Players : LoginElsewhere(p)

\* The goroutine may be held up in the kick of a client that does not read.
Stuck(c) == pc[c] = "kick" /\ old[c] \notin Readers /\ socket[old[c]] # "closed"

\* A goroutine runs on once it has something to do, unless it is held up; the calls of a login
\* and of a clean-up have deadlines (5 s, 3 s), and a write to a closed connection fails.
Fairness == \A c \in Conns : WF_vars(~Stuck(c) /\ Serve(c))

Spec == Init /\ [][Next]_vars /\ Fairness

-----------------------------------------------------------------------------
(* PROPERTIES *)

\* Every variable has its type.
TypeOK ==
    /\ socket \in [Conns -> {"new", "open", "closed"}]
    /\ player \in [Conns -> Players \cup {NoPlayer}]
    /\ matchMode \in [Conns -> Modes \cup {NotWaiting}]
    /\ sessions \in [Players -> Conns \cup {NoConn}]
    /\ route \in [Players -> {Here, Elsewhere, Nowhere}]
    /\ pc \in [Conns -> {"read", "auth", "kick", "route", "remove", "quit", "leave",
                         "getroute", "delroute", "gone"}]
    /\ roomID \in [Conns -> Rooms \cup {NoRoom}]
    /\ frames \in [Conns -> 0..MaxFrames]
    /\ wanted \in [Conns -> Players \cup {NoPlayer}]
    /\ old \in [Conns -> Conns \cup {NoConn}]
    /\ left \in [Conns -> [room : Rooms \cup {NoRoom}, mode : Modes \cup {NotWaiting}]]
    /\ \A c \in Conns : /\ pc[c] = "kick" => old[c] \in Conns \ {c}
                        /\ pc[c] = "auth" => wanted[c] \in Players
                        /\ pc[c] \notin {"read", "auth", "gone"} => player[c] # NoPlayer

\* A player who logs in on several connections at once ends up with one: every
\* other connection of his that is still open is about to be closed by the one
\* that displaced it (BindSession kicks after it has released sessionMu).
OneConnectionPerPlayer ==
    \A c, d \in Conns :
        c # d /\ player[c] = player[d] /\ player[c] # NoPlayer
        /\ socket[c] = "open" /\ socket[d] = "open"
          => \E e \in Conns : pc[e] = "kick" /\ old[e] \in {c, d}

\* A session disappears by the clean-up of its own connection only: that of a
\* displaced connection never removes its successor (RemoveSession).
OnlyOwnCleanupRemoves ==
    [][\A p \in Players : sessions[p] # NoConn /\ sessions'[p] = NoConn =>
         pc[sessions[p]] = "remove"]_vars

\* Once a connection has been cleaned up its player cannot be reached through it
\* any more (OnClientDisconnect).  If it has logged in as several players, the
\* entries of the former ones stay: RemoveSession knows the last one only.
NoSessionOfTheGone ==
    \A c \in Conns : pc[c] = "gone" /\ player[c] # NoPlayer => sessions[player[c]] # c

\* A connection that is displaced is closed if its client reads, and one that is closed is cleaned
\* up, however logins and clean-ups of one player overlap, unless its own goroutine is held up in
\* the kick of a client that does not read (BindSession, OnClientDisconnect).
ClosedIsCleanedUp ==
    \A c \in Conns :
        socket[c] = "closed" \/ (c \in Readers /\ \E e \in Conns \ {c} : old[e] = c)
          ~> pc[c] = "gone" \/ Stuck(c)
=============================================================================
