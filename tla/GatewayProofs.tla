---------------------------- MODULE GatewayProofs ----------------------------
(***************************************************************************)
(* Proofs about Gateway, for any number of connections and players and any *)
(* number of frames in a read.                                             *)
(***************************************************************************)
EXTENDS Gateway, TLAPS

\* Every variable has its type from the start.
LEMMA TypeInit == Init => TypeOK
BY GatewayAssumption DEF GatewayAssumption, Init, TypeOK, Here, Elsewhere, Nowhere, NotWaiting

\* The steps that change neither the goroutine's place nor what TypeOK says of it.
LEMMA TypeSockets ==
    ASSUME TypeOK, NEW c \in Conns, Connect(c) \/ Drop(c) \/ ScanTimeout(c)
    PROVE  TypeOK'
BY DEF TypeOK, Connect, Drop, ScanTimeout, session, local

\* The frames that are handled without a call.
LEMMA TypeFrames ==
    ASSUME TypeOK, NEW c \in Conns, Read(c) \/ OtherFrame(c) \/ (\E mo \in Modes : MatchReq(c, mo))
    PROVE  TypeOK'
<1>1. CASE Read(c)
  BY <1>1, GatewayAssumption DEF TypeOK, Read, session, GatewayAssumption
<1>2. CASE OtherFrame(c)
  BY <1>2, GatewayAssumption DEF TypeOK, OtherFrame, NextFrame, session, GatewayAssumption
<1>3. CASE \E mo \in Modes : MatchReq(c, mo)
  <2>1. PICK mo \in Modes : MatchReq(c, mo)
    BY <1>3
  <2> QED BY <2>1, GatewayAssumption DEF TypeOK, MatchReq, NextFrame, GatewayAssumption
<1> QED BY <1>1, <1>2, <1>3

\* A login, from its frame to the route.
LEMMA TypeLogin ==
    ASSUME TypeOK, NEW c \in Conns, Login(c) \/ (\E p \in Players : LoginReq(c, p))
    PROVE  TypeOK'
<1>1. CASE \E p \in Players : LoginReq(c, p)
  <2>1. PICK p \in Players : LoginReq(c, p)
    BY <1>1
  <2> QED BY <2>1, GatewayAssumption
          DEF TypeOK, LoginReq, NextFrame, Goto, session, GatewayAssumption
<1>2. CASE LoginFailed(c)
  BY <1>2 DEF TypeOK, LoginFailed, Goto, session
<1>3. CASE BindSession(c)
  <2>1. wanted[c] \in Players /\ pc[c] = "auth"
    BY <1>3 DEF TypeOK, BindSession
  <2>2. OldSession(c) \in Conns \cup {NoConn}
    BY <2>1 DEF TypeOK, OldSession
  <2>3. pc' \in [Conns -> {"read", "auth", "kick", "route", "remove", "quit", "leave",
                           "getroute", "delroute", "gone"}]
    BY <1>3 DEF TypeOK, BindSession, Goto
  <2>4. old' \in [Conns -> Conns \cup {NoConn}]
    BY <1>3, <2>2 DEF TypeOK, BindSession
  <2>5. \A d \in Conns : /\ pc'[d] = "kick" => old'[d] \in Conns \ {d}
                         /\ pc'[d] = "auth" => wanted'[d] \in Players
                         /\ pc'[d] \notin {"read", "auth", "gone"} => player'[d] # NoPlayer
    BY <1>3, <2>1, <2>2, GatewayAssumption DEF TypeOK, BindSession, Goto, GatewayAssumption
  <2> QED BY <1>3, <2>1, <2>3, <2>4, <2>5 DEF TypeOK, BindSession
<1>4. CASE KickOld(c)
  BY <1>4 DEF TypeOK, KickOld, Goto, session
<1>5. CASE WriteRoute(c)
  BY <1>5 DEF TypeOK, WriteRoute, Goto, session, local
<1> QED BY <1>1, <1>2, <1>3, <1>4, <1>5 DEF Login

\* The clean-up of a connection.
LEMMA TypeCleanup ==
    ASSUME TypeOK, NEW c \in Conns, OnClientDisconnect(c)
    PROVE  TypeOK'
<1>1. CASE Disconnect(c)
  BY <1>1 DEF TypeOK, Disconnect, Goto, session
<1>2. CASE RemoveSession(c)
  BY <1>2 DEF TypeOK, RemoveSession, Without, Goto, session, local
<1>3. CASE Notify(c)
  BY <1>3 DEF TypeOK, Notify, Goto, session, local
<1>4. CASE GetRoute(c)
  <2>1. player[c] # NoPlayer
    BY <1>4 DEF TypeOK, GetRoute
  <2>2. PICK label \in {"delroute", "gone"} : pc' = [pc EXCEPT ![c] = label]
    BY <1>4 DEF GetRoute, Goto
  <2>3. UNCHANGED <<socket, session, sessions, route, local>>
    BY <1>4 DEF GetRoute
  <2> QED BY <2>1, <2>2, <2>3 DEF TypeOK, session, local
<1>5. CASE DelRoute(c)
  BY <1>5 DEF TypeOK, DelRoute, Goto, session, local
<1> QED BY <1>1, <1>2, <1>3, <1>4, <1>5 DEF OnClientDisconnect

\* Every step keeps the types.
LEMMA TypeStep == TypeOK /\ [Next]_vars => TypeOK'
<1> SUFFICES ASSUME TypeOK, [Next]_vars PROVE TypeOK'
  OBVIOUS
<1>1. ASSUME NEW c \in Conns, NEW room \in Rooms \cup {NoRoom}, SendMatchRsp(c, room)
      PROVE  TypeOK'
  BY <1>1 DEF TypeOK, SendMatchRsp, local
<1>2. ASSUME NEW p \in Players, LoginElsewhere(p)
      PROVE  TypeOK'
  BY <1>2 DEF TypeOK, LoginElsewhere, session, local
<1>3. CASE UNCHANGED vars
  BY <1>3 DEF TypeOK, vars, session, local
<1> QED BY <1>1, <1>2, <1>3, TypeSockets, TypeFrames, TypeLogin, TypeCleanup
        DEF Next, Serve, HandleFrame

\* Every variable has its type, always.
THEOREM TypeCorrect == Spec => []TypeOK
<1>1. QED BY TypeInit, TypeStep, PTL DEF Spec

-----------------------------------------------------------------------------
\* The inductive invariant behind OneConnectionPerPlayer and NoSessionOfTheGone:
\* an open connection that is logged in is its player's session or is about to
\* be closed; what is being cleaned up is closed, and out of the table after
\* RemoveSession.
SessionInv ==
    \A c \in Conns :
        /\ socket[c] = "new" => pc[c] = "read" /\ frames[c] = 0 /\ player[c] = NoPlayer
        /\ pc[c] \in {"remove", "quit", "leave", "getroute", "delroute", "gone"}
             => socket[c] = "closed"
        /\ socket[c] = "open" /\ player[c] # NoPlayer
             => sessions[player[c]] = c \/ \E e \in Conns : pc[e] = "kick" /\ old[e] = c
        /\ pc[c] \in {"quit", "leave", "getroute", "delroute", "gone"} /\ player[c] # NoPlayer
             => sessions[player[c]] # c

\* It holds when every connection is new.
LEMMA SessionInit == Init => SessionInv
<1> SUFFICES ASSUME Init, NEW c \in Conns
             PROVE  socket[c] = "new" /\ pc[c] = "read" /\ frames[c] = 0 /\ player[c] = NoPlayer
  BY DEF SessionInv
<1> QED BY DEF Init

\* Connecting, disconnecting, and the frames handled without a call.
LEMMA SessionSockets ==
    ASSUME TypeOK, SessionInv, NEW c \in Conns,
           \/ Connect(c) \/ Drop(c) \/ ScanTimeout(c) \/ Read(c) \/ OtherFrame(c)
           \/ (\E mo \in Modes : MatchReq(c, mo)) \/ (\E p \in Players : LoginReq(c, p))
    PROVE  SessionInv'
<1>1. CASE Connect(c)
  BY <1>1 DEF TypeOK, SessionInv, Connect, session, local
<1>2. CASE Drop(c) \/ ScanTimeout(c)
  BY <1>2 DEF TypeOK, SessionInv, Drop, ScanTimeout, session, local
<1>3. CASE Read(c)
  BY <1>3 DEF TypeOK, SessionInv, Read, session
<1>4. CASE OtherFrame(c)
  BY <1>4 DEF TypeOK, SessionInv, OtherFrame, NextFrame, session
<1>5. CASE \E mo \in Modes : MatchReq(c, mo)
  BY <1>5 DEF TypeOK, SessionInv, MatchReq, NextFrame
<1>6. CASE \E p \in Players : LoginReq(c, p)
  BY <1>6 DEF TypeOK, SessionInv, LoginReq, NextFrame, Goto, session
<1> QED BY <1>1, <1>2, <1>3, <1>4, <1>5, <1>6

\* BindSession puts the connection in the table and announces the kick of the one
\* that was there, in one critical section.
LEMMA SessionBind ==
    ASSUME TypeOK, SessionInv, NEW c \in Conns, BindSession(c)
    PROVE  SessionInv'
<1> DEFINE p == wanted[c]
<1>1. pc[c] = "auth" /\ p \in Players /\ p # NoPlayer
  BY GatewayAssumption DEF TypeOK, BindSession, GatewayAssumption
<1>2. /\ player' = [player EXCEPT ![c] = p]
      /\ sessions' = [sessions EXCEPT ![p] = c]
      /\ UNCHANGED <<socket, frames>>
  BY DEF BindSession
<1>3. socket[c] # "new"
  BY <1>1 DEF SessionInv
<1>4. \A e \in Conns : pc[e] = "kick" => pc'[e] = "kick" /\ old'[e] = old[e]
  BY <1>1 DEF TypeOK, BindSession, Goto
<1>5. pc'[c] \in {"kick", "route"} /\ \A e \in Conns \ {c} : pc'[e] = pc[e]
  BY DEF TypeOK, BindSession, Goto
<1>6. sessions[p] \in Conns \ {c} => pc'[c] = "kick" /\ old'[c] = sessions[p]
  BY <1>1, GatewayAssumption DEF TypeOK, BindSession, OldSession, Goto, GatewayAssumption
<1>7. ASSUME NEW d \in Conns, socket'[d] = "open", player'[d] # NoPlayer
      PROVE  sessions'[player'[d]] = d \/ \E e \in Conns : pc'[e] = "kick" /\ old'[e] = d
  <2>1. CASE d = c
    BY <2>1, <1>1, <1>2 DEF TypeOK
  <2>2. CASE d # c
    <3>1. player'[d] = player[d] /\ player[d] \in Players
      BY <2>2, <1>2, <1>7 DEF TypeOK
    <3>2. CASE \E e \in Conns : pc[e] = "kick" /\ old[e] = d
      BY <3>2, <1>4
    <3>3. CASE sessions[player[d]] = d /\ player[d] = p
      BY <3>3, <2>2, <1>6
    <3>4. CASE sessions[player[d]] = d /\ player[d] # p
      BY <3>4, <3>1, <1>1, <1>2 DEF TypeOK
    <3> QED BY <3>1, <3>2, <3>3, <3>4, <1>2, <1>7 DEF SessionInv
  <2> QED BY <2>1, <2>2
<1>8. ASSUME NEW d \in Conns, player'[d] # NoPlayer,
             pc'[d] \in {"quit", "leave", "getroute", "delroute", "gone"}
      PROVE  sessions'[player'[d]] # d
  <2>1. d # c /\ pc'[d] = pc[d] /\ player'[d] = player[d]
    BY <1>2, <1>5, <1>8 DEF TypeOK
  <2> QED BY <2>1, <1>1, <1>2, <1>8 DEF TypeOK, SessionInv
<1>9. \A d \in Conns :
        /\ socket'[d] = "new" => pc'[d] = "read" /\ frames'[d] = 0 /\ player'[d] = NoPlayer
        /\ pc'[d] \in {"remove", "quit", "leave", "getroute", "delroute", "gone"}
             => socket'[d] = "closed"
  BY <1>2, <1>3, <1>5 DEF TypeOK, SessionInv
<1> QED BY <1>7, <1>8, <1>9 DEF SessionInv

\* The rest of a login.
LEMMA SessionLogin ==
    ASSUME TypeOK, SessionInv, NEW c \in Conns, LoginFailed(c) \/ KickOld(c) \/ WriteRoute(c)
    PROVE  SessionInv'
<1>1. CASE LoginFailed(c)
  BY <1>1 DEF TypeOK, SessionInv, LoginFailed, Goto, session
<1>2. CASE KickOld(c)
  BY <1>2 DEF TypeOK, SessionInv, KickOld, Goto, session
<1>3. CASE WriteRoute(c)
  BY <1>3 DEF TypeOK, SessionInv, WriteRoute, Goto, session, local
<1> QED BY <1>1, <1>2, <1>3

\* The clean-up.
LEMMA SessionCleanup ==
    ASSUME TypeOK, SessionInv, NEW c \in Conns, OnClientDisconnect(c)
    PROVE  SessionInv'
<1>1. CASE Disconnect(c)
  BY <1>1 DEF TypeOK, SessionInv, Disconnect, Goto, session
<1>2. CASE RemoveSession(c)
  BY <1>2, GatewayAssumption
     DEF TypeOK, SessionInv, RemoveSession, Without, Goto, session, local, GatewayAssumption
<1>3. CASE Notify(c)
  BY <1>3 DEF TypeOK, SessionInv, Notify, Goto, session, local
<1>4. CASE GetRoute(c)
  BY <1>4 DEF TypeOK, SessionInv, GetRoute, Goto, session, local
<1>5. CASE DelRoute(c)
  BY <1>5 DEF TypeOK, SessionInv, DelRoute, Goto, session, local
<1> QED BY <1>1, <1>2, <1>3, <1>4, <1>5 DEF OnClientDisconnect

\* Every step keeps the invariant.
LEMMA SessionStep == TypeOK /\ SessionInv /\ [Next]_vars => SessionInv'
<1> SUFFICES ASSUME TypeOK, SessionInv, [Next]_vars PROVE SessionInv'
  OBVIOUS
<1>1. ASSUME NEW c \in Conns, NEW room \in Rooms \cup {NoRoom}, SendMatchRsp(c, room)
      PROVE  SessionInv'
  BY <1>1 DEF SessionInv, SendMatchRsp, local
<1>2. ASSUME NEW p \in Players, LoginElsewhere(p)
      PROVE  SessionInv'
  BY <1>2 DEF SessionInv, LoginElsewhere, session, local
<1>3. CASE UNCHANGED vars
  BY <1>3 DEF SessionInv, vars, session, local
<1> QED BY <1>1, <1>2, <1>3, SessionSockets, SessionBind, SessionLogin, SessionCleanup
        DEF Next, Serve, HandleFrame, Login

\* The table of sessions, the sockets and the kicks under way agree, always
\* (BindSession, RemoveSession).
THEOREM SessionsAgree == Spec => []SessionInv
<1>1. QED BY TypeCorrect, SessionInit, SessionStep, PTL DEF Spec

-----------------------------------------------------------------------------
\* However many connections log in as one player, in whatever order, no two of
\* them stay open: the older one is in the hands of its kicker (BindSession).
THEOREM OneConnection == Spec => []OneConnectionPerPlayer
<1>1. TypeOK /\ SessionInv => OneConnectionPerPlayer
  <2> SUFFICES ASSUME SessionInv, NEW c \in Conns, NEW d \in Conns,
                      c # d, player[c] = player[d], player[c] # NoPlayer,
                      socket[c] = "open", socket[d] = "open"
               PROVE  \E e \in Conns : pc[e] = "kick" /\ old[e] \in {c, d}
    BY DEF OneConnectionPerPlayer
  <2>1. \A b \in {c, d} :
          sessions[player[b]] = b \/ \E e \in Conns : pc[e] = "kick" /\ old[e] = b
    BY DEF SessionInv
  <2>2. ~(sessions[player[c]] = c /\ sessions[player[d]] = d)
    OBVIOUS
  <2> QED BY <2>1, <2>2
<1> QED BY <1>1, TypeCorrect, SessionsAgree, PTL

\* A connection that was cleaned up is not its player's session (RemoveSession).
THEOREM NoSessionLeft == Spec => []NoSessionOfTheGone
<1>1. SessionInv => NoSessionOfTheGone
  BY DEF SessionInv, NoSessionOfTheGone
<1> QED BY <1>1, SessionsAgree, PTL

\* The clean-up of a displaced connection never takes its successor's session,
\* and nothing else takes any (RemoveSession).
THEOREM OwnCleanupOnly == Spec => OnlyOwnCleanupRemoves
<1> DEFINE Removed(p) == sessions[p] # NoConn /\ sessions'[p] = NoConn
           Step == \A p \in Players : Removed(p) => pc[sessions[p]] = "remove"
<1>1. TypeOK /\ [Next]_vars => Step
  <2> SUFFICES ASSUME TypeOK, [Next]_vars, NEW p \in Players, Removed(p)
               PROVE  pc[sessions[p]] = "remove"
    OBVIOUS
  <2>1. sessions' # sessions
    OBVIOUS
  <2>2. PICK c \in Conns : BindSession(c) \/ RemoveSession(c)
    BY <2>1 DEF Next, Serve, HandleFrame, Login, OnClientDisconnect, vars, session, local,
               Connect, Drop, ScanTimeout, Read, NextFrame, OtherFrame, LoginReq, MatchReq,
               LoginFailed, KickOld, WriteRoute, SendMatchRsp, LoginElsewhere,
               Disconnect, Notify, GetRoute, DelRoute
  <2>3. ~BindSession(c)
    BY GatewayAssumption DEF TypeOK, BindSession, GatewayAssumption
  <2>4. RemoveSession(c)
    BY <2>2, <2>3
  <2> QED BY <2>4 DEF TypeOK, RemoveSession, Without
<1>2. Step => [Step]_vars
  OBVIOUS
<1> QED BY <1>1, TypeCorrect, PTL DEF Spec, OnlyOwnCleanupRemoves
=============================================================================
