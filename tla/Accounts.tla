------------------------------ MODULE Accounts ------------------------------
(***************************************************************************)
(* Accounts and session tokens: the handlers Register and Authenticate of  *)
(* login (internal/login/login.go) on the table player of MySQL and on     *)
(* Redis, VerifyToken of the center (internal/center/center.go), and the   *)
(* gateway's handlers that call them for a client.                         *)
(*                                                                         *)
(* A client has one call under way; every statement and every command of   *)
(* it is a step of its own.  One may fail, also after it has had its       *)
(* effect where that matters, MaxFailures times in all; the handlers go on *)
(* or give up as the code does.  The table player that the code uses is    *)
(* made by no script; it is assumed to have the unique key on account that *)
(* scripts/init_db.sql:8 gives to a table players.  So an account has at   *)
(* most one row, and its player is named by it.                            *)
(*                                                                         *)
(* Keys are kept with the time they have left; Tick takes one unit.  A     *)
(* token is named by the call that made it; MaxCalls bounds the calls.     *)
(***************************************************************************)
EXTENDS Integers, FiniteSets

CONSTANTS
    Clients, Accounts, Passwords, Salts,
    Nobody, NoPassword, NoRow,
    TokenTtl, InfoTtl,   \* tokenExpireSec, and the 3600 s of player:<id>:info
    MaxCalls, MaxFailures

HashWithSaltRange == Salts \X Passwords

ASSUME AccountsAssumption ==
    /\ TokenTtl \in Nat \ {0} /\ InfoTtl \in Nat /\ TokenTtl <= InfoTtl
    /\ MaxCalls \in Nat /\ MaxFailures \in Nat
    /\ Nobody \notin Accounts /\ NoPassword \notin Passwords
    /\ NoRow \notin Salts \X HashWithSaltRange

VARIABLES
    rows,       \* the table player: the salt and the hash of an account
    tokens,     \* token:<t>, the player and the time left
    info,       \* player:<id>:info, whether it has the name, and the time left
    pc, call,   \* where the call of a client is, and what it asks for
    held, session,   \* the token a client has, and Session.PlayerID of its connection
    calls, failures,
    \* for the properties
    whole,      \* nothing of the session under way has been lost
    issued,     \* the password that was given for a token, and whether its session was whole
    welcomed    \* how many registrations of an account were told to have succeeded

redis   == <<tokens, info>>
handler == <<pc, call, whole>>
client  == <<held, session, issued, welcomed>>
vars == <<rows, redis, handler, client, calls, failures>>

Tokens == 1..MaxCalls
Forever == InfoTtl + 1      \* a key without an expiry
NoToken  == [player |-> Nobody, left |-> 0]
NoInfo   == [name |-> FALSE, left |-> 0]
NoCall   == [op |-> "none", account |-> Nobody, password |-> NoPassword, token |-> 0]
NotIssued == [password |-> NoPassword, whole |-> FALSE]

\* HashHex of salt and password: equal for equal ones only.
HashWithSalt(password, salt) == <<salt, password>>

Init ==
    /\ rows = [a \in Accounts |-> NoRow]
    /\ tokens = [t \in Tokens |-> NoToken] /\ info = [a \in Accounts |-> NoInfo]
    /\ pc = [c \in Clients |-> "idle"] /\ call = [c \in Clients |-> NoCall]
    /\ whole = [c \in Clients |-> FALSE]
    /\ held = [c \in Clients |-> 0] /\ session = [c \in Clients |-> Nobody]
    /\ issued = [t \in Tokens |-> NotIssued] /\ welcomed = [a \in Accounts |-> 0]
    /\ calls = 0 /\ failures = 0

Failure == failures < MaxFailures /\ failures' = failures + 1
Fine    == UNCHANGED failures

\* A call goes on, or ends.
Goto(c, l) == pc' = [pc EXCEPT ![c] = l] /\ UNCHANGED <<call, whole>>
Return(c) ==
    /\ pc' = [pc EXCEPT ![c] = "idle"] /\ call' = [call EXCEPT ![c] = NoCall]
    /\ whole' = [whole EXCEPT ![c] = FALSE]
Loses(c, l) ==
    /\ pc' = [pc EXCEPT ![c] = l] /\ whole' = [whole EXCEPT ![c] = FALSE] /\ UNCHANGED call

\* The row of an account is found.
GetPlayer(a) == rows[a] # NoRow

-----------------------------------------------------------------------------
Aged(key, none) == IF key.left > 1 THEN [key EXCEPT !.left = @ - 1] ELSE none

\* Time passes.  A session being written whose player's info expires has lost the name.
Tick ==
    /\ tokens' = [t \in Tokens |-> IF tokens[t] = NoToken THEN NoToken ELSE Aged(tokens[t], NoToken)]
    /\ info' = [a \in Accounts |-> IF info[a] = NoInfo \/ info[a].left = Forever THEN info[a]
                                   ELSE Aged(info[a], NoInfo)]
    /\ whole' = [c \in Clients |-> whole[c] /\ ~(/\ pc[c] \in {"rest", "expire"}
                                                 /\ info'[call[c].account] = NoInfo)]
    /\ UNCHANGED <<rows, pc, call, client, calls, failures>>

\* HandleRegisterReq and HandleLoginReq ask login or, for a client with a token, the center.
Ask(c) ==
    /\ pc[c] = "idle" /\ calls < MaxCalls
    /\ calls' = calls + 1
    /\ \/ \E a \in Accounts, p \in Passwords, op \in {"register", "login"} :
            /\ call' = [call EXCEPT ![c] =
                          [op |-> op, account |-> a, password |-> p, token |-> calls + 1]]
            /\ pc' = [pc EXCEPT ![c] = IF op = "register" THEN "find" ELSE "auth"]
       \/ /\ held[c] # 0 /\ call' = [call EXCEPT ![c] = [NoCall EXCEPT !.op = "token"]]
          /\ pc' = [pc EXCEPT ![c] = "verify"]
    /\ UNCHANGED <<rows, redis, whole, client, failures>>

\* Register: the account must not be there; an error of MySQL counts as not there.
FindAccount(c) ==
    /\ pc[c] = "find"
    /\ \/ ~GetPlayer(call[c].account) /\ Goto(c, "create") /\ Fine
       \/ GetPlayer(call[c].account) /\ Return(c) /\ Fine
       \/ Failure /\ Goto(c, "create")
    /\ UNCHANGED <<rows, redis, client, calls>>

\* INSERT of a row with a new salt, which the assumed key refuses if the account has one.
Insert(a, password) ==
    /\ rows[a] = NoRow
    /\ \E salt \in Salts : rows' = [rows EXCEPT ![a] = <<salt, HashWithSalt(password, salt)>>]

\* Mutant: the error of the insertion is not looked at.
CreateAnyway(c) ==
    /\ pc[c] = "create" /\ Goto(c, "saved") /\ Fine
    /\ Insert(call[c].account, call[c].password) \/ (rows[call[c].account] # NoRow /\ UNCHANGED rows)
    /\ UNCHANGED <<redis, client, calls>>

\* CreatePlayer: the insertion, which fails when another call has come first ...
CreatePlayer(c) ==
    /\ pc[c] = "create"
    /\ \/ Insert(call[c].account, call[c].password) /\ Goto(c, "saved") /\ Fine
       \/ rows[call[c].account] # NoRow /\ UNCHANGED rows /\ Return(c) /\ Fine
       \/ Failure /\ Return(c) /\ (Insert(call[c].account, call[c].password) \/ UNCHANGED rows)
    /\ UNCHANGED <<redis, client, calls>>

\* ... and the row read again: without it the registration has failed, and the row is there.
ReadSaved(c) ==
    /\ pc[c] = "saved"
    /\ (Goto(c, "token") /\ Fine) \/ (Failure /\ Return(c))
    /\ UNCHANGED <<rows, redis, client, calls>>

RightPassword(a, password) ==
    GetPlayer(a) /\ HashWithSalt(password, rows[a][1]) = rows[a][2]

\* Authenticate: an error of MySQL is told as an unknown account.
Authenticate(c) ==
    /\ pc[c] = "auth"
    /\ \/ RightPassword(call[c].account, call[c].password) /\ Goto(c, "token") /\ Fine
       \/ ~RightPassword(call[c].account, call[c].password) /\ Return(c) /\ Fine
       \/ Failure /\ Return(c)
    /\ UNCHANGED <<rows, redis, client, calls>>

-----------------------------------------------------------------------------
\* issueSession: SETEX of a new token, without which there is no session ...
SetToken(c) ==
    /\ pc[c] = "token"
    /\ LET Set == tokens' = [tokens EXCEPT ![call[c].token] =
                               [player |-> call[c].account, left |-> TokenTtl]]
       IN  \/ /\ Set /\ Fine /\ pc' = [pc EXCEPT ![c] = "name"]
              /\ whole' = [whole EXCEPT ![c] = TRUE] /\ UNCHANGED call
           \/ Failure /\ Return(c) /\ (Set \/ UNCHANGED tokens)
    /\ UNCHANGED <<rows, info, client, calls>>

\* A hash that is there keeps its expiry, a new one has none.
HSet(a, name) ==
    info' = [info EXCEPT ![a] = [name |-> @.name \/ name, left |-> IF @ = NoInfo THEN Forever ELSE @.left]]

\* ... the name, level and score, the expiry: whether they fail is not looked at.
WriteName(c) ==
    /\ pc[c] = "name"
    /\ \/ HSet(call[c].account, TRUE) /\ Goto(c, "rest") /\ Fine
       \/ Failure /\ Loses(c, "rest") /\ UNCHANGED info
    /\ UNCHANGED <<rows, tokens, client, calls>>

WriteRest(c) ==
    /\ pc[c] = "rest" /\ Goto(c, "expire")
    /\ (HSet(call[c].account, FALSE) /\ Fine) \/ (Failure /\ UNCHANGED info)
    /\ UNCHANGED <<rows, tokens, client, calls>>

\* Mutant: an expiry that runs is not started anew.
ExpireOnce(c) ==
    /\ pc[c] = "expire" /\ Goto(c, "answer") /\ Fine
    /\ info' = [info EXCEPT ![call[c].account].left = IF @ = Forever THEN InfoTtl ELSE @]
    /\ UNCHANGED <<rows, tokens, client, calls>>

Expire(c) ==
    /\ pc[c] = "expire"
    /\ \/ /\ info' = [info EXCEPT ![call[c].account].left = IF @ = 0 THEN 0 ELSE InfoTtl]
          /\ Goto(c, "answer") /\ Fine
       \/ Failure /\ Loses(c, "answer") /\ UNCHANGED info
    /\ UNCHANGED <<rows, tokens, client, calls>>

\* The gateway binds the session and tells the client, if login's answer reaches it.
Answer(c) ==
    /\ pc[c] = "answer" /\ Return(c)
    /\ \/ /\ Fine
          /\ held' = [held EXCEPT ![c] = call[c].token]
          /\ session' = [session EXCEPT ![c] = call[c].account]
          /\ issued' = [issued EXCEPT ![call[c].token] =
                          [password |-> call[c].password, whole |-> whole[c]]]
          /\ welcomed' = [welcomed EXCEPT ![call[c].account] =
                            @ + IF call[c].op = "register" THEN 1 ELSE 0]
       \/ Failure /\ UNCHANGED client
    /\ UNCHANGED <<rows, redis, calls>>

-----------------------------------------------------------------------------
\* VerifyToken: GET of the token, and then of the name; a token is not prolonged by its use.
VerifyToken(c) ==
    /\ pc[c] = "verify"
    /\ LET player == tokens[held[c]].player IN
       \/ /\ player # Nobody /\ Fine /\ UNCHANGED whole
          /\ call' = [call EXCEPT ![c].account = player] /\ pc' = [pc EXCEPT ![c] = "player"]
       \/ player = Nobody /\ Return(c) /\ Fine
       \/ Failure /\ Return(c)
    /\ UNCHANGED <<rows, redis, client, calls>>

\* buildPlayer: level and score may be missing, the name may not.
BuildPlayer(c) ==
    /\ pc[c] = "player" /\ Return(c)
    /\ \/ /\ info[call[c].account].name /\ Fine
          /\ session' = [session EXCEPT ![c] = call[c].account]
       \/ ((~info[call[c].account].name /\ Fine) \/ Failure) /\ UNCHANGED session
    /\ UNCHANGED <<rows, redis, held, issued, welcomed, calls>>

Client(c) ==
    \/ Ask(c) \/ FindAccount(c) \/ CreatePlayer(c) \/ ReadSaved(c) \/ Authenticate(c)
    \/ SetToken(c) \/ WriteName(c) \/ WriteRest(c) \/ Expire(c) \/ Answer(c)
    \/ VerifyToken(c) \/ BuildPlayer(c)

Next == Tick \/ \E c \in Clients : Client(c)

Spec == Init /\ [][Next]_vars

-----------------------------------------------------------------------------
TypeOK ==
    /\ rows \in [Accounts -> (Salts \X HashWithSaltRange) \cup {NoRow}]
    /\ tokens \in [Tokens -> [player : Accounts, left : 1..TokenTtl] \cup {NoToken}]
    /\ info \in [Accounts -> [name : BOOLEAN, left : 1..Forever] \cup {NoInfo}]
    /\ pc \in [Clients -> {"idle", "find", "create", "saved", "auth", "token", "name", "rest",
                           "expire", "answer", "verify", "player"}]
    /\ call \in [Clients -> [op : {"none", "register", "login", "token"},
                             account : Accounts \cup {Nobody},
                             password : Passwords \cup {NoPassword}, token : 0..MaxCalls]]
    /\ whole \in [Clients -> BOOLEAN]
    /\ held \in [Clients -> 0..MaxCalls] /\ session \in [Clients -> Accounts \cup {Nobody}]
    /\ issued \in [Tokens -> [password : Passwords \cup {NoPassword}, whole : BOOLEAN]]
    /\ welcomed \in [Accounts -> Nat]
    /\ calls \in 0..MaxCalls /\ failures \in 0..MaxFailures

\* Of all the calls that try to register an account at the same time, and of those that try it
\* again after a failure, at most one is told that it has succeeded.
OneRegistration == \A a \in Accounts : welcomed[a] <= 1

\* Whoever has a session of a player, by registration, by login or by a token, has given the
\* password of that player's row when the token was made: nobody gets into another's account
\* by coming second.
SessionIsOwn ==
    \A c \in Clients : session[c] # Nobody =>
      held[c] # 0 /\ RightPassword(session[c], issued[held[c]].password)

\* A token that lives is good for coming back, as long as it lives, unless a write of its session
\* failed or the player's data expired between two of them: the data it needs lives as long.
LiveTokenVerifies ==
    \A t \in Tokens : issued[t].whole /\ tokens[t] # NoToken =>
      info[tokens[t].player].name /\ info[tokens[t].player].left >= tokens[t].left
=============================================================================
