--------------------------- MODULE AccountsProofs ---------------------------
(***************************************************************************)
(* Proofs about Accounts, for any clients, accounts and passwords, any     *)
(* lifetimes and any number of calls and failures; and about the ranking   *)
(* of Admin, whose every behaviour is one of Accounts.                     *)
(***************************************************************************)
EXTENDS Admin, FiniteSetTheorems, SequenceTheorems, TLAPS

\* The places of a registration or a login, and those after its password is known to be right.
Issuing == {"find", "create", "saved", "auth", "token", "name", "rest", "expire", "answer"}
Proven  == {"saved", "token", "name", "rest", "expire", "answer"}

\* What a call carries, by the place it is at.
CallOK ==
    \A c \in Clients :
        /\ pc[c] \in Issuing =>
             /\ call[c].account \in Accounts /\ call[c].password \in Passwords
             /\ call[c].token \in Tokens
        /\ pc[c] = "player" => call[c].account \in Accounts
        /\ pc[c] \in {"verify", "player"} => held[c] # 0

TypeInv == TypeOK /\ CallOK

\* The assumptions, in the form the steps use.
LEMMA Constants ==
    /\ TokenTtl \in Nat \ {0} /\ InfoTtl \in Nat \ {0} /\ TokenTtl <= InfoTtl
    /\ MaxCalls \in Nat /\ MaxFailures \in Nat /\ Nobody \notin Accounts
    /\ NoPassword \notin Passwords /\ NoRow \notin Salts \X HashWithSaltRange
BY AccountsAssumption DEF AccountsAssumption

\* Every variable has its type from the start.
LEMMA TypeInit == Init => TypeInv
BY Constants DEF Init, TypeInv, TypeOK, CallOK, Issuing, NoCall, NotIssued, Tokens

\* Time passes.
LEMMA TypeTick == ASSUME TypeInv, Tick PROVE TypeInv'
<1>1. tokens' \in [Tokens -> [player : Accounts, left : 1..TokenTtl] \cup {NoToken}]
  <2> SUFFICES ASSUME NEW t \in Tokens
               PROVE  tokens'[t] \in [player : Accounts, left : 1..TokenTtl] \cup {NoToken}
    BY DEF Tick
  <2>1. tokens[t] \in [player : Accounts, left : 1..TokenTtl] \cup {NoToken}
    BY DEF TypeInv, TypeOK
  <2> QED BY <2>1, Constants DEF Tick, Aged, NoToken
<1>2. info' \in [Accounts -> [name : BOOLEAN, left : 1..Forever] \cup {NoInfo}]
  <2> SUFFICES ASSUME NEW a \in Accounts
               PROVE  info'[a] \in [name : BOOLEAN, left : 1..Forever] \cup {NoInfo}
    BY DEF Tick
  <2>1. info[a] \in [name : BOOLEAN, left : 1..Forever] \cup {NoInfo}
    BY DEF TypeInv, TypeOK
  <2> QED BY <2>1, Constants DEF Tick, Aged, NoInfo, Forever
<1>3. whole' \in [Clients -> BOOLEAN]
  BY DEF Tick, TypeInv, TypeOK
<1> QED BY <1>1, <1>2, <1>3 DEF Tick, TypeInv, TypeOK, CallOK, client

\* A call is made.
LEMMA TypeAsk == ASSUME TypeInv, NEW c \in Clients, Ask(c) PROVE TypeInv'
<1>1. calls' \in 0..MaxCalls /\ calls + 1 \in Tokens
  BY Constants DEF Ask, TypeInv, TypeOK, Tokens
<1>2. call' \in [Clients -> [op : {"none", "register", "login", "token"},
                             account : Accounts \cup {Nobody},
                             password : Passwords \cup {NoPassword}, token : 0..MaxCalls]]
  <2>1. /\ call \in [Clients -> [op : {"none", "register", "login", "token"},
                                account : Accounts \cup {Nobody},
                                password : Passwords \cup {NoPassword}, token : 0..MaxCalls]]
        /\ calls + 1 \in 0..MaxCalls
    BY <1>1 DEF TypeInv, TypeOK, Tokens
  <2>2. CASE \E a \in Accounts, p \in Passwords, op \in {"register", "login"} :
               call' = [call EXCEPT ![c] =
                          [op |-> op, account |-> a, password |-> p, token |-> calls + 1]]
    BY <2>1, <2>2
  <2>3. CASE call' = [call EXCEPT ![c] = [NoCall EXCEPT !.op = "token"]]
    <3>1. [NoCall EXCEPT !.op = "token"]
            = [op |-> "token", account |-> Nobody, password |-> NoPassword, token |-> 0]
      BY DEF NoCall
    <3> QED BY <2>1, <2>3, <3>1, Constants
  <2> QED BY <2>2, <2>3 DEF Ask
<1>3. pc' \in [Clients -> {"idle", "find", "create", "saved", "auth", "token", "name", "rest",
                           "expire", "answer", "verify", "player"}]
  <2>1. \E l \in {"find", "auth", "verify"} : pc' = [pc EXCEPT ![c] = l]
    BY DEF Ask
  <2>2. pc \in [Clients -> {"idle", "find", "create", "saved", "auth", "token", "name", "rest",
                            "expire", "answer", "verify", "player"}]
    BY DEF TypeInv, TypeOK
  <2> QED BY <2>1, <2>2
<1>4. CallOK'
  BY <1>1 DEF Ask, TypeInv, TypeOK, CallOK, Issuing, client
<1> QED BY <1>1, <1>2, <1>3, <1>4 DEF Ask, TypeInv, TypeOK, redis, client

\* How a call goes on or ends.
LEMMA TypeControl ==
    ASSUME TypeInv, NEW c \in Clients, UNCHANGED held,
           \/ Return(c)
           \/ \E l \in Issuing : (Goto(c, l) \/ Loses(c, l)) /\ pc[c] \in Issuing
    PROVE  /\ pc' \in [Clients -> {"idle", "find", "create", "saved", "auth", "token", "name",
                                   "rest", "expire", "answer", "verify", "player"}]
           /\ call' \in [Clients -> [op : {"none", "register", "login", "token"},
                                     account : Accounts \cup {Nobody},
                                     password : Passwords \cup {NoPassword}, token : 0..MaxCalls]]
           /\ whole' \in [Clients -> BOOLEAN]
           /\ CallOK'
<1>1. CASE Return(c)
  BY <1>1, Constants DEF Return, TypeInv, TypeOK, CallOK, Issuing, NoCall
<1>2. ASSUME NEW l \in Issuing, Goto(c, l) \/ Loses(c, l), pc[c] \in Issuing
      PROVE  /\ pc' = [pc EXCEPT ![c] = l] /\ call' = call
             /\ whole' \in [Clients -> BOOLEAN]
             /\ CallOK'
  <2>1. pc' = [pc EXCEPT ![c] = l] /\ call' = call
    BY <1>2 DEF Goto, Loses
  <2>2. whole' \in [Clients -> BOOLEAN]
    BY <1>2 DEF Goto, Loses, TypeInv, TypeOK
  <2>3. CallOK'
    BY <1>2, <2>1 DEF TypeInv, TypeOK, CallOK, Issuing
  <2> QED BY <2>1, <2>2, <2>3
<1>3. \A l \in Issuing : [pc EXCEPT ![c] = l]
        \in [Clients -> {"idle", "find", "create", "saved", "auth", "token", "name",
                         "rest", "expire", "answer", "verify", "player"}]
  BY DEF Issuing, TypeInv, TypeOK
<1> QED BY <1>1, <1>2, <1>3 DEF TypeInv, TypeOK

\* The statements on the table of MySQL.
LEMMA TypeRows ==
    ASSUME TypeInv, NEW c \in Clients,
           FindAccount(c) \/ CreatePlayer(c) \/ ReadSaved(c) \/ Authenticate(c)
    PROVE  TypeInv'
<1>1. UNCHANGED <<held, redis, client, calls>>
  BY DEF FindAccount, CreatePlayer, ReadSaved, Authenticate, client
<1>2. failures' \in 0..MaxFailures
  BY Constants DEF FindAccount, CreatePlayer, ReadSaved, Authenticate, Fine, Failure, TypeInv, TypeOK
<1>3. Return(c) \/ \E l \in Issuing : Goto(c, l) /\ pc[c] \in Issuing
  BY DEF FindAccount, CreatePlayer, ReadSaved, Authenticate, Issuing
<1>4. rows' \in [Accounts -> (Salts \X HashWithSaltRange) \cup {NoRow}]
  <2>1. CASE UNCHANGED rows
    BY <2>1 DEF TypeInv, TypeOK
  <2>2. CASE Insert(call[c].account, call[c].password) /\ pc[c] = "create"
    <3>1. call[c].password \in Passwords
      BY <2>2 DEF TypeInv, CallOK, Issuing
    <3>2. \A salt \in Salts : <<salt, HashWithSalt(call[c].password, salt)>> \in Salts \X HashWithSaltRange
      BY <3>1 DEF HashWithSalt, HashWithSaltRange
    <3>3. PICK salt \in Salts : rows' = [rows EXCEPT ![call[c].account] =
                                          <<salt, HashWithSalt(call[c].password, salt)>>]
      BY <2>2 DEF Insert
    <3>4. rows \in [Accounts -> (Salts \X HashWithSaltRange) \cup {NoRow}]
      BY DEF TypeInv, TypeOK
    <3>5. <<salt, HashWithSalt(call[c].password, salt)>> \in (Salts \X HashWithSaltRange) \cup {NoRow}
      BY <3>2
    <3> HIDE DEF HashWithSaltRange
    <3> QED BY <3>3, <3>4, <3>5
  <2> QED BY <2>1, <2>2 DEF FindAccount, CreatePlayer, ReadSaved, Authenticate
<1> QED BY <1>1, <1>2, <1>3, <1>4, TypeControl DEF TypeInv, TypeOK, redis, client

\* The writes of a session.
LEMMA TypeSession ==
    ASSUME TypeInv, NEW c \in Clients, SetToken(c) \/ WriteName(c) \/ WriteRest(c) \/ Expire(c)
    PROVE  TypeInv'
<1>1. UNCHANGED <<rows, held, client, calls>>
  BY DEF SetToken, WriteName, WriteRest, Expire, client
<1>2. failures' \in 0..MaxFailures
  <2>1. UNCHANGED failures \/ Failure
    BY DEF SetToken, WriteName, WriteRest, Expire, Fine
  <2> QED BY <2>1, Constants DEF Failure, TypeInv, TypeOK
<1>3. call[c].account \in Accounts /\ call[c].token \in Tokens /\ pc[c] \in Issuing
  BY DEF SetToken, WriteName, WriteRest, Expire, TypeInv, CallOK, Issuing
<1>4. CASE SetToken(c)
  <2>1. tokens' \in [Tokens -> [player : Accounts, left : 1..TokenTtl] \cup {NoToken}]
    BY <1>3, <1>4, Constants DEF SetToken, TypeInv, TypeOK
  <2>2. Return(c) \/ (pc' = [pc EXCEPT ![c] = "name"] /\ whole' = [whole EXCEPT ![c] = TRUE]
                      /\ UNCHANGED call)
    BY <1>4 DEF SetToken
  <2>3. CASE Return(c)
    BY <1>1, <1>2, <1>4, <2>1, <2>3, TypeControl DEF SetToken, TypeInv, TypeOK, client
  <2>4. CASE pc' = [pc EXCEPT ![c] = "name"] /\ whole' = [whole EXCEPT ![c] = TRUE] /\ UNCHANGED call
    <3>1. CallOK'
      BY <1>1, <1>3, <2>4 DEF TypeInv, TypeOK, CallOK, Issuing
    <3> QED BY <1>1, <1>2, <1>4, <2>1, <2>4, <3>1 DEF SetToken, TypeInv, TypeOK, client
  <2> QED BY <2>2, <2>3, <2>4
<1>5. CASE WriteName(c) \/ WriteRest(c) \/ Expire(c)
  <2>1. \E l \in Issuing : Goto(c, l) \/ Loses(c, l)
    BY <1>5 DEF WriteName, WriteRest, Expire, Issuing
  <2>2. info' \in [Accounts -> [name : BOOLEAN, left : 1..Forever] \cup {NoInfo}]
    <3>1. info[call[c].account] \in [name : BOOLEAN, left : 1..Forever] \cup {NoInfo}
      BY <1>3 DEF TypeInv, TypeOK
    <3>2. ASSUME NEW name \in BOOLEAN, HSet(call[c].account, name)
          PROVE  info' \in [Accounts -> [name : BOOLEAN, left : 1..Forever] \cup {NoInfo}]
      <4>1. PICK new : /\ info' = [info EXCEPT ![call[c].account] = new]
                       /\ new = [name |-> info[call[c].account].name \/ name,
                                 left |-> IF info[call[c].account] = NoInfo THEN Forever
                                          ELSE info[call[c].account].left]
        BY <3>2 DEF HSet
      <4>2. new.left \in 1..Forever
        <5>1. Forever \in 1..Forever
          BY Constants DEF Forever
        <5>2. CASE info[call[c].account] = NoInfo
          BY <4>1, <5>1, <5>2
        <5>3. CASE info[call[c].account] # NoInfo
          BY <3>1, <4>1, <5>3
        <5> QED BY <5>2, <5>3
      <4>3. new.name \in BOOLEAN
        BY <4>1
      <4>4. new \in [name : BOOLEAN, left : 1..Forever] \cup {NoInfo}
        BY <4>1, <4>2, <4>3
      <4> QED BY <4>1, <4>4 DEF TypeInv, TypeOK
    <3>3. CASE Expire(c)
      BY <1>3, <3>1, <3>3, Constants DEF Expire, NoInfo, Forever, TypeInv, TypeOK
    <3> QED BY <1>5, <3>2, <3>3 DEF WriteName, WriteRest, TypeInv, TypeOK
  <2>3. UNCHANGED tokens
    BY <1>5 DEF WriteName, WriteRest, Expire
  <2> QED BY <1>1, <1>2, <1>3, <2>1, <2>2, <2>3, TypeControl DEF TypeInv, TypeOK, client
<1> QED BY <1>4, <1>5

\* The answer to the client, and a client with a token.
LEMMA TypeAnswer ==
    ASSUME TypeInv, NEW c \in Clients, Answer(c) \/ VerifyToken(c) \/ BuildPlayer(c)
    PROVE  TypeInv'
<1>1. UNCHANGED <<rows, redis, calls>>
  BY DEF Answer, VerifyToken, BuildPlayer
<1>2. failures' \in 0..MaxFailures
  BY Constants DEF Answer, VerifyToken, BuildPlayer, Fine, Failure, TypeInv, TypeOK
<1>3. CASE Answer(c)
  <2>1. call[c].account \in Accounts /\ call[c].password \in Passwords /\ call[c].token \in Tokens
    BY <1>3 DEF Answer, TypeInv, CallOK, Issuing
  <2>2. /\ held' \in [Clients -> 0..MaxCalls] /\ session' \in [Clients -> Accounts \cup {Nobody}]
        /\ welcomed' \in [Accounts -> Nat]
    <3>1. CASE UNCHANGED client
      BY <3>1 DEF client, TypeInv, TypeOK
    <3>2. CASE /\ held' = [held EXCEPT ![c] = call[c].token]
               /\ session' = [session EXCEPT ![c] = call[c].account]
               /\ welcomed' = [welcomed EXCEPT ![call[c].account] =
                                 @ + IF call[c].op = "register" THEN 1 ELSE 0]
      <4>1. held' \in [Clients -> 0..MaxCalls]
        BY <2>1, <3>2, Constants DEF TypeInv, TypeOK, Tokens
      <4>2. session' \in [Clients -> Accounts \cup {Nobody}]
        BY <2>1, <3>2 DEF TypeInv, TypeOK
      <4>3. welcomed' \in [Accounts -> Nat]
        BY <2>1, <3>2 DEF TypeInv, TypeOK
      <4> QED BY <4>1, <4>2, <4>3
    <3> QED BY <1>3, <3>1, <3>2 DEF Answer
  <2>3. issued' \in [Tokens -> [password : Passwords \cup {NoPassword}, whole : BOOLEAN]]
    BY <1>3, <2>1 DEF Answer, client, TypeInv, TypeOK
  <2>4. pc' = [pc EXCEPT ![c] = "idle"] /\ call' = [call EXCEPT ![c] = NoCall]
        /\ whole' = [whole EXCEPT ![c] = FALSE] /\ \A d \in Clients \ {c} : held'[d] = held[d]
    BY <1>3 DEF Answer, Return, client, TypeInv, TypeOK
  <2>5. CallOK'
    BY <2>4 DEF TypeInv, TypeOK, CallOK, Issuing
  <2> QED BY <1>1, <1>2, <2>2, <2>3, <2>4, <2>5, Constants DEF TypeInv, TypeOK, redis, NoCall
<1>4. CASE VerifyToken(c)
  <2>1. held[c] \in Tokens
    BY <1>4, Constants DEF VerifyToken, TypeInv, TypeOK, CallOK, Tokens
  <2>2. tokens[held[c]].player \in Accounts \cup {Nobody}
    BY <2>1 DEF TypeInv, TypeOK, NoToken
  <2>3. UNCHANGED <<held, client>>
    BY <1>4 DEF VerifyToken, client
  <2>4. CASE Return(c)
    BY <1>1, <1>2, <2>3, <2>4, TypeControl DEF TypeInv, TypeOK, redis, client
  <2>5. CASE /\ tokens[held[c]].player # Nobody /\ UNCHANGED whole
             /\ call' = [call EXCEPT ![c].account = tokens[held[c]].player]
             /\ pc' = [pc EXCEPT ![c] = "player"]
    <3>1. CallOK'
      BY <1>4, <2>1, <2>2, <2>3, <2>5, Constants DEF TypeInv, TypeOK, CallOK, Issuing, Tokens
    <3>2. call' \in [Clients -> [op : {"none", "register", "login", "token"},
                                 account : Accounts \cup {Nobody},
                                 password : Passwords \cup {NoPassword}, token : 0..MaxCalls]]
      <4>1. call[c] \in [op : {"none", "register", "login", "token"},
                         account : Accounts \cup {Nobody},
                         password : Passwords \cup {NoPassword}, token : 0..MaxCalls]
        BY DEF TypeInv, TypeOK
      <4>2. [call[c] EXCEPT !.account = tokens[held[c]].player]
              \in [op : {"none", "register", "login", "token"},
                   account : Accounts \cup {Nobody},
                   password : Passwords \cup {NoPassword}, token : 0..MaxCalls]
        BY <2>2, <4>1
      <4> QED BY <2>5, <4>2 DEF TypeInv, TypeOK
    <3> QED BY <1>1, <1>2, <2>3, <2>5, <3>1, <3>2 DEF TypeInv, TypeOK, redis, client
  <2> QED BY <1>4, <2>4, <2>5 DEF VerifyToken
<1>5. CASE BuildPlayer(c)
  <2>1. session' \in [Clients -> Accounts \cup {Nobody}]
    BY <1>5 DEF BuildPlayer, TypeInv, TypeOK, CallOK
  <2> QED BY <1>1, <1>2, <1>5, <2>1, TypeControl DEF BuildPlayer, TypeInv, TypeOK, redis
<1> QED BY <1>3, <1>4, <1>5

\* Every step keeps the types.
LEMMA TypeStep == TypeInv /\ [Next]_vars => TypeInv'
<1> SUFFICES ASSUME TypeInv, [Next]_vars PROVE TypeInv'
  OBVIOUS
<1>1. CASE UNCHANGED vars
  BY <1>1 DEF vars, redis, handler, client, TypeInv, TypeOK, CallOK
<1> QED BY <1>1, TypeTick, TypeAsk, TypeRows, TypeSession, TypeAnswer DEF Next, Client

\* Every variable has its type, always.
THEOREM TypeCorrect == Spec => []TypeOK
<1>1. TypeInv => TypeOK
  BY DEF TypeInv
<1> QED BY <1>1, TypeInit, TypeStep, PTL DEF Spec

-----------------------------------------------------------------------------
\* Call c has registered account a and has not been answered.
Registering(c, a) == pc[c] \in Proven /\ call[c].op = "register" /\ call[c].account = a

\* The inductive invariant behind OneRegistration: whoever goes on after the insertion has made
\* the row, so that he is the only one and nobody was told before him.
RegistrationInv ==
    /\ \A c \in Clients : pc[c] = "auth" => call[c].op # "register"
    /\ \A a \in Accounts :
         /\ welcomed[a] <= 1
         /\ welcomed[a] = 1 => rows[a] # NoRow
         /\ \A c \in Clients : Registering(c, a) =>
              /\ rows[a] # NoRow /\ welcomed[a] = 0
              /\ \A d \in Clients : Registering(d, a) => d = c

\* A step that tells nobody and takes no row away, and after which no other call goes on.
LEMMA RegistrationQuiet ==
    ASSUME TypeInv, RegistrationInv, UNCHANGED welcomed,
           \A c \in Clients : pc'[c] = "auth" => call'[c].op # "register",
           \A a \in Accounts : rows[a] # NoRow => rows'[a] # NoRow,
           \A c \in Clients, a \in Accounts : Registering(c, a)' => Registering(c, a)
    PROVE  RegistrationInv'
BY DEF RegistrationInv

\* Every step keeps it.
LEMMA RegistrationStep == TypeInv /\ RegistrationInv /\ [Next]_vars => RegistrationInv'
<1> SUFFICES ASSUME TypeInv, RegistrationInv, [Next]_vars PROVE RegistrationInv'
  OBVIOUS
<1>1. CASE UNCHANGED vars \/ Tick
  BY <1>1, RegistrationQuiet
     DEF Tick, vars, handler, client, Registering, RegistrationInv
<1>2. ASSUME NEW c \in Clients, Ask(c) PROVE RegistrationInv'
  <2>1. \A d \in Clients : pc'[d] = "auth" => call'[d].op # "register"
    BY <1>2 DEF Ask, RegistrationInv, TypeInv, TypeOK
  <2>2. \A d \in Clients, a \in Accounts : Registering(d, a)' => Registering(d, a)
    BY <1>2 DEF Ask, Registering, Proven, TypeInv, TypeOK
  <2> QED BY <1>2, <2>1, <2>2, RegistrationQuiet DEF Ask, client
<1>3. ASSUME NEW c \in Clients,
             FindAccount(c) \/ ReadSaved(c) \/ Authenticate(c) \/ SetToken(c)
             \/ WriteName(c) \/ WriteRest(c) \/ Expire(c) \/ VerifyToken(c) \/ BuildPlayer(c)
      PROVE  RegistrationInv'
  <2>1. UNCHANGED <<rows, welcomed>>
    BY <1>3 DEF FindAccount, ReadSaved, Authenticate, SetToken, WriteName, WriteRest, Expire,
                VerifyToken, BuildPlayer, client
  <2>2. \A d \in Clients \ {c} : pc'[d] = pc[d] /\ call'[d] = call[d]
    BY <1>3 DEF FindAccount, ReadSaved, Authenticate, SetToken, WriteName, WriteRest, Expire,
                VerifyToken, BuildPlayer, Goto, Loses, Return, TypeInv, TypeOK
  <2>3. \/ pc'[c] \in {"idle", "create", "player"}
        \/ pc'[c] \in Proven /\ call'[c] = call[c] /\ pc[c] \in Proven \cup {"auth"}
    BY <1>3 DEF FindAccount, ReadSaved, Authenticate, SetToken, WriteName, WriteRest, Expire,
                VerifyToken, BuildPlayer, Goto, Loses, Return, Proven, TypeInv, TypeOK
  <2>4. \A d \in Clients : pc'[d] = "auth" => call'[d].op # "register"
    BY <2>2, <2>3 DEF RegistrationInv, Proven
  <2>5. \A d \in Clients, a \in Accounts : Registering(d, a)' => Registering(d, a)
    BY <2>2, <2>3 DEF Registering, RegistrationInv, Proven
  <2> QED BY <2>1, <2>4, <2>5, RegistrationQuiet
<1>4. ASSUME NEW c \in Clients, CreatePlayer(c) PROVE RegistrationInv'
  <2>1. CASE Return(c) /\ (Insert(call[c].account, call[c].password) \/ UNCHANGED rows)
    <3>1. \A a \in Accounts : rows[a] # NoRow => rows'[a] # NoRow
      BY <2>1 DEF Insert, TypeInv, TypeOK
    <3>2. \A d \in Clients : /\ pc'[d] = "auth" => call'[d].op # "register"
                             /\ \A a \in Accounts : Registering(d, a)' => Registering(d, a)
      BY <2>1 DEF Return, Registering, RegistrationInv, Proven, TypeInv, TypeOK
    <3> QED BY <1>4, <3>1, <3>2, RegistrationQuiet DEF CreatePlayer, client
  <2>2. CASE Insert(call[c].account, call[c].password) /\ Goto(c, "saved")
    <3>1. call[c].account \in Accounts /\ call[c].password \in Passwords /\ rows[call[c].account] = NoRow
      BY <1>4, <2>2 DEF CreatePlayer, Insert, TypeInv, CallOK, Issuing
    <3>2. PICK salt \in Salts : rows' = [rows EXCEPT ![call[c].account] =
                                           <<salt, HashWithSalt(call[c].password, salt)>>]
      BY <2>2 DEF Insert
    <3>3. <<salt, HashWithSalt(call[c].password, salt)>> # NoRow
      BY <3>1, Constants DEF HashWithSalt, HashWithSaltRange
    <3>4. /\ \A a \in Accounts \ {call[c].account} : rows'[a] = rows[a]
          /\ rows'[call[c].account] # NoRow
      BY <3>1, <3>2, <3>3 DEF TypeInv, TypeOK
    <3>5. /\ \A d \in Clients \ {c} : pc'[d] = pc[d]
          /\ pc'[c] = "saved" /\ UNCHANGED <<call, welcomed>>
      BY <1>4, <2>2 DEF CreatePlayer, Goto, client, TypeInv, TypeOK
    <3>6. \A d \in Clients : ~Registering(d, call[c].account) /\ welcomed[call[c].account] = 0
      <4>1. welcomed[call[c].account] \in Nat
        BY <3>1 DEF TypeInv, TypeOK
      <4>2. /\ welcomed[call[c].account] <= 1 /\ welcomed[call[c].account] # 1
            /\ \A d \in Clients : ~Registering(d, call[c].account)
        BY <3>1 DEF RegistrationInv
      <4> QED BY <4>1, <4>2
    <3>7. \A d \in Clients, a \in Accounts :
             Registering(d, a)' => Registering(d, a) \/ (d = c /\ a = call[c].account)
      BY <3>5 DEF Registering
    <3>8. \A d \in Clients : pc'[d] = "auth" => call'[d].op # "register"
      BY <3>5 DEF RegistrationInv
    <3>9. ASSUME NEW a \in Accounts
          PROVE  /\ welcomed'[a] <= 1 /\ (welcomed'[a] = 1 => rows'[a] # NoRow)
                 /\ \A d \in Clients : Registering(d, a)' =>
                      /\ rows'[a] # NoRow /\ welcomed'[a] = 0
                      /\ \A e \in Clients : Registering(e, a)' => e = d
      <4>1. CASE a = call[c].account
        BY <3>4, <3>5, <3>6, <3>7, <4>1
      <4>2. CASE a # call[c].account
        BY <3>4, <3>5, <3>7, <4>2 DEF RegistrationInv
      <4> QED BY <4>1, <4>2
    <3> QED BY <3>8, <3>9 DEF RegistrationInv
  <2> QED BY <1>4, <2>1, <2>2 DEF CreatePlayer
<1>5. ASSUME NEW c \in Clients, Answer(c) PROVE RegistrationInv'
  <2>1. /\ \A d \in Clients \ {c} : pc'[d] = pc[d] /\ call'[d] = call[d]
        /\ pc[c] = "answer" /\ pc'[c] = "idle" /\ UNCHANGED rows
    BY <1>5 DEF Answer, Return, TypeInv, TypeOK
  <2>2. \A d \in Clients : /\ pc'[d] = "auth" => call'[d].op # "register"
                           /\ \A a \in Accounts : Registering(d, a)' => Registering(d, a) /\ d # c
    BY <2>1 DEF RegistrationInv, Registering, Proven
  <2>3. CASE UNCHANGED welcomed
    BY <2>1, <2>2, <2>3, RegistrationQuiet
  <2>4. CASE Registering(c, call[c].account)
             /\ welcomed' = [welcomed EXCEPT ![call[c].account] = @ + 1]
    <3>1. call[c].account \in Accounts
      BY <2>1 DEF TypeInv, CallOK, Issuing
    <3>2. /\ rows[call[c].account] # NoRow /\ welcomed[call[c].account] = 0
          /\ \A d \in Clients : Registering(d, call[c].account) => d = c
      BY <2>4, <3>1 DEF RegistrationInv
    <3>3. welcomed'[call[c].account] = 1
          /\ \A a \in Accounts \ {call[c].account} : welcomed'[a] = welcomed[a]
      BY <2>4, <3>1, <3>2 DEF TypeInv, TypeOK
    <3>4. ASSUME NEW a \in Accounts
          PROVE  /\ welcomed'[a] <= 1 /\ (welcomed'[a] = 1 => rows'[a] # NoRow)
                 /\ \A d \in Clients : Registering(d, a)' =>
                      /\ rows'[a] # NoRow /\ welcomed'[a] = 0
                      /\ \A e \in Clients : Registering(e, a)' => e = d
      <4>1. CASE a = call[c].account
        BY <2>1, <2>2, <3>2, <3>3, <4>1
      <4>2. CASE a # call[c].account
        BY <2>1, <2>2, <3>3, <4>2 DEF RegistrationInv
      <4> QED BY <4>1, <4>2
    <3> QED BY <2>2, <3>4 DEF RegistrationInv
  <2>5. \/ UNCHANGED welcomed
        \/ call[c].op = "register" /\ welcomed' = [welcomed EXCEPT ![call[c].account] = @ + 1]
    <3>1. CASE UNCHANGED client
      BY <3>1 DEF client
    <3>2. CASE welcomed' = [welcomed EXCEPT ![call[c].account] =
                              @ + IF call[c].op = "register" THEN 1 ELSE 0]
      <4>1. call[c].account \in Accounts /\ welcomed \in [Accounts -> Nat]
        BY <2>1 DEF TypeInv, TypeOK, CallOK, Issuing
      <4>2. CASE call[c].op = "register"
        BY <3>2, <4>2
      <4>3. CASE call[c].op # "register"
        <5>1. welcomed' = [welcomed EXCEPT ![call[c].account] = @ + 0]
          BY <3>2, <4>3
        <5> QED BY <4>1, <5>1
      <4> QED BY <4>2, <4>3
    <3> QED BY <1>5, <3>1, <3>2 DEF Answer
  <2> QED BY <2>1, <2>3, <2>4, <2>5 DEF Registering, Proven
<1> QED BY <1>1, <1>2, <1>3, <1>4, <1>5 DEF Next, Client

\* Of all the calls that try to register an account, at most one is told that it has succeeded.
THEOREM OneRegistrationHolds == Spec => []OneRegistration
<1>1. Init => RegistrationInv
  BY DEF Init, RegistrationInv, Registering, Proven
<1>2. RegistrationInv => OneRegistration
  BY DEF RegistrationInv, OneRegistration
<1> QED BY <1>1, <1>2, RegistrationStep, TypeInit, TypeStep, PTL DEF Spec

-----------------------------------------------------------------------------
\* The token of a call under way is its own: nobody holds it, no other call has it, and nothing
\* was given for it yet.
TokenInv ==
    /\ \A t \in Tokens : t > calls => ~issued[t].whole
    /\ \A c \in Clients : held[c] <= calls
    /\ \A c \in Clients : pc[c] \in Issuing =>
         /\ call[c].token <= calls /\ ~issued[call[c].token].whole
         /\ \A d \in Clients : /\ held[d] # call[c].token
                               /\ pc[d] \in Issuing /\ d # c => call[d].token # call[c].token

\* What a step within a call does to the places: the other calls stay where they are, and this
\* one keeps its token or ends.
LEMMA WithinCall ==
    ASSUME TypeInv, NEW c \in Clients, Client(c), ~Ask(c)
    PROVE  /\ UNCHANGED calls
           /\ \A d \in Clients \ {c} : pc'[d] = pc[d] /\ call'[d] = call[d] /\ whole'[d] = whole[d]
           /\ pc'[c] \in Issuing => pc[c] \in Issuing /\ call'[c] = call[c]
BY DEF Client, FindAccount, CreatePlayer, ReadSaved, Authenticate, SetToken, WriteName, WriteRest,
       Expire, Answer, VerifyToken, BuildPlayer, Goto, Loses, Return, Issuing, TypeInv, TypeOK

\* Only an answer gives anything to a client.
LEMMA OnlyAnswerGives ==
    ASSUME TypeInv, NEW c \in Clients, Client(c), ~Ask(c), ~Answer(c)
    PROVE  UNCHANGED <<held, issued>>
BY DEF Client, FindAccount, CreatePlayer, ReadSaved, Authenticate, SetToken, WriteName, WriteRest,
       Expire, VerifyToken, BuildPlayer, client

\* Every step keeps it.
LEMMA TokenStep == TypeInv /\ TokenInv /\ [Next]_vars => TokenInv'
<1> SUFFICES ASSUME TypeInv, TokenInv, [Next]_vars PROVE TokenInv'
  OBVIOUS
<1>0. MaxCalls \in Nat /\ calls \in 0..MaxCalls /\ held \in [Clients -> 0..MaxCalls]
      /\ \A c \in Clients : pc[c] \in Issuing => call[c].token \in Tokens
  BY Constants DEF TypeInv, TypeOK, CallOK
<1>1. CASE UNCHANGED vars \/ Tick
  BY <1>1 DEF Tick, vars, handler, client, TokenInv
<1>2. ASSUME NEW c \in Clients, Ask(c) PROVE TokenInv'
  <2>1. calls' = calls + 1 /\ calls + 1 \in Tokens /\ UNCHANGED <<held, issued>>
    BY <1>0, <1>2 DEF Ask, client, Tokens
  <2>2. \A d \in Clients \ {c} : pc'[d] = pc[d] /\ call'[d] = call[d]
    BY <1>2 DEF Ask, TypeInv, TypeOK
  <2>3. pc'[c] \in Issuing => call'[c].token = calls + 1
    BY <1>2 DEF Ask, Issuing, TypeInv, TypeOK
  <2>4. \A t \in Tokens : t > calls' => ~issued'[t].whole
    BY <1>0, <2>1 DEF TokenInv, Tokens
  <2>5. \A d \in Clients : held'[d] <= calls'
    BY <1>0, <2>1 DEF TokenInv
  <2>6. ASSUME NEW d \in Clients, pc'[d] \in Issuing
        PROVE  /\ call'[d].token <= calls' /\ ~issued'[call'[d].token].whole
               /\ \A e \in Clients : held'[e] # call'[d].token
    <3>1. CASE d = c
      BY <1>0, <2>1, <2>3, <2>6, <3>1 DEF TokenInv, Tokens
    <3>2. CASE d # c
      BY <1>0, <2>1, <2>2, <2>6, <3>2 DEF TokenInv, Tokens
    <3> QED BY <3>1, <3>2
  <2>7. ASSUME NEW d \in Clients, NEW e \in Clients, d # e,
               pc'[d] \in Issuing, pc'[e] \in Issuing
        PROVE  call'[e].token # call'[d].token
    <3>1. \A f \in Clients \ {c} : pc[f] \in Issuing => call[f].token <= calls /\ call[f].token \in Nat
      BY <1>0 DEF TokenInv, Tokens
    <3>2. CASE d = c \/ e = c
      BY <1>0, <2>2, <2>3, <2>7, <3>1, <3>2
    <3>3. CASE d # c /\ e # c
      BY <2>2, <2>7, <3>3 DEF TokenInv
    <3> QED BY <3>2, <3>3
  <2> QED BY <2>4, <2>5, <2>6, <2>7 DEF TokenInv
<1>3. ASSUME NEW c \in Clients, Client(c), ~Ask(c), ~Answer(c) PROVE TokenInv'
  <2>1. UNCHANGED <<calls, held, issued>>
    BY <1>3, WithinCall, OnlyAnswerGives
  <2>2. \A d \in Clients : pc'[d] \in Issuing => pc[d] \in Issuing /\ call'[d] = call[d]
    BY <1>3, WithinCall
  <2> QED BY <2>1, <2>2 DEF TokenInv
<1>4. ASSUME NEW c \in Clients, Answer(c), ~Ask(c) PROVE TokenInv'
  <2>1. UNCHANGED calls /\ \A d \in Clients : pc'[d] \in Issuing => pc[d] \in Issuing /\ call'[d] = call[d]
    BY <1>4, WithinCall DEF Client
  <2>2. pc[c] \in Issuing /\ pc'[c] \notin Issuing
    BY <1>4 DEF Answer, Return, Issuing, TypeInv, TypeOK
  <2>3. \A d \in Clients : held'[d] = held[d] \/ held'[d] = call[c].token
    BY <1>4 DEF Answer, client, TypeInv, TypeOK
  <2>4. \A t \in Tokens : issued'[t] = issued[t] \/ t = call[c].token
    BY <1>4 DEF Answer, client, TypeInv, TypeOK
  <2>5. call[c].token <= calls /\ call[c].token \in Tokens
    BY <1>0, <2>2 DEF TokenInv
  <2>6. \A d \in Clients : pc'[d] \in Issuing => d # c /\ call[d].token # call[c].token
    BY <2>1, <2>2 DEF TokenInv
  <2>7. \A t \in Tokens : t > calls' => ~issued'[t].whole
    BY <1>0, <2>1, <2>4, <2>5 DEF TokenInv, Tokens
  <2>8. \A d \in Clients : held'[d] <= calls'
    BY <2>1, <2>3, <2>5 DEF TokenInv
  <2>9. ASSUME NEW d \in Clients, pc'[d] \in Issuing
        PROVE  /\ call'[d].token <= calls' /\ ~issued'[call'[d].token].whole
               /\ \A e \in Clients : /\ held'[e] # call'[d].token
                                     /\ pc'[e] \in Issuing /\ e # d => call'[e].token # call'[d].token
    BY <1>0, <2>1, <2>3, <2>4, <2>6, <2>9 DEF TokenInv
  <2> QED BY <2>7, <2>8, <2>9 DEF TokenInv
<1>5. \A c \in Clients : Answer(c) => ~Ask(c)
  BY DEF Answer, Ask
<1> QED BY <1>1, <1>2, <1>3, <1>4, <1>5 DEF Next

-----------------------------------------------------------------------------
\* The inductive invariant behind SessionIsOwn: the password was right wherever a call goes on,
\* and stays right, since no row is ever changed; a token in the hands of a client is of the
\* player whose password was given for it.
OwnInv ==
    /\ \A c \in Clients : pc[c] \in Proven => RightPassword(call[c].account, call[c].password)
    /\ \A c \in Clients : pc[c] \in {"name", "rest", "expire", "answer"} =>
         tokens[call[c].token] = NoToken \/ tokens[call[c].token].player = call[c].account
    /\ \A c \in Clients : held[c] # 0 =>
         \/ tokens[held[c]] = NoToken
         \/ RightPassword(tokens[held[c]].player, issued[held[c]].password)
    /\ \A c \in Clients : pc[c] = "player" =>
         RightPassword(call[c].account, issued[held[c]].password)
    /\ SessionIsOwn

\* A row that is there is never changed, and so a right password stays right.
LEMMA RowStays ==
    ASSUME TypeInv, [Next]_vars, NEW a \in Accounts, rows[a] # NoRow
    PROVE  rows'[a] = rows[a]
<1>1. UNCHANGED rows \/ \E c \in Clients : Insert(call[c].account, call[c].password)
  BY DEF Next, Client, Tick, Ask, FindAccount, CreatePlayer, ReadSaved, Authenticate, SetToken,
         WriteName, WriteRest, Expire, Answer, VerifyToken, BuildPlayer, vars
<1> QED BY <1>1 DEF Insert, TypeInv, TypeOK

\* The password of a new row is right.
LEMMA InsertRight ==
    ASSUME TypeInv, NEW a \in Accounts, NEW p \in Passwords, Insert(a, p)
    PROVE  RightPassword(a, p)'
<1>1. PICK salt \in Salts : rows' = [rows EXCEPT ![a] = <<salt, HashWithSalt(p, salt)>>]
  BY DEF Insert
<1>2. <<salt, HashWithSalt(p, salt)>> # NoRow
  BY Constants DEF HashWithSalt, HashWithSaltRange
<1>3. rows'[a] = <<salt, HashWithSalt(p, salt)>>
  BY <1>1 DEF TypeInv, TypeOK
<1> QED BY <1>2, <1>3 DEF RightPassword, GetPlayer, HashWithSalt

\* Tokens only age, but for the one that a call makes.
LEMMA TokensAge ==
    ASSUME TypeInv, [Next]_vars, NEW t \in Tokens,
           \A c \in Clients : SetToken(c) => t # call[c].token
    PROVE  tokens'[t] = NoToken \/ (tokens'[t].player = tokens[t].player /\ tokens[t] # NoToken)
<1>1. CASE Tick
  BY <1>1 DEF Tick, Aged
<1>2. ASSUME NEW c \in Clients, SetToken(c) PROVE tokens'[t] = tokens[t]
  BY <1>2 DEF SetToken, TypeInv, TypeOK
<1>3. CASE UNCHANGED tokens
  BY <1>3
<1> QED BY <1>1, <1>2, <1>3
        DEF Next, Client, Ask, FindAccount, CreatePlayer, ReadSaved, Authenticate, WriteName,
            WriteRest, Expire, Answer, VerifyToken, BuildPlayer, vars, redis

\* A client has what it was given last, until it is given something else.
LEMMA HeldStays ==
    ASSUME TypeInv, TokenInv, [Next]_vars, NEW d \in Clients, ~Answer(d)
    PROVE  /\ held'[d] = held[d]
           /\ held[d] # 0 => issued'[held[d]] = issued[held[d]]
           /\ ~BuildPlayer(d) => session'[d] = session[d]
<1>1. ASSUME NEW c \in Clients, Answer(c), c # d
      PROVE  /\ held'[d] = held[d] /\ session'[d] = session[d]
             /\ held[d] # 0 => issued'[held[d]] = issued[held[d]]
  <2>1. held[d] # call[c].token
    BY <1>1 DEF TokenInv, Answer, Issuing
  <2>2. held[d] # 0 => held[d] \in Tokens
    BY Constants DEF TypeInv, TypeOK, Tokens
  <2> QED BY <1>1, <2>1, <2>2 DEF Answer, client, TypeInv, TypeOK
<1>2. ASSUME NEW c \in Clients, BuildPlayer(c)
      PROVE  /\ UNCHANGED <<held, issued>>
             /\ c # d => session'[d] = session[d]
  BY <1>2 DEF BuildPlayer, TypeInv, TypeOK
<1>3. CASE UNCHANGED client
  BY <1>3 DEF client
<1> QED BY <1>1, <1>2, <1>3
        DEF Next, Client, Tick, Ask, FindAccount, CreatePlayer, ReadSaved, Authenticate, SetToken,
            WriteName, WriteRest, Expire, VerifyToken, vars

\* A call gets to a place by its own step only, or is made anew.
LEMMA OwnStep1 ==
    ASSUME TypeInv, [Next]_vars, NEW d \in Clients
    PROVE  \/ pc'[d] = pc[d] /\ call'[d] = call[d]
           \/ Ask(d) /\ pc'[d] \in {"find", "auth", "verify"}
           \/ Client(d) /\ ~Ask(d)
<1>1. ASSUME NEW c \in Clients, Ask(c)
      PROVE  /\ c # d => pc'[d] = pc[d] /\ call'[d] = call[d]
             /\ c = d => pc'[d] \in {"find", "auth", "verify"}
  BY <1>1 DEF Ask, TypeInv, TypeOK
<1>2. ASSUME NEW c \in Clients, Client(c), ~Ask(c)
      PROVE  c # d => pc'[d] = pc[d] /\ call'[d] = call[d]
  BY <1>2, WithinCall
<1>3. CASE Tick \/ UNCHANGED vars
  BY <1>3 DEF Tick, vars, handler
<1> QED BY <1>1, <1>2, <1>3 DEF Next

\* The password of a call that goes on is right.
LEMMA ProvenRight ==
    ASSUME TypeInv, OwnInv, [Next]_vars, NEW d \in Clients, pc'[d] \in Proven
    PROVE  RightPassword(call[d].account, call[d].password)' /\ call'[d] = call[d]
<1>1. CASE pc[d] \in Proven /\ call'[d] = call[d]
  <2>1. call[d].account \in Accounts /\ RightPassword(call[d].account, call[d].password)
    BY <1>1 DEF OwnInv, TypeInv, CallOK, Proven, Issuing
  <2>2. rows'[call[d].account] = rows[call[d].account]
    BY <2>1, RowStays DEF RightPassword, GetPlayer
  <2> QED BY <1>1, <2>1, <2>2 DEF RightPassword, GetPlayer, HashWithSalt
<1>2. CASE CreatePlayer(d)
  <2>1. Insert(call[d].account, call[d].password) /\ call' = call /\ pc[d] = "create"
    BY <1>2 DEF CreatePlayer, Goto, Return, Proven, TypeInv, TypeOK
  <2>2. call[d].account \in Accounts /\ call[d].password \in Passwords
    BY <2>1 DEF TypeInv, CallOK, Issuing
  <2> QED BY <2>1, <2>2, InsertRight
<1>3. CASE Authenticate(d)
  BY <1>3 DEF Authenticate, Goto, Return, Proven, RightPassword, GetPlayer, TypeInv, TypeOK
<1>4. pc[d] \in Proven \/ CreatePlayer(d) \/ Authenticate(d)
  <2>1. CASE pc'[d] = pc[d] /\ call'[d] = call[d]
    BY <2>1
  <2>2. CASE Ask(d) /\ pc'[d] \in {"find", "auth", "verify"}
    BY <2>2 DEF Proven
  <2>3. CASE Client(d) /\ ~Ask(d)
    BY <2>3 DEF Client, FindAccount, CreatePlayer, ReadSaved, Authenticate, SetToken, WriteName,
                WriteRest, Expire, Answer, VerifyToken, BuildPlayer, Goto, Loses, Return, Proven,
                TypeInv, TypeOK
  <2> QED BY <2>1, <2>2, <2>3, OwnStep1
<1>5. call'[d] = call[d]
  BY OwnStep1, WithinCall DEF Proven, Issuing
<1> QED BY <1>1, <1>2, <1>3, <1>4, <1>5

\* The token of a call that writes its session is of the call's player.
LEMMA NamedOwn ==
    ASSUME TypeInv, TokenInv, OwnInv, [Next]_vars, NEW d \in Clients,
           pc'[d] \in {"name", "rest", "expire", "answer"}
    PROVE  tokens'[call'[d].token] = NoToken \/ tokens'[call'[d].token].player = call'[d].account
<1>1. call'[d] = call[d]
  BY OwnStep1, WithinCall DEF Issuing
<1>2. SetToken(d) \/ pc[d] \in {"name", "rest", "expire", "answer"}
  <2>1. CASE Client(d) /\ ~Ask(d)
    BY <2>1 DEF Client, FindAccount, CreatePlayer, ReadSaved, Authenticate, SetToken, WriteName,
                WriteRest, Expire, Answer, VerifyToken, BuildPlayer, Goto, Loses, Return,
                TypeInv, TypeOK
  <2> QED BY <2>1, OwnStep1
<1>3. CASE SetToken(d)
  <2>1. call[d].token \in Tokens
    BY <1>3 DEF SetToken, TypeInv, CallOK, Issuing
  <2>2. tokens' = [tokens EXCEPT ![call[d].token] = [player |-> call[d].account, left |-> TokenTtl]]
    BY <1>3 DEF SetToken, Return, TypeInv, TypeOK
  <2> QED BY <1>1, <2>1, <2>2 DEF TypeInv, TypeOK
<1>4. CASE pc[d] \in {"name", "rest", "expire", "answer"}
  <2>1. call[d].token \in Tokens /\ pc[d] \in Issuing
    BY <1>4 DEF TypeInv, CallOK, Issuing
  <2>2. \A c \in Clients : SetToken(c) => call[d].token # call[c].token
    BY <1>4, <2>1 DEF SetToken, TokenInv, Issuing
  <2>3. tokens[call[d].token] = NoToken \/ tokens[call[d].token].player = call[d].account
    BY <1>4 DEF OwnInv
  <2> QED BY <1>1, <2>1, <2>2, <2>3, TokensAge
<1> QED BY <1>2, <1>3, <1>4

\* Every step keeps it.
LEMMA OwnStep == TypeInv /\ TokenInv /\ OwnInv /\ [Next]_vars => OwnInv'
<1> SUFFICES ASSUME TypeInv, TokenInv, OwnInv, [Next]_vars, NEW d \in Clients
             PROVE  /\ held'[d] # 0 =>
                         \/ tokens'[held'[d]] = NoToken
                         \/ RightPassword(tokens[held[d]].player, issued[held[d]].password)'
                    /\ pc'[d] = "player" => RightPassword(call[d].account, issued[held[d]].password)'
                    /\ session'[d] # Nobody =>
                         held'[d] # 0 /\ RightPassword(session[d], issued[held[d]].password)'
  BY ProvenRight, NamedOwn DEF OwnInv, SessionIsOwn
<1>1. CASE Answer(d)
  <2>1. /\ pc[d] = "answer" /\ call[d].account \in Accounts /\ call[d].token \in Tokens
        /\ UNCHANGED <<rows, tokens>> /\ pc'[d] # "player"
    BY <1>1 DEF Answer, Return, redis, TypeInv, TypeOK, CallOK, Issuing
  <2>2. RightPassword(call[d].account, call[d].password)
    BY <2>1 DEF OwnInv, Proven
  <2>3. CASE UNCHANGED client
    BY <2>1, <2>3 DEF client, OwnInv, SessionIsOwn, RightPassword, GetPlayer
  <2>4. CASE /\ held' = [held EXCEPT ![d] = call[d].token]
             /\ session' = [session EXCEPT ![d] = call[d].account]
             /\ issued' = [issued EXCEPT ![call[d].token] =
                             [password |-> call[d].password, whole |-> whole[d]]]
    <3>1. /\ held'[d] = call[d].token /\ session'[d] = call[d].account
          /\ issued'[call[d].token].password = call[d].password
      BY <2>1, <2>4 DEF TypeInv, TypeOK
    <3>2. tokens[call[d].token] = NoToken \/ tokens[call[d].token].player = call[d].account
      BY <2>1 DEF OwnInv
    <3>3. held'[d] # 0
      BY <2>1, <3>1 DEF Tokens
    <3> QED BY <2>1, <2>2, <3>1, <3>2, <3>3 DEF RightPassword, GetPlayer
  <2> QED BY <1>1, <2>3, <2>4 DEF Answer
<1>2. CASE ~Answer(d)
  <2>1. /\ held'[d] = held[d] /\ (held[d] # 0 => issued'[held[d]] = issued[held[d]])
        /\ ~BuildPlayer(d) => session'[d] = session[d]
    BY <1>2, HeldStays
  <2>2. held[d] # 0 => held[d] \in Tokens
    BY Constants DEF TypeInv, TypeOK, Tokens
  <2>3. ASSUME held[d] # 0
        PROVE  \/ tokens'[held'[d]] = NoToken
               \/ RightPassword(tokens[held[d]].player, issued[held[d]].password)'
    <3>1. \A c \in Clients : SetToken(c) => held[d] # call[c].token
      BY DEF SetToken, TokenInv, Issuing
    <3>2. tokens'[held[d]] = NoToken
          \/ (tokens'[held[d]].player = tokens[held[d]].player /\ tokens[held[d]] # NoToken)
      BY <2>2, <2>3, <3>1, TokensAge
    <3>3. CASE tokens'[held[d]].player = tokens[held[d]].player /\ tokens[held[d]] # NoToken
      <4>1. RightPassword(tokens[held[d]].player, issued[held[d]].password)
        BY <2>3, <3>3 DEF OwnInv
      <4>2. tokens[held[d]].player \in Accounts
        BY <2>2, <2>3, <3>3 DEF TypeInv, TypeOK
      <4>3. rows'[tokens[held[d]].player] = rows[tokens[held[d]].player]
        BY <4>1, <4>2, RowStays DEF RightPassword, GetPlayer
      <4> QED BY <2>1, <2>3, <3>3, <4>1, <4>3 DEF RightPassword, GetPlayer, HashWithSalt
    <3> QED BY <2>1, <3>2, <3>3
  <2>4. ASSUME NEW a \in Accounts, held[d] # 0, RightPassword(a, issued[held[d]].password),
               NEW b, b = a
        PROVE  GetPlayer(b)' /\ HashWithSalt(issued'[held'[d]].password, rows'[b][1]) = rows'[b][2]
    <3>2. rows'[a] = rows[a]
      BY <2>4, RowStays DEF RightPassword, GetPlayer
    <3> QED BY <2>1, <2>4, <3>2 DEF RightPassword, GetPlayer, HashWithSalt
  <2>5. ASSUME pc'[d] = "player"
        PROVE  RightPassword(call[d].account, issued[held[d]].password)'
    <3>1. held[d] # 0 /\ \/ pc[d] = "player" /\ call'[d] = call[d]
                         \/ VerifyToken(d) /\ tokens[held[d]].player # Nobody
                            /\ call'[d].account = tokens[held[d]].player
      <4>1. CASE Client(d) /\ ~Ask(d)
        <5>1. VerifyToken(d)
          BY <2>5, <4>1 DEF Client, FindAccount, CreatePlayer, ReadSaved, Authenticate, SetToken,
                  WriteName, WriteRest, Expire, Answer, BuildPlayer, Goto, Loses, Return,
                  TypeInv, TypeOK
        <5>2. tokens[held[d]].player # Nobody
              /\ call' = [call EXCEPT ![d].account = tokens[held[d]].player]
          BY <2>5, <5>1 DEF VerifyToken, Return, TypeInv, TypeOK
        <5>3. held[d] # 0
          BY <5>1 DEF VerifyToken, TypeInv, CallOK
        <5>4. call'[d].account = tokens[held[d]].player
          BY <5>2 DEF TypeInv, TypeOK
        <5> QED BY <5>1, <5>2, <5>3, <5>4
      <4>2. CASE pc'[d] = pc[d] /\ call'[d] = call[d]
        BY <2>5, <4>2 DEF TypeInv, CallOK
      <4> QED BY <2>5, <4>1, <4>2, OwnStep1
    <3>2. call'[d].account \in Accounts /\ RightPassword(call'[d].account, issued[held[d]].password)
      <4>1. CASE pc[d] = "player" /\ call'[d] = call[d]
        BY <4>1 DEF OwnInv, TypeInv, CallOK
      <4>2. CASE /\ VerifyToken(d) /\ tokens[held[d]].player # Nobody
                 /\ call'[d].account = tokens[held[d]].player
        <5>1. tokens[held[d]] # NoToken /\ tokens[held[d]].player \in Accounts
          BY <2>2, <3>1, <4>2 DEF NoToken, TypeInv, TypeOK
        <5> QED BY <3>1, <4>2, <5>1 DEF OwnInv
      <4> QED BY <3>1, <4>1, <4>2
    <3> QED BY <2>4, <3>1, <3>2 DEF RightPassword, GetPlayer
  <2>6. ASSUME session'[d] # Nobody
        PROVE  held'[d] # 0 /\ RightPassword(session[d], issued[held[d]].password)'
    <3>1. CASE BuildPlayer(d) /\ session'[d] = call[d].account
      <4>1. pc[d] = "player" /\ held[d] # 0 /\ call[d].account \in Accounts
        BY <3>1 DEF BuildPlayer, TypeInv, CallOK
      <4>2. RightPassword(call[d].account, issued[held[d]].password)
        BY <4>1 DEF OwnInv
      <4> QED BY <2>1, <2>4, <3>1, <4>1, <4>2 DEF RightPassword, GetPlayer
    <3>2. CASE session'[d] = session[d]
      <4>1. /\ session[d] \in Accounts /\ held[d] # 0
            /\ RightPassword(session[d], issued[held[d]].password)
        BY <2>6, <3>2 DEF OwnInv, SessionIsOwn, TypeInv, TypeOK
      <4> QED BY <2>1, <2>4, <3>2, <4>1 DEF RightPassword, GetPlayer
    <3> QED BY <2>1, <3>1, <3>2 DEF BuildPlayer, TypeInv, TypeOK
  <2> QED BY <2>1, <2>3, <2>5, <2>6
<1> QED BY <1>1, <1>2

\* Whoever has a session of a player has given the password of that player's row.
THEOREM SessionIsOwnHolds == Spec => []SessionIsOwn
<1>1. Init => TokenInv /\ OwnInv
  BY Constants DEF Init, TokenInv, OwnInv, SessionIsOwn, Issuing, Proven, NotIssued
<1>2. OwnInv => SessionIsOwn
  BY DEF OwnInv
<1> QED BY <1>1, <1>2, TokenStep, OwnStep, TypeInit, TypeStep, PTL DEF Spec

-----------------------------------------------------------------------------
\* The data of a token's player is there, for as long as the token.
Covered(t) == tokens[t] # NoToken =>
                info[tokens[t].player].name /\ info[tokens[t].player].left >= tokens[t].left

\* The inductive invariant behind LiveTokenVerifies: a session that nothing was lost of has its
\* name until its expiry is set, and is covered from then on.
LiveInv ==
    /\ \A c \in Clients : whole[c] /\ pc[c] \in {"rest", "expire"} => info[call[c].account].name
    /\ \A c \in Clients : whole[c] /\ pc[c] = "answer" => Covered(call[c].token)
    /\ \A t \in Tokens : issued[t].whole => Covered(t)

\* The writes of any session take from no player's data: a name that is there stays, and its
\* expiry is the same or starts anew.
LEMMA InfoKeeps ==
    ASSUME TypeInv, NEW c \in Clients, Client(c), NEW a \in Accounts, info[a].name
    PROVE  info'[a].name /\ (info'[a].left = info[a].left \/ info'[a].left = InfoTtl)
<1>1. info[a] \in [name : BOOLEAN, left : 1..Forever] /\ info[a] # NoInfo
  BY DEF TypeInv, TypeOK, NoInfo
<1>2. CASE UNCHANGED info
  BY <1>2
<1>3. ASSUME NEW name \in BOOLEAN, NEW b, HSet(b, name)
      PROVE  info'[a].name /\ info'[a].left = info[a].left
  BY <1>1, <1>3 DEF HSet, TypeInv, TypeOK
<1>4. ASSUME NEW b, info' = [info EXCEPT ![b].left = IF @ = 0 THEN 0 ELSE InfoTtl]
      PROVE  info'[a].name /\ (info'[a].left = info[a].left \/ info'[a].left = InfoTtl)
  <2>1. info[a].left # 0
    BY <1>1 DEF Forever
  <2> QED BY <1>1, <1>4, <2>1, Constants DEF TypeInv, TypeOK
<1> QED BY <1>2, <1>3, <1>4
        DEF Client, Ask, FindAccount, CreatePlayer, ReadSaved, Authenticate, SetToken, WriteName,
            WriteRest, Expire, Answer, VerifyToken, BuildPlayer, redis

\* A covered token that is not made anew stays covered by every step of a call.
LEMMA CoveredStays ==
    ASSUME TypeInv, NEW c \in Clients, Client(c), NEW t \in Tokens, Covered(t),
           SetToken(c) => t # call[c].token
    PROVE  Covered(t)'
<1>1. tokens'[t] = tokens[t]
  BY DEF Client, Ask, FindAccount, CreatePlayer, ReadSaved, Authenticate, SetToken, WriteName,
         WriteRest, Expire, Answer, VerifyToken, BuildPlayer, redis, TypeInv, TypeOK
<1> SUFFICES ASSUME tokens[t] # NoToken
             PROVE  info'[tokens[t].player].name /\ info'[tokens[t].player].left >= tokens[t].left
  BY <1>1 DEF Covered
<1>2. /\ tokens[t].player \in Accounts /\ tokens[t].left \in 1..TokenTtl
      /\ info[tokens[t].player].name /\ info[tokens[t].player].left >= tokens[t].left
  BY DEF Covered, TypeInv, TypeOK
<1>3. info'[tokens[t].player].name
      /\ (info'[tokens[t].player].left = info[tokens[t].player].left
          \/ info'[tokens[t].player].left = InfoTtl)
  BY <1>2, InfoKeeps
<1> QED BY <1>2, <1>3, Constants

\* Time takes from a token and from what covers it at the same rate.
LEMMA CoveredAges == ASSUME TypeInv, Tick, NEW t \in Tokens, Covered(t) PROVE Covered(t)'
<1> SUFFICES ASSUME tokens'[t] # NoToken
             PROVE  info'[tokens'[t].player].name /\ info'[tokens'[t].player].left >= tokens'[t].left
  BY DEF Covered
<1>1. /\ tokens[t] # NoToken /\ tokens[t].left \in 1..TokenTtl /\ tokens[t].left > 1
      /\ tokens'[t].player = tokens[t].player /\ tokens'[t].left = tokens[t].left - 1
      /\ tokens[t].player \in Accounts
  <2>1. tokens[t] \in [player : Accounts, left : 1..TokenTtl] \cup {NoToken}
    BY DEF TypeInv, TypeOK
  <2>2. tokens'[t] = IF tokens[t] = NoToken THEN NoToken ELSE Aged(tokens[t], NoToken)
    BY DEF Tick
  <2>3. tokens[t] # NoToken /\ Aged(tokens[t], NoToken) # NoToken /\ tokens'[t] = Aged(tokens[t], NoToken)
    BY <2>2
  <2>4. tokens[t].left > 1 /\ tokens'[t] = [tokens[t] EXCEPT !.left = @ - 1]
    BY <2>3 DEF Aged
  <2> QED BY <2>1, <2>3, <2>4
<1>2. /\ info[tokens[t].player].name /\ info[tokens[t].player].left >= tokens[t].left
      /\ info[tokens[t].player] \in [name : BOOLEAN, left : 1..Forever]
  BY <1>1 DEF Covered, TypeInv, TypeOK, NoInfo
<1>3. info'[tokens[t].player] = info[tokens[t].player]
      \/ info'[tokens[t].player] = [info[tokens[t].player] EXCEPT !.left = @ - 1]
  <2> DEFINE a == tokens[t].player
  <2>1. info'[a] = IF info[a] = NoInfo \/ info[a].left = Forever THEN info[a]
                                                                ELSE Aged(info[a], NoInfo)
    BY <1>1 DEF Tick
  <2>2. info[a] # NoInfo /\ info[a].left > 1
    <3>1. info[a].left \in Int
      BY <1>2, Constants DEF Forever
    <3> QED BY <1>1, <1>2, <3>1, Constants DEF NoInfo
  <2> QED BY <2>1, <2>2 DEF Aged
<1>4. info'[tokens[t].player].name = info[tokens[t].player].name
  BY <1>2, <1>3
<1>5. info'[tokens[t].player].left >= info[tokens[t].player].left - 1
  <2>1. info[tokens[t].player].left \in Int
    BY <1>2
  <2> QED BY <1>2, <1>3, <2>1
<1>6. info[tokens[t].player].left \in Int /\ info'[tokens[t].player].left \in Int /\ tokens[t].left \in Int
  <2>1. info[tokens[t].player].left \in Int /\ tokens[t].left \in Int
    BY <1>1, <1>2, Constants DEF Forever
  <2> QED BY <1>2, <1>3, <2>1
<1> QED BY <1>1, <1>2, <1>4, <1>5, <1>6

\* Every step keeps it.
LEMMA LiveStep == TypeInv /\ TokenInv /\ OwnInv /\ LiveInv /\ [Next]_vars => LiveInv'
<1> SUFFICES ASSUME TypeInv, TokenInv, OwnInv, LiveInv, [Next]_vars PROVE LiveInv'
  OBVIOUS
<1>1. CASE UNCHANGED vars
  BY <1>1 DEF vars, redis, handler, client, LiveInv, Covered
<1>2. CASE Tick
  <2>1. UNCHANGED <<pc, call, issued>>
    BY <1>2 DEF Tick, client
  <2>2. ASSUME NEW c \in Clients, whole'[c], pc'[c] \in {"rest", "expire"}
        PROVE  info'[call'[c].account].name
    <3>1. /\ whole[c] /\ info'[call[c].account] # NoInfo
          /\ call[c].account \in Accounts /\ info[call[c].account].name
      BY <1>2, <2>1, <2>2 DEF Tick, LiveInv, TypeInv, CallOK, Issuing
    <3>2. info[call[c].account] \in [name : BOOLEAN, left : 1..Forever]
      BY <3>1 DEF TypeInv, TypeOK, NoInfo
    <3> QED BY <1>2, <2>1, <3>1, <3>2 DEF Tick, Aged
  <2>3. ASSUME NEW c \in Clients, whole'[c], pc'[c] = "answer"
        PROVE  Covered(call[c].token)'
    <3>1. whole[c] /\ call[c].token \in Tokens /\ pc[c] = "answer"
      BY <1>2, <2>1, <2>3 DEF Tick, TypeInv, CallOK, Issuing
    <3>2. Covered(call[c].token)
      BY <3>1 DEF LiveInv
    <3> QED BY <1>2, <2>1, <3>1, <3>2, CoveredAges DEF Covered
  <2>4. \A t \in Tokens : issued'[t].whole => Covered(t)'
    BY <1>2, <2>1, CoveredAges DEF LiveInv
  <2> QED BY <2>2, <2>3, <2>4 DEF LiveInv
<1>3. ASSUME NEW c \in Clients, Client(c) PROVE LiveInv'
  <2>1. ASSUME NEW d \in Clients, whole'[d], pc'[d] \in {"rest", "expire"}
        PROVE  info'[call'[d].account].name
    <3>1. call'[d] = call[d] /\ pc[d] \in Issuing /\ call[d].account \in Accounts
      <4>1. call'[d] = call[d] /\ pc[d] \in Issuing
        BY <2>1, OwnStep1, WithinCall DEF Issuing
      <4> QED BY <4>1 DEF TypeInv, CallOK
    <3>2. (whole[d] /\ pc[d] \in {"rest", "expire"}) \/ (c = d /\ HSet(call[d].account, TRUE))
      <4>1. CASE c # d
        <5>1. pc'[d] = pc[d] /\ whole'[d] = whole[d]
          BY <1>3, <4>1, WithinCall DEF Ask, TypeInv, TypeOK
        <5> QED BY <2>1, <5>1
      <4>2. CASE c = d
        BY <1>3, <2>1, <4>2, ZenonT(40) DEF Client, Ask, FindAccount, CreatePlayer, ReadSaved, Authenticate,
             SetToken, WriteName, WriteRest, Expire, Answer, VerifyToken, BuildPlayer, Goto, Loses,
             Return, TypeInv, TypeOK
      <4> QED BY <4>1, <4>2
    <3>3. CASE whole[d] /\ pc[d] \in {"rest", "expire"}
      BY <1>3, <3>1, <3>3, InfoKeeps DEF LiveInv
    <3>4. CASE HSet(call[d].account, TRUE)
      BY <3>1, <3>4 DEF HSet, TypeInv, TypeOK
    <3> QED BY <3>2, <3>3, <3>4
  <2>2. ASSUME NEW d \in Clients, whole'[d], pc'[d] = "answer"
        PROVE  Covered(call[d].token)' /\ call'[d] = call[d]
    <3>1. call'[d] = call[d] /\ pc[d] \in Issuing /\ call[d].account \in Accounts /\ call[d].token \in Tokens
      <4>1. call'[d] = call[d] /\ pc[d] \in Issuing
        BY <2>2, OwnStep1, WithinCall DEF Issuing
      <4> QED BY <4>1 DEF TypeInv, CallOK
    <3>2. \/ whole[d] /\ pc[d] = "answer"
          \/ /\ whole[d] /\ pc[d] = "expire" /\ UNCHANGED tokens
             /\ info' = [info EXCEPT ![call[d].account].left = IF @ = 0 THEN 0 ELSE InfoTtl]
      <4>1. CASE c # d
        <5>1. pc'[d] = pc[d] /\ whole'[d] = whole[d]
          BY <1>3, <4>1, WithinCall DEF Ask, TypeInv, TypeOK
        <5> QED BY <2>2, <5>1
      <4>2. CASE c = d
        BY <1>3, <2>2, <4>2, ZenonT(40) DEF Client, Ask, FindAccount, CreatePlayer, ReadSaved, Authenticate,
             SetToken, WriteName, WriteRest, Expire, Answer, VerifyToken, BuildPlayer, Goto, Loses,
             Return, TypeInv, TypeOK
      <4> QED BY <4>1, <4>2
    <3>3. CASE whole[d] /\ pc[d] = "answer"
      <4>1. SetToken(c) => call[d].token # call[c].token
        BY <3>1, <3>3 DEF SetToken, TokenInv, Issuing
      <4>2. Covered(call[d].token)
        BY <3>3 DEF LiveInv
      <4>3. \A t \in Tokens : t = call[d].token => Covered(t)'
        BY <1>3, <4>1, <4>2, CoveredStays
      <4> QED BY <3>1, <4>3 DEF Covered
    <3>4. CASE /\ whole[d] /\ pc[d] = "expire" /\ UNCHANGED tokens
               /\ info' = [info EXCEPT ![call[d].account].left = IF @ = 0 THEN 0 ELSE InfoTtl]
      <4>1. info[call[d].account].name
        BY <3>4 DEF LiveInv
      <4>2. info[call[d].account] \in [name : BOOLEAN, left : 1..Forever]
        BY <3>1, <4>1 DEF TypeInv, TypeOK, NoInfo
      <4>3. info'[call[d].account].name /\ info'[call[d].account].left = InfoTtl
        <5>1. info[call[d].account].left # 0
          BY <4>2 DEF Forever
        <5> QED BY <3>1, <3>4, <4>1, <4>2, <5>1 DEF TypeInv, TypeOK
      <4>4. tokens[call[d].token] = NoToken \/ tokens[call[d].token].player = call[d].account
        BY <3>4 DEF OwnInv
      <4>5. tokens[call[d].token] # NoToken => tokens[call[d].token].left \in 1..TokenTtl
        BY <3>1 DEF TypeInv, TypeOK
      <4> QED BY <3>1, <3>4, <4>3, <4>4, <4>5, Constants DEF Covered
    <3> QED BY <3>1, <3>2, <3>3, <3>4
  <2>3. ASSUME NEW t \in Tokens, issued'[t].whole PROVE Covered(t)'
    <3>1. CASE issued[t].whole
      <4>1. SetToken(c) => t # call[c].token
        BY <3>1 DEF SetToken, TokenInv, Issuing
      <4> QED BY <1>3, <3>1, <4>1, CoveredStays DEF LiveInv
    <3>2. CASE ~issued[t].whole
      <4>1. Answer(c) /\ t = call[c].token /\ whole[c]
        <5>1. Answer(c)
          BY <1>3, <2>3, <3>2, OnlyAnswerGives DEF Ask, client
        <5> QED BY <2>3, <3>2, <5>1 DEF Answer, client, TypeInv, TypeOK
      <4>2. Covered(t)
        BY <4>1 DEF LiveInv, Answer
      <4> QED BY <4>1, <4>2 DEF Answer, redis, Covered
    <3> QED BY <3>1, <3>2
  <2> QED BY <2>1, <2>2, <2>3 DEF LiveInv, Covered
<1> QED BY <1>1, <1>2, <1>3 DEF Next

\* A token that lives is good for coming back, unless something of its session was lost.
THEOREM LiveTokens == Spec => []LiveTokenVerifies
<1>1. Init => TokenInv /\ OwnInv /\ LiveInv
  BY Constants DEF Init, TokenInv, OwnInv, SessionIsOwn, LiveInv, Issuing, Proven, NotIssued
<1>2. LiveInv => LiveTokenVerifies
  BY DEF LiveInv, Covered, LiveTokenVerifies
<1> QED BY <1>1, <1>2, TokenStep, OwnStep, LiveStep, TypeInit, TypeStep, PTL DEF Spec

-----------------------------------------------------------------------------
\* The ranking and the operators, Admin, on top of the accounts.
AdminVars == <<vars, service>>

\* What Admin does leaves the accounts alone or is a step of theirs.
LEMMA AdminStep == [AdminNext]_AdminVars => [Next]_vars
BY DEF AdminNext, AdminVars, AdminTick, AdminLogin, SubmitScore, Next, service

\* The ranking and the operators' requests disturb no account: whatever is proved of Accounts
\* holds with them.
THEOREM AdminKeepsAccounts == AdminSpec => Spec
<1>1. AdminInit => Init
  BY DEF AdminInit
<1> QED BY <1>1, AdminStep, PTL DEF AdminSpec, AdminVars, Spec

\* Who is in the ranking has played here, and has some points.
ScoreInv ==
    /\ DOMAIN score \subseteq Players
    /\ \A p \in DOMAIN score : score[p] \in Nat

\* Points are added, to a member or a new one.
LEMMA ScoreStep == ScoreInv /\ [AdminNext]_AdminVars => ScoreInv'
<1> SUFFICES ASSUME ScoreInv, [AdminNext]_AdminVars PROVE ScoreInv'
  OBVIOUS
<1>1. CASE UNCHANGED score
  BY <1>1 DEF ScoreInv
<1>2. ASSUME NEW p \in Accounts, NEW points \in Points, SubmitScore(p, points)
      PROVE  ScoreInv'
  <2> DEFINE old == IF p \in DOMAIN score THEN score[p] ELSE 0
  <2>1. score' = [q \in DOMAIN score \cup {p} |-> IF q = p THEN old + points ELSE score[q]]
    BY <1>2 DEF SubmitScore
  <2>2. old + points \in Nat
    <3>1. points \in Nat
      BY AdminAssumption
    <3>2. old \in Nat
      BY DEF ScoreInv
    <3> HIDE DEF old
    <3> QED BY <3>1, <3>2
  <2> HIDE DEF old
  <2>3. p \in Players
    BY DEF Players
  <2> QED BY <2>1, <2>2, <2>3 DEF ScoreInv
<1> QED BY <1>1, <1>2 DEF AdminNext, AdminVars, AdminTick, AdminLogin, service

-----------------------------------------------------------------------------
\* How many are before each: the ranks of ZREVRANK.
Ahead(p) == {q \in DOMAIN score : Before(q, p)}

\* The order of the ranking is a strict and total one.
LEMMA BeforeTotal ==
    ASSUME ScoreInv
    PROVE  /\ \A p \in DOMAIN score : ~Before(p, p)
           /\ \A p, q \in DOMAIN score : p = q \/ Before(p, q) \/ Before(q, p)
           /\ \A p, q, r \in DOMAIN score : Before(p, q) /\ Before(q, r) => Before(p, r)
           /\ \A p, q \in DOMAIN score : Before(p, q) => score[p] >= score[q]
<1>1. \A p \in DOMAIN score : p \in Nat /\ score[p] \in Nat
  BY AdminAssumption DEF ScoreInv
<1> QED BY <1>1 DEF Before

\* The ranking is finite, and so is who is before whom.
LEMMA ScoreFinite ==
    ASSUME ScoreInv
    PROVE  /\ IsFiniteSet(DOMAIN score) /\ Cardinality(DOMAIN score) \in Nat
           /\ \A p : IsFiniteSet(Ahead(p)) /\ RankOf(p) = Cardinality(Ahead(p)) /\ RankOf(p) \in Nat
<1>1. IsFiniteSet(DOMAIN score)
  BY AdminAssumption, FS_Subset DEF ScoreInv
<1>2. ASSUME NEW p PROVE IsFiniteSet(Ahead(p))
  BY <1>1, FS_Subset DEF Ahead
<1>3. \A p : RankOf(p) = Cardinality(Ahead(p))
  BY DEF RankOf, Ahead
<1> QED BY <1>1, <1>2, <1>3, FS_CardinalityType

\* Who is before another has a smaller rank.
LEMMA RankGrows ==
    ASSUME ScoreInv, NEW p \in DOMAIN score, NEW q \in DOMAIN score, Before(p, q)
    PROVE  RankOf(p) < RankOf(q)
<1>1. Ahead(p) \subseteq Ahead(q)
  BY BeforeTotal DEF Ahead
<1>2. p \in Ahead(q) /\ p \notin Ahead(p)
  BY BeforeTotal DEF Ahead
<1>3. IsFiniteSet(Ahead(q))
  BY ScoreFinite
<1>4. Cardinality(Ahead(p)) <= Cardinality(Ahead(q)) /\ Cardinality(Ahead(p)) # Cardinality(Ahead(q))
  <2>1. Ahead(p) \in SUBSET Ahead(q)
    BY <1>1
  <2> QED BY <1>2, <1>3, <2>1, FS_Subset
<1> QED BY <1>4, ScoreFinite

\* Each rank from 0 on is somebody's.
LEMMA RankTaken ==
    ASSUME ScoreInv, NEW k \in 0..Cardinality(DOMAIN score) - 1
    PROVE  \E p \in DOMAIN score : RankOf(p) = k
<1> DEFINE D == DOMAIN score
           n == Cardinality(D)
           f == [p \in D |-> RankOf(p)]
<1>1. n \in Nat /\ IsFiniteSet(D)
  BY ScoreFinite
<1>2. f \in [D -> 0..n-1]
  <2> SUFFICES ASSUME NEW p \in D PROVE RankOf(p) \in 0..n-1
    OBVIOUS
  <2>1. Ahead(p) \in SUBSET D /\ Ahead(p) # D
    BY BeforeTotal DEF Ahead
  <2>2. Cardinality(Ahead(p)) <= n /\ Cardinality(Ahead(p)) # n
    BY <1>1, <2>1, FS_Subset
  <2> HIDE DEF n
  <2> QED BY <1>1, <2>2, ScoreFinite
<1>3. f \in Injection(D, 0..n-1)
  <2>1. \A p, q \in D : f[p] = f[q] => p = q
    <3> SUFFICES ASSUME NEW p \in D, NEW q \in D, p # q PROVE RankOf(p) # RankOf(q)
      OBVIOUS
    <3>1. RankOf(p) \in Nat /\ RankOf(q) \in Nat
      BY ScoreFinite
    <3> QED BY <3>1, BeforeTotal, RankGrows
  <2> HIDE DEF f, n
  <2> QED BY <1>2, <2>1 DEF Injection, IsInjective
<1>4. IsFiniteSet(0..n-1) /\ Cardinality(0..n-1) = n
  <2> HIDE DEF n
  <2>1. IsFiniteSet(0..n-1) /\ Cardinality(0..n-1) = IF 0 > n-1 THEN 0 ELSE (n-1)-0+1
    BY <1>1, FS_Interval
  <2> QED BY <1>1, <2>1
<1>5. f \in Surjection(D, 0..n-1)
  BY <1>3, <1>4, FS_Injection
<1> QED BY <1>5 DEF Surjection

\* The board has everybody, at his rank.
LEMMA BoardRight ==
    ASSUME ScoreInv
    PROVE  LET n == Cardinality(DOMAIN score) IN
           /\ Board \in [1..n -> DOMAIN score]
           /\ \A i \in 1..n : RankOf(Board[i]) = i - 1
           /\ \A i, j \in 1..n : i < j => Before(Board[i], Board[j])
           /\ \A p \in DOMAIN score : \E i \in 1..n : Board[i] = p
<1> DEFINE n == Cardinality(DOMAIN score)
<1>1. n \in Nat
  BY ScoreFinite
<1>2. ASSUME NEW i \in 1..n PROVE Board[i] \in DOMAIN score /\ RankOf(Board[i]) = i - 1
  <2>1. i - 1 \in 0..n-1
    BY <1>1
  <2>2. \E p \in DOMAIN score : RankOf(p) = i - 1
    BY <2>1, RankTaken
  <2>3. Board[i] = CHOOSE p \in DOMAIN score : RankOf(p) = i - 1
    BY DEF Board
  <2> QED BY <2>2, <2>3
<1>3. Board \in [1..n -> DOMAIN score]
  BY <1>2 DEF Board
<1>4. ASSUME NEW i \in 1..n, NEW j \in 1..n, i < j PROVE Before(Board[i], Board[j])
  <2>1. RankOf(Board[i]) < RankOf(Board[j])
    BY <1>1, <1>2, <1>4
  <2>2. ~Before(Board[j], Board[i])
    <3>1. \A x, y \in Nat : x < y => ~(y < x)
      OBVIOUS
    <3> QED BY <1>2, <2>1, <3>1, RankGrows, ScoreFinite
  <2>3. Board[i] # Board[j]
    BY <1>1, <1>2, <2>1
  <2> QED BY <1>2, <2>2, <2>3, BeforeTotal
<1>5. ASSUME NEW p \in DOMAIN score PROVE \E i \in 1..n : Board[i] = p
  <2>1. RankOf(p) + 1 \in 1..n
    <3>1. Ahead(p) \in SUBSET DOMAIN score /\ Ahead(p) # DOMAIN score
      BY BeforeTotal DEF Ahead
    <3>2. Cardinality(Ahead(p)) <= n /\ Cardinality(Ahead(p)) # n
      BY <3>1, ScoreFinite, FS_Subset
    <3> HIDE DEF n
    <3> QED BY <1>1, <3>2, ScoreFinite
  <2> DEFINE i == RankOf(p) + 1
  <2>2. RankOf(Board[i]) = RankOf(p) /\ Board[i] \in DOMAIN score
    BY <1>2, <2>1, ScoreFinite
  <2>3. Board[i] = p
    <3> HIDE DEF i
    <3>1. ~(RankOf(p) < RankOf(p))
      BY ScoreFinite
    <3> QED BY <2>2, <3>1, RankGrows, BeforeTotal
  <2> QED BY <2>1, <2>3
<1> QED BY <1>2, <1>3, <1>4, <1>5

-----------------------------------------------------------------------------
\* A page of at most b is the beginning of the board.
LEMMA PageIs ==
    ASSUME ScoreInv, NEW n \in Int
    PROVE  LET b == IF n <= 0 THEN DefaultTop ELSE IF n > MaxTop THEN MaxTop ELSE n
               m == IF b < Cardinality(DOMAIN score) THEN b ELSE Cardinality(DOMAIN score)
           IN  /\ b \in 1..MaxTop /\ m \in Nat
               /\ GetTopN(n) = [i \in 1..m |-> [player |-> Board[i], score |-> score[Board[i]],
                                               named |-> Board[i] \in Accounts /\ info[Board[i]].name]]
               /\ Len(GetTopN(n)) = m
<1> DEFINE b == IF n <= 0 THEN DefaultTop ELSE IF n > MaxTop THEN MaxTop ELSE n
           c == Cardinality(DOMAIN score)
           m == IF b < c THEN b ELSE c
           top == ZRevRange(0, b - 1)
<1>1. b \in 1..MaxTop
  BY AdminAssumption
<1>2. c \in Nat
  BY ScoreFinite
<1>3. m \in Nat /\ m <= c
  <2> HIDE DEF b, c
  <2> QED BY <1>1, <1>2
<1>4. Board \in [1..c -> DOMAIN score]
  BY BoardRight
<1>5. Board \in Seq(DOMAIN score) /\ Len(Board) = c
  BY <1>2, <1>4
<1>6. top = SubSeq(Board, 1, m)
  <2> HIDE DEF b, c
  <2>1. 0 + 1 = 1 /\ (b - 1) + 1 = b
    BY <1>1
  <2>2. Members = c
    BY DEF Members, c
  <2> QED BY <1>5, <2>1, <2>2 DEF ZRevRange, Least
<1>7. /\ top \in Seq(DOMAIN score) /\ Len(top) = m /\ DOMAIN top = 1..m
      /\ \A i \in 1..m : top[i] = Board[i]
  <2> HIDE DEF top, m, c
  <2>1. \A i \in 1..m : Board[i] \in DOMAIN score
    BY <1>2, <1>3, <1>4
  <2>2. /\ SubSeq(Board, 1, m) \in Seq(DOMAIN score)
        /\ Len(SubSeq(Board, 1, m)) = IF 1 <= m THEN m - 1 + 1 ELSE 0
        /\ \A i \in 1..m - 1 + 1 : SubSeq(Board, 1, m)[i] = Board[1 + i - 1]
    BY <1>3, <2>1, SubSeqProperties
  <2>3. Len(top) = m
    BY <1>3, <1>6, <2>2
  <2>4. \A i \in 1..m : top[i] = Board[i]
    BY <1>3, <1>6, <2>2
  <2> QED BY <1>6, <2>2, <2>3, <2>4, LenProperties
<1> DEFINE page == [i \in 1..m |-> [player |-> Board[i], score |-> score[Board[i]],
                                    named |-> Board[i] \in Accounts /\ info[Board[i]].name]]
<1>8. GetTopN(n) = page
  <2>1. GetTopN(n) = [i \in DOMAIN top |-> [player |-> top[i], score |-> score[top[i]],
                                            named |-> top[i] \in Accounts /\ info[top[i]].name]]
    BY DEF GetTopN
  <2> HIDE DEF top, m
  <2> QED BY <1>7, <2>1
<1>9. Len(page) = m
  <2> HIDE DEF m
  <2> QED BY <1>3
<1> QED BY <1>1, <1>3, <1>8, <1>9

\* Both ways of asking come to a page of GetTopN, for the number asked or the most there is.
LEMMA PagesAre ==
    ASSUME NEW n \in Int, NEW page \in {RankQuery(n, Backends), RankTop(n, Backends).data}
    PROVE  \E k \in Int : page = GetTopN(k) /\ (n >= 1 => k = n \/ (n > MaxTop /\ k = MaxTop))
<1>1. DefaultTop \in Int /\ MaxTop \in Int /\ NoNumber \notin Int
  BY AdminAssumption
<1>2. \A k : TopN(k, Backends) = [kind |-> "list", list |-> GetTopN(k)]
  BY DEF TopN, Backends
<1>3. \A k : TopN(k, Backends) # Unreachable /\ TopN(k, Backends).list = GetTopN(k)
  BY <1>2 DEF Unreachable
<1>4. CASE page = RankQuery(n, Backends)
  <2> DEFINE k == IF n <= 0 THEN DefaultTop ELSE n
  <2>1. page = GetTopN(k)
    BY <1>3, <1>4 DEF RankQuery
  <2> QED BY <1>1, <2>1
<1>5. CASE page = RankTop(n, Backends).data
  <2>1. page = GetTopN(RankTopN(n))
    BY <1>3, <1>5 DEF RankTop, Answered
  <2>2. /\ RankTopN(n) \in Int
        /\ n >= 1 => RankTopN(n) = n \/ (n > MaxTop /\ RankTopN(n) = MaxTop)
    BY <1>1 DEF RankTopN
  <2> QED BY <2>1, <2>2
<1> QED BY <1>4, <1>5

\* What a page of any length promises of the ranking, and of the tokens that live.
LEMMA PageRight ==
    ASSUME ScoreInv, TypeOK, LiveTokenVerifies, NEW n \in Int
    PROVE  LET page == GetTopN(n)
               shown == {page[i].player : i \in DOMAIN page} IN
           /\ Len(page) <= MaxTop
           /\ n >= 1 => Len(page) = Least(Least(n, MaxTop), Members)
           /\ \A i, j \in DOMAIN page : i < j => page[i].score >= page[j].score
           /\ \A p \in DOMAIN score \ shown : Len(page) > 0 /\ \A q \in shown : score[q] >= score[p]
           /\ \A t \in Tokens, i \in DOMAIN page :
                issued[t].whole /\ tokens[t].player = page[i].player => page[i].named
<1> DEFINE b == IF n <= 0 THEN DefaultTop ELSE IF n > MaxTop THEN MaxTop ELSE n
           c == Cardinality(DOMAIN score)
           m == IF b < c THEN b ELSE c
           page == GetTopN(n)
           shown == {page[i].player : i \in DOMAIN page}
<1>1. b \in 1..MaxTop /\ c \in Nat /\ MaxTop \in Nat
  BY PageIs, ScoreFinite, AdminAssumption
<1>2. /\ page = [i \in 1..m |-> [player |-> Board[i], score |-> score[Board[i]],
                                 named |-> Board[i] \in Accounts /\ info[Board[i]].name]]
      /\ Len(page) = m
  BY PageIs
<1>3. /\ Board \in [1..c -> DOMAIN score]
      /\ \A i, j \in 1..c : i < j => Before(Board[i], Board[j])
      /\ \A p \in DOMAIN score : \E i \in 1..c : Board[i] = p
  BY BoardRight
<1> HIDE DEF b, c, page
<1>4. /\ DOMAIN page = 1..m
      /\ \A i \in 1..m : /\ page[i].player = Board[i] /\ page[i].score = score[Board[i]]
                         /\ page[i].named = (Board[i] \in Accounts /\ info[Board[i]].name)
  BY <1>2
<1>5. m <= c /\ m <= b /\ m <= MaxTop /\ m \in Nat
  BY <1>1
<1>6. \A i, j \in DOMAIN page : i < j => page[i].score >= page[j].score
  <2> SUFFICES ASSUME NEW i \in 1..m, NEW j \in 1..m, i < j PROVE score[Board[i]] >= score[Board[j]]
    BY <1>4
  <2>1. i \in 1..c /\ j \in 1..c
    BY <1>1, <1>5
  <2> QED BY <1>3, <2>1, BeforeTotal
<1>7. ASSUME NEW p \in DOMAIN score, p \notin shown
      PROVE  Len(page) > 0 /\ \A q \in shown : score[q] >= score[p]
  <2>1. PICK i \in 1..c : Board[i] = p
    BY <1>3
  <2>2. i > m
    BY <1>1, <1>4, <1>5, <1>7, <2>1
  <2>3. m = b
    BY <1>1, <2>2
  <2>4. ASSUME NEW q \in shown PROVE score[q] >= score[p]
    <3>1. PICK j \in 1..m : q = Board[j]
      BY <1>4
    <3>2. j \in 1..c /\ j < i
      BY <1>1, <1>5, <2>2, <3>1
    <3> QED BY <1>3, <2>1, <3>1, <3>2, BeforeTotal
  <2> QED BY <1>1, <1>2, <2>3, <2>4
<1>8. ASSUME NEW t \in Tokens, NEW i \in DOMAIN page,
             issued[t].whole, tokens[t].player = page[i].player
      PROVE  page[i].named
  <2>1. i \in 1..m /\ i \in 1..c
    BY <1>1, <1>4, <1>5
  <2>2. page[i].player = Board[i] /\ Board[i] \in Players
    BY <1>3, <1>4, <2>1 DEF ScoreInv
  <2>3. tokens[t] # NoToken
    BY <1>8, <2>2, AdminAssumption DEF NoToken
  <2>4. tokens[t].player \in Accounts
    BY <2>3 DEF TypeOK
  <2>5. info[tokens[t].player].name
    BY <1>8, <2>3 DEF LiveTokenVerifies
  <2> QED BY <1>4, <1>8, <2>1, <2>2, <2>4, <2>5
<1>9. n >= 1 => Len(page) = Least(Least(n, MaxTop), Members)
  <2>1. n >= 1 => b = Least(n, MaxTop)
    BY AdminAssumption DEF b, Least
  <2>2. Members = c
    BY DEF Members, c
  <2> QED BY <1>2, <2>1, <2>2 DEF Least
<1>10. Len(page) <= MaxTop
  BY <1>2, <1>5
<1> QED BY <1>6, <1>7, <1>8, <1>9, <1>10 DEF page

\* Every page of the ranking, whoever asks and for how many, is as long as asked within bounds,
\* best first and complete, and names everyone who could come back with his token.
THEOREM PagesRight == AdminSpec => []RankPagesRight
<1>1. AdminInit => ScoreInv
  BY AdminAssumption DEF AdminInit, ScoreInv, Players
<1>2. ScoreInv /\ TypeOK /\ LiveTokenVerifies => RankPagesRight
  <2> SUFFICES ASSUME ScoreInv, TypeOK, LiveTokenVerifies,
                      NEW n \in -1..MaxTop + 1,
                      NEW page \in {RankQuery(n, Backends), RankTop(n, Backends).data}
               PROVE  LET shown == {page[i].player : i \in DOMAIN page} IN
                      /\ Len(page) <= MaxTop
                      /\ n >= 1 => Len(page) = Least(Least(n, MaxTop), Members)
                      /\ \A i, j \in DOMAIN page : i < j => page[i].score >= page[j].score
                      /\ \A p \in DOMAIN score \ shown :
                           Len(page) > 0 /\ \A q \in shown : score[q] >= score[p]
                      /\ \A t \in Tokens, i \in DOMAIN page :
                           issued[t].whole /\ tokens[t].player = page[i].player => page[i].named
    BY DEF RankPagesRight
  <2>1. n \in Int
    BY AdminAssumption
  <2>2. PICK k \in Int : page = GetTopN(k) /\ (n >= 1 => k = n \/ (n > MaxTop /\ k = MaxTop))
    BY <2>1, PagesAre
  <2>3. LET top == GetTopN(k)
            shown == {top[i].player : i \in DOMAIN top} IN
        /\ Len(top) <= MaxTop
        /\ k >= 1 => Len(top) = Least(Least(k, MaxTop), Members)
        /\ \A i, j \in DOMAIN top : i < j => top[i].score >= top[j].score
        /\ \A p \in DOMAIN score \ shown :
             Len(top) > 0 /\ \A q \in shown : score[q] >= score[p]
        /\ \A t \in Tokens, i \in DOMAIN top :
             issued[t].whole /\ tokens[t].player = top[i].player => top[i].named
    BY PageRight
  <2>4. n >= 1 => k >= 1 /\ Least(k, MaxTop) = Least(n, MaxTop)
    BY <2>1, <2>2, AdminAssumption DEF Least
  <2> HIDE DEF Members
  <2> QED BY <2>2, <2>3, <2>4
<1>3. AdminSpec => []ScoreInv
  BY <1>1, ScoreStep, PTL DEF AdminSpec, AdminVars
<1> QED BY <1>2, <1>3, AdminKeepsAccounts, TypeCorrect, LiveTokens, PTL

=============================================================================
