--------------------------- MODULE RegistryProofs ---------------------------
(***************************************************************************)
(* Proofs about Registry, for any processes and addresses, any timeout and *)
(* any number of crashes and lost calls.                                   *)
(***************************************************************************)
EXTENDS Registry, TLAPS

\* The table as the center's operations leave it.
TableOK ==
    /\ addrOf \in [Found -> Registered \cup {Nobody}] /\ age \in [Found -> 0..Timeout + 1]
    /\ lapse \in [Games -> 0..Timeout + 1]

\* A process registers an address.
LEMMA AddressOf ==
    ASSUME TypeOK
    PROVE  /\ \A a \in Addresses : Registers[a] \in Registered
           /\ \A s \in Services : Address(s) \in Registered
           /\ Nobody \notin Registered
BY RegistryAssumption DEF Registered, TypeOK, Address

\* The center's operations keep the table well formed.
LEMMA TableSteps ==
    ASSUME TypeOK, NEW s \in Services,
           \/ RegisterService(s) \/ Heartbeat(s) \/ (Sweep /\ UNCHANGED lapse)
           \/ UNCHANGED <<table, lapse>>
    PROVE  TableOK'
<1>0. Timeout \in Nat /\ Address(s) \in Registered
  BY RegistryAssumption, AddressOf
<1>1. CASE RegisterService(s)
  BY <1>0, <1>1 DEF RegisterService, TypeOK, TableOK
<1>2. CASE Heartbeat(s)
  BY <1>0, <1>2 DEF Heartbeat, TypeOK, TableOK
<1>3. CASE Sweep /\ UNCHANGED lapse
  BY <1>0, <1>3 DEF Sweep, TypeOK, TableOK
<1>4. CASE UNCHANGED <<table, lapse>>
  BY <1>4 DEF TypeOK, TableOK, table
<1> QED BY <1>1, <1>2, <1>3, <1>4

\* Every variable has its type from the start.
LEMMA TypeInit == Init => TypeOK
<1> SUFFICES ASSUME Init PROVE TypeOK
  OBVIOUS
<1>1. \A s \in Services : Places(s) # {} /\ Places(s) \subseteq Addresses
  BY RegistryAssumption DEF RegistryAssumption, Places
<1>2. \A s \in Services : at[s] \in Places(s)
  BY <1>1 DEF Init
<1>3. at \in [Services -> Addresses]
  BY <1>1, <1>2 DEF Init
<1>4. TypeOK
  <2> USE RegistryAssumption DEF RegistryAssumption
  <2>1. tries \in [Services -> 0..MaxTries - 1] /\ lapse \in [Games -> 0..Timeout + 1]
    BY DEF Init
  <2>2. gone \in [Registered -> 0..Timeout + Horizon] /\ listAge \in [Gateways -> 0..Horizon]
    BY DEF Init
  <2>3. gameList \in [Gateways -> SUBSET Registered]
    BY DEF Init
  <2>4. due \in [Services -> SUBSET Tasks]
    BY DEF Init
  <2>5. pc \in [Services -> {"down", "register", "serving"}] /\ age \in [Found -> 0..Timeout + 1]
    BY DEF Init
  <2>6. centerUp \in BOOLEAN /\ odd \in BOOLEAN
    BY Zenon DEF Init
  <2>9. faults \in 0..MaxFaults
    BY DEF Init
  <2>7. addrOf \in [Found -> Registered \cup {Nobody}]
    BY DEF Init
  <2>8. /\ rankAddr \in [Consumers -> Registered \cup {Nobody}]
        /\ rankClient \in [Consumers -> Registered \cup {Nobody}]
    BY DEF Init
  <2> QED BY <1>3, <2>1, <2>2, <2>3, <2>4, <2>5, <2>6, <2>7, <2>8, <2>9 DEF TypeOK
<1> QED BY <1>4

\* The center comes and goes, a process starts.
LEMMA TypeStarts ==
    ASSUME TypeOK, CenterCrash \/ CenterStart \/ \E s \in Services : Start(s)
    PROVE  TypeOK'
<1>0. Timeout \in Nat /\ MaxTries \in Nat \ {0} /\ Horizon \in Nat /\ MaxFaults \in Nat
  BY RegistryAssumption DEF RegistryAssumption
<1>1. CASE CenterCrash
  <2>1. faults' \in 0..MaxFaults
    BY <1>0, <1>1 DEF CenterCrash, Fault, TypeOK
  <2>2. /\ addrOf' \in [Found -> Registered \cup {Nobody}]
        /\ age' \in [Found -> 0..Timeout + 1] /\ lapse' \in [Games -> 0..Timeout + 1]
    BY <1>0, <1>1 DEF CenterCrash
  <2> QED BY <1>1, <2>1, <2>2 DEF CenterCrash, TypeOK, self, known
<1>2. CASE CenterStart
  BY <1>2 DEF CenterStart, TypeOK, self, known, ghosts, table
<1>3. ASSUME NEW s \in Services, Start(s) PROVE TypeOK'
  <2>1. PICK a \in Places(s) :
          /\ at' = [at EXCEPT ![s] = a]
          /\ gone' = IF s \in Games THEN [gone EXCEPT ![Registers[a]] = 0] ELSE gone
    BY <1>3 DEF Start
  <2>2. a \in Addresses
    BY <2>1 DEF Places
  <2>3. at' \in [Services -> Addresses] /\ gone' \in [Registered -> 0..Timeout + Horizon]
    <3>1. Registers[a] \in Registered /\ 0 \in 0..Timeout + Horizon
      BY <1>0, <2>2 DEF Registered
    <3>2. gone' \in [Registered -> 0..Timeout + Horizon]
      BY <2>1, <3>1 DEF TypeOK
    <3>3. at' \in [Services -> Addresses]
      BY <2>1, <2>2 DEF TypeOK
    <3> QED BY <3>2, <3>3
  <2> QED BY <1>0, <1>3, <2>3 DEF Start, TypeOK, known, table
<1> QED BY <1>1, <1>2, <1>3

\* What a process that ends, or begins to serve, leaves of itself.
LEMMA TypeForget ==
    ASSUME TypeOK, NEW s \in Services,
           Forget(s) \/ Serving(s) \/ (TryAgain(s) /\ pc[s] = "register")
    PROVE  /\ pc' \in [Services -> {"down", "register", "serving"}]
           /\ tries' \in [Services -> 0..MaxTries - 1]
           /\ at' = at /\ due' \in [Services -> SUBSET Tasks]
           /\ gameList' \in [Gateways -> SUBSET Registered]
           /\ rankAddr' \in [Consumers -> Registered \cup {Nobody}]
           /\ rankClient' \in [Consumers -> Registered \cup {Nobody}]
           /\ listAge' \in [Gateways -> 0..Horizon]
<1>0. MaxTries \in Nat \ {0} /\ Horizon \in Nat
  BY RegistryAssumption DEF RegistryAssumption
<1>1. CASE Forget(s)
  BY <1>0, <1>1 DEF Forget, TypeOK
<1>2. CASE Serving(s)
  BY <1>0, <1>2 DEF Serving, TypeOK, known
<1>3. CASE /\ tries[s] + 1 < Attempts(s) /\ tries' = [tries EXCEPT ![s] = @ + 1]
           /\ UNCHANGED <<pc, at, due, known, listAge>>
  <2>1. tries[s] + 1 \in 0..MaxTries - 1
    BY <1>0, <1>3 DEF Attempts, TypeOK
  <2> QED BY <2>1, <1>3 DEF TypeOK, known
<1> QED BY <1>1, <1>2, <1>3 DEF TryAgain

\* A process ends, or tries to register.
LEMMA TypeProcess ==
    ASSUME TypeOK, NEW s \in Services, Crash(s) \/ TryRegister(s)
    PROVE  TypeOK'
<1>0. MaxFaults \in Nat
  BY RegistryAssumption DEF RegistryAssumption
<1>1. faults' \in 0..MaxFaults
  BY <1>0 DEF Crash, TryRegister, Answered, Failed, Unheard, Fault, TypeOK
<1>2. Forget(s) \/ Serving(s) \/ (TryAgain(s) /\ pc[s] = "register")
  BY DEF Crash, TryRegister
<1>3. TableOK'
  BY TableSteps DEF Crash, TryRegister
<1>4. UNCHANGED <<centerUp, odd, gone>>
  BY DEF Crash, TryRegister
<1> QED BY <1>1, <1>2, <1>3, <1>4, TypeForget DEF TypeOK, TableOK

\* The periodic tasks.
LEMMA TypeTasks ==
    ASSUME TypeOK, NEW s \in Services, Beat(s) \/ Reregister(s) \/ Refresh(s)
    PROVE  TypeOK'
<1>0. MaxFaults \in Nat /\ Horizon \in Nat
  BY RegistryAssumption DEF RegistryAssumption
<1>1. faults' \in 0..MaxFaults
  BY <1>0 DEF Beat, Reregister, Refresh, Answered, Failed, Unheard, Fault, TypeOK
<1>2. TableOK'
  BY TableSteps DEF Beat, Reregister, Refresh
<1>3. UNCHANGED <<centerUp, pc, tries, at, odd, gone>>
  BY DEF Beat, Reregister, Refresh
<1>4. due' \in [Services -> SUBSET Tasks]
  BY DEF Beat, Reregister, Refresh, Done, LooksAround, Tasks, TypeOK
<1>5. /\ gameList' \in [Gateways -> SUBSET Registered]
      /\ rankAddr' \in [Consumers -> Registered \cup {Nobody}]
      /\ rankClient' \in [Consumers -> Registered \cup {Nobody}]
      /\ listAge' \in [Gateways -> 0..Horizon]
  <2>1. CASE UNCHANGED <<known, listAge>>
    BY <2>1 DEF known, TypeOK
  <2>2. CASE Adopt(s)
    <3>1. \A f \in Found : addrOf'[f] # Nobody => addrOf'[f] \in Registered
      BY <1>2 DEF TableOK
    <3>2. {addrOf'[g] : g \in Games} \ {Nobody} \subseteq Registered
      BY <3>1 DEF Found
    <3>3. {addrOf'[r] : r \in Ranks} \ {Nobody} \subseteq Registered
      BY <3>1 DEF Found
    <3>4. gameList' \in [Gateways -> SUBSET Registered]
      BY <2>2, <3>2 DEF Adopt, TypeOK
    <3>5. rankAddr' \in [Consumers -> Registered \cup {Nobody}]
      BY <2>2, <3>3 DEF Adopt, TypeOK
    <3>6. listAge' \in [Gateways -> 0..Horizon] /\ rankClient' = rankClient
      BY <2>2, <1>0 DEF Adopt, TypeOK
    <3> QED BY <3>4, <3>5, <3>6 DEF TypeOK
  <2> QED BY <2>1, <2>2 DEF Beat, Reregister, Refresh, known
<1> QED BY <1>1, <1>2, <1>3, <1>4, <1>5 DEF TypeOK, TableOK

\* A client of rank is made.
LEMMA TypeCall == ASSUME TypeOK, NEW c \in Callers, CallRank(c) PROVE TypeOK'
<1>1. c \in Consumers /\ rankAddr[c] \in Registered
  BY RegistryAssumption DEF CallRank, TypeOK
<1> QED BY <1>1 DEF CallRank, TypeOK, table, self, ghosts

\* A period passes.
LEMMA TypeAdvance == ASSUME TypeOK, Advance PROVE TypeOK'
<1>0. Timeout \in Nat /\ Horizon \in Nat
  BY RegistryAssumption DEF RegistryAssumption
<1>1. /\ age' \in [Found -> 0..Timeout + 1] /\ lapse' \in [Games -> 0..Timeout + 1]
      /\ gone' \in [Registered -> 0..Timeout + Horizon] /\ listAge' \in [Gateways -> 0..Horizon]
  <2>1. \A f \in Found : age'[f] \in 0..Timeout + 1
    BY <1>0 DEF Advance, TypeOK, Up
  <2>4. \A g \in Games : lapse'[g] \in 0..Timeout + 1
    BY <1>0 DEF Advance, TypeOK, Up
  <2>2. \A i \in Registered : gone'[i] \in 0..Timeout + Horizon
    BY <1>0 DEF Advance, TypeOK, Up
  <2>3. \A w \in Gateways : listAge'[w] \in 0..Horizon
    BY <1>0 DEF Advance, TypeOK, Up
  <2> QED BY <2>1, <2>2, <2>3, <2>4 DEF Advance
<1>2. due' \in [Services -> SUBSET Tasks]
  BY DEF Advance, TasksOf, Tasks
<1>3. odd' \in BOOLEAN
  BY DEF Advance
<1> QED BY <1>1, <1>2, <1>3 DEF Advance, TypeOK, known

\* Every step keeps the types.
LEMMA TypeStep == TypeOK /\ [Next]_vars => TypeOK'
<1> SUFFICES ASSUME TypeOK, [Next]_vars PROVE TypeOK'
  OBVIOUS
<1>1. CASE UNCHANGED vars
  BY <1>1 DEF TypeOK, vars, table, self, known, ghosts
<1> QED BY <1>1, TypeStarts, TypeProcess, TypeTasks, TypeCall, TypeAdvance DEF Next

\* Every variable has its type, always.
THEOREM TypeCorrect == Spec => []TypeOK
BY TypeInit, TypeStep, PTL DEF Spec

-----------------------------------------------------------------------------
\* A game that serves has registered from where it runs; one that could not has ended.
THEOREM ListedWhereTheyRun == Spec => []GamesListedWhereTheyRun
<1>1. Init => GamesListedWhereTheyRun
  BY DEF Init, GamesListedWhereTheyRun, Services
<1>2. TypeOK /\ GamesListedWhereTheyRun /\ [Next]_vars => GamesListedWhereTheyRun'
  <2> SUFFICES ASSUME TypeOK, GamesListedWhereTheyRun, [Next]_vars,
                      NEW g \in Games, pc'[g] = "serving", Listed(g)'
               PROVE  addrOf'[g] = Address(g)'
    BY DEF GamesListedWhereTheyRun
  <2>0. g \in Services /\ g \in Found /\ (pc[g] = "serving" /\ Listed(g) => addrOf[g] = Address(g))
    BY DEF Services, Found, GamesListedWhereTheyRun
  <2>1. CASE CenterCrash
    BY <2>0, <2>1 DEF CenterCrash, Listed
  <2>2. CASE CenterStart \/ Advance \/ UNCHANGED vars
    BY <2>0, <2>2 DEF CenterStart, Advance, vars, table, self, Listed, Address
  <2>3. ASSUME NEW s \in Services, Start(s) PROVE addrOf'[g] = Address(g)'
    BY <2>0, <2>3 DEF Start, table, Listed, Address, TypeOK
  <2>4. ASSUME NEW s \in Services, Crash(s) PROVE addrOf'[g] = Address(g)'
    BY <2>0, <2>4 DEF Crash, Forget, table, Listed, Address, TypeOK
  <2>5. ASSUME NEW s \in Services, TryRegister(s) PROVE addrOf'[g] = Address(g)'
    <3>1. CASE RegisterService(s) /\ Serving(s)
      BY <2>0, <3>1 DEF RegisterService, Serving, Listed, Address, TypeOK
    <3>2. CASE UNCHANGED table /\ TryAgain(s) /\ pc[s] = "register"
      BY <2>0, <3>2 DEF table, TryAgain, ServesUnregistered, Serving, Forget, Listed,
                        Address, TypeOK
    <3>3. CASE RegisterService(s) /\ TryAgain(s) /\ pc[s] = "register"
      BY <2>0, <3>3 DEF RegisterService, TryAgain, ServesUnregistered, Serving, Forget, Listed,
                        Address, TypeOK
    <3> QED BY <2>5, <3>1, <3>2, <3>3 DEF TryRegister, table
  <2>6. ASSUME NEW s \in Services, Beat(s) PROVE addrOf'[g] = Address(g)'
    BY <2>0, <2>6 DEF Beat, Heartbeat, table, Listed, Address
  <2>7. ASSUME NEW s \in Services, Reregister(s) PROVE addrOf'[g] = Address(g)'
    BY <2>0, <2>7 DEF Reregister, RegisterService, table, Listed, Address, TypeOK
  <2>8. ASSUME NEW s \in Services, Refresh(s) PROVE addrOf'[g] = Address(g)'
    BY <2>0, <2>8 DEF Refresh, Sweep, table, Listed, Address
  <2>9. ASSUME NEW c \in Callers, CallRank(c) PROVE addrOf'[g] = Address(g)'
    BY <2>0, <2>9 DEF CallRank, table, self, Listed, Address
  <2> QED BY <2>1, <2>2, <2>3, <2>4, <2>5, <2>6, <2>7, <2>8, <2>9 DEF Next
<1> QED BY <1>1, <1>2, TypeInit, TypeStep, PTL DEF Spec

-----------------------------------------------------------------------------
\* What was last known of a game is in the table, as fresh as that.
LapseInv == \A g \in Games : lapse[g] <= Timeout => Listed(g) /\ age[g] <= lapse[g]

\* A registration begins it, a heartbeat renews it, and the sweep, which looks at age,
\* spares it; the table of a center that was restarted is of nobody.
LEMMA LapseStep == TypeOK /\ LapseInv /\ [Next]_vars => LapseInv'
<1> SUFFICES ASSUME TypeOK, LapseInv, [Next]_vars, NEW g \in Games, lapse'[g] <= Timeout
             PROVE  Listed(g)' /\ age'[g] <= lapse'[g]
  BY DEF LapseInv
<1>0. /\ Timeout \in Nat /\ Nobody \notin Registered /\ g \in Found /\ Address(g) \in Registered
      /\ age[g] \in 0..Timeout + 1 /\ lapse[g] \in 0..Timeout + 1
      /\ lapse[g] <= Timeout => Listed(g) /\ age[g] <= lapse[g]
  BY RegistryAssumption, AddressOf DEF RegistryAssumption, TypeOK, LapseInv, Found, Services
<1>1. CASE CenterCrash
  BY <1>0, <1>1 DEF CenterCrash
<1>2. CASE UNCHANGED <<table, lapse>>
  BY <1>0, <1>2 DEF table, Listed
<1>3. CASE Advance
  BY <1>0, <1>3 DEF Advance, Up, Listed
<1>4. ASSUME NEW r \in Services, RegisterService(r) PROVE Listed(g)' /\ age'[g] <= lapse'[g]
  BY <1>0, <1>4 DEF RegisterService, Listed
<1>5. ASSUME NEW r \in Services, Heartbeat(r) PROVE Listed(g)' /\ age'[g] <= lapse'[g]
  BY <1>0, <1>5 DEF Heartbeat, Listed
<1>6. CASE Sweep /\ UNCHANGED lapse
  BY <1>0, <1>6 DEF Sweep, Listed
<1> QED BY <1>1, <1>2, <1>3, <1>4, <1>5, <1>6
        DEF Next, CenterStart, Start, Crash, TryRegister, Beat, Reregister, Refresh,
            CallRank, vars, table, ghosts

\* A game that reached this center once in every Timeout periods is in the table.
THEOREM ServingListed == Spec => []ServingGameListed
<1>1. Init => LapseInv
  BY RegistryAssumption DEF Init, LapseInv, RegistryAssumption
<1>2. LapseInv => ServingGameListed
  BY DEF LapseInv, ServingGameListed, Services
<1> QED BY <1>1, <1>2, LapseStep, TypeInit, TypeStep, PTL DEF Spec

-----------------------------------------------------------------------------
\* The inductive invariant behind BoundedStaleness: the tickers of what does not serve want
\* nothing; where a game runs, a game runs; and an entry of a game that the sweep would spare
\* is at least as old as the death of the game that ran there.
StaleInv ==
    /\ GamesListedWhereTheyRun
    /\ \A s \in Services : due[s] # {} => pc[s] = "serving"
    /\ \A g \in Games : Runs(g) => gone[Address(g)] = 0
    /\ \A g \in Games : Listed(g) /\ age[g] <= Timeout => gone[addrOf[g]] <= age[g]
    /\ BoundedStaleness

\* Nothing is due, nobody runs and nothing is listed in the beginning.
LEMMA StaleInit == Init => StaleInv
BY DEF Init, StaleInv, GamesListedWhereTheyRun, BoundedStaleness, PickGame, Services, Found, Runs, Listed

\* A step that leaves the gateways' lists and the deaths alone, and ends at most processes.
LEMMA StaleQuiet ==
    ASSUME TypeOK, StaleInv, NEW s \in Services,
           UNCHANGED <<at, gone>>,
           \/ UNCHANGED <<pc, due>>
           \/ pc' = [pc EXCEPT ![s] = "down"] /\ due' = [due EXCEPT ![s] = {}]
           \/ pc[s] = "register" /\ pc' = [pc EXCEPT ![s] = "serving"] /\ UNCHANGED due,
           \/ UNCHANGED <<gameList, listAge>>
           \/ /\ gameList' = [w \in Gateways |-> IF w = s THEN {} ELSE gameList[w]]
              /\ listAge' = [w \in Gateways |-> IF w = s THEN 0 ELSE listAge[w]]
    PROVE  /\ \A r \in Services : due'[r] # {} => pc'[r] = "serving"
           /\ \A g \in Games : Runs(g)' => gone'[Address(g)'] = 0
           /\ BoundedStaleness'
<1>1. \A r \in Services : due'[r] # {} => pc'[r] = "serving"
  BY DEF StaleInv, TypeOK
<1>2. \A g \in Games : Runs(g)' => gone'[Address(g)'] = 0
  BY DEF StaleInv, Runs, Address, TypeOK, Services
<1>3. BoundedStaleness'
  BY DEF StaleInv, BoundedStaleness, PickGame
<1> QED BY <1>1, <1>2, <1>3

\* What the center answers to a process that runs keeps the entries of games fresh.
LEMMA StaleTable ==
    ASSUME TypeOK, StaleInv, NEW s \in Services, UNCHANGED gone,
           \/ UNCHANGED table
           \/ RegisterService(s) /\ Runs(s)
           \/ Heartbeat(s) /\ pc[s] = "serving"
           \/ Sweep
    PROVE  \A g \in Games : Listed(g)' /\ age'[g] <= Timeout => gone'[addrOf'[g]] <= age'[g]
<1> SUFFICES ASSUME NEW g \in Games, Listed(g)', age'[g] <= Timeout
             PROVE  gone'[addrOf'[g]] <= age'[g]
  OBVIOUS
<1>0. /\ g \in Services /\ g \in Found /\ age[g] \in 0..Timeout + 1 /\ Timeout \in Nat
      /\ Listed(g) /\ age[g] <= Timeout => gone[addrOf[g]] <= age[g]
      /\ Runs(g) => gone[Address(g)] = 0
      /\ pc[g] = "serving" /\ Listed(g) => addrOf[g] = Address(g)
  BY RegistryAssumption
     DEF RegistryAssumption, Services, Found, TypeOK, StaleInv, GamesListedWhereTheyRun
<1>1. CASE UNCHANGED table
  BY <1>0, <1>1 DEF table, Listed
<1>2. CASE RegisterService(s) /\ Runs(s)
  BY <1>0, <1>2 DEF RegisterService, Listed, TypeOK
<1>3. CASE Heartbeat(s) /\ pc[s] = "serving"
  BY <1>0, <1>3 DEF Heartbeat, Listed, Runs, TypeOK
<1>4. CASE Sweep
  BY <1>0, <1>4 DEF Sweep, Listed
<1> QED BY <1>1, <1>2, <1>3, <1>4

\* Every step keeps it.
LEMMA StaleStep ==
    ASSUME TypeOK, StaleInv, GamesListedWhereTheyRun', [Next]_vars
    PROVE  StaleInv'
<1>0. Timeout \in Nat /\ Horizon \in Nat /\ Nobody \notin Registered
  BY RegistryAssumption DEF RegistryAssumption
<1>1. ASSUME NEW s \in Services, Crash(s) PROVE StaleInv'
  BY <1>1, StaleQuiet, StaleTable DEF Crash, Forget, StaleInv
<1>2. ASSUME NEW s \in Services, TryRegister(s) PROVE StaleInv'
  <2>1. (RegisterService(s) /\ Runs(s)) \/ UNCHANGED table
    BY <1>2 DEF TryRegister, Runs
  <2>2. \/ UNCHANGED <<pc, due, at, gameList, listAge>>
        \/ pc' = [pc EXCEPT ![s] = "serving"] /\ UNCHANGED <<due, at, gameList, listAge>>
        \/ Forget(s)
    BY <1>2 DEF TryRegister, TryAgain, Serving, known
  <2> QED BY <1>2, <2>1, <2>2, StaleQuiet, StaleTable DEF TryRegister, Forget, StaleInv
<1>3. ASSUME NEW s \in Services, Beat(s) \/ Reregister(s) \/ (Refresh(s) /\ UNCHANGED <<known, listAge>>)
      PROVE  StaleInv'
  <2>1. pc[s] = "serving"
    BY <1>3 DEF Beat, Reregister, Refresh, StaleInv
  <2>2. (RegisterService(s) /\ Runs(s)) \/ Heartbeat(s) \/ Sweep \/ UNCHANGED table
    BY <1>3, <2>1 DEF Beat, Reregister, Refresh, Runs
  <2>3. \A r \in Services : due'[r] # {} => pc'[r] = "serving"
    BY <1>3, <2>1 DEF Beat, Reregister, Refresh, Done, StaleInv, TypeOK
  <2>4. UNCHANGED <<pc, at, gone, gameList, listAge>>
    BY <1>3 DEF Beat, Reregister, Refresh, known
  <2>5. \A g \in Games : Runs(g)' => gone'[Address(g)'] = 0
    BY <2>4 DEF Runs, Address, StaleInv
  <2>6. BoundedStaleness'
    BY <2>4 DEF StaleInv, BoundedStaleness, PickGame
  <2>7. \A g \in Games : Listed(g)' /\ age'[g] <= Timeout => gone'[addrOf'[g]] <= age'[g]
    BY <2>1, <2>2, <2>4, StaleTable
  <2> QED BY <2>3, <2>5, <2>6, <2>7 DEF StaleInv
<1>4. ASSUME NEW s \in Services, Refresh(s), Sweep, Adopt(s) PROVE StaleInv'
  <2>1. \A r \in Services : due'[r] # {} => pc'[r] = "serving"
    BY <1>4 DEF Refresh, Done, StaleInv, TypeOK
  <2>2. \A g \in Games : Runs(g)' => gone'[Address(g)'] = 0
    BY <1>4 DEF Refresh, Runs, Address, StaleInv
  <2>3. \A g \in Games : Listed(g)' /\ age'[g] <= Timeout => gone'[addrOf'[g]] <= age'[g]
    BY <1>4, StaleTable DEF Refresh
  <2>4. \A a \in {addrOf'[g] : g \in Games} \ {Nobody} : gone'[a] <= Timeout
    <3> SUFFICES ASSUME NEW g \in Games, addrOf'[g] # Nobody PROVE gone'[addrOf'[g]] <= Timeout
      OBVIOUS
    <3>1. /\ g \in Found /\ age[g] \in 0..Timeout + 1
          /\ age[g] <= Timeout /\ addrOf'[g] = addrOf[g] /\ gone' = gone
      BY <1>0, <1>4 DEF Found, Sweep, Refresh, TypeOK
    <3>2. gone[addrOf[g]] <= age[g] /\ addrOf[g] \in Registered
      BY <3>1 DEF StaleInv, Listed, TypeOK
    <3>3. gone[addrOf[g]] \in 0..Timeout + Horizon
      BY <3>2 DEF TypeOK
    <3> QED BY <1>0, <3>1, <3>2, <3>3
  <2>5. BoundedStaleness'
    <3> SUFFICES ASSUME NEW w \in Gateways, NEW a \in gameList'[w]
                 PROVE  gone'[a] <= Timeout + listAge'[w]
      BY DEF BoundedStaleness, PickGame
    <3>1. gone' = gone
      BY <1>4 DEF Refresh
    <3>2. CASE gameList'[w] = gameList[w] /\ listAge'[w] = listAge[w]
      BY <3>1, <3>2 DEF StaleInv, BoundedStaleness, PickGame
    <3>3. CASE gameList'[w] = {addrOf'[g] : g \in Games} \ {Nobody} /\ listAge'[w] = 0
      BY <1>0, <2>4, <3>3
    <3> QED BY <1>4, <3>2, <3>3 DEF Adopt
  <2> QED BY <2>1, <2>2, <2>3, <2>5 DEF StaleInv
<1>5. ASSUME NEW s \in Services, Start(s) PROVE StaleInv'
  <2>1. PICK a \in Places(s) :
          /\ at' = [at EXCEPT ![s] = a]
          /\ gone' = IF s \in Games THEN [gone EXCEPT ![Registers[a]] = 0] ELSE gone
    BY <1>5 DEF Start
  <2>a. Registers[a] \in Registered
    BY AddressOf DEF Places
  <2>2. \A b \in Registered : gone'[b] = gone[b] \/ gone'[b] = 0
    BY <2>1 DEF TypeOK
  <2>3. \A r \in Services : due'[r] # {} => pc'[r] = "serving"
    BY <1>5 DEF Start, Runs, StaleInv, TypeOK
  <2>4. \A g \in Games : Runs(g)' => gone'[Address(g)'] = 0
    <3> SUFFICES ASSUME NEW g \in Games, Runs(g)' PROVE gone'[Address(g)'] = 0
      OBVIOUS
    <3>0. g \in Services
      BY DEF Services
    <3>1. CASE g = s
      BY <1>5, <2>1, <2>a, <3>1 DEF Address, TypeOK
    <3>2. CASE g # s
      <4>1. Runs(g) /\ Address(g)' = Address(g) /\ Address(g) \in Registered
        BY <1>5, <2>1, <3>0, <3>2, AddressOf DEF Start, Runs, Address, TypeOK
      <4> QED BY <2>2, <4>1 DEF StaleInv
    <3> QED BY <3>1, <3>2
  <2>5. \A g \in Games : Listed(g)' /\ age'[g] <= Timeout => gone'[addrOf'[g]] <= age'[g]
    <3> SUFFICES ASSUME NEW g \in Games, Listed(g), age[g] <= Timeout
                 PROVE  gone'[addrOf[g]] <= age[g]
      BY <1>5 DEF Start, table, Listed
    <3>1. addrOf[g] \in Registered /\ age[g] \in 0..Timeout + 1 /\ gone[addrOf[g]] <= age[g]
      BY DEF Found, Listed, StaleInv, TypeOK
    <3> QED BY <1>0, <2>2, <3>1
  <2>6. BoundedStaleness'
    <3> SUFFICES ASSUME NEW w \in Gateways, NEW b \in gameList[w]
                 PROVE  gone'[b] <= Timeout + listAge[w]
      BY <1>5 DEF Start, known, BoundedStaleness, PickGame
    <3>1. b \in Registered /\ listAge[w] \in 0..Horizon /\ gone[b] <= Timeout + listAge[w]
      BY DEF StaleInv, BoundedStaleness, PickGame, TypeOK
    <3> QED BY <1>0, <2>2, <3>1
  <2> QED BY <2>3, <2>4, <2>5, <2>6 DEF StaleInv
<1>6. CASE Advance
  <2>1. \A r \in Services : due'[r] # {} => pc'[r] = "serving"
    BY <1>6 DEF Advance
  <2>2. \A b \in Registered : gone[b] \in 0..Timeout + Horizon /\ gone'[b] \in 0..Timeout + Horizon
                             /\ gone'[b] <= gone[b] + 1
    BY <1>0, <1>6 DEF Advance, Up, TypeOK
  <2>3. \A g \in Games : Runs(g)' => gone'[Address(g)'] = 0
    <3> SUFFICES ASSUME NEW g \in Games, Runs(g) PROVE gone'[Address(g)] = 0
      BY <1>6 DEF Advance, Runs, Address
    <3>1. Address(g) \in Registered
      BY AddressOf DEF Services
    <3> QED BY <1>6, <3>1 DEF Advance, RunsAt
  <2>4. \A g \in Games : Listed(g)' /\ age'[g] <= Timeout => gone'[addrOf'[g]] <= age'[g]
    <3> SUFFICES ASSUME NEW g \in Games, Listed(g), age'[g] <= Timeout
                 PROVE  gone'[addrOf[g]] <= age'[g]
      BY <1>6 DEF Advance, Listed
    <3>1. addrOf[g] \in Registered /\ age[g] \in 0..Timeout + 1 /\ g \in Found
      BY DEF Found, Listed, TypeOK
    <3>2. age'[g] = age[g] + 1 /\ age[g] <= Timeout
      BY <1>0, <1>6, <3>1 DEF Advance, Up
    <3>3. gone[addrOf[g]] <= age[g]
      BY <3>2 DEF StaleInv
    <3> QED BY <1>0, <2>2, <3>1, <3>2, <3>3
  <2>5. BoundedStaleness'
    <3> SUFFICES ASSUME NEW w \in Gateways, NEW b \in gameList[w]
                 PROVE  gone'[b] <= Timeout + listAge'[w]
      BY <1>6 DEF Advance, known, BoundedStaleness, PickGame
    <3>1. b \in Registered /\ listAge[w] \in 0..Horizon /\ gone[b] <= Timeout + listAge[w]
      BY DEF StaleInv, BoundedStaleness, PickGame, TypeOK
    <3>2. listAge'[w] = listAge[w] + 1 \/ listAge'[w] = Horizon
      BY <1>0, <1>6 DEF Advance, Up
    <3> QED BY <1>0, <2>2, <3>1, <3>2
  <2> QED BY <2>1, <2>3, <2>4, <2>5 DEF StaleInv
<1>7. CASE CenterCrash
  BY <1>7 DEF CenterCrash, self, known, StaleInv, Runs, Address, Listed, Found, BoundedStaleness,
              PickGame
<1>8. CASE CenterStart \/ UNCHANGED vars
  BY <1>8 DEF CenterStart, vars, table, self, known, ghosts, StaleInv, Runs, Address, Listed,
              BoundedStaleness, PickGame
<1>9. ASSUME NEW s \in Services, Refresh(s)
      PROVE  (Sweep /\ Adopt(s)) \/ UNCHANGED <<known, listAge>>
  BY <1>9 DEF Refresh
<1>10. ASSUME NEW c \in Callers, CallRank(c) PROVE StaleInv'
  BY <1>10 DEF CallRank, table, self, ghosts, StaleInv, Runs, Address, Listed, BoundedStaleness,
               PickGame, GamesListedWhereTheyRun
<1> QED BY <1>1, <1>2, <1>3, <1>4, <1>5, <1>6, <1>7, <1>8, <1>9, <1>10 DEF Next

\* What a gateway sends players to has not been dead for longer than the center takes to
\* notice plus the age of the gateway's list.
THEOREM StalenessBounded == Spec => []BoundedStaleness
<1>1. StaleInv => BoundedStaleness
  BY DEF StaleInv
<1> QED BY <1>1, StaleInit, StaleStep, ListedWhereTheyRun, TypeInit, TypeStep, PTL DEF Spec

=============================================================================
