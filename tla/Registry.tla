------------------------------ MODULE Registry ------------------------------
(***************************************************************************)
(* Registration, heartbeats and discovery: the table of the center         *)
(* (internal/center/center.go), the loops by which game, gateway, api and  *)
(* rank keep themselves in it and look the others up in it, and what they  *)
(* remember of it (internal/rpc/cluster_client.go).                        *)
(*                                                                         *)
(* Every gRPC call is one step.  It fails when the center is down and,     *)
(* within MaxFaults, when it or its answer is lost.  Time goes in          *)
(* heartbeat periods of 5 s: in each one a process does the tasks its      *)
(* tickers are due for, and Advance waits for them.  Timeout is            *)
(* heartbeatTimeoutMs in periods.  The tries of a first registration,      *)
(* 500 ms apart, fit into a period.                                        *)
(*                                                                         *)
(* A process registers what its configuration says (listen_ip or host), so *)
(* Registers maps where it runs to that; nothing makes it an address by    *)
(* which others reach it, or one of that process alone.                    *)
(*                                                                         *)
(* Ages stop at Timeout + 1, which the code does not tell from more, and   *)
(* the ghosts of the properties at Horizon and Timeout + Horizon.          *)
(***************************************************************************)
EXTENDS Integers, FiniteSets, Sequences

CONSTANTS
    Games, Gateways, Apis, Ranks,   \* the processes that register, by kind
    Addresses,   \* where they may be started, <<process, place>>
    Registers,   \* what a process that runs there registers
    Nobody,      \* no address
    Callers,     \* whom a player, an operator or a battle makes call rank
    Timeout, MaxTries,
    MaxFaults,   \* bound on crashes, the center's included, and lost calls
    Horizon      \* bound of the ages in the properties

Services  == Games \cup Gateways \cup Apis \cup Ranks
Consumers == Games \cup Gateways \cup Apis   \* SetRankAddr
Registered == {Registers[a] : a \in Addresses}
Found == Games \cup Ranks   \* those somebody looks for; other entries are left out
Tasks == {"beat", "register", "refresh"}

ASSUME RegistryAssumption ==
    /\ Timeout \in Nat /\ MaxTries \in Nat \ {0} /\ MaxFaults \in Nat /\ Horizon \in Nat
    /\ Games \cap (Gateways \cup Apis \cup Ranks) = {} /\ Ranks \cap (Gateways \cup Apis) = {}
    /\ Nobody \notin Registered /\ Callers \subseteq Consumers
    /\ Addresses \subseteq Services \X Nat /\ \A s \in Services : \E a \in Addresses : a[1] = s

VARIABLES
    centerUp,
    addrOf, age,   \* Center.services: the address of a name, or Nobody, and the age of lastHB
    pc, tries,     \* where a process is, and the i of its registration loop
    at,            \* where it runs, or has run last
    due,           \* what its tickers still want of it in this period
    odd,           \* parity of the period, for the 10 s ticker of rank
    gameList, rankAddr,   \* what a ClusterClient remembers of the table
    rankClient,    \* the address of its client of rank, or Nobody
    faults,
    \* for the properties
    lapse,         \* since a game was last known, or Timeout + 1: it was forgotten
    gone,          \* for how long no game has run that registers an address
    listAge        \* for how long a gateway has had its gameList

table  == <<addrOf, age>>
self   == <<pc, tries, at, due>>
known  == <<gameList, rankAddr, rankClient>>
ghosts == <<lapse, gone, listAge>>
vars == <<centerUp, table, self, odd, known, faults, ghosts>>

\* The addresses of one process.
Places(s) == {a \in Addresses : a[1] = s}
Listed(f) == addrOf[f] # Nobody
Runs(s)   == pc[s] # "down"
Address(s) == Registers[at[s]]
RunsAt(i) == \E g \in Games : Runs(g) /\ Address(g) = i
\* A counter that stops at its bound.
Up(n, bound) == IF n < bound THEN n + 1 ELSE bound

Init ==
    /\ centerUp \in BOOLEAN
    /\ addrOf = [f \in Found |-> Nobody] /\ age = [f \in Found |-> 0]
    /\ pc = [s \in Services |-> "down"] /\ tries = [s \in Services |-> 0]
    /\ at = [s \in Services |-> CHOOSE a \in Places(s) : TRUE]
    /\ due = [s \in Services |-> {}] /\ odd = FALSE
    /\ gameList = [w \in Gateways |-> {}] /\ rankAddr = [c \in Consumers |-> Nobody]
    /\ rankClient = [c \in Consumers |-> Nobody]
    /\ faults = 0
    /\ lapse = [g \in Games |-> Timeout + 1]
    /\ gone = [i \in Registered |-> Timeout + Horizon]
    /\ listAge = [w \in Gateways |-> 0]

Fault == faults < MaxFaults /\ faults' = faults + 1

-----------------------------------------------------------------------------
\* The center.

\* Center.RegisterService: a new entry, or the old one with a new address.
RegisterService(s) ==
    /\ addrOf' = [f \in Found |-> IF f = s THEN Address(s) ELSE addrOf[f]]
    /\ age' = [f \in Found |-> IF f = s THEN 0 ELSE age[f]]
    /\ lapse' = [g \in Games |-> IF g = s THEN 0 ELSE lapse[g]]

\* Mutant: the heartbeat is answered and does not count.
HeartbeatIgnored(s) ==
    /\ lapse' = [g \in Games |-> IF g = s /\ lapse[g] <= Timeout THEN 0 ELSE lapse[g]]
    /\ UNCHANGED table

\* Center.Heartbeat: of a service that is not in the table it says nothing.
Heartbeat(s) ==
    /\ age' = [f \in Found |-> IF f = s /\ Listed(f) THEN 0 ELSE age[f]]
    /\ lapse' = [g \in Games |-> IF g = s /\ lapse[g] <= Timeout THEN 0 ELSE lapse[g]]
    /\ UNCHANGED addrOf

\* Mutant: an entry stays until it is replaced.
SweepNothing == UNCHANGED table

\* Center.GetServiceList takes off the services whose heartbeat is too old.
Sweep ==
    /\ addrOf' = [f \in Found |-> IF age[f] > Timeout THEN Nobody ELSE addrOf[f]]
    /\ age' = [f \in Found |-> IF age[f] > Timeout THEN 0 ELSE age[f]]

\* A call to the center succeeds, or fails and changes nothing there.
Answered == centerUp /\ UNCHANGED faults
Failed   == (~centerUp /\ UNCHANGED faults) \/ (centerUp /\ Fault)
\* ... or succeeds, and the answer is lost.
Unheard  == centerUp /\ Fault

CenterCrash ==
    /\ centerUp /\ Fault /\ centerUp' = FALSE
    /\ addrOf' = [f \in Found |-> Nobody] /\ age' = [f \in Found |-> 0]
    /\ lapse' = [g \in Games |-> Timeout + 1]
    /\ UNCHANGED <<self, odd, known, gone, listAge>>

\* NewCenter: an empty table.
CenterStart == ~centerUp /\ centerUp' = TRUE /\ UNCHANGED <<table, self, odd, known, faults, ghosts>>

-----------------------------------------------------------------------------
\* A process comes and goes.  None of them takes itself off when it is told to stop.
Start(s) ==
    /\ ~Runs(s)
    /\ \E a \in Places(s) :
         /\ at' = [at EXCEPT ![s] = a]
         /\ gone' = IF s \in Games THEN [gone EXCEPT ![Registers[a]] = 0] ELSE gone
    /\ pc' = [pc EXCEPT ![s] = "register"] /\ tries' = [tries EXCEPT ![s] = 0]
    /\ UNCHANGED <<centerUp, table, due, odd, known, faults, lapse, listAge>>

\* The process is gone, and what it knew with it.
Forget(s) ==
    /\ pc' = [pc EXCEPT ![s] = "down"] /\ tries' = [tries EXCEPT ![s] = 0]
    /\ due' = [due EXCEPT ![s] = {}]
    /\ gameList' = [w \in Gateways |-> IF w = s THEN {} ELSE gameList[w]]
    /\ listAge' = [w \in Gateways |-> IF w = s THEN 0 ELSE listAge[w]]
    /\ rankAddr' = [c \in Consumers |-> IF c = s THEN Nobody ELSE rankAddr[c]]
    /\ rankClient' = [c \in Consumers |-> IF c = s THEN Nobody ELSE rankClient[c]]
    /\ UNCHANGED at

Crash(s) ==
    /\ Runs(s) /\ Fault /\ Forget(s)
    /\ UNCHANGED <<centerUp, table, odd, lapse, gone>>

\* The tries of the registration loop; rank registers once, outside its loop.
Attempts(s) == IF s \in Ranks THEN 1 ELSE MaxTries

\* Mutant: whoever could not register serves all the same.
AnybodyServes(s) == TRUE

\* After the last try a game gives up for good; the others only log it.
ServesUnregistered(s) == s \notin Games

Serving(s) ==
    /\ pc' = [pc EXCEPT ![s] = "serving"] /\ tries' = [tries EXCEPT ![s] = 0]
    /\ UNCHANGED <<at, due, known, listAge>>

\* A try that failed is followed by the next, and the last by what the process does without.
TryAgain(s) ==
    IF tries[s] + 1 < Attempts(s)
      THEN /\ tries' = [tries EXCEPT ![s] = @ + 1]
           /\ UNCHANGED <<pc, at, due, known, listAge>>
      ELSE IF ServesUnregistered(s) THEN Serving(s) ELSE Forget(s)

TryRegister(s) ==
    /\ pc[s] = "register"
    /\ \/ Answered /\ RegisterService(s) /\ Serving(s)
       \/ Failed /\ UNCHANGED <<table, lapse>> /\ TryAgain(s)
       \/ Unheard /\ RegisterService(s) /\ TryAgain(s)
    /\ UNCHANGED <<centerUp, odd, gone>>

-----------------------------------------------------------------------------
\* Mutant: rank has no second ticker.
OneTicker(s) == {"beat"} \cup (IF s \in Gateways THEN {"refresh"} ELSE {})

\* The tickers' work.  game and api look around in the loop that beats, the gateway in one of
\* its own, rank not at all; rank's second ticker registers it anew, come what may.
TasksOf(s) ==
    {"beat"} \cup (IF s \in Gateways THEN {"refresh"} ELSE {})
             \cup (IF s \in Ranks /\ odd THEN {"register"} ELSE {})

Done(s, task, more) == due' = [due EXCEPT ![s] = (@ \ {task}) \cup more]

LooksAround(s) == IF s \in Games \cup Apis THEN {"refresh"} ELSE {}

\* A heartbeat that fails asks for one registration, except of rank.
Beat(s) ==
    /\ "beat" \in due[s]
    /\ \/ Answered /\ Heartbeat(s) /\ Done(s, "beat", LooksAround(s))
       \/ /\ (Failed /\ UNCHANGED <<table, lapse>>) \/ (Unheard /\ Heartbeat(s))
          /\ Done(s, "beat", IF s \in Ranks THEN {} ELSE {"register"})
    /\ UNCHANGED <<centerUp, pc, tries, at, odd, known, gone, listAge>>

Reregister(s) ==
    /\ "register" \in due[s]
    /\ ((Answered \/ Unheard) /\ RegisterService(s)) \/ (Failed /\ UNCHANGED <<table, lapse>>)
    /\ Done(s, "register", LooksAround(s))
    /\ UNCHANGED <<centerUp, pc, tries, at, odd, known, gone, listAge>>

\* Mutant: a gateway keeps the instances it once had.
AdoptMore(c) ==
    LET games == {addrOf'[g] : g \in Games} \ {Nobody}
    IN  /\ gameList' = [w \in Gateways |-> IF w = c THEN gameList[w] \cup games ELSE gameList[w]]
        /\ UNCHANGED <<listAge, rankAddr, rankClient>>

\* refreshPeers: the games of a gateway only if there is one, rank's address if there is one,
\* of several whichever the map's order puts last.
Adopt(c) ==
    LET games == {addrOf'[g] : g \in Games} \ {Nobody}
        ranks == {addrOf'[r] : r \in Ranks} \ {Nobody}
    IN  /\ gameList' = [w \in Gateways |-> IF w = c /\ games # {} THEN games ELSE gameList[w]]
        /\ listAge'  = [w \in Gateways |-> IF w = c /\ games # {} THEN 0 ELSE listAge[w]]
        /\ UNCHANGED rankClient
        /\ IF ranks = {} THEN UNCHANGED rankAddr
           ELSE \E a \in ranks : rankAddr' = [rankAddr EXCEPT ![c] = a]

\* PickGame: one after the other, wherever its counter is.
PickGame(w) == gameList[w]

Refresh(c) ==
    /\ "refresh" \in due[c]
    /\ \/ Answered /\ Sweep /\ Adopt(c)
       \/ Failed /\ UNCHANGED <<table, known, listAge>>
       \/ Unheard /\ Sweep /\ UNCHANGED <<known, listAge>>
    /\ Done(c, "refresh", {})
    /\ UNCHANGED <<centerUp, pc, tries, at, odd, lapse, gone>>

\* rank() of a ClusterClient: the first call makes the client, of the address known then, and
\* every later call uses it, whatever SetRankAddr has put in since.
CallRank(c) ==
    /\ pc[c] = "serving" /\ rankAddr[c] # Nobody /\ rankClient[c] = Nobody
    /\ rankClient' = [rankClient EXCEPT ![c] = rankAddr[c]]
    /\ UNCHANGED <<centerUp, table, self, odd, gameList, rankAddr, faults, ghosts>>

\* Where a call to rank goes.
RankCalledAt(c) == IF rankClient[c] = Nobody THEN rankAddr[c] ELSE rankClient[c]

\* A period ends when every process has done its tasks.
Advance ==
    /\ \A s \in Services : pc[s] # "register" /\ due[s] = {}
    /\ due' = [s \in Services |-> IF pc[s] = "serving" THEN TasksOf(s) ELSE {}]
    /\ odd' = ~odd
    /\ age'   = [f \in Found |-> IF Listed(f) THEN Up(age[f], Timeout + 1) ELSE 0]
    /\ lapse' = [g \in Games |-> Up(lapse[g], Timeout + 1)]
    /\ gone'  = [i \in Registered |-> IF RunsAt(i) THEN 0 ELSE Up(gone[i], Timeout + Horizon)]
    /\ listAge' = [w \in Gateways |-> Up(listAge[w], Horizon)]
    /\ UNCHANGED <<centerUp, addrOf, pc, tries, at, known, faults>>

Next ==
    \/ CenterCrash \/ CenterStart \/ Advance
    \/ \E s \in Services : Start(s) \/ Crash(s) \/ TryRegister(s)
                           \/ Beat(s) \/ Reregister(s) \/ Refresh(s)
    \/ \E c \in Callers : CallRank(c)

\* The loops run, and time goes on; nobody has to start a process or the center.
Fairness ==
    /\ WF_vars(Advance)
    /\ \A s \in Services : WF_vars(TryRegister(s)) /\ WF_vars(Beat(s))
                           /\ WF_vars(Reregister(s)) /\ WF_vars(Refresh(s))

Spec == Init /\ [][Next]_vars /\ Fairness

-----------------------------------------------------------------------------
TypeOK ==
    /\ centerUp \in BOOLEAN /\ odd \in BOOLEAN /\ faults \in 0..MaxFaults
    /\ addrOf \in [Found -> Registered \cup {Nobody}] /\ age \in [Found -> 0..Timeout + 1]
    /\ pc \in [Services -> {"down", "register", "serving"}]
    /\ tries \in [Services -> 0..MaxTries - 1]
    /\ at \in [Services -> Addresses] /\ due \in [Services -> SUBSET Tasks]
    /\ gameList \in [Gateways -> SUBSET Registered]
    /\ rankAddr \in [Consumers -> Registered \cup {Nobody}]
    /\ rankClient \in [Consumers -> Registered \cup {Nobody}]
    /\ lapse \in [Games -> 0..Timeout + 1] /\ gone \in [Registered -> 0..Timeout + Horizon]
    /\ listAge \in [Gateways -> 0..Horizon]

\* A game that serves and is listed is listed with the address of where it runs, though the
\* heartbeat names none: a restarted game that could not register must not keep the old entry
\* alive.
GamesListedWhereTheyRun ==
    \A g \in Games : pc[g] = "serving" /\ Listed(g) => addrOf[g] = Address(g)

\* Since it registered, a game that reached this center once in every Timeout periods is in
\* the table, whoever swept it in between.
ServingGameListed == \A g \in Games : pc[g] = "serving" /\ lapse[g] <= Timeout => Listed(g)

\* At an address a gateway sends players to some game has run no longer ago than the center takes
\* to notice plus the age of the gateway's list, whatever crashed, moved or was lost in between.
BoundedStaleness ==
    \A w \in Gateways : \A i \in PickGame(w) : gone[i] <= Timeout + listAge[w]

\* Where no game runs any more, a gateway that runs on does not look for one, once some game
\* stays in the table: refreshPeers keeps the old list when none is left.
DeadGameForgotten ==
    \A w \in Gateways, i \in Registered :
      <>[](/\ centerUp /\ pc[w] = "serving" /\ ~RunsAt(i)
           /\ \E g \in Games : pc[g] = "serving" /\ lapse[g] <= Timeout)
        => <>[](i \notin PickGame(w))

\* Rank comes back into every process's sight after any outage of it or of the center, and a
\* process's calls reach it where it runs now, unless the process has called it anywhere else
\* before: rank registers every 10 s whether its heartbeats are answered or not, but a client
\* once made is never made anew.
RankFound ==
    \A c \in Consumers, r \in Ranks :
      <>[](/\ centerUp /\ pc[c] = "serving" /\ pc[r] = "serving" /\ Ranks = {r}
           /\ rankClient[c] \in {Nobody, Address(r)})
        => <>[](RankCalledAt(c) = Address(r))

\* A game that serves while the center is up gets back into the center's table:
\* '中心服心跳失败，尝试重新注册', 'the heartbeat failed, trying to register again'.
GameComesBack ==
    \A g \in Games : <>[](centerUp /\ pc[g] = "serving") => <>[]Listed(g)
=============================================================================
