------------------------------ MODULE Startup -------------------------------
(***************************************************************************)
(* How the distributor and the inner servers find each other.              *)
(*                                                                         *)
(* The distributor (init_inner_mon) listens on port 9528, and for each of  *)
(* SERVERS_NUM slots accepts a connection and connects back to port 9529   *)
(* of the host it came from.  Each server has two threads: the worker      *)
(* connects to port 9528 while the main thread begins to listen on 9529    *)
(* and accepts one connection.  Nothing orders the two threads.            *)
(*                                                                         *)
(* The distributor knows a server by its address alone.  As the code is,   *)
(* all servers have the same (DISTRIBUTOR_IP is 127.0.0.1), and only one   *)
(* process of a host can listen on 9529; with the distributor's address    *)
(* put there they may be spread over hosts.  Any spread is considered.     *)
(***************************************************************************)
EXTENDS Naturals, Sequences, FiniteSets

CONSTANTS
  SERVERS_NUM,  \* slots of servers_inner
  Instances,    \* server processes that are ever started
  hostOf,       \* hostOf[s]: the host s runs on
  NoHost,       \* an address nobody listens at
  NoInstance    \* no server process

ASSUME StartupAssumption ==
  /\ SERVERS_NUM \in Nat \ {0}
  /\ DOMAIN hostOf = Instances
  /\ \A s \in Instances : hostOf[s] # NoHost
  /\ NoInstance \notin Instances

VARIABLES
  dpc,            \* where the distributor is
  waiting,        \* connections in the backlog of port 9528
  cur,            \* the server whose connection was accepted last
  addr,           \* client_addr_inner: the address it is said to have
  servers_inner,  \* the slots filled so far: <<work server, mon server>>
  proc,           \* proc[s]: the process of s
  wpc,            \* wpc[s]: where the worker of s is
  mpc,            \* mpc[s]: where the main thread of s is
  monq            \* monq[s]: connections in the backlog of port 9529 of s

distributorVars == <<dpc, cur, addr, servers_inner>>
serverVars == <<proc, wpc, mpc>>
vars == <<dpc, waiting, cur, addr, servers_inner, proc, wpc, mpc, monq>>

TypeOK ==
  /\ dpc \in {"start", "accept", "connect", "running", "exited"}
  /\ waiting \subseteq Instances
  /\ cur \in Instances \cup {NoInstance}
  /\ dpc = "connect" => cur \in Instances
  /\ addr \in {hostOf[s] : s \in Instances} \cup {NoHost}
  /\ servers_inner \in Seq(Instances \X Instances)
  /\ proc \in [Instances -> {"off", "up", "exited", "aborted"}]
  /\ wpc \in [Instances -> {"connect", "read"}]
  /\ mpc \in [Instances -> {"listen", "accept", "serve"}]
  /\ monq \in [Instances -> Nat]

Init ==
  /\ dpc = "start"
  /\ waiting = {}
  /\ cur = NoInstance
  /\ addr = NoHost
  /\ servers_inner = <<>>
  /\ proc = [s \in Instances |-> "off"]
  /\ wpc = [s \in Instances |-> "connect"]
  /\ mpc = [s \in Instances |-> "listen"]
  /\ monq = [s \in Instances |-> 0]
-----------------------------------------------------------------------------
(***************************************************************************)
(* The distributor.                                                        *)
(***************************************************************************)
\* exit(1)
ExitDistributor ==
  /\ dpc' = "exited"
  /\ UNCHANGED <<waiting, cur, addr, servers_inner, serverVars, monq>>

\* GetListenFd(INNER_PORT, SERVERS_NUM)
Listen ==
  /\ dpc = "start"
  /\ dpc' = "accept"
  /\ UNCHANGED <<waiting, cur, addr, servers_inner, serverVars, monq>>

\* Mutant: the address is kept from the first connection.
AcceptKeepsAddress(s) ==
  /\ dpc = "accept"
  /\ s \in waiting
  /\ waiting' = waiting \ {s}
  /\ cur' = s
  /\ addr' = IF addr = NoHost THEN hostOf[s] ELSE addr
  /\ dpc' = "connect"
  /\ UNCHANGED <<servers_inner, serverVars, monq>>

\* accept() returns the connection of s, whether or not s still runs.  Each turn
\* of the loop declares client_addr_inner and its length anew, and initializes
\* neither: when the length reads as less than the size of an address, the
\* address is not stored, and what was on the stack is taken for it.  (If that
\* is still the address of the turn before, then so is the length, which
\* accept() has set to the size of an address: the address is stored.)
Accept(s) ==
  /\ dpc = "accept"
  /\ s \in waiting
  /\ waiting' = waiting \ {s}
  /\ cur' = s
  /\ addr' \in {hostOf[s], NoHost}
  /\ dpc' = "connect"
  /\ UNCHANGED <<servers_inner, serverVars, monq>>

\* The uninitialized length reads as a negative number: EINVAL.
AcceptFails ==
  /\ dpc = "accept"
  /\ waiting # {}
  /\ ExitDistributor

\* The processes that listen on port 9529 of host h.
Listening(h) ==
  {s \in Instances : proc[s] = "up" /\ mpc[s] # "listen" /\ hostOf[s] = h}

\* A backlog of 1 holds two connections.
HasRoom(s) == monq[s] <= 1

\* Mutant: the loop runs once more.
ConnectMonTwice ==
  /\ dpc = "connect"
  /\ \E t \in Listening(addr) :
       /\ HasRoom(t)
       /\ monq' = [monq EXCEPT ![t] = @ + 1]
       /\ servers_inner' = Append(servers_inner, <<cur, t>>)
  /\ dpc' = IF Len(servers_inner) = SERVERS_NUM THEN "running" ELSE "accept"
  /\ UNCHANGED <<waiting, cur, addr, serverVars>>

\* Mutant: the connect() is repeated, but the first one was in the backlog.
ConnectMonRetried ==
  /\ dpc = "connect"
  /\ \E t \in Listening(addr) :
       /\ HasRoom(t)
       /\ monq' = [monq EXCEPT ![t] = @ + 2]
       /\ servers_inner' = Append(servers_inner, <<cur, t>>)
  /\ dpc' = IF Len(servers_inner') = SERVERS_NUM THEN "running" ELSE "accept"
  /\ UNCHANGED <<waiting, cur, addr, serverVars>>

\* socket_connect_mon succeeds, and the next slot is filled.
ConnectMon ==
  /\ dpc = "connect"
  /\ \E t \in Listening(addr) :
       /\ HasRoom(t)
       /\ monq' = [monq EXCEPT ![t] = @ + 1]
       /\ servers_inner' = Append(servers_inner, <<cur, t>>)
  /\ dpc' = IF Len(servers_inner') = SERVERS_NUM THEN "running" ELSE "accept"
  /\ UNCHANGED <<waiting, cur, addr, serverVars>>

\* The connection is refused, or times out as the backlog is full.
ConnectMonFails ==
  /\ dpc = "connect"
  /\ \A t \in Listening(addr) : ~HasRoom(t)
  /\ ExitDistributor

Distributor ==
  \/ Listen
  \/ \E s \in Instances : Accept(s)
  \/ AcceptFails
  \/ ConnectMon
  \/ ConnectMonFails
-----------------------------------------------------------------------------
(***************************************************************************)
(* The servers.                                                            *)
(***************************************************************************)
\* The process of s ends, and its connections to port 9529 with it.  Its own
\* connection to port 9528 stays in the backlog.
End(s, how) ==
  /\ proc' = [proc EXCEPT ![s] = how]
  /\ monq' = [monq EXCEPT ![s] = 0]
  /\ UNCHANGED <<distributorVars, waiting, wpc, mpc>>

Start(s) ==
  /\ proc[s] = "off"
  /\ proc' = [proc EXCEPT ![s] = "up"]
  /\ UNCHANGED <<distributorVars, waiting, wpc, mpc, monq>>

\* Port 9528 takes connections; its backlog holds SERVERS_NUM + 1.
Reachable ==
  /\ dpc \notin {"start", "exited"}
  /\ Cardinality(waiting) <= SERVERS_NUM

\* The worker's connect(), after which it is in read().
ConnectWork(s) ==
  /\ proc[s] = "up" /\ wpc[s] = "connect"
  /\ Reachable
  /\ waiting' = waiting \cup {s}
  /\ wpc' = [wpc EXCEPT ![s] = "read"]
  /\ UNCHANGED <<distributorVars, proc, mpc, monq>>

ConnectWorkFails(s) ==
  /\ proc[s] = "up" /\ wpc[s] = "connect"
  /\ ~Reachable
  /\ End(s, "exited")

\* Mutant: the end of the connection is taken for an empty read.
WorkEofIgnored(s) ==
  /\ proc[s] = "up" /\ wpc[s] = "read"
  /\ dpc = "exited"
  /\ UNCHANGED vars

\* The worker's read() ends: "distributor closed".
WorkEof(s) ==
  /\ proc[s] = "up" /\ wpc[s] = "read"
  /\ dpc = "exited"
  /\ End(s, "exited")

\* GetListenFd(MON_PORT, 1)
ListenMon(s) ==
  /\ proc[s] = "up" /\ mpc[s] = "listen"
  /\ Listening(hostOf[s]) = {}
  /\ mpc' = [mpc EXCEPT ![s] = "accept"]
  /\ UNCHANGED <<distributorVars, waiting, proc, wpc, monq>>

\* One of the assertions of GetListenFd fails, because the port is taken (by
\* another server of the host, among others) or the system has no socket left:
\* abort().
BindFails(s) ==
  /\ proc[s] = "up" /\ mpc[s] = "listen"
  /\ End(s, "aborted")

\* The one accept() of the main thread.
AcceptMon(s) ==
  /\ proc[s] = "up" /\ mpc[s] = "accept"
  /\ monq[s] > 0
  /\ monq' = [monq EXCEPT ![s] = @ - 1]
  /\ mpc' = [mpc EXCEPT ![s] = "serve"]
  /\ UNCHANGED <<distributorVars, waiting, proc, wpc>>

\* distributor_addr_len is uninitialized as well.
AcceptMonFails(s) ==
  /\ proc[s] = "up" /\ mpc[s] = "accept"
  /\ monq[s] > 0
  /\ End(s, "exited")

MonEof(s) ==
  /\ proc[s] = "up" /\ mpc[s] = "serve"
  /\ dpc = "exited"
  /\ End(s, "exited")

Crash(s) ==
  /\ proc[s] = "up"
  /\ End(s, "exited")

Worker(s) == ConnectWork(s) \/ ConnectWorkFails(s) \/ WorkEof(s)

Main(s) ==
  ListenMon(s) \/ BindFails(s) \/ AcceptMon(s) \/ AcceptMonFails(s) \/ MonEof(s)

Next ==
  \/ Distributor
  \/ \E s \in Instances : Worker(s) \/ Main(s) \/ Start(s) \/ Crash(s)

Spec == Init /\ [][Next]_vars

\* Threads of running processes are scheduled; nobody has to start a server.
FairSpec ==
  /\ Spec
  /\ WF_vars(Distributor)
  /\ \A s \in Instances : WF_vars(Worker(s)) /\ WF_vars(Main(s))
-----------------------------------------------------------------------------
\* The slots with a mon connection to t.
MonSlots(t) == {i \in DOMAIN servers_inner : servers_inner[i][2] = t}

\* A slot is about one host, and about a server no other slot is about: its work
\* connection is the one connection of a server, its mon connection leads to a
\* server on the host of that server.  This is the server itself if it has a
\* host of its own; if not, it may be another one, as the server may have died
\* or failed to bind with its work connection in the backlog.
PairsMatch ==
  /\ \A i \in DOMAIN servers_inner :
       hostOf[servers_inner[i][1]] = hostOf[servers_inner[i][2]]
  /\ \A i, j \in DOMAIN servers_inner :
       servers_inner[i][1] = servers_inner[j][1] => i = j

\* Of the mon connections to a running server just one is accepted, or will be.
\* If only one slot leads to it, the question the poller will send there finds a
\* thread that reads it; if several do (which the servers of one host can bring
\* about), all other connections stay in the backlog, and the poller that asks
\* over one of them waits for ever.
MonIsAccepted ==
  \A t \in Instances :
    LET slots == Cardinality(MonSlots(t))
    IN  proc[t] = "up" /\ slots > 0 =>
          \/ mpc[t] = "accept" /\ monq[t] = slots
          \/ mpc[t] = "serve" /\ monq[t] = slots - 1

\* Startup fills the slots the way Pairing says.
Phase ==
  CASE dpc = "running" -> "ready"
    [] dpc = "exited" -> "failed"
    [] OTHER -> "pairing"

P == INSTANCE Pairing WITH phase <- Phase

ImplementsPairing == P!Spec

\* The distributor does not wait for ever once enough servers have connected,
\* even if some of them are gone by then.
Settles ==
  Cardinality({s \in Instances : wpc[s] = "read"}) >= SERVERS_NUM
    ~> dpc \in {"running", "exited"}

\* No server survives a startup that failed, whatever it was waiting for.
FailureSpreads == dpc = "exited" ~> \A s \in Instances : proc[s] # "up"
=============================================================================
