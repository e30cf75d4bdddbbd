------------------------------ MODULE Reuseport ------------------------------
(***************************************************************************)
(* The server of server_reuseport.cc.  main() forks workers that share     *)
(* nothing: each listens on the same port with SO_REUSEPORT, and the       *)
(* kernel gives every new connection to one of the listening sockets, by a *)
(* hash that knows nothing of how busy the workers are.  A worker waits    *)
(* with epoll, accepts, and logs what the clients send; it never answers.  *)
(***************************************************************************)
EXTENDS Naturals, FiniteSets

CONSTANTS
  Workers,    \* the workers main() forks
  Clients,    \* client connections, each used once
  Room,       \* connections a worker has descriptors for
  BufLen,     \* bytes a read() takes at most (BUFSIZ)
  MaxUnread   \* bound: bytes a connection holds unread

ASSUME ReuseportAssumption ==
  /\ Workers # {}
  /\ IsFiniteSet(Clients)
  /\ Room \in Nat
  /\ BufLen \in Nat \ {0}
  /\ MaxUnread \in Nat

VARIABLES
  parent,   \* main() is "off", forks, waits for its children, or has ended
  phase,    \* phase[w]: w is not forked, sets up, serves, or has aborted
  events,   \* events[w]: the events of its batch that w has not handled yet
  link,     \* link[c]: state of the connection of c
  home,     \* home[c]: the worker whose listening socket c was given to
  unread,   \* unread[c]: bytes of c nobody has read
  shut,     \* shut[c]: c has ended its side of the connection, or reset it
  refused   \* history: connections that accept() took and dropped

workerVars == <<phase, events>>
clientVars == <<link, home, unread, shut, refused>>
reuseportVars == <<parent, phase, events, link, home, unread, shut, refused>>

\* The event of a listening socket; that of a connection is its Conn.
Listening == "listening"

ASSUME ListeningAssumption == Listening \notin Clients

ReuseportTypeOK ==
  /\ parent \in {"off", "fork", "wait", "ended"}
  /\ phase \in [Workers -> {"none", "setup", "serve", "aborted"}]
  /\ events \in [Workers -> SUBSET (Clients \cup {Listening})]
  /\ link \in [Clients -> {"none", "queued", "open", "closed"}]
  /\ home \in [Clients -> Workers]
  /\ unread \in [Clients -> 0 .. MaxUnread]
  /\ shut \in [Clients -> BOOLEAN]
  /\ refused \subseteq Clients

ReuseportInit ==
  /\ parent = "off"
  /\ phase = [w \in Workers |-> "none"]
  /\ events = [w \in Workers |-> {}]
  /\ link = [c \in Clients |-> "none"]
  /\ home = [c \in Clients |-> CHOOSE w \in Workers : TRUE]
  /\ unread = [c \in Clients |-> 0]
  /\ shut = [c \in Clients |-> FALSE]
  /\ refused = {}

At(w, state) == {c \in Clients : home[c] = w /\ link[c] = state}

Full(w) == Cardinality(At(w, "open")) >= Room
-----------------------------------------------------------------------------
(***************************************************************************)
(* The parent.                                                             *)
(***************************************************************************)
StartServer ==
  /\ parent = "off"
  /\ parent' = "fork"
  /\ UNCHANGED <<workerVars, clientVars>>

Fork(w) ==
  /\ parent = "fork" /\ phase[w] = "none"
  /\ phase' = [phase EXCEPT ![w] = "setup"]
  /\ UNCHANGED <<parent, events, clientVars>>

\* fork() fails: main() exits, and the workers there are go on.
ForkFails ==
  /\ parent = "fork" /\ \E w \in Workers : phase[w] = "none"
  /\ parent' = "ended"
  /\ UNCHANGED <<workerVars, clientVars>>

WaitChildren ==
  /\ parent = "fork" /\ \A w \in Workers : phase[w] # "none"
  /\ parent' = "wait"
  /\ UNCHANGED <<workerVars, clientVars>>

\* waitpid() has no child left.
MainReturns ==
  /\ parent = "wait" /\ \A w \in Workers : phase[w] = "aborted"
  /\ parent' = "ended"
  /\ UNCHANGED <<workerVars, clientVars>>
-----------------------------------------------------------------------------
(***************************************************************************)
(* A worker.                                                               *)
(***************************************************************************)
\* The log is opened, and the listening socket registered with epoll; or one
\* of the assertions on the way fails.
SetUp(w) ==
  /\ phase[w] = "setup"
  /\ \E outcome \in {"serve", "aborted"} :
       phase' = [phase EXCEPT ![w] = outcome]
  /\ UNCHANGED <<parent, events, clientVars>>

EpollWaitWorker(w) ==
  LET readable == {c \in At(w, "open") : unread[c] > 0 \/ shut[c]}
      backlog == IF At(w, "queued") = {} THEN {} ELSE {Listening}
  IN  /\ phase[w] = "serve" /\ events[w] = {}
      /\ readable \cup backlog # {}
      /\ events' = [events EXCEPT ![w] = readable \cup backlog]
      /\ UNCHANGED <<parent, phase, clientVars>>

Handle(w, e) ==
  /\ phase[w] = "serve" /\ e \in events[w]
  /\ events' = [events EXCEPT ![w] = @ \ {e}]

\* accept() takes one connection, which is registered with epoll; the others
\* make the next epoll_wait return.
AcceptOne(w) ==
  /\ Handle(w, Listening)
  /\ ~Full(w)
  /\ \E c \in At(w, "queued") : link' = [link EXCEPT ![c] = "open"]
  /\ UNCHANGED <<parent, phase, home, unread, shut, refused>>

\* client_addr_len is uninitialized and may read as a negative length: the
\* kernel drops the connection it has taken, and returns EINVAL.
AcceptDrops(w) ==
  /\ Handle(w, Listening)
  /\ ~Full(w)
  /\ \E c \in At(w, "queued") :
       /\ link' = [link EXCEPT ![c] = "closed"]
       /\ refused' = refused \cup {c}
  /\ UNCHANGED <<parent, phase, home, unread, shut>>

\* EMFILE: the connection stays in the backlog, and the loop goes on.
AcceptRefused(w) ==
  /\ Handle(w, Listening)
  /\ Full(w)
  /\ UNCHANGED <<parent, phase, clientVars>>

\* Mutant: the connection is closed, but the loop meets its event again.
ReadEndAgain(w, c) ==
  /\ phase[w] = "serve" /\ c \in events[w]
  /\ unread[c] = 0
  /\ link' = [link EXCEPT ![c] = "closed"]
  /\ UNCHANGED <<parent, phase, events, home, unread, shut, refused>>

\* Mutant: read() returning 0 is taken for EAGAIN.
ReadEndIgnored(w, c) ==
  /\ Handle(w, c)
  /\ unread[c] = 0
  /\ UNCHANGED <<parent, phase, clientVars>>

\* read() takes what BUFSIZ holds, and it is logged.
ReadBytes(w, c) ==
  /\ Handle(w, c)
  /\ unread[c] > 0
  /\ unread' = [unread EXCEPT ![c] = IF @ > BufLen THEN @ - BufLen ELSE 0]
  /\ UNCHANGED <<parent, phase, link, home, shut, refused>>

\* read() returns 0, or an error: the connection is closed, and its Conn freed.
ReadEnd(w, c) ==
  /\ Handle(w, c)
  /\ unread[c] = 0
  /\ link' = [link EXCEPT ![c] = "closed"]
  /\ UNCHANGED <<parent, phase, home, unread, shut, refused>>

WorkerStep(w) ==
  \/ SetUp(w) \/ EpollWaitWorker(w)
  \/ AcceptOne(w) \/ AcceptDrops(w) \/ AcceptRefused(w)
  \/ \E c \in Clients : ReadBytes(w, c) \/ ReadEnd(w, c)
-----------------------------------------------------------------------------
(***************************************************************************)
(* The clients.                                                            *)
(***************************************************************************)
\* The kernel picks one of the sockets that listen.
Connect(c) ==
  /\ link[c] = "none"
  /\ \E w \in Workers :
       /\ phase[w] = "serve"
       /\ home' = [home EXCEPT ![c] = w]
  /\ link' = [link EXCEPT ![c] = "queued"]
  /\ UNCHANGED <<parent, workerVars, unread, shut, refused>>

SendBytes(c) ==
  /\ link[c] \in {"queued", "open"} /\ ~shut[c]
  /\ \E n \in 1 .. MaxUnread - unread[c] :
       unread' = [unread EXCEPT ![c] = @ + n]
  /\ UNCHANGED <<parent, workerVars, link, home, shut, refused>>

\* A reset takes the unread bytes with it.
EndClient(c) ==
  /\ link[c] \in {"queued", "open"} /\ ~shut[c]
  /\ shut' = [shut EXCEPT ![c] = TRUE]
  /\ \/ UNCHANGED unread
     \/ unread' = [unread EXCEPT ![c] = 0]
  /\ UNCHANGED <<parent, workerVars, link, home, refused>>

ReuseportNext ==
  \/ StartServer \/ ForkFails \/ WaitChildren \/ MainReturns
  \/ \E w \in Workers : Fork(w) \/ WorkerStep(w)
  \/ \E c \in Clients : Connect(c) \/ SendBytes(c) \/ EndClient(c)

ReuseportSpec == ReuseportInit /\ [][ReuseportNext]_reuseportVars

\* The processes are scheduled; no client has to do anything.
ReuseportFairness == \A w \in Workers : WF_reuseportVars(WorkerStep(w))
-----------------------------------------------------------------------------
\* An event of a batch points to a Conn of that worker that has not been
\* freed: handling one event never frees the Conn of another.
ConnsAlive ==
  \A w \in Workers : events[w] \subseteq At(w, "open") \cup {Listening}

\* No client keeps another from being served: the workers never block, so what
\* an accepted connection holds does not stay unread, its end is seen, and a
\* connection waits in a backlog only while the worker it was given to has no
\* descriptor left (another worker that has one does not help), whatever the
\* other clients and the other workers do.
ClientsIndependent ==
  \A c \in Clients :
    /\ link[c] = "open" /\ unread[c] = MaxUnread ~> unread[c] < MaxUnread
    /\ link[c] = "open" /\ shut[c] ~> link[c] = "closed"
    /\ link[c] = "queued" ~> link[c] # "queued" \/ Full(home[c])
=============================================================================
