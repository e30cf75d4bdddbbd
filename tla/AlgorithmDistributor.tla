------------------------- MODULE AlgorithmDistributor -----------------------
(***************************************************************************)
(* The distributor process (algorithm_distributor.cc) from the moment      *)
(* init_inner_mon has returned.  Two threads share d, under a mutex:       *)
(*   - the dispatcher (threadFunc) waits with epoll for clients, reads     *)
(*     their requests and writes each to the server that d draws;          *)
(*   - the poller (mainThreadFunc) asks every server for its usage figures *)
(*     in turn, then rebuilds d, and ends the process after HistoryLimit   *)
(*     rounds.                                                             *)
(***************************************************************************)
EXTENDS Kernel

CONSTANTS
  FdLimit,      \* descriptors are numbered below this limit
  HistoryLimit  \* rounds of polling before the files are written (100)

ASSUME DistributorAssumption ==
  /\ FdLimit \in Nat
  /\ HistoryLimit \in Nat \ {0}
  /\ FdLimit > 6 + 2 * SERVERS_NUM

(***************************************************************************)
(* Descriptors.  0, 1, 2 are the standard ones and 3 is listenFd_inner.    *)
(* init_inner_mon then takes two per server, and threadFunc one for the    *)
(* listening socket of the clients and one for epoll.                      *)
(***************************************************************************)
WorkFd(s) == 4 + 2 * s
ListenFd == 4 + 2 * SERVERS_NUM
ClientFds == 6 + 2 * SERVERS_NUM .. FdLimit - 1
serverFd_set == {WorkFd(s) : s \in Servers}

VARIABLES
  fdOf,      \* fdOf[c]: the descriptor of an open connection, else 0
  interest,  \* the descriptors registered with epoll
  batch,     \* the events epoll_wait returned that are not handled yet
  opc,       \* where the dispatcher is
  mess,      \* the message the dispatcher is writing
  target,    \* the server it is writing it to (CurSelectedServer_fd)
  d,         \* the weights the distribution in force was built from
  mpc,       \* where the poller is
  mi,        \* the server the poller is at
  p,         \* the weights of the round under way
  hist,      \* hist[s]: cpu_usage[s].size(), samples of s taken so far
  \* History variables, read by no guard:
  taken,     \* taken[c]: requests taken from c
  owed,      \* owed[c]: requests taken from c minus answers written to c
  forwarded, \* forwarded[s]: requests written to s while it ran
  late       \* requests written since d changed to a server d forbids

tableVars == <<fdOf, interest>>
messVars == <<mess, target>>
pollVars == <<mpc, mi, p, hist>>
ghostVars == <<taken, owed, forwarded, late>>
dispatchVars == <<fdOf, interest, batch, opc, mess, target>>
distVars == <<fdOf, interest, batch, opc, mess, target, d,
              mpc, mi, p, hist, taken, owed, forwarded, late>>

DistributorTypeOK ==
  /\ fdOf \in [Conns -> Nat]
  /\ interest \subseteq Nat
  /\ batch \subseteq Nat
  /\ opc \in {"wait", "batch", "accept_first", "accept", "write"}
  /\ mess \in Message
  /\ target \in Servers
  /\ d \in [Servers -> Nat]
  /\ mpc \in {"sleep", "ask", "read", "publish", "check"}
  /\ mi \in Servers
  /\ p \in [Servers -> Nat]
  /\ hist \in [Servers -> Nat]
  /\ taken \in [Conns -> Nat]
  /\ owed \in [Conns -> Int]
  /\ forwarded \in [Servers -> Nat]
  /\ late \in Nat

\* Mutant: the work connections are registered with epoll as well.
RegisteredForRelay == {ListenFd} \cup serverFd_set

\* What threadFunc registers with epoll before its loop.
RegisteredAtStart == {ListenFd}

(***************************************************************************)
(* init_inner_mon and the first set_distribution have run, and threadFunc  *)
(* is about to wait for its first events.                                  *)
(***************************************************************************)
DistributorInit ==
  /\ fdOf = [c \in Conns |-> 0]
  /\ interest = RegisteredAtStart
  /\ batch = {}
  /\ opc = "wait"
  /\ mess = NoMessage
  /\ target = 0
  /\ d = [s \in Servers |-> EvenWeight(SERVERS_NUM)]
  /\ mpc = "sleep"
  /\ mi = 0
  /\ p = [s \in Servers |-> EvenWeight(SERVERS_NUM)]
  /\ hist = [s \in Servers |-> 0]
  /\ taken = [c \in Conns |-> 0]
  /\ owed = [c \in Conns |-> 0]
  /\ forwarded = [s \in Servers |-> 0]
  /\ late = 0
-----------------------------------------------------------------------------
(***************************************************************************)
(* The dispatcher.                                                         *)
(***************************************************************************)
Open == {c \in Conns : cst[c] = "open"}
Queued == {c \in Conns : cst[c] = "queued"}

FreeFds == ClientFds \ {fdOf[c] : c \in Open}

\* Level-triggered EPOLLIN: there is something to accept, to read, or an end.
Readable(fd) ==
  \/ fd = ListenFd /\ Queued # {}
  \/ \E c \in Open : fdOf[c] = fd /\ (avail[c] > 0 \/ eof[c])
  \/ \E s \in Servers : WorkFd(s) = fd /\ (replyq[s] # <<>> \/ ~innerUp[s])

Ready == {fd \in interest : Readable(fd)}

\* Where the loop over the returned events goes when those in rest are left.
NextEvent(rest) == IF rest = {} THEN "wait" ELSE "batch"

\* exit(1): nothing of the process acts again.
ExitDistributor ==
  /\ distUp' = FALSE
  /\ UNCHANGED <<innerUp, workVars, monVars, connVars, distVars>>

EpollWait ==
  /\ distUp /\ opc = "wait"
  /\ Ready # {}
  /\ batch' = Ready
  /\ opc' = "batch"
  /\ UNCHANGED <<kernelVars, tableVars, messVars, d, pollVars, ghostVars>>

HandleListen ==
  /\ distUp /\ opc = "batch"
  /\ ListenFd \in batch
  /\ batch' = batch \ {ListenFd}
  /\ opc' = "accept_first"
  /\ UNCHANGED <<kernelVars, tableVars, messVars, d, pollVars, ghostVars>>

\* Mutant: EpollCtl_Add is forgotten.
RegisterNothing(fd) == UNCHANGED interest

\* EpollCtl_Add
Register(fd) == interest' = interest \cup {fd}

\* accept() takes a queued connection, gives it the lowest free descriptor,
\* and the descriptor is registered with epoll.
Accept(c) ==
  /\ distUp /\ opc \in {"accept_first", "accept"}
  /\ c \in Queued
  /\ \E fd \in FreeFds :
       /\ \A other \in FreeFds : fd <= other
       /\ fdOf' = [fdOf EXCEPT ![c] = fd]
       /\ Register(fd)
  /\ cst' = [cst EXCEPT ![c] = "open"]
  /\ opc' = "accept"
  /\ UNCHANGED <<distUp, innerUp, workVars, monVars, avail, eof,
                 batch, messVars, d, pollVars, ghostVars>>

\* Mutant: EMFILE ends the loop as EAGAIN does.
AcceptDoneOnAnyError ==
  /\ distUp /\ opc \in {"accept_first", "accept"}
  /\ Queued = {} \/ FreeFds = {}
  /\ opc' = NextEvent(batch)
  /\ UNCHANGED <<kernelVars, tableVars, batch, messVars, d, pollVars,
                 ghostVars>>

\* EAGAIN: the backlog is empty, and the loop ends.  accept() reserves the
\* descriptor first, so it gets here only when a descriptor is free.
AcceptDone ==
  /\ distUp /\ opc \in {"accept_first", "accept"}
  /\ Queued = {}
  /\ FreeFds # {}
  /\ opc' = NextEvent(batch)
  /\ UNCHANGED <<kernelVars, tableVars, batch, messVars, d, pollVars,
                 ghostVars>>

\* Any other error is fatal.  EMFILE: no descriptor is free.  EINVAL: the
\* uninitialized client_addr_len of the first accept() of an event reads as
\* a negative length; after a first success it holds a good one.
AcceptFails ==
  /\ distUp /\ opc \in {"accept_first", "accept"}
  /\ \/ FreeFds = {}
     \/ opc = "accept_first" /\ Queued # {}
  /\ ExitDistributor

\* Mutant: the index of the event loop is not advanced.
TakeEventAgain(c) ==
  /\ distUp /\ opc = "batch"
  /\ c \in Open
  /\ fdOf[c] \in batch \ serverFd_set
  /\ batch' = batch

\* The dispatcher takes the event of an open client connection.
TakeEvent(c) ==
  /\ distUp /\ opc = "batch"
  /\ c \in Open
  /\ fdOf[c] \in batch \ serverFd_set
  /\ batch' = batch \ {fdOf[c]}

\* A request of c becomes the message mess with the given .fd, and is about to
\* be written to one of the given servers.
TakeRequest(c, fd, servers) ==
  /\ TakeEvent(c)
  /\ avail' = [avail EXCEPT ![c] = @ - normalLen]
  /\ taken' = [taken EXCEPT ![c] = @ + 1]
  /\ mess' = [fd |-> fd, conn |-> c, seq |-> taken'[c]]
  /\ target' \in servers
  /\ opc' = "write"
  /\ owed' = [owed EXCEPT ![c] = @ + 1]
  /\ UNCHANGED <<distUp, innerUp, workVars, monVars, cst, eof,
                 tableVars, d, pollVars, forwarded, late>>

\* Mutants: mess.fd keeps the value it was initialized with; the server is
\* drawn evenly for ever.
HandleUntagged(c) == avail[c] >= normalLen /\ TakeRequest(c, 0, Drawable(d))
HandleEvenly(c) == avail[c] >= normalLen /\ TakeRequest(c, fdOf[c], Servers)

\* read() returns a whole request: get_curSelectedServer_fd draws a server.
HandleRequest(c) ==
  avail[c] >= normalLen /\ TakeRequest(c, fdOf[c], Drawable(d))

\* read() returns fewer bytes than a request: they are dropped, and the
\* client is sent err_res at once.
HandleFragment(c) ==
  /\ TakeEvent(c)
  /\ avail[c] \in 1 .. normalLen - 1
  /\ avail' = [avail EXCEPT ![c] = 0]
  /\ opc' = NextEvent(batch')
  /\ UNCHANGED <<distUp, innerUp, workVars, monVars, cst, eof,
                 tableVars, messVars, d, pollVars, ghostVars>>

\* read() returns 0 or a reset: CloseConnect.
HandleClose(c) ==
  /\ TakeEvent(c)
  /\ avail[c] = 0 /\ eof[c]
  /\ interest' = interest \ {fdOf[c]}
  /\ fdOf' = [fdOf EXCEPT ![c] = 0]
  /\ cst' = [cst EXCEPT ![c] = "closed"]
  /\ opc' = NextEvent(batch')
  /\ UNCHANGED <<distUp, innerUp, workVars, monVars, avail, eof,
                 messVars, d, pollVars, ghostVars>>

EndWrite ==
  /\ mess' = NoMessage
  /\ target' = 0
  /\ opc' = NextEvent(batch)

\* d gives s no weight although it gives another server some.
Forbidden(s) == s \notin Drawable(d)

\* Mutant: the connection does not block, and a request that finds it full is
\* forgotten.
WriteNoWait ==
  /\ distUp /\ opc = "write"
  /\ innerUp[target]
  /\ workq' = IF Len(workq[target]) < WorkCap
              THEN [workq EXCEPT ![target] = Append(@, mess)]
              ELSE workq
  /\ forwarded' = [forwarded EXCEPT ![target] = @ + 1]
  /\ late' = IF Forbidden(target) THEN late + 1 ELSE late
  /\ EndWrite
  /\ UNCHANGED <<distUp, innerUp, replyq, monVars, connVars,
                 tableVars, batch, d, pollVars, taken, owed>>

\* write() to a running server returns messLen once there is room; until
\* then the dispatcher blocks.
WriteToServer ==
  /\ distUp /\ opc = "write"
  /\ innerUp[target]
  /\ Len(workq[target]) < WorkCap
  /\ workq' = [workq EXCEPT ![target] = Append(@, mess)]
  /\ forwarded' = [forwarded EXCEPT ![target] = @ + 1]
  /\ late' = IF Forbidden(target) THEN late + 1 ELSE late
  /\ EndWrite
  /\ UNCHANGED <<distUp, innerUp, replyq, monVars, connVars,
                 tableVars, batch, d, pollVars, taken, owed>>

\* write() to a server that has exited: accepted by the kernel and lost, or
\* an error, on which the client is sent err_res.
WriteToDead ==
  /\ distUp /\ opc = "write"
  /\ ~innerUp[target]
  /\ \/ UNCHANGED owed
     \/ owed' = [owed EXCEPT ![mess.conn] = @ - 1]
  /\ EndWrite
  /\ UNCHANGED <<kernelVars, tableVars, batch, d, pollVars, taken, forwarded,
                 late>>

DispatchNext ==
  \/ EpollWait
  \/ HandleListen
  \/ \E c \in Conns : Accept(c)
  \/ AcceptDone
  \/ AcceptFails
  \/ \E c \in Conns :
       HandleRequest(c) \/ HandleFragment(c) \/ HandleClose(c)
  \/ WriteToServer
  \/ WriteToDead
-----------------------------------------------------------------------------
(***************************************************************************)
(* The poller.                                                             *)
(***************************************************************************)
\* Mutant: the loop over the servers goes on where it stopped.
StartRoundAnywhere ==
  /\ distUp /\ mpc = "sleep"
  /\ mpc' = "ask"
  /\ UNCHANGED <<kernelVars, dispatchVars, d, mi, p, hist, ghostVars>>

StartRound ==
  /\ distUp /\ mpc = "sleep"
  /\ mi' = 0
  /\ mpc' = "ask"
  /\ UNCHANGED <<kernelVars, dispatchVars, d, p, hist, ghostVars>>

\* Mutant: all the servers are asked before the first answer is read.
MonWriteAll ==
  /\ distUp /\ mpc = "ask"
  /\ monReq' = [s \in Servers |-> innerUp[s] \/ monReq[s]]
  /\ mpc' = "read"
  /\ UNCHANGED <<distUp, innerUp, workVars, monRep, connVars,
                 dispatchVars, d, mi, p, hist, ghostVars>>

\* write(mon_fd, "G", 1), whose result is ignored.
MonWrite ==
  /\ distUp /\ mpc = "ask"
  /\ monReq' = IF innerUp[mi] THEN [monReq EXCEPT ![mi] = TRUE] ELSE monReq
  /\ mpc' = "read"
  /\ UNCHANGED <<distUp, innerUp, workVars, monRep, connVars,
                 dispatchVars, d, mi, p, hist, ghostVars>>

\* The next server of the round, or the end of the round.
Advance ==
  IF mi = SERVERS_NUM - 1
  THEN mpc' = "publish" /\ UNCHANGED mi
  ELSE mpc' = "ask" /\ mi' = mi + 1

\* Mutant: the weight is stored one place too far.
MonReadShifted ==
  /\ distUp /\ mpc = "read"
  /\ monRep[mi] # <<>>
  /\ monRep' = [monRep EXCEPT ![mi] = Tail(@)]
  /\ p' = [p EXCEPT ![(mi + 1) % SERVERS_NUM] = Weight(Head(monRep[mi]))]
  /\ hist' = [hist EXCEPT ![mi] = @ + 1]
  /\ Advance
  /\ UNCHANGED <<distUp, innerUp, workVars, monReq, connVars,
                 dispatchVars, d, ghostVars>>

\* read(mon_fd, rec, 24) returns the figures of server mi.
MonRead ==
  /\ distUp /\ mpc = "read"
  /\ monRep[mi] # <<>>
  /\ monRep' = [monRep EXCEPT ![mi] = Tail(@)]
  /\ p' = [p EXCEPT ![mi] = Weight(Head(monRep[mi]))]
  /\ hist' = [hist EXCEPT ![mi] = @ + 1]
  /\ Advance
  /\ UNCHANGED <<distUp, innerUp, workVars, monReq, connVars,
                 dispatchVars, d, ghostVars>>

\* Mutant: a server that is gone is skipped.
MonReadSkips ==
  /\ distUp /\ mpc = "read"
  /\ monRep[mi] = <<>> /\ ~innerUp[mi]
  /\ Advance
  /\ UNCHANGED <<kernelVars, dispatchVars, d, p, hist, ghostVars>>

\* The server is gone and has left no answer: exit(1).
MonReadFails ==
  /\ distUp /\ mpc = "read"
  /\ monRep[mi] = <<>> /\ ~innerUp[mi]
  /\ ExitDistributor

\* set_distribution(), under the mutex.
SetDistribution ==
  /\ distUp /\ mpc = "publish"
  /\ d' = p
  /\ late' = 0
  /\ mpc' = "check"
  /\ UNCHANGED <<kernelVars, dispatchVars, mi, p, hist, taken, owed, forwarded>>

NextRound ==
  /\ distUp /\ mpc = "check"
  /\ hist[0] < HistoryLimit
  /\ mpc' = "sleep"
  /\ UNCHANGED <<kernelVars, dispatchVars, d, mi, p, hist, ghostVars>>

\* The samples are written to files, and the process exits.
DumpAndExit ==
  /\ distUp /\ mpc = "check"
  /\ hist[0] >= HistoryLimit
  /\ ExitDistributor

PollNext ==
  \/ StartRound
  \/ MonWrite
  \/ MonRead
  \/ MonReadFails
  \/ SetDistribution
  \/ NextRound
  \/ DumpAndExit
=============================================================================
