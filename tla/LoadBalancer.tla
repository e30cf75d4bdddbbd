---------------------------- MODULE LoadBalancer ----------------------------
(***************************************************************************)
(* The distributor, its inner servers and its clients together.            *)
(***************************************************************************)
EXTENDS AlgorithmDistributor, InnerServer, Clients, FiniteSets

(***************************************************************************)
(* A history variable, read by no action: the figures getStat() of server  *)
(* s would have returned at some moment between the question the poller    *)
(* last asked s and the answer of s.                                       *)
(***************************************************************************)
VARIABLE shown

vars == <<kernelVars, distVars, innerVars, sent, shown>>

Asks(s) == s = mi /\ mpc = "ask" /\ mpc' = "read"

Observe ==
  shown' = [s \in Servers |->
              IF Asks(s) THEN {stat[s]}
              ELSE IF monReq[s] THEN shown[s] \cup {stat'[s]}
              ELSE shown[s]]

Init ==
  /\ KernelInit
  /\ DistributorInit
  /\ InnerInit
  /\ ClientsInit
  /\ shown = [s \in Servers |-> {}]

\* A step of one process leaves the state inside the others alone.
OfDistributor(A) == A /\ UNCHANGED <<innerVars, sent>> /\ Observe
OfInner(A) == A /\ UNCHANGED <<distVars, sent>> /\ Observe

Distributor == OfDistributor(DispatchNext \/ PollNext)
Inner == OfInner(InnerNext)
Environment == ClientsNext /\ UNCHANGED <<distVars, innerVars, shown>>

AllExited == ~distUp /\ \A s \in Servers : ~innerUp[s]

\* Every process has exited: the one state in which the system may stop.
Stopped == AllExited /\ UNCHANGED vars

Next == Distributor \/ Inner \/ Environment \/ Stopped

(***************************************************************************)
(* Each thread of a running process is scheduled again and again.  Nothing *)
(* is assumed of clients, of crashes, or of Procmon's figures.             *)
(***************************************************************************)
DispatchFairness == WF_vars(OfDistributor(DispatchNext))
PollFairness == WF_vars(OfDistributor(PollNext))
WorkerFairness(s) == WF_vars(OfInner(WorkerNext(s)))
MonFairness(s) == WF_vars(OfInner(MonServerNext(s)))

Spec == Init /\ [][Next]_vars

\* Only the threads that carry requests are sure to run: the poller's
\* sleep(2) may last as long as it likes.
DataSpec ==
  /\ Spec
  /\ DispatchFairness
  /\ \A s \in Servers : WorkerFairness(s)

FairSpec ==
  /\ DataSpec
  /\ PollFairness
  /\ \A s \in Servers : MonFairness(s)
-----------------------------------------------------------------------------
TypeOK ==
  /\ KernelTypeOK
  /\ DistributorTypeOK
  /\ InnerTypeOK
  /\ ClientsTypeOK
  /\ shown \in [Servers -> SUBSET Usage]

\* The descriptors of accepted clients and the listening socket are exactly
\* what epoll watches, and no two open connections share a descriptor: what
\* EpollCtl_Add and CloseConnect keep true across accepts and closes.
InterestMatchesTable ==
  /\ interest = {ListenFd} \cup {fdOf[c] : c \in Open}
  /\ \A c, e \in Open : fdOf[c] = fdOf[e] => c = e

\* The branch of threadFunc that reads an echo and relays correct_res is for
\* events on a descriptor of serverFd_set.  No such event is ever taken, as
\* init_inner_mon registers no descriptor with epoll: the branch is dead.
RelayUnreachable == batch \cap serverFd_set = {}

\* An event not yet handled still has something to read, accept or close: the
\* handlers before it in the batch neither close its descriptor, nor empty it,
\* nor let a new connection take its number.  So read() never fails with
\* EAGAIN, which the code would answer with err_res.
EventsFresh ==
  \A fd \in batch :
    \/ fd = ListenFd /\ Queued # {}
    \/ \E c \in Open : fdOf[c] = fd /\ (avail[c] > 0 \/ eof[c])

\* Outside the accept loop the distributor always has a descriptor to spare:
\* accepting the connection that takes the last one ends the process.
SpareDescriptor == opc \in {"accept_first", "accept"} \/ FreeFds # {}

\* The requests on their way to server s, at it, or on their way back.
InHand(s) == IF wpc[s] = "reply" THEN 1 ELSE 0
AtServer(s) == Len(workq[s]) + InHand(s) + Len(replyq[s])

\* Every request ever written to a running server is still between the two
\* processes, because no echo is ever read.  So the two connections and the
\* worker's hands bound what a server does in its whole life.
LifetimeBound ==
  \A s \in Servers :
    /\ distUp /\ innerUp[s] => forwarded[s] = AtServer(s)
    /\ forwarded[s] <= WorkCap + 1 + ReplyCap

\* The places in the queues q[s], and the hands h[s], that hold a request of
\* connection c, and how many messages in the system carry one.
CarriedBy(q, c) ==
  UNION {{<<s, i>> : i \in {j \in DOMAIN q[s] : q[s][j].conn = c}} :
           s \in Servers}
HeldBy(h, c) == {s \in Servers : h[s].conn = c}
InFlight(c) ==
  Cardinality(CarriedBy(workq, c)) + Cardinality(CarriedBy(replyq, c))
    + Cardinality(HeldBy(whand, c)) + (IF mess.conn = c THEN 1 ELSE 0)

\* No request is duplicated, and while every server runs none is lost: each
\* request taken from a client and not answered is in exactly one message.
NothingLostOrDoubled ==
  \A c \in Conns :
    /\ owed[c] >= InFlight(c)
    /\ distUp /\ (\A s \in Servers : innerUp[s]) => owed[c] = InFlight(c)

\* The requests server s was given and that are not lost, the oldest first.
Pipe(s) ==
  replyq[s] \o (IF wpc[s] = "reply" THEN <<whand[s]>> ELSE <<>>) \o workq[s]

R == INSTANCE Relay WITH
       Requests <- {m \in Message : m.conn \in Conns},
       Nothing <- NoMessage,
       held <- mess,
       pipe <- [s \in Servers |-> Pipe(s)]

\* Through dispatcher, connections and worker the requests of a server, told
\* apart by client and number, keep their order, and none is lost or doubled
\* but by the end of a process.
ImplementsRelay == R!Spec

\* While the client that sent a request stays connected, the .fd its message
\* carries through dispatcher, server and back is the client's descriptor.
TagsRoutable ==
  \A s \in Servers :
    LET messages == {mess, whand[s]}
                      \cup {workq[s][i] : i \in DOMAIN workq[s]}
                      \cup {replyq[s][i] : i \in DOMAIN replyq[s]}
    IN  \A m \in messages :
          m.conn \in Conns /\ cst[m.conn] = "open" => m.fd = fdOf[m.conn]

\* get_curSelectedServer_fd draws under the mutex, but its result is used
\* after the unlock.  Between two calls of set_distribution at most one
\* request goes to a server the distribution in force gives no weight.
AtMostOneLate == late <= 1

\* The samples of all servers advance together: within a round, servers the
\* poller has passed have one sample more than those it has not, and when d is
\* rebuilt or the files are written every server has the same number.
HistoryAligned ==
  \A s \in Servers :
    hist[s] = hist[SERVERS_NUM - 1]
                + (IF mpc \in {"ask", "read"} /\ s < mi THEN 1 ELSE 0)

\* The poller asks one server at a time: one question or answer at most is on
\* all the mon connections, and only while the poller is in read().
OneQuestion ==
  \A s \in Servers :
    monReq[s] \/ monRep[s] # <<>> =>
      /\ s = mi /\ mpc = "read"
      /\ Len(monRep[s]) = IF monReq[s] THEN 0 ELSE 1

\* What the poller may read as the answer of server s.
Figures(s) == INSTANCE Snapshot WITH
                Later <- Usage \X Usages,
                AtFirst <- NoUsage,
                Nothing <- <<>>,
                ticked <- ticked[s],
                stat <- stat[s],
                answer <- IF monRep[s] = <<>> THEN <<>> ELSE Head(monRep[s])

\* The promise of Snapshot, which Procmon keeps figure by figure, is all the
\* poller sees of a server: one answer to one question, and in it one tick.
ImplementsSnapshot == \A s \in Servers : Figures(s)!Spec

\* The poller has read a weight of s that d was not built from yet.
Pending(s) == mpc = "publish" \/ (mpc \in {"ask", "read"} /\ s < mi)

\* Every weight is made of figures its own server showed between the question
\* the poller last asked it and its answer, none older and none of another
\* server; before the first answer it is the even one.  And the distribution in
\* force is that of one whole round, the last one.
WeightsFresh ==
  \A s \in Servers :
    /\ \/ hist[s] = 0 /\ p[s] = EvenWeight(SERVERS_NUM)
       \/ s = mi /\ mpc = "read"
       \/ \E u \in shown[s] : p[s] = Weight(u)
    /\ Pending(s) \/ d[s] = p[s]

\* The dispatcher writes to a server whose queue is full and whose worker is
\* itself writing to a full queue.
Wedged ==
  /\ distUp /\ opc = "write" /\ innerUp[target]
  /\ Len(workq[target]) = WorkCap
  /\ wpc[target] = "reply" /\ Len(replyq[target]) = ReplyCap

\* Two blocking writes face each other: nothing but the end of one of the two
\* processes frees the dispatcher once it is wedged.
WedgeIsFinal ==
  [][Wedged => Wedged' \/ ~distUp' \/ ~innerUp'[target]]_vars

\* While the distributor runs, its dispatcher eventually takes what a client
\* has sent, or is wedged: no client is starved by the others, whatever the
\* poller does.
RequestsTaken ==
  \A c \in Conns :
    cst[c] = "open" /\ avail[c] > 0 ~> avail[c] = 0 \/ Wedged \/ ~distUp

\* The poller ends every run, wedged or not: it reaches HistoryLimit or finds
\* a server gone; and the end of the distributor ends all the servers.
EverythingExits == <>AllExited

\* What test_bench.c expects: it writes a request, shuts its side down and
\* reads the answer, so the answer must come before the distributor closes.
AnsweredBeforeClose ==
  \A c \in Conns : cst[c] = "closed" => owed[c] = 0
=============================================================================
