------------------------- MODULE LoadBalancerProofs -------------------------
(***************************************************************************)
(* Theorems about LoadBalancer for any number of servers, clients and      *)
(* descriptors, any capacity of the connections and any usage figures.     *)
(***************************************************************************)
EXTENDS LoadBalancer, TLAPS

USE KernelAssumption, DistributorAssumption, InnerAssumption,
    ClientsAssumption

(***************************************************************************)
(* Weights and draws.                                                      *)
(***************************************************************************)

\* A server has weight zero exactly when one of its figures reaches the limit:
\* the formula of mainThreadFunc gives every other server at least 5.0.
LEMMA WeightBounds ==
  ASSUME NEW u \in Usage
  PROVE  /\ Weight(u) \in Nat
         /\ Overloaded(u) <=> Weight(u) = 0
         /\ ~Overloaded(u) => Weight(u) > 50
  BY DEF Usage, Weight, Overloaded, Limit

\* Whatever the weights, the draw returns the index of a server.
LEMMA DrawableServers ==
  ASSUME NEW w \in [Servers -> Nat]
  PROVE  Drawable(w) \subseteq Servers /\ Drawable(w) # {}
<1>1. DOMAIN w = Servers
  OBVIOUS
<1>2. 0 \in Servers
  BY DEF Servers
<1>3. CASE AllZero(w)
  BY <1>1, <1>2, <1>3 DEF Drawable
<1>4. CASE ~AllZero(w)
  <2>1. PICK s \in Servers : w[s] # 0
    BY <1>1, <1>4 DEF AllZero
  <2>2. Drawable(w) = {i \in Servers : w[i] > 0}
    BY <1>1, <1>4 DEF Drawable
  <2> QED
    BY <2>1, <2>2
<1> QED
  BY <1>3, <1>4

\* The initial weights are numbers.
LEMMA EvenWeightType == EvenWeight(SERVERS_NUM) \in Nat
  BY DEF EvenWeight

\* Descriptors are numbers, and those of the servers, of the listening socket
\* and of clients never coincide.
LEMMA Descriptors ==
  /\ \A s \in Servers : WorkFd(s) \in Nat
  /\ serverFd_set \subseteq Nat
  /\ ListenFd \in Nat
  /\ ClientFds \subseteq Nat
  /\ ListenFd \notin ClientFds
  /\ ListenFd \notin serverFd_set
  /\ serverFd_set \cap ClientFds = {}
  BY DEF WorkFd, serverFd_set, ListenFd, ClientFds, Servers

-----------------------------------------------------------------------------
(***************************************************************************)
(* Type correctness.                                                       *)
(***************************************************************************)
ProcessTypes ==
  KernelTypeOK /\ DistributorTypeOK /\ InnerTypeOK /\ ClientsTypeOK

LEMMA TypeInit == Init => TypeOK
<1> SUFFICES ASSUME Init PROVE TypeOK
  OBVIOUS
<1>1. 0 \in Servers
  BY DEF Servers
<1>2. KernelTypeOK
  BY DEF Init, KernelInit, KernelTypeOK, ConnState
<1>3. DistributorTypeOK
  BY <1>1, EvenWeightType, Descriptors
     DEF Init, DistributorInit, DistributorTypeOK, RegisteredAtStart,
         NoMessage, Message
<1>4. InnerTypeOK
  BY DEF Init, InnerInit, InnerTypeOK, NoUsage, Usage, NoMessage, Message
<1>5. ClientsTypeOK
  BY DEF Init, ClientsInit, ClientsTypeOK
<1> QED
  BY <1>2, <1>3, <1>4, <1>5 DEF TypeOK, Init

\* Every step of the dispatcher keeps the types.
LEMMA TypeDispatch ==
  ProcessTypes /\ DispatchNext /\ UNCHANGED <<innerVars, sent>> => ProcessTypes'
<1> SUFFICES ASSUME ProcessTypes, DispatchNext, UNCHANGED <<innerVars, sent>>
             PROVE  ProcessTypes'
  OBVIOUS
<1> USE Descriptors DEF ProcessTypes, KernelTypeOK, DistributorTypeOK, InnerTypeOK,
        ClientsTypeOK, innerVars, kernelVars, workVars, monVars, connVars,
        tableVars, messVars, pollVars, ghostVars
<1>1. CASE EpollWait
  BY <1>1 DEF EpollWait, Ready
<1>2. CASE HandleListen
  BY <1>2 DEF HandleListen
<1>3. ASSUME NEW c \in Conns, Accept(c)
      PROVE  ProcessTypes'
  BY <1>3 DEF Accept, FreeFds, Register, ConnState
<1>4. CASE AcceptDone
  BY <1>4 DEF AcceptDone, NextEvent
<1>5. CASE AcceptFails
  BY <1>5 DEF AcceptFails, ExitDistributor, distVars
<1>6. ASSUME NEW c \in Conns, HandleRequest(c)
      PROVE  ProcessTypes'
  <2>1. avail[c] - normalLen \in Nat
    <3> HIDE DEF DistributorTypeOK, InnerTypeOK, ClientsTypeOK
    <3> QED
      BY <1>6 DEF HandleRequest
  <2>2. avail' \in [Conns -> Nat]
    BY <1>6, <2>1 DEF HandleRequest, TakeRequest
  <2>7. taken' \in [Conns -> Nat]
    <3> HIDE DEF KernelTypeOK, InnerTypeOK, ClientsTypeOK
    <3> QED
      BY <1>6 DEF HandleRequest, TakeRequest
  <2>3. mess' \in Message
    BY <1>6, <2>7 DEF HandleRequest, TakeRequest, Message
  <2>4. target' \in Servers
    BY <1>6, DrawableServers DEF HandleRequest, TakeRequest
  <2>5. batch' \subseteq Nat
    BY <1>6 DEF HandleRequest, TakeRequest, TakeEvent
  <2>6. owed' \in [Conns -> Int]
    <3> HIDE DEF KernelTypeOK, InnerTypeOK, ClientsTypeOK
    <3> QED
      BY <1>6 DEF HandleRequest, TakeRequest
  <2> QED
    BY <1>6, <2>2, <2>3, <2>4, <2>5, <2>6, <2>7 DEF HandleRequest, TakeRequest
<1>7. ASSUME NEW c \in Conns, HandleFragment(c)
      PROVE  ProcessTypes'
  BY <1>7 DEF HandleFragment, TakeEvent, NextEvent
<1>8. ASSUME NEW c \in Conns, HandleClose(c)
      PROVE  ProcessTypes'
  BY <1>8 DEF HandleClose, TakeEvent, NextEvent, ConnState
<1>9. CASE WriteToServer
  <2>1. Append(workq[target], mess) \in Seq(Message)
    OBVIOUS
  <2>2. workq' \in [Servers -> Seq(Message)]
    BY <1>9, <2>1 DEF WriteToServer
  <2>3. forwarded' \in [Servers -> Nat] /\ late' \in Nat
    <3> HIDE DEF KernelTypeOK, InnerTypeOK, ClientsTypeOK
    <3> QED
      BY <1>9 DEF WriteToServer
  <2>4. mess' \in Message /\ target' \in Servers
    BY <1>9 DEF WriteToServer, EndWrite, NoMessage, Message, Servers
  <2> QED
    BY <1>9, <2>2, <2>3, <2>4 DEF WriteToServer, EndWrite, NextEvent
<1>10. CASE WriteToDead
  <2>1. owed' \in [Conns -> Int]
    <3> HIDE DEF KernelTypeOK, InnerTypeOK, ClientsTypeOK
    <3> QED
      BY <1>10 DEF WriteToDead
  <2>2. mess' \in Message /\ target' \in Servers
    BY <1>10 DEF WriteToDead, EndWrite, NoMessage, Message, Servers
  <2> QED
    BY <1>10, <2>1, <2>2 DEF WriteToDead, EndWrite, NextEvent
<1> QED
  BY <1>1, <1>2, <1>3, <1>4, <1>5, <1>6, <1>7, <1>8, <1>9, <1>10
     DEF DispatchNext

\* Every step of the poller keeps the types.
LEMMA TypePoll ==
  ProcessTypes /\ PollNext /\ UNCHANGED <<innerVars, sent>> => ProcessTypes'
<1> SUFFICES ASSUME ProcessTypes, PollNext, UNCHANGED <<innerVars, sent>>
             PROVE  ProcessTypes'
  OBVIOUS
<1> USE DEF ProcessTypes, KernelTypeOK, DistributorTypeOK, InnerTypeOK,
        ClientsTypeOK, innerVars, kernelVars, workVars, monVars, connVars,
        dispatchVars, ghostVars
<1>1. CASE StartRound
  <2>1. mi' \in Servers
    BY <1>1 DEF StartRound, Servers
  <2> QED
    BY <1>1, <2>1 DEF StartRound
<1>2. CASE MonWrite
  BY <1>2 DEF MonWrite
<1>3. CASE MonRead
  <2>1. Head(monRep[mi]) \in Usage /\ Tail(monRep[mi]) \in Seq(Usage)
    BY <1>3 DEF MonRead
  <2>2. Weight(Head(monRep[mi])) \in Nat
    BY <2>1, WeightBounds
  <2>3. mi' \in Servers /\ mpc' \in {"ask", "publish"}
    <3>1. Advance
      BY <1>3 DEF MonRead
    <3>2. mi \in 0 .. SERVERS_NUM - 1
      BY DEF Servers
    <3> HIDE DEF KernelTypeOK, DistributorTypeOK, InnerTypeOK, ClientsTypeOK
    <3> QED
      BY <3>1, <3>2 DEF Advance, Servers
  <2>4. monRep' \in [Servers -> Seq(Usage)]
    BY <1>3, <2>1 DEF MonRead
  <2>5. p' \in [Servers -> Nat] /\ hist' \in [Servers -> Nat]
    <3> HIDE DEF KernelTypeOK, InnerTypeOK, ClientsTypeOK
    <3> QED
      BY <1>3, <2>2 DEF MonRead
  <2> QED
    BY <1>3, <2>3, <2>4, <2>5 DEF MonRead
<1>4. CASE MonReadFails
  BY <1>4 DEF MonReadFails, ExitDistributor, distVars
<1>5. CASE SetDistribution
  BY <1>5 DEF SetDistribution
<1>6. CASE NextRound
  BY <1>6 DEF NextRound
<1>7. CASE DumpAndExit
  BY <1>7 DEF DumpAndExit, ExitDistributor, distVars
<1> QED
  BY <1>1, <1>2, <1>3, <1>4, <1>5, <1>6, <1>7 DEF PollNext

\* Every step of an inner server keeps the types.
LEMMA TypeInner ==
  ProcessTypes /\ InnerNext /\ UNCHANGED <<distVars, sent>> => ProcessTypes'
<1> SUFFICES ASSUME ProcessTypes, UNCHANGED <<distVars, sent>>,
                    NEW s \in Servers,
                    WorkerNext(s) \/ MonServerNext(s) \/ Tick(s) \/ Crash(s)
             PROVE  ProcessTypes'
  BY DEF InnerNext
<1> USE DEF ProcessTypes, KernelTypeOK, DistributorTypeOK, InnerTypeOK,
        ClientsTypeOK, distVars, kernelVars, workVars, monVars, connVars,
        innerVars
<1>1. CASE WorkerRead(s)
  <2>1. workq[s] \in Seq(Message) /\ workq[s] # <<>>
    BY <1>1 DEF WorkerRead
  <2>2. Head(workq[s]) \in Message /\ Tail(workq[s]) \in Seq(Message)
    <3> HIDE DEF KernelTypeOK, DistributorTypeOK, InnerTypeOK, ClientsTypeOK
    <3> QED
      BY <2>1
  <2>3. workq' \in [Servers -> Seq(Message)]
    BY <1>1, <2>2 DEF WorkerRead
  <2>4. whand' \in [Servers -> Message] /\ wpc' \in [Servers -> {"read", "reply"}]
    BY <1>1, <2>2 DEF WorkerRead
  <2> QED
    BY <1>1, <2>3, <2>4 DEF WorkerRead
<1>2. CASE WorkerReply(s)
  <2>1. Append(replyq[s], whand[s]) \in Seq(Message)
    OBVIOUS
  <2>2. replyq' \in [Servers -> Seq(Message)]
    BY <1>2, <2>1 DEF WorkerReply
  <2>3. NoMessage \in Message
    BY DEF NoMessage, Message
  <2>4. whand' \in [Servers -> Message] /\ wpc' \in [Servers -> {"read", "reply"}]
    BY <1>2, <2>3 DEF WorkerReply
  <2> QED
    BY <1>2, <2>2, <2>4 DEF WorkerReply
<1>3. CASE MonServe(s)
  <2>1. Append(monRep[s], stat[s]) \in Seq(Usage)
    OBVIOUS
  <2>2. monRep' \in [Servers -> Seq(Usage)]
    BY <1>3, <2>1 DEF MonServe
  <2>3. monReq' \in [Servers -> BOOLEAN]
    BY <1>3 DEF MonServe
  <2> QED
    BY <1>3, <2>2, <2>3 DEF MonServe
<1>4. CASE Tick(s)
  <2>1. stat' \in [Servers -> Usage] /\ ticked' \in [Servers -> BOOLEAN]
    <3> HIDE DEF KernelTypeOK, DistributorTypeOK, ClientsTypeOK
    <3> QED
      BY <1>4 DEF Tick
  <2> QED
    BY <1>4, <2>1 DEF Tick
<1>5. CASE ExitServer(s)
  <2>1. <<>> \in Seq(Message)
    OBVIOUS
  <2>2. workq' \in [Servers -> Seq(Message)]
    BY <1>5, <2>1 DEF ExitServer
  <2>3. innerUp' \in [Servers -> BOOLEAN] /\ monReq' \in [Servers -> BOOLEAN]
    BY <1>5 DEF ExitServer
  <2> QED
    BY <1>5, <2>2, <2>3 DEF ExitServer
<1> QED
  BY <1>1, <1>2, <1>3, <1>4, <1>5
     DEF WorkerNext, MonServerNext, WorkerEof, MonEof, Crash

\* Every step of a client keeps the types.
LEMMA TypeClients ==
  ProcessTypes /\ ClientsNext /\ UNCHANGED <<distVars, innerVars>> => ProcessTypes'
<1> SUFFICES ASSUME ProcessTypes, UNCHANGED <<distVars, innerVars>>,
                    NEW c \in Conns,
                    \/ Connect(c) \/ Shutdown(c) \/ Reset(c)
                    \/ \E n \in 1 .. normalLen : Send(c, n)
             PROVE  ProcessTypes'
  BY DEF ClientsNext
<1> USE DEF ProcessTypes, KernelTypeOK, DistributorTypeOK, InnerTypeOK,
        ClientsTypeOK, distVars, workVars, monVars, innerVars
<1>1. CASE Connect(c)
  BY <1>1 DEF Connect, ConnState
<1>2. CASE Shutdown(c)
  BY <1>2 DEF Shutdown
<1>3. CASE Reset(c)
  BY <1>3 DEF Reset
<1>4. ASSUME NEW n \in 1 .. normalLen, Send(c, n)
      PROVE  ProcessTypes'
  <2>1. avail' \in [Conns -> Nat] /\ sent' \in [Conns -> Nat]
    <3> HIDE DEF DistributorTypeOK, InnerTypeOK
    <3> QED
      BY <1>4 DEF Send
  <2> QED
    BY <1>4, <2>1 DEF Send
<1> QED
  BY <1>1, <1>2, <1>3, <1>4

\* What was observed of a server is made of usage figures.
LEMMA TypeObserve == TypeOK /\ ProcessTypes' /\ Observe => TypeOK'
<1> SUFFICES ASSUME TypeOK, ProcessTypes', Observe
             PROVE  shown' \in [Servers -> SUBSET Usage]
  BY DEF TypeOK, ProcessTypes
<1>1. /\ stat \in [Servers -> Usage] /\ stat' \in [Servers -> Usage]
      /\ shown \in [Servers -> SUBSET Usage]
  BY DEF TypeOK, ProcessTypes, InnerTypeOK
<1>2. ASSUME NEW s \in Servers
      PROVE  /\ {stat[s]} \subseteq Usage
             /\ shown[s] \cup {stat'[s]} \subseteq Usage
             /\ shown[s] \subseteq Usage
  BY <1>1
<1> QED
  BY <1>2 DEF Observe

\* The state of the model is always well formed.
THEOREM TypeCorrect == Spec => []TypeOK
<1>1. TypeOK /\ [Next]_vars => TypeOK'
  <2> SUFFICES ASSUME TypeOK, [Next]_vars
               PROVE  TypeOK'
    OBVIOUS
  <2>1. CASE UNCHANGED vars
    BY <2>1 DEF vars, TypeOK, KernelTypeOK, DistributorTypeOK, InnerTypeOK,
                ClientsTypeOK, distVars, kernelVars, innerVars
  <2>2. ProcessTypes
    BY DEF TypeOK, ProcessTypes
  <2>3. CASE Distributor
    BY <2>2, <2>3, TypeDispatch, TypePoll, TypeObserve
       DEF Distributor, OfDistributor
  <2>4. CASE Inner
    BY <2>2, <2>4, TypeInner, TypeObserve DEF Inner, OfInner
  <2>5. CASE Environment
    BY <2>2, <2>5, TypeClients DEF Environment, TypeOK, ProcessTypes
  <2> QED
    BY <2>1, <2>3, <2>4, <2>5 DEF Next, Stopped
<1> QED
  BY TypeInit, <1>1, PTL DEF Spec

-----------------------------------------------------------------------------
(***************************************************************************)
(* The dispatcher: its descriptors and the events it handles.              *)
(***************************************************************************)

\* What the poller leaves alone.
LEMMA PollFrame ==
  PollNext => UNCHANGED <<innerUp, workq, replyq, cst, avail, eof, fdOf,
                          interest, batch, opc, mess, target, owed, forwarded>>
BY DEF PollNext, StartRound, MonWrite, MonRead, MonReadFails, SetDistribution,
       NextRound, DumpAndExit, ExitDistributor, kernelVars, dispatchVars,
       distVars, workVars, connVars, ghostVars

\* What the inner servers leave alone.
LEMMA InnerFrame == InnerNext => UNCHANGED <<distUp, cst, avail, eof>>
BY DEF InnerNext, WorkerNext, MonServerNext, WorkerRead, WorkerReply,
       WorkerEof, MonServe, MonEof, Tick, Crash, ExitServer, kernelVars,
       connVars

-----------------------------------------------------------------------------
(***************************************************************************)
(* The descriptor table, the interest set and the batch.  The two parts of *)
(* InterestMatchesTable and EventsFresh are not inductive alone: that no   *)
(* two connections share a descriptor needs the descriptors to be those of *)
(* ClientFds, and that the event of the listening socket stays fresh needs *)
(* that it is out of the batch while connections are accepted.             *)
(***************************************************************************)
InTable == \A c \in Open : fdOf[c] \in ClientFds

Accepting == opc \in {"accept_first", "accept"} => ListenFd \notin batch

DescriptorInv == InTable /\ InterestMatchesTable /\ EventsFresh /\ Accepting

LEMMA DescriptorInit == Init => DescriptorInv
BY DEF Init, KernelInit, DistributorInit, RegisteredAtStart, DescriptorInv,
       InTable, InterestMatchesTable, EventsFresh, Accepting, Open

LEMMA DescriptorDispatch ==
  TypeOK /\ DescriptorInv /\ DispatchNext => DescriptorInv'
<1> SUFFICES ASSUME TypeOK, DescriptorInv, DispatchNext
             PROVE  DescriptorInv'
  OBVIOUS
<1>0. /\ cst \in [Conns -> ConnState]
      /\ fdOf \in [Conns -> Nat]
      /\ avail \in [Conns -> Nat]
      /\ eof \in [Conns -> BOOLEAN]
  BY DEF TypeOK, KernelTypeOK, DistributorTypeOK
<1> USE DEF DescriptorInv, InTable, InterestMatchesTable, EventsFresh,
        Accepting
<1>1. CASE EpollWait
  BY <1>0, <1>1, Descriptors
     DEF EpollWait, Ready, Readable, kernelVars, tableVars, Open, Queued,
         serverFd_set
<1>2. CASE HandleListen
  BY <1>2 DEF HandleListen, kernelVars, tableVars, Open, Queued
<1>3. ASSUME NEW c \in Conns, Accept(c)
      PROVE  DescriptorInv'
  <2>1. PICK fd \in FreeFds : /\ fdOf' = [fdOf EXCEPT ![c] = fd]
                              /\ interest' = interest \cup {fd}
    BY <1>3 DEF Accept, Register
  <2>2. Open' = Open \cup {c} /\ c \notin Open
    BY <1>0, <1>3 DEF Accept, Open, Queued
  <2>3. \A e \in Open : fdOf'[e] = fdOf[e] /\ fdOf[e] # fd
    BY <1>0, <2>1, <2>2 DEF FreeFds, Open
  <2>4. fdOf'[c] = fd /\ fd \in ClientFds
    BY <1>0, <2>1 DEF FreeFds
  <2>5. batch' = batch /\ avail' = avail /\ eof' = eof
    BY <1>3 DEF Accept
  <2>6. ListenFd \notin batch
    BY <1>3 DEF Accept
  <2>7. InTable'
    BY <2>2, <2>3, <2>4 DEF ClientFds
  <2>8. InterestMatchesTable'
    BY <2>1, <2>2, <2>3, <2>4
  <2>9. EventsFresh'
    BY <2>2, <2>3, <2>5, <2>6
  <2>10. Accepting'
    BY <2>5, <2>6
  <2> QED
    BY <2>7, <2>8, <2>9, <2>10
<1>4. CASE AcceptDone
  BY <1>4 DEF AcceptDone, NextEvent, kernelVars, tableVars, Open, Queued
<1>5. CASE AcceptFails
  BY <1>5 DEF AcceptFails, ExitDistributor, distVars, connVars, Open, Queued
<1>6. ASSUME NEW c \in Conns, HandleRequest(c)
      PROVE  DescriptorInv'
  <2>1. /\ c \in Open
        /\ batch' = batch \ {fdOf[c]}
        /\ opc' = "write"
        /\ \A e \in Conns : e # c => avail'[e] = avail[e]
        /\ UNCHANGED <<cst, eof, fdOf, interest>>
    BY <1>0, <1>6 DEF HandleRequest, TakeRequest, TakeEvent, tableVars
  <2> QED
    BY <2>1 DEF Open, Queued
<1>7. ASSUME NEW c \in Conns, HandleFragment(c)
      PROVE  DescriptorInv'
  <2>1. /\ c \in Open
        /\ batch' = batch \ {fdOf[c]}
        /\ opc' \in {"wait", "batch"}
        /\ \A e \in Conns : e # c => avail'[e] = avail[e]
        /\ UNCHANGED <<cst, eof, fdOf, interest>>
    BY <1>0, <1>7 DEF HandleFragment, TakeEvent, tableVars, NextEvent
  <2> QED
    BY <2>1 DEF Open, Queued
<1>8. ASSUME NEW c \in Conns, HandleClose(c)
      PROVE  DescriptorInv'
  <2>1. /\ c \in Open
        /\ batch' = batch \ {fdOf[c]}
        /\ interest' = interest \ {fdOf[c]}
        /\ opc' \in {"wait", "batch"}
        /\ \A e \in Conns : e # c => fdOf'[e] = fdOf[e] /\ cst'[e] = cst[e]
        /\ cst'[c] = "closed"
        /\ UNCHANGED <<avail, eof>>
    BY <1>0, <1>8 DEF HandleClose, TakeEvent, NextEvent
  <2>2. Open' = Open \ {c} /\ Queued' = Queued
    BY <1>0, <2>1 DEF Open, Queued
  <2>3. \A e \in Open' : fdOf'[e] = fdOf[e] /\ fdOf[e] # fdOf[c]
    BY <2>1, <2>2 DEF Open
  <2>4. InTable'
    BY <2>2, <2>3 DEF ClientFds
  <2>5. InterestMatchesTable'
    <3>1. fdOf[c] # ListenFd
      BY <2>1, Descriptors
    <3>2. ListenFd' = ListenFd
      BY DEF ListenFd
    <3>3. {fdOf'[e] : e \in Open'} = {fdOf[e] : e \in Open} \ {fdOf[c]}
      BY <2>1, <2>2, <2>3
    <3> QED
      BY <2>1, <2>2, <2>3, <3>1, <3>2, <3>3
  <2>6. EventsFresh'
    BY <2>1, <2>2, <2>3 DEF Open
  <2> QED
    BY <2>1, <2>4, <2>5, <2>6
<1>9. CASE WriteToServer
  BY <1>9 DEF WriteToServer, EndWrite, NextEvent, connVars, tableVars, Open,
              Queued
<1>10. CASE WriteToDead
  BY <1>10 DEF WriteToDead, EndWrite, NextEvent, kernelVars, tableVars, Open,
               Queued
<1> QED
  BY <1>1, <1>2, <1>3, <1>4, <1>5, <1>6, <1>7, <1>8, <1>9, <1>10
     DEF DispatchNext

LEMMA DescriptorClients ==
  TypeOK /\ DescriptorInv /\ ClientsNext /\ UNCHANGED distVars => DescriptorInv'
<1> SUFFICES ASSUME TypeOK, DescriptorInv, UNCHANGED distVars,
                    NEW c \in Conns,
                    \/ Connect(c) \/ Shutdown(c) \/ Reset(c)
                    \/ \E n \in 1 .. normalLen : Send(c, n)
             PROVE  DescriptorInv'
  BY DEF ClientsNext
<1>0. /\ cst \in [Conns -> ConnState]
      /\ avail \in [Conns -> Nat]
      /\ eof \in [Conns -> BOOLEAN]
  BY DEF TypeOK, KernelTypeOK
<1>1. /\ Open' = Open
      /\ Queued \subseteq Queued'
      /\ \A e \in Conns : (avail[e] > 0 \/ eof[e]) => (avail'[e] > 0 \/ eof'[e])
  <2>1. CASE Connect(c)
    BY <1>0, <2>1 DEF Connect, Open, Queued
  <2>2. CASE Shutdown(c)
    BY <1>0, <2>2 DEF Shutdown, Open, Queued
  <2>3. CASE Reset(c)
    BY <1>0, <2>3 DEF Reset, Open, Queued
  <2>4. ASSUME NEW n \in 1 .. normalLen, Send(c, n)
        PROVE  /\ Open' = Open
               /\ Queued \subseteq Queued'
               /\ \A e \in Conns :
                    (avail[e] > 0 \/ eof[e]) => (avail'[e] > 0 \/ eof'[e])
    BY <1>0, <2>4 DEF Send, Open, Queued
  <2> QED
    BY <2>1, <2>2, <2>3, <2>4
<1>2. \A e \in Open : e \in Conns
  BY DEF Open
<1> QED
  BY <1>1, <1>2 DEF DescriptorInv, InTable, InterestMatchesTable, EventsFresh,
                    Accepting, distVars

\* The descriptor table, epoll's interest set and the batch agree in every
\* reachable state: the code's EpollCtl_Add and CloseConnect come in pairs.
THEOREM DescriptorsCorrect == Spec => []DescriptorInv
<1>1. TypeOK /\ DescriptorInv /\ [Next]_vars => DescriptorInv'
  <2> SUFFICES ASSUME TypeOK, DescriptorInv, [Next]_vars
               PROVE  DescriptorInv'
    OBVIOUS
  <2> USE DEF DescriptorInv, InTable, InterestMatchesTable, EventsFresh,
          Accepting, Open, Queued
  <2>1. CASE UNCHANGED vars
    BY <2>1 DEF vars, kernelVars, distVars
  <2>2. CASE PollNext
    BY <2>2, PollFrame
  <2>3. CASE Inner
    BY <2>3, InnerFrame DEF Inner, OfInner, distVars
  <2> QED
    BY <2>1, <2>2, <2>3, DescriptorDispatch, DescriptorClients
       DEF Next, Distributor, OfDistributor, Environment, Stopped
<1> QED
  BY DescriptorInit, <1>1, TypeCorrect, PTL DEF Spec

\* No two connections share a descriptor, and epoll watches exactly the open
\* connections and the listening socket.
THEOREM InterestCorrect == Spec => []InterestMatchesTable
<1>1. DescriptorInv => InterestMatchesTable
  BY DEF DescriptorInv
<1> QED
  BY DescriptorsCorrect, <1>1, PTL

\* No event is stale when the dispatcher takes it: read() never sees EAGAIN.
THEOREM EventsCorrect == Spec => []EventsFresh
<1>1. DescriptorInv => EventsFresh
  BY DEF DescriptorInv
<1> QED
  BY DescriptorsCorrect, <1>1, PTL

\* The branch of threadFunc that relays echoes is dead code, however many
\* servers and clients there are.
THEOREM RelayDead == Spec => []RelayUnreachable
<1>1. DescriptorInv => RelayUnreachable
  BY Descriptors DEF DescriptorInv, InTable, EventsFresh, RelayUnreachable
<1> QED
  BY DescriptorsCorrect, <1>1, PTL

-----------------------------------------------------------------------------
(***************************************************************************)
(* The spare descriptor.                                                   *)
(***************************************************************************)

\* The dispatcher waits for events, handles clients and writes to servers only
\* with a descriptor to spare: it leaves the accept loop on EAGAIN, which the
\* kernel reports only if it could have given out a descriptor.
THEOREM SpareCorrect == Spec => []SpareDescriptor
<1>1. Init => SpareDescriptor
  <2> SUFFICES ASSUME Init PROVE FreeFds # {}
    BY DEF SpareDescriptor
  <2>1. Open = {}
    BY DEF Init, KernelInit, Open
  <2>2. 6 + 2 * SERVERS_NUM \in ClientFds
    BY DEF ClientFds
  <2> QED
    BY <2>1, <2>2 DEF FreeFds
<1>2. TypeOK /\ SpareDescriptor /\ [Next]_vars => SpareDescriptor'
  <2> SUFFICES ASSUME TypeOK, SpareDescriptor, [Next]_vars
               PROVE  SpareDescriptor'
    OBVIOUS
  <2>0. cst \in [Conns -> ConnState] /\ fdOf \in [Conns -> Nat]
    BY DEF TypeOK, KernelTypeOK, DistributorTypeOK
  <2> USE DEF SpareDescriptor, FreeFds
  <2>1. ASSUME UNCHANGED <<opc, fdOf>>, Open' = Open
        PROVE  SpareDescriptor'
    BY <2>1 DEF ClientFds
  <2>2. CASE DispatchNext
    <3>1. CASE \E c \in Conns : HandleClose(c)
      <4>1. PICK c \in Conns : HandleClose(c)
        BY <3>1
      <4>2. /\ Open' = Open \ {c}
            /\ \A e \in Open' : fdOf'[e] = fdOf[e]
            /\ FreeFds # {}
        BY <2>0, <4>1 DEF HandleClose, TakeEvent, Open
      <4> QED
        BY <4>2 DEF ClientFds
    <3>2. CASE \E c \in Conns : Accept(c)
      BY <3>2 DEF Accept
    <3>3. CASE EpollWait \/ HandleListen \/ AcceptDone \/ AcceptFails
      BY <3>3 DEF EpollWait, HandleListen, AcceptDone, AcceptFails,
                  ExitDistributor, kernelVars, connVars, distVars, tableVars,
                  Open, ClientFds
    <3>4. CASE \E c \in Conns : HandleRequest(c) \/ HandleFragment(c)
      BY <3>4 DEF HandleRequest, TakeRequest, HandleFragment, TakeEvent,
                  tableVars, Open, ClientFds
    <3>5. CASE WriteToServer \/ WriteToDead
      BY <3>5 DEF WriteToServer, WriteToDead, kernelVars, connVars, tableVars,
                  Open, ClientFds
    <3> QED
      BY <2>2, <3>1, <3>2, <3>3, <3>4, <3>5 DEF DispatchNext
  <2>3. CASE PollNext
    BY <2>1, <2>3, PollFrame DEF Open
  <2>4. CASE Inner
    BY <2>1, <2>4, InnerFrame DEF Inner, OfInner, distVars, Open
  <2>5. CASE Environment
    <3>1. Open' = Open
      BY <2>0, <2>5 DEF Environment, ClientsNext, Connect, Send, Shutdown,
                        Reset, Open
    <3> QED
      BY <2>1, <2>5, <3>1 DEF Environment, distVars
  <2>6. CASE UNCHANGED vars
    BY <2>1, <2>6 DEF vars, kernelVars, distVars, Open
  <2> QED
    BY <2>2, <2>3, <2>4, <2>5, <2>6 DEF Next, Distributor, OfDistributor, Stopped
<1> QED
  BY <1>1, <1>2, TypeCorrect, PTL DEF Spec

-----------------------------------------------------------------------------
(***************************************************************************)
(* The poller, and the distribution it shares with the dispatcher.         *)
(***************************************************************************)

\* What the dispatcher leaves to the poller.
LEMMA DispatchFrame ==
  DispatchNext => UNCHANGED <<monReq, monRep, d, mpc, mi, p, hist>>
BY DEF DispatchNext, EpollWait, HandleListen, Accept, AcceptDone, AcceptFails,
       HandleRequest, TakeRequest, HandleFragment, HandleClose, TakeEvent,
       WriteToServer, WriteToDead, ExitDistributor, kernelVars, monVars,
       pollVars, distVars

LEMMA ClientsFrame ==
  ClientsNext => UNCHANGED <<distUp, innerUp, workq, replyq, monReq, monRep>>
BY DEF ClientsNext, Connect, Send, Shutdown, Reset, workVars, monVars

-----------------------------------------------------------------------------
(***************************************************************************)
(* Samples.  HistoryAligned is inductive.                                  *)
(***************************************************************************)

\* Whenever d is rebuilt, and when the samples are written to the files, every
\* server has the same number of samples.
THEOREM HistoryCorrect == Spec => []HistoryAligned
<1> USE DEF HistoryAligned
<1>1. Init => HistoryAligned
  BY DEF Init, DistributorInit, Servers
<1>2. TypeOK /\ HistoryAligned /\ [Next]_vars => HistoryAligned'
  <2> SUFFICES ASSUME TypeOK, HistoryAligned, [Next]_vars
               PROVE  HistoryAligned'
    OBVIOUS
  <2>0. /\ hist \in [Servers -> Nat]
        /\ mi \in 0 .. SERVERS_NUM - 1
        /\ Servers = 0 .. SERVERS_NUM - 1
    BY DEF TypeOK, DistributorTypeOK, Servers
  <2>1. CASE StartRound
    BY <2>0, <2>1 DEF StartRound
  <2>2. CASE MonWrite
    BY <2>0, <2>2 DEF MonWrite
  <2>3. CASE MonRead
    <3>1. /\ mpc = "read"
          /\ hist' = [hist EXCEPT ![mi] = @ + 1]
          /\ IF mi = SERVERS_NUM - 1
             THEN mpc' = "publish" /\ mi' = mi
             ELSE mpc' = "ask" /\ mi' = mi + 1
      BY <2>3 DEF MonRead, Advance
    <3>2. CASE mi = SERVERS_NUM - 1
      BY <2>0, <3>1, <3>2 DEF Servers
    <3>3. CASE mi # SERVERS_NUM - 1
      BY <2>0, <3>1, <3>3 DEF Servers
    <3> QED
      BY <3>2, <3>3
  <2>4. CASE SetDistribution \/ NextRound
    BY <2>0, <2>4 DEF SetDistribution, NextRound
  <2>5. CASE UNCHANGED <<mpc, mi, hist>>
    BY <2>5 DEF Servers
  <2>6. CASE MonReadFails \/ DumpAndExit
    BY <2>5, <2>6 DEF MonReadFails, DumpAndExit, ExitDistributor, distVars
  <2> QED
    BY <2>1, <2>2, <2>3, <2>4, <2>5, <2>6, DispatchFrame
       DEF Next, Distributor, OfDistributor, PollNext, Inner, OfInner, Environment, Stopped, vars,
           distVars
<1> QED
  BY <1>1, <1>2, TypeCorrect, PTL DEF Spec

-----------------------------------------------------------------------------
(***************************************************************************)
(* Late requests.  At most one is inductive together with this: once a     *)
(* request was late, the one in the dispatcher's hands is not.             *)
(***************************************************************************)
LateInv ==
  /\ AtMostOneLate
  /\ late = 1 /\ opc = "write" => ~Forbidden(target)

LEMMA LateStep == TypeOK /\ LateInv /\ [Next]_vars => LateInv'
<1> SUFFICES ASSUME TypeOK, LateInv, [Next]_vars
             PROVE  LateInv'
  OBVIOUS
<1>0. late \in Nat
  BY DEF TypeOK, DistributorTypeOK
<1> USE DEF LateInv, AtMostOneLate
<1>1. CASE UNCHANGED <<late, opc, target, d>>
  BY <1>1 DEF Forbidden
<1>2. CASE UNCHANGED <<late, d>> /\ opc' # "write"
  BY <1>2
<1>3. ASSUME NEW c \in Conns, HandleRequest(c)
      PROVE  LateInv'
  BY <1>3 DEF HandleRequest, TakeRequest, Forbidden
<1>4. CASE WriteToServer
  <2>1. /\ opc = "write" /\ opc' # "write"
        /\ late' = IF Forbidden(target) THEN late + 1 ELSE late
    BY <1>4 DEF WriteToServer, EndWrite, NextEvent
  <2> QED
    BY <1>0, <2>1
<1>5. CASE SetDistribution
  BY <1>5 DEF SetDistribution
<1>6. CASE DispatchNext
  <2>1. CASE EpollWait \/ HandleListen \/ AcceptDone
    BY <1>2, <2>1 DEF EpollWait, HandleListen, AcceptDone, NextEvent, ghostVars
  <2>2. CASE AcceptFails
    BY <1>1, <2>2 DEF AcceptFails, ExitDistributor, distVars
  <2>3. CASE WriteToDead
    BY <1>2, <2>3 DEF WriteToDead, EndWrite, NextEvent
  <2>4. CASE \E c \in Conns : Accept(c) \/ HandleFragment(c) \/ HandleClose(c)
    BY <1>2, <2>4 DEF Accept, HandleFragment, HandleClose, NextEvent, ghostVars
  <2> QED
    BY <1>3, <1>4, <1>6, <2>1, <2>2, <2>3, <2>4 DEF DispatchNext
<1>7. CASE PollNext
  <2>1. CASE SetDistribution
    BY <1>5, <2>1
  <2>2. CASE ~SetDistribution
    BY <1>1, <1>7, <2>2
       DEF PollNext, StartRound, MonWrite, MonRead, MonReadFails, NextRound,
           DumpAndExit, ExitDistributor, dispatchVars, distVars, ghostVars
  <2> QED
    BY <2>1, <2>2
<1> QED
  BY <1>1, <1>6, <1>7
     DEF Next, Distributor, OfDistributor, Inner, OfInner, Environment, Stopped, vars, distVars

\* Between two changes of the distribution at most one request goes to a server
\* the distribution in force gives no weight, although the draw is used outside
\* the mutex.
THEOREM LateCorrect == Spec => []AtMostOneLate
<1>1. Init => LateInv
  BY DEF Init, DistributorInit, LateInv, AtMostOneLate
<1>2. LateInv => AtMostOneLate
  BY DEF LateInv
<1> QED
  BY <1>1, <1>2, LateStep, TypeCorrect, PTL DEF Spec

-----------------------------------------------------------------------------
(***************************************************************************)
(* Questions.  OneQuestion is inductive.                                   *)
(***************************************************************************)

\* What the inner servers do to the mon connections.
LEMMA InnerMon ==
  ASSUME TypeOK, InnerNext
  PROVE  \/ UNCHANGED <<monReq, monRep>>
         \/ \E s \in Servers : MonServe(s)
         \/ \E s \in Servers : /\ monReq' = [monReq EXCEPT ![s] = FALSE]
                               /\ monRep' = monRep
BY DEF InnerNext, WorkerNext, MonServerNext, WorkerRead, WorkerReply,
       WorkerEof, MonEof, Tick, Crash, ExitServer, kernelVars, monVars

\* An answer is always the answer to the question that was asked last.
THEOREM QuestionCorrect == Spec => []OneQuestion
<1> USE DEF OneQuestion
<1>1. Init => OneQuestion
  BY DEF Init, KernelInit
<1>2. TypeOK /\ OneQuestion /\ [Next]_vars => OneQuestion'
  <2> SUFFICES ASSUME TypeOK, OneQuestion, [Next]_vars
               PROVE  OneQuestion'
    OBVIOUS
  <2>0. /\ monReq \in [Servers -> BOOLEAN]
        /\ monRep \in [Servers -> Seq(Usage)]
        /\ mi \in Servers
    BY DEF TypeOK, KernelTypeOK, DistributorTypeOK
  <2>1. CASE UNCHANGED <<monReq, monRep, mpc, mi>>
    BY <2>1
  <2>2. CASE StartRound \/ SetDistribution \/ NextRound
    BY <2>2 DEF StartRound, SetDistribution, NextRound, kernelVars
  <2>3. CASE MonWrite
    <3>1. /\ mpc = "ask" /\ mpc' = "read" /\ UNCHANGED <<mi, monRep>>
          /\ \A s \in Servers : s # mi => monReq'[s] = monReq[s]
      BY <2>0, <2>3 DEF MonWrite
    <3>2. Len(monRep[mi]) = 0 /\ (monRep[mi] # <<>> => FALSE)
      BY <2>0, <3>1
    <3>3. monReq'[mi] => monReq'[mi] = TRUE
      BY <2>0, <2>3 DEF MonWrite
    <3> QED
      BY <2>0, <3>1, <3>2, <3>3
  <2>4. CASE MonRead
    <3>1. /\ mpc = "read" /\ mpc' # "read" /\ monReq' = monReq
          /\ monRep[mi] # <<>>
          /\ monRep' = [monRep EXCEPT ![mi] = Tail(@)]
      BY <2>4 DEF MonRead, Advance
    <3>2. ~monReq[mi] /\ Len(monRep[mi]) = 1
      BY <2>0, <3>1
    <3>3. Tail(monRep[mi]) = <<>>
      BY <2>0, <3>1, <3>2
    <3>4. \A s \in Servers : ~monReq'[s] /\ monRep'[s] = <<>>
      BY <2>0, <3>1, <3>2, <3>3
    <3> QED
      BY <3>4
  <2>5. CASE MonReadFails \/ DumpAndExit
    BY <2>1, <2>5 DEF MonReadFails, DumpAndExit, ExitDistributor, distVars,
                      monVars
  <2>6. CASE Inner
    <3>1. UNCHANGED <<mpc, mi>>
      BY <2>6 DEF Inner, OfInner, distVars
    <3>2. ASSUME NEW s \in Servers, MonServe(s)
          PROVE  OneQuestion'
      <4>1. /\ monReq[s]
            /\ monReq' = [monReq EXCEPT ![s] = FALSE]
            /\ monRep' = [monRep EXCEPT ![s] = Append(@, stat[s])]
        BY <3>2 DEF MonServe
      <4>2. s = mi /\ mpc = "read" /\ Len(monRep[s]) = 0
        BY <2>0, <4>1
      <4>3. stat[s] \in Usage
        BY DEF TypeOK, InnerTypeOK
      <4>4. Len(Append(monRep[s], stat[s])) = 1
        BY <2>0, <4>2, <4>3
      <4> QED
        BY <2>0, <3>1, <4>1, <4>2, <4>4
    <3>3. ASSUME NEW s \in Servers,
                 monReq' = [monReq EXCEPT ![s] = FALSE], monRep' = monRep
          PROVE  OneQuestion'
      <4>1. monReq[s] => monRep[s] = <<>>
        BY <2>0
      <4> QED
        BY <2>0, <3>1, <3>3, <4>1
    <3> QED
      BY <2>1, <2>6, <3>1, <3>2, <3>3, InnerMon DEF Inner, OfInner
  <2> QED
    BY <2>1, <2>2, <2>3, <2>4, <2>5, <2>6, DispatchFrame, ClientsFrame
       DEF Next, Distributor, OfDistributor, PollNext, Environment, Stopped, vars, distVars,
           kernelVars
<1> QED
  BY <1>1, <1>2, TypeCorrect, PTL DEF Spec
-----------------------------------------------------------------------------
(***************************************************************************)
(* Figures.  By OneQuestion an answer is put where there is none.          *)
(***************************************************************************)
LEMMA FiguresStart ==
  ASSUME Init, NEW s \in Servers
  PROVE  Figures(s)!Init
BY DEF Init, KernelInit, InnerInit, Figures!Init

\* Server t refreshes its figures.
LEMMA FiguresTick ==
  ASSUME TypeOK, NEW t \in Servers, Tick(t), NEW s \in Servers
  PROVE  Figures(s)!Tick \/ UNCHANGED <<ticked[s], stat[s], monRep[s]>>
<1>1. /\ ticked \in [Servers -> BOOLEAN] /\ stat \in [Servers -> Usage]
      /\ ticked' = [ticked EXCEPT ![t] = TRUE]
      /\ monRep' = monRep
  BY DEF TypeOK, InnerTypeOK, Tick, kernelVars
<1>2. CASE t # s
  <2>1. stat'[s] = stat[s]
    BY <1>1, <1>2 DEF Tick
  <2> QED
    BY <1>1, <1>2, <2>1
<1>3. CASE t = s
  <2>1. IF ticked[s] THEN stat'[s] \in Usages ELSE stat'[s] = stat[s]
    BY <1>1, <1>3 DEF Tick
  <2>2. ticked'[s] = TRUE /\ stat[s] \in Usage
    BY <1>1, <1>3
  <2> QED
    BY <1>1, <2>1, <2>2 DEF Figures!Tick
<1> QED
  BY <1>2, <1>3

\* Server t answers the question that is before it.
LEMMA FiguresServe ==
  ASSUME TypeOK, OneQuestion, NEW t \in Servers, MonServe(t), NEW s \in Servers
  PROVE  Figures(s)!Return \/ UNCHANGED <<ticked[s], stat[s], monRep[s]>>
<1>1. /\ monRep \in [Servers -> Seq(Usage)] /\ stat[t] \in Usage
      /\ monReq[t] /\ monRep' = [monRep EXCEPT ![t] = Append(monRep[t], stat[t])]
      /\ UNCHANGED <<ticked, stat>>
  BY DEF TypeOK, KernelTypeOK, InnerTypeOK, MonServe, innerVars
<1>2. monRep[t] = <<>>
  BY <1>1 DEF OneQuestion
<1>3. CASE t # s
  BY <1>1, <1>3
<1>4. CASE t = s
  <2>1. monRep'[s] = <<stat[s]>>
    BY <1>1, <1>2, <1>4
  <2>2. monRep'[s] # <<>> /\ Head(monRep'[s]) = stat[s]
    BY <2>1
  <2> QED
    BY <1>1, <1>2, <1>4, <2>2 DEF Figures!Return
<1> QED
  BY <1>3, <1>4

\* The poller reads the answer of server mi.
LEMMA FiguresRead ==
  ASSUME TypeOK, OneQuestion, MonRead, UNCHANGED innerVars, NEW s \in Servers
  PROVE  Figures(s)!Call \/ UNCHANGED <<ticked[s], stat[s], monRep[s]>>
<1>1. /\ monRep \in [Servers -> Seq(Usage)] /\ mi \in Servers
      /\ monRep[mi] # <<>> /\ monRep' = [monRep EXCEPT ![mi] = Tail(monRep[mi])]
      /\ UNCHANGED <<ticked, stat>>
  BY DEF TypeOK, KernelTypeOK, DistributorTypeOK, MonRead, innerVars
<1>2. Len(monRep[mi]) <= 1
  BY <1>1 DEF OneQuestion
<1>3. CASE mi # s
  BY <1>1, <1>3
<1>4. CASE mi = s
  <2>1. monRep[s] \in Seq(Usage) /\ monRep[s] # <<>> /\ Len(monRep[s]) <= 1
    BY <1>1, <1>2, <1>4
  <2>2. Tail(monRep[s]) = <<>>
    BY <2>1
  <2>3. monRep'[s] = <<>>
    BY <1>1, <1>4, <2>2
  <2> QED
    BY <1>1, <2>3 DEF Figures!Call
<1> QED
  BY <1>3, <1>4

LEMMA FiguresStep ==
  ASSUME TypeOK, OneQuestion, [Next]_vars, NEW s \in Servers
  PROVE  [Figures(s)!Next]_(Figures(s)!snapshotVars)
<1>1. ASSUME UNCHANGED <<ticked[s], stat[s], monRep[s]>>
      PROVE  [Figures(s)!Next]_(Figures(s)!snapshotVars)
  BY <1>1 DEF Figures!snapshotVars
<1>2. CASE Distributor
  <2>1. UNCHANGED innerVars
    BY <1>2 DEF Distributor, OfDistributor
  <2>2. CASE MonRead
    BY <1>1, <2>1, <2>2, FiguresRead DEF Figures!Next
  <2>3. CASE ~MonRead
    <3>1. monRep' = monRep
      BY <1>2, <2>3, DispatchFrame
         DEF Distributor, OfDistributor, PollNext, StartRound, MonWrite, MonReadFails,
             SetDistribution, NextRound, DumpAndExit, ExitDistributor,
             kernelVars, monVars
    <3> QED
      BY <1>1, <2>1, <3>1 DEF innerVars
  <2> QED
    BY <2>2, <2>3
<1>3. CASE Inner
  <2>1. PICK t \in Servers :
          WorkerNext(t) \/ MonServerNext(t) \/ Tick(t) \/ Crash(t)
    BY <1>3 DEF Inner, OfInner, InnerNext
  <2>2. CASE Tick(t)
    BY <1>1, <2>2, FiguresTick DEF Figures!Next
  <2>3. CASE MonServe(t)
    BY <1>1, <2>3, FiguresServe DEF Figures!Next
  <2>4. CASE WorkerNext(t) \/ MonEof(t) \/ Crash(t)
    <3>1. UNCHANGED <<ticked, stat, monRep>>
      BY <2>4 DEF WorkerNext, WorkerRead, WorkerReply, WorkerEof, MonEof, Crash,
                  ExitServer, monVars, innerVars
    <3> QED
      BY <1>1, <3>1
  <2> QED
    BY <2>1, <2>2, <2>3, <2>4 DEF MonServerNext
<1>4. CASE Environment
  BY <1>1, <1>4, ClientsFrame DEF Environment, innerVars
<1>5. CASE UNCHANGED vars
  BY <1>1, <1>5 DEF vars, kernelVars, innerVars
<1> QED
  BY <1>2, <1>3, <1>4, <1>5 DEF Next, Stopped

\* For any number of servers, what the poller reads of each is the whole of what
\* one tick has left there, the latest when the server answered, and no answer
\* is read twice or left over for the next question
\* (algorithm_distributor.cc:307-313, inner_server.cc:185-206).
THEOREM FiguresImplemented == Spec => ImplementsSnapshot
<1> SUFFICES ASSUME NEW s \in Servers
             PROVE  Spec => Figures(s)!Spec
  BY DEF ImplementsSnapshot
<1>1. Init => Figures(s)!Init
  BY FiguresStart
<1>2. TypeOK /\ OneQuestion /\ [Next]_vars
        => [Figures(s)!Next]_(Figures(s)!snapshotVars)
  BY FiguresStep
<1> QED
  BY <1>1, <1>2, TypeCorrect, QuestionCorrect, PTL DEF Spec, Figures!Spec
-----------------------------------------------------------------------------
(***************************************************************************)
(* Weights.  WeightsFresh is inductive together with the link of questions *)
(* and answers to what their server showed.                                *)
(***************************************************************************)
ShownInv ==
  \A s \in Servers :
    /\ monReq[s] => stat[s] \in shown[s]
    /\ monRep[s] # <<>> => Head(monRep[s]) \in shown[s]

\* What was observed of a server that is not asked stays, and its figures are
\* observed as long as it has a question to answer.
LEMMA ShownGrows ==
  ASSUME TypeOK, Observe, NEW s \in Servers, ~Asks(s)
  PROVE  /\ shown[s] \subseteq shown'[s]
         /\ monReq[s] => stat'[s] \in shown'[s]
BY DEF TypeOK, Observe

\* MonWrite alone asks, and it asks server mi.
LEMMA AsksOnly ==
  ASSUME TypeOK, Next, NEW s \in Servers, Asks(s)
  PROVE  MonWrite /\ s = mi /\ stat' = stat /\ monRep' = monRep /\ Observe
<1>1. mpc = "ask" /\ mpc' = "read" /\ s = mi
  BY DEF Asks
<1>2. ~(Inner \/ Environment \/ Stopped \/ DispatchNext)
  BY <1>1, DispatchFrame
     DEF Inner, OfInner, Environment, Stopped, distVars, vars
<1>3. PollNext /\ Observe /\ stat' = stat
  BY <1>2 DEF Next, Distributor, OfDistributor, innerVars
<1>4. MonWrite
  BY <1>1, <1>3 DEF PollNext, StartRound, MonRead, MonReadFails,
                    SetDistribution, NextRound, DumpAndExit
<1> QED
  BY <1>1, <1>3, <1>4 DEF MonWrite

\* What a step that asks nothing of s does to the questions and answers of s.
LEMMA NotAsked ==
  ASSUME TypeOK, OneQuestion, Next, NEW s \in Servers, ~Asks(s)
  PROVE  /\ monReq'[s] => monReq[s]
         /\ \/ monRep'[s] = monRep[s]
            \/ monRep'[s] = <<>>
            \/ monReq[s] /\ monRep'[s] = <<stat[s]>> /\ stat' = stat
<1>0. /\ monReq \in [Servers -> BOOLEAN] /\ monRep \in [Servers -> Seq(Usage)]
      /\ stat \in [Servers -> Usage] /\ mi \in Servers
  BY DEF TypeOK, KernelTypeOK, InnerTypeOK, DistributorTypeOK
<1>1. CASE UNCHANGED <<monReq, monRep>>
  BY <1>1
<1>2. CASE Distributor
  <2>1. CASE MonWrite
    <3>1. mi # s
      BY <2>1 DEF MonWrite, Asks
    <3> QED
      BY <1>0, <2>1, <3>1 DEF MonWrite
  <2>2. CASE MonRead
    <3>1. /\ monRep[mi] # <<>> /\ monReq' = monReq
          /\ monRep' = [monRep EXCEPT ![mi] = Tail(monRep[mi])]
      BY <2>2 DEF MonRead
    <3>2. Len(monRep[mi]) <= 1
      BY <1>0, <3>1 DEF OneQuestion
    <3>3. Tail(monRep[mi]) = <<>>
      BY <1>0, <3>1, <3>2
    <3> QED
      BY <1>0, <3>1, <3>3
  <2>3. CASE ~MonWrite /\ ~MonRead
    BY <1>1, <1>2, <2>3, DispatchFrame
       DEF Distributor, OfDistributor, PollNext, StartRound, MonReadFails,
           SetDistribution, NextRound, DumpAndExit, ExitDistributor,
           kernelVars, monVars
  <2> QED
    BY <2>1, <2>2, <2>3
<1>3. CASE Inner
  <2>1. ASSUME NEW t \in Servers, MonServe(t)
        PROVE  /\ monReq'[s] => monReq[s]
               /\ \/ monRep'[s] = monRep[s]
                  \/ monReq[s] /\ monRep'[s] = <<stat[s]>> /\ stat' = stat
    <3>1. /\ monReq[t] /\ monReq' = [monReq EXCEPT ![t] = FALSE]
          /\ monRep' = [monRep EXCEPT ![t] = Append(monRep[t], stat[t])]
          /\ stat' = stat
      BY <2>1 DEF MonServe, innerVars
    <3>2. monRep[t] = <<>>
      BY <1>0, <3>1 DEF OneQuestion
    <3>3. Append(monRep[t], stat[t]) = <<stat[t]>>
      BY <1>0, <3>2
    <3>4. CASE s = t
      BY <1>0, <3>1, <3>3, <3>4
    <3>5. CASE s # t
      BY <1>0, <3>1, <3>5
    <3> QED
      BY <3>4, <3>5
  <2>2. ASSUME NEW t \in Servers,
               monReq' = [monReq EXCEPT ![t] = FALSE], monRep' = monRep
        PROVE  (monReq'[s] => monReq[s]) /\ monRep'[s] = monRep[s]
    BY <1>0, <2>2
  <2> QED
    BY <1>1, <1>3, <2>1, <2>2, InnerMon DEF Inner, OfInner
<1>4. CASE Environment \/ Stopped
  BY <1>1, <1>4, ClientsFrame DEF Environment, Stopped, vars, kernelVars
<1> QED
  BY <1>2, <1>3, <1>4 DEF Next

LEMMA ShownStep ==
  ASSUME TypeOK, OneQuestion, ShownInv, Next
  PROVE  ShownInv'
<1> SUFFICES ASSUME NEW s \in Servers
             PROVE  /\ monReq'[s] => stat'[s] \in shown'[s]
                    /\ monRep'[s] # <<>> => Head(monRep'[s]) \in shown'[s]
  BY DEF ShownInv
<1>1. CASE Asks(s)
  <2>1. monRep'[s] = <<>>
    BY <1>1, AsksOnly DEF OneQuestion, Asks
  <2>2. shown'[s] = {stat[s]} /\ stat' = stat
    BY <1>1, AsksOnly DEF Observe
  <2> QED
    BY <2>1, <2>2
<1>2. CASE ~Asks(s) /\ Observe
  <2>1. /\ shown[s] \subseteq shown'[s]
        /\ monReq[s] => stat'[s] \in shown'[s]
    BY <1>2, ShownGrows
  <2>2. Head(<<stat[s]>>) = stat[s]
    OBVIOUS
  <2> QED
    BY <1>2, <2>1, <2>2, NotAsked DEF ShownInv
<1>3. CASE ~Observe
  <2>1. UNCHANGED <<monReq, monRep, stat, shown>>
    BY <1>3, ClientsFrame
       DEF Next, Distributor, OfDistributor, Inner, OfInner, Environment,
           Stopped, vars, kernelVars, innerVars
  <2> QED
    BY <2>1 DEF ShownInv
<1> QED
  BY <1>1, <1>2, <1>3

\* A weight that is neither read nor about to be read stays fresh.
LEMMA FreshStays ==
  ASSUME TypeOK, WeightsFresh, Next, NEW s \in Servers,
         hist'[s] = hist[s], p'[s] = p[s], s = mi => mpc # "read"
  PROVE  \/ hist'[s] = 0 /\ p'[s] = EvenWeight(SERVERS_NUM)
         \/ s = mi' /\ mpc' = "read"
         \/ \E u \in shown'[s] : p'[s] = Weight(u)
<1>1. CASE Asks(s)
  BY <1>1, AsksOnly DEF Asks, MonWrite
<1>2. CASE ~Asks(s)
  <2>1. shown[s] \subseteq shown'[s]
    BY <1>2, ShownGrows
       DEF Next, Distributor, OfDistributor, Inner, OfInner, Environment,
           Stopped, vars
  <2> QED
    BY <2>1 DEF WeightsFresh
<1> QED
  BY <1>1, <1>2

\* The step that reads the answer of server mi.
LEMMA FreshRead ==
  ASSUME TypeOK, OneQuestion, ShownInv, WeightsFresh, Next, MonRead
  PROVE  WeightsFresh'
<1>0. /\ monRep \in [Servers -> Seq(Usage)] /\ hist \in [Servers -> Nat]
      /\ p \in [Servers -> Nat] /\ Servers = 0 .. SERVERS_NUM - 1
      /\ mi \in 0 .. SERVERS_NUM - 1
  BY DEF TypeOK, KernelTypeOK, DistributorTypeOK, Servers
<1>1. /\ mpc = "read" /\ monRep[mi] # <<>> /\ d' = d
      /\ p' = [p EXCEPT ![mi] = Weight(Head(monRep[mi]))]
      /\ hist' = [hist EXCEPT ![mi] = @ + 1]
      /\ IF mi = SERVERS_NUM - 1
         THEN mpc' = "publish" /\ mi' = mi
         ELSE mpc' = "ask" /\ mi' = mi + 1
  BY DEF MonRead, Advance
<1>2. \A s \in Servers : Pending(s)' \/ (~Pending(s) /\ s # mi)
  BY <1>0, <1>1 DEF Pending
<1> SUFFICES ASSUME NEW s \in Servers
             PROVE  /\ \/ hist'[s] = 0 /\ p'[s] = EvenWeight(SERVERS_NUM)
                       \/ s = mi' /\ mpc' = "read"
                       \/ \E u \in shown'[s] : p'[s] = Weight(u)
                    /\ Pending(s)' \/ d'[s] = p'[s]
  BY DEF WeightsFresh, EvenWeight
<1>3. CASE s = mi
  <2>1. ~Asks(s)
    BY <1>1 DEF Asks
  <2>2. shown[s] \subseteq shown'[s]
    BY <2>1, ShownGrows
       DEF Next, Distributor, OfDistributor, Inner, OfInner, Environment,
           Stopped, vars
  <2>3. Head(monRep[mi]) \in shown[s]
    BY <1>1, <1>3 DEF ShownInv
  <2>4. p'[s] = Weight(Head(monRep[mi]))
    BY <1>0, <1>1, <1>3
  <2> QED
    BY <1>2, <1>3, <2>2, <2>3, <2>4
<1>4. CASE s # mi
  <2>1. hist'[s] = hist[s] /\ p'[s] = p[s] /\ d'[s] = d[s]
    BY <1>0, <1>1, <1>4
  <2> QED
    BY <1>2, <1>4, <2>1, FreshStays DEF WeightsFresh
<1> QED
  BY <1>3, <1>4

LEMMA FreshStep ==
  ASSUME TypeOK, OneQuestion, ShownInv, WeightsFresh, Next
  PROVE  WeightsFresh'
<1>1. CASE MonRead
  BY <1>1, FreshRead
<1>2. CASE ~MonRead
  <2>0. Servers = 0 .. SERVERS_NUM - 1
    BY DEF Servers
  <2>1. hist' = hist /\ p' = p
    BY <1>2, DispatchFrame
       DEF Next, Distributor, OfDistributor, Inner, OfInner, Environment,
           Stopped, vars, distVars, PollNext, StartRound, MonWrite,
           MonReadFails, SetDistribution, NextRound, DumpAndExit,
           ExitDistributor
  <2>2. \/ UNCHANGED <<mpc, mi, d>>
        \/ mpc = "sleep" /\ mpc' = "ask" /\ mi' = 0 /\ d' = d
        \/ MonWrite
        \/ mpc = "publish" /\ d' = p /\ mpc' = "check"
        \/ mpc = "check" /\ mpc' = "sleep" /\ d' = d
    BY <1>2, DispatchFrame
       DEF Next, Distributor, OfDistributor, Inner, OfInner, Environment,
           Stopped, vars, distVars, PollNext, StartRound, MonReadFails,
           SetDistribution, NextRound, DumpAndExit, ExitDistributor
  <2>3. \A s \in Servers : Pending(s)' \/ d'[s] = p[s]
    <3>1. CASE MonWrite
      BY <3>1 DEF MonWrite, Pending, WeightsFresh
    <3>2. CASE ~MonWrite
      BY <2>0, <2>2, <3>2 DEF Pending, WeightsFresh
    <3> QED
      BY <3>1, <3>2
  <2>4. ASSUME NEW s \in Servers
        PROVE  \/ hist'[s] = 0 /\ p'[s] = EvenWeight(SERVERS_NUM)
               \/ s = mi' /\ mpc' = "read"
               \/ \E u \in shown'[s] : p'[s] = Weight(u)
    <3>1. CASE s = mi /\ mpc = "read"
      BY <2>2, <3>1 DEF MonWrite
    <3> QED
      BY <2>1, <3>1, FreshStays
  <2>5. EvenWeight(SERVERS_NUM)' = EvenWeight(SERVERS_NUM)
    BY DEF EvenWeight
  <2> QED
    BY <2>1, <2>3, <2>4 DEF WeightsFresh
<1> QED
  BY <1>1, <1>2

\* For any number of servers and whatever they report: every weight is made of
\* figures that its own server showed between the poller's last question and
\* its answer, and the distribution in force is that of the last whole round
\* (algorithm_distributor.cc:305-325 and :171-176).
THEOREM WeightsCorrect == Spec => []WeightsFresh
<1>1. Init => WeightsFresh /\ ShownInv
  BY DEF Init, KernelInit, DistributorInit, WeightsFresh, ShownInv
<1>2. /\ TypeOK /\ OneQuestion /\ WeightsFresh /\ ShownInv /\ [Next]_vars
      => (WeightsFresh /\ ShownInv)'
  <2> SUFFICES ASSUME TypeOK, OneQuestion, WeightsFresh, ShownInv, [Next]_vars
               PROVE  (WeightsFresh /\ ShownInv)'
    OBVIOUS
  <2>1. CASE UNCHANGED vars
    BY <2>1 DEF vars, kernelVars, distVars, innerVars, WeightsFresh, ShownInv,
                Pending
  <2> QED
    BY <2>1, ShownStep, FreshStep
<1> QED
  BY <1>1, <1>2, TypeCorrect, QuestionCorrect, PTL DEF Spec
=============================================================================
