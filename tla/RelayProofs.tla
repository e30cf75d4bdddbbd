----------------------------- MODULE RelayProofs ----------------------------
(***************************************************************************)
(* Theorems about the work connections: what the dispatcher and the        *)
(* workers of the inner servers do to each other.                          *)
(***************************************************************************)
EXTENDS LoadBalancerProofs, FiniteSetTheorems, SequenceTheorems

\* Sums of the kind AtServer is.
LEMMA Sums ==
  /\ \A a, b \in Nat : \A h \in {0, 1} :
       a + h + b \in Nat /\ a + h + b <= a + 1 + b
  /\ \A a, b, h \in Nat : (a + 1) + h + b = (a + h + b) + 1
  /\ \A a, b \in Nat : (a - 1) + 1 + b = a + 0 + b
  /\ \A a, b \in Nat : a + 0 + (b + 1) = a + 1 + b
OBVIOUS

\* A count below the room there is stays within it when one is added.
LEMMA RoomLeft ==
  ASSUME NEW a \in Nat, NEW b \in Nat, NEW w \in Nat, NEW r \in Nat,
         NEW x \in Nat, x <= a + 1 + b, a < w, b <= r
  PROVE  x + 1 <= w + 1 + r
OBVIOUS

(***************************************************************************)
(* The count of AtServer, before and after a step: a request is added, a   *)
(* request goes from the queue to the worker, an echo leaves the worker.   *)
(***************************************************************************)
LEMMA AtServerCount ==
  ASSUME NEW s \in Servers,
         Len(workq[s]) \in Nat, Len(replyq[s]) \in Nat
  PROVE  /\ AtServer(s) \in Nat
         /\ AtServer(s) <= Len(workq[s]) + 1 + Len(replyq[s])
<1>1. InHand(s) \in {0, 1}
  BY DEF InHand
<1> QED
  BY <1>1, Sums, Zenon DEF AtServer

LEMMA RequestAdded ==
  ASSUME NEW s \in Servers,
         Len(workq[s]) \in Nat, Len(replyq[s]) \in Nat,
         Len(workq'[s]) = Len(workq[s]) + 1,
         replyq'[s] = replyq[s], wpc'[s] = wpc[s]
  PROVE  AtServer(s)' = AtServer(s) + 1
<1>1. InHand(s) \in Nat /\ InHand(s)' = InHand(s)
  BY DEF InHand
<1>2. AtServer(s)' = (Len(workq[s]) + 1) + InHand(s) + Len(replyq[s])
  BY <1>1 DEF AtServer
<1>3. AtServer(s) = Len(workq[s]) + InHand(s) + Len(replyq[s])
  BY <1>1 DEF AtServer
<1> QED
  BY <1>1, <1>2, <1>3, Sums

LEMMA RequestTaken ==
  ASSUME NEW s \in Servers, Len(workq[s]) \in Nat, Len(replyq[s]) \in Nat,
         Len(workq'[s]) = Len(workq[s]) - 1, replyq'[s] = replyq[s],
         wpc[s] = "read", wpc'[s] = "reply"
  PROVE  AtServer(s)' = AtServer(s)
<1>1. InHand(s) = 0 /\ InHand(s)' = 1
  BY DEF InHand
<1>2. AtServer(s)' = (Len(workq[s]) - 1) + 1 + Len(replyq[s])
  BY <1>1 DEF AtServer
<1>3. AtServer(s) = Len(workq[s]) + 0 + Len(replyq[s])
  BY <1>1 DEF AtServer
<1> QED
  BY <1>1, <1>2, <1>3, Sums

LEMMA EchoSent ==
  ASSUME NEW s \in Servers, Len(workq[s]) \in Nat, Len(replyq[s]) \in Nat,
         workq'[s] = workq[s], Len(replyq'[s]) = Len(replyq[s]) + 1,
         wpc[s] = "reply", wpc'[s] = "read"
  PROVE  AtServer(s)' = AtServer(s)
<1>1. InHand(s) = 1 /\ InHand(s)' = 0
  BY DEF InHand
<1>2. AtServer(s)' = Len(workq[s]) + 0 + (Len(replyq[s]) + 1)
  BY <1>1 DEF AtServer
<1>3. AtServer(s) = Len(workq[s]) + 1 + Len(replyq[s])
  BY <1>1 DEF AtServer
<1> QED
  BY <1>1, <1>2, <1>3, Sums

USE KernelAssumption, DistributorAssumption, InnerAssumption,
    ClientsAssumption

\* What the steps of the distributor and of the clients do to the servers'
\* side of the work connections: only WriteToServer touches it.
LEMMA WorkFrame ==
  ASSUME \/ Distributor /\ ~WriteToServer
         \/ Environment
         \/ UNCHANGED vars
  PROVE  UNCHANGED <<innerUp, workq, replyq, wpc, whand, forwarded>>
BY DEF Distributor, OfDistributor, Environment, vars, DispatchNext, EpollWait, HandleListen,
       Accept, AcceptDone, AcceptFails, HandleRequest, TakeRequest,
       HandleFragment, HandleClose, TakeEvent, WriteToDead, PollNext,
       StartRound, MonWrite, MonRead, MonReadFails, SetDistribution, NextRound,
       DumpAndExit, ExitDistributor, ClientsNext, Connect, Send, Shutdown,
       Reset, kernelVars, distVars, innerVars, workVars, dispatchVars,
       ghostVars

\* No process comes back, and only the distributor ends the distributor.
LEMMA NoRestart ==
  ASSUME TypeOK, [Next]_vars
  PROVE  /\ distUp' => distUp
         /\ \A s \in Servers : innerUp'[s] => innerUp[s]
<1>0. innerUp \in [Servers -> BOOLEAN]
  BY DEF TypeOK, KernelTypeOK
<1>1. CASE Distributor
  BY <1>1 DEF Distributor, OfDistributor, DispatchNext, EpollWait, HandleListen, Accept,
              AcceptDone, AcceptFails, HandleRequest, TakeRequest,
              HandleFragment, HandleClose, TakeEvent, WriteToServer,
              WriteToDead, PollNext, StartRound, MonWrite, MonRead,
              MonReadFails, SetDistribution, NextRound, DumpAndExit,
              ExitDistributor, kernelVars
<1>2. CASE Inner
  BY <1>0, <1>2 DEF Inner, OfInner, InnerNext, WorkerNext, MonServerNext, WorkerRead,
              WorkerReply, WorkerEof, MonServe, MonEof, Tick, Crash,
              ExitServer, kernelVars
<1>3. CASE Environment \/ UNCHANGED vars
  BY <1>3 DEF Environment, ClientsNext, Connect, Send, Shutdown, Reset, vars,
              kernelVars
<1> QED
  BY <1>1, <1>2, <1>3 DEF Next, Stopped

-----------------------------------------------------------------------------
(***************************************************************************)
(* The lifetime of a server.  The bound is inductive together with the     *)
(* capacities of the two directions.                                       *)
(***************************************************************************)
LifetimeOf(s) ==
  /\ distUp /\ innerUp[s] => forwarded[s] = AtServer(s)
  /\ forwarded[s] <= WorkCap + 1 + ReplyCap
  /\ Len(workq[s]) <= WorkCap
  /\ Len(replyq[s]) <= ReplyCap

LifetimeInv == \A s \in Servers : LifetimeOf(s)

LEMMA LifetimeInit == Init => LifetimeInv
BY DEF Init, KernelInit, DistributorInit, InnerInit, LifetimeInv, LifetimeOf,
       AtServer, InHand

\* A step that leaves the connections and the worker of s alone.
LEMMA LifetimeKept ==
  ASSUME TypeOK, LifetimeInv, [Next]_vars, NEW s \in Servers,
         workq'[s] = workq[s], replyq'[s] = replyq[s],
         wpc'[s] = wpc[s], forwarded'[s] = forwarded[s]
  PROVE  LifetimeOf(s)'
BY NoRestart DEF LifetimeInv, LifetimeOf, AtServer, InHand

\* What a step of the worker, or the end, of one server s leaves alone.
LEMMA OtherServers ==
  ASSUME TypeOK, NEW s \in Servers, UNCHANGED distVars,
         WorkerRead(s) \/ WorkerReply(s) \/ ExitServer(s),
         NEW t \in Servers, t # s
  PROVE  /\ workq'[t] = workq[t] /\ replyq'[t] = replyq[t]
         /\ wpc'[t] = wpc[t] /\ forwarded'[t] = forwarded[t]
<1>1. /\ workq \in [Servers -> Seq(Message)]
      /\ replyq \in [Servers -> Seq(Message)]
      /\ wpc \in [Servers -> {"read", "reply"}]
  BY DEF TypeOK, KernelTypeOK, InnerTypeOK
<1> QED
  BY <1>1 DEF WorkerRead, WorkerReply, ExitServer, innerVars, distVars

LEMMA LifetimeStep == TypeOK /\ LifetimeInv /\ [Next]_vars => LifetimeInv'
<1> SUFFICES ASSUME TypeOK, LifetimeInv, [Next]_vars, NEW t \in Servers
             PROVE  LifetimeOf(t)'
  BY DEF LifetimeInv
<1>0. /\ workq \in [Servers -> Seq(Message)]
      /\ replyq \in [Servers -> Seq(Message)]
      /\ innerUp \in [Servers -> BOOLEAN]
      /\ wpc \in [Servers -> {"read", "reply"}]
      /\ forwarded \in [Servers -> Nat]
      /\ target \in Servers /\ mess \in Message
      /\ whand \in [Servers -> Message]
  BY DEF TypeOK, KernelTypeOK, DistributorTypeOK, InnerTypeOK
<1>a. /\ Len(workq[t]) \in Nat
      /\ Len(replyq[t]) \in Nat
      /\ forwarded[t] \in Nat
  BY <1>0
<1>b. LifetimeOf(t)
  BY DEF LifetimeInv
<1>c. WorkCap \in Nat /\ ReplyCap \in Nat
  OBVIOUS
<1>1. CASE UNCHANGED <<workq, replyq, wpc, forwarded>>
  BY <1>1, LifetimeKept
<1>2. CASE WriteToServer /\ UNCHANGED innerVars
  <2>1. CASE t = target
    <3>1. /\ Len(workq[t]) < WorkCap
          /\ workq'[t] = Append(workq[t], mess)
          /\ forwarded'[t] = forwarded[t] + 1
          /\ distUp /\ innerUp[t]
          /\ replyq'[t] = replyq[t] /\ wpc'[t] = wpc[t]
      BY <1>0, <1>2, <2>1 DEF WriteToServer, innerVars
    <3>2. Len(workq'[t]) = Len(workq[t]) + 1
      BY <1>0, <3>1
    <3>3. AtServer(t)' = AtServer(t) + 1
      BY <1>a, <3>1, <3>2, RequestAdded
    <3>4. /\ AtServer(t) \in Nat
          /\ AtServer(t) <= Len(workq[t]) + 1 + Len(replyq[t])
      BY <1>a, AtServerCount
    <3>5. /\ forwarded[t] = AtServer(t)
          /\ Len(workq'[t]) <= WorkCap
          /\ Len(replyq[t]) <= ReplyCap
      BY <1>a, <1>b, <3>1, <3>2 DEF LifetimeOf
    <3>6. forwarded'[t] <= WorkCap + 1 + ReplyCap
      <4>1. AtServer(t) + 1 <= WorkCap + 1 + ReplyCap
        BY <1>a, <1>c, <3>1, <3>4, <3>5, RoomLeft
      <4> QED
        BY <3>1, <3>5, <4>1, Zenon
    <3> QED
      BY <3>1, <3>3, <3>5, <3>6 DEF LifetimeOf
  <2>2. CASE t # target
    BY <1>0, <1>2, <2>2, LifetimeKept DEF WriteToServer, innerVars
  <2> QED
    BY <2>1, <2>2
<1>3. ASSUME WorkerRead(t), UNCHANGED distVars
      PROVE  LifetimeOf(t)'
  <2>1. /\ wpc[t] = "read" /\ workq[t] # <<>>
        /\ workq'[t] = Tail(workq[t])
        /\ wpc'[t] = "reply"
        /\ replyq'[t] = replyq[t] /\ forwarded'[t] = forwarded[t]
        /\ UNCHANGED <<distUp, innerUp>>
    BY <1>0, <1>3 DEF WorkerRead, distVars
  <2>2. Len(workq'[t]) = Len(workq[t]) - 1
    BY <1>0, <2>1
  <2>3. AtServer(t)' = AtServer(t)
    BY <1>a, <2>1, <2>2, RequestTaken
  <2> QED
    BY <1>a, <1>b, <2>1, <2>2, <2>3 DEF LifetimeOf
<1>4. ASSUME WorkerReply(t), UNCHANGED distVars
      PROVE  LifetimeOf(t)'
  <2>1. /\ wpc[t] = "reply" /\ wpc'[t] = "read"
        /\ workq'[t] = workq[t] /\ forwarded'[t] = forwarded[t]
        /\ UNCHANGED <<distUp, innerUp>>
        /\ \/ /\ distUp /\ Len(replyq[t]) < ReplyCap
              /\ replyq'[t] = Append(replyq[t], whand[t])
           \/ ~distUp /\ replyq'[t] = replyq[t]
    BY <1>0, <1>4 DEF WorkerReply, distVars
  <2>2. distUp => Len(replyq'[t]) = Len(replyq[t]) + 1
    BY <1>0, <2>1
  <2>3. distUp => AtServer(t)' = AtServer(t)
    BY <1>a, <2>1, <2>2, EchoSent
  <2> QED
    BY <1>a, <1>b, <2>1, <2>2, <2>3 DEF LifetimeOf
<1>5. ASSUME ExitServer(t), UNCHANGED distVars
      PROVE  LifetimeOf(t)'
  <2>1. /\ ~innerUp'[t] /\ workq'[t] = <<>>
        /\ replyq'[t] = replyq[t] /\ forwarded'[t] = forwarded[t]
    BY <1>0, <1>5 DEF ExitServer, distVars
  <2> QED
    BY <1>a, <1>b, <2>1 DEF LifetimeOf
<1>6. CASE Inner
  <2>1. PICK s \in Servers :
          WorkerNext(s) \/ MonServerNext(s) \/ Tick(s) \/ Crash(s)
    BY <1>6 DEF Inner, OfInner, InnerNext
  <2>2. UNCHANGED distVars
    BY <1>6 DEF Inner, OfInner
  <2>3. CASE MonServe(s) \/ Tick(s)
    BY <1>1, <2>2, <2>3 DEF MonServe, Tick, kernelVars, workVars, innerVars,
                            distVars
  <2>4. CASE WorkerRead(s) \/ WorkerReply(s) \/ ExitServer(s)
    BY <1>3, <1>4, <1>5, <2>2, <2>4, OtherServers, LifetimeKept
  <2> QED
    BY <2>1, <2>3, <2>4 DEF WorkerNext, MonServerNext, WorkerEof, MonEof, Crash
<1> QED
  BY <1>1, <1>2, <1>6, WorkFrame DEF Next, Distributor, OfDistributor, Stopped

\* In its whole life a server is given no more requests than fit into its two
\* connections and the hands of its worker.
THEOREM LifetimeCorrect == Spec => []LifetimeBound
<1>1. LifetimeInv => LifetimeBound
  BY DEF LifetimeInv, LifetimeOf, LifetimeBound
<1> QED
  BY <1>1, LifetimeInit, LifetimeStep, TypeCorrect, PTL DEF Spec

-----------------------------------------------------------------------------
(***************************************************************************)
(* The wedge.                                                              *)
(***************************************************************************)

\* Once the dispatcher and a worker write to each other over full connections,
\* only the end of one of the two processes changes that.
THEOREM WedgeCorrect == Spec => WedgeIsFinal
<1>1. TypeOK /\ [Next]_vars
        => (Wedged => Wedged' \/ ~distUp' \/ ~innerUp'[target])
  <2> SUFFICES ASSUME TypeOK, [Next]_vars, Wedged,
                      distUp', innerUp'[target]
               PROVE  Wedged'
    OBVIOUS
  <2>0. /\ wpc \in [Servers -> {"read", "reply"}]
        /\ workq \in [Servers -> Seq(Message)]
        /\ replyq \in [Servers -> Seq(Message)]
        /\ innerUp \in [Servers -> BOOLEAN]
        /\ target \in Servers
    BY DEF TypeOK, KernelTypeOK, DistributorTypeOK, InnerTypeOK
  <2> USE DEF Wedged
  <2>1. CASE UNCHANGED <<opc, target, workq, wpc, replyq>>
    BY <2>1
  <2>2. CASE Distributor
    <3>1. ~DispatchNext
      <4> SUFFICES ASSUME DispatchNext PROVE FALSE
        OBVIOUS
      <4>1. ~WriteToServer /\ ~WriteToDead
        BY DEF WriteToServer, WriteToDead
      <4>2. WriteToServer \/ WriteToDead
        BY DEF DispatchNext, EpollWait, HandleListen, Accept, AcceptDone,
               AcceptFails, HandleRequest, TakeRequest, HandleFragment,
               HandleClose, TakeEvent
      <4> QED
        BY <4>1, <4>2
    <3>2. UNCHANGED <<opc, target, workq, wpc, replyq>>
      BY <2>2, <3>1
         DEF Distributor, OfDistributor, PollNext, StartRound, MonWrite, MonRead,
             MonReadFails, SetDistribution, NextRound, DumpAndExit,
             ExitDistributor, kernelVars, dispatchVars, distVars, innerVars,
             workVars
    <3> QED
      BY <2>1, <3>2
  <2>3. CASE Inner
    <3>1. PICK s \in Servers :
            WorkerNext(s) \/ MonServerNext(s) \/ Tick(s) \/ Crash(s)
      BY <2>3 DEF Inner, OfInner, InnerNext
    <3>2. UNCHANGED <<opc, target>>
      BY <2>3 DEF Inner, OfInner, distVars
    <3>3. CASE MonServe(s) \/ Tick(s)
      BY <2>1, <3>2, <3>3 DEF MonServe, Tick, kernelVars, workVars, innerVars
    <3>4. CASE WorkerRead(s)
      BY <2>0, <3>2, <3>4 DEF WorkerRead
    <3>5. CASE WorkerReply(s)
      BY <2>0, <3>2, <3>5 DEF WorkerReply
    <3>6. CASE ExitServer(s)
      BY <2>0, <3>2, <3>6 DEF ExitServer, innerVars
    <3> QED
      BY <3>1, <3>3, <3>4, <3>5, <3>6
         DEF WorkerNext, MonServerNext, WorkerEof, MonEof, Crash
  <2>4. CASE Environment
    BY <2>1, <2>4 DEF Environment, ClientsNext, Connect, Send, Shutdown, Reset,
                      workVars, distVars, innerVars
  <2>5. CASE UNCHANGED vars
    BY <2>1, <2>5 DEF vars, kernelVars, distVars, innerVars
  <2> QED
    BY <2>2, <2>3, <2>4, <2>5 DEF Next, Stopped
<1> QED
  BY <1>1, TypeCorrect, PTL DEF Spec, WedgeIsFinal

-----------------------------------------------------------------------------
(***************************************************************************)
(* The tags.  A message is only made for an accepted connection, which may *)
(* close but is not accepted again: its tag stays right while it is open.  *)
(***************************************************************************)
Tagged(m) ==
  m.conn \in Conns =>
    /\ cst[m.conn] \in {"open", "closed"}
    /\ cst[m.conn] = "open" => m.fd = fdOf[m.conn]

AllTagged(q) == \A i \in DOMAIN q : Tagged(q[i])

TagInv ==
  /\ Tagged(mess)
  /\ \A s \in Servers :
       Tagged(whand[s]) /\ AllTagged(workq[s]) /\ AllTagged(replyq[s])

LEMMA NoMessageTagged == Tagged(NoMessage)
BY KernelAssumption DEF Tagged, NoMessage

LEMMA TagInit == Init => TagInv
BY NoMessageTagged
   DEF Init, KernelInit, DistributorInit, InnerInit, TagInv, AllTagged

\* No step spoils the tag of a message that is there.
LEMMA TagKept ==
  ASSUME TypeOK, [Next]_vars, NEW m \in Message, Tagged(m)
  PROVE  Tagged(m)'
<1>0. cst \in [Conns -> ConnState] /\ fdOf \in [Conns -> Nat]
  BY DEF TypeOK, KernelTypeOK, DistributorTypeOK
<1> USE DEF Tagged
<1>1. CASE UNCHANGED <<cst, fdOf>>
  BY <1>1
<1>2. ASSUME NEW c \in Conns, Accept(c)
      PROVE  Tagged(m)'
  BY <1>0, <1>2 DEF Accept, Queued
<1>3. ASSUME NEW c \in Conns, HandleClose(c)
      PROVE  Tagged(m)'
  BY <1>0, <1>3 DEF HandleClose, TakeEvent, Open
<1>4. ASSUME NEW c \in Conns, Connect(c), UNCHANGED distVars
      PROVE  Tagged(m)'
  BY <1>0, <1>4 DEF Connect, distVars
<1>5. CASE Distributor
  BY <1>1, <1>2, <1>3, <1>5
     DEF Distributor, OfDistributor, DispatchNext, EpollWait, HandleListen, AcceptDone,
         AcceptFails, HandleRequest, TakeRequest, HandleFragment, TakeEvent,
         WriteToServer, WriteToDead, PollNext, StartRound, MonWrite, MonRead,
         MonReadFails, SetDistribution, NextRound, DumpAndExit,
         ExitDistributor, kernelVars, connVars, tableVars, distVars,
         dispatchVars
<1>6. CASE Inner
  <2>1. UNCHANGED cst
    BY <1>6 DEF Inner, OfInner, InnerNext, WorkerNext, MonServerNext, WorkerRead,
                WorkerReply, WorkerEof, MonServe, MonEof, Tick, Crash,
                ExitServer, kernelVars, connVars
  <2> QED
    BY <1>1, <1>6, <2>1 DEF Inner, OfInner, distVars
<1>7. CASE Environment
  BY <1>1, <1>4, <1>7
     DEF Environment, ClientsNext, Send, Shutdown, Reset, distVars
<1>8. CASE UNCHANGED vars
  BY <1>1, <1>8 DEF vars, kernelVars, distVars
<1> QED
  BY <1>5, <1>6, <1>7, <1>8 DEF Next, Stopped

\* The same of the messages of a queue, and of one that is added to it.
LEMMA QueueKept ==
  ASSUME TypeOK, [Next]_vars, NEW q \in Seq(Message), AllTagged(q)
  PROVE  /\ (\A i \in DOMAIN q : Tagged(q[i])')
         /\ (\A m \in Message : Tagged(m) =>
               \A i \in DOMAIN Append(q, m) : Tagged(Append(q, m)[i])')
         /\ (q # <<>> =>
               /\ Head(q) \in Message /\ Tagged(Head(q))'
               /\ \A i \in DOMAIN Tail(q) : Tagged(Tail(q)[i])')
<1>1. \A i \in DOMAIN q : q[i] \in Message /\ Tagged(q[i])
  BY DEF AllTagged
<1>2. \A i \in DOMAIN q : Tagged(q[i])'
  BY <1>1, TagKept
<1>3. ASSUME NEW m \in Message, Tagged(m), NEW i \in DOMAIN Append(q, m)
      PROVE  Tagged(Append(q, m)[i])'
  <2>1. Append(q, m)[i] = m \/ (i \in DOMAIN q /\ Append(q, m)[i] = q[i])
    OBVIOUS
  <2>2. Append(q, m)[i] \in Message /\ Tagged(Append(q, m)[i])
    BY <1>1, <1>3, <2>1
  <2> QED
    BY <2>2, TagKept
<1>4. ASSUME q # <<>>
      PROVE  /\ Head(q) \in Message /\ Tagged(Head(q))'
             /\ \A i \in DOMAIN Tail(q) : Tagged(Tail(q)[i])'
  <2>1. 1 \in DOMAIN q /\ Head(q) = q[1]
    BY <1>4
  <2>2. \A i \in DOMAIN Tail(q) : i + 1 \in DOMAIN q /\ Tail(q)[i] = q[i + 1]
    BY <1>4
  <2> QED
    BY <1>1, <1>2, <2>1, <2>2
<1> QED
  BY <1>2, <1>3, <1>4

LEMMA TagStep == TypeOK /\ TagInv /\ [Next]_vars => TagInv'
<1> SUFFICES ASSUME TypeOK, TagInv, [Next]_vars
             PROVE  TagInv'
  OBVIOUS
<1>0. /\ workq \in [Servers -> Seq(Message)]
      /\ replyq \in [Servers -> Seq(Message)]
      /\ mess \in Message /\ whand \in [Servers -> Message]
      /\ target \in Servers
  BY DEF TypeOK, KernelTypeOK, DistributorTypeOK, InnerTypeOK
<1> DEFINE Right(m) ==
      m.conn \in Conns =>
        /\ cst'[m.conn] \in {"open", "closed"}
        /\ cst'[m.conn] = "open" => m.fd = fdOf'[m.conn]
           AllRight(q) == \A i \in DOMAIN q : Right(q[i])
<1>b. \A m \in Message : Tagged(m) => Right(m)
  BY TagKept DEF Tagged
<1>c. ASSUME NEW q \in Seq(Message), AllTagged(q)
      PROVE  /\ AllRight(q)
             /\ \A m \in Message : Tagged(m) => AllRight(Append(q, m))
             /\ q # <<>> => Right(Head(q)) /\ AllRight(Tail(q))
  BY <1>c, QueueKept DEF Tagged
<1>d. /\ Right(mess)
      /\ \A s \in Servers : /\ Right(whand[s])
                            /\ AllRight(workq[s]) /\ AllRight(replyq[s])
  BY <1>0, <1>b, <1>c DEF TagInv
<1>e. TagInv' <=> /\ Right(mess')
                  /\ \A s \in Servers :
                       /\ Right(whand'[s])
                       /\ AllRight(workq'[s]) /\ AllRight(replyq'[s])
  BY DEF TagInv, Tagged, AllTagged
<1>f. Right(NoMessage)
  BY KernelAssumption DEF NoMessage
<1> HIDE DEF Right, AllRight
<1>1. CASE UNCHANGED <<mess, whand, workq, replyq>>
  BY <1>1, <1>d, <1>e
<1>2. ASSUME NEW c \in Conns, HandleRequest(c), UNCHANGED innerVars
      PROVE  TagInv'
  <2>1. mess' = [fd |-> fdOf[c], conn |-> c, seq |-> taken'[c]]
        /\ cst[c] = "open"
        /\ UNCHANGED <<whand, workq, replyq>>
        /\ UNCHANGED <<cst, fdOf>>
    BY <1>2 DEF HandleRequest, TakeRequest, TakeEvent, Open, innerVars,
                workVars, tableVars
  <2>2. Right(mess')
    BY <2>1 DEF Right
  <2> QED
    BY <1>d, <1>e, <2>1, <2>2
<1>3. CASE WriteToServer /\ UNCHANGED innerVars
  <2>1. /\ mess' = NoMessage /\ UNCHANGED <<whand, replyq>>
        /\ workq' = [workq EXCEPT ![target] = Append(@, mess)]
    BY <1>3 DEF WriteToServer, EndWrite, innerVars
  <2>2. AllRight(Append(workq[target], mess))
    BY <1>0, <1>c DEF TagInv
  <2> QED
    BY <1>0, <1>d, <1>e, <1>f, <2>1, <2>2
<1>4. CASE WriteToDead /\ UNCHANGED innerVars
  <2>1. mess' = NoMessage /\ UNCHANGED <<whand, workq, replyq>>
    BY <1>4 DEF WriteToDead, EndWrite, innerVars, kernelVars
  <2> QED
    BY <1>d, <1>e, <1>f, <2>1
<1>5. ASSUME NEW s \in Servers, WorkerRead(s), UNCHANGED distVars
      PROVE  TagInv'
  <2>1. /\ workq[s] # <<>> /\ UNCHANGED <<mess, replyq>>
        /\ whand' = [whand EXCEPT ![s] = Head(workq[s])]
        /\ workq' = [workq EXCEPT ![s] = Tail(@)]
    BY <1>5 DEF WorkerRead, distVars
  <2>2. Right(Head(workq[s])) /\ AllRight(Tail(workq[s]))
    BY <1>0, <1>c, <2>1 DEF TagInv
  <2> QED
    BY <1>0, <1>d, <1>e, <2>1, <2>2
<1>6. ASSUME NEW s \in Servers, WorkerReply(s), UNCHANGED distVars
      PROVE  TagInv'
  <2>1. /\ UNCHANGED <<mess, workq>>
        /\ whand' = [whand EXCEPT ![s] = NoMessage]
        /\ \/ replyq' = [replyq EXCEPT ![s] = Append(@, whand[s])]
           \/ UNCHANGED replyq
    BY <1>6 DEF WorkerReply, distVars
  <2>2. AllRight(Append(replyq[s], whand[s]))
    BY <1>0, <1>c DEF TagInv
  <2> QED
    BY <1>0, <1>d, <1>e, <1>f, <2>1, <2>2
<1>7. ASSUME NEW s \in Servers, ExitServer(s), UNCHANGED distVars
      PROVE  TagInv'
  <2>1. /\ UNCHANGED <<mess, whand, replyq>>
        /\ workq' = [workq EXCEPT ![s] = <<>>]
    BY <1>7 DEF ExitServer, distVars, innerVars
  <2>2. AllRight(<<>>)
    BY DEF AllRight
  <2> QED
    BY <1>0, <1>d, <1>e, <2>1, <2>2
<1>8. CASE Inner
  <2>1. PICK s \in Servers :
          WorkerNext(s) \/ MonServerNext(s) \/ Tick(s) \/ Crash(s)
    BY <1>8 DEF Inner, OfInner, InnerNext
  <2>2. UNCHANGED distVars
    BY <1>8 DEF Inner, OfInner
  <2>3. CASE MonServe(s) \/ Tick(s)
    BY <1>1, <2>2, <2>3 DEF MonServe, Tick, kernelVars, workVars, innerVars,
                            distVars
  <2> QED
    BY <1>5, <1>6, <1>7, <2>1, <2>2, <2>3
       DEF WorkerNext, MonServerNext, WorkerEof, MonEof, Crash
<1>9. CASE Distributor
  BY <1>1, <1>2, <1>3, <1>4, <1>9
     DEF Distributor, OfDistributor, DispatchNext, EpollWait, HandleListen, Accept,
         AcceptDone, AcceptFails, HandleFragment, HandleClose, PollNext,
         StartRound, MonWrite, MonRead, MonReadFails, SetDistribution,
         NextRound, DumpAndExit, ExitDistributor, kernelVars, workVars,
         innerVars, messVars, dispatchVars, distVars
<1>10. CASE Environment \/ UNCHANGED vars
  BY <1>1, <1>10 DEF Environment, ClientsNext, Connect, Send, Shutdown, Reset,
                     vars, kernelVars, workVars, distVars, innerVars
<1> QED
  BY <1>8, <1>9, <1>10 DEF Next, Stopped

\* However long a request waits and wherever it is, the descriptor it carries
\* is the one of the client that sent it, if that client is still connected.
THEOREM TagsCorrect == Spec => []TagsRoutable
<1>1. TypeOK /\ TagInv => TagsRoutable
  <2> SUFFICES ASSUME TypeOK, TagInv, NEW s \in Servers,
                 NEW m \in {mess, whand[s]}
                             \cup {workq[s][i] : i \in DOMAIN workq[s]}
                             \cup {replyq[s][i] : i \in DOMAIN replyq[s]},
                 m.conn \in Conns, cst[m.conn] = "open"
               PROVE  m.fd = fdOf[m.conn]
    BY DEF TagsRoutable
  <2>1. Tagged(m)
    BY DEF TagInv, AllTagged
  <2> QED
    BY <2>1 DEF Tagged
<1> QED
  BY <1>1, TagInit, TagStep, TypeCorrect, PTL DEF Spec

-----------------------------------------------------------------------------
(***************************************************************************)
(* The counts.  Every request taken from a client and not answered is in   *)
(* one message: a step that moves it takes one place from one of the sets  *)
(* InFlight counts and adds one to another.                                *)
(***************************************************************************)
\* The number of requests of c in the message m.
Carries(m, c) == IF m.conn = c THEN 1 ELSE 0

LEMMA CarriesType == \A m, c : Carries(m, c) \in {0, 1}
BY DEF Carries

LEMMA CarriedMembers ==
  ASSUME NEW q, NEW c, NEW s \in Servers, NEW i
  PROVE  <<s, i>> \in CarriedBy(q, c) <=> i \in DOMAIN q[s] /\ q[s][i].conn = c
BY DEF CarriedBy

LEMMA CarriedPairs ==
  ASSUME NEW q, NEW c, NEW x \in CarriedBy(q, c)
  PROVE  \E s \in Servers : \E i \in DOMAIN q[s] :
           x = <<s, i>> /\ q[s][i].conn = c
BY DEF CarriedBy

LEMMA CarriedFinite ==
  ASSUME NEW q \in [Servers -> Seq(Message)], NEW c, NEW cap \in Nat,
         \A s \in Servers : Len(q[s]) <= cap
  PROVE  IsFiniteSet(CarriedBy(q, c))
<1>1. IsFiniteSet(Servers) /\ IsFiniteSet(1 .. cap)
  BY FS_Interval, KernelAssumption DEF Servers
<1>2. IsFiniteSet(Servers \X (1 .. cap))
  BY <1>1, FS_Product
<1>3. CarriedBy(q, c) \subseteq Servers \X (1 .. cap)
  <2> SUFFICES ASSUME NEW x \in CarriedBy(q, c)
               PROVE  x \in Servers \X (1 .. cap)
    OBVIOUS
  <2>0. PICK s \in Servers : \E i \in DOMAIN q[s] : x = <<s, i>>
    BY CarriedPairs
  <2>1. PICK i \in DOMAIN q[s] : x = <<s, i>>
    BY <2>0
  <2>2. i \in 1 .. cap
    <3>1. q[s] \in Seq(Message) /\ Len(q[s]) <= cap
      OBVIOUS
    <3> QED
      BY <3>1
  <2> QED
    BY <2>1, <2>2
<1> QED
  BY <1>2, <1>3, FS_Subset

LEMMA HeldFinite ==
  ASSUME NEW h, NEW c
  PROVE  IsFiniteSet(HeldBy(h, c))
<1>1. IsFiniteSet(Servers)
  BY FS_Interval, KernelAssumption DEF Servers
<1> QED
  BY <1>1, FS_Subset DEF HeldBy

\* A message is added to a queue.
LEMMA CarriedAppend ==
  ASSUME NEW q \in [Servers -> Seq(Message)], NEW c, NEW s \in Servers,
         NEW m \in Message, IsFiniteSet(CarriedBy(q, c)),
         NEW r, r[s] = Append(q[s], m),
         \A t \in Servers : t # s => r[t] = q[t]
  PROVE  /\ IsFiniteSet(CarriedBy(r, c))
         /\ Cardinality(CarriedBy(r, c)) =
              Cardinality(CarriedBy(q, c)) + Carries(m, c)
<1> DEFINE n == Len(q[s]) + 1
<1>1. q[s] \in Seq(Message) /\ r[s] = Append(q[s], m)
  OBVIOUS
<1>2. n \notin DOMAIN q[s] /\ DOMAIN r[s] = DOMAIN q[s] \cup {n}
  BY <1>1
<1>3. r[s][n] = m /\ \A i \in DOMAIN q[s] : r[s][i] = q[s][i]
  BY <1>1
<1> HIDE DEF n
<1>4. \A t \in Servers : t # s => r[t] = q[t]
  OBVIOUS
<1>5. ASSUME NEW t \in Servers, NEW i
      PROVE  <<t, i>> \in CarriedBy(r, c) <=>
               \/ <<t, i>> \in CarriedBy(q, c)
               \/ t = s /\ i = n /\ m.conn = c
  <2>1. /\ <<t, i>> \in CarriedBy(r, c)
             <=> i \in DOMAIN r[t] /\ r[t][i].conn = c
        /\ <<t, i>> \in CarriedBy(q, c)
             <=> i \in DOMAIN q[t] /\ q[t][i].conn = c
    <3>1. <<t, i>> \in CarriedBy(r, c) <=> i \in DOMAIN r[t] /\ r[t][i].conn = c
      BY DEF CarriedBy
    <3>2. <<t, i>> \in CarriedBy(q, c) <=> i \in DOMAIN q[t] /\ q[t][i].conn = c
      BY DEF CarriedBy
    <3> QED
      BY <3>1, <3>2
  <2>2. CASE t # s
    BY <1>4, <2>1, <2>2, Zenon
  <2>3. CASE t = s
    <3>1. CASE i = n
      BY <1>2, <1>3, <2>1, <2>3, <3>1, Zenon
    <3>2. CASE i # n
      <4>1. i \in DOMAIN r[s] <=> i \in DOMAIN q[s]
        BY <1>2, <3>2, Zenon
      <4>2. i \in DOMAIN q[s] => r[s][i] = q[s][i]
        BY <1>3, Zenon
      <4> QED
        BY <2>1, <2>3, <3>2, <4>1, <4>2, Zenon
    <3> QED
      BY <3>1, <3>2
  <2> QED
    BY <2>2, <2>3
<1>6. <<s, n>> \notin CarriedBy(q, c)
  BY <1>2, CarriedMembers
<1>7. \A x \in CarriedBy(r, c) \cup CarriedBy(q, c) :
        \E t \in Servers : \E i : x = <<t, i>>
  BY CarriedPairs
<1>8. CASE m.conn = c
  <2>1. CarriedBy(r, c) = CarriedBy(q, c) \cup {<<s, n>>}
    <3>1. ASSUME NEW x \in CarriedBy(r, c)
          PROVE  x \in CarriedBy(q, c) \cup {<<s, n>>}
      <4>1. PICK t \in Servers : \E i : x = <<t, i>>
        BY <1>7
      <4>2. PICK i : x = <<t, i>>
        BY <4>1
      <4> QED
        BY <1>5, <3>1, <4>2
    <3>2. ASSUME NEW x \in CarriedBy(q, c)
          PROVE  x \in CarriedBy(r, c)
      <4>1. PICK t \in Servers : \E i : x = <<t, i>>
        BY <1>7
      <4>2. PICK i : x = <<t, i>>
        BY <4>1
      <4> QED
        BY <1>5, <3>2, <4>2
    <3>3. <<s, n>> \in CarriedBy(r, c)
      BY <1>5, <1>8
    <3> QED
      BY <3>1, <3>2, <3>3
  <2>2. /\ IsFiniteSet(CarriedBy(r, c))
        /\ Cardinality(CarriedBy(r, c)) = Cardinality(CarriedBy(q, c)) + 1
    BY <1>6, <2>1, FS_AddElement
  <2> QED
    BY <1>8, <2>2 DEF Carries
<1>9. CASE m.conn # c
  <2>1. CarriedBy(r, c) = CarriedBy(q, c)
    <3>1. ASSUME NEW x \in CarriedBy(r, c) \cup CarriedBy(q, c)
          PROVE  x \in CarriedBy(r, c) <=> x \in CarriedBy(q, c)
      <4>1. PICK t \in Servers : \E i : x = <<t, i>>
        BY <1>7
      <4>2. PICK i : x = <<t, i>>
        BY <4>1
      <4> QED
        BY <1>5, <1>9, <4>2
    <3> QED
      BY <3>1
  <2>2. Cardinality(CarriedBy(q, c)) \in Nat
    BY FS_CardinalityType
  <2> QED
    BY <1>9, <2>1, <2>2 DEF Carries
<1> QED
  BY <1>8, <1>9

\* The first message of a queue is taken from it.
LEMMA CarriedTail ==
  ASSUME NEW q \in [Servers -> Seq(Message)], NEW c, NEW s \in Servers,
         q[s] # << >>, IsFiniteSet(CarriedBy(q, c)),
         NEW r, r[s] = Tail(q[s]),
         \A t \in Servers : t # s => r[t] = q[t]
  PROVE  /\ IsFiniteSet(CarriedBy(r, c))
         /\ Cardinality(CarriedBy(q, c)) =
              Cardinality(CarriedBy(r, c))
                + Carries(Head(q[s]), c)
<1>1. q[s] \in Seq(Message) /\ r[s] = Tail(q[s])
  OBVIOUS
<1>2. /\ 1 \in DOMAIN q[s] /\ q[s][1] = Head(q[s]) /\ DOMAIN q[s] \subseteq Nat
      /\ \A i \in Nat : i \in DOMAIN r[s] <=> i + 1 \in DOMAIN q[s] /\ i # 0
      /\ \A i \in DOMAIN r[s] : i \in Nat /\ i # 0 /\ r[s][i] = q[s][i + 1]
  BY <1>1
<1>3. \A t \in Servers : t # s => r[t] = q[t]
  OBVIOUS
<1> DEFINE S == CarriedBy(q, c) \ {<<s, 1>>}
           T == CarriedBy(r, c)
           f == [x \in S |-> IF x[1] = s THEN <<s, x[2] - 1>> ELSE x]
<1>4. ASSUME NEW x \in S
      PROVE  \/ \E i \in Nat : /\ i # 0 /\ x = <<s, i + 1>> /\ f[x] = <<s, i>>
                               /\ <<s, i>> \in T
             \/ x[1] # s /\ f[x] = x /\ x \in T
  <2>0. PICK t \in Servers :
          \E i \in DOMAIN q[t] : x = <<t, i>> /\ q[t][i].conn = c
    BY CarriedPairs
  <2>1. PICK i \in DOMAIN q[t] : x = <<t, i>> /\ q[t][i].conn = c
    BY <2>0
  <2>2. CASE t = s
    <3>1. i \in Nat /\ i # 1 /\ i # 0
      <4>1. i \in DOMAIN q[s]
        BY <2>1, <2>2
      <4>2. i # 1
        BY <2>1, <2>2
      <4> QED
        BY <1>1, <4>1, <4>2
    <3>2. i - 1 \in Nat /\ i - 1 # 0 /\ (i - 1) + 1 = i
      BY <3>1
    <3>3. i - 1 \in DOMAIN r[s] /\ r[s][i - 1] = q[s][i]
      BY <1>2, <2>1, <2>2, <3>2
    <3>4. <<s, i - 1>> \in T
      BY <2>1, <2>2, <3>3, CarriedMembers
    <3>5. x = <<s, (i - 1) + 1>> /\ f[x] = <<s, i - 1>>
      BY <2>1, <2>2, <3>2
    <3> QED
      BY <3>2, <3>4, <3>5
  <2>3. CASE t # s
    <3>1. x[1] # s /\ f[x] = x
      BY <2>1, <2>3
    <3>2. x \in T
      BY <1>3, <2>1, <2>3, CarriedMembers
    <3> QED
      BY <3>1, <3>2
  <2> QED
    BY <2>2, <2>3
<1>5. ASSUME NEW y \in T
      PROVE  \E x \in S : f[x] = y
  <2>0. PICK t \in Servers :
          \E i \in DOMAIN r[t] : y = <<t, i>> /\ r[t][i].conn = c
    BY CarriedPairs
  <2>1. PICK i \in DOMAIN r[t] : y = <<t, i>> /\ r[t][i].conn = c
    BY <2>0
  <2>2. CASE t = s
    <3>1. i \in Nat /\ i # 0 /\ i + 1 \in DOMAIN q[s] /\ r[s][i] = q[s][i + 1]
      BY <1>2, <2>1, <2>2
    <3>2. <<s, i + 1>> \in S
      <4>1. <<s, i + 1>> \in CarriedBy(q, c)
        BY <2>1, <2>2, <3>1, CarriedMembers
      <4>2. <<s, i + 1>> # <<s, 1>>
        BY <3>1
      <4> QED
        BY <4>1, <4>2
    <3>3. f[<<s, i + 1>>] = <<s, (i + 1) - 1>> /\ (i + 1) - 1 = i
      BY <3>1, <3>2
    <3> QED
      BY <2>1, <2>2, <3>2, <3>3
  <2>3. CASE t # s
    <3>1. y \in S /\ y[1] # s
      BY <1>3, <2>1, <2>3, CarriedMembers
    <3> QED
      BY <3>1
  <2> QED
    BY <2>2, <2>3
<1>6. f \in [S -> T]
  BY <1>4
<1>7. ASSUME NEW x \in S, NEW y \in S, f[x] = f[y]
      PROVE  x = y
  <2>1. CASE x[1] # s /\ f[x] = x
    <3>1. CASE y[1] # s /\ f[y] = y
      BY <1>7, <2>1, <3>1
    <3>2. ASSUME NEW j \in Nat, y = <<s, j + 1>>, f[y] = <<s, j>>
          PROVE  FALSE
      <4>1. x = <<s, j>>
        BY <1>7, <2>1, <3>2
      <4> QED
        BY <2>1, <4>1
    <3> QED
      BY <1>4, <3>1, <3>2
  <2>2. ASSUME NEW i \in Nat, x = <<s, i + 1>>, f[x] = <<s, i>>
        PROVE  x = y
    <3>1. CASE y[1] # s /\ f[y] = y
      <4>1. y = <<s, i>>
        BY <1>7, <2>2, <3>1
      <4> QED
        BY <3>1, <4>1
    <3>2. ASSUME NEW j \in Nat, y = <<s, j + 1>>, f[y] = <<s, j>>
          PROVE  x = y
      <4>1. i = j
        BY <1>7, <2>2, <3>2
      <4> QED
        BY <2>2, <3>2, <4>1
    <3> QED
      BY <1>4, <3>1, <3>2
  <2> QED
    BY <1>4, <2>1, <2>2
<1> HIDE DEF f
<1>8. f \in Surjection(S, T) /\ f \in Injection(S, T)
  BY <1>5, <1>6, <1>7 DEF Surjection, Injection, IsInjective
<1>9. /\ IsFiniteSet(S)
      /\ Cardinality(S) = IF <<s, 1>> \in CarriedBy(q, c)
                          THEN Cardinality(CarriedBy(q, c)) - 1
                          ELSE Cardinality(CarriedBy(q, c))
  BY FS_RemoveElement
<1> HIDE DEF S, T
<1>10. IsFiniteSet(T) /\ Cardinality(T) = Cardinality(S)
  BY <1>8, <1>9, FS_Surjection
<1>11. <<s, 1>> \in CarriedBy(q, c) <=> Head(q[s]).conn = c
  BY <1>2, CarriedMembers
<1>12. Cardinality(CarriedBy(q, c)) \in Nat
  BY FS_CardinalityType
<1> QED
  BY <1>9, <1>10, <1>11, <1>12 DEF T, Carries

\* A queue is dropped.
LEMMA CarriedDrop ==
  ASSUME NEW q \in [Servers -> Seq(Message)], NEW c, NEW s \in Servers,
         IsFiniteSet(CarriedBy(q, c)), NEW r, r[s] = << >>,
         \A t \in Servers : t # s => r[t] = q[t]
  PROVE  /\ IsFiniteSet(CarriedBy(r, c))
         /\ Cardinality(CarriedBy(r, c)) <= Cardinality(CarriedBy(q, c))
<1>1. CarriedBy(r, c) \subseteq CarriedBy(q, c)
  <2> SUFFICES ASSUME NEW x \in CarriedBy(r, c)
               PROVE  x \in CarriedBy(q, c)
    OBVIOUS
  <2>0. PICK t \in Servers :
          \E i \in DOMAIN r[t] : x = <<t, i>> /\ r[t][i].conn = c
    BY CarriedPairs
  <2>1. PICK i \in DOMAIN r[t] : x = <<t, i>> /\ r[t][i].conn = c
    BY <2>0
  <2>2. t # s /\ r[t] = q[t]
    BY <2>1
  <2> QED
    BY <2>1, <2>2, CarriedMembers
<1> QED
  BY <1>1, FS_Subset

\* A server whose hands hold no request of c is given a message.
LEMMA HeldMore ==
  ASSUME NEW h, NEW g, NEW c, NEW s \in Servers, h[s].conn # c,
         \A t \in Servers : t # s => g[t] = h[t]
  PROVE  Cardinality(HeldBy(g, c)) =
           Cardinality(HeldBy(h, c)) + Carries(g[s], c)
<1>1. Cardinality(HeldBy(h, c)) \in Nat /\ IsFiniteSet(HeldBy(h, c))
  BY HeldFinite, FS_CardinalityType
<1>2. CASE g[s].conn = c
  <2>1. HeldBy(g, c) = HeldBy(h, c) \cup {s} /\ s \notin HeldBy(h, c)
    BY <1>2 DEF HeldBy
  <2> QED
    BY <1>1, <1>2, <2>1, FS_AddElement DEF Carries
<1>3. CASE g[s].conn # c
  <2>1. HeldBy(g, c) = HeldBy(h, c)
    BY <1>3 DEF HeldBy
  <2> QED
    BY <1>1, <1>3, <2>1 DEF Carries
<1> QED
  BY <1>2, <1>3

(***************************************************************************)
(* The number of messages that carry a request of c, as a sum.             *)
(***************************************************************************)
LEMMA FlightSum ==
  ASSUME NEW c
  PROVE  /\ InFlight(c) = Cardinality(CarriedBy(workq, c))
                            + Cardinality(CarriedBy(replyq, c))
                            + Cardinality(HeldBy(whand, c)) + Carries(mess, c)
         /\ InFlight(c)' = Cardinality(CarriedBy(workq', c))
                             + Cardinality(CarriedBy(replyq', c))
                             + Cardinality(HeldBy(whand', c))
                             + Carries(mess', c)
BY DEF InFlight, Carries, CarriedBy, HeldBy

LEMMA QueuesFinite ==
  ASSUME TypeOK, LifetimeInv, NEW c
  PROVE  IsFiniteSet(CarriedBy(workq, c)) /\ IsFiniteSet(CarriedBy(replyq, c))
<1>1. /\ workq \in [Servers -> Seq(Message)]
      /\ replyq \in [Servers -> Seq(Message)]
  BY DEF TypeOK, KernelTypeOK
<1>2. \A s \in Servers : Len(workq[s]) <= WorkCap /\ Len(replyq[s]) <= ReplyCap
  BY DEF LifetimeInv, LifetimeOf
<1>3. WorkCap \in Nat /\ ReplyCap \in Nat
  OBVIOUS
<1> QED
  BY <1>1, <1>2, <1>3, CarriedFinite

CountOf(c) ==
  /\ owed[c] >= InFlight(c)
  /\ distUp /\ (\A s \in Servers : innerUp[s]) => owed[c] = InFlight(c)

\* The message of the dispatcher and the hands of a worker are empty when it
\* has nothing to write.
HandsEmpty ==
  /\ opc = "write" => mess.conn \in Conns
  /\ opc # "write" => mess = NoMessage
  /\ \A s \in Servers : wpc[s] = "read" => whand[s] = NoMessage

CountInv == HandsEmpty /\ NothingLostOrDoubled

LEMMA EmptyMessage == NoMessage.conn = NoConn /\ NoConn \notin Conns
BY DEF NoMessage

LEMMA HandsInit == Init => HandsEmpty
BY DEF Init, DistributorInit, InnerInit, HandsEmpty

LEMMA CountInit == Init => NothingLostOrDoubled
<1> SUFFICES ASSUME Init, NEW c \in Conns
             PROVE  owed[c] = 0 /\ InFlight(c) = 0
  BY DEF NothingLostOrDoubled
<1>1. /\ \A s \in Servers : workq[s] = << >> /\ replyq[s] = << >>
      /\ \A s \in Servers : whand[s] = NoMessage
      /\ mess = NoMessage /\ owed[c] = 0
  BY DEF Init, KernelInit, DistributorInit, InnerInit
<1>2. CarriedBy(workq, c) = {} /\ CarriedBy(replyq, c) = {}
  BY <1>1 DEF CarriedBy
<1>3. HeldBy(whand, c) = {} /\ Carries(mess, c) = 0
  BY <1>1, EmptyMessage DEF HeldBy, Carries
<1>4. Cardinality({}) = 0
  BY FS_EmptySet
<1>5. InFlight(c) = 0 + 0 + 0 + 0
  BY <1>2, <1>3, <1>4, FlightSum
<1> QED
  BY <1>1, <1>5

LEMMA HandsStep == TypeOK /\ HandsEmpty /\ [Next]_vars => HandsEmpty'
<1> SUFFICES ASSUME TypeOK, HandsEmpty, [Next]_vars PROVE HandsEmpty'
  OBVIOUS
<1>0. /\ wpc \in [Servers -> {"read", "reply"}]
      /\ whand \in [Servers -> Message]
  BY DEF TypeOK, InnerTypeOK
<1>1. ASSUME Distributor
      PROVE  /\ opc' = "write" => mess'.conn \in Conns
             /\ opc' # "write" => mess' = NoMessage
             /\ UNCHANGED <<wpc, whand>>
  <2>1. UNCHANGED <<wpc, whand>>
    BY <1>1 DEF Distributor, OfDistributor, innerVars
  <2>2. CASE PollNext
    BY <2>1, <2>2 DEF HandsEmpty, PollNext, StartRound, MonWrite, MonRead,
             MonReadFails, SetDistribution, NextRound, DumpAndExit,
             ExitDistributor, distVars, dispatchVars
  <2>3. CASE DispatchNext
    BY <2>1, <2>3 DEF HandsEmpty, DispatchNext, EpollWait, HandleListen,
             Accept, AcceptDone, AcceptFails, HandleRequest, TakeRequest,
             HandleFragment, HandleClose, TakeEvent, WriteToServer,
             WriteToDead, EndWrite, NextEvent, messVars, distVars,
             ExitDistributor
  <2> QED
    BY <1>1, <2>1, <2>2, <2>3 DEF Distributor, OfDistributor
<1>2. ASSUME Inner
      PROVE  /\ UNCHANGED <<opc, mess>>
             /\ \A s \in Servers : wpc'[s] = "read" => whand'[s] = NoMessage
  <2>1. UNCHANGED <<opc, mess>>
    BY <1>2 DEF Inner, OfInner, distVars
  <2>2. PICK s \in Servers :
          WorkerNext(s) \/ MonServerNext(s) \/ Tick(s) \/ Crash(s)
    BY <1>2 DEF Inner, OfInner, InnerNext
  <2>3. CASE WorkerRead(s) \/ WorkerReply(s)
    BY <1>0, <2>1, <2>3 DEF HandsEmpty, WorkerRead, WorkerReply
  <2>4. CASE UNCHANGED <<wpc, whand>>
    BY <2>1, <2>4 DEF HandsEmpty
  <2> QED
    BY <2>2, <2>3, <2>4 DEF WorkerNext, MonServerNext, WorkerEof, MonEof,
             MonServe, Tick, Crash, ExitServer, innerVars
<1>3. CASE Environment \/ UNCHANGED vars
  BY <1>3 DEF Environment, vars, distVars, innerVars, HandsEmpty
<1> QED
  BY <1>1, <1>2, <1>3 DEF Next, Stopped, HandsEmpty

-----------------------------------------------------------------------------
\* The two counts of c change by the same number.
LEMMA CountBalance ==
  ASSUME TypeOK, [Next]_vars, NEW c \in Conns, CountOf(c),
         InFlight(c) \in Int, InFlight(c)' \in Int, owed'[c] \in Int,
         owed'[c] - owed[c] = InFlight(c)' - InFlight(c)
  PROVE  CountOf(c)'
<1>1. owed[c] \in Int
  BY DEF TypeOK, DistributorTypeOK
<1>2. distUp' /\ (\A s \in Servers : innerUp'[s])
        => distUp /\ (\A s \in Servers : innerUp[s])
  BY NoRestart
<1>3. owed[c] >= InFlight(c) => owed'[c] >= InFlight(c)'
  BY <1>1
<1>4. owed[c] = InFlight(c) => owed'[c] = InFlight(c)'
  BY <1>1
<1> QED
  BY <1>2, <1>3, <1>4 DEF CountOf

\* Messages are lost with a process that ends or has ended.
LEMMA CountLost ==
  ASSUME TypeOK, NEW c \in Conns, CountOf(c),
         InFlight(c) \in Int, InFlight(c)' \in Int, owed'[c] \in Int,
         InFlight(c)' - InFlight(c) <= owed'[c] - owed[c],
         ~(distUp' /\ \A s \in Servers : innerUp'[s])
  PROVE  CountOf(c)'
<1>1. owed[c] \in Int
  BY DEF TypeOK, DistributorTypeOK
<1>2. owed'[c] >= InFlight(c)'
  BY <1>1 DEF CountOf
<1> QED
  BY <1>2 DEF CountOf

LEMMA FlightType ==
  ASSUME TypeOK, LifetimeInv, NEW c
  PROVE  /\ Cardinality(CarriedBy(workq, c)) \in Nat
         /\ Cardinality(CarriedBy(replyq, c)) \in Nat
         /\ Cardinality(HeldBy(whand, c)) \in Nat
         /\ Carries(mess, c) \in Nat
<1>1. /\ Cardinality(CarriedBy(workq, c)) \in Nat
      /\ Cardinality(CarriedBy(replyq, c)) \in Nat
      /\ Cardinality(HeldBy(whand, c)) \in Nat
  BY QueuesFinite, HeldFinite, FS_CardinalityType
<1>2. Carries(mess, c) \in Nat
  BY CarriesType
<1> QED
  BY <1>1, <1>2

LEMMA SumOfChanges ==
  \A w, r, h, m, ww, rr, hh, mm \in Int :
    /\ w + r + h + m \in Int
    /\ (ww + rr + hh + mm) - (w + r + h + m) =
         (ww - w) + (rr - r) + (hh - h) + (mm - m)
OBVIOUS

\* The count changes by what its four parts change by.
LEMMA FlightChange ==
  ASSUME TypeOK, LifetimeInv, NEW c,
         Cardinality(CarriedBy(workq', c)) \in Nat,
         Cardinality(CarriedBy(replyq', c)) \in Nat
  PROVE  /\ InFlight(c) \in Int /\ InFlight(c)' \in Int
         /\ InFlight(c)' - InFlight(c) =
              (Cardinality(CarriedBy(workq', c))
                 - Cardinality(CarriedBy(workq, c)))
              + (Cardinality(CarriedBy(replyq', c))
                   - Cardinality(CarriedBy(replyq, c)))
              + (Cardinality(HeldBy(whand', c))
                   - Cardinality(HeldBy(whand, c)))
              + (Carries(mess', c) - Carries(mess, c))
<1>1. Cardinality(HeldBy(whand', c)) \in Nat
  BY HeldFinite, FS_CardinalityType
<1>2. Carries(mess', c) \in Nat
  BY CarriesType
<1>3. \A n \in Nat : n \in Int
  OBVIOUS
<1> QED
  BY <1>1, <1>2, <1>3, SumOfChanges, FlightSum, FlightType

(***************************************************************************)
(* One lemma for each kind of step: how the two counts of c change.        *)
(***************************************************************************)
LEMMA CountUnchanged ==
  ASSUME TypeOK, LifetimeInv, [Next]_vars, NEW c \in Conns, CountOf(c),
         UNCHANGED <<owed, workq, replyq, whand, mess>>
  PROVE  CountOf(c)'
<1>1. Carries(mess', c) = Carries(mess, c)
  BY DEF Carries
<1>2. owed[c] \in Int
  BY DEF TypeOK, DistributorTypeOK
<1>3. /\ InFlight(c) \in Int /\ InFlight(c)' \in Int
      /\ InFlight(c)' - InFlight(c) = 0
  BY <1>1, FlightChange, FlightType
<1>4. owed'[c] \in Int /\ owed'[c] - owed[c] = 0
  BY <1>2
<1> QED
  BY <1>3, <1>4, CountBalance

\* A request is taken from its client: it is owed, and it is in mess.
LEMMA CountTaken ==
  ASSUME TypeOK, LifetimeInv, HandsEmpty, [Next]_vars,
         NEW c \in Conns, CountOf(c),
         NEW e \in Conns, HandleRequest(e), UNCHANGED innerVars
  PROVE  CountOf(c)'
<1> DEFINE n == IF e = c THEN 1 ELSE 0
<1>1. /\ UNCHANGED <<workq, replyq, whand>>
      /\ opc = "batch" /\ mess'.conn = e
      /\ owed' = [owed EXCEPT ![e] = @ + 1]
  BY DEF HandleRequest, TakeRequest, TakeEvent, workVars, innerVars
<1>2. Carries(mess, c) = 0 /\ Carries(mess', c) = n
  BY <1>1, EmptyMessage DEF HandsEmpty, Carries
<1>3. owed \in [Conns -> Int]
  BY DEF TypeOK, DistributorTypeOK
<1>4. owed'[c] \in Int /\ owed'[c] - owed[c] = n
  BY <1>1, <1>3
<1>5. n \in Nat
  OBVIOUS
<1> HIDE DEF n
<1>6. /\ InFlight(c) \in Int /\ InFlight(c)' \in Int
      /\ InFlight(c)' - InFlight(c) = n
  BY <1>1, <1>2, <1>5, FlightChange, FlightType
<1> QED
  BY <1>4, <1>6, CountBalance

\* It moves from mess to the queue of the server.
LEMMA CountWritten ==
  ASSUME TypeOK, LifetimeInv, [Next]_vars, NEW c \in Conns, CountOf(c),
         WriteToServer, UNCHANGED innerVars
  PROVE  CountOf(c)'
<1>1. /\ workq \in [Servers -> Seq(Message)]
      /\ target \in Servers /\ mess \in Message
  BY DEF TypeOK, KernelTypeOK, DistributorTypeOK
<1>0. owed \in [Conns -> Int]
  BY DEF TypeOK, DistributorTypeOK
<1>a. UNCHANGED <<replyq, whand, owed>> /\ mess' = NoMessage
  BY DEF WriteToServer, EndWrite, innerVars
<1>2. workq' = [workq EXCEPT ![target] = Append(workq[target], mess)]
  BY DEF WriteToServer
<1>3. workq'[target] = Append(workq[target], mess)
  BY <1>1, <1>2
<1>4. \A t \in Servers : t # target => workq'[t] = workq[t]
  BY <1>1, <1>2
<1>5. IsFiniteSet(CarriedBy(workq, c))
  BY QueuesFinite
<1>6. /\ IsFiniteSet(CarriedBy(workq', c))
      /\ Cardinality(CarriedBy(workq', c)) =
           Cardinality(CarriedBy(workq, c)) + Carries(mess, c)
  BY <1>1, <1>3, <1>4, <1>5, CarriedAppend
<1>7. Carries(mess', c) = 0
  BY <1>a, EmptyMessage DEF Carries
<1>8. Cardinality(CarriedBy(workq', c)) =
        Cardinality(CarriedBy(workq, c)) + Carries(mess, c)
  BY <1>6 DEF Carries
<1>9. /\ InFlight(c) \in Int /\ InFlight(c)' \in Int
      /\ InFlight(c)' - InFlight(c) = 0
  BY <1>a, <1>7, <1>8, FlightChange, FlightType
<1>10. owed'[c] \in Int /\ owed'[c] - owed[c] = 0
  BY <1>0, <1>a
<1> QED
  BY <1>9, <1>10, CountBalance

\* It is lost with a server that is gone, and answered or not.
LEMMA CountUndelivered ==
  ASSUME TypeOK, LifetimeInv, HandsEmpty, [Next]_vars,
         NEW c \in Conns, CountOf(c), WriteToDead, UNCHANGED innerVars
  PROVE  CountOf(c)'
<1>1. /\ target \in Servers /\ owed \in [Conns -> Int]
  BY DEF TypeOK, DistributorTypeOK
<1>2. /\ UNCHANGED <<workq, replyq, whand, innerUp>>
      /\ mess' = NoMessage /\ mess.conn \in Conns /\ ~innerUp[target]
      /\ owed' = owed \/ owed' = [owed EXCEPT ![mess.conn] = @ - 1]
  BY DEF WriteToDead, EndWrite, HandsEmpty, kernelVars, workVars, innerVars
<1>3. ~innerUp'[target]
  BY <1>2
<1>4. Carries(mess', c) = 0
  BY <1>2, EmptyMessage DEF Carries
<1>5. Carries(mess, c) \in Nat
  BY FlightType
<1>6. /\ InFlight(c) \in Int /\ InFlight(c)' \in Int
      /\ InFlight(c)' - InFlight(c) = 0 - Carries(mess, c)
  BY <1>2, <1>4, FlightChange, FlightType
<1>7. owed'[c] \in Int /\ 0 - Carries(mess, c) <= owed'[c] - owed[c]
  BY <1>1, <1>2 DEF Carries
<1> QED
  BY <1>1, <1>3, <1>6, <1>7, CountLost

\* It moves from the queue to the hands of the worker.
LEMMA CountRead ==
  ASSUME TypeOK, LifetimeInv, HandsEmpty, [Next]_vars,
         NEW c \in Conns, CountOf(c),
         NEW s \in Servers, WorkerRead(s), UNCHANGED distVars
  PROVE  CountOf(c)'
<1>1. workq \in [Servers -> Seq(Message)]
  BY DEF TypeOK, KernelTypeOK
<1>b. whand \in [Servers -> Message]
  BY DEF TypeOK, InnerTypeOK
<1>0. owed \in [Conns -> Int]
  BY DEF TypeOK, DistributorTypeOK
<1>a. /\ UNCHANGED <<replyq, owed, mess>>
      /\ workq[s] # << >> /\ whand[s] = NoMessage
  BY DEF WorkerRead, HandsEmpty, distVars
<1>2. /\ workq' = [workq EXCEPT ![s] = Tail(workq[s])]
      /\ whand' = [whand EXCEPT ![s] = Head(workq[s])]
  BY DEF WorkerRead
<1>3. workq'[s] = Tail(workq[s])
  BY <1>1, <1>2
<1>c. whand'[s] = Head(workq[s])
  BY <1>b, <1>2
<1>4. \A t \in Servers : t # s => workq'[t] = workq[t]
  BY <1>1, <1>2
<1>5. \A t \in Servers : t # s => whand'[t] = whand[t]
  BY <1>b, <1>2
<1> DEFINE n == Carries(Head(workq[s]), c)
<1>6. /\ IsFiniteSet(CarriedBy(workq', c))
      /\ Cardinality(CarriedBy(workq, c)) =
           Cardinality(CarriedBy(workq', c)) + n
  <2>1. IsFiniteSet(CarriedBy(workq, c)) /\ workq[s] # << >>
    BY <1>a, QueuesFinite
  <2> QED
    BY <1>1, <1>3, <1>4, <2>1, CarriedTail
<1>7. Cardinality(HeldBy(whand', c)) = Cardinality(HeldBy(whand, c)) + n
  <2>1. whand[s].conn # c
    BY <1>a, EmptyMessage
  <2> QED
    BY <1>c, <1>5, <2>1, HeldMore
<1>8. Cardinality(CarriedBy(workq', c)) \in Nat /\ n \in Nat
  BY <1>6, CarriesType, FS_CardinalityType
<1>9. Carries(mess', c) = Carries(mess, c)
  BY <1>a DEF Carries
<1> HIDE DEF n
<1>10. /\ InFlight(c) \in Int /\ InFlight(c)' \in Int
       /\ InFlight(c)' - InFlight(c) = 0
  BY <1>a, <1>6, <1>7, <1>8, <1>9, FlightChange, FlightType
<1>11. owed'[c] \in Int /\ owed'[c] - owed[c] = 0
  BY <1>0, <1>a
<1> QED
  BY <1>10, <1>11, CountBalance

\* It moves from the hands of the worker to the queue of echoes, or is lost
\* with the distributor.
LEMMA CountEchoed ==
  ASSUME TypeOK, LifetimeInv, [Next]_vars, NEW c \in Conns, CountOf(c),
         NEW s \in Servers, WorkerReply(s), UNCHANGED distVars
  PROVE  CountOf(c)'
<1>1. /\ replyq \in [Servers -> Seq(Message)]
      /\ whand \in [Servers -> Message]
  BY DEF TypeOK, KernelTypeOK, InnerTypeOK
<1>0. owed \in [Conns -> Int]
  BY DEF TypeOK, DistributorTypeOK
<1>a. UNCHANGED <<workq, owed, mess, distUp>>
  BY DEF WorkerReply, distVars
<1>2. /\ whand' = [whand EXCEPT ![s] = NoMessage]
      /\ \/ replyq' = [replyq EXCEPT ![s] = Append(replyq[s], whand[s])]
         \/ ~distUp /\ replyq' = replyq
  BY DEF WorkerReply
<1> DEFINE n == Carries(whand[s], c)
<1>3. Cardinality(HeldBy(whand, c)) = Cardinality(HeldBy(whand', c)) + n
  <2>1. whand'[s].conn # c
    BY <1>1, <1>2, EmptyMessage
  <2>2. \A t \in Servers : t # s => whand[t] = whand'[t]
    BY <1>1, <1>2
  <2> QED
    BY <2>1, <2>2, HeldMore
<1>4. Cardinality(HeldBy(whand', c)) \in Nat /\ n \in Nat
  BY HeldFinite, CarriesType, FS_CardinalityType
<1>5. Carries(mess', c) = Carries(mess, c)
  BY <1>a DEF Carries
<1>6. owed'[c] \in Int /\ owed'[c] - owed[c] = 0
  BY <1>0, <1>a
<1>7. CASE replyq' = [replyq EXCEPT ![s] = Append(replyq[s], whand[s])]
  <2>1. replyq'[s] = Append(replyq[s], whand[s]) /\ whand[s] \in Message
    BY <1>1, <1>7
  <2>2. \A t \in Servers : t # s => replyq'[t] = replyq[t]
    BY <1>1, <1>7
  <2>3. IsFiniteSet(CarriedBy(replyq, c))
    BY QueuesFinite
  <2>4. /\ IsFiniteSet(CarriedBy(replyq', c))
        /\ Cardinality(CarriedBy(replyq', c)) =
             Cardinality(CarriedBy(replyq, c)) + n
    BY <1>1, <2>1, <2>2, <2>3, CarriedAppend
  <2> HIDE DEF n
  <2>5. Cardinality(CarriedBy(replyq', c)) \in Nat
    BY <2>4, FS_CardinalityType
  <2>6. /\ InFlight(c) \in Int /\ InFlight(c)' \in Int
        /\ InFlight(c)' - InFlight(c) = 0
    BY <1>a, <1>3, <1>4, <1>5, <2>4, <2>5, FlightChange, FlightType
  <2> QED
    BY <1>6, <2>6, CountBalance
<1>8. CASE ~distUp /\ replyq' = replyq
  <2> HIDE DEF n
  <2>1. /\ InFlight(c) \in Int /\ InFlight(c)' \in Int
        /\ InFlight(c)' - InFlight(c) = 0 - n
    BY <1>a, <1>3, <1>4, <1>5, <1>8, FlightChange, FlightType
  <2>2. ~distUp'
    BY <1>a, <1>8
  <2>3. 0 - n <= 0
    BY <1>4
  <2> QED
    BY <1>6, <2>1, <2>2, <2>3, CountLost
<1> QED
  BY <1>2, <1>7, <1>8

\* What was on its way to a server is lost with it.
LEMMA CountExited ==
  ASSUME TypeOK, LifetimeInv, [Next]_vars, NEW c \in Conns, CountOf(c),
         NEW s \in Servers, ExitServer(s), UNCHANGED distVars
  PROVE  CountOf(c)'
<1>1. workq \in [Servers -> Seq(Message)]
  BY DEF TypeOK, KernelTypeOK
<1>b. innerUp \in [Servers -> BOOLEAN]
  BY DEF TypeOK, KernelTypeOK
<1>0. owed \in [Conns -> Int]
  BY DEF TypeOK, DistributorTypeOK
<1>a. UNCHANGED <<replyq, whand, owed, mess>>
  BY DEF ExitServer, innerVars, distVars
<1>2. /\ workq' = [workq EXCEPT ![s] = << >>]
      /\ innerUp' = [innerUp EXCEPT ![s] = FALSE]
  BY DEF ExitServer
<1>3. workq'[s] = << >>
  BY <1>1, <1>2
<1>c. ~innerUp'[s]
  BY <1>b, <1>2
<1>4. \A t \in Servers : t # s => workq'[t] = workq[t]
  BY <1>1, <1>2
<1>5. /\ IsFiniteSet(CarriedBy(workq', c))
      /\ Cardinality(CarriedBy(workq', c)) <= Cardinality(CarriedBy(workq, c))
  <2>1. IsFiniteSet(CarriedBy(workq, c))
    BY QueuesFinite
  <2> QED
    BY <1>1, <1>3, <1>4, <2>1, CarriedDrop
<1>6. Carries(mess', c) = Carries(mess, c)
  BY <1>a DEF Carries
<1>7. Cardinality(CarriedBy(workq', c)) \in Nat
  BY <1>5, FS_CardinalityType
<1>8. /\ InFlight(c) \in Int /\ InFlight(c)' \in Int
      /\ InFlight(c)' - InFlight(c) <= 0
  BY <1>a, <1>5, <1>6, <1>7, FlightChange, FlightType
<1>9. owed'[c] \in Int /\ owed'[c] - owed[c] = 0
  BY <1>0, <1>a
<1> QED
  BY <1>c, <1>8, <1>9, CountLost

LEMMA CountStep ==
  TypeOK /\ LifetimeInv /\ CountInv /\ [Next]_vars => CountInv'
<1> SUFFICES ASSUME TypeOK, LifetimeInv, CountInv, [Next]_vars
             PROVE  CountInv'
  OBVIOUS
<1>0. HandsEmpty /\ HandsEmpty'
  BY HandsStep DEF CountInv
<1> SUFFICES ASSUME NEW c \in Conns
             PROVE  CountOf(c)'
  BY <1>0 DEF CountInv, NothingLostOrDoubled, CountOf
<1>1. CountOf(c)
  BY DEF CountInv, NothingLostOrDoubled, CountOf
<1>2. CASE UNCHANGED <<owed, workq, replyq, whand, mess>>
  BY <1>1, <1>2, CountUnchanged
<1>3. CASE Distributor
  <2>1. UNCHANGED innerVars
    BY <1>3 DEF Distributor, OfDistributor
  <2>2. CASE \E e \in Conns : HandleRequest(e)
    BY <1>0, <1>1, <2>1, <2>2, CountTaken
  <2>3. CASE WriteToServer
    BY <1>1, <2>1, <2>3, CountWritten
  <2>4. CASE WriteToDead
    BY <1>0, <1>1, <2>1, <2>4, CountUndelivered
  <2>5. ASSUME ~(\E e \in Conns : HandleRequest(e)), ~WriteToServer,
               ~WriteToDead
        PROVE  UNCHANGED <<owed, workq, replyq, whand, mess>>
    BY <1>3, <2>1, <2>5
       DEF Distributor, OfDistributor, DispatchNext, EpollWait, HandleListen, Accept,
           AcceptDone, AcceptFails, HandleFragment, HandleClose, PollNext,
           StartRound, MonWrite, MonRead, MonReadFails, SetDistribution,
           NextRound, DumpAndExit, ExitDistributor, kernelVars, distVars,
           innerVars, workVars, dispatchVars, messVars, ghostVars
  <2> QED
    BY <1>2, <2>2, <2>3, <2>4, <2>5
<1>4. CASE Inner
  <2>1. UNCHANGED distVars
    BY <1>4 DEF Inner, OfInner
  <2>2. PICK s \in Servers :
          WorkerNext(s) \/ MonServerNext(s) \/ Tick(s) \/ Crash(s)
    BY <1>4 DEF Inner, OfInner, InnerNext
  <2>3. CASE WorkerRead(s)
    BY <1>0, <1>1, <2>1, <2>3, CountRead
  <2>4. CASE WorkerReply(s)
    BY <1>1, <2>1, <2>4, CountEchoed
  <2>5. CASE ExitServer(s)
    BY <1>1, <2>1, <2>5, CountExited
  <2>6. CASE MonServe(s) \/ Tick(s)
    BY <1>2, <2>1, <2>6 DEF MonServe, Tick, kernelVars, workVars, innerVars,
             distVars
  <2> QED
    BY <2>2, <2>3, <2>4, <2>5, <2>6
       DEF WorkerNext, MonServerNext, WorkerEof, MonEof, Crash
<1>5. CASE Environment \/ UNCHANGED vars
  BY <1>2, <1>5 DEF Environment, ClientsNext, Connect, Send, Shutdown, Reset,
           vars, kernelVars, workVars, distVars, innerVars
<1> QED
  BY <1>3, <1>4, <1>5 DEF Next, Stopped

\* No request is duplicated, and none is lost while every process runs,
\* whatever the number of servers, connections and requests.
THEOREM CountCorrect == Spec => []NothingLostOrDoubled
<1>1. Init => CountInv
  BY HandsInit, CountInit DEF CountInv
<1>2. CountInv => NothingLostOrDoubled
  BY DEF CountInv
<1> QED
  BY <1>1, <1>2, CountStep, LifetimeInit, LifetimeStep, TypeCorrect, PTL
     DEF Spec

-----------------------------------------------------------------------------
(***************************************************************************)
(* The relay.  Pipe(s) is a concatenation: what the steps of dispatcher    *)
(* and worker do to one of its parts is what Relay does to the whole.      *)
(***************************************************************************)

\* A request is written to the server, read by its worker, echoed.
LEMMA PipeGiven ==
  ASSUME NEW e \in Seq(Message), NEW w \in Seq(Message), NEW m \in Message
  PROVE  e \o Append(w, m) = Append(e \o w, m)
OBVIOUS

LEMMA PipeRead ==
  ASSUME NEW a \in Seq(Message), NEW w \in Seq(Message), w # << >>
  PROVE  a \o <<Head(w)>> \o Tail(w) = a \o << >> \o w
<1>1. /\ w = <<Head(w)>> \o Tail(w)
      /\ Head(w) \in Message /\ Tail(w) \in Seq(Message)
  OBVIOUS
<1>2. (a \o <<Head(w)>>) \o Tail(w) = a \o (<<Head(w)>> \o Tail(w))
  BY <1>1, ConcatAssociative
<1>3. a \o << >> = a
  BY ConcatEmptySeq
<1> QED
  BY <1>1, <1>2, <1>3

LEMMA PipeEchoed ==
  ASSUME NEW a \in Seq(Message), NEW m \in Message, NEW w \in Seq(Message)
  PROVE  Append(a, m) \o << >> \o w = a \o <<m>> \o w
<1>1. Append(a, m) \in Seq(Message) /\ Append(a, m) = a \o <<m>>
  OBVIOUS
<1>2. Append(a, m) \o << >> = Append(a, m)
  BY <1>1, ConcatEmptySeq
<1> QED
  BY <1>1, <1>2

\* What is left of a pipe when its last part is lost.
LEMMA PipeCut ==
  ASSUME NEW e \in Seq(Message), NEW w \in Seq(Message)
  PROVE  /\ Len(e) \in 0 .. Len(e \o w)
         /\ SubSeq(e \o w, 1, Len(e)) = e \o << >>
<1>1. /\ Len(e) \in Nat /\ Len(w) \in Nat
      /\ e \o w \in Seq(Message) /\ Len(e \o w) = Len(e) + Len(w)
      /\ \A i \in 1 .. Len(e) : (e \o w)[i] = e[i] /\ e[i] \in Message
  BY ConcatProperties, ElementOfSeq
<1>2. e \o << >> = e
  BY ConcatEmptySeq
<1> DEFINE z == SubSeq(e \o w, 1, Len(e))
<1>3. /\ z \in Seq(Message) /\ Len(z) = Len(e)
      /\ \A i \in 1 .. Len(e) : z[i] = e[i]
  BY <1>1, SubSeqProperties
<1>4. z = e
  BY <1>3, SeqEqual
<1> QED
  BY <1>1, <1>2, <1>4

\* A pipe without the echo that found no reader.
LEMMA PipeForgets ==
  ASSUME NEW a \in Seq(Message), NEW m \in Message, NEW w \in Seq(Message)
  PROVE  /\ Len(a) + 1 \in DOMAIN (a \o <<m>> \o w)
         /\ R!RemoveAt(a \o <<m>> \o w, Len(a) + 1) = a \o << >> \o w
<1> DEFINE e == a \o <<m>>
           x == e \o w
           n == Len(a)
<1>1. /\ n \in Nat /\ Len(w) \in Nat
      /\ e \in Seq(Message) /\ Len(e) = n + 1
      /\ \A i \in 1 .. n : e[i] = a[i] /\ a[i] \in Message
  <2>1. <<m>> \in Seq(Message) /\ Len(<<m>>) = 1
    OBVIOUS
  <2> QED
    BY <2>1, ConcatProperties, LenProperties, ElementOfSeq
<1>2. /\ x \in Seq(Message) /\ Len(x) = n + 1 + Len(w)
      /\ \A i \in 1 .. n + 1 + Len(w) :
           x[i] = IF i <= n + 1 THEN e[i] ELSE w[i - (n + 1)]
  <2> HIDE DEF e
  <2>1. /\ e \o w \in Seq(Message) /\ Len(e \o w) = Len(e) + Len(w)
        /\ \A i \in 1 .. Len(e) + Len(w) :
             (e \o w)[i] = IF i <= Len(e) THEN e[i] ELSE w[i - Len(e)]
    BY <1>1, ConcatProperties
  <2>2. Len(e) = n + 1
    BY <1>1
  <2> QED
    BY <2>1, <2>2
<1> HIDE DEF e, x, n
<1>3. SubSeq(x, 1, (n + 1) - 1) = a
  <2>1. \A i \in 1 .. n : x[i] = a[i] /\ x[i] \in Message
    BY <1>1, <1>2
  <2>2. (n + 1) - 1 = n
    BY <1>1
  <2>3. /\ SubSeq(x, 1, n) \in Seq(Message) /\ Len(SubSeq(x, 1, n)) = n
        /\ \A i \in 1 .. n : SubSeq(x, 1, n)[i] = x[i]
    BY <1>1, <2>1, SubSeqProperties
  <2> QED
    BY <1>1, <2>1, <2>2, <2>3, SeqEqual DEF n
<1>4. SubSeq(x, (n + 1) + 1, Len(x)) = w
  <2>1. \A i \in 1 .. Len(w) : x[n + 1 + i] = w[i] /\ w[i] \in Message
    BY <1>1, <1>2, ElementOfSeq
  <2>2. \A i \in n + 2 .. n + 1 + Len(w) : x[i] \in Message
    <3> SUFFICES ASSUME NEW i \in n + 2 .. n + 1 + Len(w)
                 PROVE  x[i] \in Message
      OBVIOUS
    <3>1. i - (n + 1) \in 1 .. Len(w) /\ n + 1 + (i - (n + 1)) = i
      BY <1>1
    <3> QED
      BY <2>1, <3>1
  <2> DEFINE z == SubSeq(x, n + 2, n + 1 + Len(w))
  <2>3. /\ z \in Seq(Message) /\ Len(z) = Len(w)
        /\ \A i \in 1 .. Len(w) : z[i] = x[n + 1 + i]
    BY <1>1, <2>2, SubSeqProperties
  <2>4. z = w
    <3> HIDE DEF z
    <3> QED
      BY <2>1, <2>3, SeqEqual
  <2>5. (n + 1) + 1 = n + 2
    BY <1>1
  <2> QED
    BY <1>2, <2>4, <2>5
<1>5. n + 1 \in DOMAIN x
  BY <1>1, <1>2
<1>6. a \o << >> \o w = a \o w
  BY ConcatEmptySeq
<1> QED
  BY <1>3, <1>4, <1>5, <1>6 DEF R!RemoveAt, e, x, n

Pipes == [s \in Servers |-> Pipe(s)]

LEMMA PipeTypes ==
  ASSUME TypeOK
  PROVE  /\ workq \in [Servers -> Seq(Message)]
         /\ replyq \in [Servers -> Seq(Message)]
         /\ wpc \in [Servers -> {"read", "reply"}]
         /\ whand \in [Servers -> Message]
         /\ innerUp \in [Servers -> BOOLEAN]
BY DEF TypeOK, KernelTypeOK, InnerTypeOK

\* The pipes after a step that changes at most the one of s.
LEMMA PipesChange ==
  ASSUME NEW s \in Servers,
         \A t \in Servers : t # s => /\ workq'[t] = workq[t]
                                     /\ replyq'[t] = replyq[t]
                                     /\ wpc'[t] = wpc[t]
                                     /\ whand'[t] = whand[t]
  PROVE  Pipes' = [Pipes EXCEPT ![s] = Pipe(s)']
BY DEF Pipes, Pipe

LEMMA PipesKept ==
  UNCHANGED <<workq, replyq, wpc, whand>> => Pipes' = Pipes
BY DEF Pipes, Pipe

\* The steps of the dispatcher.
LEMMA RelayTake ==
  ASSUME TypeOK, HandsEmpty, NEW c \in Conns, HandleRequest(c),
         UNCHANGED innerVars
  PROVE  R!Take
<1>1. fdOf[c] \in Nat /\ taken \in [Conns -> Nat]
  BY DEF TypeOK, DistributorTypeOK
<1>5. taken' = [taken EXCEPT ![c] = @ + 1]
  BY DEF HandleRequest, TakeRequest
<1>6. taken'[c] \in Nat
  BY <1>1, <1>5
<1>2. /\ distUp /\ opc = "batch"
      /\ mess' = [fd |-> fdOf[c], conn |-> c, seq |-> taken'[c]]
      /\ UNCHANGED <<distUp, innerUp, workq, replyq, wpc, whand>>
  BY DEF HandleRequest, TakeRequest, TakeEvent, workVars, innerVars
<1>3. mess = NoMessage
  BY <1>2 DEF HandsEmpty
<1>4. mess' \in Message /\ mess'.conn \in Conns
  BY <1>1, <1>2, <1>6 DEF Message
<1> QED
  BY <1>2, <1>3, <1>4, PipesKept DEF R!Take, Pipes

LEMMA RelayGive ==
  ASSUME TypeOK, HandsEmpty, WriteToServer, UNCHANGED innerVars,
         NEW s \in Servers, s = target
  PROVE  R!Give(s)
<1>1. mess \in Message
  BY DEF TypeOK, DistributorTypeOK
<1>2. /\ distUp /\ innerUp[s] /\ opc = "write" /\ mess' = NoMessage
      /\ UNCHANGED <<distUp, innerUp, replyq, wpc, whand>>
  BY DEF WriteToServer, EndWrite, innerVars
<1>3. mess # NoMessage
  BY <1>2, EmptyMessage DEF HandsEmpty
<1>4. workq' = [workq EXCEPT ![s] = Append(@, mess)]
  BY DEF WriteToServer
<1>5. \A t \in Servers : t # s => workq'[t] = workq[t]
  BY <1>4, PipeTypes
<1>6. Pipe(s)' = Append(Pipe(s), mess)
  <2> DEFINE b == IF wpc[s] = "reply" THEN <<whand[s]>> ELSE << >>
  <2>1. b \in Seq(Message)
    <3>1. whand[s] \in Message
      BY <1>1, PipeTypes
    <3> QED
      BY <3>1
  <2>2. workq'[s] = Append(workq[s], mess)
    BY <1>1, <1>4, PipeTypes
  <2>3. /\ Pipe(s) = replyq[s] \o b \o workq[s]
        /\ Pipe(s)' = replyq[s] \o b \o Append(workq[s], mess)
    BY <1>2, <2>2 DEF Pipe
  <2>4. workq[s] \in Seq(Message) /\ replyq[s] \in Seq(Message)
    BY <1>1, PipeTypes
  <2> HIDE DEF b
  <2> DEFINE e == replyq[s] \o b
  <2>5. e \in Seq(Message)
    BY <2>1, <2>4, ConcatProperties
  <2>6. Pipe(s) = e \o workq[s] /\ Pipe(s)' = e \o Append(workq[s], mess)
    BY <2>3
  <2> HIDE DEF e
  <2>7. e \o Append(workq[s], mess) = Append(e \o workq[s], mess)
    BY <1>1, <2>4, <2>5, PipeGiven, Zenon
  <2> QED
    BY <2>6, <2>7, Zenon
<1>7. Pipes' = [Pipes EXCEPT ![s] = Append(Pipe(s), mess)]
  BY <1>1, <1>2, <1>5, <1>6, PipesChange
<1>8. Pipes[s] = Pipe(s)
  BY <1>1 DEF Pipes
<1> QED
  BY <1>2, <1>3, <1>7, <1>8 DEF R!Give, Pipes

LEMMA RelayLose ==
  ASSUME TypeOK, HandsEmpty, WriteToDead, UNCHANGED innerVars
  PROVE  target \in Servers /\ R!Lose(target)
<1>1. target \in Servers
  BY DEF TypeOK, DistributorTypeOK
<1>2. /\ distUp /\ ~innerUp[target] /\ opc = "write" /\ mess' = NoMessage
      /\ UNCHANGED <<distUp, innerUp, workq, replyq, wpc, whand>>
  BY DEF WriteToDead, EndWrite, innerVars, kernelVars, workVars
<1>3. mess # NoMessage
  BY <1>2, EmptyMessage DEF HandsEmpty
<1> QED
  BY <1>1, <1>2, <1>3, PipesKept DEF R!Lose, Pipes

\* What a worker reads stays in the pipe.
LEMMA RelayInside ==
  ASSUME TypeOK, NEW s \in Servers, WorkerRead(s), UNCHANGED distVars
  PROVE  UNCHANGED <<distUp, innerUp, mess, Pipes>>
<1>1. /\ UNCHANGED <<distUp, innerUp, mess, replyq>>
      /\ wpc[s] = "read" /\ workq[s] # << >>
      /\ workq' = [workq EXCEPT ![s] = Tail(@)]
      /\ wpc' = [wpc EXCEPT ![s] = "reply"]
      /\ whand' = [whand EXCEPT ![s] = Head(workq[s])]
  BY DEF WorkerRead, distVars
<1>2. \A t \in Servers : t # s => /\ workq'[t] = workq[t]
                                  /\ replyq'[t] = replyq[t]
                                  /\ wpc'[t] = wpc[t]
                                  /\ whand'[t] = whand[t]
  BY <1>1, PipeTypes
<1>3. /\ workq'[s] = Tail(workq[s]) /\ whand'[s] = Head(workq[s])
      /\ wpc'[s] = "reply" /\ replyq'[s] = replyq[s]
  BY <1>1, PipeTypes
<1>4. workq[s] \in Seq(Message) /\ replyq[s] \in Seq(Message)
  BY PipeTypes
<1>5. Pipe(s)' = replyq[s] \o <<Head(workq[s])>> \o Tail(workq[s])
  BY <1>3 DEF Pipe
<1>6. Pipe(s) = replyq[s] \o << >> \o workq[s]
  BY <1>1 DEF Pipe
<1>7. Pipe(s)' = Pipe(s)
  BY <1>1, <1>4, <1>5, <1>6, PipeRead
<1>8. Pipes' = [Pipes EXCEPT ![s] = Pipe(s)]
  BY <1>2, <1>7, PipesChange
<1>9. Pipes' = Pipes
  BY <1>8 DEF Pipes
<1> QED
  BY <1>1, <1>9

\* An echo stays in the pipe, or has no reader.
LEMMA RelayEcho ==
  ASSUME TypeOK, NEW s \in Servers, WorkerReply(s), UNCHANGED distVars
  PROVE  R!EchoLost(s) \/ UNCHANGED <<distUp, innerUp, mess, Pipes>>
<1>1. /\ UNCHANGED <<distUp, innerUp, mess, workq>>
      /\ innerUp[s] /\ wpc[s] = "reply"
      /\ wpc' = [wpc EXCEPT ![s] = "read"]
      /\ whand' = [whand EXCEPT ![s] = NoMessage]
      /\ \/ replyq' = [replyq EXCEPT ![s] = Append(@, whand[s])]
         \/ ~distUp /\ replyq' = replyq
  BY DEF WorkerReply, distVars
<1>2. \A t \in Servers : t # s => /\ workq'[t] = workq[t]
                                  /\ replyq'[t] = replyq[t]
                                  /\ wpc'[t] = wpc[t]
                                  /\ whand'[t] = whand[t]
  BY <1>1, PipeTypes
<1>3. /\ workq[s] \in Seq(Message) /\ replyq[s] \in Seq(Message)
      /\ whand[s] \in Message
  BY PipeTypes
<1>4. Pipe(s) = replyq[s] \o <<whand[s]>> \o workq[s]
  BY <1>1 DEF Pipe
<1>5. Pipe(s)' = replyq'[s] \o << >> \o workq[s]
  <2>1. wpc'[s] = "read" /\ workq'[s] = workq[s]
    BY <1>1, PipeTypes
  <2> QED
    BY <2>1 DEF Pipe
<1>6. Pipes' = [Pipes EXCEPT ![s] = Pipe(s)']
  BY <1>2, PipesChange
<1>7. Pipes[s] = Pipe(s) /\ Pipes = [Pipes EXCEPT ![s] = Pipe(s)]
  BY DEF Pipes
<1>8. CASE replyq' = [replyq EXCEPT ![s] = Append(@, whand[s])]
  <2>1. replyq'[s] = Append(replyq[s], whand[s])
    BY <1>8, PipeTypes
  <2>2. Append(replyq[s], whand[s]) \o << >> \o workq[s] =
          replyq[s] \o <<whand[s]>> \o workq[s]
    BY <1>3, PipeEchoed, Zenon
  <2>3. Pipe(s)' = Pipe(s)
    BY <1>4, <1>5, <2>1, <2>2
  <2> QED
    BY <1>1, <1>6, <1>7, <2>3
<1>9. CASE ~distUp /\ replyq' = replyq
  <2>1. /\ Len(replyq[s]) + 1 \in DOMAIN Pipe(s)
        /\ Pipe(s)' = R!RemoveAt(Pipe(s), Len(replyq[s]) + 1)
    <3> DEFINE a == replyq[s] \o <<whand[s]>> \o workq[s]
               n == Len(replyq[s]) + 1
    <3>1. n \in DOMAIN a /\ R!RemoveAt(a, n) = replyq[s] \o << >> \o workq[s]
      BY <1>3, PipeForgets, Zenon
    <3>2. Pipe(s) = a /\ Pipe(s)' = replyq[s] \o << >> \o workq[s]
      BY <1>4, <1>5, <1>9
    <3> HIDE DEF a, n
    <3>3. n \in DOMAIN Pipe(s) /\ Pipe(s)' = R!RemoveAt(Pipe(s), n)
      BY <3>1, <3>2
    <3> QED
      BY <3>3 DEF n
  <2>2. \E k \in DOMAIN Pipes[s] :
          Pipes' = [Pipes EXCEPT ![s] = R!RemoveAt(Pipes[s], k)]
    BY <1>6, <1>7, <2>1
  <2> QED
    BY <1>1, <1>9, <2>2 DEF R!EchoLost, Pipes
<1> QED
  BY <1>1, <1>8, <1>9

LEMMA RelayServerEnds ==
  ASSUME TypeOK, NEW s \in Servers, innerUp[s], ExitServer(s),
         UNCHANGED distVars
  PROVE  R!ServerEnds(s)
<1>1. /\ UNCHANGED <<distUp, mess, replyq, wpc, whand>>
      /\ innerUp' = [innerUp EXCEPT ![s] = FALSE]
      /\ workq' = [workq EXCEPT ![s] = << >>]
  BY DEF ExitServer, innerVars, distVars
<1>2. \A t \in Servers : t # s => workq'[t] = workq[t]
  BY <1>1, PipeTypes
<1>3. /\ workq[s] \in Seq(Message) /\ replyq[s] \in Seq(Message)
      /\ whand[s] \in Message /\ workq'[s] = << >>
  BY <1>1, PipeTypes
<1> DEFINE b == IF wpc[s] = "reply" THEN <<whand[s]>> ELSE << >>
           e == replyq[s] \o b
<1>4. e \in Seq(Message)
  <2>1. b \in Seq(Message)
    BY <1>3
  <2> HIDE DEF b
  <2> QED
    BY <1>3, <2>1, ConcatProperties
<1>5. Pipe(s) = e \o workq[s] /\ Pipe(s)' = e \o << >>
  BY <1>1, <1>3 DEF Pipe
<1> HIDE DEF e
<1>6. /\ Len(e) \in 0 .. Len(Pipe(s))
      /\ Pipe(s)' = SubSeq(Pipe(s), 1, Len(e))
  BY <1>3, <1>4, <1>5, PipeCut
<1>7. Pipes' = [Pipes EXCEPT ![s] = Pipe(s)'] /\ Pipes[s] = Pipe(s)
  BY <1>1, <1>2, PipesChange DEF Pipes
<1>8. \E k \in 0 .. Len(Pipes[s]) :
        Pipes' = [Pipes EXCEPT ![s] = SubSeq(Pipes[s], 1, k)]
  BY <1>6, <1>7
<1> QED
  BY <1>1, <1>8 DEF R!ServerEnds, Pipes

LEMMA RelayStep ==
  TypeOK /\ HandsEmpty /\ [Next]_vars => [R!Next]_R!relayVars
<1> SUFFICES ASSUME TypeOK, HandsEmpty, [Next]_vars
             PROVE  [R!Next]_R!relayVars
  OBVIOUS
<1>0. UNCHANGED <<distUp, innerUp, mess, Pipes>> => UNCHANGED R!relayVars
  BY DEF R!relayVars, Pipes
<1>1. CASE UNCHANGED <<distUp, innerUp, mess, workq, replyq, wpc, whand>>
  BY <1>0, <1>1, PipesKept
<1>2. CASE /\ distUp /\ ~distUp'
           /\ UNCHANGED <<innerUp, mess, workq, replyq, wpc, whand>>
  <2>1. R!DistributorEnds
    BY <1>2, PipesKept, NoRestart DEF R!DistributorEnds, Pipes
  <2> QED
    BY <2>1 DEF R!Next
<1>3. CASE Distributor
  <2>1. UNCHANGED innerVars
    BY <1>3 DEF Distributor, OfDistributor
  <2>2. CASE \E c \in Conns : HandleRequest(c)
    BY <2>1, <2>2, RelayTake DEF R!Next
  <2>3. CASE WriteToServer
    <3>1. PICK s \in Servers : s = target
      BY DEF TypeOK, DistributorTypeOK
    <3> QED
      BY <2>1, <2>3, <3>1, RelayGive DEF R!Next
  <2>4. CASE WriteToDead
    BY <2>1, <2>4, RelayLose DEF R!Next
  <2>5. CASE AcceptFails \/ MonReadFails \/ DumpAndExit
    BY <1>2, <2>1, <2>5 DEF AcceptFails, MonReadFails, DumpAndExit,
       ExitDistributor, innerVars, workVars, distVars
  <2>6. CASE \/ EpollWait \/ HandleListen \/ (\E c \in Conns : Accept(c))
             \/ AcceptDone
             \/ \E c \in Conns : HandleFragment(c) \/ HandleClose(c)
    BY <1>1, <2>1, <2>6 DEF EpollWait, HandleListen, Accept, AcceptDone,
       HandleFragment, HandleClose, TakeEvent, kernelVars, workVars,
       innerVars, messVars
  <2>7. CASE StartRound \/ MonWrite \/ MonRead \/ SetDistribution \/ NextRound
    BY <1>1, <2>1, <2>7 DEF StartRound, MonWrite, MonRead, SetDistribution,
       NextRound, kernelVars, workVars, innerVars, dispatchVars
  <2> QED
    BY <1>3, <2>2, <2>3, <2>4, <2>5, <2>6, <2>7
       DEF Distributor, OfDistributor, DispatchNext, PollNext
<1>4. CASE Inner
  <2>1. UNCHANGED distVars
    BY <1>4 DEF Inner, OfInner
  <2>2. PICK s \in Servers :
          WorkerNext(s) \/ MonServerNext(s) \/ Tick(s) \/ Crash(s)
    BY <1>4 DEF Inner, OfInner, InnerNext
  <2>3. CASE WorkerRead(s)
    BY <1>0, <2>1, <2>3, RelayInside
  <2>4. CASE WorkerReply(s)
    BY <1>0, <2>1, <2>4, RelayEcho DEF R!Next
  <2>5. CASE innerUp[s] /\ ExitServer(s)
    BY <2>1, <2>5, RelayServerEnds DEF R!Next
  <2>6. CASE MonServe(s) \/ Tick(s)
    BY <1>1, <2>1, <2>6 DEF MonServe, Tick, kernelVars, workVars, innerVars,
             distVars
  <2> QED
    BY <2>2, <2>3, <2>4, <2>5, <2>6
       DEF WorkerNext, MonServerNext, WorkerEof, MonEof, Crash
<1>5. CASE Environment \/ UNCHANGED vars
  BY <1>1, <1>5 DEF Environment, ClientsNext, Connect, Send, Shutdown, Reset,
           vars, kernelVars, workVars, distVars, innerVars
<1> QED
  BY <1>3, <1>4, <1>5 DEF Next, Stopped

LEMMA RelayInit == Init => R!Init
<1> SUFFICES ASSUME Init PROVE R!Init
  OBVIOUS
<1>1. /\ distUp = TRUE /\ innerUp = [s \in Servers |-> TRUE]
      /\ mess = NoMessage
      /\ \A s \in Servers : /\ workq[s] = << >> /\ replyq[s] = << >>
                            /\ wpc[s] = "read"
  BY DEF Init, KernelInit, DistributorInit, InnerInit
<1>2. \A s \in Servers : Pipe(s) = << >>
  BY <1>1 DEF Pipe
<1> QED
  BY <1>1, <1>2 DEF R!Init

\* The distributor and its servers implement Relay: through both connections
\* and the worker, the requests of a server keep their order, and are lost
\* only with a process.
THEOREM RelayImplemented == Spec => ImplementsRelay
<1> QED
  BY RelayInit, RelayStep, HandsInit, HandsStep, TypeCorrect, PTL
     DEF Spec, ImplementsRelay, R!Spec
=============================================================================
