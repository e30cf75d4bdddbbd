---------------------------- MODULE StartupProofs ---------------------------
(***************************************************************************)
(* Theorems about the startup, for any number of slots and of servers and  *)
(* whatever hosts the servers run on: startup implements Pairing, and of   *)
(* the mon connections to a running server just one is accepted.           *)
(***************************************************************************)
EXTENDS Startup, FiniteSetTheorems, TLAPS

USE StartupAssumption

LEMMA TypeInit == Init => TypeOK
BY DEF Init, TypeOK

\* What the servers leave alone of the distributor.
LEMMA ServerFrame ==
  ASSUME NEW s \in Instances, Worker(s) \/ Main(s) \/ Start(s) \/ Crash(s)
  PROVE  /\ UNCHANGED distributorVars
         /\ \/ UNCHANGED <<waiting, wpc>>
            \/ /\ wpc[s] = "connect"
               /\ waiting' = waiting \cup {s}
               /\ wpc' = [wpc EXCEPT ![s] = "read"]
BY DEF Worker, Main, Start, Crash, ConnectWork, ConnectWorkFails, WorkEof,
       ListenMon, BindFails, AcceptMon, AcceptMonFails, MonEof, End

LEMMA TypeStep == TypeOK /\ [Next]_vars => TypeOK'
<1> SUFFICES ASSUME TypeOK, [Next]_vars
             PROVE  TypeOK'
  OBVIOUS
<1> USE DEF TypeOK, serverVars, distributorVars
<1>1. CASE Listen \/ AcceptFails \/ ConnectMonFails
  BY <1>1 DEF Listen, AcceptFails, ConnectMonFails, ExitDistributor
<1>2. ASSUME NEW s \in Instances, Accept(s)
      PROVE  TypeOK'
  BY <1>2 DEF Accept
<1>3. CASE ConnectMon
  <2>1. PICK t \in Listening(addr) :
          /\ monq' = [monq EXCEPT ![t] = @ + 1]
          /\ servers_inner' = Append(servers_inner, <<cur, t>>)
    BY <1>3 DEF ConnectMon
  <2> QED
    BY <1>3, <2>1 DEF ConnectMon, Listening
<1>4. ASSUME NEW s \in Instances,
             Worker(s) \/ Main(s) \/ Start(s) \/ Crash(s)
      PROVE  TypeOK'
  <2>1. CASE ConnectWork(s)
    BY <2>1 DEF ConnectWork
  <2>2. CASE ListenMon(s)
    BY <2>2 DEF ListenMon
  <2>3. CASE AcceptMon(s)
    BY <2>3 DEF AcceptMon
  <2>4. CASE Start(s)
    BY <2>4 DEF Start
  <2>5. CASE \E how \in {"exited", "aborted"} : End(s, how)
    BY <2>5 DEF End
  <2> QED
    BY <1>4, <2>1, <2>2, <2>3, <2>4, <2>5
       DEF Worker, Main, Crash, ConnectWorkFails, WorkEof, BindFails,
           AcceptMonFails, MonEof
<1>5. CASE UNCHANGED vars
  BY <1>5 DEF vars
<1> QED
  BY <1>1, <1>2, <1>3, <1>4, <1>5 DEF Next, Distributor

\* Every variable keeps its type, and the distributor connects back to a server
\* only after accepting it.
THEOREM StartupTypeCorrect == Spec => []TypeOK
BY TypeInit, TypeStep, PTL DEF Spec

-----------------------------------------------------------------------------
(***************************************************************************)
(* A server whose connection was accepted, is in a slot, or waits in the   *)
(* backlog has made the one connection of its life, and is in only one of  *)
(* the three places.  The address of the connection just accepted is its   *)
(* host's, or nobody's.                                                    *)
(***************************************************************************)
InSlot(s) == \E i \in DOMAIN servers_inner : servers_inner[i][1] = s

PlaceInv ==
  /\ \A s \in waiting : wpc[s] = "read" /\ ~InSlot(s)
  /\ \A s \in Instances : InSlot(s) => wpc[s] = "read"
  /\ dpc = "connect" =>
       /\ wpc[cur] = "read" /\ cur \notin waiting /\ ~InSlot(cur)
       /\ addr \in {hostOf[cur], NoHost}

PairInv == PlaceInv /\ PairsMatch

LEMMA PairInit == Init => PairInv
BY DEF Init, PairInv, PlaceInv, PairsMatch, InSlot

\* What connecting back adds: a slot of the server accepted last, and of a
\* server on its host that listens.
LEMMA SlotAdded ==
  ASSUME TypeOK, PairInv, ConnectMon
  PROVE  \E t \in Instances :
           /\ servers_inner' = Append(servers_inner, <<cur, t>>)
           /\ monq' = [monq EXCEPT ![t] = @ + 1]
           /\ hostOf[cur] = hostOf[t]
           /\ proc[t] = "up" /\ mpc[t] # "listen"
           /\ cur \in Instances /\ ~InSlot(cur)
           /\ UNCHANGED <<proc, mpc>>
<1>1. PICK t \in Listening(addr) :
        /\ servers_inner' = Append(servers_inner, <<cur, t>>)
        /\ monq' = [monq EXCEPT ![t] = @ + 1]
  BY DEF ConnectMon
<1>2. hostOf[cur] = hostOf[t] /\ t \in Instances /\ cur \in Instances
      /\ proc[t] = "up" /\ mpc[t] # "listen"
  BY DEF Listening, ConnectMon, PairInv, PlaceInv, TypeOK
<1>3. ~InSlot(cur) /\ UNCHANGED <<proc, mpc>>
  BY DEF ConnectMon, serverVars, PairInv, PlaceInv
<1> QED
  BY <1>1, <1>2, <1>3

LEMMA PairStep ==
  TypeOK /\ PairInv /\ [Next]_vars => PairInv'
<1> SUFFICES ASSUME TypeOK, PairInv, [Next]_vars
             PROVE  PairInv'
  OBVIOUS
<1>0. /\ servers_inner \in Seq(Instances \X Instances)
      /\ wpc \in [Instances -> {"connect", "read"}]
      /\ waiting \subseteq Instances
  BY DEF TypeOK
<1>1. CASE UNCHANGED <<servers_inner, wpc, waiting>> /\ dpc' # "connect"
  BY <1>1 DEF PairInv, PlaceInv, PairsMatch, InSlot
<1>2. ASSUME NEW s \in Instances, Accept(s)
      PROVE  PairInv'
  BY <1>0, <1>2 DEF Accept, serverVars, PairInv, PlaceInv, PairsMatch, InSlot
<1>3. CASE ConnectMon
  <2> DEFINE n == Len(servers_inner)
  <2>0. PICK t \in Instances :
          /\ servers_inner' = Append(servers_inner, <<cur, t>>)
          /\ hostOf[cur] = hostOf[t]
          /\ cur \in Instances /\ ~InSlot(cur)
    BY <1>3, SlotAdded
  <2>1. n \in Nat /\ DOMAIN servers_inner = 1 .. n
    BY <1>0
  <2>2. /\ DOMAIN servers_inner' = 1 .. n + 1
        /\ servers_inner'[n + 1] = <<cur, t>>
        /\ \A i \in 1 .. n : servers_inner'[i] = servers_inner[i]
    BY <1>0, <2>0, <2>1
  <2>3. \A i \in 1 .. n + 1 : i \in 1 .. n \/ i = n + 1
    BY <2>1
  <2>4. \A s : InSlot(s)' <=> InSlot(s) \/ s = cur
    BY <2>1, <2>2, <2>3 DEF InSlot
  <2>5. PairsMatch'
    BY <2>0, <2>1, <2>2, <2>3 DEF PairInv, PairsMatch, InSlot
  <2> QED
    BY <1>3, <2>0, <2>4, <2>5 DEF ConnectMon, serverVars, PairInv, PlaceInv
<1>4. ASSUME NEW s \in Instances,
             Worker(s) \/ Main(s) \/ Start(s) \/ Crash(s)
      PROVE  PairInv'
  <2>1. UNCHANGED <<dpc, cur, addr, servers_inner>>
    BY <1>4, ServerFrame DEF distributorVars
  <2>2. \A t : InSlot(t)' <=> InSlot(t)
    BY <2>1 DEF InSlot
  <2>3. PairsMatch'
    BY <2>1 DEF PairInv, PairsMatch
  <2>4. CASE UNCHANGED <<waiting, wpc>>
    BY <2>1, <2>2, <2>3, <2>4 DEF PairInv, PlaceInv
  <2>5. CASE /\ wpc[s] = "connect"
             /\ waiting' = waiting \cup {s}
             /\ wpc' = [wpc EXCEPT ![s] = "read"]
    <3>1. ~InSlot(s) /\ (dpc = "connect" => cur # s)
      BY <2>5 DEF PairInv, PlaceInv
    <3>2. /\ wpc'[s] = "read"
          /\ \A t \in Instances : wpc[t] = "read" => wpc'[t] = "read"
      BY <1>0, <2>5
    <3>3. dpc = "connect" => cur \in Instances
      BY DEF TypeOK
    <3> QED
      BY <1>0, <2>1, <2>2, <2>3, <2>5, <3>1, <3>2, <3>3 DEF PairInv, PlaceInv
  <2> QED
    BY <1>4, <2>4, <2>5, ServerFrame
<1>5. CASE UNCHANGED vars
  BY <1>5 DEF vars, PairInv, PlaceInv, PairsMatch, InSlot
<1> QED
  BY <1>1, <1>2, <1>3, <1>4, <1>5
     DEF Next, Distributor, Listen, AcceptFails, ConnectMonFails,
         ExitDistributor, serverVars

\* No server has two slots, and the two connections of a slot lead to one host,
\* for any number of servers and however they share hosts (init_inner_mon).
THEOREM PairsCorrect == Spec => []PairsMatch
<1>1. PairInv => PairsMatch
  BY DEF PairInv
<1> QED
  BY <1>1, PairInit, PairStep, StartupTypeCorrect, PTL DEF Spec

-----------------------------------------------------------------------------
(***************************************************************************)
(* The mon connections.  A running server has as many as there are slots   *)
(* that lead to it; its main thread has accepted the first of them, or     *)
(* none.  Nobody connects to a server before it listens.                   *)
(***************************************************************************)
Slots(s) == Cardinality(MonSlots(s))

MonOf(s) ==
  /\ mpc[s] = "listen" => monq[s] = 0 /\ Slots(s) = 0
  /\ mpc[s] = "accept" => monq[s] = Slots(s)
  /\ mpc[s] = "serve" => monq[s] + 1 = Slots(s)

MonInv ==
  \A s \in Instances :
    /\ proc[s] = "off" => mpc[s] = "listen"
    /\ proc[s] \in {"off", "up"} => MonOf(s)

LEMMA MonInit == Init => MonInv
<1> SUFFICES ASSUME Init PROVE MonInv
  OBVIOUS
<1>1. \A s : MonSlots(s) = {}
  BY DEF Init, MonSlots
<1>2. \A s : Slots(s) = 0
  BY <1>1, FS_EmptySet DEF Slots
<1> QED
  BY <1>2 DEF Init, MonInv, MonOf

\* A slot more counts for the server it leads to.
LEMMA SlotCounted ==
  ASSUME servers_inner \in Seq(Instances \X Instances),
         NEW s \in Instances, NEW t \in Instances,
         servers_inner' = Append(servers_inner, <<s, t>>)
  PROVE  /\ Slots(t) \in Nat /\ Slots(t)' = Slots(t) + 1
         /\ \A u \in Instances : u # t => Slots(u)' = Slots(u)
<1> DEFINE n == Len(servers_inner)
<1>1. /\ n \in Nat /\ DOMAIN servers_inner = 1 .. n
      /\ DOMAIN servers_inner' = 1 .. n + 1
      /\ servers_inner'[n + 1][2] = t
      /\ \A i \in 1 .. n : servers_inner'[i] = servers_inner[i]
  OBVIOUS
<1> HIDE DEF n
<1>2. \A i \in 1 .. n + 1 : i \in 1 .. n \/ i = n + 1
  BY <1>1
<1>3. n + 1 \notin 1 .. n /\ \A i \in 1 .. n : i \in 1 .. n + 1
  BY <1>1
<1>4. MonSlots(t)' = MonSlots(t) \cup {n + 1} /\ n + 1 \notin MonSlots(t)
  BY <1>1, <1>2, <1>3 DEF MonSlots
<1>5. \A u \in Instances : u # t => MonSlots(u)' = MonSlots(u)
  BY <1>1, <1>2, <1>3 DEF MonSlots
<1>6. IsFiniteSet(MonSlots(t))
  <2>1. IsFiniteSet(1 .. n)
    BY <1>1, FS_Interval
  <2>2. MonSlots(t) \subseteq 1 .. n
    BY <1>1 DEF MonSlots
  <2> QED
    BY <2>1, <2>2, FS_Subset
<1>7. /\ Cardinality(MonSlots(t)) \in Nat
      /\ Cardinality(MonSlots(t) \cup {n + 1}) = Cardinality(MonSlots(t)) + 1
  BY <1>4, <1>6, FS_CardinalityType, FS_AddElement
<1> QED
  BY <1>4, <1>5, <1>7 DEF Slots

LEMMA MonStep ==
  TypeOK /\ PairInv /\ MonInv /\ [Next]_vars => MonInv'
<1> SUFFICES ASSUME TypeOK, PairInv, MonInv, [Next]_vars
             PROVE  MonInv'
  OBVIOUS
<1>0. /\ servers_inner \in Seq(Instances \X Instances)
      /\ proc \in [Instances -> {"off", "up", "exited", "aborted"}]
      /\ mpc \in [Instances -> {"listen", "accept", "serve"}]
      /\ monq \in [Instances -> Nat]
  BY DEF TypeOK
<1>s. UNCHANGED servers_inner => \A s : Slots(s)' = Slots(s)
  BY DEF Slots, MonSlots
<1>1. CASE UNCHANGED <<servers_inner, proc, mpc, monq>>
  BY <1>s, <1>1 DEF MonInv, MonOf
<1>2. CASE ConnectMon
  <2>1. PICK t \in Instances :
          /\ servers_inner' = Append(servers_inner, <<cur, t>>)
          /\ monq' = [monq EXCEPT ![t] = @ + 1]
          /\ proc[t] = "up" /\ mpc[t] # "listen"
          /\ cur \in Instances
          /\ UNCHANGED <<proc, mpc>>
    BY <1>2, SlotAdded
  <2>2. /\ Slots(t) \in Nat /\ Slots(t)' = Slots(t) + 1
        /\ \A u \in Instances : u # t => Slots(u)' = Slots(u)
    BY <1>0, <2>1, SlotCounted
  <2>3. /\ monq'[t] = monq[t] + 1 /\ monq[t] \in Nat
        /\ \A u \in Instances : u # t => monq'[u] = monq[u]
    BY <1>0, <2>1
  <2>4. MonOf(t) /\ mpc[t] \in {"accept", "serve"}
    BY <1>0, <2>1 DEF MonInv
  <2>5. MonOf(t)'
    BY <2>1, <2>2, <2>3, <2>4 DEF MonOf
  <2>6. \A u \in Instances : u # t /\ MonOf(u) => MonOf(u)'
    BY <2>1, <2>2, <2>3 DEF MonOf
  <2> QED
    BY <2>1, <2>5, <2>6 DEF MonInv
<1>3. ASSUME NEW s \in Instances,
             Worker(s) \/ Main(s) \/ Start(s) \/ Crash(s)
      PROVE  MonInv'
  <2>1. \A t : Slots(t)' = Slots(t)
    BY <1>3, <1>s, ServerFrame DEF distributorVars
  <2>2. CASE ConnectWork(s)
    BY <1>1, <2>2 DEF ConnectWork, distributorVars
  <2>3. CASE ListenMon(s)
    BY <1>0, <2>1, <2>3 DEF ListenMon, MonInv, MonOf
  <2>4. CASE AcceptMon(s)
    <3>1. /\ monq[s] = Slots(s) /\ monq[s] > 0 /\ monq[s] \in Nat
          /\ mpc[s] = "accept" /\ proc[s] = "up"
      BY <1>0, <2>4 DEF AcceptMon, MonInv, MonOf
    <3>2. monq'[s] = monq[s] - 1 /\ mpc'[s] = "serve" /\ proc' = proc
      BY <1>0, <2>4 DEF AcceptMon
    <3>3. \A t \in Instances : t # s => monq'[t] = monq[t] /\ mpc'[t] = mpc[t]
      BY <1>0, <2>4 DEF AcceptMon
    <3>4. MonOf(s)'
      BY <2>1, <3>1, <3>2 DEF MonOf
    <3> QED
      BY <2>1, <3>1, <3>2, <3>3, <3>4 DEF MonInv, MonOf
  <2>5. CASE Start(s)
    BY <1>0, <2>1, <2>5 DEF Start, MonInv, MonOf
  <2>6. CASE \E how \in {"exited", "aborted"} : End(s, how)
    BY <1>0, <2>1, <2>6 DEF End, MonInv, MonOf
  <2> QED
    BY <1>3, <2>2, <2>3, <2>4, <2>5, <2>6
       DEF Worker, Main, Crash, ConnectWorkFails, WorkEof, BindFails,
           AcceptMonFails, MonEof
<1> QED
  BY <1>1, <1>2, <1>3
     DEF Next, Distributor, Listen, Accept, AcceptFails, ConnectMonFails,
         ExitDistributor, serverVars, vars

\* Of the mon connections the distributor has made to a running server, the
\* server's main thread has accepted one or will accept the first, and all
\* others are in the backlog: none is lost, and none is accepted twice, for any
\* number of servers and however they share hosts.
THEOREM MonAccepted == Spec => []MonIsAccepted
<1>1. TypeOK /\ MonInv => MonIsAccepted
  <2> SUFFICES ASSUME TypeOK, MonInv, NEW t \in Instances,
                      proc[t] = "up", Slots(t) > 0
               PROVE  \/ mpc[t] = "accept" /\ monq[t] = Slots(t)
                      \/ mpc[t] = "serve" /\ monq[t] = Slots(t) - 1
    BY DEF MonIsAccepted, Slots
  <2>1. MonOf(t) /\ mpc[t] \in {"listen", "accept", "serve"} /\ monq[t] \in Nat
    BY DEF TypeOK, MonInv
  <2>2. CASE mpc[t] = "serve"
    <3>1. monq[t] + 1 = Slots(t)
      BY <2>1, <2>2 DEF MonOf
    <3>2. monq[t] = Slots(t) - 1
      BY <2>1, <3>1
    <3> QED
      BY <2>2, <3>2
  <2> QED
    BY <2>1, <2>2 DEF MonOf
<1> QED
  BY <1>1, PairInit, PairStep, MonInit, MonStep, StartupTypeCorrect, PTL DEF Spec

-----------------------------------------------------------------------------
(***************************************************************************)
(* Refinement.  Connecting back is a step Pair, the end of the distributor *)
(* a step Fail, and everything else a stutter.                             *)
(***************************************************************************)
LEMMA PairingStep ==
  TypeOK /\ PairInv /\ [Next]_vars => [P!Next]_P!pairingVars
<1> SUFFICES ASSUME TypeOK, PairInv, [Next]_vars
             PROVE  [P!Next]_P!pairingVars
  OBVIOUS
<1>1. CASE AcceptFails \/ ConnectMonFails
  BY <1>1 DEF AcceptFails, ConnectMonFails, ExitDistributor, P!Next, P!Fail,
              Phase
<1>2. CASE ConnectMon
  <2>1. PICK t \in Instances :
          /\ servers_inner' = Append(servers_inner, <<cur, t>>)
          /\ hostOf[cur] = hostOf[t]
          /\ cur \in Instances /\ ~InSlot(cur)
    BY <1>2, SlotAdded
  <2>2. Phase = "pairing"
    BY <1>2 DEF ConnectMon, Phase
  <2>3. Phase' = IF Len(servers_inner') = SERVERS_NUM THEN "ready"
                                                      ELSE "pairing"
    BY <1>2 DEF ConnectMon, Phase
  <2>4. P!Pair(cur, t)
    BY <2>1, <2>2, <2>3 DEF P!Pair, InSlot
  <2> QED
    BY <2>1, <2>4 DEF P!Next
<1>3. CASE /\ UNCHANGED servers_inner
           /\ dpc \in {"start", "accept", "connect"}
           /\ dpc' \in {"start", "accept", "connect"}
  BY <1>3 DEF P!pairingVars, Phase
<1>4. CASE UNCHANGED <<servers_inner, dpc>>
  BY <1>4 DEF P!pairingVars, Phase
<1>5. ASSUME NEW s \in Instances, Accept(s)
      PROVE  UNCHANGED servers_inner /\ dpc = "accept" /\ dpc' = "connect"
  BY <1>5 DEF Accept
<1> QED
  BY <1>1, <1>2, <1>3, <1>4, <1>5, ServerFrame
     DEF Next, Distributor, Listen, distributorVars, vars

\* Startup implements Pairing: the slots fill one by one, each for a new server,
\* with both connections to its host, and the distributor goes on exactly when
\* all are full.
THEOREM PairingImplemented == Spec => ImplementsPairing
<1>1. Init => P!Init
  BY DEF Init, P!Init, Phase
<1> QED
  BY <1>1, PairInit, PairStep, PairingStep, StartupTypeCorrect, PTL
     DEF Spec, ImplementsPairing, P!Spec
=============================================================================
