------------------------------ MODULE Pairing -------------------------------
(***************************************************************************)
(* What the startup of the load balancer promises: the distributor fills   *)
(* the slots of servers_inner one by one, each with the work connection of *)
(* a server that has no slot yet and the mon connection of a server on the *)
(* same host, and is ready when all slots are full.  It may fail at any    *)
(* moment, and never recovers.                                             *)
(***************************************************************************)
EXTENDS Naturals, Sequences

CONSTANTS
  SERVERS_NUM,  \* slots to fill
  Instances,    \* server processes
  hostOf        \* hostOf[s]: the host s runs on

VARIABLES
  servers_inner,  \* the slots filled so far: <<work server, mon server>>
  phase           \* of the distributor

pairingVars == <<servers_inner, phase>>

Init ==
  /\ servers_inner = <<>>
  /\ phase = "pairing"

Pair(s, t) ==
  /\ phase = "pairing"
  /\ \A i \in DOMAIN servers_inner : servers_inner[i][1] # s
  /\ hostOf[t] = hostOf[s]
  /\ servers_inner' = Append(servers_inner, <<s, t>>)
  /\ phase' = IF Len(servers_inner') = SERVERS_NUM THEN "ready" ELSE "pairing"

Fail ==
  /\ phase # "failed"
  /\ phase' = "failed"
  /\ UNCHANGED servers_inner

Next == Fail \/ \E s, t \in Instances : Pair(s, t)

Spec == Init /\ [][Next]_pairingVars
=============================================================================
