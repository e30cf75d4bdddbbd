------------------------------- MODULE Kernel -------------------------------
(***************************************************************************)
(* The kernel objects through which the processes of the load balancer     *)
(* meet: the distributor (algorithm_distributor.cc), the SERVERS_NUM inner *)
(* servers (inner_server.cc) and the clients of port 9527.                 *)
(*                                                                         *)
(* The distributor holds two connections to each inner server: the work    *)
(* connection carries the requests one way and their echoes the other, the *)
(* mon connection carries a one-byte question and a 24-byte answer.  A     *)
(* direction of a connection is a FIFO queue; a direction that can fill up *)
(* has a capacity, counted in messages, and holds whole messages only.     *)
(***************************************************************************)
EXTENDS Load, Sequences

CONSTANTS
  SERVERS_NUM,  \* number of inner servers (4 in the code)
  Conns,        \* client connections, each used once
  NoConn,       \* no connection
  normalLen,    \* length of a client's request (16 bytes in the code)
  WorkCap,      \* requests that fit between a distributor and a server
  ReplyCap      \* echoes that fit on the way back

ASSUME KernelAssumption ==
  /\ SERVERS_NUM \in Nat \ {0}
  /\ NoConn \notin Conns
  /\ normalLen \in Nat \ {0}
  /\ WorkCap \in Nat \ {0}
  /\ ReplyCap \in Nat \ {0}

Servers == 0 .. SERVERS_NUM - 1

(***************************************************************************)
(* struct message: the request and, in .fd, the distributor's descriptor   *)
(* of the client that sent it.  The payload plays no part.  .conn and .seq *)
(* tell requests apart in the properties: the connection that sent the     *)
(* request, and how many the distributor had taken from it with this one.  *)
(* The code knows of neither, and no guard reads them.                     *)
(***************************************************************************)
Message == [fd : Nat, conn : Conns \cup {NoConn}, seq : Nat]

NoMessage == [fd |-> 0, conn |-> NoConn, seq |-> 0]

VARIABLES
  distUp,   \* the distributor's process has not exited
  innerUp,  \* innerUp[s]: the process of inner server s has not exited
  workq,    \* workq[s]: requests written to s and not yet read by it
  replyq,   \* replyq[s]: echoes written by s and not yet read
  monReq,   \* monReq[s]: an unread 'G' is on the mon connection of s
  monRep,   \* monRep[s]: usage answers of s not yet read
  cst,      \* cst[c]: state of client connection c
  avail,    \* avail[c]: bytes of c the distributor has not read
  eof       \* eof[c]: the client has shut c down, or reset it

workVars == <<workq, replyq>>
monVars == <<monReq, monRep>>
connVars == <<cst, avail, eof>>
kernelVars == <<distUp, innerUp, workq, replyq, monReq, monRep,
                cst, avail, eof>>

(***************************************************************************)
(* A connection is not there yet, waits in the backlog of the listening    *)
(* socket, has been accepted, or has been closed by the distributor.       *)
(***************************************************************************)
ConnState == {"idle", "queued", "open", "closed"}

KernelTypeOK ==
  /\ distUp \in BOOLEAN
  /\ innerUp \in [Servers -> BOOLEAN]
  /\ workq \in [Servers -> Seq(Message)]
  /\ replyq \in [Servers -> Seq(Message)]
  /\ monReq \in [Servers -> BOOLEAN]
  /\ monRep \in [Servers -> Seq(Usage)]
  /\ cst \in [Conns -> ConnState]
  /\ avail \in [Conns -> Nat]
  /\ eof \in [Conns -> BOOLEAN]

\* All processes run, all connections between them are there and empty.
KernelInit ==
  /\ distUp = TRUE
  /\ innerUp = [s \in Servers |-> TRUE]
  /\ workq = [s \in Servers |-> <<>>]
  /\ replyq = [s \in Servers |-> <<>>]
  /\ monReq = [s \in Servers |-> FALSE]
  /\ monRep = [s \in Servers |-> <<>>]
  /\ cst = [c \in Conns |-> "idle"]
  /\ avail = [c \in Conns |-> 0]
  /\ eof = [c \in Conns |-> FALSE]
=============================================================================
