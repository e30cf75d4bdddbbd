------------------------------ MODULE Clients -------------------------------
(***************************************************************************)
(* The clients of the distributor, as test_bench.c (connect, write 16      *)
(* bytes, shutdown, read) and my_grub.c (one connection, messages of any   *)
(* length) use it.  TCP may hand a client's bytes to the distributor in    *)
(* pieces, so bytes arrive in segments of 1 to normalLen bytes.            *)
(***************************************************************************)
EXTENDS Kernel

CONSTANT MaxSend  \* bound: bytes a client sends on one connection

ASSUME ClientsAssumption == MaxSend \in Nat

VARIABLE sent     \* sent[c]: bytes sent on c

ClientsTypeOK == sent \in [Conns -> Nat]

ClientsInit == sent = [c \in Conns |-> 0]

Connected(c) == distUp /\ cst[c] \in {"queued", "open"}

\* connect(): the handshake ends in the backlog of the listening socket.
Connect(c) ==
  /\ distUp
  /\ cst[c] = "idle"
  /\ cst' = [cst EXCEPT ![c] = "queued"]
  /\ UNCHANGED <<distUp, innerUp, workVars, monVars, avail, eof, sent>>

\* A segment of n bytes of what the client wrote arrives.
Send(c, n) ==
  /\ Connected(c) /\ ~eof[c]
  /\ sent[c] + n <= MaxSend
  /\ sent' = [sent EXCEPT ![c] = @ + n]
  /\ avail' = [avail EXCEPT ![c] = @ + n]
  /\ UNCHANGED <<distUp, innerUp, workVars, monVars, cst, eof>>

\* shutdown(s, 1), or close() once every answer has been read.
Shutdown(c) ==
  /\ Connected(c) /\ ~eof[c]
  /\ eof' = [eof EXCEPT ![c] = TRUE]
  /\ UNCHANGED <<distUp, innerUp, workVars, monVars, cst, avail, sent>>

\* close() with an answer unread resets the connection: bytes on it are lost.
Reset(c) ==
  /\ Connected(c)
  /\ avail[c] > 0
  /\ eof' = [eof EXCEPT ![c] = TRUE]
  /\ avail' = [avail EXCEPT ![c] = 0]
  /\ UNCHANGED <<distUp, innerUp, workVars, monVars, cst, sent>>

ClientsNext ==
  \E c \in Conns :
    \/ Connect(c)
    \/ \E n \in 1 .. normalLen : Send(c, n)
    \/ Shutdown(c)
    \/ Reset(c)
=============================================================================
