----------------------------- MODULE RoundRobin -----------------------------
(***************************************************************************)
(* The round-robin distributor (round_robin_distributor.cc) with its       *)
(* servers and clients.  It forwards whatever it has read, byte for byte   *)
(* and without a tag, to the servers in rotation, and answers the client   *)
(* as soon as the write has returned.  It never uses the mon connections.  *)
(*                                                                         *)
(* main() starts the dispatcher and returns, which ends the process.       *)
(*                                                                         *)
(* The work connections are counted in bytes here.  Events name the        *)
(* connection itself: descriptors are those of AlgorithmDistributor, whose *)
(* table this program shares, and are assumed to suffice.                  *)
(***************************************************************************)
EXTENDS Integers, FiniteSets, Sums

CONSTANTS
  SERVERS_NUM,  \* number of inner servers (4 in the code)
  Conns,        \* client connections, each used once
  Listener,     \* the listening socket, as an event
  BUFSIZ,       \* bytes read at once at most
  messLen,      \* bytes an inner server waits for (20 in the code)
  WorkCap,      \* bytes that fit between the distributor and a server
  ReplyCap,     \* bytes that fit on the way back
  AnswerCap,    \* answers that fit on the way to a client
  MaxSend       \* bound: bytes a client sends

Servers == 0 .. SERVERS_NUM - 1

ASSUME RoundRobinAssumption ==
  /\ SERVERS_NUM \in Nat \ {0}
  /\ Listener \notin Conns
  /\ BUFSIZ \in Nat \ {0} /\ messLen \in Nat \ {0}
  /\ WorkCap \in Nat \ {0} /\ ReplyCap \in Nat
  /\ AnswerCap \in Nat \ {0} /\ MaxSend \in Nat

VARIABLES
  up,       \* the distributor has not exited
  opc,      \* where the dispatcher is
  batch,    \* the events not handled yet
  fd,       \* the connection whose bytes are being forwarded
  readn,    \* how many bytes were read from it
  unsent,   \* how many of them are not written yet
  verdict,  \* whether writen = readn
  target,   \* the server they are written to
  CurSelectedServerIndex,
  cst,      \* cst[c]: idle, queued, open, or closed by the distributor
  avail,    \* avail[c]: bytes of c not read
  ending,   \* ending[c]: how the client has ended its side
  inbox,    \* inbox[c]: answers c has not read
  innerUp,  \* innerUp[s]: server s has not exited
  workb,    \* workb[s]: bytes on their way to s
  replyb,   \* replyb[s]: bytes on their way back, which nobody reads
  echoing,  \* echoing[s]: the worker of s is in write()
  \* History variables, read by no guard:
  sent,     \* sent[c]: bytes sent by c (and bound)
  chunks,   \* chunks[c]: reads from c that returned bytes
  answers,  \* answers[c]: answers written to c, dropped ones included
  drawn     \* drawn[s]: chunks s was chosen for

chunkVars == <<fd, readn, unsent, verdict, target>>
connVars == <<cst, avail, ending, inbox>>
serverVars == <<innerUp, workb, replyb, echoing>>
ghostVars == <<sent, chunks, answers, drawn>>
vars == <<up, opc, batch, chunkVars, CurSelectedServerIndex, connVars,
          serverVars, ghostVars>>

NoChunk ==
  /\ fd' = Listener /\ readn' = 0 /\ unsent' = 0
  /\ verdict' = FALSE /\ target' = 0

TypeOK ==
  /\ up \in BOOLEAN
  /\ opc \in {"wait", "batch", "accept_first", "accept", "write", "answer"}
  /\ batch \subseteq Conns \cup {Listener}
  /\ fd \in Conns \cup {Listener}
  /\ opc \in {"write", "answer"} => fd \in Conns
  /\ readn \in 0 .. BUFSIZ
  /\ unsent \in 0 .. BUFSIZ
  /\ verdict \in BOOLEAN
  /\ target \in Servers
  /\ CurSelectedServerIndex \in Servers
  /\ cst \in [Conns -> {"idle", "queued", "open", "closed"}]
  /\ avail \in [Conns -> Nat]
  /\ ending \in [Conns -> {"no", "fin", "reset"}]
  /\ inbox \in [Conns -> Nat]
  /\ innerUp \in [Servers -> BOOLEAN]
  /\ workb \in [Servers -> Nat]
  /\ replyb \in [Servers -> Nat]
  /\ echoing \in [Servers -> BOOLEAN]
  /\ sent \in [Conns -> Nat]
  /\ chunks \in [Conns -> Nat]
  /\ answers \in [Conns -> Nat]
  /\ drawn \in [Servers -> Nat]

Init ==
  /\ up = TRUE
  /\ opc = "wait"
  /\ batch = {}
  /\ fd = Listener /\ readn = 0 /\ unsent = 0
  /\ verdict = FALSE /\ target = 0
  /\ CurSelectedServerIndex = 0
  /\ cst = [c \in Conns |-> "idle"]
  /\ avail = [c \in Conns |-> 0]
  /\ ending = [c \in Conns |-> "no"]
  /\ inbox = [c \in Conns |-> 0]
  /\ innerUp = [s \in Servers |-> TRUE]
  /\ workb = [s \in Servers |-> 0]
  /\ replyb = [s \in Servers |-> 0]
  /\ echoing = [s \in Servers |-> FALSE]
  /\ sent = [c \in Conns |-> 0]
  /\ chunks = [c \in Conns |-> 0]
  /\ answers = [c \in Conns |-> 0]
  /\ drawn = [s \in Servers |-> 0]
-----------------------------------------------------------------------------
(***************************************************************************)
(* The distributor.                                                        *)
(***************************************************************************)
Queued == {c \in Conns : cst[c] = "queued"}

Ready ==
  {c \in Conns : cst[c] = "open" /\ (avail[c] > 0 \/ ending[c] # "no")}
    \cup (IF Queued # {} THEN {Listener} ELSE {})

NextEvent(rest) == IF rest = {} THEN "wait" ELSE "batch"

\* The process ends: by exit(1), or as main() returns.
Exit ==
  /\ up' = FALSE
  /\ UNCHANGED <<opc, batch, chunkVars, CurSelectedServerIndex, connVars,
                 serverVars, ghostVars>>

MainReturns == up /\ Exit

EpollWait ==
  /\ up /\ opc = "wait"
  /\ Ready # {}
  /\ batch' = Ready
  /\ opc' = "batch"
  /\ UNCHANGED <<up, chunkVars, CurSelectedServerIndex, connVars, serverVars,
                 ghostVars>>

HandleListen ==
  /\ up /\ opc = "batch"
  /\ Listener \in batch
  /\ batch' = batch \ {Listener}
  /\ opc' = "accept_first"
  /\ UNCHANGED <<up, chunkVars, CurSelectedServerIndex, connVars, serverVars,
                 ghostVars>>

Accept(c) ==
  /\ up /\ opc \in {"accept_first", "accept"}
  /\ c \in Queued
  /\ cst' = [cst EXCEPT ![c] = "open"]
  /\ opc' = "accept"
  /\ UNCHANGED <<up, batch, chunkVars, CurSelectedServerIndex, avail, ending,
                 inbox, serverVars, ghostVars>>

AcceptDone ==
  /\ up /\ opc \in {"accept_first", "accept"}
  /\ Queued = {}
  /\ opc' = NextEvent(batch)
  /\ UNCHANGED <<up, batch, chunkVars, CurSelectedServerIndex, connVars,
                 serverVars, ghostVars>>

\* client_addr_len is uninitialized and reads as a negative number: EINVAL.
AcceptFails ==
  /\ up /\ opc = "accept_first"
  /\ Queued # {}
  /\ Exit

\* Mutant: a server whose connection is gone is not passed over.
DrawAgain ==
  /\ target' = CurSelectedServerIndex
  /\ drawn' = [drawn EXCEPT ![CurSelectedServerIndex] = @ + 1]
  /\ CurSelectedServerIndex' =
       IF ~innerUp[CurSelectedServerIndex] THEN CurSelectedServerIndex
       ELSE (CurSelectedServerIndex + 1) % SERVERS_NUM

\* The rotation, under mtx.  The index is never negative, so cond.wait() is
\* never called.
Draw ==
  /\ target' = CurSelectedServerIndex
  /\ drawn' = [drawn EXCEPT ![CurSelectedServerIndex] = @ + 1]
  /\ CurSelectedServerIndex' =
       IF CurSelectedServerIndex + 1 >= SERVERS_NUM
       THEN 0
       ELSE CurSelectedServerIndex + 1

\* read() returns bytes, as many as there are and the buffer holds.
Read(c) ==
  /\ up /\ opc = "batch"
  /\ c \in batch \cap Conns
  /\ avail[c] > 0
  /\ LET n == Min({avail[c], BUFSIZ})
     IN  /\ avail' = [avail EXCEPT ![c] = @ - n]
         /\ readn' = n
         /\ unsent' = n
  /\ fd' = c
  /\ verdict' = FALSE
  /\ Draw
  /\ batch' = batch \ {c}
  /\ opc' = "write"
  /\ chunks' = [chunks EXCEPT ![c] = @ + 1]
  /\ UNCHANGED <<up, cst, ending, inbox, serverVars, sent, answers>>

\* read() returns 0 or a reset: CloseConnect.
Close(c) ==
  /\ up /\ opc = "batch"
  /\ c \in batch \cap Conns
  /\ avail[c] = 0
  /\ cst' = [cst EXCEPT ![c] = "closed"]
  /\ batch' = batch \ {c}
  /\ opc' = NextEvent(batch')
  /\ UNCHANGED <<up, chunkVars, CurSelectedServerIndex, avail, ending, inbox,
                 serverVars, ghostVars>>

\* write() moves as many bytes as there is room for, and blocks for the rest.
WriteSome ==
  /\ up /\ opc = "write"
  /\ innerUp[target]
  /\ workb[target] < WorkCap
  /\ LET n == Min({unsent, WorkCap - workb[target]})
     IN  /\ workb' = [workb EXCEPT ![target] = @ + n]
         /\ unsent' = unsent - n
  /\ verdict' = (unsent' = 0)
  /\ opc' = IF unsent' = 0 THEN "answer" ELSE "write"
  /\ UNCHANGED <<up, batch, fd, readn, target, CurSelectedServerIndex,
                 connVars, innerUp, replyb, echoing, ghostVars>>

\* The server has exited: what is left is accepted by the kernel and lost if
\* nothing was written before, or write() returns less or an error.
WriteToDead ==
  /\ up /\ opc = "write"
  /\ ~innerUp[target]
  /\ verdict' \in (IF unsent = readn THEN BOOLEAN ELSE {FALSE})
  /\ unsent' = 0
  /\ opc' = "answer"
  /\ UNCHANGED <<up, batch, fd, readn, target, CurSelectedServerIndex,
                 connVars, serverVars, ghostVars>>

\* Mutant: nothing is said of a chunk that was not delivered.
AnswerOnlyGood ==
  /\ up /\ opc = "answer"
  /\ inbox' = IF verdict /\ ending[fd] # "reset" /\ inbox[fd] < AnswerCap
              THEN [inbox EXCEPT ![fd] = @ + 1] ELSE inbox
  /\ answers' = IF verdict THEN [answers EXCEPT ![fd] = @ + 1] ELSE answers
  /\ NoChunk
  /\ opc' = NextEvent(batch)
  /\ UNCHANGED <<up, batch, CurSelectedServerIndex, cst, avail, ending,
                 serverVars, sent, chunks, drawn>>

\* Mutant: setNonblock() is forgotten.
AnswerWaits ==
  /\ up /\ opc = "answer"
  /\ ending[fd] = "reset" \/ inbox[fd] < AnswerCap
  /\ inbox' = IF ending[fd] # "reset" THEN [inbox EXCEPT ![fd] = @ + 1]
                                      ELSE inbox
  /\ answers' = [answers EXCEPT ![fd] = @ + 1]
  /\ NoChunk
  /\ opc' = NextEvent(batch)
  /\ UNCHANGED <<up, batch, CurSelectedServerIndex, cst, avail, ending,
                 serverVars, sent, chunks, drawn>>

\* correct_res or err_res, 16 bytes either way, written without blocking: an
\* answer that does not fit, or to a connection that was reset, is dropped.
Answer ==
  /\ up /\ opc = "answer"
  /\ inbox' = IF ending[fd] # "reset" /\ inbox[fd] < AnswerCap
              THEN [inbox EXCEPT ![fd] = @ + 1] ELSE inbox
  /\ answers' = [answers EXCEPT ![fd] = @ + 1]
  /\ NoChunk
  /\ opc' = NextEvent(batch)
  /\ UNCHANGED <<up, batch, CurSelectedServerIndex, cst, avail, ending,
                 serverVars, sent, chunks, drawn>>

Dispatcher ==
  \/ EpollWait
  \/ HandleListen
  \/ \E c \in Conns : Accept(c) \/ Read(c) \/ Close(c)
  \/ AcceptDone
  \/ AcceptFails
  \/ WriteSome
  \/ WriteToDead
  \/ Answer
-----------------------------------------------------------------------------
(***************************************************************************)
(* The inner servers (inner_server.cc).                                    *)
(***************************************************************************)
distributorVars == <<up, opc, batch, chunkVars, CurSelectedServerIndex>>

End(s) ==
  /\ innerUp' = [innerUp EXCEPT ![s] = FALSE]
  /\ workb' = [workb EXCEPT ![s] = 0]
  /\ echoing' = [echoing EXCEPT ![s] = FALSE]
  /\ UNCHANGED <<distributorVars, connVars, replyb, ghostVars>>

\* read() returns some of the bytes.  Anything but messLen of them is dropped.
WorkerRead(s) ==
  /\ innerUp[s] /\ ~echoing[s]
  /\ \E n \in 1 .. Min({workb[s], messLen}) :
       /\ workb' = [workb EXCEPT ![s] = @ - n]
       /\ echoing' = [echoing EXCEPT ![s] = (n = messLen)]
  /\ UNCHANGED <<distributorVars, connVars, innerUp, replyb, ghostVars>>

\* The echo blocks until it fits; nobody is left to see one that is sent to a
\* distributor that has exited.
WorkerEcho(s) ==
  /\ innerUp[s] /\ echoing[s]
  /\ \/ /\ up /\ replyb[s] + messLen <= ReplyCap
        /\ replyb' = [replyb EXCEPT ![s] = @ + messLen]
     \/ ~up /\ UNCHANGED replyb
  /\ echoing' = [echoing EXCEPT ![s] = FALSE]
  /\ UNCHANGED <<distributorVars, connVars, innerUp, workb, ghostVars>>

\* Either thread's read() ends with its connection.
ServerEof(s) ==
  /\ innerUp[s] /\ ~up
  /\ End(s)

Crash(s) ==
  /\ innerUp[s]
  /\ End(s)

Worker(s) == WorkerRead(s) \/ WorkerEcho(s) \/ ServerEof(s)
-----------------------------------------------------------------------------
(***************************************************************************)
(* The clients.                                                            *)
(***************************************************************************)
Connect(c) ==
  /\ up /\ cst[c] = "idle"
  /\ cst' = [cst EXCEPT ![c] = "queued"]
  /\ UNCHANGED <<distributorVars, avail, ending, inbox, serverVars, ghostVars>>

Linked(c) == up /\ cst[c] \in {"queued", "open"}

Send(c, n) ==
  /\ Linked(c) /\ ending[c] = "no"
  /\ sent[c] + n <= MaxSend
  /\ sent' = [sent EXCEPT ![c] = @ + n]
  /\ avail' = [avail EXCEPT ![c] = @ + n]
  /\ UNCHANGED <<distributorVars, cst, ending, inbox, serverVars, chunks,
                 answers, drawn>>

Shutdown(c) ==
  /\ Linked(c) /\ ending[c] = "no"
  /\ ending' = [ending EXCEPT ![c] = "fin"]
  /\ UNCHANGED <<distributorVars, cst, avail, inbox, serverVars, ghostVars>>

\* close() with an answer unread resets the connection.
Reset(c) ==
  /\ Linked(c) /\ ending[c] # "reset"
  /\ inbox[c] > 0
  /\ ending' = [ending EXCEPT ![c] = "reset"]
  /\ avail' = [avail EXCEPT ![c] = 0]
  /\ inbox' = [inbox EXCEPT ![c] = 0]
  /\ UNCHANGED <<distributorVars, cst, serverVars, ghostVars>>

ReadAnswer(c) ==
  /\ inbox[c] > 0
  /\ inbox' = [inbox EXCEPT ![c] = @ - 1]
  /\ UNCHANGED <<distributorVars, cst, avail, ending, serverVars, ghostVars>>

Client(c) ==
  \/ Connect(c)
  \/ \E n \in 1 .. MaxSend : Send(c, n)
  \/ Shutdown(c)
  \/ Reset(c)
  \/ ReadAnswer(c)
-----------------------------------------------------------------------------
Next ==
  \/ MainReturns
  \/ Dispatcher
  \/ \E s \in Servers : Worker(s) \/ Crash(s)
  \/ \E c \in Conns : Client(c)

Spec == Init /\ [][Next]_vars

\* The threads that carry requests run; main() may be slow to return.
DataSpec ==
  /\ Spec
  /\ WF_vars(Dispatcher)
  /\ \A s \in Servers : WF_vars(Worker(s))

FairSpec == DataSpec /\ WF_vars(MainReturns)
-----------------------------------------------------------------------------
\* The chunks are dealt evenly: the servers before the index have had one more
\* than those from it on, whatever became of the chunks and of the servers.
RotationBalanced ==
  \A s \in Servers :
    drawn[s] = drawn[SERVERS_NUM - 1]
                 + (IF s < CurSelectedServerIndex THEN 1 ELSE 0)

\* The chunks of all clients together go round the servers in turn: after k of
\* them each has had k div SERVERS_NUM or one more, and the index is the rest.
ChunksInTurn ==
  /\ SumOver(drawn, Servers) = SumOver(chunks, Conns)
  /\ SumOver(chunks, Conns) =
       SERVERS_NUM * drawn[SERVERS_NUM - 1] + CurSelectedServerIndex

\* A client is answered once for each chunk that was read from it, before the
\* next chunk of any client and before its connection is closed: what the
\* pressure test needs, which half-closes before it reads.
AnsweredBeforeClose ==
  \A c \in Conns :
    /\ answers[c] = chunks[c] - (IF opc \in {"write", "answer"} /\ fd = c
                                 THEN 1 ELSE 0)
    /\ cst[c] = "closed" => chunks[c] = answers[c]

\* The dispatcher writes to a server whose connection is full and whose worker
\* is writing to a full connection.
Wedged ==
  /\ up /\ opc = "write" /\ innerUp[target]
  /\ workb[target] = WorkCap
  /\ echoing[target] /\ replyb[target] + messLen > ReplyCap

\* As in the other distributor, two blocking writes face each other: nothing but
\* the end of one of the two processes frees the dispatcher once it is wedged.
WedgeIsFinal ==
  [][Wedged => Wedged' \/ ~up' \/ ~innerUp'[target]]_vars

\* Until the process ends, what a client has sent is eventually read, unless
\* the dispatcher is wedged.
BytesTaken ==
  \A c \in Conns :
    cst[c] = "open" /\ avail[c] > 0 ~> avail[c] = 0 \/ Wedged \/ ~up

\* What the pressure test is there to measure: a client that has sent a
\* request is answered.
Served ==
  \A c \in Conns : sent[c] > 0 ~> answers[c] > 0
=============================================================================
