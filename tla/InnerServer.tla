---------------------------- MODULE InnerServer -----------------------------
(***************************************************************************)
(* The inner servers (inner_server.cc).  Each runs three threads: the      *)
(* worker (threadFunc) reads a request, works, and echoes it; the main     *)
(* thread (mainThreadFunc) answers the distributor's question with the     *)
(* usage figures; Procmon's thread refreshes those figures (pm.h).  Any of *)
(* the first two calls exit(1) when its connection ends, which ends all.   *)
(***************************************************************************)
EXTENDS Kernel

CONSTANT Usages  \* the usage figures Procmon may measure

ASSUME InnerAssumption == Usages \subseteq Usage

VARIABLES
  wpc,     \* wpc[s]: the worker of s is in read() or in write()
  whand,   \* whand[s]: the request the worker of s is about to echo
  ticked,  \* ticked[s]: Procmon of s has a first sample to compare with
  stat     \* stat[s]: the figures getStat() of s returns

innerVars == <<wpc, whand, ticked, stat>>

InnerTypeOK ==
  /\ wpc \in [Servers -> {"read", "reply"}]
  /\ whand \in [Servers -> Message]
  /\ ticked \in [Servers -> BOOLEAN]
  /\ stat \in [Servers -> Usage]

InnerInit ==
  /\ wpc = [s \in Servers |-> "read"]
  /\ whand = [s \in Servers |-> NoMessage]
  /\ ticked = [s \in Servers |-> FALSE]
  /\ stat = [s \in Servers |-> NoUsage]

\* The process of s ends; the kernel drops what was on its way to it.
ExitServer(s) ==
  /\ innerUp' = [innerUp EXCEPT ![s] = FALSE]
  /\ workq' = [workq EXCEPT ![s] = <<>>]
  /\ monReq' = [monReq EXCEPT ![s] = FALSE]
  /\ UNCHANGED <<distUp, replyq, monRep, connVars, innerVars>>

\* Mutant: the worker takes what it reads from the wrong end of its buffer.
WorkerReadNewest(s) ==
  /\ innerUp[s] /\ wpc[s] = "read"
  /\ workq[s] # <<>>
  /\ whand' = [whand EXCEPT ![s] = workq[s][Len(workq[s])]]
  /\ workq' = [workq EXCEPT ![s] = SubSeq(@, 1, Len(@) - 1)]
  /\ wpc' = [wpc EXCEPT ![s] = "reply"]
  /\ UNCHANGED <<distUp, innerUp, replyq, monVars, connVars, ticked, stat>>

\* The worker's read() returns a message, and do_something() runs.
WorkerRead(s) ==
  /\ innerUp[s] /\ wpc[s] = "read"
  /\ workq[s] # <<>>
  /\ whand' = [whand EXCEPT ![s] = Head(workq[s])]
  /\ workq' = [workq EXCEPT ![s] = Tail(@)]
  /\ wpc' = [wpc EXCEPT ![s] = "reply"]
  /\ UNCHANGED <<distUp, innerUp, replyq, monVars, connVars, ticked, stat>>

\* Mutant: the echo is written without blocking, and dropped when it does not
\* fit.
WorkerReplyNoWait(s) ==
  /\ innerUp[s] /\ wpc[s] = "reply"
  /\ replyq' = IF distUp /\ Len(replyq[s]) < ReplyCap
               THEN [replyq EXCEPT ![s] = Append(@, whand[s])]
               ELSE replyq
  /\ wpc' = [wpc EXCEPT ![s] = "read"]
  /\ whand' = [whand EXCEPT ![s] = NoMessage]
  /\ UNCHANGED <<distUp, innerUp, workq, monVars, connVars, ticked, stat>>

\* The echo: write() blocks while the connection is full, and its result is
\* ignored, so an echo to a distributor that is gone is dropped.
WorkerReply(s) ==
  /\ innerUp[s] /\ wpc[s] = "reply"
  /\ \/ /\ distUp /\ Len(replyq[s]) < ReplyCap
        /\ replyq' = [replyq EXCEPT ![s] = Append(@, whand[s])]
     \/ ~distUp /\ UNCHANGED replyq
  /\ wpc' = [wpc EXCEPT ![s] = "read"]
  /\ whand' = [whand EXCEPT ![s] = NoMessage]
  /\ UNCHANGED <<distUp, innerUp, workq, monVars, connVars, ticked, stat>>

\* read() returns 0 or -1: "distributor closed".  Requests that arrived
\* before the end of the connection are read first.
WorkerEof(s) ==
  /\ innerUp[s] /\ wpc[s] = "read"
  /\ ~distUp /\ workq[s] = <<>>
  /\ ExitServer(s)

\* The main thread reads a 'G' and writes the current figures back.
MonServe(s) ==
  /\ innerUp[s]
  /\ monReq[s]
  /\ monReq' = [monReq EXCEPT ![s] = FALSE]
  /\ monRep' = [monRep EXCEPT ![s] = Append(@, stat[s])]
  /\ UNCHANGED <<distUp, innerUp, workVars, connVars, innerVars>>

\* The main thread's read() or write() fails: "monFd read!".
MonEof(s) ==
  /\ innerUp[s]
  /\ ~distUp
  /\ ExitServer(s)

\* Procmon::tick(): the first call only stores its sample; a later one
\* compares with it and stores new figures, all three under the lock.
Tick(s) ==
  /\ innerUp[s]
  /\ ticked' = [ticked EXCEPT ![s] = TRUE]
  /\ IF ticked[s]
     THEN \E u \in Usages : stat' = [stat EXCEPT ![s] = u]
     ELSE UNCHANGED stat
  /\ UNCHANGED <<kernelVars, wpc, whand>>

\* The process of s is killed from outside.
Crash(s) ==
  /\ innerUp[s]
  /\ ExitServer(s)

WorkerNext(s) == WorkerRead(s) \/ WorkerReply(s) \/ WorkerEof(s)

MonServerNext(s) == MonServe(s) \/ MonEof(s)

InnerNext ==
  \E s \in Servers :
    WorkerNext(s) \/ MonServerNext(s) \/ Tick(s) \/ Crash(s)
=============================================================================
