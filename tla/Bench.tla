------------------------------- MODULE Bench --------------------------------
(***************************************************************************)
(* The pressure test (test_bench.c and its older copy someip_bench.c).     *)
(*                                                                         *)
(* The parent probes the server, forks `clients' children, and adds up     *)
(* what they report through a pipe.  A child connects, writes a request,   *)
(* half-closes, reads the answer and checks it, again and again, until its *)
(* alarm sets timerexpired.  sa_flags is 0, so the alarm makes a call that *)
(* blocks fail; one that comes before the call only sets the flag.         *)
(* The response times (diff) are left out.                                 *)
(***************************************************************************)
EXTENDS Naturals, Sequences, FiniteSets, Sums

CONSTANTS
  clients,   \* number of children
  Answers,   \* the 16-byte answers a server may send
  Nothing,   \* the server has sent nothing yet
  Ended,     \* it has closed or reset the connection without a whole answer
  Killable,  \* children that something may kill
  MaxTries   \* bound: attempts of a child

(***************************************************************************)
(* An answer is a function from 0 .. 15 to bytes.  Both distributors send  *)
(* correct_res, an array whose initializer names its first byte alone.     *)
(***************************************************************************)
correct_res == [i \in 0 .. 15 |-> IF i = 0 THEN "a" ELSE "nul"]

Children == 1 .. clients

ASSUME BenchAssumption ==
  /\ clients \in Nat \ {0}
  /\ Nothing # Ended /\ {Nothing, Ended} \cap Answers = {}
  /\ Killable \subseteq Children
  /\ MaxTries \in Nat

VARIABLES
  ppc,      \* where the parent is
  forked,   \* children forked so far
  left,     \* reports the parent still waits for (clients, counted down)
  total,    \* the parent's speed and failed
  pipe,     \* reports in the pipe
  cpc,      \* cpc[k]: where child k is
  timer,    \* timer[k]: the alarm of k; timerexpired once it has fired
  inbox,    \* inbox[k]: what the connection of k holds for it to read
  speed,    \* speed[k], failed[k]: the counters of k
  failed,
  tried     \* tried[k]: attempts k has begun (history variable and bound)

parentVars == <<ppc, forked, left, total>>
vars == <<ppc, forked, left, total, pipe, cpc, timer, inbox, speed, failed,
          tried>>

\* A report, and a total: how many attempts succeeded, how many failed.
Report == [speed : Nat, failed : Nat]

TypeOK ==
  /\ ppc \in {"probe", "fork", "collect", "done", "failed"}
  /\ forked \in 0 .. clients
  /\ left \in 0 .. clients
  /\ total \in Report
  /\ pipe \in Seq(Report)
  /\ cpc \in [Children -> {"unborn", "sleep", "check", "connect",
                           "connecting", "write", "read", "reading",
                           "report", "gone", "killed"}]
  /\ timer \in [Children -> {"off", "armed", "fired"}]
  /\ inbox \in [Children -> Answers \cup {Nothing, Ended}]
  /\ speed \in [Children -> Nat]
  /\ failed \in [Children -> Nat]
  /\ tried \in [Children -> 0 .. MaxTries]

Init ==
  /\ ppc = "probe"
  /\ forked = 0
  /\ left = clients
  /\ total = [speed |-> 0, failed |-> 0]
  /\ pipe = <<>>
  /\ cpc = [k \in Children |-> "unborn"]
  /\ timer = [k \in Children |-> "off"]
  /\ inbox = [k \in Children |-> Nothing]
  /\ speed = [k \in Children |-> 0]
  /\ failed = [k \in Children |-> 0]
  /\ tried = [k \in Children |-> 0]
-----------------------------------------------------------------------------
(***************************************************************************)
(* A child.                                                                *)
(***************************************************************************)
Goto(k, from, to) ==
  /\ cpc[k] = from
  /\ cpc' = [cpc EXCEPT ![k] = to]

\* { ++failed; close(s); continue; }
Fail(k) ==
  /\ failed' = [failed EXCEPT ![k] = @ + 1]
  /\ inbox' = [inbox EXCEPT ![k] = Nothing]
  /\ UNCHANGED <<speed, tried>>

\* sleep(1) is over; the counters start at 0 and the alarm is set.
Wake(k) ==
  /\ Goto(k, "sleep", "check")
  /\ timer' = [timer EXCEPT ![k] = "armed"]
  /\ UNCHANGED <<parentVars, pipe, inbox, speed, failed, tried>>

\* timerexpired is not set: another attempt begins.
TryAgain(k) ==
  /\ timer[k] # "fired"
  /\ tried[k] < MaxTries
  /\ Goto(k, "check", "connect")
  /\ tried' = [tried EXCEPT ![k] = @ + 1]
  /\ UNCHANGED <<parentVars, pipe, timer, inbox, speed, failed>>

\* Mutant: the failures start again at 0.
TimeIsUpReset(k) ==
  /\ timer[k] = "fired"
  /\ Goto(k, "check", "report")
  /\ failed' = [failed EXCEPT ![k] = 0]
  /\ UNCHANGED <<parentVars, pipe, timer, inbox, speed, tried>>

\* timerexpired is set.  The failure that the alarm itself is thought to have
\* caused is taken off.
TimeIsUp(k) ==
  /\ timer[k] = "fired"
  /\ Goto(k, "check", "report")
  /\ failed' = [failed EXCEPT ![k] = IF @ > 0 THEN @ - 1 ELSE 0]
  /\ UNCHANGED <<parentVars, pipe, timer, inbox, speed, tried>>

\* The child enters connect() or read().
Enter(k) ==
  /\ Goto(k, "connect", "connecting") \/ Goto(k, "read", "reading")
  /\ UNCHANGED <<parentVars, pipe, timer, inbox, speed, failed, tried>>

Connected(k) ==
  /\ Goto(k, "connecting", "write")
  /\ UNCHANGED <<parentVars, pipe, timer, inbox, speed, failed, tried>>

ConnectFails(k) ==
  /\ Goto(k, "connecting", "check")
  /\ Fail(k)
  /\ UNCHANGED <<parentVars, pipe, timer>>

\* write() and shutdown()
SendRequest(k) ==
  /\ Goto(k, "write", "read")
  /\ UNCHANGED <<parentVars, pipe, timer, inbox, speed, failed, tried>>

\* One of the two fails, as the server has reset the connection.
SendFails(k) ==
  /\ inbox[k] = Ended
  /\ Goto(k, "write", "check")
  /\ Fail(k)
  /\ UNCHANGED <<parentVars, pipe, timer>>

\* The answer the test takes for a correct one.
Accepted(buf) == buf[0] = "a" /\ buf[10] = "a" /\ buf[15] = "a"

\* read() returns a correct answer, and close() succeeds.
Succeed(k) ==
  /\ inbox[k] \in Answers /\ Accepted(inbox[k])
  /\ Goto(k, "reading", "check")
  /\ speed' = [speed EXCEPT ![k] = @ + 1]
  /\ inbox' = [inbox EXCEPT ![k] = Nothing]
  /\ UNCHANGED <<parentVars, pipe, timer, failed, tried>>

\* read() returns a correct answer, but close() fails.
CloseFails(k) ==
  /\ inbox[k] \in Answers /\ Accepted(inbox[k])
  /\ Goto(k, "reading", "check")
  /\ Fail(k)
  /\ UNCHANGED <<parentVars, pipe, timer>>

\* read() returns less than 16 bytes, or a wrong answer.
ReadFails(k) ==
  /\ inbox[k] # Nothing
  /\ inbox[k] \in Answers => ~Accepted(inbox[k])
  /\ Goto(k, "reading", "check")
  /\ Fail(k)
  /\ UNCHANGED <<parentVars, pipe, timer>>

\* Mutant: the report is printed and flushed again by the closing stream.
SendReportTwice(k) ==
  LET report == [speed |-> speed[k], failed |-> failed[k]]
  IN  /\ Goto(k, "report", "gone")
      /\ pipe' = pipe \o <<report, report>>
      /\ UNCHANGED <<parentVars, timer, inbox, speed, failed, tried>>

\* fprintf() and fclose(): the report reaches the pipe in one write.
SendReport(k) ==
  /\ Goto(k, "report", "gone")
  /\ pipe' = Append(pipe, [speed |-> speed[k], failed |-> failed[k]])
  /\ UNCHANGED <<parentVars, timer, inbox, speed, failed, tried>>

ChildStep(k) ==
  \/ Wake(k) \/ TryAgain(k) \/ TimeIsUp(k) \/ Enter(k)
  \/ Connected(k) \/ ConnectFails(k) \/ SendRequest(k) \/ SendFails(k)
  \/ Succeed(k) \/ CloseFails(k) \/ ReadFails(k) \/ SendReport(k)

\* SIGALRM: alarm_handler sets timerexpired, and a call under way fails.
Alarm(k) ==
  /\ timer[k] = "armed" /\ cpc[k] # "killed"
  /\ timer' = [timer EXCEPT ![k] = "fired"]
  /\ IF cpc[k] \in {"connecting", "reading"}
     THEN cpc' = [cpc EXCEPT ![k] = "check"] /\ Fail(k)
     ELSE UNCHANGED <<cpc, inbox, speed, failed, tried>>
  /\ UNCHANGED <<parentVars, pipe>>

Kill(k) ==
  /\ k \in Killable
  /\ cpc[k] \notin {"unborn", "gone", "killed"}
  /\ cpc' = [cpc EXCEPT ![k] = "killed"]
  /\ UNCHANGED <<parentVars, pipe, timer, inbox, speed, failed, tried>>
-----------------------------------------------------------------------------
(***************************************************************************)
(* The server, seen from a child: it may answer a request, and may end the *)
(* connection at any time.                                                 *)
(***************************************************************************)
ServerStep(k) ==
  /\ inbox[k] = Nothing
  /\ \/ /\ cpc[k] \in {"read", "reading"}
        /\ \E a \in Answers : inbox' = [inbox EXCEPT ![k] = a]
     \/ /\ cpc[k] \in {"write", "read", "reading"}
        /\ inbox' = [inbox EXCEPT ![k] = Ended]
  /\ UNCHANGED <<parentVars, pipe, cpc, timer, speed, failed, tried>>
-----------------------------------------------------------------------------
(***************************************************************************)
(* The parent.                                                             *)
(***************************************************************************)
\* One connection to the server, closed at once.
Probe ==
  /\ ppc = "probe"
  /\ ppc' \in {"fork", "failed"}
  /\ UNCHANGED <<forked, left, total, pipe, cpc, timer, inbox, speed, failed,
                 tried>>

Fork ==
  /\ ppc = "fork"
  /\ forked' = forked + 1
  /\ cpc' = [cpc EXCEPT ![forked'] = "sleep"]
  /\ ppc' = IF forked' = clients THEN "collect" ELSE "fork"
  /\ UNCHANGED <<left, total, pipe, timer, inbox, speed, failed, tried>>

\* The parent returns 3; the children it has forked go on.
ForkFails ==
  /\ ppc = "fork"
  /\ ppc' = "failed"
  /\ UNCHANGED <<forked, left, total, pipe, cpc, timer, inbox, speed, failed,
                 tried>>

\* Mutant: clients-- == 0.
CollectOneMore ==
  /\ ppc = "collect"
  /\ pipe # <<>>
  /\ pipe' = Tail(pipe)
  /\ total' = [speed |-> total.speed + Head(pipe).speed,
               failed |-> total.failed + Head(pipe).failed]
  /\ left' = left - 1
  /\ ppc' = IF left = 0 THEN "done" ELSE "collect"
  /\ UNCHANGED <<forked, cpc, timer, inbox, speed, failed, tried>>

\* fscanf() returns one report.  It blocks on an empty pipe: the end of the
\* file needs every write end closed, and the parent's own mypipe[1] never is.
Collect ==
  /\ ppc = "collect"
  /\ pipe # <<>>
  /\ pipe' = Tail(pipe)
  /\ total' = [speed |-> total.speed + Head(pipe).speed,
               failed |-> total.failed + Head(pipe).failed]
  /\ left' = left - 1
  /\ ppc' = IF left' = 0 THEN "done" ELSE "collect"
  /\ UNCHANGED <<forked, cpc, timer, inbox, speed, failed, tried>>

ParentStep == Probe \/ Fork \/ ForkFails \/ Collect

Next ==
  \/ ParentStep
  \/ \E k \in Children :
       ChildStep(k) \/ Alarm(k) \/ ServerStep(k) \/ Kill(k)

Spec == Init /\ [][Next]_vars

\* The processes run and alarms go off.  The server may stay silent.
FairSpec ==
  /\ Spec
  /\ WF_vars(ParentStep)
  /\ \A k \in Children : WF_vars(ChildStep(k)) /\ WF_vars(Alarm(k))

\* The server, too, answers every request or ends every connection.  No code
\* promises that: it is assumed where a claim is refuted even so.
ServedSpec == FairSpec /\ \A k \in Children : WF_vars(ServerStep(k))
-----------------------------------------------------------------------------
\* Child k is in the middle of an attempt.
Trying(k) ==
  cpc[k] \in {"connect", "connecting", "write", "read", "reading"}

\* On every path through the loop an attempt is counted once, as a success or
\* as a failure; at the end one failure at most is taken off.
EveryAttemptCounted ==
  \A k \in Children :
    LET counted == speed[k] + failed[k]
    IN  CASE cpc[k] = "killed" -> counted <= tried[k]
          [] cpc[k] \in {"report", "gone"} ->
               counted \in {tried[k] - 1, tried[k]}
          [] OTHER -> counted + (IF Trying(k) THEN 1 ELSE 0) = tried[k]

Gone == {k \in Children : cpc[k] = "gone"}
Piped(f) == SumOver([i \in DOMAIN pipe |-> pipe[i][f]], DOMAIN pipe)

\* The reports in the pipe and the parent's total together are what the
\* children that are gone have counted, each once.
TotalsAddUp ==
  /\ SumOver(speed, Gone) = total.speed + Piped("speed")
  /\ SumOver(failed, Gone) = total.failed + Piped("failed")
  /\ Cardinality(Gone) = (clients - left) + Len(pipe)

\* What the parent prints at the end: the counts of all children, and so the
\* attempts of all, but for the one failure that each may have taken off.
TotalsComplete ==
  ppc = "done" =>
    /\ total.speed = SumOver(speed, Children)
    /\ total.failed = SumOver(failed, Children)
    /\ total.speed + total.failed <= SumOver(tried, Children)
    /\ SumOver(tried, Children) <= total.speed + total.failed + clients

TestOver == ppc \in {"done", "failed"}

\* Child k waits for a server that is silent, and its alarm went off before it
\* began to wait.
AlarmLost(k) == timer[k] = "fired" /\ cpc[k] = "reading" /\ inbox[k] = Nothing

\* Whatever the server does the test ends, unless from some moment on a child
\* is killed, or waits for a silent server after its alarm: no other race of
\* the alarm with the calls of a child keeps the parent from its last report.
OnlyLostAlarmBlocks ==
  \/ <>TestOver
  \/ \E k \in Children : <>[](cpc[k] = "killed" \/ AlarmLost(k))

\* What the usage text says of the option -t: the benchmark runs for so many
\* seconds, so that it ends whatever the server does.
TestEnds == <>TestOver

\* What the message "Some of our childrens died." says: the parent notices the
\* death of a child.
DeathIsNoticed ==
  \A k \in Children : cpc[k] = "killed" ~> ppc \in {"done", "failed"}
=============================================================================
