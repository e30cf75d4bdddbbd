---------------------------- MODULE BenchProofs -----------------------------
(***************************************************************************)
(* Theorems about Bench for any number of children, any attempts and any   *)
(* answers of the server.                                                  *)
(***************************************************************************)
EXTENDS Bench, SumProofs, SequenceTheorems

USE BenchAssumption

\* Where the parent is bounds its counters, and the children it has not forked
\* yet do not exist.  The types of forked and left rest on this.
ParentInv ==
  /\ ppc = "probe" => forked = 0
  /\ ppc = "fork" => forked < clients
  /\ ppc \in {"probe", "fork"} => left = clients
  /\ ppc = "collect" => left > 0
  /\ \A k \in Children : k > forked => cpc[k] = "unborn"

\* The answer that the distributors call correct is never counted as a success:
\* the test wants bytes 10 and 15 to be 'a' as well.
LEMMA CorrectAnswerRefused ==
  ASSUME NEW k \in Children, inbox[k] = correct_res
  PROVE  ~Succeed(k)
BY DEF Succeed, Accepted, correct_res

LEMMA TypeInit == Init => TypeOK /\ ParentInv
<1> SUFFICES ASSUME Init PROVE TypeOK /\ ParentInv
  OBVIOUS
<1>1. 0 \in 0 .. clients /\ clients \in 0 .. clients /\ 0 \in 0 .. MaxTries
  OBVIOUS
<1>2. total \in Report /\ pipe \in Seq(Report)
  BY DEF Init, Report
<1>3. ParentInv
  BY DEF Init, ParentInv
<1> QED
  BY <1>1, <1>2, <1>3 DEF Init, TypeOK

\* The steps of a child that move it and count at most its own attempt.
LEMMA TypeMove ==
  ASSUME TypeOK, ParentInv, NEW k \in Children,
         cpc[k] # "unborn",
         cpc' = cpc \/ \E to \in {"check", "connect", "connecting", "write",
                                  "read", "reading", "report", "gone",
                                  "killed"} : cpc' = [cpc EXCEPT ![k] = to],
         timer' = timer \/ \E t \in {"armed", "fired"} :
                             timer' = [timer EXCEPT ![k] = t],
         inbox' = inbox \/ inbox' = [inbox EXCEPT ![k] = Nothing],
         \/ failed' = failed
         \/ \E n \in Nat : failed' = [failed EXCEPT ![k] = n],
         speed' = speed \/ speed' = [speed EXCEPT ![k] = speed[k] + 1],
         pipe' \in Seq(Report), tried' \in [Children -> 0 .. MaxTries],
         UNCHANGED parentVars
  PROVE  TypeOK' /\ ParentInv'
<1>1. cpc' \in [Children -> {"unborn", "sleep", "check", "connect",
                             "connecting", "write", "read", "reading",
                             "report", "gone", "killed"}]
  BY DEF TypeOK
<1>2. timer' \in [Children -> {"off", "armed", "fired"}]
  BY DEF TypeOK
<1>3. inbox' \in [Children -> Answers \cup {Nothing, Ended}]
  BY DEF TypeOK
<1>4. failed' \in [Children -> Nat]
  <2>1. failed \in [Children -> Nat]
    BY DEF TypeOK
  <2>2. CASE failed' = failed
    BY <2>1, <2>2
  <2>3. CASE \E n \in Nat : failed' = [failed EXCEPT ![k] = n]
    BY <2>1, <2>3
  <2> QED
    BY <2>2, <2>3
<1>5. speed \in [Children -> Nat] /\ speed[k] + 1 \in Nat
  BY DEF TypeOK
<1>6. speed' \in [Children -> Nat]
  <2>1. CASE speed' = speed
    BY <1>5, <2>1
  <2>2. CASE speed' = [speed EXCEPT ![k] = speed[k] + 1]
    BY <1>5, <2>2
  <2> QED
    BY <2>1, <2>2
<1>7. ppc' = ppc /\ forked' = forked /\ left' = left /\ total' = total
  BY DEF parentVars
<1>8. TypeOK'
  BY <1>1, <1>2, <1>3, <1>4, <1>6, <1>7 DEF TypeOK
<1>9. \A e \in Children : e > forked => e # k
  BY DEF ParentInv
<1>10. \A e \in Children : e # k => cpc'[e] = cpc[e]
  BY DEF TypeOK
<1>11. ParentInv'
  BY <1>7, <1>9, <1>10 DEF ParentInv
<1> QED
  BY <1>8, <1>11

LEMMA TypeChild ==
  ASSUME TypeOK, ParentInv, NEW k \in Children,
         ChildStep(k) \/ Alarm(k) \/ Kill(k)
  PROVE  TypeOK' /\ ParentInv'
<1>1. /\ pipe \in Seq(Report) /\ tried \in [Children -> 0 .. MaxTries]
      /\ failed[k] \in Nat /\ failed[k] + 1 \in Nat
      /\ speed[k] \in Nat /\ tried[k] \in 0 .. MaxTries
      /\ timer[k] = "armed" => timer[k] # "off"
  BY DEF TypeOK
<1>2. CASE Wake(k)
  BY <1>1, <1>2, TypeMove DEF Wake, Goto
<1>3. CASE TryAgain(k)
  <2>1. tried' \in [Children -> 0 .. MaxTries]
    BY <1>1, <1>3 DEF TryAgain
  <2> QED
    BY <1>1, <1>3, <2>1, TypeMove DEF TryAgain, Goto
<1>4. CASE TimeIsUp(k)
  <2> DEFINE n == IF failed[k] > 0 THEN failed[k] - 1 ELSE 0
  <2>1. n \in Nat /\ failed' = [failed EXCEPT ![k] = n]
    BY <1>1, <1>4 DEF TimeIsUp
  <2> HIDE DEF n
  <2> QED
    BY <1>1, <1>4, <2>1, TypeMove DEF TimeIsUp, Goto
<1>5. CASE Enter(k) \/ Connected(k) \/ SendRequest(k)
  BY <1>1, <1>5, TypeMove DEF Enter, Connected, SendRequest, Goto
<1>6. CASE ConnectFails(k) \/ SendFails(k) \/ CloseFails(k) \/ ReadFails(k)
  <2>1. Fail(k)
    BY <1>6 DEF ConnectFails, SendFails, CloseFails, ReadFails
  <2>2. PICK n \in Nat : failed' = [failed EXCEPT ![k] = n]
    BY <1>1, <2>1 DEF Fail
  <2> QED
    BY <1>1, <1>6, <2>1, <2>2, TypeMove
       DEF ConnectFails, SendFails, CloseFails, ReadFails, Fail, Goto
<1>7. CASE Succeed(k)
  BY <1>1, <1>7, TypeMove DEF Succeed, Goto
<1>8. CASE SendReport(k)
  <2>1. [speed |-> speed[k], failed |-> failed[k]] \in Report
    BY <1>1 DEF Report
  <2>2. pipe' \in Seq(Report)
    BY <1>1, <1>8, <2>1 DEF SendReport
  <2> QED
    BY <1>1, <1>8, <2>2, TypeMove DEF SendReport, Goto
<1>9. CASE Kill(k)
  BY <1>1, <1>9, TypeMove DEF Kill
<1>10. CASE Alarm(k)
  <2>1. CASE cpc[k] \in {"connecting", "reading"}
    <3>1. Fail(k)
      BY <1>10, <2>1 DEF Alarm
    <3>2. PICK n \in Nat : failed' = [failed EXCEPT ![k] = n]
      BY <1>1, <3>1 DEF Fail
    <3> QED
      BY <1>1, <1>10, <2>1, <3>1, <3>2, TypeMove DEF Alarm, Fail
  <2>2. CASE cpc[k] \notin {"connecting", "reading"}
    <3>1. timer' \in [Children -> {"off", "armed", "fired"}]
      BY <1>10 DEF Alarm, TypeOK
    <3>2. UNCHANGED <<parentVars, pipe, cpc, inbox, speed, failed, tried>>
      BY <1>10, <2>2 DEF Alarm
    <3> QED
      BY <3>1, <3>2 DEF TypeOK, ParentInv, parentVars
  <2> QED
    BY <2>1, <2>2
<1> QED
  BY <1>2, <1>3, <1>4, <1>5, <1>6, <1>7, <1>8, <1>9, <1>10 DEF ChildStep

LEMMA TypeServer ==
  ASSUME TypeOK, ParentInv, NEW k \in Children, ServerStep(k)
  PROVE  TypeOK' /\ ParentInv'
<1>1. inbox' \in [Children -> Answers \cup {Nothing, Ended}]
  BY DEF ServerStep, TypeOK
<1> QED
  BY <1>1 DEF ServerStep, TypeOK, ParentInv, parentVars

LEMMA TypeParent ==
  ASSUME TypeOK, ParentInv, ParentStep
  PROVE  TypeOK' /\ ParentInv'
<1>1. CASE Probe
  BY <1>1 DEF Probe, TypeOK, ParentInv
<1>2. CASE ForkFails
  BY <1>2 DEF ForkFails, TypeOK, ParentInv
<1>3. CASE Fork
  <2>1. /\ forked \in 0 .. clients /\ forked < clients /\ left = clients
        /\ forked' = forked + 1 /\ left' = left /\ total' = total
        /\ cpc' = [cpc EXCEPT ![forked + 1] = "sleep"]
        /\ ppc' = IF forked + 1 = clients THEN "collect" ELSE "fork"
    BY <1>3 DEF Fork, TypeOK, ParentInv
  <2>2. forked' \in 0 .. clients /\ forked + 1 \in Children
    BY <2>1 DEF Children
  <2>3. cpc' \in [Children -> {"unborn", "sleep", "check", "connect",
                               "connecting", "write", "read", "reading",
                               "report", "gone", "killed"}]
    BY <2>1, <2>2 DEF TypeOK
  <2>4. TypeOK'
    BY <1>3, <2>1, <2>2, <2>3 DEF Fork, TypeOK
  <2>5. ASSUME NEW e \in Children, e > forked' PROVE cpc'[e] = "unborn"
    <3>1. e # forked + 1 /\ e > forked
      BY <2>1, <2>5 DEF Children
    <3> QED
      BY <2>1, <3>1 DEF ParentInv, TypeOK
  <2>6. forked + 1 # clients => forked + 1 < clients
    BY <2>1
  <2>7. ParentInv'
    BY <2>1, <2>5, <2>6 DEF ParentInv
  <2> QED
    BY <2>4, <2>7
<1>4. CASE Collect
  <2>1. /\ left \in 0 .. clients /\ left > 0 /\ left' = left - 1
        /\ ppc' = IF left' = 0 THEN "done" ELSE "collect"
        /\ UNCHANGED <<forked, cpc, timer, inbox, speed, failed, tried>>
    BY <1>4 DEF Collect, TypeOK, ParentInv
  <2>2. Head(pipe) \in Report /\ Tail(pipe) \in Seq(Report)
    BY <1>4 DEF Collect, TypeOK
  <2>3. total' \in Report /\ pipe' \in Seq(Report)
    BY <1>4, <2>2 DEF Collect, TypeOK, Report
  <2>4. left' \in 0 .. clients /\ (left' # 0 => left' > 0)
    BY <2>1
  <2>5. TypeOK'
    BY <2>1, <2>3, <2>4 DEF TypeOK
  <2>6. ParentInv'
    BY <2>1, <2>4 DEF ParentInv
  <2> QED
    BY <2>5, <2>6
<1> QED
  BY <1>1, <1>2, <1>3, <1>4 DEF ParentStep

LEMMA TypeNext ==
  ASSUME TypeOK, ParentInv, [Next]_vars
  PROVE  TypeOK' /\ ParentInv'
<1>1. CASE UNCHANGED vars
  BY <1>1 DEF vars, TypeOK, ParentInv
<1> QED
  BY <1>1, TypeChild, TypeServer, TypeParent DEF Next

LEMMA TypeAndParent == Spec => [](TypeOK /\ ParentInv)
  BY TypeInit, TypeNext, PTL DEF Spec

\* Every variable keeps its type: the parent never collects more reports than
\* it has children, and a counter of failures never falls below 0.
THEOREM TypeCorrect == Spec => []TypeOK
  BY TypeAndParent, PTL
-----------------------------------------------------------------------------
(***************************************************************************)
(* Counting the attempts.                                                  *)
(***************************************************************************)
\* What EveryAttemptCounted says of one child.
Counted(k) ==
  LET counted == speed[k] + failed[k]
  IN  CASE cpc[k] = "killed" -> counted <= tried[k]
        [] cpc[k] \in {"report", "gone"} ->
             counted \in {tried[k] - 1, tried[k]}
        [] OTHER -> counted + (IF Trying(k) THEN 1 ELSE 0) = tried[k]

\* The three cases apart.
LEMMA CountedCases ==
  ASSUME NEW k \in Children
  PROVE  Counted(k) <=>
           /\ cpc[k] = "killed" => speed[k] + failed[k] <= tried[k]
           /\ cpc[k] \in {"report", "gone"} =>
                speed[k] + failed[k] \in {tried[k] - 1, tried[k]}
           /\ cpc[k] \notin {"killed", "report", "gone"} =>
                speed[k] + failed[k] + (IF Trying(k) THEN 1 ELSE 0) = tried[k]
  BY DEF Counted

\* A child whose counters and place in the loop stay has counted as before.
LEMMA CountedFrame ==
  ASSUME NEW k \in Children, Counted(k),
         cpc'[k] = cpc[k], speed'[k] = speed[k], failed'[k] = failed[k],
         tried'[k] = tried[k]
  PROVE  Counted(k)'
  BY DEF Counted, Trying

\* A step of child e leaves the others alone.
LEMMA CountedOthers ==
  ASSUME TypeOK, NEW e \in Children,
         ChildStep(e) \/ Alarm(e) \/ Kill(e) \/ ServerStep(e),
         NEW k \in Children, k # e, Counted(k)
  PROVE  Counted(k)'
<1> DEFINE Same == /\ cpc'[k] = cpc[k] /\ speed'[k] = speed[k]
                   /\ failed'[k] = failed[k] /\ tried'[k] = tried[k]
<1> USE DEF TypeOK, Goto
<1>1. CASE Wake(e) \/ TryAgain(e) \/ TimeIsUp(e) \/ Enter(e)
  BY <1>1, CountedFrame DEF Wake, TryAgain, TimeIsUp, Enter
<1>2. CASE Connected(e) \/ SendRequest(e) \/ Succeed(e) \/ SendReport(e)
  BY <1>2, CountedFrame DEF Connected, SendRequest, Succeed, SendReport
<1>3. CASE ConnectFails(e) \/ SendFails(e) \/ CloseFails(e) \/ ReadFails(e)
  BY <1>3, CountedFrame DEF ConnectFails, SendFails, CloseFails, ReadFails, Fail
<1>4. CASE Alarm(e)
  BY <1>4, CountedFrame DEF Alarm, Fail
<1>5. CASE Kill(e) \/ ServerStep(e)
  BY <1>5, CountedFrame DEF Kill, ServerStep
<1> QED
  BY <1>1, <1>2, <1>3, <1>4, <1>5 DEF ChildStep

\* The child's own steps.
LEMMA CountedOwn ==
  ASSUME TypeOK, NEW k \in Children, Counted(k),
         ChildStep(k) \/ Alarm(k) \/ Kill(k) \/ ServerStep(k)
  PROVE  Counted(k)'
<1>1. /\ speed[k] \in Nat /\ failed[k] \in Nat /\ tried[k] \in Nat
      /\ speed \in [Children -> Nat] /\ failed \in [Children -> Nat]
      /\ tried \in [Children -> 0 .. MaxTries]
      /\ \A to : cpc' = [cpc EXCEPT ![k] = to] => cpc'[k] = to
  BY DEF TypeOK
<1>2. CASE Wake(k)
  BY <1>1, <1>2 DEF Wake, Goto, Counted, Trying
<1>3. CASE TryAgain(k)
  <2>1. /\ tried'[k] = tried[k] + 1 /\ speed'[k] = speed[k]
        /\ failed'[k] = failed[k] /\ cpc[k] = "check" /\ cpc'[k] = "connect"
    BY <1>1, <1>3 DEF TryAgain, Goto
  <2>2. speed[k] + failed[k] = tried[k]
    BY <1>1, <2>1 DEF Counted, Trying
  <2>3. speed'[k] + failed'[k] + 1 = tried'[k]
    BY <1>1, <2>1, <2>2
  <2> QED
    BY <2>1, <2>3 DEF Counted, Trying
<1>4. CASE TimeIsUp(k)
  <2>1. /\ failed'[k] = IF failed[k] > 0 THEN failed[k] - 1 ELSE 0
        /\ speed'[k] = speed[k] /\ tried'[k] = tried[k]
        /\ cpc[k] = "check" /\ cpc'[k] = "report"
    BY <1>1, <1>4 DEF TimeIsUp, Goto
  <2>2. speed[k] + failed[k] = tried[k]
    BY <1>1, <2>1 DEF Counted, Trying
  <2>3. speed'[k] + failed'[k] \in {tried'[k] - 1, tried'[k]}
    BY <1>1, <2>1, <2>2
  <2> QED
    BY <2>1, <2>3 DEF Counted
<1>5. CASE Enter(k) \/ Connected(k) \/ SendRequest(k)
  BY <1>1, <1>5 DEF Enter, Connected, SendRequest, Goto, Counted, Trying
<1>6. CASE Fail(k) /\ Trying(k) /\ cpc' = [cpc EXCEPT ![k] = "check"]
  <2>1. /\ failed'[k] = failed[k] + 1 /\ speed'[k] = speed[k]
        /\ tried'[k] = tried[k] /\ cpc'[k] = "check"
    BY <1>1, <1>6 DEF Fail
  <2>2. speed[k] + failed[k] + 1 = tried[k]
    BY <1>1, <1>6 DEF Counted, Trying
  <2>3. speed'[k] + failed'[k] + 0 = tried'[k]
    BY <1>1, <2>1, <2>2
  <2> QED
    BY <2>1, <2>3 DEF Counted, Trying
<1>7. CASE ConnectFails(k) \/ SendFails(k) \/ CloseFails(k) \/ ReadFails(k)
  BY <1>6, <1>7 DEF ConnectFails, SendFails, CloseFails, ReadFails, Goto, Trying
<1>8. CASE Succeed(k)
  <2>1. /\ speed'[k] = speed[k] + 1 /\ failed'[k] = failed[k]
        /\ tried'[k] = tried[k] /\ cpc[k] = "reading" /\ cpc'[k] = "check"
    BY <1>1, <1>8 DEF Succeed, Goto
  <2>2. speed[k] + failed[k] + 1 = tried[k]
    BY <1>1, <2>1 DEF Counted, Trying
  <2>3. speed'[k] + failed'[k] + 0 = tried'[k]
    BY <1>1, <2>1, <2>2
  <2> QED
    BY <2>1, <2>3 DEF Counted, Trying
<1>9. CASE SendReport(k)
  BY <1>1, <1>9 DEF SendReport, Goto, Counted
<1>10. CASE Alarm(k)
  <2>1. CASE cpc[k] \in {"connecting", "reading"}
    BY <1>6, <1>10, <2>1 DEF Alarm, Trying
  <2>2. CASE cpc[k] \notin {"connecting", "reading"}
    BY <1>10, <2>2, CountedFrame DEF Alarm
  <2> QED
    BY <2>1, <2>2
<1>11. CASE Kill(k)
  <2>1. /\ cpc'[k] = "killed" /\ speed'[k] = speed[k]
        /\ failed'[k] = failed[k] /\ tried'[k] = tried[k]
        /\ cpc[k] # "killed"
    BY <1>1, <1>11 DEF Kill
  <2>2. speed[k] + failed[k] <= tried[k]
    BY <1>1, <2>1, CountedCases DEF Trying
  <2>3. speed'[k] + failed'[k] <= tried'[k]
    BY <2>1, <2>2
  <2> QED
    BY <2>1, <2>3 DEF Counted
<1>12. CASE ServerStep(k)
  BY <1>12, CountedFrame DEF ServerStep
<1> QED
  BY <1>2, <1>3, <1>4, <1>5, <1>7, <1>8, <1>9, <1>10, <1>11, <1>12
     DEF ChildStep

\* The parent disturbs a child only by forking it, and then it is new.
LEMMA CountedParent ==
  ASSUME TypeOK, ParentInv, ParentStep, NEW k \in Children, Counted(k)
  PROVE  Counted(k)'
<1>1. CASE Probe \/ ForkFails \/ Collect
  BY <1>1, CountedFrame DEF Probe, ForkFails, Collect
<1>2. CASE Fork
  <2>1. /\ forked \in Nat /\ cpc' = [cpc EXCEPT ![forked + 1] = "sleep"]
        /\ UNCHANGED <<speed, failed, tried>>
    BY <1>2 DEF Fork, TypeOK
  <2>2. CASE k = forked + 1
    <3>1. cpc[k] = "unborn"
      BY <2>1, <2>2 DEF ParentInv
    <3>2. cpc'[k] = "sleep"
      BY <2>1, <2>2 DEF TypeOK
    <3> QED
      BY <2>1, <3>1, <3>2 DEF Counted, Trying
  <2>3. CASE k # forked + 1
    <3>1. cpc'[k] = cpc[k]
      BY <2>1, <2>3 DEF TypeOK
    <3> QED
      BY <2>1, <3>1, CountedFrame
  <2> QED
    BY <2>2, <2>3
<1> QED
  BY <1>1, <1>2 DEF ParentStep

CountInv == \A k \in Children : Counted(k)

LEMMA CountNext ==
  ASSUME TypeOK, ParentInv, CountInv, [Next]_vars
  PROVE  CountInv'
<1>1. CASE UNCHANGED vars
  BY <1>1 DEF vars, CountInv, Counted, Trying
<1>2. CASE ParentStep
  BY <1>2, CountedParent DEF CountInv
<1>3. ASSUME NEW e \in Children,
             ChildStep(e) \/ Alarm(e) \/ ServerStep(e) \/ Kill(e),
             NEW k \in Children
      PROVE  Counted(k)'
  BY <1>3, CountedOwn, CountedOthers DEF CountInv
<1> QED
  BY <1>1, <1>2, <1>3 DEF Next, CountInv

\* Each attempt of each child is counted once, as a success or as a failure,
\* and at most one failure is taken off at the end, whenever the alarm comes.
THEOREM CountsCorrect == Spec => []EveryAttemptCounted
<1>1. CountInv => EveryAttemptCounted
  BY DEF CountInv, EveryAttemptCounted, Counted
<1>2. Init => CountInv
  BY DEF Init, CountInv, Counted, Trying
<1>3. TypeOK /\ ParentInv /\ CountInv /\ [Next]_vars => CountInv'
  BY CountNext
<1> QED
  BY <1>1, <1>2, <1>3, TypeAndParent, PTL DEF Spec
-----------------------------------------------------------------------------
(***************************************************************************)
(* Adding up the reports.                                                  *)
(***************************************************************************)
LEMMA ChildrenFinite ==
  /\ IsFiniteSet(Children) /\ Cardinality(Children) = clients
  /\ IsFiniteSet(Gone) /\ Gone \subseteq Children
<1>1. IsFiniteSet(1 .. clients) /\ Cardinality(1 .. clients) = clients
  BY FS_Interval
<1> QED
  BY <1>1, FS_Subset DEF Children, Gone

\* The values that a sequence of reports has in one field.
Column(s, f) == [i \in DOMAIN s |-> s[i][f]]
Fields == {"speed", "failed"}

LEMMA ColumnType ==
  ASSUME NEW s \in Seq(Report), NEW f \in Fields
  PROVE  /\ IsFiniteSet(DOMAIN s)
         /\ \A i \in DOMAIN s : Column(s, f)[i] \in Nat
         /\ SumOver(Column(s, f), DOMAIN s) \in Nat
<1>1. DOMAIN s = 1 .. Len(s) /\ Len(s) \in Nat
  OBVIOUS
<1>2. \A i \in DOMAIN s : s[i] \in Report
  OBVIOUS
<1>3. \A i \in DOMAIN s : Column(s, f)[i] \in Nat
  BY <1>2 DEF Column, Fields, Report
<1>4. IsFiniteSet(DOMAIN s)
  BY <1>1, FS_Interval
<1> QED
  BY <1>3, <1>4, SumType

\* A report is appended.
LEMMA ColumnAppend ==
  ASSUME NEW s \in Seq(Report), NEW r \in Report, NEW f \in Fields
  PROVE  SumOver(Column(Append(s, r), f), DOMAIN Append(s, r))
           = SumOver(Column(s, f), DOMAIN s) + r[f]
<1> DEFINE t == Append(s, r)
           n == Len(s) + 1
<1>1. /\ t \in Seq(Report) /\ DOMAIN t = DOMAIN s \cup {n}
      /\ n \notin DOMAIN s
      /\ t[n] = r /\ \A i \in DOMAIN s : t[i] = s[i]
  OBVIOUS
<1>2. \A i \in DOMAIN t : Column(t, f)[i] \in Nat
  <2> HIDE DEF t
  <2> QED
    BY <1>1, ColumnType
<1>3. /\ Column(t, f)[n] = r[f]
      /\ \A i \in DOMAIN s : Column(t, f)[i] = Column(s, f)[i]
  BY <1>1 DEF Column
<1> HIDE DEF t, n
<1>4. SumOver(Column(t, f), DOMAIN s \cup {n})
        = SumOver(Column(t, f), DOMAIN s) + Column(t, f)[n]
  BY <1>1, <1>2, ColumnType, SumAdd
<1>5. SumOver(Column(t, f), DOMAIN s) = SumOver(Column(s, f), DOMAIN s)
  BY <1>3, ColumnType, SumSame
<1> QED
  BY <1>1, <1>3, <1>4, <1>5 DEF t

\* The first report is taken.
LEMMA ColumnTail ==
  ASSUME NEW s \in Seq(Report), s # <<>>, NEW f \in Fields
  PROVE  SumOver(Column(s, f), DOMAIN s)
           = Head(s)[f] + SumOver(Column(Tail(s), f), DOMAIN Tail(s))
<1> DEFINE t == Tail(s)
           b == [i \in DOMAIN t |-> i + 1]
           rest == DOMAIN s \ {1}
<1>1. /\ t \in Seq(Report) /\ DOMAIN t = 1 .. Len(s) - 1
      /\ DOMAIN s = 1 .. Len(s) /\ Len(s) \in Nat \ {0}
      /\ Head(s) = s[1] /\ \A i \in DOMAIN t : t[i] = s[i + 1]
  OBVIOUS
<1>2. rest = 2 .. Len(s) /\ 1 \in DOMAIN s
  BY <1>1
<1>3. b \in Bijection(DOMAIN t, rest)
  <2>1. b \in [DOMAIN t -> rest]
    BY <1>1, <1>2
  <2>2. \A i, j \in DOMAIN t : b[i] = b[j] => i = j
    BY <1>1
  <2>3. ASSUME NEW j \in rest PROVE \E i \in DOMAIN t : b[i] = j
    <3>1. j - 1 \in DOMAIN t /\ b[j - 1] = j
      BY <1>1, <1>2
    <3> QED
      BY <3>1
  <2> QED
    BY <2>1, <2>2, <2>3 DEF Bijection, Injection, Surjection, IsInjective
<1>4. \A i \in DOMAIN t : Column(t, f)[i] = Column(s, f)[b[i]]
  BY <1>1 DEF Column
<1> HIDE DEF t, b
<1>5. /\ IsFiniteSet(DOMAIN t) /\ IsFiniteSet(rest)
      /\ \A i \in rest : Column(s, f)[i] \in Nat
  BY <1>1, ColumnType, FS_Subset
<1> HIDE DEF rest
<1>6. SumOver(Column(t, f), DOMAIN t) = SumOver(Column(s, f), rest)
  BY <1>3, <1>4, <1>5, SumReindexed
<1>7. SumOver(Column(s, f), DOMAIN s)
        = Column(s, f)[1] + SumOver(Column(s, f), DOMAIN s \ {1})
  BY <1>2, ColumnType, SumRemove
<1>8. Column(s, f)[1] = Head(s)[f]
  BY <1>1, <1>2 DEF Column
<1> QED
  BY <1>6, <1>7, <1>8 DEF t, rest

\* What TotalsAddUp says of the sums, with pipe read as a column.
LEMMA PipedColumn ==
  /\ \A f \in Fields : Piped(f) = SumOver(Column(pipe, f), DOMAIN pipe)
  /\ \A f \in Fields : Piped(f)' = SumOver(Column(pipe', f), DOMAIN pipe')
  BY DEF Piped, Column

\* A step that moves no child to or from "gone", keeps what the children that
\* are gone have counted, and leaves pipe and total alone.
LEMMA TotalsFrame ==
  ASSUME TypeOK, TotalsAddUp, Gone' = Gone,
         \A k \in Gone : speed'[k] = speed[k] /\ failed'[k] = failed[k],
         UNCHANGED <<pipe, total, left>>
  PROVE  TotalsAddUp'
<1>1. \A k \in Gone : speed[k] \in Nat /\ failed[k] \in Nat
  BY DEF TypeOK, Gone
<1>2. SumOver(speed', Gone) = SumOver(speed, Gone)
  BY <1>1, ChildrenFinite, SumSame
<1>3. SumOver(failed', Gone) = SumOver(failed, Gone)
  BY <1>1, ChildrenFinite, SumSame
<1>4. \A f \in Fields : Piped(f)' = Piped(f)
  BY PipedColumn
<1> QED
  BY <1>2, <1>3, <1>4 DEF TotalsAddUp, Fields

\* Only SendReport makes a child "gone", and a child that is gone stays so.
LEMMA GoneKept ==
  ASSUME TypeOK, NEW k \in Children,
         \/ /\ ChildStep(k) \/ Alarm(k) \/ Kill(k) \/ ServerStep(k)
            /\ ~SendReport(k)
  PROVE  /\ Gone' = Gone
         /\ \A e \in Gone : speed'[e] = speed[e] /\ failed'[e] = failed[e]
         /\ UNCHANGED <<pipe, total, left>>
<1> USE DEF TypeOK, Gone, Goto, parentVars
<1>1. CASE Wake(k) \/ TryAgain(k) \/ TimeIsUp(k) \/ Enter(k)
  BY <1>1 DEF Wake, TryAgain, TimeIsUp, Enter
<1>2. CASE Connected(k) \/ SendRequest(k) \/ Succeed(k)
  BY <1>2 DEF Connected, SendRequest, Succeed
<1>3. CASE ConnectFails(k) \/ SendFails(k) \/ CloseFails(k) \/ ReadFails(k)
  BY <1>3 DEF ConnectFails, SendFails, CloseFails, ReadFails, Fail
<1>4. CASE Alarm(k)
  BY <1>4 DEF Alarm, Fail
<1>5. CASE Kill(k) \/ ServerStep(k)
  BY <1>5 DEF Kill, ServerStep
<1> QED
  BY <1>1, <1>2, <1>3, <1>4, <1>5 DEF ChildStep

LEMMA TotalsReport ==
  ASSUME TypeOK, TotalsAddUp, NEW k \in Children, SendReport(k)
  PROVE  TotalsAddUp'
<1> DEFINE r == [speed |-> speed[k], failed |-> failed[k]]
<1>1. /\ k \notin Gone /\ Gone' = Gone \cup {k}
      /\ pipe' = Append(pipe, r)
      /\ UNCHANGED <<total, left, speed, failed>>
  BY DEF SendReport, Goto, Gone, TypeOK, parentVars
<1>2. /\ \A e \in Children : speed[e] \in Nat /\ failed[e] \in Nat
      /\ r \in Report /\ pipe \in Seq(Report)
      /\ r["speed"] = speed[k] /\ r["failed"] = failed[k]
      /\ total.speed \in Nat /\ total.failed \in Nat
      /\ left \in 0 .. clients
  BY DEF TypeOK, Report
<1> HIDE DEF r
<1>3. /\ SumOver(speed', Gone') = SumOver(speed, Gone) + speed[k]
      /\ SumOver(failed', Gone') = SumOver(failed, Gone) + failed[k]
  BY <1>1, <1>2, ChildrenFinite, SumAdd
<1>4. \A f \in Fields : Piped(f)' = Piped(f) + r[f] /\ Piped(f) \in Nat
  BY <1>1, <1>2, PipedColumn, ColumnAppend, ColumnType
<1>5. Cardinality(Gone') = Cardinality(Gone) + 1
  BY <1>1, ChildrenFinite, FS_AddElement
<1>6. Len(pipe') = Len(pipe) + 1 /\ Len(pipe) \in Nat
  BY <1>1, <1>2
<1>7. /\ Piped("speed")' = Piped("speed") + speed[k]
      /\ Piped("failed")' = Piped("failed") + failed[k]
      /\ Piped("speed") \in Nat /\ Piped("failed") \in Nat
  BY <1>2, <1>4 DEF Fields
<1>8. /\ total' = total /\ left' = left
      /\ speed[k] \in Nat /\ failed[k] \in Nat /\ clients \in Nat
  BY <1>1, <1>2, BenchAssumption
<1>9. /\ SumOver(speed', Gone') = total'.speed + Piped("speed")'
      /\ SumOver(failed', Gone') = total'.failed + Piped("failed")'
  BY <1>2, <1>3, <1>7, <1>8 DEF TotalsAddUp
<1>10. Cardinality(Gone') = clients - left' + Len(pipe')
  BY <1>2, <1>5, <1>6, <1>8 DEF TotalsAddUp
<1> QED
  BY <1>9, <1>10 DEF TotalsAddUp

LEMMA TotalsCollect ==
  ASSUME TypeOK, ParentInv, TotalsAddUp, Collect
  PROVE  TotalsAddUp'
<1>1. /\ pipe # <<>> /\ pipe \in Seq(Report) /\ pipe' = Tail(pipe)
      /\ Gone' = Gone /\ UNCHANGED <<speed, failed>>
      /\ total'.speed = total.speed + Head(pipe)["speed"]
      /\ total'.failed = total.failed + Head(pipe)["failed"]
      /\ left \in 0 .. clients /\ left > 0 /\ left' = left - 1
      /\ total.speed \in Nat /\ total.failed \in Nat
  BY DEF Collect, TypeOK, ParentInv, Gone, Report
<1>2. \A f \in Fields : Piped(f) = Head(pipe)[f] + Piped(f)'
  BY <1>1, PipedColumn, ColumnTail
<1>3. Head(pipe) \in Report /\ Tail(pipe) \in Seq(Report)
      /\ Len(Tail(pipe)) = Len(pipe) - 1 /\ Len(pipe) \in Nat
  BY <1>1
<1>4. \A f \in Fields : Piped(f)' \in Nat /\ Head(pipe)[f] \in Nat
  BY <1>1, <1>3, PipedColumn, ColumnType DEF Report, Fields
<1> QED
  BY <1>1, <1>2, <1>3, <1>4 DEF TotalsAddUp, Fields

LEMMA TotalsParent ==
  ASSUME TypeOK, ParentInv, TotalsAddUp, ParentStep
  PROVE  TotalsAddUp'
<1>1. CASE Probe \/ ForkFails
  BY <1>1, TotalsFrame DEF Probe, ForkFails, Gone
<1>2. CASE Fork
  <2>1. /\ forked \in Nat /\ cpc' = [cpc EXCEPT ![forked + 1] = "sleep"]
        /\ forked < clients
        /\ UNCHANGED <<speed, failed, pipe, total, left>>
    BY <1>2 DEF Fork, TypeOK, ParentInv
  <2>2. forked + 1 \in Children /\ cpc[forked + 1] = "unborn"
    BY <2>1 DEF Children, ParentInv
  <2>3. Gone' = Gone
    BY <2>1, <2>2 DEF Gone, TypeOK
  <2> QED
    BY <2>1, <2>3, TotalsFrame
<1> QED
  BY <1>1, <1>2, TotalsCollect DEF ParentStep

LEMMA TotalsNext ==
  ASSUME TypeOK, ParentInv, TotalsAddUp, [Next]_vars
  PROVE  TotalsAddUp'
<1>1. CASE UNCHANGED vars
  BY <1>1, TotalsFrame DEF vars, Gone
<1>2. ASSUME NEW k \in Children,
             ChildStep(k) \/ Alarm(k) \/ ServerStep(k) \/ Kill(k)
      PROVE  TotalsAddUp'
  BY <1>2, GoneKept, TotalsFrame, TotalsReport
<1> QED
  BY <1>1, <1>2, TotalsParent DEF Next

LEMMA TotalsInit == Init => TotalsAddUp
<1> SUFFICES ASSUME Init PROVE TotalsAddUp
  OBVIOUS
<1>1. Gone = {} /\ pipe = <<>> /\ DOMAIN pipe = {}
  BY DEF Init, Gone
<1>2. \A f \in Fields : Piped(f) = 0
  BY <1>1, PipedColumn, SumOfNone
<1>3. Cardinality({}) = 0
  BY FS_EmptySet
<1>4. /\ total.speed = 0 /\ total.failed = 0 /\ left = clients
      /\ Len(pipe) = 0
  BY DEF Init
<1> QED
  BY <1>1, <1>2, <1>3, <1>4, SumOfNone DEF TotalsAddUp, Fields

\* The reports in the pipe and the parent's total are together what the
\* children that are gone have counted, for any number of children and any
\* order in which they report and are killed (main() of test_bench.c).
THEOREM TotalsCorrect == Spec => []TotalsAddUp
  BY TotalsInit, TotalsNext, TypeAndParent, PTL DEF Spec

\* The parent is done when it waits for no report.
DoneInv == ppc = "done" => left = 0

LEMMA DoneNext ==
  ASSUME DoneInv, [Next]_vars
  PROVE  DoneInv'
<1>1. CASE UNCHANGED vars
  BY <1>1 DEF vars, DoneInv
<1>2. CASE ParentStep
  BY <1>2 DEF ParentStep, Probe, Fork, ForkFails, Collect, DoneInv
<1>3. ASSUME NEW k \in Children,
             ChildStep(k) \/ Alarm(k) \/ ServerStep(k) \/ Kill(k)
      PROVE  UNCHANGED <<ppc, left>>
  <2> USE DEF parentVars
  <2>1. CASE ChildStep(k)
    BY <2>1 DEF ChildStep, Wake, TryAgain, TimeIsUp, Enter, Connected,
         ConnectFails, SendRequest, SendFails, Succeed, CloseFails, ReadFails, SendReport
  <2> QED
    BY <1>3, <2>1 DEF Alarm, ServerStep, Kill
<1> QED
  BY <1>1, <1>2, <1>3 DEF Next, DoneInv

\* With left = 0 the children that are gone and the reports in the pipe are of
\* the same number as all children, so that all are gone and the pipe is empty.
LEMMA AllGone ==
  ASSUME TypeOK, TotalsAddUp, left = 0
  PROVE  Gone = Children /\ pipe = <<>>
<1>1. Cardinality(Gone) = clients + Len(pipe) /\ Len(pipe) \in Nat
  BY DEF TotalsAddUp, TypeOK
<1>2. Cardinality(Gone) <= Cardinality(Children)
  BY ChildrenFinite, FS_Subset
<1>3. Len(pipe) = 0 /\ Cardinality(Gone) = Cardinality(Children)
  BY <1>1, <1>2, ChildrenFinite
<1>4. pipe = <<>>
  BY <1>3 DEF TypeOK
<1> QED
  BY <1>3, <1>4, ChildrenFinite, FS_Subset

LEMMA DoneTotals ==
  ASSUME TypeOK, TotalsAddUp, CountInv, DoneInv
  PROVE  TotalsComplete
<1> SUFFICES ASSUME ppc = "done"
             PROVE  /\ total.speed = SumOver(speed, Children)
                    /\ total.failed = SumOver(failed, Children)
                    /\ total.speed + total.failed <= SumOver(tried, Children)
                    /\ SumOver(tried, Children)
                         <= total.speed + total.failed + clients
  BY DEF TotalsComplete
<1> DEFINE counted == [k \in Children |-> speed[k] + failed[k]]
           one == [k \in Children |-> 1]
           most == [k \in Children |-> counted[k] + one[k]]
<1>1. Gone = Children /\ pipe = <<>>
  BY AllGone DEF DoneInv
<1>2. \A f \in Fields : Piped(f) = 0
  <2>1. DOMAIN pipe = {}
    BY <1>1
  <2> QED
    BY <2>1, PipedColumn, SumOfNone
<1>3. total.speed \in Nat /\ total.failed \in Nat
  BY DEF TypeOK, Report
<1>4. /\ SumOver(speed, Children) = total.speed
      /\ SumOver(failed, Children) = total.failed
  BY <1>1, <1>2, <1>3 DEF TotalsAddUp, Fields
<1>5. \A k \in Children :
        /\ speed[k] \in Nat /\ failed[k] \in Nat /\ tried[k] \in Nat
        /\ counted[k] \in Nat /\ counted[k] = speed[k] + failed[k]
        /\ one[k] = 1 /\ most[k] \in Nat /\ most[k] = counted[k] + one[k]
  BY DEF TypeOK
<1>6. \A k \in Children : counted[k] <= tried[k] /\ tried[k] <= most[k]
  <2>1. ASSUME NEW k \in Children
        PROVE  speed[k] + failed[k] \in {tried[k] - 1, tried[k]}
    <3>1. cpc[k] = "gone" /\ Counted(k)
      BY <1>1 DEF CountInv, Gone
    <3> QED
      BY <3>1, CountedCases
  <2> QED
    BY <1>5, <2>1
<1> HIDE DEF counted, one, most
<1>7. SumOver(counted, Children) = total.speed + total.failed
  BY <1>4, <1>5, ChildrenFinite, SumPlus
<1>8. SumOver(one, Children) = clients
  BY <1>5, ChildrenFinite, SumOfOnes
<1>9. SumOver(most, Children) = total.speed + total.failed + clients
  BY <1>5, <1>7, <1>8, ChildrenFinite, SumPlus
<1>10. SumOver(counted, Children) <= SumOver(tried, Children)
  BY <1>5, <1>6, ChildrenFinite, SumMonotone
<1>11. SumOver(tried, Children) <= SumOver(most, Children)
  BY <1>5, <1>6, ChildrenFinite, SumMonotone
<1> QED
  BY <1>4, <1>7, <1>9, <1>10, <1>11

\* When the test is done, what the parent prints (test_bench.c:287-290) are the
\* counts of all its children, and so all attempts but one for each child.
THEOREM TotalsPrinted == Spec => []TotalsComplete
<1>1. Init => CountInv
  BY DEF Init, CountInv, Counted, Trying
<1>2. Init => DoneInv
  BY DEF Init, DoneInv
<1>3. Spec => []CountInv
  <2>1. TypeOK /\ ParentInv /\ CountInv /\ [Next]_vars => CountInv'
    BY CountNext
  <2> QED
    BY <1>1, <2>1, TypeAndParent, PTL DEF Spec
<1>4. Spec => []DoneInv
  BY <1>2, DoneNext, PTL DEF Spec
<1>5. TypeOK /\ TotalsAddUp /\ CountInv /\ DoneInv => TotalsComplete
  BY DoneTotals
<1> QED
  BY <1>3, <1>4, <1>5, TypeCorrect, TotalsCorrect, PTL
=============================================================================
