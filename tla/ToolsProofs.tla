----------------------------- MODULE ToolsProofs -----------------------------
(***************************************************************************)
(* Proofs about the small models beside the load balancer.                 *)
(***************************************************************************)
EXTENDS Tools, ForwarderProofs

-----------------------------------------------------------------------------
(***************************************************************************)
(* Eventfd.                                                                *)
(***************************************************************************)
\* What no step of main() or of a thread changes, and what NoLostWakeup and
\* EveryValueOnce need: a thread is created when main() runs, and not before.
EventfdInv ==
  /\ EventfdTypeOK
  /\ running => \A t \in Threads : epc[t] \in {"add", "wait", "read"}
  /\ (\A t \in Threads : epc[t] = "none") =>
       ~running /\ counter = 0 /\ taken = 0 /\ value = 0
  /\ NoLostWakeup
  /\ (\E t \in Threads : epc[t] # "none") =>
       2 * (taken + counter) = 2 * FirstValue + value * (value - 1)

LEMMA EventfdStarts == EventfdInit => EventfdInv
<1> SUFFICES ASSUME EventfdInit PROVE EventfdInv
  OBVIOUS
<1> USE EventfdAssumption DEF EventfdInit
<1>1. EventfdTypeOK
  <2>1. epc \in [Threads -> {"none", "add", "wait", "read", "done"}]
    OBVIOUS
  <2>2. value \in 0 .. Writes /\ counter \in Nat /\ taken \in Nat
    OBVIOUS
  <2>3. marked \subseteq {t \in Threads : epc[t] \in {"wait", "read", "done"}}
    OBVIOUS
  <2> QED BY <2>1, <2>2, <2>3 DEF EventfdTypeOK
<1>2. \A t \in Threads : epc[t] = "none"
  OBVIOUS
<1>3. NoLostWakeup
  BY DEF NoLostWakeup
<1> QED BY <1>1, <1>2, <1>3 DEF EventfdInv

LEMMA EventfdInductive == EventfdInv /\ [EventfdNext]_eventfdVars => EventfdInv'
<1> SUFFICES ASSUME EventfdInv, [EventfdNext]_eventfdVars
             PROVE  EventfdInv'
  OBVIOUS
<1> USE EventfdAssumption DEF EventfdInv, EventfdTypeOK, NoLostWakeup, Goto
<1>1. CASE CreateEventfd
  BY <1>1, SMTT(30) DEF CreateEventfd
<1>2. CASE Write
  <2> USE DEF Write
  <2>1. \E t \in Threads : TRUE
    BY <1>2
  <2>2. marked' \subseteq {t \in Threads : epc'[t] \in {"wait", "read", "done"}}
    BY <1>2 DEF Mark
  <2>3. NoLostWakeup'
    BY <1>2, <2>1 DEF Mark
  <2>4. 2 * (taken + counter)' = 2 * FirstValue + value' * (value' - 1)
    BY <1>2, <2>1, SMTT(30)
  <2> QED BY <1>2, <2>2, <2>3, <2>4
<1>3. CASE KeyPressed
  BY <1>3 DEF KeyPressed
<1>4. ASSUME NEW t \in Threads, Thread(t) PROVE EventfdInv'
  <2>1. CASE AddEventfd(t)
    BY <2>1, SMTT(30) DEF AddEventfd
  <2>2. CASE WaitReturns(t)
    BY <2>2, SMTT(30) DEF WaitReturns
  <2>3. CASE WaitOn(t)
    BY <2>3, SMTT(30) DEF WaitOn
  <2>4. CASE ReadValue(t)
    BY <2>4, SMTT(30) DEF ReadValue
  <2>5. CASE ReadEmpty(t)
    BY <2>5, SMTT(30) DEF ReadEmpty
  <2> QED BY <1>4, <2>1, <2>2, <2>3, <2>4, <2>5 DEF Thread
<1>5. CASE UNCHANGED eventfdVars
  BY <1>5 DEF eventfdVars
<1> QED BY <1>1, <1>2, <1>3, <1>4, <1>5 DEF EventfdNext

\* For any number of threads and of values: a value is never left to threads
\* that all sleep (the wait and read loop of epollexclusive_exp.cc).
THEOREM EventfdWakes == EventfdSpec => []NoLostWakeup
<1>1. EventfdInit => EventfdInv
  BY EventfdStarts
<1>2. EventfdInv => NoLostWakeup
  BY DEF EventfdInv
<1> QED BY <1>1, <1>2, EventfdInductive, PTL DEF EventfdSpec

\* For any number of threads and of values: every value written reaches one
\* thread, once.
THEOREM EventfdCounts == EventfdSpec => []EveryValueOnce
<1>1. EventfdInit => EventfdInv
  BY EventfdStarts
<1>2. EventfdInv => EveryValueOnce
  BY DEF EventfdInv, EventfdTypeOK, EveryValueOnce
<1> QED BY <1>1, <1>2, EventfdInductive, PTL DEF EventfdSpec
-----------------------------------------------------------------------------
(***************************************************************************)
(* Reuseport.                                                              *)
(***************************************************************************)
\* An event belongs to the worker that has the connection open: this is why
\* closing a connection frees no Conn that another event points to.
ReuseportInv == ReuseportTypeOK /\ ConnsAlive

LEMMA ReuseportStarts == ReuseportInit => ReuseportInv
<1> SUFFICES ASSUME ReuseportInit PROVE ReuseportInv
  OBVIOUS
<1> USE ReuseportAssumption DEF ReuseportInit
<1>1. home \in [Clients -> Workers]
  OBVIOUS
<1>2. ReuseportTypeOK
  BY <1>1 DEF ReuseportTypeOK
<1>3. ConnsAlive
  BY DEF ConnsAlive
<1> QED BY <1>2, <1>3 DEF ReuseportInv

LEMMA ReuseportInductive ==
  ReuseportInv /\ [ReuseportNext]_reuseportVars => ReuseportInv'
<1> SUFFICES ASSUME ReuseportInv, [ReuseportNext]_reuseportVars
             PROVE  ReuseportInv'
  OBVIOUS
<1> USE ReuseportAssumption, ListeningAssumption
    DEF ReuseportInv, ReuseportTypeOK, ConnsAlive, At,
        clientVars, workerVars
<1>1. CASE StartServer \/ ForkFails \/ WaitChildren \/ MainReturns
  BY <1>1 DEF StartServer, ForkFails, WaitChildren, MainReturns
<1>2. ASSUME NEW w \in Workers, Fork(w) PROVE ReuseportInv'
  BY <1>2 DEF Fork
<1>3. ASSUME NEW w \in Workers, WorkerStep(w) PROVE ReuseportInv'
  <2>1. CASE SetUp(w)
    BY <2>1 DEF SetUp
  <2>2. CASE EpollWaitWorker(w)
    BY <2>2 DEF EpollWaitWorker
  <2>3. CASE AcceptOne(w)
    BY <2>3 DEF AcceptOne, Handle
  <2>4. CASE AcceptDrops(w)
    BY <2>4 DEF AcceptDrops, Handle
  <2>5. CASE AcceptRefused(w)
    BY <2>5 DEF AcceptRefused, Handle
  <2>6. ASSUME NEW c \in Clients, ReadBytes(w, c) PROVE ReuseportInv'
    BY <2>6 DEF ReadBytes, Handle
  <2>7. ASSUME NEW c \in Clients, ReadEnd(w, c) PROVE ReuseportInv'
    BY <2>7 DEF ReadEnd, Handle
  <2> QED BY <1>3, <2>1, <2>2, <2>3, <2>4, <2>5, <2>6, <2>7 DEF WorkerStep
<1>4. ASSUME NEW c \in Clients, Connect(c) PROVE ReuseportInv'
  BY <1>4 DEF Connect
<1>5. ASSUME NEW c \in Clients, SendBytes(c) PROVE ReuseportInv'
  BY <1>5 DEF SendBytes
<1>6. ASSUME NEW c \in Clients, EndClient(c) PROVE ReuseportInv'
  BY <1>6 DEF EndClient
<1>7. CASE UNCHANGED reuseportVars
  BY <1>7 DEF reuseportVars
<1> QED BY <1>1, <1>2, <1>3, <1>4, <1>5, <1>6, <1>7 DEF ReuseportNext

\* For any number of workers and clients: no event of a batch points to a Conn
\* that was freed (the loop of do_work in server_reuseport.cc).
THEOREM ReuseportConns == ReuseportSpec => []ConnsAlive
<1>1. ReuseportInv => ConnsAlive
  BY DEF ReuseportInv
<1> QED BY <1>1, ReuseportStarts, ReuseportInductive, PTL DEF ReuseportSpec

-----------------------------------------------------------------------------
(***************************************************************************)
(* Procmon.  The invariant has three parts: where the thread is and who    *)
(* holds the mutex; which figures are of which tick; and how what was read *)
(* lags behind what /proc says now.                                        *)
(***************************************************************************)
PlaceInv ==
  /\ mtx = "tick" <=> tickPc = "store"
  /\ tickPc \in {"off", "sleep", "compute"} => k = 1
  /\ tickPc \in {"read", "store"} => k \in 1 .. 4
  /\ tickPc = "off" => ~ticked
  /\ tickPc = "store" => ticked
  /\ tickPc # "sleep" => spent <= MaxLag

CountedInv ==
  /\ counted = IF ticked THEN last.work - first ELSE 0
  /\ tickPc = "store" /\ k = 4 => shown["cpu"].of = seen.work - last.work

SameTickInv ==
  /\ mtx # "tick" => \A f, g \in {"cpu", "memory", "io"} : shown[f].at = shown[g].at
  /\ tickPc = "store" =>
       /\ k >= 2 => shown["memory"].at = seen.up
       /\ k >= 3 => shown["io"].at = seen.up
       /\ k >= 4 => shown["cpu"].at = seen.up
  /\ mtx = "get" =>
       \A i \in DOMAIN copied : copied[i] = shown[CopyOrder[i]]
  /\ OneTick

\* The tick that goes on has read the i-th file.
HasRead(i) == tickPc \in {"compute", "store"} \/ (tickPc = "read" /\ k > i)

LastInv ==
  ticked =>
    /\ last.work <= sys.work
    /\ sys.work <= last.work + Cores * (sys.up - last.up)
    /\ tickPc = "sleep" => last.up + spent <= sys.up
    /\ last.up <= sys.up
    /\ tickPc = "read" => last.up < sys.up
    /\ ~fell => last.io <= sys.io

SeenInv ==
  /\ HasRead(2) =>
       /\ seen.up <= sys.up
       /\ sys.up <= seen.up + spent
       /\ ticked => last.up < seen.up
  /\ HasRead(3) /\ ~fell =>
       seen.io <= sys.io /\ (ticked => last.io <= seen.io)
  /\ HasRead(4) =>
       /\ seen.work <= sys.work
       /\ sys.work <= seen.work + Cores * (sys.up - seen.up)
       /\ ticked =>
            /\ last.work <= seen.work
            /\ seen.work <= last.work + Cores * (seen.up - last.up + MaxLag)

\* A figure is a part that is not negative, unless a disk counter has started
\* again, of a whole that is not zero.
FigureValid(f, isIo) == f.per >= 1 /\ (f.of >= 0 \/ (isIo /\ fell))

FiguresInv ==
  /\ \A f \in {"cpu", "memory", "io"} : FigureValid(shown[f], f = "io")
  /\ \A i \in DOMAIN copied : FigureValid(copied[i], i = 3)
  /\ shown["cpu"].of <= Cores * (shown["cpu"].per + MaxLag)

ProcmonInv ==
  /\ ProcmonTypeOK /\ PlaceInv /\ CountedInv /\ SameTickInv
  /\ LastInv /\ SeenInv /\ FiguresInv

LEMMA ProcmonStarts == ProcmonInit => ProcmonInv
<1> SUFFICES ASSUME ProcmonInit PROVE ProcmonInv
  OBVIOUS
<1> USE DEF ProcmonInit
<1>1. shown \in Figures
  BY DEF Figures, Figure, NoFigure
<1>2. ProcmonTypeOK
  <2>1. sys \in Proc /\ seen \in Proc /\ last \in Proc
    BY ProcmonAssumption DEF Proc, NoProc
  <2>2. copied \in Seq(Figure) /\ Len(copied) <= 3
    OBVIOUS
  <2>3. fell \in BOOLEAN /\ ticked \in BOOLEAN /\ mtx \in {"free", "tick", "get"}
    OBVIOUS
  <2> QED BY <1>1, <2>1, <2>2, <2>3 DEF ProcmonTypeOK
<1>3. PlaceInv /\ CountedInv /\ LastInv
  BY ProcmonAssumption DEF PlaceInv, CountedInv, LastInv
<1>4. SameTickInv
  BY DEF SameTickInv, OneTick, NoFigure
<1>5. SeenInv
  BY DEF SeenInv, HasRead
<1>6. FiguresInv
  BY ProcmonAssumption DEF FiguresInv, FigureValid, NoFigure
<1> QED BY <1>2, <1>3, <1>4, <1>5, <1>6 DEF ProcmonInv

\* In a step more, the processors work for Cores steps more at most.
LEMMA CoresStep ==
  ASSUME NEW a \in Nat, NEW b \in Nat, NEW w \in Nat, NEW v \in Nat, NEW x \in Nat,
         w <= v + Cores * (a - b), x <= w + Cores
  PROVE  x <= v + Cores * ((a + 1) - b)
<1>1. Cores \in Nat
  BY ProcmonAssumption
<1> DEFINE d == a - b
<1>2. d \in Int /\ (a + 1) - b = d + 1
  OBVIOUS
<1>3. w <= v + Cores * d
  OBVIOUS
<1> HIDE DEF d
<1>4. Cores * (d + 1) = Cores * d + Cores /\ Cores * d \in Int
  BY <1>1, <1>2
<1> QED BY <1>1, <1>2, <1>3, <1>4

LEMMA CoresMonotone ==
  ASSUME NEW a \in Int, NEW b \in Int, a <= b
  PROVE  Cores * a <= Cores * b /\ Cores * a \in Int /\ Cores * b \in Int
<1>1. Cores \in Nat
  BY ProcmonAssumption
<1>2. PICK n \in Nat : b = a + n
  OBVIOUS
<1>3. Cores * (a + n) = Cores * a + Cores * n /\ Cores * n >= 0
  BY <1>1
<1> QED BY <1>1, <1>2, <1>3

\* The numbers the type invariant speaks of.
LEMMA ProcmonNumbers ==
  ASSUME ProcmonTypeOK
  PROVE  /\ sys.up \in Nat /\ sys.work \in Nat /\ sys.io \in Nat
         /\ seen.up \in Nat /\ seen.work \in Nat /\ seen.io \in Nat
         /\ seen.mem \in Nat
         /\ last.up \in Nat /\ last.work \in Nat /\ last.io \in Nat
         /\ k \in 1 .. 5 /\ spent \in Nat
         /\ ticked \in BOOLEAN /\ fell \in BOOLEAN
         /\ first \in Nat /\ counted \in Int
         /\ shown = [f \in {"cpu", "memory", "io"} |-> shown[f]]
         /\ \A f \in {"cpu", "memory", "io"} :
              shown[f].of \in Int /\ shown[f].per \in Nat /\ shown[f].at \in Nat
<1>1. sys \in Proc /\ seen \in Proc /\ last \in Proc
  BY DEF ProcmonTypeOK
<1>2. \A p \in Proc : p.mem \in Nat /\ p.up \in Nat /\ p.io \in Nat /\ p.work \in Nat
  BY ProcmonAssumption DEF Proc
<1>3. /\ k \in 1 .. 5 /\ spent \in Nat
      /\ ticked \in BOOLEAN /\ fell \in BOOLEAN
      /\ first \in Nat /\ counted \in Int
      /\ shown \in [{"cpu", "memory", "io"} -> Figure]
  BY DEF ProcmonTypeOK, Figures
<1>4. \A f \in Figure : f.of \in Int /\ f.per \in Nat /\ f.at \in Nat
  BY DEF Figure
<1> QED BY <1>1, <1>2, <1>3, <1>4

\* What Elapse does to the machine, without the choice of a load.
LEMMA ElapsedMachine ==
  ASSUME ProcmonTypeOK, Elapse
  PROVE  /\ sys' \in Proc
         /\ sys'.up = sys.up + 1
         /\ sys'.work >= sys.work /\ sys'.work <= sys.work + Cores
         /\ fell' \in BOOLEAN /\ (fell => fell')
         /\ ~fell' => sys'.io >= sys.io
         /\ spent' = spent + 1
         /\ tickPc # "sleep" => spent < MaxLag
         /\ UNCHANGED <<threadVars, mtx, shown, copied>>
<1>1. PICK l \in Loads :
        /\ l.lost <= sys.io + l.io
        /\ sys' = [mem |-> l.mem, up |-> sys.up + 1,
                   io |-> sys.io + l.io - l.lost, work |-> sys.work + l.work]
        /\ fell' = (fell \/ l.lost > 0)
  BY DEF Elapse
<1>2. /\ l.work \in 0 .. Cores /\ l.mem \in 0 .. AllMem
      /\ l.io \in Nat /\ l.lost \in Nat
  BY LoadsAssumption
<1>3. Cores \in Nat
  BY ProcmonAssumption
<1>4. sys.up \in Nat /\ sys.work \in Nat /\ sys.io \in Nat /\ fell \in BOOLEAN
  BY ProcmonNumbers
<1> DEFINE io == sys.io + l.io - l.lost
<1>5. io \in Nat /\ (l.lost = 0 => io >= sys.io)
  BY <1>1, <1>2, <1>4
<1>6. /\ sys' = [mem |-> l.mem, up |-> sys.up + 1, io |-> io,
                work |-> sys.work + l.work]
      /\ fell' = (fell \/ l.lost > 0)
  BY <1>1
<1> HIDE DEF io
<1>7. sys.up + 1 \in Nat /\ sys.work + l.work \in Nat
  BY <1>2, <1>3, <1>4
<1>8. sys' \in Proc
  BY <1>2, <1>5, <1>6, <1>7 DEF Proc
<1>9. sys'.up = sys.up + 1 /\ sys'.work = sys.work + l.work /\ sys'.io = io
  BY <1>6
<1>10. fell' \in BOOLEAN /\ (fell => fell')
  BY <1>6
<1>11. sys'.work >= sys.work /\ sys'.work <= sys.work + Cores
  BY <1>2, <1>3, <1>4, <1>9
<1>12. ~fell' => sys'.io >= sys.io
  <2>1. l.lost > 0 => fell'
    BY <1>6
  <2> QED BY <1>2, <1>5, <1>9, <2>1
<1>13. /\ spent' = spent + 1
       /\ tickPc # "sleep" => spent < MaxLag
       /\ UNCHANGED <<threadVars, mtx, shown, copied>>
  BY DEF Elapse
<1> QED BY <1>8, <1>9, <1>10, <1>11, <1>12, <1>13

LEMMA CopiedFigure ==
  ASSUME ProcmonTypeOK, CopyFigure
  PROVE  /\ mtx = "get" /\ UNCHANGED <<machineVars, threadVars, mtx, shown>>
         /\ \A i \in DOMAIN copied' :
              /\ i \in 1 .. 3
              /\ \/ i \in DOMAIN copied /\ copied'[i] = copied[i]
                 \/ copied'[i] = shown[CopyOrder[i]]
<1>1. copied \in Seq(Figure) /\ Len(copied) \in 0 .. 2
  <2>1. copied \in Seq(Figure)
    BY DEF ProcmonTypeOK
  <2> DEFINE n == Len(copied)
  <2>2. n \in Nat /\ n < 3
    BY <2>1 DEF CopyFigure
  <2> HIDE DEF n
  <2>3. n \in 0 .. 2
    BY <2>2
  <2> QED BY <2>1, <2>3 DEF n
<1> DEFINE new == shown[CopyOrder[Len(copied) + 1]]
<1>2. copied' = Append(copied, new)
  BY DEF CopyFigure
<1>3. shown[CopyOrder[Len(copied) + 1]] = new
  OBVIOUS
<1> HIDE DEF new
<1>4. \A i \in DOMAIN copied' :
        /\ i \in 1 .. 3
        /\ \/ i \in DOMAIN copied /\ copied'[i] = copied[i]
           \/ i = Len(copied) + 1 /\ copied'[i] = new
  BY <1>1, <1>2
<1> QED BY <1>3, <1>4 DEF CopyFigure

LEMMA CopyOrderFigures ==
  /\ \A i \in 1 .. 3 : CopyOrder[i] \in {"cpu", "memory", "io"}
  /\ \A i \in 1 .. 3 : CopyOrder[i] = "io" <=> i = 3
  BY DEF CopyOrder

LEMMA ProcmonKeepsType ==
  ProcmonInv /\ [ProcmonNext]_procmonVars => ProcmonTypeOK'
<1> SUFFICES ASSUME ProcmonInv, [ProcmonNext]_procmonVars
             PROVE  ProcmonTypeOK'
  OBVIOUS
<1> USE DEF ProcmonInv, ProcmonTypeOK
<1>1. CASE Elapse
  <2>1. sys' \in Proc /\ fell' \in BOOLEAN
    BY <1>1, ElapsedMachine
  <2>2. spent' \in Nat
    BY <1>1 DEF Elapse
  <2> QED BY <1>1, <2>1, <2>2 DEF Elapse, threadVars
<1>2. CASE CreateProcmon
  BY <1>2 DEF CreateProcmon, machineVars, threadVars
<1>3. CASE WakeUp
  BY <1>3 DEF WakeUp, machineVars, threadVars
<1>4. CASE ReadFile
  <2>1. k \in 1 .. 4 /\ k' \in 1 .. 5 /\ tickPc' \in {"read", "compute"}
    BY <1>4 DEF ReadFile, Files, PlaceInv
  <2>2. Files[k] \in {"mem", "up", "io", "work"}
    BY <2>1 DEF Files
  <2>3. seen' \in Proc
    BY <1>4, <2>2 DEF ReadFile, Proc
  <2> QED BY <1>4, <2>1, <2>3 DEF ReadFile, machineVars
<1>5. CASE EmptyFile
  BY <1>5 DEF EmptyFile, Sleep, machineVars, threadVars
<1>6. CASE FirstTick
  <2>1. first' \in Nat
    BY <1>6, ProcmonNumbers DEF FirstTick
  <2> QED BY <1>6, <2>1 DEF FirstTick, Sleep
<1>7. CASE LockFigures
  BY <1>7 DEF LockFigures, machineVars, threadVars
<1>8. CASE StoreFigure
  <2>1. k \in 1 .. 3
    BY <1>8 DEF StoreFigure
  <2> DEFINE since == seen.up - last.up
  <2>2. since \in Nat /\ seen.up \in Nat
    <3>1. last.up < seen.up
      BY <1>8 DEF StoreFigure, SeenInv, HasRead, PlaceInv
    <3>2. last.up \in Nat /\ seen.up \in Nat
      BY ProcmonNumbers
    <3> QED BY <3>1, <3>2
  <2>3. /\ seen.work - last.work \in Int /\ seen.io - last.io \in Int
        /\ seen.mem \in Int /\ AllMem \in Nat
    <3>1. /\ seen.work \in Nat /\ last.work \in Nat
          /\ seen.io \in Nat /\ last.io \in Nat /\ seen.mem \in Nat
      BY ProcmonNumbers
    <3> QED BY <3>1, ProcmonAssumption
  <2>4. Compute = [cpu |-> [of |-> seen.work - last.work, per |-> since, at |-> seen.up],
                   io |-> [of |-> seen.io - last.io, per |-> since, at |-> seen.up],
                   memory |-> [of |-> seen.mem, per |-> AllMem, at |-> seen.up]]
    BY DEF Compute
  <2> HIDE DEF since
  <2>5. /\ Compute["cpu"] \in Figure /\ Compute["io"] \in Figure
        /\ Compute["memory"] \in Figure
    BY <2>2, <2>3, <2>4 DEF Figure
  <2>6. StoreOrder[k] \in {"cpu", "memory", "io"}
    BY <2>1 DEF StoreOrder
  <2>7. shown' \in Figures
    BY <1>8, <2>5, <2>6 DEF StoreFigure, Figures
  <2> QED BY <1>8, <2>1, <2>7 DEF StoreFigure, machineVars
<1>9. CASE TickDone
  <2>1. shown["cpu"].of \in Int /\ counted \in Int
    BY ProcmonNumbers
  <2>2. counted' \in Int
    BY <1>9, <2>1 DEF TickDone
  <2> QED BY <1>9, <2>2 DEF TickDone, Sleep
<1>10. CASE LockGetStat
  BY <1>10 DEF LockGetStat, machineVars, threadVars
<1>11. CASE CopyFigure
  <2>1. copied \in Seq(Figure) /\ Len(copied) + 1 \in 1 .. 3
    BY <1>11 DEF CopyFigure
  <2>2. \A i \in 1 .. 3 : CopyOrder[i] \in {"cpu", "memory", "io"}
    BY DEF CopyOrder
  <2>3. shown[CopyOrder[Len(copied) + 1]] \in Figure
    BY <2>1, <2>2 DEF Figures
  <2>4. copied' \in Seq(Figure) /\ Len(copied') = Len(copied) + 1
    BY <1>11, <2>1, <2>3 DEF CopyFigure
  <2> QED BY <1>11, <2>1, <2>4 DEF CopyFigure, machineVars, threadVars
<1>12. CASE GetStatDone
  BY <1>12 DEF GetStatDone, machineVars, threadVars
<1>13. CASE ReadFileExits
  BY <1>13 DEF ReadFileExits, machineVars, threadVars
<1>14. CASE UNCHANGED procmonVars
  BY <1>14 DEF procmonVars
<1> QED BY <1>1, <1>2, <1>3, <1>4, <1>5, <1>6, <1>7, <1>8, <1>9, <1>10, <1>11,
           <1>12, <1>13, <1>14 DEF ProcmonNext, TickThread

LEMMA ProcmonKeepsPlace ==
  ProcmonInv /\ [ProcmonNext]_procmonVars => PlaceInv'
<1> SUFFICES ASSUME ProcmonInv, [ProcmonNext]_procmonVars
             PROVE  PlaceInv'
  OBVIOUS
<1> USE ProcmonNumbers, ProcmonAssumption DEF ProcmonInv, PlaceInv
<1>1. CASE Elapse
  BY <1>1, ElapsedMachine DEF threadVars
<1>2. CASE CreateProcmon
  BY <1>2 DEF CreateProcmon, machineVars, threadVars
<1>3. CASE WakeUp
  BY <1>3 DEF WakeUp, machineVars, threadVars
<1>4. CASE ReadFile
  BY <1>4 DEF ReadFile, Files, machineVars, threadVars
<1>5. CASE EmptyFile
  BY <1>5 DEF EmptyFile, Sleep, machineVars, threadVars
<1>6. CASE FirstTick
  BY <1>6 DEF FirstTick, Sleep, machineVars, threadVars
<1>7. CASE LockFigures
  BY <1>7 DEF LockFigures, machineVars, threadVars
<1>8. CASE StoreFigure
  BY <1>8 DEF StoreFigure, StoreOrder, Compute, machineVars, threadVars
<1>9. CASE TickDone
  BY <1>9 DEF TickDone, Sleep, machineVars, threadVars
<1>10. CASE LockGetStat
  BY <1>10 DEF LockGetStat, machineVars, threadVars
<1>11. CASE CopyFigure
  BY <1>11 DEF CopyFigure, CopyOrder, machineVars, threadVars
<1>12. CASE GetStatDone
  BY <1>12 DEF GetStatDone, machineVars, threadVars
<1>13. CASE ReadFileExits
  BY <1>13 DEF ReadFileExits, machineVars, threadVars
<1>14. CASE UNCHANGED procmonVars
  BY <1>14 DEF procmonVars
<1> QED BY <1>1, <1>2, <1>3, <1>4, <1>5, <1>6, <1>7, <1>8, <1>9, <1>10, <1>11,
           <1>12, <1>13, <1>14 DEF ProcmonNext, TickThread

LEMMA ProcmonKeepsCounted ==
  ProcmonInv /\ [ProcmonNext]_procmonVars => CountedInv'
<1> SUFFICES ASSUME ProcmonInv, [ProcmonNext]_procmonVars
             PROVE  CountedInv'
  OBVIOUS
<1> USE ProcmonNumbers DEF ProcmonInv, PlaceInv, CountedInv, Figure
<1>1. CASE Elapse
  BY <1>1, ElapsedMachine DEF threadVars
<1>2. CASE CreateProcmon
  BY <1>2 DEF CreateProcmon, machineVars, threadVars
<1>3. CASE WakeUp
  BY <1>3 DEF WakeUp, machineVars, threadVars
<1>4. CASE ReadFile
  BY <1>4 DEF ReadFile, Files, machineVars, threadVars
<1>5. CASE EmptyFile
  BY <1>5 DEF EmptyFile, Sleep, machineVars, threadVars
<1>6. CASE FirstTick
  BY <1>6 DEF FirstTick, Sleep, machineVars, threadVars
<1>7. CASE LockFigures
  BY <1>7 DEF LockFigures, machineVars, threadVars
<1>8. CASE StoreFigure
  BY <1>8 DEF StoreFigure, StoreOrder, Compute, machineVars, threadVars
<1>9. CASE TickDone
  <2>1. counted = last.work - first /\ shown["cpu"].of = seen.work - last.work
    BY <1>9 DEF TickDone
  <2>2. counted' = seen.work - first
    BY <1>9, <2>1 DEF TickDone
  <2> QED BY <1>9, <2>2 DEF TickDone, Sleep
<1>10. CASE LockGetStat
  BY <1>10 DEF LockGetStat, machineVars, threadVars
<1>11. CASE CopyFigure
  BY <1>11 DEF CopyFigure, CopyOrder, machineVars, threadVars
<1>12. CASE GetStatDone
  BY <1>12 DEF GetStatDone, machineVars, threadVars
<1>13. CASE ReadFileExits
  BY <1>13 DEF ReadFileExits, machineVars, threadVars
<1>14. CASE UNCHANGED procmonVars
  BY <1>14 DEF procmonVars
<1> QED BY <1>1, <1>2, <1>3, <1>4, <1>5, <1>6, <1>7, <1>8, <1>9, <1>10, <1>11,
           <1>12, <1>13, <1>14 DEF ProcmonNext, TickThread

LEMMA ProcmonKeepsSameTick ==
  ProcmonInv /\ [ProcmonNext]_procmonVars => SameTickInv'
<1> SUFFICES ASSUME ProcmonInv, [ProcmonNext]_procmonVars
             PROVE  SameTickInv'
  OBVIOUS
<1> USE ProcmonNumbers DEF ProcmonInv, PlaceInv, SameTickInv, OneTick, Figure
<1>1. CASE Elapse
  BY <1>1, ElapsedMachine DEF threadVars
<1>2. CASE CreateProcmon
  BY <1>2 DEF CreateProcmon, machineVars, threadVars
<1>3. CASE WakeUp
  BY <1>3 DEF WakeUp, machineVars, threadVars
<1>4. CASE ReadFile
  BY <1>4 DEF ReadFile, Files, machineVars, threadVars
<1>5. CASE EmptyFile
  BY <1>5 DEF EmptyFile, Sleep, machineVars, threadVars
<1>6. CASE FirstTick
  BY <1>6 DEF FirstTick, Sleep, machineVars, threadVars
<1>7. CASE LockFigures
  BY <1>7 DEF LockFigures, machineVars, threadVars
<1>8. CASE StoreFigure
  BY <1>8 DEF StoreFigure, StoreOrder, Compute, machineVars, threadVars
<1>9. CASE TickDone
  BY <1>9 DEF TickDone, Sleep, machineVars, threadVars
<1>10. CASE LockGetStat
  BY <1>10 DEF LockGetStat, machineVars, threadVars
<1>11. CASE CopyFigure
  <2>1. /\ mtx = "get" /\ UNCHANGED <<machineVars, threadVars, mtx, shown>>
        /\ \A i \in DOMAIN copied' :
             i \in 1 .. 3 /\ copied'[i] = shown[CopyOrder[i]]
    BY <1>11, CopiedFigure
  <2>2. \A f, g \in {"cpu", "memory", "io"} : shown[f].at = shown[g].at
    BY <2>1
  <2>3. \A a, b \in DOMAIN copied' : copied'[a].at = copied'[b].at
    BY <2>1, <2>2, CopyOrderFigures
  <2> QED BY <2>1, <2>2, <2>3 DEF threadVars
<1>12. CASE GetStatDone
  BY <1>12 DEF GetStatDone, machineVars, threadVars
<1>13. CASE ReadFileExits
  BY <1>13 DEF ReadFileExits, machineVars, threadVars
<1>14. CASE UNCHANGED procmonVars
  BY <1>14 DEF procmonVars
<1> QED BY <1>1, <1>2, <1>3, <1>4, <1>5, <1>6, <1>7, <1>8, <1>9, <1>10, <1>11,
           <1>12, <1>13, <1>14 DEF ProcmonNext, TickThread

LEMMA ProcmonKeepsLast ==
  ProcmonInv /\ [ProcmonNext]_procmonVars => LastInv'
<1> SUFFICES ASSUME ProcmonInv, [ProcmonNext]_procmonVars
             PROVE  LastInv'
  OBVIOUS
<1> USE ProcmonNumbers DEF ProcmonInv, PlaceInv, LastInv, SeenInv, HasRead
<1>1. CASE Elapse
  <2>1. /\ sys'.up = sys.up + 1 /\ spent' = spent + 1
        /\ sys'.work \in Nat /\ sys'.io \in Nat
        /\ sys.work <= sys'.work /\ sys'.work <= sys.work + Cores
        /\ fell => fell'
        /\ ~fell' => sys.io <= sys'.io
        /\ last' = last /\ ticked' = ticked /\ tickPc' = tickPc
    BY <1>1, ElapsedMachine, ProcmonAssumption DEF Proc, threadVars
  <2>2. ticked => sys'.work <= last.work + Cores * (sys'.up - last.up)
    BY <2>1, CoresStep
  <2>3. ticked => last.work <= sys'.work
    BY <2>1
  <2>4. ticked => last.up <= sys'.up /\ (tickPc = "read" => last.up < sys'.up)
    BY <2>1
  <2>5. ticked /\ tickPc = "sleep" => last.up + spent' <= sys'.up
    BY <2>1
  <2>6. ticked /\ ~fell' => last.io <= sys'.io
    BY <2>1
  <2> HIDE DEF SeenInv
  <2> QED BY <2>1, <2>2, <2>3, <2>4, <2>5, <2>6
<1>2. CASE CreateProcmon
  BY <1>2 DEF CreateProcmon, machineVars, threadVars
<1>3. CASE WakeUp
  BY <1>3 DEF WakeUp, machineVars, threadVars
<1>4. CASE ReadFile
  BY <1>4 DEF ReadFile, Files, machineVars, threadVars
<1>5. CASE EmptyFile
  BY <1>5 DEF EmptyFile, Sleep, machineVars, threadVars
<1>6. CASE FirstTick
  BY <1>6 DEF FirstTick, Sleep, machineVars, threadVars
<1>7. CASE LockFigures
  BY <1>7 DEF LockFigures, machineVars, threadVars
<1>8. CASE StoreFigure
  BY <1>8 DEF StoreFigure, StoreOrder, Compute, machineVars, threadVars
<1>9. CASE TickDone
  BY <1>9 DEF TickDone, Sleep, machineVars, threadVars
<1>10. CASE LockGetStat
  BY <1>10 DEF LockGetStat, machineVars, threadVars
<1>11. CASE CopyFigure
  BY <1>11 DEF CopyFigure, CopyOrder, machineVars, threadVars
<1>12. CASE GetStatDone
  BY <1>12 DEF GetStatDone, machineVars, threadVars
<1>13. CASE ReadFileExits
  BY <1>13 DEF ReadFileExits, machineVars, threadVars
<1>14. CASE UNCHANGED procmonVars
  BY <1>14 DEF procmonVars
<1> QED BY <1>1, <1>2, <1>3, <1>4, <1>5, <1>6, <1>7, <1>8, <1>9, <1>10, <1>11,
           <1>12, <1>13, <1>14 DEF ProcmonNext, TickThread

LEMMA ProcmonKeepsSeen ==
  ProcmonInv /\ [ProcmonNext]_procmonVars => SeenInv'
<1> SUFFICES ASSUME ProcmonInv, [ProcmonNext]_procmonVars
             PROVE  SeenInv'
  OBVIOUS
<1> USE ProcmonNumbers DEF ProcmonInv, PlaceInv, LastInv, SeenInv, HasRead
<1>1. CASE Elapse
  <2>1. /\ sys'.up = sys.up + 1 /\ spent' = spent + 1
        /\ sys'.work \in Nat /\ sys'.io \in Nat
        /\ sys.work <= sys'.work /\ sys'.work <= sys.work + Cores
        /\ fell => fell'
        /\ ~fell' => sys.io <= sys'.io
        /\ last' = last /\ ticked' = ticked /\ seen' = seen
        /\ \A i \in {2, 3, 4} : HasRead(i)' = HasRead(i)
    BY <1>1, ElapsedMachine, ProcmonAssumption DEF Proc, threadVars
  <2> HIDE DEF HasRead, LastInv
  <2>2. HasRead(4) => sys'.work <= seen.work + Cores * (sys'.up - seen.up)
    BY <2>1, CoresStep
  <2>3. HasRead(2) => seen.up <= sys'.up /\ sys'.up <= seen.up + spent'
    BY <2>1
  <2>4. HasRead(3) /\ ~fell' => seen.io <= sys'.io
    BY <2>1
  <2>5. HasRead(4) => seen.work <= sys'.work
    BY <2>1
  <2> QED BY <2>1, <2>2, <2>3, <2>4, <2>5
<1>2. CASE CreateProcmon
  BY <1>2 DEF CreateProcmon, machineVars, threadVars
<1>3. CASE WakeUp
  BY <1>3 DEF WakeUp, machineVars, threadVars
<1>4. CASE ReadFile
  <2>1. /\ sys' = sys /\ last' = last /\ ticked' = ticked /\ fell' = fell
        /\ spent' = spent /\ tickPc = "read" /\ k \in 1 .. 4
        /\ tickPc' = IF k = 4 THEN "compute" ELSE "read"
        /\ k' = IF k = 4 THEN 1 ELSE k + 1
    BY <1>4 DEF ReadFile, Files, machineVars
  <2>2. seen' = [seen EXCEPT ![Files[k]] = sys[Files[k]]]
    BY <1>4 DEF ReadFile
  <2>3. /\ seen'.up = IF k = 2 THEN sys.up ELSE seen.up
        /\ seen'.io = IF k = 3 THEN sys.io ELSE seen.io
        /\ seen'.work = IF k = 4 THEN sys.work ELSE seen.work
    <3>1. seen \in Proc
      BY DEF ProcmonTypeOK
    <3> QED BY <2>1, <2>2, <3>1 DEF Files, Proc
  <2>4. HasRead(2)' => /\ seen'.up <= sys'.up
                       /\ sys'.up <= seen'.up + spent'
                       /\ ticked' => last'.up < seen'.up
    BY <2>1, <2>3
  <2>5. HasRead(3)' /\ ~fell' =>
          seen'.io <= sys'.io /\ (ticked' => last'.io <= seen'.io)
    BY <2>1, <2>3
  <2>6. ASSUME HasRead(4)'
        PROVE  /\ seen'.work <= sys'.work
               /\ sys'.work <= seen'.work + Cores * (sys'.up - seen'.up)
               /\ ticked' =>
                    /\ last'.work <= seen'.work
                    /\ seen'.work <=
                         last'.work + Cores * (seen'.up - last'.up + MaxLag)
    <3>1. k = 4 /\ seen'.up = seen.up /\ seen'.work = sys.work
      BY <2>1, <2>3, <2>6
    <3>2. seen.up <= sys.up /\ sys.up <= seen.up + MaxLag /\ MaxLag \in Nat
      BY <2>1, <3>1, ProcmonAssumption
    <3>3. 0 <= Cores * (sys.up - seen.up) /\ Cores * (sys.up - seen.up) \in Int
      <4>1. 0 <= sys.up - seen.up
        BY <3>2
      <4>2. Cores * 0 = 0
        BY ProcmonAssumption
      <4> QED BY <4>1, <4>2, CoresMonotone
    <3>4. ticked => sys.work <= last.work + Cores * (seen.up - last.up + MaxLag)
      <4>1. /\ sys.up - last.up <= seen.up - last.up + MaxLag
            /\ sys.up - last.up \in Int /\ seen.up - last.up + MaxLag \in Int
        BY <3>2
      <4>2. /\ Cores * (sys.up - last.up) <= Cores * (seen.up - last.up + MaxLag)
            /\ Cores * (sys.up - last.up) \in Int
            /\ Cores * (seen.up - last.up + MaxLag) \in Int
        BY <4>1, CoresMonotone
      <4>3. ticked => sys.work <= last.work + Cores * (sys.up - last.up)
        OBVIOUS
      <4> QED BY <4>2, <4>3
    <3>5. ticked => last.work <= sys.work
      OBVIOUS
    <3> QED BY <2>1, <3>1, <3>3, <3>4, <3>5
  <2> QED BY <2>4, <2>5, <2>6
<1>5. CASE EmptyFile
  BY <1>5 DEF EmptyFile, Sleep, machineVars, threadVars
<1>6. CASE FirstTick
  BY <1>6 DEF FirstTick, Sleep, machineVars, threadVars
<1>7. CASE LockFigures
  BY <1>7 DEF LockFigures, machineVars, threadVars
<1>8. CASE StoreFigure
  BY <1>8 DEF StoreFigure, StoreOrder, Compute, machineVars, threadVars
<1>9. CASE TickDone
  BY <1>9 DEF TickDone, Sleep, machineVars, threadVars
<1>10. CASE LockGetStat
  BY <1>10 DEF LockGetStat, machineVars, threadVars
<1>11. CASE CopyFigure
  BY <1>11 DEF CopyFigure, CopyOrder, machineVars, threadVars
<1>12. CASE GetStatDone
  BY <1>12 DEF GetStatDone, machineVars, threadVars
<1>13. CASE ReadFileExits
  BY <1>13 DEF ReadFileExits, machineVars, threadVars
<1>14. CASE UNCHANGED procmonVars
  BY <1>14 DEF procmonVars
<1> QED BY <1>1, <1>2, <1>3, <1>4, <1>5, <1>6, <1>7, <1>8, <1>9, <1>10, <1>11,
           <1>12, <1>13, <1>14 DEF ProcmonNext, TickThread

LEMMA ProcmonKeepsFigures ==
  ProcmonInv /\ [ProcmonNext]_procmonVars => FiguresInv'
<1> SUFFICES ASSUME ProcmonInv, [ProcmonNext]_procmonVars
             PROVE  FiguresInv'
  OBVIOUS
<1> USE ProcmonNumbers DEF ProcmonInv, PlaceInv, SameTickInv, LastInv, SeenInv, HasRead, FiguresInv, FigureValid, Figure
<1>1. CASE Elapse
  BY <1>1, ElapsedMachine DEF threadVars
<1>2. CASE CreateProcmon
  BY <1>2 DEF CreateProcmon, machineVars, threadVars
<1>3. CASE WakeUp
  BY <1>3 DEF WakeUp, machineVars, threadVars
<1>4. CASE ReadFile
  BY <1>4 DEF ReadFile, Files, machineVars, threadVars
<1>5. CASE EmptyFile
  BY <1>5 DEF EmptyFile, Sleep, machineVars, threadVars
<1>6. CASE FirstTick
  BY <1>6 DEF FirstTick, Sleep, machineVars, threadVars
<1>7. CASE LockFigures
  BY <1>7 DEF LockFigures, machineVars, threadVars
<1>8. CASE StoreFigure
  <2>1. /\ tickPc = "store" /\ ticked /\ k \in 1 .. 3
        /\ shown' = [shown EXCEPT ![StoreOrder[k]] = Compute[StoreOrder[k]]]
        /\ copied' = copied /\ fell' = fell
    BY <1>8 DEF StoreFigure, machineVars
  <2>2. /\ last.up < seen.up /\ last.work <= seen.work
        /\ ~fell => last.io <= seen.io
        /\ seen.work <= last.work + Cores * (seen.up - last.up + MaxLag)
    BY <2>1
  <2>3. CASE k = 1
    <3>1. shown' = [shown EXCEPT !["memory"] =
                      [of |-> seen.mem, per |-> AllMem, at |-> seen.up]]
      BY <2>1, <2>3 DEF StoreOrder, Compute
    <3> QED BY <2>1, <3>1, ProcmonAssumption
  <2>4. CASE k = 2
    <3>1. shown' = [shown EXCEPT !["io"] =
            [of |-> seen.io - last.io, per |-> seen.up - last.up, at |-> seen.up]]
      BY <2>1, <2>4 DEF StoreOrder, Compute
    <3> QED BY <2>1, <2>2, <3>1
  <2>5. CASE k = 3
    <3>1. shown' = [shown EXCEPT !["cpu"] =
            [of |-> seen.work - last.work, per |-> seen.up - last.up, at |-> seen.up]]
      BY <2>1, <2>5 DEF StoreOrder, Compute
    <3>2. shown["cpu"]' = [of |-> seen.work - last.work,
                           per |-> seen.up - last.up, at |-> seen.up]
      BY <3>1
    <3>3. /\ Cores * (seen.up - last.up + MaxLag) \in Int
          /\ seen.up - last.up + MaxLag \in Int
      BY CoresMonotone, ProcmonAssumption
    <3>4. seen.work - last.work <= Cores * (seen.up - last.up + MaxLag)
      BY <2>2, <3>3
    <3> QED BY <2>1, <2>2, <3>1, <3>2, <3>4
  <2> QED BY <2>1, <2>3, <2>4, <2>5
<1>9. CASE TickDone
  BY <1>9 DEF TickDone, Sleep, machineVars, threadVars
<1>10. CASE LockGetStat
  BY <1>10 DEF LockGetStat, machineVars, threadVars
<1>11. CASE CopyFigure
  <2>1. shown' = shown /\ fell' = fell
    BY <1>11 DEF CopyFigure, machineVars
  <2>2. ASSUME NEW i \in DOMAIN copied'
        PROVE  FigureValid(copied'[i], i = 3)
    BY <1>11, CopiedFigure, CopyOrderFigures
  <2> QED BY <2>1, <2>2
<1>12. CASE GetStatDone
  BY <1>12 DEF GetStatDone, machineVars, threadVars
<1>13. CASE ReadFileExits
  BY <1>13 DEF ReadFileExits, machineVars, threadVars
<1>14. CASE UNCHANGED procmonVars
  BY <1>14 DEF procmonVars
<1> QED BY <1>1, <1>2, <1>3, <1>4, <1>5, <1>6, <1>7, <1>8, <1>9, <1>10, <1>11,
           <1>12, <1>13, <1>14 DEF ProcmonNext, TickThread

LEMMA ProcmonInductive ==
  ProcmonInv /\ [ProcmonNext]_procmonVars => ProcmonInv'
<1> SUFFICES ASSUME ProcmonInv /\ [ProcmonNext]_procmonVars PROVE ProcmonInv'
  OBVIOUS
<1> QED BY ProcmonKeepsType, ProcmonKeepsPlace, ProcmonKeepsCounted,
           ProcmonKeepsSameTick, ProcmonKeepsLast, ProcmonKeepsSeen,
           ProcmonKeepsFigures DEF ProcmonInv

\* For any number of processors, any disks and any delay of a tick: the three
\* figures getStat returns are of one tick (the mutex of pm.h).
THEOREM ProcmonOneTick == ProcmonSpec => []OneTick
<1>1. ProcmonInv => OneTick
  BY DEF ProcmonInv, SameTickInv
<1> QED BY <1>1, ProcmonStarts, ProcmonInductive, PTL DEF ProcmonSpec

\* No figure is divided by zero, and the processors never seem to have worked
\* longer than they could by more than a tick may take (pm.h:171).
THEOREM ProcmonSkew == ProcmonSpec => []SkewBounded
<1>1. ProcmonInv => SkewBounded
  BY DEF ProcmonInv, ProcmonTypeOK, Figures, FiguresInv, FigureValid, SkewBounded
<1> QED BY <1>1, ProcmonStarts, ProcmonInductive, PTL DEF ProcmonSpec

\* A tick that is given up loses no time worked, and no time worked is counted
\* twice (pm.h:150-154 and 182-185).
THEOREM ProcmonCountsOnce == ProcmonSpec => []UseCountedOnce
<1>1. ProcmonInv => UseCountedOnce
  BY DEF ProcmonInv, CountedInv, UseCountedOnce
<1> QED BY <1>1, ProcmonStarts, ProcmonInductive, PTL DEF ProcmonSpec

LEMMA Division ==
  ASSUME NEW a \in Int, NEW d \in Nat \ {0}
  PROVE  a \div d \in Int /\ (a >= 0 => a \div d >= 0)
  OBVIOUS

LEMMA WeightBounds ==
  ASSUME NEW c \in Int, NEW m \in Int, NEW i \in Int, c >= 0, m >= 0
  PROVE  LET w == Weight([cpu |-> c, memory |-> m, io |-> i])
         IN  w \in Int /\ w >= 0 /\ (i >= 0 => w <= 1000)
  BY DEF Weight, Overloaded, Limit

\* The weights of the distributor are valid for whatever machine its servers
\* run on, unless the counter of a disk starts again (pm.h and the weights of
\* algorithm_distributor.cc:174).
THEOREM ProcmonWeights == ProcmonSpec => []WeightsValid
<1>1. ProcmonInv => WeightsValid
  <2> SUFFICES ASSUME ProcmonInv, Answered PROVE WeightsValid
    BY DEF WeightsValid
  <2>1. copied \in Seq(Figure) /\ DOMAIN copied = 1 .. 3
    BY DEF ProcmonInv, ProcmonTypeOK, Answered
  <2>2. \A i \in 1 .. 3 : copied[i].of \in Int /\ copied[i].per \in Nat
    <3>1. \A f \in Figure : f.of \in Int /\ f.per \in Nat
      BY DEF Figure
    <3>2. \A i \in 1 .. 3 : copied[i] \in Figure
      BY <2>1
    <3> QED BY <3>1, <3>2
  <2>3. \A i \in 1 .. 3 : FigureValid(copied[i], i = 3)
    BY <2>1 DEF ProcmonInv, FiguresInv
  <2>4. ASSUME NEW i \in 1 .. 3, NEW n \in {1, 2}
        PROVE  /\ Percent(copied[i], n) \in Int
               /\ copied[i].of >= 0 => Percent(copied[i], n) >= 0
    <3>1. copied[i].per * n \in Nat \ {0}
      BY <2>2, <2>3 DEF FigureValid
    <3>2. 100 * copied[i].of \in Int
          /\ (copied[i].of >= 0 => 100 * copied[i].of >= 0)
      BY <2>2
    <3> QED BY <3>1, <3>2, Division DEF Percent
  <2> DEFINE c == Percent(copied[1], hexin)
             m == Percent(copied[2], 1)
             i == Percent(copied[3], 1)
  <2>5. c \in Int /\ m \in Int /\ i \in Int /\ c >= 0 /\ m >= 0
    BY <2>3, <2>4 DEF FigureValid, hexin
  <2>6. ~fell => i >= 0
    BY <2>3, <2>4 DEF FigureValid
  <2>7. Answer = [cpu |-> c, memory |-> m, io |-> i]
    BY DEF Answer
  <2> HIDE DEF c, m, i
  <2>8. /\ Weight(Answer) \in Int /\ Weight(Answer) >= 0
        /\ i >= 0 => Weight(Answer) <= 1000
    BY <2>5, <2>7, WeightBounds
  <2> QED BY <2>6, <2>8 DEF WeightsValid
<1> QED BY <1>1, ProcmonStarts, ProcmonInductive, PTL DEF ProcmonSpec
-----------------------------------------------------------------------------
(***************************************************************************)
(* Procmon implements Snapshot.  A tick is over for Snapshot when it takes *)
(* the mutex: what it is about to store is then what getStat will show.    *)
(***************************************************************************)
\* The figures stored so far are those computed, and no figure shown is older
\* than the last sample kept.
ShownInv ==
  /\ tickPc = "store" =>
       /\ k >= 2 => shown["memory"] = Compute["memory"]
       /\ k >= 3 => shown["io"] = Compute["io"]
       /\ k >= 4 => shown["cpu"] = Compute["cpu"]
  /\ tickPc # "store" =>
       \A f \in {"cpu", "memory", "io"} :
         shown[f].at <= (IF ticked THEN last.up ELSE 0)

LEMMA ShownStarts == ProcmonInit => ShownInv
BY DEF ProcmonInit, ShownInv, NoFigure

LEMMA ShownInductive ==
  ProcmonInv /\ ShownInv /\ [ProcmonNext]_procmonVars => ShownInv'
<1> SUFFICES ASSUME ProcmonInv, ShownInv, [ProcmonNext]_procmonVars
             PROVE  ShownInv'
  OBVIOUS
<1> USE ProcmonNumbers DEF ProcmonInv, PlaceInv, ShownInv
<1> DEFINE Same == UNCHANGED <<tickPc, k, seen, last, ticked, shown>>
<1>0. ASSUME Same PROVE ShownInv'
  <2>1. Compute' = Compute
    BY <1>0 DEF Compute
  <2> HIDE DEF ShownInv
  <2>2. ShownInv
    OBVIOUS
  <2> QED
    BY <1>0, <2>1, <2>2 DEF ShownInv
<1> HIDE DEF Same
<1>1. CASE Elapse
  BY <1>0, <1>1, ElapsedMachine DEF Same, threadVars
<1>2. CASE CreateProcmon \/ WakeUp \/ ReadFile \/ ReadFileExits
  <2>1. /\ UNCHANGED <<shown, ticked, last>>
        /\ tickPc # "store" /\ tickPc' # "store"
    BY <1>2 DEF CreateProcmon, WakeUp, ReadFile, ReadFileExits
  <2> QED
    BY <2>1
<1>3. CASE EmptyFile
  BY <1>3 DEF EmptyFile, Sleep
<1>4. CASE FirstTick
  BY <1>4 DEF FirstTick, Sleep
<1>5. CASE LockFigures
  BY <1>5 DEF LockFigures, machineVars
<1>6. CASE StoreFigure
  BY <1>6 DEF StoreFigure, StoreOrder, Compute, machineVars
<1>7. CASE TickDone
  <2>1. \A f \in {"cpu", "memory", "io"} : shown[f].at = seen.up
    BY <1>7 DEF TickDone, Compute
  <2>2. ticked /\ ticked' = ticked /\ last' = seen /\ shown' = shown
        /\ tickPc' = "sleep"
    BY <1>7 DEF TickDone, Sleep
  <2> QED
    BY <2>1, <2>2
<1>8. CASE LockGetStat \/ CopyFigure \/ GetStatDone
  <2>1. Same
    BY <1>8 DEF Same, LockGetStat, CopyFigure, GetStatDone, machineVars, threadVars
  <2> QED
    BY <1>0, <2>1
<1>9. CASE UNCHANGED procmonVars
  BY <1>0, <1>9 DEF Same, procmonVars
<1> QED
  BY <1>1, <1>2, <1>3, <1>4, <1>5, <1>6, <1>7, <1>8, <1>9
     DEF ProcmonNext, TickThread

LEMMA SnapshotStarts == ProcmonInit => Snap!Init
BY DEF ProcmonInit, Snap!Init, Visible, Returned

\* Figures shown before a tick and those it computes are samples of two moments.
LEMMA TickFollows ==
  ASSUME ProcmonInv, ShownInv, LockFigures
  PROVE  /\ <<Visible, Compute>> \in
              {p \in Samples \X Samples : p[1].cpu.at < p[2].cpu.at}
         /\ Visible' = Compute /\ ticked /\ UNCHANGED <<ticked, copied>>
<1> USE ProcmonNumbers DEF ProcmonInv
<1>1. tickPc = "compute" /\ tickPc' = "store" /\ mtx = "free" /\ ticked
      /\ UNCHANGED <<seen, last, ticked, shown, copied>>
  BY DEF LockFigures, machineVars
<1>2. shown["cpu"] \in Figure /\ shown["io"] \in Figure
      /\ shown["memory"] \in Figure
  BY DEF ProcmonTypeOK, Figures
<1>3. /\ shown["cpu"].at = shown["memory"].at
      /\ shown["io"].at = shown["memory"].at
      /\ shown["cpu"].at <= last.up
  BY <1>1 DEF SameTickInv, ShownInv
<1>4. last.up < seen.up
  BY <1>1 DEF SeenInv, HasRead
<1>5. Compute.cpu \in Figure /\ Compute.io \in Figure
      /\ Compute.memory \in Figure
  BY <1>4, ProcmonAssumption DEF Compute, Figure
<1>6. /\ Compute.cpu.at = seen.up /\ Compute.io.at = seen.up
      /\ Compute.memory.at = seen.up
  BY DEF Compute
<1>7. Visible = [cpu |-> shown["cpu"], io |-> shown["io"],
                 memory |-> shown["memory"]]
  BY <1>1 DEF Visible
<1>8. Visible' = Compute
  BY <1>1 DEF Visible, Compute
<1>9. Visible \in Samples
  BY <1>2, <1>3, <1>7 DEF Samples
<1>10. Compute \in Samples
  <2>1. Compute = [cpu |-> Compute.cpu, io |-> Compute.io,
                   memory |-> Compute.memory]
    BY DEF Compute
  <2> QED
    BY <1>5, <1>6, <2>1 DEF Samples
<1>11. Visible.cpu.at < Compute.cpu.at
  BY <1>3, <1>4, <1>6, <1>7, <1>2 DEF Figure
<1> QED
  BY <1>1, <1>8, <1>9, <1>10, <1>11

LEMMA Appended ==
  ASSUME NEW S, NEW s \in Seq(S), NEW e \in S, NEW t, t = Append(s, e)
  PROVE  \A i \in 1 .. Len(s) + 1 :
           t[i] = IF i = Len(s) + 1 THEN e ELSE s[i]
OBVIOUS

LEMMA SnapshotStep ==
  ASSUME ProcmonInv, ShownInv, [ProcmonNext]_procmonVars
  PROVE  [Snap!Next]_(Snap!snapshotVars)
<1> USE DEF ProcmonInv
<1> DEFINE Same == UNCHANGED <<ticked, Visible, Returned>>
<1>1. Same => [Snap!Next]_(Snap!snapshotVars)
  BY DEF Snap!snapshotVars
<1> HIDE DEF Same
<1>2. CASE Elapse
  <2>1. UNCHANGED <<tickPc, seen, last, shown, ticked, copied>>
    BY <1>2 DEF Elapse, threadVars
  <2> QED
    BY <1>1, <2>1 DEF Same, Visible, Compute, Returned
<1>3. CASE CreateProcmon \/ WakeUp \/ ReadFile \/ ReadFileExits \/ EmptyFile
  <2>1. /\ UNCHANGED <<shown, ticked, copied>>
        /\ tickPc # "store" /\ tickPc' # "store"
    BY <1>3 DEF CreateProcmon, WakeUp, ReadFile, ReadFileExits, EmptyFile, Sleep
  <2> QED
    BY <1>1, <2>1 DEF Same, Visible, Returned
<1>4. CASE FirstTick
  <2>1. /\ UNCHANGED <<shown, copied>> /\ ~ticked /\ ticked' = TRUE
        /\ tickPc # "store" /\ tickPc' # "store"
    BY <1>4 DEF FirstTick, Sleep
  <2>2. Visible' = Visible /\ Returned' = Returned
    BY <2>1 DEF Visible, Returned
  <2> QED
    BY <2>1, <2>2 DEF Snap!Next, Snap!Tick
<1>5. CASE LockFigures
  <2>1. Returned' = Returned
    BY <1>5, TickFollows DEF Returned
  <2> QED
    BY <1>5, <2>1, TickFollows DEF Snap!Next, Snap!Tick
<1>6. CASE StoreFigure
  <2>1. /\ UNCHANGED <<tickPc, seen, last, ticked, copied>>
        /\ tickPc = "store"
    BY <1>6 DEF StoreFigure, machineVars
  <2> QED
    BY <1>1, <2>1 DEF Same, Visible, Compute, Returned
<1>7. CASE TickDone
  <2>1. /\ tickPc = "store" /\ tickPc' = "sleep" /\ k = 4
        /\ UNCHANGED <<shown, ticked, copied>>
    BY <1>7 DEF TickDone, Sleep
  <2>2. /\ shown["memory"] = Compute["memory"] /\ shown["io"] = Compute["io"]
        /\ shown["cpu"] = Compute["cpu"]
    BY <2>1 DEF ShownInv
  <2>3. Visible = Compute
    BY <2>1 DEF Visible
  <2>4. Visible' = [cpu |-> shown["cpu"], io |-> shown["io"],
                    memory |-> shown["memory"]]
    BY <2>1 DEF Visible
  <2>5. Visible' = Visible
    BY <2>2, <2>3, <2>4 DEF Compute
  <2> QED
    BY <1>1, <2>1, <2>5 DEF Same, Returned
<1>8. CASE LockGetStat
  <2>1. /\ UNCHANGED <<tickPc, seen, last, shown, ticked>> /\ copied' = <<>>
    BY <1>8 DEF LockGetStat, threadVars
  <2>2. Visible' = Visible /\ Returned' = NoAnswer
    BY <2>1 DEF Visible, Compute, Returned
  <2> QED
    BY <2>1, <2>2 DEF Snap!Next, Snap!Call
<1>9. CASE CopyFigure
  <2>1. /\ UNCHANGED <<tickPc, seen, last, shown, ticked, mtx>>
        /\ mtx = "get" /\ Len(copied) < 3
        /\ copied' = Append(copied, shown[CopyOrder[Len(copied) + 1]])
    BY <1>9 DEF CopyFigure, threadVars
  <2>2. Visible' = Visible /\ Returned = NoAnswer
    BY <2>1 DEF Visible, Compute, Returned
  <2>3. copied \in Seq(Figure) /\ Len(copied) \in Nat
    BY DEF ProcmonTypeOK
  <2>4. Len(copied') = Len(copied) + 1
    BY <2>1, <2>3
  <2>5. CASE Len(copied') < 3
    <3>1. Returned' = NoAnswer
      BY <2>5 DEF Returned
    <3> QED
      BY <1>1, <2>1, <2>2, <3>1 DEF Same
  <2>6. CASE ~(Len(copied') < 3)
    <3>0. Len(copied) = 2
      <4> DEFINE n == Len(copied)
      <4>1. n \in Nat /\ n < 3 /\ ~(n + 1 < 3)
        BY <2>1, <2>3, <2>4, <2>6
      <4> HIDE DEF n
      <4>2. n = 2
        BY <4>1
      <4> QED
        BY <4>2 DEF n
    <3>1. Len(copied) = 2 /\ copied \in Seq(Figure)
      BY <2>3, <3>0
    <3>2. copied' = Append(copied, shown["io"])
      BY <2>1, <3>1 DEF CopyOrder
    <3>3. copied'[1] = copied[1] /\ copied'[2] = copied[2]
          /\ copied'[3] = shown["io"]
      <4>1. shown["io"] \in Figure
        BY DEF ProcmonTypeOK, Figures
      <4>2. \A i \in 1 .. Len(copied) + 1 :
              copied'[i] = IF i = Len(copied) + 1 THEN shown["io"] ELSE copied[i]
        BY <3>1, <3>2, <4>1, Appended
      <4>3. \A i \in 1 .. 3 : copied'[i] = IF i = 3 THEN shown["io"] ELSE copied[i]
        BY <3>1, <4>2
      <4> QED
        BY <4>3
    <3>4. copied[1] = shown[CopyOrder[1]] /\ copied[2] = shown[CopyOrder[2]]
      BY <2>1, <3>1 DEF SameTickInv
    <3>5. CopyOrder[1] = "cpu" /\ CopyOrder[2] = "memory"
      BY DEF CopyOrder
    <3>6. tickPc # "store"
      BY <2>1 DEF PlaceInv
    <3>7. Returned' = Visible
      BY <2>6, <3>3, <3>4, <3>5, <3>6 DEF Returned, Visible
    <3> QED
      BY <2>1, <2>2, <3>7 DEF Snap!Next, Snap!Return
  <2> QED
    BY <2>5, <2>6
<1>10. CASE GetStatDone
  <2>1. UNCHANGED <<tickPc, seen, last, shown, ticked, copied>>
    BY <1>10 DEF GetStatDone, threadVars
  <2> QED
    BY <1>1, <2>1 DEF Same, Visible, Compute, Returned
<1>11. CASE UNCHANGED procmonVars
  BY <1>1, <1>11 DEF procmonVars, Same, Visible, Compute, Returned
<1> QED
  BY <1>2, <1>3, <1>4, <1>5, <1>6, <1>7, <1>8, <1>9, <1>10, <1>11
     DEF ProcmonNext, TickThread

\* For any number of processors, any disks and any delays: the thread that stores
\* three figures one by one and getStat, which copies them one by one, give the
\* distributor what a single step would (pm.h:174-179 and :195-198), so that the
\* other modules may take a tick, and an answer, for one step.
THEOREM SnapshotImplemented == ProcmonSpec => ImplementsSnapshot
<1>1. ProcmonInit => ProcmonInv /\ ShownInv /\ Snap!Init
  BY ProcmonStarts, ShownStarts, SnapshotStarts
<1>2. ProcmonInv /\ ShownInv /\ [ProcmonNext]_procmonVars =>
        ProcmonInv' /\ ShownInv'
  BY ProcmonInductive, ShownInductive
<1> QED
  BY <1>1, <1>2, SnapshotStep, PTL DEF ProcmonSpec, ImplementsSnapshot, Snap!Spec
-----------------------------------------------------------------------------
(***************************************************************************)
(* Monitors.                                                               *)
(***************************************************************************)
\* A descriptor is only left open by procmon.
MonitorsInv ==
  /\ MonitorsTypeOK
  /\ AllKeepsGoing
  /\ prog = "none" => fds = 3 /\ ~reading

LEMMA NoTimeIsTime == NoTime \in [StatTimes -> 0 .. MaxUsed]
<1> 0 \in 0 .. MaxUsed
  BY MonitorsAssumption
<1> QED BY DEF NoTime

LEMMA MonitorsInductive ==
  MonitorsInv /\ [MonitorsNext]_monitorsVars => MonitorsInv'
<1> SUFFICES ASSUME MonitorsInv, [MonitorsNext]_monitorsVars
             PROVE  MonitorsInv'
  OBVIOUS
<1> USE MonitorsAssumption
    DEF MonitorsInv, MonitorsTypeOK, AllKeepsGoing, procmonCcVars
<1>1. CASE StartMonitor
  BY <1>1 DEF StartMonitor
<1>2. CASE Work \/ ProcessEnds \/ PidReused
  <2>1. used' \in [StatTimes -> 0 .. MaxUsed] /\ watched' \in BOOLEAN
    <3>1. CASE Work
      <4>1. PICK part \in StatTimes :
              used[part] < MaxUsed /\ used' = [used EXCEPT ![part] = @ + 1]
        BY <3>1 DEF Work
      <4>2. used[part] + 1 \in 0 .. MaxUsed
        BY <4>1
      <4> QED BY <3>1, <4>1, <4>2 DEF Work
    <3>2. CASE ProcessEnds
      BY <3>2, NoTimeIsTime DEF ProcessEnds
    <3>3. CASE PidReused
      BY <3>3 DEF PidReused
    <3> QED BY <1>2, <3>1, <3>2, <3>3
  <2>2. UNCHANGED <<prog, fds, reading, lastUsed, sampled, printed>>
    BY <1>2 DEF Work, ProcessEnds, PidReused
  <2> QED BY <2>1, <2>2
<1>3. CASE Tick
  <2>1. printed' \in 0 .. 2 * MaxUsed
    <3>1. CASE ~sampled
      BY <1>3, <3>1 DEF Tick
    <3>2. CASE sampled
      <4>1. \A part \in StatTimes : Clamped(Change(part)) \in 0 .. MaxUsed
        <5> SUFFICES ASSUME NEW part \in StatTimes
                     PROVE  Clamped(Change(part)) \in 0 .. MaxUsed
          OBVIOUS
        <5>1. used[part] \in 0 .. MaxUsed /\ lastUsed[part] \in 0 .. MaxUsed
          OBVIOUS
        <5> QED BY <5>1 DEF Clamped, Change
      <4>2. "utime" \in StatTimes /\ "stime" \in StatTimes
        BY DEF StatTimes
      <4>3. printed' = Clamped(Change("utime")) + Clamped(Change("stime"))
        BY <1>3, <3>2 DEF Tick
      <4> HIDE DEF MonitorsInv, MonitorsTypeOK
      <4> QED BY <4>1, <4>2, <4>3
    <3> QED BY <3>1, <3>2
  <2>2. lastUsed' = used /\ sampled' = TRUE /\ fds < FdMax /\ fds' = fds + 1
        /\ prog = "procmon" /\ UNCHANGED <<prog, reading, watched, used>>
    BY <1>3 DEF Tick, ReadStat
  <2> QED BY <2>1, <2>2
<1>4. CASE TickEmpty
  BY <1>4 DEF TickEmpty, ReadStat
<1>5. CASE OpenFails
  BY <1>5 DEF OpenFails
<1>6. CASE OpenFile
  BY <1>6 DEF OpenFile
<1>7. CASE CloseFile
  <2>1. fds = 4 /\ prog = "promon_all" /\ fds' = fds - 1 /\ reading' = FALSE
    BY <1>7 DEF CloseFile
  <2>2. fds' = 3 /\ 3 \in 3 .. FdMax
    BY <2>1
  <2>3. UNCHANGED <<prog, watched, used, lastUsed, sampled, printed>>
    BY <1>7 DEF CloseFile
  <2> QED BY <2>1, <2>2, <2>3
<1>8. CASE UNCHANGED monitorsVars
  BY <1>8 DEF monitorsVars
<1> QED BY <1>1, <1>2, <1>3, <1>4, <1>5, <1>6, <1>7, <1>8
        DEF MonitorsNext, ProcmonStep

LEMMA MonitorsStarts == MonitorsInit => MonitorsInv
<1> SUFFICES ASSUME MonitorsInit PROVE MonitorsInv
  OBVIOUS
<1>1. fds \in 3 .. FdMax /\ printed \in 0 .. 2 * MaxUsed
  BY MonitorsAssumption DEF MonitorsInit
<1>2. used \in [StatTimes -> 0 .. MaxUsed]
      /\ lastUsed \in [StatTimes -> 0 .. MaxUsed]
  BY NoTimeIsTime DEF MonitorsInit
<1> QED BY <1>1, <1>2
        DEF MonitorsInit, MonitorsInv, MonitorsTypeOK, AllKeepsGoing

\* promon_all never holds more than the file it reads, for any limit on
\* descriptors (readProcFile of promon_all.cc).
THEOREM MonitorsKeepGoing == MonitorsSpec => []AllKeepsGoing
<1>1. MonitorsInv => AllKeepsGoing
  BY DEF MonitorsInv
<1> QED BY <1>1, MonitorsStarts, MonitorsInductive, PTL DEF MonitorsSpec
-----------------------------------------------------------------------------
(***************************************************************************)
(* Framing.  Until the first short read, which the dispatcher answers, it  *)
(* is at the start of a request.                                           *)
(***************************************************************************)
FramingInv ==
  /\ FramingTypeOK
  /\ errs = 0 =>
       /\ readOf % reqLen = 0
       /\ \A j \in DOMAIN passed : passed[j] % reqLen = 0

\* A request further is at the start of a request again.
LEMMA NextRequest ==
  ASSUME NEW n \in Nat \ {0}, NEW a \in Nat, a % n = 0
  PROVE  (a + n) % n = 0
<1> DEFINE q == a \div n
<1>1. a = q * n /\ q \in Nat
  BY SMT
<1> HIDE DEF q
<1>2. (q + 1) * n = q * n + n
  BY <1>1, SMT
<1>3. a + n = (q + 1) * n + 0 /\ a + n \in Nat /\ q + 1 \in Nat /\ 0 \in 0 .. n - 1
  BY <1>1, <1>2
<1>4. \A b \in Nat, p \in Nat, r \in 0 .. n - 1 : b = p * n + r => b % n = r
  BY SMT
<1> QED
  BY <1>3, <1>4

LEMMA FramingStarts == FramingInit => FramingInv
<1> SUFFICES ASSUME FramingInit PROVE FramingInv
  OBVIOUS
<1>1. passed = <<>> /\ readOf = 0 /\ 0 % reqLen = 0
  BY FramingAssumption DEF FramingInit
<1>2. passed \in Seq(Nat)
  <2>1. <<>> \in Seq(Nat)
    OBVIOUS
  <2> QED
    BY <1>1, <2>1
<1>3. FramingTypeOK
  <2>1. /\ sentTo = 0 /\ arrived = 0 /\ readOf = 0 /\ errs = 0
        /\ connected = FALSE
    BY DEF FramingInit
  <2>2. sentTo \in Nat /\ arrived \in 0 .. sentTo /\ readOf \in 0 .. arrived
    BY <2>1
  <2>3. errs \in Nat /\ connected \in BOOLEAN
    BY <2>1
  <2> QED
    BY <1>2, <2>2, <2>3 DEF FramingTypeOK
<1> QED
  BY <1>1, <1>3 DEF FramingInv

LEMMA FramingInductive == FramingInv /\ [FramingNext]_framingVars => FramingInv'
<1> SUFFICES ASSUME FramingInv, [FramingNext]_framingVars PROVE FramingInv'
  OBVIOUS
<1> USE FramingAssumption DEF FramingInv, FramingTypeOK
<1>1. CASE ConnectClient \/ UNCHANGED framingVars
  BY <1>1 DEF ConnectClient, framingVars
<1>2. CASE SendRequest
  BY <1>2 DEF SendRequest
<1>3. CASE Deliver
  BY <1>3 DEF Deliver
<1>4. CASE DispatchFull
  <2>1. /\ arrived - readOf >= reqLen /\ readOf' = readOf + reqLen
        /\ passed' = Append(passed, readOf)
        /\ UNCHANGED <<sentTo, arrived, errs, connected>>
    BY <1>4 DEF DispatchFull
  <2>2. FramingTypeOK'
    BY <2>1
  <2>3. ASSUME errs = 0 PROVE readOf' % reqLen = 0
    BY <2>1, <2>3, NextRequest
  <2>4. ASSUME errs = 0, NEW j \in DOMAIN passed' PROVE passed'[j] % reqLen = 0
    <3>1. passed'[j] = IF j = Len(passed) + 1 THEN readOf ELSE passed[j]
      BY <2>1
    <3>2. j # Len(passed) + 1 => j \in DOMAIN passed
      BY <2>1
    <3> QED
      BY <2>4, <3>1, <3>2
  <2> QED
    BY <2>1, <2>2, <2>3, <2>4
<1>5. CASE DispatchPart
  BY <1>5 DEF DispatchPart
<1> QED
  BY <1>1, <1>2, <1>3, <1>4, <1>5 DEF FramingNext

\* For any length of a request and however TCP cuts the requests: err_res has
\* been written for a client before any request of it is taken in the wrong place
\* (algorithm_distributor.cc:237-249).
THEOREM FramingReported == FramingSpec => []ShiftIsReported
<1>1. FramingInv => ShiftIsReported
  BY DEF FramingInv, FramingTypeOK, ShiftIsReported
<1> QED
  BY <1>1, FramingStarts, FramingInductive, PTL DEF FramingSpec

-----------------------------------------------------------------------------
(***************************************************************************)
(* The programs together.                                                  *)
(***************************************************************************)
\* Putting the programs side by side takes nothing away from any of them and adds
\* nothing: a behaviour of all is one of each.  What the theorems above say of a
\* program therefore holds in the run that checks them all.
THEOREM ToolsCompose ==
  Spec => /\ EventfdSpec /\ ReuseportSpec /\ ForwarderSpec
          /\ ProcmonSpec /\ MonitorsSpec /\ FramingSpec
<1>1. Init => /\ EventfdInit /\ ReuseportInit /\ ForwarderInit
              /\ ProcmonInit /\ MonitorsInit /\ FramingInit
  BY DEF Init
<1>2. [Next]_allVars => /\ [EventfdNext]_eventfdVars
                        /\ [ReuseportNext]_reuseportVars
                        /\ [ForwarderNext]_forwarderVars
                        /\ [ProcmonNext]_procmonVars
                        /\ [MonitorsNext]_monitorsVars
                        /\ [FramingNext]_framingVars
  BY DEF Next, allVars
<1> QED
  BY <1>1, <1>2, PTL
     DEF Spec, EventfdSpec, ReuseportSpec, ForwarderSpec, ProcmonSpec,
         MonitorsSpec, FramingSpec

\* The states of all the small models are well formed, whatever their constants.
THEOREM ToolsTypeCorrect == Spec => []TypeOK
<1>1. EventfdSpec => []EventfdTypeOK
  <2>1. EventfdInv => EventfdTypeOK
    BY DEF EventfdInv
  <2> QED
    BY <2>1, EventfdStarts, EventfdInductive, PTL DEF EventfdSpec
<1>2. ReuseportSpec => []ReuseportTypeOK
  <2>1. ReuseportInv => ReuseportTypeOK
    BY DEF ReuseportInv
  <2> QED
    BY <2>1, ReuseportStarts, ReuseportInductive, PTL DEF ReuseportSpec
<1>3. ProcmonSpec => []ProcmonTypeOK
  <2>1. ProcmonInv => ProcmonTypeOK
    BY DEF ProcmonInv
  <2> QED
    BY <2>1, ProcmonStarts, ProcmonInductive, PTL DEF ProcmonSpec
<1>4. MonitorsSpec => []MonitorsTypeOK
  <2>1. MonitorsInv => MonitorsTypeOK
    BY DEF MonitorsInv
  <2> QED
    BY <2>1, MonitorsStarts, MonitorsInductive, PTL DEF MonitorsSpec
<1>5. FramingSpec => []FramingTypeOK
  <2>1. FramingInv => FramingTypeOK
    BY DEF FramingInv
  <2> QED
    BY <2>1, FramingStarts, FramingInductive, PTL DEF FramingSpec
<1> QED
  BY <1>1, <1>2, <1>3, <1>4, <1>5, ForwarderTypeCorrect, ToolsCompose, PTL
     DEF TypeOK
=============================================================================
