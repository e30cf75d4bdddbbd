------------------------------- MODULE Procmon -------------------------------
(***************************************************************************)
(* The usage figures of an inner server (pm.h).  A thread of Procmon reads *)
(* four files of /proc one after the other, every 1.7 seconds, and turns   *)
(* the change since the last time into three percentages, which it stores  *)
(* under a mutex.  The server's main thread copies them under the mutex    *)
(* when the distributor asks (getStat).                                    *)
(*                                                                         *)
(* Time is counted in steps; in a step every processor works for at most   *)
(* that long.  The counters of the disks may fall: that of a disk starts   *)
(* again from 0 when it is full, and is missing once the disk is removed.  *)
(***************************************************************************)
EXTENDS Load, Sequences, FiniteSetsExt

CONSTANTS
  Cores,    \* processors of the machine
  Loads,    \* what the machine may do in a step: time worked by processors,
            \* what DiskTime of diskstats grows by and what it loses, the
            \* memory in use after
  AllMem,   \* MemTotal
  MaxLag,   \* steps a tick may take
  MaxTime   \* bound: steps considered

ASSUME ProcmonAssumption ==
  /\ Cores \in Nat /\ MaxLag \in Nat /\ MaxTime \in Nat
  /\ AllMem \in Nat \ {0}

ASSUME LoadsAssumption ==
  Loads \subseteq [work : 0 .. Cores, io : Nat, lost : Nat, mem : 0 .. AllMem]

VARIABLES
  sys,     \* what /proc says now: uptime, time worked, disk time, memory used
  tickPc,  \* where the thread is
  k,       \* the file it reads, or the figure it stores, next
  spent,   \* steps since it began to sleep, or to tick
  seen,    \* what the tick has read so far
  last,    \* lastStatData_, lastIoData_, lastUpDatat_
  ticked,  \* these have values
  mtx,     \* who holds the mutex
  shown,   \* cur_cpu_usage, cur_mem_usage, cur_io_usage
  copied,  \* what getStat has copied of them
  first,   \* history: the time worked when ticked was set
  counted, \* history: the sum of the parts of time worked stored so far
  fell     \* history: DiskTime has lost the time of a disk

machineVars == <<sys, spent, fell>>
threadVars == <<tickPc, k, seen, last, ticked, first, counted>>
procmonVars == <<sys, spent, fell, tickPc, k, seen, last, ticked, first,
                 counted, mtx, shown, copied>>

Proc == [mem : 0 .. AllMem, up : Nat, io : Nat, work : Nat]
NoProc == [mem |-> 0, up |-> 0, io |-> 0, work |-> 0]

(***************************************************************************)
(* IoData::parse adds up the tenth column (the time a disk was busy) of    *)
(* the lines of diskstats whose name does not end in a digit.  Its loop    *)
(* runs once more after the last line: the stream has failed by then, so   *)
(* that name and tmp keep their values, and the last column of the last    *)
(* line (the time spent flushing) is added if its name does not end in a   *)
(* digit.  A line has 17 columns after the name, as since Linux 5.5.       *)
(***************************************************************************)
DiskTime(lines) ==
  LET whole == {j \in DOMAIN lines : lines[j].whole}
      Busy(j) == lines[j].busy
  IN  MapThenSumSet(Busy, whole)
        + (IF Len(lines) \in whole THEN lines[Len(lines)].flush ELSE 0)

\* The order in which the files are read, and the figures stored and copied.
Files == <<"mem", "up", "io", "work">>
StoreOrder == <<"memory", "io", "cpu">>
CopyOrder == <<"cpu", "memory", "io">>

\* A figure is kept as a part of a whole, with the uptime of its tick.
Figure == [of : Int, per : Nat, at : Nat]
Figures == [{"cpu", "memory", "io"} -> Figure]
NoFigure == [of |-> 0, per |-> 1, at |-> 0]

ProcmonTypeOK ==
  /\ sys \in Proc
  /\ tickPc \in {"off", "sleep", "read", "compute", "store", "exited"}
  /\ k \in 1 .. 5
  /\ spent \in Nat
  /\ seen \in Proc /\ last \in Proc
  /\ ticked \in BOOLEAN
  /\ mtx \in {"free", "tick", "get"}
  /\ shown \in Figures
  /\ copied \in Seq(Figure) /\ Len(copied) <= 3
  /\ first \in Nat /\ counted \in Int
  /\ fell \in BOOLEAN

ProcmonInit ==
  /\ sys = NoProc /\ spent = 0 /\ fell = FALSE
  /\ tickPc = "off" /\ k = 1
  /\ seen = NoProc /\ last = NoProc /\ ticked = FALSE
  /\ mtx = "free"
  /\ shown = [f \in {"cpu", "memory", "io"} |-> NoFigure]
  /\ copied = <<>>
  /\ first = 0 /\ counted = 0

\* The process of the server runs.
Runs == tickPc \notin {"off", "exited"}
-----------------------------------------------------------------------------
\* A step of time.  A tick takes MaxLag steps at most.
Elapse ==
  /\ Runs /\ sys.up < MaxTime
  /\ tickPc # "sleep" => spent < MaxLag
  /\ \E l \in Loads :
       /\ l.lost <= sys.io + l.io
       /\ sys' = [mem |-> l.mem, up |-> sys.up + 1,
                  io |-> sys.io + l.io - l.lost, work |-> sys.work + l.work]
       /\ fell' = (fell \/ l.lost > 0)
  /\ spent' = spent + 1
  /\ UNCHANGED <<threadVars, mtx, shown, copied>>

\* The constructor creates the thread, which ticks at once.
CreateProcmon ==
  /\ tickPc = "off"
  /\ tickPc' = "read"
  /\ UNCHANGED <<machineVars, k, seen, last, ticked, first, counted,
                 mtx, shown, copied>>

\* Mutant: the thread does not sleep between two ticks.
WakeUpAtOnce ==
  /\ tickPc = "sleep"
  /\ tickPc' = "read" /\ k' = 1 /\ spent' = 0
  /\ UNCHANGED <<sys, fell, seen, last, ticked, first, counted,
                 mtx, shown, copied>>

\* usleep(1000*1700) returns.
WakeUp ==
  /\ tickPc = "sleep" /\ spent >= 1
  /\ tickPc' = "read" /\ k' = 1 /\ spent' = 0
  /\ UNCHANGED <<sys, fell, seen, last, ticked, first, counted,
                 mtx, shown, copied>>

\* readProcFile of the next file; it is parsed later.
ReadFile ==
  /\ tickPc = "read"
  /\ seen' = [seen EXCEPT ![Files[k]] = sys[Files[k]]]
  /\ k' = IF k = Len(Files) THEN 1 ELSE k + 1
  /\ tickPc' = IF k = Len(Files) THEN "compute" ELSE "read"
  /\ UNCHANGED <<machineVars, last, ticked, first, counted,
                 mtx, shown, copied>>

\* open() fails in readProcFile: the thread ends the whole process, wherever its
\* main thread is.
ReadFileExits ==
  /\ tickPc = "read"
  /\ tickPc' = "exited"
  /\ UNCHANGED <<machineVars, k, seen, last, ticked, first, counted,
                 mtx, shown, copied>>

Sleep == tickPc' = "sleep" /\ spent' = 0 /\ k' = 1

\* Mutant: the tick is given up after the last values have been replaced.
EmptyFileForgets ==
  /\ tickPc = "compute"
  /\ last' = seen
  /\ Sleep
  /\ UNCHANGED <<sys, fell, seen, ticked, first, counted,
                 mtx, shown, copied>>

\* One of the files was empty: the tick is given up.
EmptyFile ==
  /\ tickPc = "compute"
  /\ Sleep
  /\ UNCHANGED <<sys, fell, seen, last, ticked, first, counted,
                 mtx, shown, copied>>

\* The first tick has nothing to compare with.
FirstTick ==
  /\ tickPc = "compute" /\ ~ticked
  /\ last' = seen /\ ticked' = TRUE /\ first' = seen.work
  /\ Sleep
  /\ UNCHANGED <<sys, fell, seen, counted, mtx, shown, copied>>

\* Mutant: the figures are stored without the mutex.
LockNothing ==
  /\ tickPc = "compute" /\ ticked
  /\ tickPc' = "store"
  /\ UNCHANGED <<machineVars, k, seen, last, ticked, first, counted,
                 mtx, shown, copied>>

\* The figures are computed, and the mutex is taken.
LockFigures ==
  /\ tickPc = "compute" /\ ticked
  /\ mtx = "free"
  /\ mtx' = "tick" /\ tickPc' = "store"
  /\ UNCHANGED <<machineVars, k, seen, last, ticked, first, counted,
                 shown, copied>>

\* The changes since the last tick, and the memory in use.
Compute ==
  LET Since(part) == [of |-> part, per |-> seen.up - last.up, at |-> seen.up]
  IN  [cpu |-> Since(seen.work - last.work), io |-> Since(seen.io - last.io),
       memory |-> [of |-> seen.mem, per |-> AllMem, at |-> seen.up]]

StoreFigure ==
  /\ tickPc = "store" /\ k <= 3
  /\ shown' = [shown EXCEPT ![StoreOrder[k]] = Compute[StoreOrder[k]]]
  /\ k' = k + 1
  /\ UNCHANGED <<machineVars, tickPc, seen, last, ticked, first, counted,
                 mtx, copied>>

\* The mutex is released, and the tick ends with the last values kept.
TickDone ==
  /\ tickPc = "store" /\ k = 4
  /\ mtx' = "free"
  /\ counted' = counted + shown["cpu"].of
  /\ last' = seen
  /\ Sleep
  /\ UNCHANGED <<sys, fell, seen, ticked, first, shown, copied>>
-----------------------------------------------------------------------------
\* getStat takes the mutex, copies the figures one by one, and releases it.
LockGetStat ==
  /\ Runs /\ mtx = "free"
  /\ mtx' = "get" /\ copied' = <<>>
  /\ UNCHANGED <<machineVars, threadVars, shown>>

CopyFigure ==
  /\ Runs /\ mtx = "get" /\ Len(copied) < 3
  /\ copied' = Append(copied, shown[CopyOrder[Len(copied) + 1]])
  /\ UNCHANGED <<machineVars, threadVars, mtx, shown>>

GetStatDone ==
  /\ Runs /\ mtx = "get" /\ Len(copied) = 3
  /\ mtx' = "free"
  /\ UNCHANGED <<machineVars, threadVars, shown, copied>>

TickThread ==
  \/ WakeUp \/ ReadFile \/ ReadFileExits \/ EmptyFile \/ FirstTick
  \/ LockFigures \/ StoreFigure \/ TickDone

ProcmonNext ==
  \/ CreateProcmon \/ Elapse \/ TickThread
  \/ LockGetStat \/ CopyFigure \/ GetStatDone

ProcmonSpec == ProcmonInit /\ [][ProcmonNext]_procmonVars
-----------------------------------------------------------------------------
\* The three figures of an answer come from one tick, however the thread and
\* getStat interleave.
OneTick == \A a, b \in DOMAIN copied : copied[a].at = copied[b].at

(***************************************************************************)
(* The figures as getStat shows them: while they are being stored nobody   *)
(* can read them, so that the tick may be said to be over when it takes    *)
(* the mutex.  Those of one tick have the uptime of that tick.             *)
(***************************************************************************)
Visible ==
  IF tickPc = "store" THEN Compute
  ELSE [cpu |-> shown["cpu"], io |-> shown["io"], memory |-> shown["memory"]]

NoAnswer == [cpu |-> NoFigure]

Returned ==
  IF Len(copied) < 3 THEN NoAnswer
  ELSE [cpu |-> copied[1], io |-> copied[3], memory |-> copied[2]]

Samples ==
  {u \in [cpu : Figure, io : Figure, memory : Figure] :
     u.cpu.at = u.memory.at /\ u.io.at = u.memory.at}

Snap == INSTANCE Snapshot WITH
          Later <- {p \in Samples \X Samples : p[1].cpu.at < p[2].cpu.at},
          AtFirst <- [cpu |-> NoFigure, io |-> NoFigure, memory |-> NoFigure],
          Nothing <- NoAnswer,
          stat <- Visible,
          answer <- Returned

\* Storing and copying figure by figure are as good as a tick and an answer in one
\* step each: an answer is one tick's, and the ticks it may be of follow each
\* other in time.
ImplementsSnapshot == Snap!Spec

\* The percentages of an answer.  The code takes every machine to have two
\* processors.
hexin == 2
Percent(f, wholes) == (100 * f.of) \div (f.per * wholes)
Answer ==
  [cpu |-> Percent(copied[1], hexin), memory |-> Percent(copied[2], 1),
   io |-> Percent(copied[3], 1)]
Answered == mtx = "free" /\ Len(copied) = 3

\* The distributor can draw by the weight it computes from an answer: it is
\* never negative, whatever the number of processors and disks and however a
\* tick is delayed, and it passes 1000 only if the counters of the disks fell.
WeightsValid ==
  Answered => \/ Weight(Answer) \in 0 .. 1000
              \/ fell /\ Weight(Answer) > 1000

\* No figure is divided by zero, as the thread sleeps between two ticks.  The
\* files are not read at one moment, so the processors may seem to have worked
\* longer than they could, but by no more than a tick may take.
SkewBounded ==
  \A f \in DOMAIN shown :
    /\ shown[f].per >= 1
    /\ f = "cpu" => shown[f].of <= Cores * (shown[f].per + MaxLag)

\* Time worked is counted in one figure and no more: what a tick that was given
\* up has missed is in the next figure.
UseCountedOnce ==
  ticked /\ tickPc # "store" => counted = last.work - first
=============================================================================
