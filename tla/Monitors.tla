------------------------------ MODULE Monitors -------------------------------
(***************************************************************************)
(* The two command-line monitors.  procmon.cc prints the usage of one      *)
(* process, promon_all.cc that of the whole machine (the figures are those *)
(* of Procmon), every three seconds.  Each opens files of /proc with a     *)
(* readProcFile of its own; that of procmon.cc does not close them.        *)
(***************************************************************************)
EXTENDS Integers

CONSTANTS
  FdMax,   \* descriptors are numbered below this limit
  MaxUsed  \* bound: user time, and system time, of the watched process

ASSUME MonitorsAssumption == FdMax \in Nat /\ FdMax >= 4 /\ MaxUsed \in Nat

VARIABLES
  prog,      \* the program that runs: procmon, promon_all, none, or it ended
  fds,       \* the descriptors it has open
  reading,   \* promon_all is reading a file
  watched,   \* the pid procmon was given names a process
  used,      \* utime and stime of that process
  lastUsed,  \* those in lastStatData_ of procmon
  sampled,   \* lastStatData_ has values (ticked)
  printed    \* the time worked that procmon has printed last

procmonCcVars == <<lastUsed, sampled, printed>>
monitorsVars ==
  <<prog, fds, reading, watched, used, lastUsed, sampled, printed>>

StatTimes == {"utime", "stime"}
NoTime == [part \in StatTimes |-> 0]

MonitorsTypeOK ==
  /\ prog \in {"none", "procmon", "promon_all", "ended"}
  /\ fds \in 3 .. FdMax
  /\ reading \in BOOLEAN
  /\ watched \in BOOLEAN
  /\ used \in [StatTimes -> 0 .. MaxUsed] /\ lastUsed \in [StatTimes -> 0 .. MaxUsed]
  /\ sampled \in BOOLEAN
  /\ printed \in 0 .. 2 * MaxUsed

MonitorsInit ==
  /\ prog = "none" /\ fds = 3 /\ reading = FALSE
  /\ watched = TRUE /\ used = NoTime
  /\ lastUsed = NoTime /\ sampled = FALSE /\ printed = 0

StartMonitor ==
  /\ prog = "none"
  /\ prog' \in {"procmon", "promon_all"}
  /\ UNCHANGED <<fds, reading, watched, used, procmonCcVars>>

\* The watched process works, ends, or is followed by another of the same pid.
Work ==
  /\ prog # "none" /\ watched
  /\ \E part \in StatTimes :
       /\ used[part] < MaxUsed
       /\ used' = [used EXCEPT ![part] = @ + 1]
  /\ UNCHANGED <<prog, fds, reading, watched, procmonCcVars>>

ProcessEnds ==
  /\ prog # "none" /\ watched
  /\ watched' = FALSE /\ used' = NoTime
  /\ UNCHANGED <<prog, fds, reading, procmonCcVars>>

PidReused ==
  /\ prog # "none" /\ ~watched
  /\ watched' = TRUE
  /\ UNCHANGED <<prog, fds, reading, used, procmonCcVars>>

\* Mutant: the file is closed.
ReadAndClose ==
  /\ prog = "procmon" /\ watched /\ fds < FdMax
  /\ UNCHANGED fds

\* readProcFile of procmon.cc.
ReadStat ==
  /\ prog = "procmon" /\ watched /\ fds < FdMax
  /\ fds' = fds + 1

Change(part) == used[part] - lastUsed[part]
Clamped(x) == IF x < 0 THEN 0 ELSE x

\* Mutant: the changes are not kept from falling below zero.
TickSigned ==
  /\ ReadStat
  /\ lastUsed' = used /\ sampled' = TRUE
  /\ printed' = IF sampled THEN Change("utime") + Change("stime") ELSE printed
  /\ UNCHANGED <<prog, reading, watched, used>>

\* tick(): the first one prints what the figures were initialized with; the
\* later ones take a negative change of either time for none, as another process
\* may have the pid.
Tick ==
  /\ ReadStat
  /\ lastUsed' = used /\ sampled' = TRUE
  /\ printed' = IF sampled
                THEN Clamped(Change("utime")) + Clamped(Change("stime"))
                ELSE printed
  /\ UNCHANGED <<prog, reading, watched, used>>

\* The file was empty: zero is printed.
TickEmpty ==
  /\ ReadStat
  /\ printed' = 0
  /\ UNCHANGED <<prog, reading, watched, used, lastUsed, sampled>>

\* open() fails: exit(1).
OpenFails ==
  /\ prog = "procmon" /\ (~watched \/ fds = FdMax)
  /\ prog' = "ended"
  /\ UNCHANGED <<fds, reading, watched, used, procmonCcVars>>

\* readProcFile of promon_all.cc, for each of the four files of a tick.
OpenFile ==
  /\ prog = "promon_all" /\ ~reading /\ fds < FdMax
  /\ fds' = fds + 1 /\ reading' = TRUE
  /\ UNCHANGED <<prog, watched, used, procmonCcVars>>

CloseFile ==
  /\ prog = "promon_all" /\ reading
  /\ reading' = FALSE /\ fds' = fds - 1
  /\ UNCHANGED <<prog, watched, used, procmonCcVars>>

ProcmonStep == Tick \/ TickEmpty \/ OpenFails

MonitorsNext ==
  \/ StartMonitor \/ Work \/ ProcessEnds \/ PidReused
  \/ ProcmonStep \/ OpenFile \/ CloseFile

MonitorsSpec == MonitorsInit /\ [][MonitorsNext]_monitorsVars

\* Both programs tick every three seconds.
MonitorsFairness ==
  WF_monitorsVars(ProcmonStep) /\ WF_monitorsVars(OpenFile \/ CloseFile)
-----------------------------------------------------------------------------
\* promon_all runs as long as it is left to: it never holds more than the one
\* file it reads, so that it is never short of descriptors.
AllKeepsGoing == prog = "promon_all" => fds = IF reading THEN 4 ELSE 3

\* procmon ends of itself, even if the process it watches does not: each tick
\* leaves a descriptor open, and one day open() fails.
ProcmonEnds == prog = "procmon" ~> prog = "ended"
=============================================================================
