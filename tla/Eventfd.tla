------------------------------- MODULE Eventfd -------------------------------
(***************************************************************************)
(* The experiment of epollexclusive_exp.cc: the threads of a process wait  *)
(* for one eventfd, each with an epoll descriptor of its own on which it   *)
(* is registered as EPOLLIN | EPOLLEXCLUSIVE, while main() writes 0, 1, 2  *)
(* and so on to it.                                                        *)
(*                                                                         *)
(* EPOLLEXCLUSIVE changes whom a write wakes.  The kernel walks the        *)
(* registered threads and marks the eventfd ready for each, up to the      *)
(* first one that sleeps in epoll_wait, which it wakes.  A thread looks at *)
(* the eventfd when it is marked, not otherwise.                           *)
(***************************************************************************)
EXTENDS Integers

CONSTANTS
  Threads,     \* the threads (10 in the code)
  FirstValue,  \* what the eventfd is created with (10)
  Writes       \* how many values main() writes (1000)

ASSUME EventfdAssumption ==
  /\ Threads # {}
  /\ FirstValue \in Nat
  /\ Writes \in Nat

VARIABLES
  running,  \* main() has been called and has not returned
  counter,  \* the value of the eventfd
  value,    \* the value main() writes next
  epc,      \* epc[t]: where thread t is
  marked,   \* the threads for which the eventfd is on the list of ready events
  taken     \* history: the sum of the values the threads have read

eventfdVars == <<running, counter, value, epc, marked, taken>>

EventfdTypeOK ==
  /\ running \in BOOLEAN
  /\ counter \in Nat
  /\ value \in 0 .. Writes
  /\ epc \in [Threads -> {"none", "add", "wait", "read", "done"}]
  /\ marked \subseteq {t \in Threads : epc[t] \in {"wait", "read", "done"}}
  /\ taken \in Nat

EventfdInit ==
  /\ running = FALSE
  /\ counter = 0
  /\ value = 0
  /\ epc = [t \in Threads |-> "none"]
  /\ marked = {}
  /\ taken = 0

Goto(t, pc) == epc' = [epc EXCEPT ![t] = pc]

\* eventfd(10, EFD_NONBLOCK), and the threads are created and detached.
CreateEventfd ==
  /\ ~running /\ \A t \in Threads : epc[t] = "none"
  /\ running' = TRUE
  /\ counter' = FirstValue
  /\ epc' = [t \in Threads |-> "add"]
  /\ UNCHANGED <<value, marked, taken>>

\* EPOLL_CTL_ADD looks at the eventfd once.
AddEventfd(t) ==
  /\ running /\ epc[t] = "add"
  /\ Goto(t, "wait")
  /\ marked' = IF counter > 0 THEN marked \cup {t} ELSE marked
  /\ UNCHANGED <<running, counter, value, taken>>

\* epoll_wait finds the eventfd readable and returns it.  The mark stays, as
\* the registration is level-triggered.
WaitReturns(t) ==
  /\ running /\ epc[t] = "wait" /\ t \in marked
  /\ counter > 0
  /\ Goto(t, "read")
  /\ UNCHANGED <<running, counter, value, marked, taken>>

\* Another thread was faster: epoll_wait clears the mark and goes on waiting.
WaitOn(t) ==
  /\ running /\ epc[t] = "wait" /\ t \in marked
  /\ counter = 0
  /\ marked' = marked \ {t}
  /\ UNCHANGED <<running, counter, value, epc, taken>>

\* read() takes the whole value, and the thread reads again.
ReadValue(t) ==
  /\ running /\ epc[t] = "read"
  /\ counter > 0
  /\ counter' = 0
  /\ taken' = taken + counter
  /\ UNCHANGED <<running, value, epc, marked>>

\* Mutant: the -1 of the last read() ends the thread and not only the loop.
ReadEmptyEnds(t) ==
  /\ running /\ epc[t] = "read"
  /\ counter = 0
  /\ Goto(t, "done")
  /\ UNCHANGED <<running, counter, value, marked, taken>>

\* read() returns -1, and the thread waits again.
ReadEmpty(t) ==
  /\ running /\ epc[t] = "read"
  /\ counter = 0
  /\ Goto(t, "wait")
  /\ UNCHANGED <<running, counter, value, marked, taken>>

\* Whom the kernel marks when the eventfd is written.
Mark ==
  LET registered == {t \in Threads : epc[t] \in {"wait", "read"}}
      asleep == {t \in registered : epc[t] = "wait" /\ t \notin marked}
      awake == registered \ asleep
  IN  IF asleep = {}
      THEN marked' = marked \cup registered
      ELSE \E t \in asleep, walked \in SUBSET awake :
             marked' = marked \cup walked \cup {t}

\* Mutant: the loop counter is advanced before it is written.
WriteNext ==
  /\ running /\ value < Writes
  /\ counter' = counter + value + 1
  /\ value' = value + 1
  /\ Mark
  /\ UNCHANGED <<running, epc, taken>>

\* main() writes value.
Write ==
  /\ running /\ value < Writes
  /\ counter' = counter + value
  /\ value' = value + 1
  /\ Mark
  /\ UNCHANGED <<running, epc, taken>>

\* A key is pressed: getchar() and then main() return, which ends all threads.
KeyPressed ==
  /\ running /\ value = Writes
  /\ running' = FALSE
  /\ UNCHANGED <<counter, value, epc, marked, taken>>

Thread(t) ==
  AddEventfd(t) \/ WaitReturns(t) \/ WaitOn(t) \/ ReadValue(t) \/ ReadEmpty(t)

EventfdNext ==
  \/ CreateEventfd
  \/ Write
  \/ KeyPressed
  \/ \E t \in Threads : Thread(t)

EventfdSpec == EventfdInit /\ [][EventfdNext]_eventfdVars

\* The threads are scheduled, and usleep() returns.
EventfdFairness ==
  /\ WF_eventfdVars(Write)
  /\ \A t \in Threads : WF_eventfdVars(Thread(t))
-----------------------------------------------------------------------------
\* A value is never left to threads that all sleep: one of them reads, or will
\* look at the eventfd before it sleeps again.
NoLostWakeup ==
  running /\ counter > 0 =>
    \E t \in Threads : \/ epc[t] \in {"add", "read"}
                       \/ epc[t] = "wait" /\ t \in marked

\* Every value reaches one thread, once: what is read and what is left add up
\* to the first value and the values written.
EveryValueOnce ==
  epc # [t \in Threads |-> "none"] =>
    2 * (taken + counter) = 2 * FirstValue + value * (value - 1)

\* Every value is read in time, unless main() returns first.
Drained == running /\ counter > 0 ~> counter = 0 \/ ~running
=============================================================================
