-------------------------------- MODULE Load --------------------------------
(***************************************************************************)
(* How algorithm_distributor.cc turns the usage figures of a server into   *)
(* the weight with which requests are sent to it.                          *)
(*                                                                         *)
(* Usage figures are percentages.  The code computes in double; here a     *)
(* percentage is an integer and a weight is counted in tenths, so that the *)
(* coefficients 0.6, 0.3 and 0.1 become 6, 3 and 1.                        *)
(***************************************************************************)
EXTENDS Integers

\* One answer of a server's monitoring thread: cpu, memory and io, in percent.
Usage == [cpu : Int, memory : Int, io : Int]

\* What Procmon reports before it has ticked twice: all three figures are 0.0.
NoUsage == [cpu |-> 0, memory |-> 0, io |-> 0]

\* The limit above which a server is given no request at all.
Limit == 95

\* Mutant: the disks do not count.
OverloadedButIo(u) == u.cpu >= Limit \/ u.memory >= Limit

Overloaded(u) == u.cpu >= Limit \/ u.memory >= Limit \/ u.io >= Limit

\* p[i] as mainThreadFunc computes it, in tenths.
Weight(u) ==
  IF Overloaded(u)
  THEN 0
  ELSE 6 * (100 - u.cpu) + 3 * (100 - u.memory) + (100 - u.io)

\* The initial value of each p[i], in tenths: 100.0 / SERVERS_NUM.
EvenWeight(n) == 1000 \div n

\* Every weight is zero: the standard leaves discrete_distribution undefined.
AllZero(w) == \A i \in DOMAIN w : w[i] = 0

(***************************************************************************)
(* The indices d(e) may return when d was built from the weights w.  An    *)
(* index of weight zero has probability zero.  When all weights are zero   *)
(* the precondition of discrete_distribution is broken; the library        *)
(* divides 0 by 0, and which index comes out depends on its search.        *)
(***************************************************************************)
Drawable(w) == IF AllZero(w) THEN DOMAIN w ELSE {i \in DOMAIN w : w[i] > 0}
=============================================================================
