------------------------------- MODULE MCTools -------------------------------
(***************************************************************************)
(* The sets that the run of Tools uses.                                    *)
(***************************************************************************)
EXTENDS Tools

CONSTANTS t1, t2, t3, w1, w2, c1, c2

MCThreads == {t1, t2, t3}
MCWorkers == {w1, w2}
MCClients == {c1, c2}

(***************************************************************************)
(* The packets: one, two and three messages that fill the payload; one cut *)
(* in its header and one in its body; lengths whose low byte has the high  *)
(* bit set, among them 248; TCP options; Ethernet padding; no payload; a   *)
(* packet of the host itself, and one to another port.                     *)
(***************************************************************************)
Msg(at, len) == [at |-> at, len |-> len]
Payload(n, msgs, fill) ==
  [own |-> FALSE, ours |-> TRUE, someip_len |-> n, n |-> n,
   msgs |-> msgs, fill |-> fill]

MCPackets ==
  {Payload(8, <<Msg(0, 0)>>, 0),
   Payload(20, <<Msg(0, 0), Msg(8, 4)>>, 0),
   Payload(29, <<Msg(0, 2), Msg(10, 0), Msg(18, 3)>>, 1),
   Payload(14, <<Msg(0, 0), Msg(8, 2)>>, 0),
   Payload(18, <<Msg(0, 2), Msg(10, 4)>>, 0),
   Payload(20, <<Msg(0, 2), Msg(10, 248)>>, 0),
   Payload(20, <<Msg(0, 250)>>, 0),
   Payload(20, <<Msg(0, 260), Msg(12, 0)>>, 255),
   Payload(20, <<Msg(4, 8)>>, 1),
   [Payload(20, <<Msg(0, 0), Msg(8, 0)>>, 0) EXCEPT !.someip_len = 16],
   [Payload(6, <<>>, 0) EXCEPT !.someip_len = 0],
   [Payload(8, <<Msg(0, 0)>>, 0) EXCEPT !.own = TRUE],
   [Payload(8, <<Msg(0, 0)>>, 0) EXCEPT !.ours = FALSE]}

\* A step in which eleven disks are busy for its whole length, and the last of
\* them is also flushed; their partitions do not count.
MCDiskstats ==
  [j \in 1 .. 12 |-> [whole |-> j > 1, busy |-> 1, flush |-> 1]]

\* An idle step; one in which two processors of three work and one third of
\* the memory is used; one in which only the disks are busy, or after which most
\* of them are gone.
MCLoads ==
  {[work |-> 0, io |-> 0, lost |-> 0, mem |-> 0],
   [work |-> 2, io |-> 0, lost |-> 0, mem |-> 1],
   [work |-> 0, io |-> DiskTime(MCDiskstats), lost |-> 0, mem |-> 1],
   [work |-> 0, io |-> 1, lost |-> 10, mem |-> 1]}
=============================================================================
