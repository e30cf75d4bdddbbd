--------------------------- MODULE MCLoadBalancer ---------------------------
(***************************************************************************)
(* Values of the constants of LoadBalancer for model checking.             *)
(***************************************************************************)
EXTENDS LoadBalancer, TLC

MCLight == [cpu |-> 30, memory |-> 40, io |-> 0]
MCHot == [cpu |-> 20, memory |-> 95, io |-> 10]

MCUsages == {MCLight, MCHot}
MCHotOnly == {MCHot}
MCIdleOnly == {NoUsage}

MCSymmetry == Permutations(Conns)
=============================================================================
