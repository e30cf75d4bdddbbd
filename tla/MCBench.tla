------------------------------ MODULE MCBench -------------------------------
(***************************************************************************)
(* Values of the constants of Bench for model checking.                    *)
(***************************************************************************)
EXTENDS Bench

\* An answer that the test accepts.
MCGood == [i \in 0 .. 15 |-> "a"]

\* And one it takes for wrong: the answer the distributors call correct.
MCGoodOrBad == {MCGood, correct_res}
MCGoodOnly == {MCGood}

MCAll == 1 .. clients
=============================================================================
