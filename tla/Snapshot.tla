------------------------------ MODULE Snapshot ------------------------------
(***************************************************************************)
(* What getStat() of an inner server promises, whatever its figures are    *)
(* made of and however many steps it takes to store and to copy them: an   *)
(* answer is the whole of what one tick has left, the latest one at some   *)
(* moment between the call and its return.                                 *)
(***************************************************************************)
CONSTANTS
  Later,    \* pairs of figures: the second may follow the first
  AtFirst,  \* the figures before any tick has compared two samples
  Nothing   \* no answer: a call has not returned

VARIABLES
  ticked,  \* a tick has a sample to compare with
  stat,    \* the figures
  answer   \* what the last call of getStat() has returned

snapshotVars == <<ticked, stat, answer>>

Init == ticked = FALSE /\ stat = AtFirst /\ answer = Nothing

Tick ==
  /\ IF ticked THEN <<stat, stat'>> \in Later ELSE UNCHANGED stat
  /\ ticked' = TRUE
  /\ UNCHANGED answer

Call ==
  /\ answer' = Nothing
  /\ UNCHANGED <<ticked, stat>>

Return ==
  /\ answer = Nothing
  /\ answer' = stat
  /\ UNCHANGED <<ticked, stat>>

Next == Tick \/ Call \/ Return

Spec == Init /\ [][Next]_snapshotVars
=============================================================================
