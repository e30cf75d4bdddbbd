------------------------------- MODULE Relay --------------------------------
(***************************************************************************)
(* What the data path promises, whatever threads and queues it is made of. *)
(* A request taken from a client is given to one server, or lost when its  *)
(* server is gone.  The requests of a server keep the order in which they  *)
(* were given to it, from the connection through its worker to the echoes. *)
(* None is lost before the process that holds it, or the one it goes to,   *)
(* has ended, and none leaves: no echo is ever read.                       *)
(***************************************************************************)
EXTENDS Naturals, Sequences, SequencesExt

CONSTANTS
  Servers,
  Requests,  \* what may be relayed
  Nothing    \* in the hands of a distributor that has no request

VARIABLES
  distUp,   \* the distributor runs
  innerUp,  \* innerUp[s]: server s runs
  held,     \* the request the distributor holds
  pipe      \* pipe[s]: the requests given to s, the oldest first

relayVars == <<distUp, innerUp, held, pipe>>

Init ==
  /\ distUp = TRUE
  /\ innerUp = [s \in Servers |-> TRUE]
  /\ held = Nothing
  /\ pipe = [s \in Servers |-> <<>>]

Take ==
  /\ distUp /\ held = Nothing
  /\ held' \in Requests
  /\ UNCHANGED <<distUp, innerUp, pipe>>

Give(s) ==
  /\ distUp /\ held # Nothing
  /\ innerUp[s]
  /\ pipe' = [pipe EXCEPT ![s] = Append(@, held)]
  /\ held' = Nothing
  /\ UNCHANGED <<distUp, innerUp>>

\* The server the request was meant for is gone.
Lose(s) ==
  /\ distUp /\ held # Nothing
  /\ ~innerUp[s]
  /\ held' = Nothing
  /\ UNCHANGED <<distUp, innerUp, pipe>>

\* A server ends, and with it the requests it has not read, the last ones.
ServerEnds(s) ==
  /\ innerUp[s]
  /\ innerUp' = [innerUp EXCEPT ![s] = FALSE]
  /\ \E k \in 0 .. Len(pipe[s]) :
       pipe' = [pipe EXCEPT ![s] = SubSeq(@, 1, k)]
  /\ UNCHANGED <<distUp, held>>

\* An echo is written to a distributor that is gone.
EchoLost(s) ==
  /\ ~distUp
  /\ innerUp[s]
  /\ \E k \in DOMAIN pipe[s] : pipe' = [pipe EXCEPT ![s] = RemoveAt(@, k)]
  /\ UNCHANGED <<distUp, innerUp, held>>

DistributorEnds ==
  /\ distUp = TRUE
  /\ distUp' = FALSE
  /\ UNCHANGED <<innerUp, held, pipe>>

Next ==
  \/ Take
  \/ \E s \in Servers : Give(s) \/ Lose(s) \/ ServerEnds(s) \/ EchoLost(s)
  \/ DistributorEnds

Spec == Init /\ [][Next]_relayVars
=============================================================================
