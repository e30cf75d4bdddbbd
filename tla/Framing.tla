------------------------------- MODULE Framing -------------------------------
(***************************************************************************)
(* What LoadBalancer leaves out: the connection of a client is a stream of *)
(* bytes.  The requests of one client are followed to the dispatcher       *)
(* (algorithm_distributor.cc).  TCP may hand over a part of what was       *)
(* written, and the dispatcher takes what one read() returns for a         *)
(* request.                                                                *)
(*                                                                         *)
(* Only lengths are kept: a position is the number of bytes before it, and *)
(* a request is told by the position of its first byte.                    *)
(***************************************************************************)
EXTENDS Naturals, Sequences

CONSTANTS
  reqLen,   \* length of a client's request (normalLen, 16)
  MaxReqs   \* bound: requests the client sends

ASSUME FramingAssumption ==
  /\ reqLen \in Nat \ {0}
  /\ MaxReqs \in Nat

VARIABLES
  sentTo,     \* bytes the client has written
  arrived,    \* those that have reached the dispatcher's host
  readOf,     \* those the dispatcher has read
  passed,     \* the positions of the requests it has passed to a server
  errs,       \* the times it has written err_res to the client
  connected   \* the client has connected

framingVars == <<sentTo, arrived, readOf, passed, errs, connected>>

FramingTypeOK ==
  /\ sentTo \in Nat /\ arrived \in 0 .. sentTo /\ readOf \in 0 .. arrived
  /\ passed \in Seq(Nat)
  /\ errs \in Nat
  /\ connected \in BOOLEAN

FramingInit ==
  /\ sentTo = 0 /\ arrived = 0 /\ readOf = 0
  /\ passed = <<>> /\ errs = 0
  /\ connected = FALSE

ConnectClient ==
  /\ ~connected
  /\ connected' = TRUE
  /\ UNCHANGED <<sentTo, arrived, readOf, passed, errs>>

SendRequest ==
  /\ connected /\ sentTo < MaxReqs * reqLen
  /\ sentTo' = sentTo + reqLen
  /\ UNCHANGED <<arrived, readOf, passed, errs, connected>>

\* TCP delivers any part of what is under way.
Deliver ==
  /\ \E upTo \in arrived + 1 .. sentTo : arrived' = upTo
  /\ UNCHANGED <<sentTo, readOf, passed, errs, connected>>

\* A full read is passed on to a server, from wherever in the stream it is.
DispatchFull ==
  /\ arrived - readOf >= reqLen
  /\ readOf' = readOf + reqLen
  /\ passed' = Append(passed, readOf)
  /\ UNCHANGED <<sentTo, arrived, errs, connected>>

\* Mutant: a short read gets no answer.
DispatchPartSilently ==
  /\ arrived > readOf /\ arrived - readOf < reqLen
  /\ readOf' = arrived
  /\ UNCHANGED <<sentTo, arrived, passed, errs, connected>>

\* Anything shorter is thrown away, and err_res is written.  Nobody looks at
\* what the write returns: whether the client gets err_res is not known here.
DispatchPart ==
  /\ arrived > readOf /\ arrived - readOf < reqLen
  /\ readOf' = arrived
  /\ errs' = errs + 1
  /\ UNCHANGED <<sentTo, arrived, passed, connected>>

FramingNext ==
  \/ ConnectClient \/ SendRequest \/ Deliver
  \/ DispatchFull \/ DispatchPart

FramingSpec == FramingInit /\ [][FramingNext]_framingVars
-----------------------------------------------------------------------------
\* For a client whose requests are passed on in the wrong place err_res has been
\* written first, if not received: a short read is the one way off the
\* boundaries of the requests, and no short read goes unanswered.
ShiftIsReported ==
  (\E j \in DOMAIN passed : passed[j] % reqLen # 0) => errs > 0
=============================================================================
