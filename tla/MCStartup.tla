----------------------------- MODULE MCStartup ------------------------------
(***************************************************************************)
(* Values of the constants of Startup for model checking.                  *)
(***************************************************************************)
EXTENDS Startup

CONSTANTS s1, s2, s3, h1, h2

MCInstances == {s1, s2, s3}

\* Two servers share a host, the third has one of its own.
MCHosts == [s \in MCInstances |-> IF s = s3 THEN h2 ELSE h1]
=============================================================================
