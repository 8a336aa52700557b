------------------------------ MODULE MCLoggers ------------------------------
(***************************************************************************)
(* Instances of Loggers for TLC.                                           *)
(***************************************************************************)
EXTENDS Loggers, TLC

CONSTANTS c1, c2, u, root, sentry, l1, l2

MCLevel == {"debug", "info"}

MCLastPart == [n \in {"a", "sentry", ""} |-> n]
MCUpdates == {"a" :> "debug"}

Ids == Permutations({l1, l2}) \cup Permutations({c1, c2})
=============================================================================
