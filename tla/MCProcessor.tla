---------------------------- MODULE MCProcessor ----------------------------
(* Two instances created, wired, run and stopped in every possible way.    *)
EXTENDS Processor, TLC

CONSTANTS p1, p2, e1, e2, q1

\* A processor with work, a service that only serves and that Run rejects,
\* and a service with work of its own, whose second pop panics.
MCParams ==
    { [kind |-> "processor", interval |-> 1, sendEvents |-> <<e1, e2>>, sendQueries |-> <<q1>>],
      [kind |-> "service",   interval |-> 0, sendEvents |-> <<>>, sendQueries |-> <<>>],
      [kind |-> "service",   interval |-> 1, sendEvents |-> <<e2, e2, e1>>, sendQueries |-> <<q1, q1>>] }

MCSymmetry == Permutations(Instance)
=============================================================================
