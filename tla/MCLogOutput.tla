----------------------------- MODULE MCLogOutput -----------------------------
(* An instance of LogOutput for TLC.                                       *)
EXTENDS LogOutput

CONSTANTS s1, w1

MCFirst == [file: BOOLEAN, stdout: {FALSE}]
MCUpdates == {[file |-> TRUE, stdout |-> TRUE], [file |-> FALSE, stdout |-> FALSE]}
=============================================================================
