---------------------------- MODULE MCMonitoring ----------------------------
(* What is to be seen of a process from outside: the liveness and the      *)
(* heartbeat of an instance, and the diagnostics endpoints.  They share no *)
(* variable, so a behaviour follows one of them and the others stand by.   *)
(* A second is 2 units, the interval 3, and there are 20 durations, so     *)
(* that graces from 5 on do not fit.                                       *)
EXTENDS Diagnostics, Liveness, Heartbeat, TLC

CONSTANTS c1, c2, v1, v2, u1, u2

MCConfigs == {[UUID |-> v, Version |-> v] : v \in {v1, v2}}

MCDiagnosticsConfigs == {c \in Config: c.gops = c.pprof}
MCEnvironments == [pprof: BOOLEAN, gops: {FALSE}, jaeger: BOOLEAN]

NothingOn == [pprof |-> FALSE, gops |-> FALSE, jaeger |-> FALSE]

VARIABLE watched

MonitoringInit ==
    /\ watched \in {"liveness", "heartbeat", "diagnostics"}
    /\ LivenessInit /\ HeartbeatInit /\ Init
    /\ watched # "diagnostics" => env = NothingOn /\ last = NothingOn

MonitoringNext ==
    \/ watched = "liveness" /\ LivenessNext /\ UNCHANGED <<heartbeatVars, vars>>
    \/ watched = "heartbeat" /\ HeartbeatNext /\ UNCHANGED <<livenessVars, vars>>
    \/ watched = "diagnostics" /\ Next /\ UNCHANGED <<livenessVars, heartbeatVars>>

MonitoringSpec ==
    /\ MonitoringInit
    /\ [][MonitoringNext /\ UNCHANGED watched]_<<watched, livenessVars, heartbeatVars, vars>>

Alike == Permutations({c1, c2}) \cup Permutations({v1, v2}) \cup Permutations({u1, u2})
=============================================================================
