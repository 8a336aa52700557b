----------------------------- MODULE Diagnostics -----------------------------
(***************************************************************************)
(* pkg/agent_libraries/diagnostics: the pprof server, the gops agent and   *)
(* the Jaeger tracer of an agent, switched by configuration updates under  *)
(* configLock, and closed by main's deferred Close, which takes no lock.   *)
(*                                                                         *)
(* The steps of an update and of Close are cut at every read and write of  *)
(* the fields both of them use.                                            *)
(***************************************************************************)
EXTENDS Naturals

CONSTANTS
    Updater,        \* goroutines that call UpdateConfig
    Configs,        \* their RuntimeDiagnosticsConfigs: what is enabled
    Environments,   \* what the ALCIDE_RUNTIME environment variables enable
    TracerFails,    \* outcomes of jaeger's NewTracer: may it fail?
    MaxTracers      \* bound: tracers made

Closer == "closer"
Actor == Updater \cup {Closer}

Config == [pprof: BOOLEAN, gops: BOOLEAN, jaeger: BOOLEAN]

ASSUME ConfigAssumption ==
    /\ Configs \subseteq Config /\ Environments \subseteq Config
    /\ TracerFails \subseteq BOOLEAN /\ MaxTracers \in Nat \ {0}
    /\ Closer \notin Updater /\ "none" \notin Updater

VARIABLES
    env,            \* the environment variables
    pprofServer,    \* its server: "nil", "made", "serves" or "shut"
    gops,           \* is the gops agent listening?
    isGopsEnabled,
    jaegerCloser,   \* the tracer it would close, 0 for nil
    tracer,         \* the global tracer, 0 for nil
    made,           \* tracers made so far
    shut,           \* tracers whose closer was closed
    configLock,     \* the updater that holds it, or "none"
    conf,           \* the update of each updater
    pc,             \* of each actor
    last, applied,  \* ghosts: the last configuration, and is it an update's?
    failed,         \* ghost: did the last NewTracer fail?
    crashed         \* a nil closer was called

fields == <<pprofServer, gops, isGopsEnabled>>
jaeger == <<jaegerCloser, tracer, made, shut, failed>>
calls == <<configLock, conf, pc>>
ghosts == <<last, applied>>
vars == <<env, fields, jaeger, calls, ghosts, crashed>>

-----------------------------------------------------------------------------
(* isChangeInConfig: existing is compared as an interface, so that a nil   *)
(* pointer and a bool are both not nil.                                    *)
isChangeInConfig(existingIsNil, toEnable) ==
    IF existingIsNil = toEnable
    THEN IF toEnable THEN "enable" ELSE "disable" ELSE "unchanging"

(* Mutant: a nil closer is stored in a field of pointer type, so that it   *)
(* is not nil as an interface either.                                      *)
NeverNil == FALSE

PprofIsNil == FALSE
GopsIsNil == FALSE
JaegerIsNil == jaegerCloser = 0

(* initCPUProfiler: the server is kept, and a goroutine is to serve it.    *)
initCPUProfiler(c) == IF env.pprof \/ c.pprof THEN "made" ELSE pprofServer

(* Mutant: only a server that serves is closed.                            *)
closeServingPprof == IF pprofServer = "serves" THEN "shut" ELSE pprofServer

(* safeClosePprof: a server closed before it serves will never serve; the  *)
(* field keeps it.                                                         *)
safeClosePprof == IF pprofServer = "nil" THEN "nil" ELSE "shut"

(* initJaegerCollector: when NewTracer fails, its nil results are used all *)
(* the same.                                                               *)
initJaegerCollector(c) ==
    IF env.jaeger \/ c.jaeger
    THEN \E fails \in TracerFails:
           /\ made < MaxTracers
           /\ made' = IF fails THEN made ELSE made + 1
           /\ jaegerCloser' = IF fails THEN 0 ELSE made'
           /\ tracer' = jaegerCloser'
           /\ failed' = fails
           /\ UNCHANGED shut
    ELSE UNCHANGED jaeger

(* gops.Listen may fail, and then isGopsEnabled is set.                    *)
initRuntimeGopsDiagnosticsFromEnv(c) ==
    /\ gops \in {FALSE, env.gops \/ c.gops}
    /\ isGopsEnabled = ((env.gops \/ c.gops) /\ ~ gops)

(* NewRuntimeDiagnostics.                                                  *)
Init ==
    /\ env \in Environments
    /\ last \in Configs /\ applied = FALSE
    /\ pprofServer = IF env.pprof \/ last.pprof THEN "made" ELSE "nil"
    /\ initRuntimeGopsDiagnosticsFromEnv(last)
    /\ failed \in IF env.jaeger \/ last.jaeger THEN TracerFails ELSE {FALSE}
    /\ jaegerCloser = IF (env.jaeger \/ last.jaeger) /\ ~ failed THEN 1 ELSE 0
    /\ tracer = jaegerCloser /\ made = jaegerCloser
    /\ shut = {}
    /\ configLock = "none"
    /\ conf = [u \in Updater |-> last]
    /\ pc = [a \in Actor |-> "idle"]
    /\ crashed = FALSE

Goto(a, place) == pc' = [pc EXCEPT ![a] = place]

(* The goroutine of initCPUProfiler, once the server is made.              *)
Serve ==
    /\ pprofServer = "made"
    /\ pprofServer' = "serves"
    /\ UNCHANGED <<env, gops, isGopsEnabled, jaeger, calls, ghosts, crashed>>

-----------------------------------------------------------------------------
UpdateConfig(u, c) ==
    /\ pc[u] = "idle"
    /\ conf' = [conf EXCEPT ![u] = c]
    /\ Goto(u, "lock")
    /\ UNCHANGED <<env, fields, jaeger, configLock, ghosts, crashed>>

(* Mutant: updates do not wait for each other.                             *)
LockAtOnce(u) ==
    /\ pc[u] = "lock"
    /\ configLock' = u
    /\ Goto(u, "pprof")
    /\ UNCHANGED <<env, fields, jaeger, conf, ghosts, crashed>>

Lock(u) ==
    /\ pc[u] = "lock" /\ configLock = "none"
    /\ configLock' = u
    /\ Goto(u, "pprof")
    /\ UNCHANGED <<env, fields, jaeger, conf, ghosts, crashed>>

UpdatePprof(u) ==
    LET change == isChangeInConfig(PprofIsNil, conf[u].pprof)
    IN  /\ pc[u] = "pprof"
        /\ pprofServer' = CASE change = "enable" -> initCPUProfiler(conf[u])
                            [] change = "disable" -> safeClosePprof
                            [] OTHER -> pprofServer
        /\ Goto(u, "gops")
        /\ UNCHANGED <<env, gops, isGopsEnabled, jaeger, configLock, conf, ghosts,
                       crashed>>

UpdateGops(u) ==
    LET change == isChangeInConfig(GopsIsNil, conf[u].gops)
    IN  /\ pc[u] = "gops"
        /\ gops' = CASE change = "enable" -> TRUE
                     [] change = "disable" -> FALSE
                     [] OTHER -> gops
        /\ isGopsEnabled' = IF change = "unchanging" THEN isGopsEnabled ELSE FALSE
        /\ Goto(u, "jaeger")
        /\ UNCHANGED <<env, pprofServer, jaeger, configLock, conf, ghosts, crashed>>

UpdateJaeger(u) ==
    LET change == isChangeInConfig(JaegerIsNil, conf[u].jaeger)
    IN  /\ pc[u] = "jaeger"
        /\ Goto(u, CASE change = "enable" -> "init"
                     [] change = "disable" -> "check"
                     [] OTHER -> "unlock")
        /\ UNCHANGED <<env, fields, jaeger, configLock, conf, ghosts, crashed>>

(* Enabling closes first, of which nothing is left to do when the closer   *)
(* was found to be nil.                                                    *)
InitJaeger(u) ==
    /\ pc[u] = "init"
    /\ initJaegerCollector(conf[u])
    /\ Goto(u, "unlock")
    /\ UNCHANGED <<env, fields, configLock, conf, ghosts, crashed>>

Unlock(u) ==
    /\ pc[u] = "unlock"
    /\ last' = conf[u] /\ applied' = TRUE
    /\ configLock' = "none"
    /\ Goto(u, "idle")
    /\ UNCHANGED <<env, fields, jaeger, conf, crashed>>

(* safeCloseJaeger, for an update and for Close: the field is read twice.  *)
AfterJaeger(a) == IF a = Closer THEN "closeGops" ELSE "unlock"

CheckCloser(a) ==
    /\ pc[a] = "check"
    /\ \/ /\ jaegerCloser = 0
          /\ Goto(a, AfterJaeger(a))
          /\ UNCHANGED tracer
       \/ /\ jaegerCloser # 0
          /\ tracer' = 0
          /\ Goto(a, "close")
    /\ UNCHANGED <<env, fields, jaegerCloser, made, shut, failed, configLock, conf, ghosts,
                   crashed>>

CallCloser(a) ==
    /\ pc[a] = "close"
    /\ \/ /\ jaegerCloser = 0
          /\ crashed' = TRUE
          /\ UNCHANGED <<shut, pc>>
       \/ /\ jaegerCloser # 0
          /\ shut' = shut \cup {jaegerCloser}
          /\ Goto(a, "forget")
          /\ UNCHANGED crashed
    /\ UNCHANGED <<env, fields, jaegerCloser, tracer, made, failed, configLock, conf,
                   ghosts>>

(* Mutant: the closer stays in its field.                                  *)
KeepCloser(a) ==
    /\ pc[a] = "forget"
    /\ Goto(a, AfterJaeger(a))
    /\ UNCHANGED <<env, fields, jaeger, configLock, conf, ghosts, crashed>>

ForgetCloser(a) ==
    /\ pc[a] = "forget"
    /\ jaegerCloser' = 0
    /\ Goto(a, AfterJaeger(a))
    /\ UNCHANGED <<env, fields, tracer, made, shut, failed, configLock, conf, ghosts,
                   crashed>>

-----------------------------------------------------------------------------
(* Close, once, at any time. *)
StartClose ==
    /\ pc[Closer] = "idle"
    /\ Goto(Closer, "check")
    /\ UNCHANGED <<env, fields, jaeger, configLock, conf, ghosts, crashed>>

CloseGops ==
    /\ pc[Closer] = "closeGops"
    /\ gops' = FALSE /\ isGopsEnabled' = FALSE
    /\ Goto(Closer, "closePprof")
    /\ UNCHANGED <<env, pprofServer, jaeger, configLock, conf, ghosts, crashed>>

ClosePprof ==
    /\ pc[Closer] = "closePprof"
    /\ pprofServer' = safeClosePprof
    /\ Goto(Closer, "done")
    /\ UNCHANGED <<env, gops, isGopsEnabled, jaeger, configLock, conf, ghosts,
                   crashed>>

CloseJaeger(a) == CheckCloser(a) \/ CallCloser(a) \/ ForgetCloser(a)
UpdateStep(u) ==
    \/ Lock(u) \/ UpdatePprof(u) \/ UpdateGops(u) \/ UpdateJaeger(u)
    \/ InitJaeger(u) \/ CloseJaeger(u) \/ Unlock(u)
CloseStep == CloseJaeger(Closer) \/ CloseGops \/ ClosePprof

Next ==
    /\ ~ crashed
    /\ \/ \E u \in Updater, c \in Configs: UpdateConfig(u, c)
       \/ \E u \in Updater: UpdateStep(u)
       \/ Serve \/ StartClose \/ CloseStep

Spec == Init /\ [][Next]_vars

-----------------------------------------------------------------------------
Place == {"idle", "lock", "pprof", "gops", "jaeger", "init", "check", "close",
          "forget", "unlock", "closeGops", "closePprof", "done"}

TypeOK ==
    /\ env \in Config /\ last \in Config
    /\ pprofServer \in {"nil", "made", "serves", "shut"}
    /\ gops \in BOOLEAN /\ isGopsEnabled \in BOOLEAN
    /\ jaegerCloser \in 0..MaxTracers /\ tracer \in 0..MaxTracers
    /\ made \in 0..MaxTracers
    /\ shut \subseteq 1..MaxTracers
    /\ configLock \in Updater \cup {"none"}
    /\ conf \in [Updater -> Config]
    /\ pc \in [Actor -> Place]
    /\ applied \in BOOLEAN /\ failed \in BOOLEAN /\ crashed \in BOOLEAN

Settled == pc[Closer] = "idle" /\ configLock = "none"

(* Updates from several goroutines: between two of them the global tracer  *)
(* is the one that would be closed, and has not been closed already.       *)
TracerHasCloser == Settled => tracer = jaegerCloser /\ tracer \notin shut

(* It is there when the last update asked for it, unless the last          *)
(* NewTracer failed, and not when it did not.                              *)
JaegerFollowsUpdates ==
    Settled /\ applied =>
        /\ tracer # 0 => last.jaeger
        /\ last.jaeger /\ ~ failed => tracer # 0

(* Once an update has switched pprof off, or Close has, it does not serve, *)
(* although the goroutine that was to serve it may run only now.           *)
PprofStaysOff ==
    (configLock = "none" /\ applied /\ ~ last.pprof) \/ pc[Closer] = "done"
        => pprofServer \in {"nil", "shut"}

(* The closer is looked at twice before it is called: updates alone, from  *)
(* however many goroutines, never call a nil one; it takes a Close.        *)
OnlyCloseCrashes == crashed => pc[Closer] # "idle"

-----------------------------------------------------------------------------
(* What diagnose.go:27 and :62 say: UpdateConfig is "used for ... config   *)
(* updates", of which the first is "Update PProf": an update that enables  *)
(* it has it served.                                                       *)
UpdateEnablesPprof ==
    pc[Closer] = "idle" /\ configLock = "none" /\ last.pprof
        => pprofServer \in {"made", "serves"}

(* What diagnose.go:29 says: Close is for a "grace shutdown".              *)
CloseIsGraceful == ~ crashed
=============================================================================
