------------------------- MODULE Diagnostics_proofs -------------------------
(***************************************************************************)
(* Proofs about the diagnostics endpoints, for any number of updaters, any *)
(* configurations and environments, and any bound on the tracers made.     *)
(***************************************************************************)
EXTENDS Diagnostics, TLAPS

(* Where an updater is while it holds the lock, and where Close can be.    *)
Updating == {"pprof", "gops", "jaeger", "init", "check", "close", "forget", "unlock"}
Closing == {"idle", "check", "close", "forget", "closeGops", "closePprof", "done"}
Off == pprofServer \in {"nil", "shut"}

Places ==
    /\ pc[Closer] \in Closing
    /\ \A u \in Updater: pc[u] \in Updating \cup {"idle", "lock"}
    /\ \A u \in Updater: pc[u] \in Updating <=> configLock = u

(* Before Close begins only the updater with the lock uses the fields of   *)
(* Jaeger: the tracer differs from the closer only while it closes it.     *)
JaegerBounds == shut \subseteq 1..made /\ jaegerCloser <= made

AtCloser(u) == pc[u] \in {"close", "forget"}

InStep == tracer = jaegerCloser /\ jaegerCloser \notin shut

JaegerOf(u) ==
    /\ pc[u] = "init" => conf[u].jaeger /\ jaegerCloser = 0
    /\ pc[u] \in {"check", "close", "forget"} => ~ conf[u].jaeger
    /\ AtCloser(u) => tracer = 0
    /\ pc[u] = "close" => jaegerCloser # 0
    /\ pc[u] = "unlock" =>
          /\ tracer # 0 => conf[u].jaeger
          /\ conf[u].jaeger /\ ~ failed => tracer # 0

JaegerState ==
    pc[Closer] = "idle" =>
        /\ (\A u \in Updater: ~ AtCloser(u)) => InStep
        /\ \A u \in Updater: JaegerOf(u)

(* Once past its pprof part, an update that disables it has it off; the    *)
(* server never comes back.                                                *)
PprofOf(u) == pc[u] \in Updating \ {"pprof"} /\ ~ conf[u].pprof => Off

PprofState == (\A u \in Updater: PprofOf(u)) /\ PprofStaysOff

(* Before Close begins, every tracer but the one of the closer is closed;  *)
(* an update closes it once before it forgets it.                          *)
Accounted ==
    pc[Closer] = "idle" =>
        /\ 1..made \subseteq shut \cup {jaegerCloser}
        /\ \A u \in Updater: /\ pc[u] = "close" => jaegerCloser \notin shut
                             /\ pc[u] = "forget" => jaegerCloser \in shut

NoTracerLeaks ==
    /\ Settled => shut = (1..made) \ {jaegerCloser}
    /\ pc[Closer] = "idle" =>
          \A u \in Updater: pc[u] = "close" => jaegerCloser \notin shut

(* Updates and Close only switch off: an endpoint that is not there, or    *)
(* was closed, never comes back.                                           *)
NothingComesBack ==
    /\ gops' => gops
    /\ pprofServer \in {"nil", "shut"} => pprofServer' = pprofServer

OnlySwitchOff == [][NothingComesBack]_vars

DiagnosticsInv ==
    /\ TypeOK /\ Places /\ JaegerBounds /\ JaegerState /\ PprofState
    /\ JaegerFollowsUpdates /\ OnlyCloseCrashes

-----------------------------------------------------------------------------
LEMMA DiagnosticsInit == Init => DiagnosticsInv
  <1> SUFFICES ASSUME Init PROVE DiagnosticsInv
    OBVIOUS
  <1> USE ConfigAssumption
  <1>1. env \in Config /\ last \in Config
    BY DEF Init, Config
  <1>2. /\ jaegerCloser \in {0, 1} /\ made = jaegerCloser /\ tracer = jaegerCloser
        /\ failed \in BOOLEAN
    BY DEF Init
  <1>3. TypeOK
    <2>1. gops \in BOOLEAN /\ isGopsEnabled \in BOOLEAN
      BY <1>1 DEF Init, initRuntimeGopsDiagnosticsFromEnv, Config
    <2>2. pprofServer \in {"nil", "made"} /\ conf \in [Updater -> Config]
      BY <1>1 DEF Init
    <2>3. /\ jaegerCloser \in 0..MaxTracers /\ tracer \in 0..MaxTracers
          /\ made \in 0..MaxTracers /\ shut \subseteq 1..MaxTracers
      BY <1>2 DEF Init
    <2>4. pc \in [Actor -> Place]
      BY DEF Init, Place
    <2> QED BY <1>1, <2>1, <2>2, <2>3, <2>4 DEF Init, TypeOK
  <1>4. Places
    BY DEF Init, Places, Actor, Updating, Closing
  <1>5. JaegerBounds /\ JaegerState
    BY <1>2, <1>4 DEF Init, JaegerBounds, JaegerState, JaegerOf, InStep, AtCloser, Actor
  <1>6. PprofState /\ JaegerFollowsUpdates /\ OnlyCloseCrashes
    BY DEF Init, PprofState, PprofOf, PprofStaysOff, JaegerFollowsUpdates, Actor,
           Updating, OnlyCloseCrashes
  <1> QED BY <1>3, <1>4, <1>5, <1>6 DEF DiagnosticsInv

(* A step of one updater leaves where the others and Close are.            *)
LEMMA OnlyMoves ==
    ASSUME TypeOK, NEW u \in Updater, NEW place, Goto(u, place)
    PROVE  /\ pc'[u] = place /\ pc'[Closer] = pc[Closer]
           /\ \A v \in Updater \ {u}: pc'[v] = pc[v]
  BY ConfigAssumption DEF TypeOK, Goto, Actor

LEMMA TypedMove ==
    ASSUME TypeOK, NEW u \in Updater, NEW place \in Place, Goto(u, place)
    PROVE  pc' \in [Actor -> Place]
  BY DEF TypeOK, Goto

(* Nobody is in an update when nobody holds the lock, and only the updater *)
(* that holds it is.                                                       *)
LEMMA NobodyUpdates ==
    ASSUME Places, configLock = "none"
    PROVE  \A v \in Updater: pc[v] \in {"idle", "lock"}
  BY ConfigAssumption DEF Places

LEMMA HasLock ==
    ASSUME Places, NEW u \in Updater, pc[u] \in Updating
    PROVE  /\ configLock = u /\ configLock # "none"
           /\ \A v \in Updater \ {u}: pc[v] \in {"idle", "lock"}
  BY ConfigAssumption DEF Places

(* An updater that has no lock yet disturbs nothing.                       *)
LEMMA UpdateBegins ==
    ASSUME DiagnosticsInv, NEW u \in Updater,
           (\E c \in Configs: UpdateConfig(u, c)) \/ Lock(u)
    PROVE  DiagnosticsInv'
  <1> USE DEF DiagnosticsInv
  <1>1. /\ UNCHANGED <<env, fields, jaeger, ghosts, crashed>>
        /\ \A v \in Updater \ {u}: conf'[v] = conf[v]
        /\ conf' \in [Updater -> Config]
    BY ConfigAssumption DEF UpdateConfig, Lock, TypeOK
  <1>2. \/ Goto(u, "lock") /\ pc[u] = "idle" /\ configLock' = configLock
        \/ /\ Goto(u, "pprof") /\ pc[u] = "lock"
           /\ configLock = "none" /\ configLock' = u
    BY DEF UpdateConfig, Lock
  <1>3. /\ pc'[u] \in {"lock", "pprof"} /\ pc[u] \in {"idle", "lock"}
        /\ pc'[u] = "pprof" => configLock = "none" /\ configLock' = u
        /\ pc'[u] = "lock" => configLock' = configLock
        /\ pc'[Closer] = pc[Closer] /\ \A v \in Updater \ {u}: pc'[v] = pc[v]
    BY <1>2, OnlyMoves
  <1>4. pc' \in [Actor -> Place]
    BY <1>2, TypedMove DEF Place
  <1>5. TypeOK'
    BY <1>1, <1>2, <1>4 DEF TypeOK, fields, jaeger, ghosts
  <1>6. Places'
    <2>1. CASE pc'[u] = "lock"
      BY <1>3, <2>1 DEF Places, Updating
    <2>2. CASE pc'[u] = "pprof"
      BY <1>3, <2>2, NobodyUpdates, ConfigAssumption DEF Places, Updating
    <2> QED BY <1>3, <2>1, <2>2
  <1>7. JaegerBounds' /\ InStep' = InStep
    BY <1>1 DEF JaegerBounds, InStep, jaeger
  <1>8. \A v \in Updater: AtCloser(v)' = AtCloser(v)
    BY <1>3 DEF AtCloser
  <1>9. ASSUME pc[Closer] = "idle", NEW v \in Updater PROVE JaegerOf(v)'
    <2>1. CASE v = u
      BY <1>3, <2>1 DEF JaegerOf, AtCloser
    <2>2. CASE v # u
      BY <1>1, <1>3, <1>8, <1>9, <2>2 DEF JaegerState, JaegerOf, jaeger
    <2> QED BY <2>1, <2>2
  <1>10. JaegerState'
    BY <1>3, <1>7, <1>8, <1>9 DEF JaegerState
  <1>11. Off' = Off /\ \A v \in Updater: PprofOf(v)'
    BY <1>1, <1>3 DEF PprofState, PprofOf, Updating, Off, fields
  <1>12. PprofStaysOff' /\ JaegerFollowsUpdates' /\ OnlyCloseCrashes'
    BY <1>1, <1>3, ConfigAssumption
       DEF PprofState, PprofStaysOff, JaegerFollowsUpdates, OnlyCloseCrashes, Settled,
           fields, jaeger, ghosts
  <1> QED BY <1>5, <1>6, <1>7, <1>10, <1>11, <1>12 DEF PprofState

(* What a step of the updater with the lock leaves alone, when it keeps it. *)
LEMMA WithLock ==
    ASSUME DiagnosticsInv, NEW u \in Updater, pc[u] \in Updating,
           NEW place \in Updating, Goto(u, place),
           UNCHANGED <<env, configLock, conf, ghosts>>,
           pprofServer' \in {"nil", "made", "serves", "shut"},
           gops' \in BOOLEAN, isGopsEnabled' \in BOOLEAN, failed' \in BOOLEAN,
           ~ crashed, UNCHANGED crashed,
           jaegerCloser' \in 0..MaxTracers, tracer' \in 0..MaxTracers,
           made' \in 0..MaxTracers, JaegerBounds',
           Off => Off', PprofOf(u)',
           pc[Closer] = "idle" => JaegerOf(u)' /\ (AtCloser(u)' \/ InStep')
    PROVE  DiagnosticsInv'
  <1> USE DEF DiagnosticsInv
  <1>1. /\ configLock = u /\ configLock' # "none"
        /\ \A v \in Updater \ {u}: pc[v] \in {"idle", "lock"}
    BY HasLock
  <1>2. /\ pc'[u] = place /\ pc'[Closer] = pc[Closer]
        /\ \A v \in Updater \ {u}: pc'[v] \in {"idle", "lock"} /\ pc'[v] = pc[v]
    BY <1>1, OnlyMoves
  <1>3. TypeOK'
    <2>1. pc' \in [Actor -> Place]
      BY TypedMove DEF Updating, Place
    <2>2. shut' \subseteq 1..MaxTracers
      BY ConfigAssumption DEF JaegerBounds
    <2> QED BY <2>1, <2>2 DEF TypeOK, ghosts
  <1>4. Places'
    BY <1>1, <1>2 DEF Places, Updating
  <1>5. JaegerState'
    <2>1. ASSUME pc[Closer] = "idle", NEW v \in Updater \ {u} PROVE JaegerOf(v)'
      BY <1>2, <2>1 DEF JaegerOf, AtCloser
    <2> QED BY <1>2, <2>1 DEF JaegerState
  <1>6. PprofState'
    <2>1. ASSUME NEW v \in Updater \ {u} PROVE PprofOf(v)'
      BY <1>2 DEF PprofOf, Updating
    <2>2. PprofStaysOff'
      BY <1>1, <1>2 DEF PprofState, PprofStaysOff, Off
    <2> QED BY <2>1, <2>2 DEF PprofState
  <1>7. JaegerFollowsUpdates' /\ OnlyCloseCrashes'
    BY <1>1 DEF JaegerFollowsUpdates, OnlyCloseCrashes, Settled
  <1> QED BY <1>3, <1>4, <1>5, <1>6, <1>7

LEMMA UpdateFields ==
    ASSUME DiagnosticsInv, NEW u \in Updater, ~ crashed, UpdatePprof(u) \/ UpdateGops(u)
    PROVE  DiagnosticsInv'
  <1> USE DEF DiagnosticsInv
  <1>1. /\ UNCHANGED <<env, configLock, conf, ghosts, jaeger, crashed>>
        /\ pc[u] \in Updating /\ pc[u] \in {"pprof", "gops"}
    BY DEF UpdatePprof, UpdateGops, Updating
  <1>2. PICK place \in {"gops", "jaeger"}: Goto(u, place)
    BY DEF UpdatePprof, UpdateGops
  <1>3. conf[u] \in Config
    BY DEF TypeOK
  <1>4. /\ pprofServer' \in {"nil", "made", "serves", "shut"}
        /\ gops' \in BOOLEAN /\ isGopsEnabled' \in BOOLEAN
    BY <1>3 DEF UpdatePprof, UpdateGops, TypeOK, initCPUProfiler, safeClosePprof,
                isChangeInConfig, PprofIsNil
  <1>5. Off => Off'
    BY <1>3 DEF UpdatePprof, UpdateGops, Off, initCPUProfiler, safeClosePprof,
                isChangeInConfig, PprofIsNil
  <1>6. PprofOf(u)'
    <2>1. CASE UpdatePprof(u)
      BY <1>1, <1>3, <2>1 DEF UpdatePprof, Off, PprofOf, safeClosePprof,
                               isChangeInConfig, PprofIsNil
    <2>2. CASE UpdateGops(u)
      BY <1>1, <1>5, <2>2 DEF UpdateGops, PprofState, PprofOf, Updating
    <2> QED BY <2>1, <2>2
  <1>7. /\ JaegerBounds' /\ failed' \in BOOLEAN /\ made' \in 0..MaxTracers
        /\ jaegerCloser' \in 0..MaxTracers /\ tracer' \in 0..MaxTracers
    BY <1>1 DEF TypeOK, JaegerBounds, jaeger
  <1>8. pc'[u] = place /\ place \in Updating
    BY <1>2, OnlyMoves DEF Updating
  <1>9. ASSUME pc[Closer] = "idle" PROVE JaegerOf(u)' /\ InStep'
    <2>1. \A v \in Updater: ~ AtCloser(v)
      BY <1>1, HasLock DEF AtCloser
    <2>2. InStep'
      BY <1>1, <1>9, <2>1 DEF JaegerState, InStep, jaeger
    <2>3. JaegerOf(u)'
      BY <1>2, <1>8 DEF JaegerOf, AtCloser
    <2> QED BY <2>2, <2>3
  <1> QED BY <1>1, <1>2, <1>4, <1>5, <1>6, <1>7, <1>8, <1>9, WithLock

(* A step about Jaeger leaves the other fields alone.                      *)
LEMMA JaegerWithLock ==
    ASSUME DiagnosticsInv, NEW u \in Updater, pc[u] \in Updating \ {"pprof"},
           NEW place \in Updating \ {"pprof"}, Goto(u, place),
           ~ crashed, UNCHANGED <<env, configLock, conf, ghosts, fields, crashed>>,
           failed' \in BOOLEAN, JaegerBounds',
           jaegerCloser' \in 0..MaxTracers, tracer' \in 0..MaxTracers,
           made' \in 0..MaxTracers,
           pc[Closer] = "idle" => JaegerOf(u)' /\ (AtCloser(u)' \/ InStep')
    PROVE  DiagnosticsInv'
  <1> USE DEF DiagnosticsInv
  <1>1. /\ pprofServer' \in {"nil", "made", "serves", "shut"}
        /\ gops' \in BOOLEAN /\ isGopsEnabled' \in BOOLEAN /\ (Off => Off')
    BY DEF TypeOK, fields, Off
  <1>2. PprofOf(u)'
    BY <1>1 DEF PprofState, PprofOf
  <1> QED BY <1>1, <1>2, WithLock

(* While the updater with the lock is not closing the tracer, it is the    *)
(* one of the closer.                                                      *)
LEMMA InStepWithLock ==
    ASSUME DiagnosticsInv, NEW u \in Updater, pc[u] \in Updating, ~ AtCloser(u),
           pc[Closer] = "idle"
    PROVE  InStep
  BY HasLock DEF DiagnosticsInv, JaegerState, AtCloser

LEMMA JaegerBegins ==
    ASSUME DiagnosticsInv, NEW u \in Updater, ~ crashed, UpdateJaeger(u)
    PROVE  DiagnosticsInv'
  <1> USE DEF DiagnosticsInv
  <1>1. /\ UNCHANGED <<env, configLock, conf, ghosts, fields, jaeger, crashed>>
        /\ pc[u] \in Updating \ {"pprof"} /\ ~ AtCloser(u)
    BY DEF UpdateJaeger, Updating, AtCloser
  <1>2. PICK place \in {"init", "check", "unlock"}:
          /\ Goto(u, place)
          /\ place = "init" <=> jaegerCloser = 0 /\ conf[u].jaeger
          /\ place = "check" <=> jaegerCloser # 0 /\ ~ conf[u].jaeger
    BY DEF UpdateJaeger, isChangeInConfig, JaegerIsNil, TypeOK, Config
  <1>3. /\ JaegerBounds' /\ failed' \in BOOLEAN /\ made' \in 0..MaxTracers
        /\ jaegerCloser' \in 0..MaxTracers /\ tracer' \in 0..MaxTracers
    BY <1>1 DEF TypeOK, JaegerBounds, jaeger
  <1>4. pc'[u] = place /\ place \in Updating \ {"pprof"}
    BY <1>2, OnlyMoves DEF Updating
  <1>5. ASSUME pc[Closer] = "idle" PROVE JaegerOf(u)' /\ InStep'
    <2>1. InStep /\ InStep'
      BY <1>1, <1>5, InStepWithLock DEF InStep, jaeger
    <2> QED BY <1>1, <1>2, <1>4, <2>1 DEF JaegerOf, AtCloser, InStep, jaeger
  <1> QED BY <1>1, <1>2, <1>3, <1>4, <1>5, JaegerWithLock

LEMMA JaegerInits ==
    ASSUME DiagnosticsInv, NEW u \in Updater, ~ crashed, InitJaeger(u)
    PROVE  DiagnosticsInv'
  <1> USE DEF DiagnosticsInv
  <1>1. /\ UNCHANGED <<env, configLock, conf, ghosts, fields, crashed>>
        /\ pc[u] = "init" /\ pc[u] \in Updating \ {"pprof"} /\ ~ AtCloser(u)
        /\ Goto(u, "unlock") /\ "unlock" \in Updating \ {"pprof"}
    BY DEF InitJaeger, Updating, AtCloser
  <1>2. pc'[u] = "unlock" /\ made \in Nat /\ shut \subseteq 1..made
    BY <1>1, OnlyMoves DEF TypeOK, JaegerBounds
  <1>3. CASE env.jaeger \/ conf[u].jaeger
    <2>1. PICK fails \in TracerFails:
            /\ made < MaxTracers
            /\ made' = (IF fails THEN made ELSE made + 1)
            /\ jaegerCloser' = (IF fails THEN 0 ELSE made')
            /\ tracer' = jaegerCloser' /\ failed' = fails /\ UNCHANGED shut
      BY <1>3 DEF InitJaeger, initJaegerCollector
    <2>2. fails \in BOOLEAN
      BY ConfigAssumption
    <2>3. made' \in 0..MaxTracers /\ made <= made' /\ failed' \in BOOLEAN
      BY <1>2, <2>1, <2>2, ConfigAssumption
    <2>4. jaegerCloser' \in 0..MaxTracers /\ tracer' \in 0..MaxTracers
      BY <2>1, <2>2, <2>3, ConfigAssumption
    <2>5. JaegerBounds' /\ InStep'
      BY <1>2, <2>1, <2>2, <2>3, ConfigAssumption DEF JaegerBounds, InStep
    <2>6. ASSUME pc[Closer] = "idle" PROVE JaegerOf(u)'
      <3>1. conf[u].jaeger /\ conf'[u].jaeger
        BY <1>1, <2>6 DEF JaegerState, JaegerOf
      <3>2. ~ failed' => tracer' # 0
        BY <1>2, <2>1, <2>2
      <3> QED BY <1>2, <3>1, <3>2 DEF JaegerOf, AtCloser
    <2> QED BY <1>1, <2>3, <2>4, <2>5, <2>6, JaegerWithLock
  <1>4. CASE ~ (env.jaeger \/ conf[u].jaeger)
    <2>1. pc[Closer] # "idle" /\ UNCHANGED jaeger
      BY <1>1, <1>4 DEF JaegerState, JaegerOf, InitJaeger, initJaegerCollector
    <2>2. /\ JaegerBounds' /\ failed' \in BOOLEAN /\ made' \in 0..MaxTracers
          /\ jaegerCloser' \in 0..MaxTracers /\ tracer' \in 0..MaxTracers
      BY <2>1 DEF TypeOK, JaegerBounds, jaeger
    <2> QED BY <1>1, <2>1, <2>2, JaegerWithLock
  <1> QED BY <1>3, <1>4

(* safeCloseJaeger, by the updater with the lock. *)
LEMMA CloserChecked ==
    ASSUME DiagnosticsInv, NEW u \in Updater, ~ crashed, CheckCloser(u)
    PROVE  DiagnosticsInv'
  <1> USE DEF DiagnosticsInv
  <1>1. /\ UNCHANGED <<env, configLock, conf, ghosts, fields, crashed>>
        /\ UNCHANGED <<jaegerCloser, made, shut, failed>>
        /\ pc[u] = "check" /\ pc[u] \in Updating \ {"pprof"} /\ ~ AtCloser(u)
    BY DEF CheckCloser, Updating, AtCloser
  <1>2. AfterJaeger(u) = "unlock"
    BY ConfigAssumption DEF AfterJaeger
  <1>3. PICK place \in {"unlock", "close"}:
          /\ Goto(u, place)
          /\ place = "unlock" => jaegerCloser = 0 /\ UNCHANGED tracer
          /\ place = "close" => jaegerCloser # 0 /\ tracer' = 0
    BY <1>2 DEF CheckCloser
  <1>4. /\ JaegerBounds' /\ failed' \in BOOLEAN /\ made' \in 0..MaxTracers
        /\ jaegerCloser' \in 0..MaxTracers /\ tracer' \in 0..MaxTracers
    BY <1>1, <1>3, ConfigAssumption DEF TypeOK, JaegerBounds
  <1>5. pc'[u] = place /\ place \in Updating \ {"pprof"}
    BY <1>3, OnlyMoves DEF Updating
  <1>6. ASSUME pc[Closer] = "idle" PROVE JaegerOf(u)' /\ (AtCloser(u)' \/ InStep')
    <2>1. InStep /\ ~ conf'[u].jaeger
      BY <1>1, <1>6, InStepWithLock DEF JaegerState, JaegerOf
    <2> QED BY <1>1, <1>3, <1>5, <2>1 DEF JaegerOf, AtCloser, InStep
  <1> QED BY <1>1, <1>3, <1>4, <1>5, <1>6, JaegerWithLock

LEMMA CloserCalled ==
    ASSUME DiagnosticsInv, NEW u \in Updater, ~ crashed, CallCloser(u)
    PROVE  DiagnosticsInv'
  <1> USE DEF DiagnosticsInv
  <1>1. /\ UNCHANGED <<env, configLock, conf, ghosts, fields>>
        /\ UNCHANGED <<jaegerCloser, tracer, made, failed>>
        /\ pc[u] = "close" /\ pc[u] \in Updating \ {"pprof"}
    BY DEF CallCloser, Updating
  <1>2. CASE jaegerCloser = 0
    <2>1. crashed' = TRUE /\ UNCHANGED <<shut, pc>>
      BY <1>2 DEF CallCloser
    <2>2. pc[Closer] # "idle"
      BY <1>1, <1>2 DEF JaegerState, JaegerOf
    <2>3. TypeOK' /\ Places' /\ JaegerBounds' /\ JaegerState'
      BY <1>1, <2>1, <2>2
         DEF TypeOK, Places, JaegerBounds, JaegerState, fields, ghosts
    <2>4. PprofState' /\ JaegerFollowsUpdates' /\ OnlyCloseCrashes'
      BY <1>1, <2>1, <2>2
         DEF PprofState, PprofOf, PprofStaysOff, Off, JaegerFollowsUpdates, Settled,
             OnlyCloseCrashes, fields, ghosts
    <2> QED BY <2>3, <2>4
  <1>3. CASE jaegerCloser # 0
    <2>1. /\ shut' = shut \cup {jaegerCloser} /\ Goto(u, "forget") /\ UNCHANGED crashed
          /\ "forget" \in Updating \ {"pprof"} /\ pc'[u] = "forget"
      BY <1>3, OnlyMoves DEF CallCloser, Updating
    <2>2. /\ JaegerBounds' /\ failed' \in BOOLEAN /\ made' \in 0..MaxTracers
          /\ jaegerCloser' \in 0..MaxTracers /\ tracer' \in 0..MaxTracers
      BY <1>1, <1>3, <2>1 DEF TypeOK, JaegerBounds
    <2>3. ASSUME pc[Closer] = "idle" PROVE JaegerOf(u)' /\ AtCloser(u)'
      BY <1>1, <2>1, <2>3 DEF JaegerState, JaegerOf, AtCloser
    <2> QED BY <1>1, <2>1, <2>2, <2>3, JaegerWithLock
  <1> QED BY <1>2, <1>3

LEMMA CloserForgotten ==
    ASSUME DiagnosticsInv, NEW u \in Updater, ~ crashed, ForgetCloser(u)
    PROVE  DiagnosticsInv'
  <1> USE DEF DiagnosticsInv
  <1>1. /\ UNCHANGED <<env, configLock, conf, ghosts, fields, crashed>>
        /\ UNCHANGED <<tracer, made, shut, failed>> /\ jaegerCloser' = 0
        /\ pc[u] = "forget" /\ pc[u] \in Updating \ {"pprof"}
        /\ Goto(u, "unlock") /\ "unlock" \in Updating \ {"pprof"}
    BY ConfigAssumption DEF ForgetCloser, AfterJaeger, Updating
  <1>2. pc'[u] = "unlock"
    BY <1>1, OnlyMoves
  <1>3. /\ JaegerBounds' /\ failed' \in BOOLEAN /\ made' \in 0..MaxTracers
        /\ jaegerCloser' \in 0..MaxTracers /\ tracer' \in 0..MaxTracers
    BY <1>1, ConfigAssumption DEF TypeOK, JaegerBounds
  <1>4. ASSUME pc[Closer] = "idle" PROVE JaegerOf(u)' /\ InStep'
    <2>1. tracer = 0 /\ ~ conf[u].jaeger /\ 0 \notin shut
      BY <1>1, <1>4 DEF JaegerState, JaegerOf, AtCloser, JaegerBounds, TypeOK
    <2> QED BY <1>1, <1>2, <2>1 DEF JaegerOf, AtCloser, InStep
  <1> QED BY <1>1, <1>3, <1>4, JaegerWithLock

(* The lock is given back, and the configuration becomes the last one.     *)
LEMMA Unlocked ==
    ASSUME DiagnosticsInv, NEW u \in Updater, ~ crashed, Unlock(u)
    PROVE  DiagnosticsInv'
  <1> USE DEF DiagnosticsInv
  <1>1. /\ UNCHANGED <<env, fields, jaeger, conf, crashed>>
        /\ last' = conf[u] /\ applied' = TRUE /\ configLock' = "none"
        /\ pc[u] = "unlock" /\ pc[u] \in Updating /\ ~ AtCloser(u) /\ Goto(u, "idle")
    BY DEF Unlock, Updating, AtCloser
  <1>2. \A v \in Updater \ {u}: pc[v] \in {"idle", "lock"}
    BY <1>1, HasLock
  <1>3. /\ pc'[u] = "idle" /\ pc'[Closer] = pc[Closer]
        /\ \A v \in Updater \ {u}: pc'[v] = pc[v]
    BY <1>1, OnlyMoves
  <1>4. TypeOK'
    BY <1>1, TypedMove DEF TypeOK, Place, fields, jaeger
  <1>5. Places'
    BY <1>1, <1>2, <1>3, ConfigAssumption DEF Places, Updating
  <1>6. JaegerBounds' /\ InStep' = InStep
    BY <1>1 DEF JaegerBounds, InStep, jaeger
  <1>7. ASSUME pc[Closer] = "idle"
        PROVE  /\ InStep
               /\ tracer # 0 => conf[u].jaeger
               /\ conf[u].jaeger /\ ~ failed => tracer # 0
    BY <1>1, <1>7, InStepWithLock DEF JaegerState, JaegerOf
  <1>8. JaegerState'
    BY <1>2, <1>3, <1>6, <1>7 DEF JaegerState, JaegerOf, AtCloser
  <1>9. PprofOf(u) /\ (pc[Closer] = "done" => Off) /\ Off' = Off
    BY <1>1 DEF PprofState, PprofStaysOff, Off, fields
  <1>10. PprofState'
    BY <1>1, <1>2, <1>3, <1>9 DEF PprofState, PprofOf, PprofStaysOff, Off, Updating
  <1>11. JaegerFollowsUpdates' /\ OnlyCloseCrashes'
    BY <1>1, <1>3, <1>7 DEF JaegerFollowsUpdates, OnlyCloseCrashes, Settled, jaeger
  <1> QED BY <1>4, <1>5, <1>6, <1>8, <1>10, <1>11

-----------------------------------------------------------------------------
(* Close and the goroutine that serves pprof. *)
LEMMA ServePreserves ==
    ASSUME DiagnosticsInv, ~ crashed, Serve
    PROVE  DiagnosticsInv'
  <1> USE DEF DiagnosticsInv
  <1>1. /\ UNCHANGED <<env, gops, isGopsEnabled, jaeger, calls, ghosts, crashed>>
        /\ ~ Off /\ pprofServer' = "serves"
    BY DEF Serve, Off
  <1>2. TypeOK' /\ Places' /\ JaegerBounds' /\ JaegerState'
    BY <1>1 DEF TypeOK, Places, JaegerBounds, JaegerState, JaegerOf, InStep, AtCloser,
                jaeger, calls, ghosts
  <1>3. PprofState'
    BY <1>1 DEF PprofState, PprofOf, PprofStaysOff, Off, calls, ghosts
  <1>4. JaegerFollowsUpdates' /\ OnlyCloseCrashes'
    BY <1>1 DEF JaegerFollowsUpdates, OnlyCloseCrashes, Settled, jaeger, calls, ghosts
  <1> QED BY <1>2, <1>3, <1>4

(* Once Close has begun, nothing is promised of Jaeger any more.           *)
LEMMA CloseMoves ==
    ASSUME DiagnosticsInv, NEW place \in Closing \ {"idle"}, Goto(Closer, place),
           UNCHANGED <<env, configLock, conf, ghosts>>,
           pprofServer' \in {"nil", "made", "serves", "shut"},
           gops' \in BOOLEAN, isGopsEnabled' \in BOOLEAN, failed' \in BOOLEAN,
           crashed' \in BOOLEAN, made' \in 0..MaxTracers,
           jaegerCloser' \in 0..MaxTracers, tracer' \in 0..MaxTracers,
           JaegerBounds', Off => Off', place = "done" => Off'
    PROVE  DiagnosticsInv'
  <1> USE DEF DiagnosticsInv
  <1>1. /\ pc' \in [Actor -> Place] /\ pc'[Closer] = place
        /\ \A v \in Updater: pc'[v] = pc[v]
    BY ConfigAssumption DEF TypeOK, Goto, Actor, Closing, Place
  <1>2. TypeOK'
    BY <1>1, ConfigAssumption DEF TypeOK, JaegerBounds, ghosts
  <1>3. Places'
    BY <1>1 DEF Places
  <1>4. JaegerState' /\ JaegerFollowsUpdates' /\ OnlyCloseCrashes'
    BY <1>1 DEF JaegerState, JaegerFollowsUpdates, OnlyCloseCrashes, Settled
  <1>5. PprofState'
    BY <1>1 DEF PprofState, PprofOf, PprofStaysOff, Off, ghosts
  <1> QED BY <1>2, <1>3, <1>4, <1>5

LEMMA ClosePreserves ==
    ASSUME DiagnosticsInv, ~ crashed, StartClose \/ CloseStep
    PROVE  DiagnosticsInv'
  <1> USE DEF DiagnosticsInv
  <1>1. AfterJaeger(Closer) = "closeGops"
    BY DEF AfterJaeger
  <1>2. CASE StartClose
    <2>1. "check" \in Closing \ {"idle"} /\ Goto(Closer, "check")
      BY <1>2 DEF StartClose, Closing
    <2>2. UNCHANGED <<env, configLock, conf, ghosts, fields, jaeger, crashed>>
      BY <1>2 DEF StartClose
    <2> QED BY <2>1, <2>2, CloseMoves DEF TypeOK, JaegerBounds, Off, fields, jaeger
  <1>3. CASE CheckCloser(Closer)
    <2>1. PICK place \in {"closeGops", "close"}: Goto(Closer, place)
      BY <1>1, <1>3 DEF CheckCloser
    <2>2. tracer' \in 0..MaxTracers
      BY <1>3, ConfigAssumption DEF CheckCloser, TypeOK
    <2>3. UNCHANGED <<env, configLock, conf, ghosts, fields, jaegerCloser, made, shut,
                      failed, crashed>>
      BY <1>3 DEF CheckCloser
    <2>4. place \in Closing \ {"idle"} /\ place # "done"
      BY DEF Closing
    <2> QED BY <2>1, <2>2, <2>3, <2>4, CloseMoves DEF TypeOK, JaegerBounds, Off, fields
  <1>4. CASE CallCloser(Closer)
    <2>1. PICK place \in {"close", "forget"}: Goto(Closer, place)
      <3>1. CASE UNCHANGED pc
        <4>1. pc[Closer] = "close" /\ pc \in [Actor -> Place]
          BY <1>4 DEF CallCloser, TypeOK
        <4>2. Goto(Closer, "close")
          BY <3>1, <4>1 DEF Goto
        <4> QED BY <4>2
      <3>2. CASE Goto(Closer, "forget")
        BY <3>2
      <3> QED BY <1>4, <3>1, <3>2 DEF CallCloser
    <2>2. UNCHANGED <<env, configLock, conf, ghosts, fields, jaegerCloser, tracer, made,
                      failed>>
      BY <1>4 DEF CallCloser
    <2>3. crashed' \in BOOLEAN
      BY <1>4 DEF CallCloser, TypeOK
    <2>4. shut' = shut \/ (jaegerCloser # 0 /\ shut' = shut \cup {jaegerCloser})
      BY <1>4 DEF CallCloser
    <2>5. JaegerBounds'
      <3>1. made \in Nat /\ jaegerCloser \in Nat /\ made' = made
            /\ jaegerCloser' = jaegerCloser
        BY <2>2, ConfigAssumption DEF TypeOK
      <3>2. shut \subseteq 1..made /\ jaegerCloser <= made
        BY DEF JaegerBounds
      <3>3. jaegerCloser # 0 => jaegerCloser \in 1..made
        BY <3>1, <3>2
      <3>4. shut' \subseteq 1..made
        BY <2>4, <3>2, <3>3
      <3> QED BY <3>1, <3>2, <3>4 DEF JaegerBounds
    <2>6. place \in Closing \ {"idle"} /\ place # "done"
      BY DEF Closing
    <2> QED BY <2>1, <2>2, <2>3, <2>5, <2>6, CloseMoves DEF TypeOK, Off, fields
  <1>5. CASE ForgetCloser(Closer)
    <2>1. "closeGops" \in Closing \ {"idle"} /\ Goto(Closer, "closeGops")
      BY <1>1, <1>5 DEF ForgetCloser, Closing
    <2>2. UNCHANGED <<env, configLock, conf, ghosts, fields, tracer, made, shut, failed,
                      crashed>> /\ jaegerCloser' = 0
      BY <1>5 DEF ForgetCloser
    <2>3. jaegerCloser' \in 0..MaxTracers /\ JaegerBounds'
      BY <2>2, ConfigAssumption DEF TypeOK, JaegerBounds
    <2> QED BY <2>1, <2>2, <2>3, CloseMoves DEF TypeOK, Off, fields
  <1>6. CASE CloseGops
    <2>1. "closePprof" \in Closing \ {"idle"} /\ Goto(Closer, "closePprof")
      BY <1>6 DEF CloseGops, Closing
    <2>2. /\ UNCHANGED <<env, configLock, conf, ghosts, pprofServer, jaeger, crashed>>
          /\ gops' = FALSE /\ isGopsEnabled' = FALSE
      BY <1>6 DEF CloseGops
    <2> QED BY <2>1, <2>2, CloseMoves DEF TypeOK, JaegerBounds, Off, jaeger
  <1>7. CASE ClosePprof
    <2>1. "done" \in Closing \ {"idle"} /\ Goto(Closer, "done")
      BY <1>7 DEF ClosePprof, Closing
    <2>2. UNCHANGED <<env, configLock, conf, ghosts, gops, isGopsEnabled, jaeger, crashed>>
      BY <1>7 DEF ClosePprof
    <2>3. pprofServer' \in {"nil", "shut"}
      BY <1>7 DEF ClosePprof, safeClosePprof
    <2> QED BY <2>1, <2>2, <2>3, CloseMoves DEF TypeOK, JaegerBounds, Off, jaeger
  <1> QED BY <1>2, <1>3, <1>4, <1>5, <1>6, <1>7 DEF CloseStep, CloseJaeger

-----------------------------------------------------------------------------
LEMMA DiagnosticsStep == DiagnosticsInv /\ [Next]_vars => DiagnosticsInv'
  <1> SUFFICES ASSUME DiagnosticsInv, [Next]_vars PROVE DiagnosticsInv'
    OBVIOUS
  <1>1. CASE UNCHANGED vars
    <2>1. UNCHANGED <<env, fields, jaeger, calls, ghosts, crashed>>
      BY <1>1 DEF vars
    <2>2. TypeOK' /\ Places' /\ JaegerBounds'
      BY <2>1 DEF DiagnosticsInv, TypeOK, Places, JaegerBounds, fields, jaeger, calls,
                  ghosts
    <2>3. JaegerState' /\ JaegerFollowsUpdates' /\ OnlyCloseCrashes'
      BY <2>1 DEF DiagnosticsInv, JaegerState, JaegerOf, InStep, AtCloser, Settled,
                  JaegerFollowsUpdates, OnlyCloseCrashes, jaeger, calls, ghosts
    <2>4. PprofState'
      BY <2>1 DEF DiagnosticsInv, PprofState, PprofOf, PprofStaysOff, Off, fields,
                  calls, ghosts
    <2> QED BY <2>2, <2>3, <2>4 DEF DiagnosticsInv
  <1>2. CASE \E u \in Updater, c \in Configs: UpdateConfig(u, c)
    BY <1>2, UpdateBegins
  <1>3. ASSUME Next, NEW u \in Updater, UpdateStep(u) PROVE DiagnosticsInv'
    <2>1. ~ crashed
      BY <1>3 DEF Next
    <2> QED BY <1>3, <2>1, UpdateBegins, UpdateFields, JaegerBegins, JaegerInits,
               CloserChecked, CloserCalled, CloserForgotten, Unlocked
            DEF UpdateStep, CloseJaeger
  <1>4. CASE Next /\ (Serve \/ StartClose \/ CloseStep)
    BY <1>4, ServePreserves, ClosePreserves DEF Next
  <1> QED BY <1>1, <1>2, <1>3, <1>4 DEF Next

(* The invariant, for any number of updaters.                              *)
THEOREM DiagnosticsInvariant == Spec => []DiagnosticsInv
  BY DiagnosticsInit, DiagnosticsStep, PTL DEF Spec

(* Between two updates the global tracer is the one to be closed, and has  *)
(* not been closed.                                                        *)
THEOREM TracersHaveClosers == Spec => []TracerHasCloser
  <1>1. DiagnosticsInv => TracerHasCloser
    <2> SUFFICES ASSUME DiagnosticsInv, Settled PROVE InStep
      BY DEF TracerHasCloser, InStep
    <2>1. \A v \in Updater: ~ AtCloser(v)
      BY NobodyUpdates DEF DiagnosticsInv, Settled, AtCloser
    <2> QED BY <2>1 DEF DiagnosticsInv, JaegerState, Settled
  <1> QED BY <1>1, DiagnosticsInvariant, PTL

(* The tracer is there when the last update asked for it, unless it could  *)
(* not be made.                                                            *)
THEOREM TracersFollowUpdates == Spec => []JaegerFollowsUpdates
  <1>1. DiagnosticsInv => JaegerFollowsUpdates
    BY DEF DiagnosticsInv
  <1> QED BY <1>1, DiagnosticsInvariant, PTL

(* Once switched off or closed, pprof does not serve.                      *)
THEOREM PprofStays == Spec => []PprofStaysOff
  <1>1. DiagnosticsInv => PprofStaysOff
    BY DEF DiagnosticsInv, PprofState
  <1> QED BY <1>1, DiagnosticsInvariant, PTL

(* Updates alone, from any number of goroutines, call no nil closer.       *)
THEOREM UpdatesDoNotCrash == Spec => []OnlyCloseCrashes
  <1>1. DiagnosticsInv => OnlyCloseCrashes
    BY DEF DiagnosticsInv
  <1> QED BY <1>1, DiagnosticsInvariant, PTL

-----------------------------------------------------------------------------
LEMMA AccountedInit == Init => Accounted
  <1> SUFFICES ASSUME Init PROVE Accounted
    OBVIOUS
  <1>1. made = jaegerCloser /\ jaegerCloser \in {0, 1} /\ \A u \in Updater: pc[u] = "idle"
    BY DEF Init, Actor
  <1> QED BY <1>1 DEF Accounted

(* A step of the updater with the lock, as far as Jaeger is concerned.     *)
LEMMA AccountedStep ==
    ASSUME DiagnosticsInv, Accounted, pc[Closer] = "idle", NEW u \in Updater, UpdateStep(u)
    PROVE  Accounted'
  <1> USE DEF DiagnosticsInv
  <1>1. ASSUME NEW place, Goto(u, place), place \notin {"close", "forget"}, UNCHANGED jaeger
        PROVE  Accounted'
    BY <1>1, OnlyMoves DEF Accounted, jaeger
  <1>2. CASE Lock(u) \/ UpdatePprof(u) \/ UpdateGops(u) \/ Unlock(u)
    BY <1>1, <1>2 DEF Lock, UpdatePprof, UpdateGops, Unlock
  <1>3. CASE UpdateJaeger(u)
    BY <1>1, <1>3 DEF UpdateJaeger
  <1> SUFFICES ASSUME InitJaeger(u) \/ CloseJaeger(u) PROVE Accounted'
    BY <1>2, <1>3 DEF UpdateStep
  <1>4. pc[u] \in {"init", "check", "close", "forget"} /\ JaegerOf(u)
    BY DEF InitJaeger, CloseJaeger, CheckCloser, CallCloser, ForgetCloser, JaegerState
  <1>5. \A v \in Updater \ {u}: pc[v] \in {"idle", "lock"}
    BY <1>4, HasLock DEF Updating
  <1>6. PICK place \in Place: Goto(u, place)
    <2>1. jaegerCloser = 0 => ~ CallCloser(u)
      BY <1>4 DEF CallCloser, JaegerOf
    <2> QED BY <2>1, ConfigAssumption DEF InitJaeger, CloseJaeger, CheckCloser,
            CallCloser, ForgetCloser, AfterJaeger, Place
  <1>7. /\ pc'[u] = place /\ pc'[Closer] = "idle"
        /\ \A v \in Updater \ {u}: pc'[v] \in {"idle", "lock"}
    BY <1>5, <1>6, OnlyMoves
  <1>8. CASE InitJaeger(u)
    <2>1. jaegerCloser = 0 /\ made \in Nat /\ shut \subseteq 1..made
      BY <1>4, <1>8 DEF InitJaeger, JaegerOf, TypeOK, JaegerBounds
    <2>2. 1..made \subseteq shut
      BY <2>1 DEF Accounted
    <2>3. \/ UNCHANGED jaeger
          \/ UNCHANGED <<made, shut>>
          \/ made' = made + 1 /\ jaegerCloser' = made' /\ UNCHANGED shut
      BY <1>8 DEF InitJaeger, initJaegerCollector
    <2>4. 1..made' \subseteq shut' \cup {jaegerCloser'}
      BY <2>1, <2>2, <2>3 DEF jaeger
    <2>5. pc'[u] = "unlock"
      BY <1>8, OnlyMoves DEF InitJaeger
    <2> QED BY <1>7, <2>4, <2>5 DEF Accounted
  <1>9. CASE CheckCloser(u)
    <2>1. jaegerCloser \notin shut
      BY <1>5, <1>9 DEF CheckCloser, JaegerState, AtCloser, InStep
    <2>2. UNCHANGED <<jaegerCloser, made, shut>> /\ pc'[u] \in {"unlock", "close"}
      BY <1>9, OnlyMoves, ConfigAssumption DEF CheckCloser, AfterJaeger
    <2> QED BY <1>7, <2>1, <2>2 DEF Accounted
  <1>10. CASE CallCloser(u)
    <2>1. UNCHANGED <<jaegerCloser, made>> /\ shut' = shut \cup {jaegerCloser}
      BY <1>4, <1>10 DEF CallCloser, JaegerOf
    <2>2. pc'[u] = "forget"
      BY <1>4, <1>10, OnlyMoves DEF CallCloser, JaegerOf
    <2> QED BY <1>7, <2>1, <2>2 DEF Accounted
  <1>11. CASE ForgetCloser(u)
    <2>1. jaegerCloser \in shut /\ UNCHANGED <<made, shut>>
      BY <1>11 DEF ForgetCloser, Accounted
    <2>2. pc'[u] = "unlock"
      BY <1>11, OnlyMoves, ConfigAssumption DEF ForgetCloser, AfterJaeger
    <2> QED BY <1>7, <2>1, <2>2 DEF Accounted
  <1> QED BY <1>8, <1>9, <1>10, <1>11 DEF CloseJaeger

LEMMA AccountedKept == DiagnosticsInv /\ Accounted /\ [Next]_vars => Accounted'
  <1> SUFFICES ASSUME DiagnosticsInv, Accounted, [Next]_vars PROVE Accounted'
    OBVIOUS
  <1>1. CASE UNCHANGED vars
    BY <1>1 DEF vars, Accounted, jaeger, calls
  <1>2. ASSUME NEW u \in Updater, NEW c \in Configs, UpdateConfig(u, c) PROVE Accounted'
    <2>1. UNCHANGED jaeger /\ Goto(u, "lock")
      BY <1>2 DEF UpdateConfig
    <2>2. pc'[u] = "lock" /\ \A v \in Actor \ {u}: pc'[v] = pc[v]
      BY <2>1, OnlyMoves DEF DiagnosticsInv, Actor
    <2> QED BY <2>1, <2>2, ConfigAssumption DEF Accounted, jaeger, Actor
  <1>3. ASSUME NEW u \in Updater, UpdateStep(u) PROVE Accounted'
    <2>1. CASE pc[Closer] = "idle"
      BY <1>3, <2>1, AccountedStep
    <2>2. CASE pc[Closer] # "idle"
      <3>1. pc' = pc \/ \E place \in Place: Goto(u, place)
        BY <1>3 DEF UpdateStep, Lock, UpdatePprof, UpdateGops, UpdateJaeger, InitJaeger,
           CloseJaeger, CheckCloser, CallCloser, ForgetCloser, AfterJaeger, Unlock, Place
      <3>2. pc'[Closer] = pc[Closer]
        BY <3>1, OnlyMoves DEF DiagnosticsInv
      <3> QED BY <2>2, <3>2 DEF Accounted
    <2> QED BY <2>1, <2>2
  <1>4. CASE Serve
    BY <1>4 DEF Serve, Accounted, jaeger, calls
  <1>5. CASE StartClose \/ CloseStep
    <2>1. pc'[Closer] # "idle"
      <3>1. \/ pc' = pc /\ pc[Closer] # "idle"
            \/ \E place \in Place \ {"idle"}: pc' = [pc EXCEPT ![Closer] = place]
        BY <1>5 DEF StartClose, CloseStep, CloseJaeger, CheckCloser, CallCloser,
           ForgetCloser, AfterJaeger, CloseGops, ClosePprof, Goto, Place
      <3>2. Closer \in DOMAIN pc
        BY DEF DiagnosticsInv, TypeOK, Actor
      <3> QED BY <3>1, <3>2
    <2> QED BY <2>1 DEF Accounted
  <1> QED BY <1>1, <1>2, <1>3, <1>4, <1>5 DEF Next

(* Between two updates every tracer ever made is closed, but the one in    *)
(* use; and no update closes one twice.                                    *)
THEOREM TracersAreClosed == Spec => []NoTracerLeaks
  <1>1. DiagnosticsInv /\ Accounted => NoTracerLeaks
    <2> SUFFICES ASSUME DiagnosticsInv, Accounted PROVE NoTracerLeaks
      OBVIOUS
    <2>1. ASSUME Settled PROVE shut = (1..made) \ {jaegerCloser}
      <3>1. \A v \in Updater: ~ AtCloser(v)
        BY <2>1, NobodyUpdates DEF DiagnosticsInv, Settled, AtCloser
      <3>2. jaegerCloser \notin shut /\ shut \subseteq 1..made
        BY <2>1, <3>1 DEF DiagnosticsInv, JaegerState, JaegerBounds, InStep, Settled
      <3>3. 1..made \subseteq shut \cup {jaegerCloser}
        BY <2>1 DEF Accounted, Settled
      <3> QED BY <3>2, <3>3
    <2> QED BY <2>1 DEF NoTracerLeaks, Accounted
  <1> QED BY <1>1, AccountedInit, AccountedKept, DiagnosticsInvariant, PTL DEF Spec

(* An update, whatever it asks for, never brings the gops agent or the     *)
(* pprof server back: both can only be had from NewRuntimeDiagnostics.     *)
THEOREM UpdatesOnlySwitchOff == Spec => OnlySwitchOff
  <1>1. DiagnosticsInv /\ [Next]_vars => [NothingComesBack]_vars
    <2> SUFFICES ASSUME DiagnosticsInv, Next PROVE NothingComesBack
      OBVIOUS
    <2>1. CASE UNCHANGED fields
      BY <2>1 DEF NothingComesBack, fields
    <2>2. ASSUME NEW u \in Updater, UpdatePprof(u) \/ UpdateGops(u) PROVE NothingComesBack
      BY <2>2 DEF UpdatePprof, UpdateGops, isChangeInConfig, PprofIsNil, GopsIsNil,
         safeClosePprof, NothingComesBack
    <2>3. CASE Serve \/ CloseGops \/ ClosePprof
      BY <2>3 DEF Serve, CloseGops, ClosePprof, safeClosePprof, NothingComesBack
    <2>4. \/ UNCHANGED fields
          \/ \E u \in Updater: UpdatePprof(u) \/ UpdateGops(u)
          \/ Serve \/ CloseGops \/ ClosePprof
      BY DEF Next, UpdateConfig, UpdateStep, Lock, UpdateJaeger, InitJaeger,
         CloseJaeger, CheckCloser, CallCloser, ForgetCloser, Unlock, StartClose, CloseStep
    <2> QED BY <2>1, <2>2, <2>3, <2>4
  <1> QED BY <1>1, DiagnosticsInvariant, PTL DEF Spec, OnlySwitchOff
=============================================================================
