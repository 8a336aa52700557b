---------------------------- MODULE Sentry_proofs ----------------------------
(***************************************************************************)
(* Proofs about the sentry writer, for any number of callers, any levels   *)
(* and any configurations.                                                 *)
(***************************************************************************)
EXTENDS Sentry, TLAPS

Reading == {"dsn", "level", "capture", "unlock"}

(* A goroutine that reads, and no other, holds the read lock, and nobody   *)
(* holds it while an update writes.                                        *)
LocksExclude ==
    /\ \A c \in Caller: pc[c] \in Reading <=> c \in readers
    /\ updater \notin {"idle", "lock"} => readers = {}
    /\ updater # "idle" => update \in Config

(* Whoever does not see a write under way sees the configuration in force, *)
(* and what a call has read is of it.                                      *)
OneConfig ==
    /\ updater \in {"idle", "lock"} => inForce = <<minLevel, dsn, client>>
    /\ \A c \in Caller: pc[c] \in {"level", "capture"} =>
           seen[c][1] = minLevel /\ seen[c][2] = dsn

SentryInv == TypeOK /\ LocksExclude /\ OneConfig

(* Without a first configuration there is no writer, and only then.        *)
WriterFromStart ==
    /\ exists <=> first # Nil
    /\ crashed = "nil sentry writer" => first = Nil

(* What the next step of a caller, and of an update, waits for.            *)
CanGoOn(c) ==
    \/ pc[c] = "rlock" /\ ReadLockFree
    \/ pc[c] \in {"dsn", "level", "unlock"}
    \/ pc[c] = "capture" /\ InternalLogGoesOn

UpdateGoesOn ==
    \/ updater = "lock" /\ readers = {}
    \/ updater \in {"level", "dsn", "unlock"}
    \/ updater = "client" /\ (update.enable /\ update.dsn \notin ValidDsn
                                 => InternalLogGoesOn)

(* A call that has the read lock waits for nobody, one that wants it waits *)
(* for an update, and an update only for calls that have it.               *)
WaitsEnd ==
    /\ \A c \in Caller: pc[c] # "idle" =>
           CanGoOn(c) \/ (pc[c] = "rlock" /\ updater # "idle")
    /\ updater # "idle" =>
           \/ UpdateGoesOn
           \/ updater = "lock" /\ \E c \in Caller: pc[c] \in Reading /\ CanGoOn(c)

-----------------------------------------------------------------------------
LEMMA Levels == /\ InfoLevel \in Level /\ DebugLevel \in Level
                /\ \A l \in LogLevels: l \in Level
  BY ConfigAssumption DEF Level, InfoLevel, DebugLevel, FatalLevel

LEMMA Pair == \A S, T: \A x \in S \X T: x = <<x[1], x[2]>>
  OBVIOUS

LEMMA SentryInit == Init => SentryInv
  <1> SUFFICES ASSUME Init PROVE SentryInv
    OBVIOUS
  <1>1. first \in Config \cup {Nil} /\ (first # Nil => first \in Config)
    BY ConfigAssumption DEF Init
  <1>2. NoDsn \in Dsn
    BY DsnAssumption
  <1>3. InitialDsn(first) \in Dsn /\ InitialClient(first) \in Dsn \cup {Nil}
    BY <1>1, <1>2 DEF InitialDsn, InitialClient, Config
  <1>4. minLevel \in Level
    BY <1>1, Levels DEF Init, Config
  <1>5. TypeOK
    BY <1>1, <1>2, <1>3, <1>4, Levels, ConfigAssumption DEF Init, TypeOK, Unread
  <1> QED BY <1>5 DEF Init, SentryInv, LocksExclude, Reading, OneConfig

(* What a step of a caller, of main or of Close may touch, and its types.   *)
LEMMA TypesKept ==
    ASSUME TypeOK, UNCHANGED <<writer, inForce>>,
           readers' \subseteq Caller,
           pc' \in [Caller -> {"idle", "rlock", "dsn", "level", "capture", "unlock"}],
           lvl' \in [Caller -> Level], seen' \in [Caller -> Level \X Dsn],
           updater' \in {"idle", "lock", "level", "dsn", "client", "unlock"},
           update' \in Config \cup {Nil}, main' \in {"runs", "panics", "ended"},
           missed' \subseteq {"panic", "fatal", "main"},
           crashed' \in {"no", "exit", "nil sentry writer"}
    PROVE  TypeOK'
  <1>1. /\ exists' \in BOOLEAN /\ minLevel' \in Level /\ dsn' \in Dsn
        /\ client' \in Dsn \cup {Nil} /\ traceLevel' \in Level
        /\ first' \in Config \cup {Nil}
    BY DEF TypeOK, writer
  <1>2. inForce' \in Level \X Dsn \X (Dsn \cup {Nil})
    BY DEF TypeOK
  <1> QED BY <1>1, <1>2 DEF TypeOK

(* The steps of callers keep the types.                                    *)
LEMMA CallerTypes ==
    ASSUME TypeOK, NEW c \in Caller,
           \/ \E l \in Level: Log(c, l)
           \/ Debugf(c) \/ Panic(c) \/ Fatal(c) \/ Step(c)
    PROVE  TypeOK'
  <1>1. /\ pc \in [Caller -> {"idle", "rlock", "dsn", "level", "capture", "unlock"}]
        /\ readers \subseteq Caller /\ lvl \in [Caller -> Level]
        /\ seen \in [Caller -> Level \X Dsn]
        /\ updater \in {"idle", "lock", "level", "dsn", "client", "unlock"}
        /\ update \in Config \cup {Nil} /\ main \in {"runs", "panics", "ended"}
        /\ missed \subseteq {"panic", "fatal", "main"}
        /\ crashed \in {"no", "exit", "nil sentry writer"}
        /\ minLevel \in Level /\ dsn \in Dsn
    BY DEF TypeOK
  <1>2. ASSUME NEW l \in Level, Log(c, l) PROVE TypeOK'
    BY <1>1, <1>2, TypesKept DEF Log, Goto, ghosts
  <1>3. CASE Debugf(c)
    BY <1>2, <1>3, Levels DEF Debugf
  <1>4. CASE Panic(c)
    BY <1>1, <1>4, TypesKept DEF Panic, callers
  <1>5. CASE Fatal(c)
    BY <1>1, <1>5, TypesKept DEF Fatal, callers
  <1>6. CASE ReadLock(c)
    BY <1>1, <1>6, TypesKept DEF ReadLock, Goto, ghosts
  <1>7. CASE CheckDsn(c)
    BY <1>1, <1>7, TypesKept DEF CheckDsn, Goto, ghosts
  <1>8. CASE CheckLevel(c)
    BY <1>1, <1>8, TypesKept DEF CheckLevel, Goto, ghosts
  <1>9. CASE Capture(c)
    BY <1>1, <1>9, TypesKept DEF Capture, Goto, ghosts
  <1>10. CASE ReadUnlock(c)
    <2>1. Unread \in Level \X Dsn /\ InfoLevel \in Level
      BY Levels, DsnAssumption DEF Unread
    <2> QED BY <1>1, <1>10, <2>1, TypesKept DEF ReadUnlock, Goto, ghosts
  <1> QED BY <1>2, <1>3, <1>4, <1>5, <1>6, <1>7, <1>8, <1>9, <1>10 DEF Step

(* A step of a caller leaves the writer and the configuration goroutine.   *)
LEMMA CallerStep ==
    ASSUME SentryInv, NEW c \in Caller,
           \/ \E l \in Level: Log(c, l)
           \/ Debugf(c) \/ Panic(c) \/ Fatal(c) \/ Step(c)
    PROVE  LocksExclude' /\ OneConfig'
  <1> USE DEF LocksExclude, Reading, OneConfig
  <1>1. /\ LocksExclude /\ OneConfig
        /\ pc \in [Caller -> {"idle", "rlock", "dsn", "level", "capture", "unlock"}]
        /\ readers \subseteq Caller /\ seen \in [Caller -> Level \X Dsn]
    BY DEF SentryInv, TypeOK
  <1>2. ASSUME NEW l \in Level, Log(c, l) PROVE LocksExclude' /\ OneConfig'
    <2>1. PICK p \in {"rlock", "idle"}: pc' = [pc EXCEPT ![c] = p]
      BY <1>2 DEF Log, Goto
    <2> QED BY <1>1, <1>2, <2>1 DEF Log, writer, ghosts
  <1>3. CASE Debugf(c)
    BY <1>2, <1>3, Levels DEF Debugf
  <1>4. CASE Panic(c)
    BY <1>1, <1>4 DEF Panic, writer, callers
  <1>5. CASE Fatal(c)
    BY <1>1, <1>5 DEF Fatal, writer, callers
  <1>6. CASE ReadLock(c)
    BY <1>1, <1>6 DEF ReadLock, ReadLockFree, Goto, writer, ghosts
  <1>7. CASE CheckDsn(c)
    BY <1>1, <1>7 DEF CheckDsn, Goto, writer, ghosts
  <1>8. CASE CheckLevel(c)
    <2>1. pc[c] = "level" /\ seen' = seen
      <3>1. pc[c] = "level" /\ seen[c] \in Level \X Dsn /\ seen[c][1] = minLevel
        BY <1>1, <1>8 DEF CheckLevel
      <3>2. <<minLevel, seen[c][2]>> = seen[c]
        <4>1. seen[c] = <<seen[c][1], seen[c][2]>>
          BY <3>1, Pair
        <4> QED BY <3>1, <4>1
      <3> QED BY <1>1, <1>8, <3>1, <3>2 DEF CheckLevel
    <2>2. PICK p \in {"unlock", "capture"}: pc' = [pc EXCEPT ![c] = p]
      BY <1>8 DEF CheckLevel, Goto
    <2> QED BY <1>1, <1>8, <2>1, <2>2 DEF CheckLevel, writer, ghosts
  <1>9. CASE Capture(c)
    BY <1>1, <1>9 DEF Capture, Goto, writer, ghosts
  <1>10. CASE ReadUnlock(c)
    BY <1>1, <1>10 DEF ReadUnlock, Goto, writer, ghosts
  <1> QED BY <1>2, <1>3, <1>4, <1>5, <1>6, <1>7, <1>8, <1>9, <1>10 DEF Step

(* Only an update that holds the lock changes the writer, when nobody      *)
(* reads.                                                                  *)
LEMMA UpdaterKeeps ==
    ASSUME SentryInv, (\E u \in Updates: StartUpdate(u)) \/ UpdaterStep
    PROVE  SentryInv'
  <1> USE DEF SentryInv, LocksExclude, Reading, OneConfig
  <1>1. ASSUME NEW u \in Updates, StartUpdate(u) PROVE SentryInv'
    BY <1>1, ConfigAssumption DEF TypeOK, StartUpdate, writer, callers, ghosts
  <1>2. CASE Lock
    BY <1>2 DEF TypeOK, Lock, writer, callers, ghosts
  <1>3. CASE SetLevel
    BY <1>3 DEF TypeOK, SetLevel, Config, callers, ghosts
  <1>4. CASE SetDsn
    BY <1>4 DEF TypeOK, SetDsn, Config, callers, ghosts
  <1>5. CASE SetClient
    <2>1. client' \in Dsn \cup {Nil}
      BY <1>5, DsnAssumption DEF TypeOK, SetClient, Config
    <2>2. inForce' \in Level \X Dsn \X (Dsn \cup {Nil})
      BY <1>5 DEF TypeOK, SetClient, ghosts
    <2>3. TypeOK'
      BY <1>5, <2>1, <2>2 DEF TypeOK, SetClient, callers, ghosts
    <2>4. LocksExclude' /\ OneConfig'
      BY <1>5 DEF TypeOK, SetClient, callers, ghosts
    <2> QED BY <2>3, <2>4
  <1>6. CASE Unlock
    BY <1>6 DEF TypeOK, Unlock, writer, callers
  <1> QED BY <1>1, <1>2, <1>3, <1>4, <1>5, <1>6 DEF UpdaterStep

LEMMA SentryStep == SentryInv /\ [Next]_vars => SentryInv'
  <1> SUFFICES ASSUME SentryInv, [Next]_vars PROVE SentryInv'
    OBVIOUS
  <1>1. ASSUME NEW c \in Caller, NEW l \in LogLevels, Log(c, l) PROVE SentryInv'
    BY <1>1, Levels, CallerTypes, CallerStep DEF SentryInv
  <1>2. ASSUME NEW c \in Caller, Debugf(c) \/ Panic(c) \/ Fatal(c) \/ Step(c)
        PROVE  SentryInv'
    BY <1>2, CallerTypes, CallerStep DEF SentryInv
  <1>3. CASE MainPanics \/ Close \/ UNCHANGED vars
    <2>1. /\ UNCHANGED <<writer, callers, updater, update, inForce>>
          /\ main' \in {"runs", "panics", "ended"}
          /\ missed' \subseteq {"panic", "fatal", "main"}
          /\ crashed' \in {"no", "exit", "nil sentry writer"}
      BY <1>3 DEF MainPanics, Close, vars, ghosts, SentryInv, TypeOK
    <2>2. TypeOK'
      <3>1. /\ pc \in [Caller -> {"idle", "rlock", "dsn", "level", "capture", "unlock"}]
            /\ readers \subseteq Caller /\ lvl \in [Caller -> Level]
            /\ seen \in [Caller -> Level \X Dsn]
            /\ updater \in {"idle", "lock", "level", "dsn", "client", "unlock"}
            /\ update \in Config \cup {Nil}
        BY DEF SentryInv, TypeOK
      <3> QED BY <2>1, <3>1, TypesKept DEF SentryInv, callers
    <2>3. LocksExclude' /\ OneConfig'
      BY <2>1 DEF SentryInv, LocksExclude, OneConfig, writer, callers
    <2> QED BY <2>2, <2>3 DEF SentryInv
  <1> QED BY <1>1, <1>2, <1>3, UpdaterKeeps DEF Next

(* Readers and updates of the writer exclude each other.                   *)
THEOREM SentryInvariant == Spec => []SentryInv
  BY SentryInit, SentryStep, PTL DEF Spec

(* The types of the writer's state, of its callers' and of its updates'.   *)
THEOREM SentryTyping == Spec => []TypeOK
  BY SentryInvariant, PTL DEF SentryInv

(* A message is judged by the level and the DSN, and sent with the client, *)
(* of one configuration: the one in force.                                 *)
THEOREM OneConfigurationReports == Spec => ReportsSeeOneConfig
  <1> DEFINE Consistent == \A c \in Caller:
                 pc[c] = "capture" /\ pc'[c] # "capture"
                     => <<seen[c][1], seen[c][2], client>> = inForce
  <1>1. SentryInv => Consistent
    BY DEF SentryInv, LocksExclude, Reading, OneConfig
  <1>2. SentryInv /\ [Next]_vars => [Consistent]_vars
    BY <1>1
  <1> QED BY <1>2, SentryInvariant, PTL DEF Spec, ReportsSeeOneConfig

(* Logging while the configuration is updated, and updating while others   *)
(* log, never wait for each other in a circle, although each logs under    *)
(* the writer's lock.                                                      *)
THEOREM CallsNeverStuck == Spec => []WaitsEnd
  <1>1. SentryInv => WaitsEnd
    <2> SUFFICES ASSUME SentryInv PROVE WaitsEnd
      OBVIOUS
    <2>1. InternalLogGoesOn
      BY DEF InternalLogGoesOn, InternalLoggerReports
    <2>2. ASSUME NEW c \in Caller, pc[c] # "idle"
          PROVE  CanGoOn(c) \/ (pc[c] = "rlock" /\ updater # "idle")
      BY <2>1, <2>2 DEF SentryInv, TypeOK, CanGoOn, ReadLockFree
    <2>3. ASSUME updater # "idle", ~ UpdateGoesOn
          PROVE  updater = "lock" /\ \E c \in Caller: pc[c] \in Reading /\ CanGoOn(c)
      <3>1. updater = "lock" /\ readers # {}
        BY <2>1, <2>3 DEF SentryInv, TypeOK, UpdateGoesOn
      <3>2. PICK c \in Caller: c \in readers
        BY <3>1 DEF SentryInv, TypeOK
      <3>3. pc[c] \in Reading
        BY <3>2 DEF SentryInv, LocksExclude
      <3> QED BY <2>1, <3>1, <3>3 DEF Reading, CanGoOn
    <2> QED BY <2>2, <2>3 DEF WaitsEnd
  <1> QED BY <1>1, SentryInvariant, PTL

(* An update of a manager that was made with a sentry configuration never  *)
(* finds its writer missing.                                               *)
THEOREM ConfiguredUpdatesAreSafe == Spec => [](first # Nil => SafelyApplies)
  <1>1. Init => WriterFromStart
    BY DEF Init, WriterFromStart
  <1>2. WriterFromStart /\ [Next]_vars => WriterFromStart'
    <2> SUFFICES ASSUME WriterFromStart, [Next]_vars PROVE WriterFromStart'
      OBVIOUS
    <2>1. exists' = exists /\ first' = first
      BY DEF Next, vars, Log, Debugf, Panic, Fatal, Step, ReadLock, CheckDsn,
             CheckLevel, Capture, ReadUnlock, StartUpdate, UpdaterStep, Lock, SetLevel,
             SetDsn, SetClient, Unlock, MainPanics, Close, writer
    <2>2. crashed' = "nil sentry writer" => crashed = crashed' \/ ~ exists
      BY DEF Next, vars, Log, Debugf, Panic, Fatal, Step, ReadLock, CheckDsn,
             CheckLevel, Capture, ReadUnlock, StartUpdate, UpdaterStep, Lock, SetLevel,
             SetDsn, SetClient, Unlock, MainPanics, Close
    <2> QED BY <2>1, <2>2 DEF WriterFromStart
  <1>3. WriterFromStart => (first # Nil => SafelyApplies)
    BY DEF WriterFromStart, SafelyApplies
  <1> QED BY <1>1, <1>2, <1>3, PTL DEF Spec
=============================================================================
