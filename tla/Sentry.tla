------------------------------- MODULE Sentry -------------------------------
(***************************************************************************)
(* The sentry writer of pkg/agent_libraries/logger: what the log calls of  *)
(* a logger report through it while a configuration update changes its     *)
(* minimum level, its data source name and its client, and what main's     *)
(* deferred Manager.Close reports.                                         *)
(*                                                                         *)
(* A client is named by the DSN it was created for: NoDsn for a client     *)
(* that sends nowhere, Nil for none.  What a message says, the tags and    *)
(* the fingerprint of its event are left out.                              *)
(***************************************************************************)
EXTENDS Integers

CONSTANTS
    Caller,      \* goroutines that log
    Dsn,         \* data source names
    ValidDsn,    \* those sentry.NewClient accepts
    NoDsn,       \* the empty one, which it accepts too
    Nil,         \* a nil pointer
    Configs,     \* SentryConfigs of NewManager; Nil for SentryConfig{}
    Updates,     \* SentryConfigs of configuration updates
    LogLevels,   \* levels of the log calls made
    TraceLevels  \* levels the logger may have

(* zapcore.Level. *)
DebugLevel == -1
InfoLevel == 0
ErrorLevel == 2
PanicLevel == 4
FatalLevel == 5
Level == DebugLevel..FatalLevel

Unread == <<InfoLevel, NoDsn>>

Config == [enable: BOOLEAN, level: Level, dsn: Dsn]

ASSUME DsnAssumption ==
    /\ ValidDsn \subseteq Dsn /\ NoDsn \in ValidDsn /\ Nil \notin Dsn

ASSUME ConfigAssumption ==
    /\ Configs \subseteq Config \cup {Nil} /\ Updates \subseteq Config
    /\ LogLevels \subseteq Level /\ TraceLevels \subseteq Level

VARIABLES
    exists,      \* m.sentryWriter, and the default logger's, are not nil
    minLevel,    \* sentryWriter.Level
    dsn,         \* sentryWriter.options.Dsn
    client,      \* sentryWriter.client
    traceLevel,  \* the logger's level
    first,       \* m.conf.SentryConfig
    readers,     \* callers holding the writer's read lock
    pc,          \* of each caller
    lvl,         \* the level of its log call
    seen,        \* ghost: the minLevel and dsn its call has read
    updater,     \* place of the configuration goroutine
    update,      \* the update it applies
    main,        \* "runs", "panics", "ended"
    inForce,     \* ghost: the minLevel, dsn and client of the last update done
    missed,      \* ghost: the panics and exits sentry was not told of
    crashed      \* "no", or what ended the process

writer == <<exists, minLevel, dsn, client, traceLevel, first>>
callers == <<readers, pc, lvl, seen>>
ghosts == <<inForce, missed>>
vars == <<writer, callers, updater, update, main, ghosts, crashed>>

-----------------------------------------------------------------------------
(* Mutant: the DSN is left nil with the client, and is not the empty one.  *)
InitialDsnNil(c) == IF c # Nil /\ c.enable THEN c.dsn ELSE Nil

(* initSentryDiagnostics: a disabled or empty configuration leaves the     *)
(* options without a DSN, and one sentry.NewClient rejects leaves no       *)
(* client.                                                                 *)
InitialDsn(c) == IF c # Nil /\ c.enable THEN c.dsn ELSE NoDsn
InitialClient(c) ==
    IF c # Nil /\ c.enable /\ c.dsn # NoDsn /\ c.dsn \in ValidDsn
    THEN c.dsn ELSE Nil

(* NewManager and newSentryLogger: SentryConfig{} makes no writer, and     *)
(* nothing makes one later.                                                *)
Init ==
    /\ first \in Configs
    /\ exists = (first # Nil)
    /\ minLevel = IF first = Nil THEN InfoLevel ELSE first.level
    /\ dsn = InitialDsn(first)
    /\ client = InitialClient(first)
    /\ traceLevel \in TraceLevels
    /\ readers = {}
    /\ pc = [c \in Caller |-> "idle"]
    /\ lvl = [c \in Caller |-> InfoLevel]
    /\ seen = [c \in Caller |-> Unread]
    /\ updater = "idle" /\ update = Nil
    /\ main = "runs"
    /\ missed = {}
    /\ inForce = <<minLevel, dsn, client>>
    /\ crashed = "no"

Goto(c, place) == pc' = [pc EXCEPT ![c] = place]

(* Mutant: sendSentryMessage reads without the lock.                       *)
NoReadLock == TRUE

(* sync.RWMutex: a waiting writer keeps new readers out.                   *)
ReadLockFree == updater = "idle"

(* Mutant: the default logger has its sentry writer before the sub-logger  *)
(* of the writer is made.                                                  *)
SentryFirst == TRUE

(* The writer's own logger is made while the default logger has no sentry  *)
(* writer, and copies that: its messages are not reported, so that logging *)
(* under the lock does not take the lock again.                            *)
InternalLoggerReports == FALSE
InternalLogGoesOn == InternalLoggerReports => ReadLockFree

-----------------------------------------------------------------------------
(* The log calls.  The zap logger comes first: Panic panics there, and     *)
(* Fatal exits.  Debugf returns at once below the trace level, Debug not.  *)
Log(c, l) ==
    /\ pc[c] = "idle" /\ l < PanicLevel
    /\ lvl' = IF exists THEN [lvl EXCEPT ![c] = l] ELSE lvl
    /\ Goto(c, IF exists THEN "rlock" ELSE "idle")
    /\ UNCHANGED <<writer, readers, seen, updater, update, main, ghosts, crashed>>

Debugf(c) ==
    /\ traceLevel <= DebugLevel
    /\ Log(c, DebugLevel)

Panic(c) ==
    /\ pc[c] = "idle"
    /\ missed' = missed \cup {"panic"}
    /\ UNCHANGED <<writer, callers, updater, update, main, inForce, crashed>>

Fatal(c) ==
    /\ pc[c] = "idle"
    /\ missed' = missed \cup {"fatal"}
    /\ crashed' = "exit"
    /\ UNCHANGED <<writer, callers, updater, update, main, inForce>>

(* sendSentryMessage, read by read: another goroutine may be at any other. *)
ReadLock(c) ==
    /\ pc[c] = "rlock" /\ ReadLockFree
    /\ readers' = readers \cup {c}
    /\ Goto(c, "dsn")
    /\ UNCHANGED <<writer, lvl, seen, updater, update, main, ghosts, crashed>>

CheckDsn(c) ==
    /\ pc[c] = "dsn"
    /\ seen' = [seen EXCEPT ![c] = <<minLevel, dsn>>]
    /\ Goto(c, IF dsn = NoDsn THEN "unlock" ELSE "level")
    /\ UNCHANGED <<writer, readers, lvl, updater, update, main, ghosts, crashed>>

CheckLevel(c) ==
    /\ pc[c] = "level"
    /\ seen' = [seen EXCEPT ![c] = <<minLevel, @[2]>>]
    /\ Goto(c, IF minLevel > lvl[c] THEN "unlock" ELSE "capture")
    /\ UNCHANGED <<writer, readers, lvl, updater, update, main, ghosts, crashed>>

(* The hub is made with the client of now, its use is logged, and the      *)
(* message is captured.                                                    *)
Capture(c) ==
    /\ pc[c] = "capture" /\ InternalLogGoesOn
    /\ Goto(c, "unlock")
    /\ UNCHANGED <<writer, readers, lvl, seen, updater, update, main, ghosts,
                   crashed>>

ReadUnlock(c) ==
    /\ pc[c] = "unlock"
    /\ readers' = readers \ {c}
    /\ Goto(c, "idle")
    /\ seen' = [seen EXCEPT ![c] = Unread]
    /\ lvl' = [lvl EXCEPT ![c] = InfoLevel]
    /\ UNCHANGED <<writer, updater, update, main, ghosts, crashed>>

-----------------------------------------------------------------------------
(* The sentry part of safeUpdateConfig: updateSentryConfig of the writer,  *)
(* which has to exist to be locked.                                        *)
StartUpdate(u) ==
    /\ updater = "idle"
    /\ update' = u
    /\ \/ exists /\ updater' = "lock" /\ UNCHANGED crashed
       \/ ~ exists /\ crashed' = "nil sentry writer" /\ UNCHANGED updater
    /\ UNCHANGED <<writer, callers, main, ghosts>>

Lock ==
    /\ updater = "lock" /\ readers = {}
    /\ updater' = "level"
    /\ UNCHANGED <<writer, callers, update, main, ghosts, crashed>>

SetLevel ==
    /\ updater = "level"
    /\ minLevel' = update.level
    /\ updater' = "dsn"
    /\ UNCHANGED <<exists, dsn, client, traceLevel, first, callers, update,
                   main, ghosts, crashed>>

SetDsn ==
    /\ updater = "dsn"
    /\ dsn' = update.dsn
    /\ updater' = "client"
    /\ UNCHANGED <<exists, minLevel, client, traceLevel, first, callers,
                   update, main, ghosts, crashed>>

(* A disabled writer gets an empty client; a rejected DSN is logged, and   *)
(* the old client stays.                                                   *)
SetClient ==
    /\ updater = "client"
    /\ \/ /\ ~ update.enable
          /\ client' = NoDsn
       \/ /\ update.enable /\ update.dsn \in ValidDsn
          /\ client' = update.dsn
       \/ /\ update.enable /\ update.dsn \notin ValidDsn
          /\ InternalLogGoesOn
          /\ UNCHANGED client
    /\ updater' = "unlock"
    /\ UNCHANGED <<exists, minLevel, dsn, traceLevel, first, callers, update,
                   main, ghosts, crashed>>

Unlock ==
    /\ updater = "unlock"
    /\ updater' = "idle" /\ update' = Nil
    /\ inForce' = <<minLevel, dsn, client>>
    /\ UNCHANGED <<writer, callers, main, missed, crashed>>

-----------------------------------------------------------------------------
(* main defers Manager.Close, and returns or panics.                       *)
MainPanics ==
    /\ main = "runs"
    /\ main' = "panics"
    /\ UNCHANGED <<writer, callers, updater, update, ghosts, crashed>>

(* recover returns the panic only to the function that was deferred; Close *)
(* is, and RecoverRepanicSentry, which Close calls, is not.  Close waits   *)
(* for an update under way, which holds confLock.                          *)
Deferred == "Close"
RecoveredIn(function) == main = "panics" /\ function = Deferred

Close ==
    /\ main # "ended" /\ updater = "idle"
    /\ missed' = IF main = "panics"
                    /\ ~ (first # Nil /\ first.enable
                          /\ RecoveredIn("RecoverRepanicSentry"))
                 THEN missed \cup {"main"} ELSE missed
    /\ main' = "ended"
    /\ crashed' = "exit"
    /\ UNCHANGED <<writer, callers, updater, update, inForce>>

-----------------------------------------------------------------------------
Step(c) == ReadLock(c) \/ CheckDsn(c) \/ CheckLevel(c) \/ Capture(c) \/ ReadUnlock(c)
UpdaterStep == Lock \/ SetLevel \/ SetDsn \/ SetClient \/ Unlock

Next ==
    /\ crashed = "no"
    /\ \/ \E c \in Caller: \E l \in LogLevels: Log(c, l)
       \/ \E c \in Caller: Debugf(c)
       \/ PanicLevel \in LogLevels /\ \E c \in Caller: Panic(c)
       \/ FatalLevel \in LogLevels /\ \E c \in Caller: Fatal(c)
       \/ \E c \in Caller: Step(c)
       \/ \E u \in Updates: StartUpdate(u)
       \/ UpdaterStep
       \/ MainPanics \/ Close

(* Goroutines run on; a reader kept out by writers is let in between two   *)
(* of them, as sync.RWMutex does.                                          *)
Fairness ==
    /\ \A c \in Caller: SF_vars(crashed = "no" /\ Step(c))
    /\ WF_vars(crashed = "no" /\ UpdaterStep)

Spec == Init /\ [][Next]_vars
FairSpec == Spec /\ Fairness

-----------------------------------------------------------------------------
TypeOK ==
    /\ exists \in BOOLEAN
    /\ minLevel \in Level /\ dsn \in Dsn /\ client \in Dsn \cup {Nil}
    /\ traceLevel \in Level /\ first \in Config \cup {Nil}
    /\ readers \subseteq Caller
    /\ pc \in [Caller -> {"idle", "rlock", "dsn", "level", "capture", "unlock"}]
    /\ lvl \in [Caller -> Level]
    /\ seen \in [Caller -> Level \X Dsn]
    /\ updater \in {"idle", "lock", "level", "dsn", "client", "unlock"}
    /\ update \in Config \cup {Nil}
    /\ main \in {"runs", "panics", "ended"}
    /\ inForce \in Level \X Dsn \X (Dsn \cup {Nil})
    /\ missed \subseteq {"panic", "fatal", "main"}
    /\ crashed \in {"no", "exit", "nil sentry writer"}

(* A message is checked against the DSN and the minimum level, and sent    *)
(* with the client, of the configuration in force, although an update      *)
(* changes them one after the other: it never passes the old minimum and   *)
(* goes to the new address.                                                *)
ReportsSeeOneConfig ==
    [][\A c \in Caller: pc[c] = "capture" /\ pc'[c] # "capture"
          => <<seen[c][1], seen[c][2], client>> = inForce]_vars

(* Logging while the configuration is updated, and updating while others   *)
(* log, both end, although each logs through a logger under the lock.      *)
CallsReturn ==
    /\ \A c \in Caller: pc[c] # "idle" ~> (pc[c] = "idle" \/ crashed # "no")
    /\ updater # "idle" ~> (updater = "idle" \/ crashed # "no")

-----------------------------------------------------------------------------
(* What sentry.go:24 says of Level: it is the "minimum logger level to     *)
(* report to sentry"; a panic or fatal message is at any minimum.          *)
PanicsAreReported == exists /\ dsn # NoDsn => missed \cap {"panic", "fatal"} = {}

(* What manager.go:51 says of Close: it "checks for panic for reporting to *)
(* sentry" where it is deferred in main.                                   *)
MainPanicIsReported == client # Nil => "main" \notin missed

(* What sentry.go:22 says of a disabled configuration: it "will be saved   *)
(* and will be used when enabled later".                                   *)
SavedConfigIsUsed ==
    first # Nil /\ first.dsn # NoDsn /\ updater = "idle" /\ client # Nil
        => dsn # NoDsn

(* What sentry.go:58 says: updateSentryConfig "safely applies new          *)
(* SentryConfig".                                                          *)
SafelyApplies == crashed # "nil sentry writer"
=============================================================================
