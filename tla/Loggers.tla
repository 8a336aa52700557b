------------------------------- MODULE Loggers -------------------------------
(***************************************************************************)
(* The logger manager of pkg/agent_libraries/logger and its tree of        *)
(* loggers, used by several goroutines at once.                            *)
(*                                                                         *)
(* The manager keeps a map of the loggers it has handed out, each a child  *)
(* of the default logger, under confLock.  Every logger keeps a map of its *)
(* sub-loggers under a lock of its own.  Their zap level is one shared     *)
(* cell: zap.AtomicLevel is a handle, and a sub-logger copies it.          *)
(*                                                                         *)
(* A call is cut where a goroutine can be overtaken: at every lock it has  *)
(* to wait for, at every read it makes without one, and before a write to  *)
(* a map that others read without its lock.  A section under a read lock   *)
(* only looks one entry up and is a single step.  A call first appears     *)
(* when it gets its first lock; calls that return an error change nothing. *)
(***************************************************************************)
EXTENDS Naturals, Sequences, FiniteSets

CONSTANTS
    Caller,       \* goroutines that call the manager and the loggers
    Updater,      \* the goroutine of waitForConfigUpdate
    Name,         \* logger names other than DefaultLoggerName
    LastPart,     \* what follows the last period of each name
    Level,        \* zapcore.Level
    LoggerId,     \* identities of logger structs
    Root,         \* the default logger
    SentryName, SentryLogger,  \* the sub-logger NewManager makes
    FirstLevels,  \* conf.DefaultTraceLevel of NewManager
    ResetLevels,  \* the levels given to ResetTraceLevel
    SetLevels,    \* the levels given to the two SetTraceLevel
    Updates,      \* the LogTraceLevel maps of configuration updates
    None

DefaultLoggerName == ""
LoggerName == Name \cup {DefaultLoggerName}
Goroutine == Caller \cup {Updater}

ASSUME NamesAssumption ==
    /\ DefaultLoggerName \notin Name /\ SentryName \in Name
    /\ LastPart \in [LoggerName -> LoggerName]

ASSUME IdsAssumption ==
    /\ Root \in LoggerId /\ SentryLogger \in LoggerId /\ Root # SentryLogger
    /\ None \notin LoggerId /\ None \notin Caller \cup {Updater}
    /\ Updater \notin Caller

ASSUME FiniteAssumption == IsFiniteSet(Caller) /\ IsFiniteSet(LoggerId)

ASSUME LevelsAssumption ==
    /\ FirstLevels \subseteq Level /\ ResetLevels \subseteq Level
    /\ SetLevels \subseteq Level
    /\ \A u \in Updates: DOMAIN u \subseteq LoggerName
                         /\ \A n \in DOMAIN u: u[n] \in Level

VARIABLES
    subLoggers,    \* the sub-loggers of each logger, by name
    made,          \* the loggers that exist
    loggers,       \* m.loggers, but for its constant entry of the default name
    level,         \* the cell behind every level handle
    defaultLevel,  \* m.conf.DefaultTraceLevel
    confLock,      \* who holds m.confLock for writing
    held,          \* who holds the lock of each logger
    pc, call,      \* of each goroutine: its place, and its call in progress
    handed,        \* every answer of GetOrCreate..., with parent and name
    crashed        \* "no", or what brought the process down

vars == <<subLoggers, made, loggers, level, defaultLevel, confLock, held, pc,
          call, handed, crashed>>

-----------------------------------------------------------------------------
NoCall == [op |-> "none", logger |-> None, name |-> None, child |-> None,
           level |-> None, todo |-> {}, path |-> <<>>]

(* m.loggers[name]. *)
Lookup(n) == IF n = DefaultLoggerName THEN Root ELSE loggers[n]

Registered == {Lookup(n) : n \in LoggerName} \ {None}

Children(l) == {subLoggers[l][n] : n \in Name} \ {None}

(* A goroutine is inside its write to m.loggers, or to l.subLoggers: a     *)
(* read without the lock may now be the runtime's fatal map error.         *)
MapBeingWritten == \E d \in Goroutine: pc[d] = "insert"
SubLoggersBeingWritten(l) == \E d \in Goroutine: pc[d] = "add" /\ call[d].logger = l

(* Bound: a call that may create a logger finds an identity for it.        *)
Room == Cardinality({d \in Goroutine: pc[d] \in {"root", "create", "add"}})
            < Cardinality(LoggerId \ made)

-----------------------------------------------------------------------------
(* NewManager: the default logger, and under it the sentry writer's own,   *)
(* which the manager's map does not list.                                  *)
Init ==
    /\ subLoggers = [l \in LoggerId |-> [n \in Name |->
           IF l = Root /\ n = SentryName THEN SentryLogger ELSE None]]
    /\ made = {Root, SentryLogger}
    /\ loggers = [n \in Name |-> None]
    /\ level \in FirstLevels
    /\ defaultLevel = level
    /\ confLock = None
    /\ held = [l \in LoggerId |-> None]
    /\ pc = [c \in Goroutine |-> "idle"]
    /\ call = [c \in Goroutine |-> NoCall]
    /\ handed = {}
    /\ crashed = "no"

Goto(c, place) == pc' = [pc EXCEPT ![c] = place]
Hand(l, n, id) == handed' = handed \cup {<<<<l, n>>, id>>}

(* Manager.GetOrCreateLogger: the look-up under the read lock.             *)
GetOrCreateLogger(c, n) ==
    /\ pc[c] = "idle" /\ confLock = None
    /\ \/ /\ loggers[n] # None
          /\ Hand(Root, n, loggers[n])
          /\ UNCHANGED <<pc, call>>
       \/ /\ loggers[n] = None /\ Room
          /\ Goto(c, "root")
          /\ call' = [call EXCEPT ![c] = [NoCall EXCEPT !.op = "get", !.name = n]]
          /\ UNCHANGED handed
    /\ UNCHANGED <<subLoggers, made, loggers, level, defaultLevel, confLock,
                   held, crashed>>

(* The default logger is then read from the map without the lock.          *)
ReadRoot(c) ==
    /\ pc[c] = "root"
    /\ Goto(c, "create")
    /\ call' = [call EXCEPT ![c].logger = Root]
    /\ UNCHANGED <<subLoggers, made, loggers, level, defaultLevel, confLock,
                   held, handed, crashed>>

(* That read, and the one of Manager.Default, can meet an insertion.       *)
ReadRaces(c) ==
    /\ pc[c] \in {"root", "idle"} /\ MapBeingWritten
    /\ crashed' = "map race"
    /\ UNCHANGED <<subLoggers, made, loggers, level, defaultLevel, confLock,
                   held, pc, call, handed>>

(* Logger.GetOrCreateSubLogger, on a logger the caller was handed.         *)
GetOrCreateSubLogger(c, l, n) ==
    /\ pc[c] = "idle" /\ Room
    /\ Goto(c, "create")
    /\ call' = [call EXCEPT ![c] = [NoCall EXCEPT !.op = "sub", !.logger = l,
                                                  !.name = n]]
    /\ UNCHANGED <<subLoggers, made, loggers, level, defaultLevel, confLock,
                   held, handed, crashed>>

(* getOrCreateInternalSubLogger: under the parent's lock the existing      *)
(* sub-logger is returned, or a new one takes the parent's level handle.   *)
Got(c, id) ==
    /\ call' = [call EXCEPT ![c].child = id]
    /\ Goto(c, IF call[c].op = "get" THEN "default" ELSE "answer")

(* Mutant: the look-up happens before the lock is taken, as in             *)
(* GetOrCreateLogger; here it merely does not wait for the lock.           *)
LockParentWithoutLock(c) ==
    LET l == call[c].logger
        n == call[c].name
    IN  /\ pc[c] = "create"
        /\ \/ /\ subLoggers[l][n] # None
              /\ Got(c, subLoggers[l][n])
              /\ UNCHANGED held
           \/ /\ subLoggers[l][n] = None
              /\ held' = [held EXCEPT ![l] = c]
              /\ Goto(c, "add")
              /\ UNCHANGED call
        /\ UNCHANGED <<subLoggers, made, loggers, level, defaultLevel,
                       confLock, handed, crashed>>

(* Mutant: the existing sub-logger is returned without looking whether     *)
(* there is one.                                                           *)
LockParentReturnsMissing(c) ==
    /\ pc[c] = "create" /\ held[call[c].logger] = None
    /\ Got(c, subLoggers[call[c].logger][call[c].name])
    /\ UNCHANGED <<subLoggers, made, loggers, level, defaultLevel, confLock,
                   held, handed, crashed>>

LockParent(c) ==
    LET l == call[c].logger
        n == call[c].name
    IN  /\ pc[c] = "create" /\ held[l] = None
        /\ \/ /\ subLoggers[l][n] # None
              /\ Got(c, subLoggers[l][n])
              /\ UNCHANGED held
           \/ /\ subLoggers[l][n] = None
              /\ held' = [held EXCEPT ![l] = c]
              /\ Goto(c, "add")
              /\ UNCHANGED call
        /\ UNCHANGED <<subLoggers, made, loggers, level, defaultLevel,
                       confLock, handed, crashed>>

AddSubLogger(c) ==
    LET l == call[c].logger
    IN  /\ pc[c] = "add"
        /\ \E id \in LoggerId \ made:
             /\ subLoggers' = [subLoggers EXCEPT ![l][call[c].name] = id]
             /\ made' = made \cup {id}
             /\ Got(c, id)
        /\ held' = [held EXCEPT ![l] = None]
        /\ UNCHANGED <<loggers, level, defaultLevel, confLock, handed, crashed>>

(* Return from GetOrCreateSubLogger.                                       *)
Answer(c) ==
    /\ pc[c] = "answer"
    /\ Hand(call[c].logger, call[c].name, call[c].child)
    /\ Goto(c, "idle")
    /\ call' = [call EXCEPT ![c] = NoCall]
    /\ UNCHANGED <<subLoggers, made, loggers, level, defaultLevel, confLock,
                   held, crashed>>

(* GetOrCreateLogger goes on: the default level, read without the lock, is *)
(* set on the logger it got.                                               *)
ReadDefaultLevel(c) ==
    /\ pc[c] = "default"
    /\ call' = [call EXCEPT ![c].todo = {<<call[c].child, defaultLevel>>}]
    /\ Goto(c, "loop")
    /\ UNCHANGED <<subLoggers, made, loggers, level, defaultLevel, confLock,
                   held, handed, crashed>>

(* Then it inserts the logger under the lock.                              *)
LockForInsert(c) ==
    /\ pc[c] = "lock" /\ confLock = None
    /\ confLock' = c
    /\ Goto(c, "insert")
    /\ UNCHANGED <<subLoggers, made, loggers, level, defaultLevel, held, call,
                   handed, crashed>>

Insert(c) ==
    /\ pc[c] = "insert"
    /\ loggers' = [loggers EXCEPT ![call[c].name] = call[c].child]
    /\ Hand(Root, call[c].name, call[c].child)
    /\ confLock' = None
    /\ Goto(c, "idle")
    /\ call' = [call EXCEPT ![c] = NoCall]
    /\ UNCHANGED <<subLoggers, made, level, defaultLevel, held, crashed>>

-----------------------------------------------------------------------------
(* The calls that set levels: each ends in a loop over loggers, of which   *)
(* all but Logger.SetTraceLevel run under confLock.                        *)
StartLoop(c, todo) ==
    /\ Goto(c, "loop")
    /\ call' = [call EXCEPT ![c] = [NoCall EXCEPT !.op = "set", !.todo = todo]]

(* Logger.SetTraceLevel. *)
SetTraceLevel(c, l, lv) ==
    /\ pc[c] = "idle"
    /\ StartLoop(c, {<<l, lv>>})
    /\ UNCHANGED <<subLoggers, made, loggers, level, defaultLevel, confLock,
                   held, handed, crashed>>

ResetTraceLevel(c, lv) ==
    /\ pc[c] = "idle" /\ confLock = None
    /\ confLock' = c
    /\ defaultLevel' = lv
    /\ StartLoop(c, {<<l, lv>> : l \in Registered})
    /\ UNCHANGED <<subLoggers, made, loggers, level, held, handed, crashed>>

(* The LogTraceLevel part of safeUpdateConfig. *)
UpdateLevels(c, update) ==
    /\ pc[c] = "idle" /\ confLock = None
    /\ confLock' = c
    /\ StartLoop(c, {<<Lookup(n), update[n]>> :
                        n \in {m \in DOMAIN update: Lookup(m) # None}})
    /\ UNCHANGED <<subLoggers, made, loggers, level, defaultLevel, held,
                   handed, crashed>>

(* Manager.SetTraceLevel of a name in the map: localSetTraceLevel looks    *)
(* for the last part of the name below the very logger it names, without   *)
(* that logger's lock; when there is none, its error message indexes past  *)
(* the end of the list of parts.                                           *)
ManagerSetTraceLevel(c, n, lv) ==
    LET l == Lookup(n)
        part == LastPart[n]
        sub == IF part \in Name THEN subLoggers[l][part] ELSE None
    IN  /\ pc[c] = "idle" /\ confLock = None /\ l # None
        /\ \/ /\ sub # None
              /\ confLock' = c
              /\ StartLoop(c, {<<sub, lv>>})
              /\ UNCHANGED crashed
           \/ /\ sub = None
              /\ crashed' = "index out of range"
              /\ UNCHANGED <<confLock, pc, call>>
           \/ /\ SubLoggersBeingWritten(l)
              /\ crashed' = "map race"
              /\ UNCHANGED <<confLock, pc, call>>
        /\ UNCHANGED <<subLoggers, made, loggers, level, defaultLevel, held,
                       handed>>

(* The recursion: a logger's lock is held until all below it are done.     *)
Enter(c, l, lv) ==
    /\ held[l] = None
    /\ held' = [held EXCEPT ![l] = c]
    /\ level' = lv

Visit(c) ==
    /\ pc[c] = "loop" /\ call[c].path = <<>>
    /\ \E t \in call[c].todo:
         /\ Enter(c, t[1], t[2])
         /\ call' = [call EXCEPT ![c].todo = @ \ {t}, ![c].level = t[2],
                ![c].path = <<[logger |-> t[1], left |-> Children(t[1])]>>]
    /\ UNCHANGED <<subLoggers, made, loggers, defaultLevel, confLock, pc,
                   handed, crashed>>

(* Mutant: the parent is unlocked before its sub-loggers are visited.      *)
DescendUnlocked(c) ==
    LET path == call[c].path
    IN  /\ pc[c] = "loop" /\ path # <<>>
        /\ \E s \in path[Len(path)].left:
             /\ held[s] = None
             /\ held' = [held EXCEPT ![path[Len(path)].logger] = None, ![s] = c]
             /\ level' = call[c].level
             /\ call' = [call EXCEPT ![c].path =
                   Append([path EXCEPT ![Len(path)].left = @ \ {s}],
                          [logger |-> s, left |-> Children(s)])]
        /\ UNCHANGED <<subLoggers, made, loggers, defaultLevel, confLock, pc,
                       handed, crashed>>

Descend(c) ==
    LET path == call[c].path
    IN  /\ pc[c] = "loop" /\ path # <<>>
        /\ \E s \in path[Len(path)].left:
             /\ Enter(c, s, call[c].level)
             /\ call' = [call EXCEPT ![c].path =
                   Append([path EXCEPT ![Len(path)].left = @ \ {s}],
                          [logger |-> s, left |-> Children(s)])]
        /\ UNCHANGED <<subLoggers, made, loggers, defaultLevel, confLock, pc,
                       handed, crashed>>

Leave(c) ==
    LET path == call[c].path
    IN  /\ pc[c] = "loop" /\ path # <<>>
        /\ path[Len(path)].left = {}
        /\ held' = [held EXCEPT ![path[Len(path)].logger] = None]
        /\ call' = [call EXCEPT ![c].path = SubSeq(path, 1, Len(path) - 1)]
        /\ UNCHANGED <<subLoggers, made, loggers, level, defaultLevel,
                       confLock, pc, handed, crashed>>

(* Mutant: confLock is not released at the end of the loop.                *)
EndLoopStillLocked(c) ==
    /\ pc[c] = "loop" /\ call[c].path = <<>> /\ call[c].todo = {}
    /\ \/ /\ call[c].op = "get"
          /\ Goto(c, "lock")
          /\ UNCHANGED call
       \/ /\ call[c].op = "set"
          /\ Goto(c, "idle")
          /\ call' = [call EXCEPT ![c] = NoCall]
    /\ UNCHANGED <<subLoggers, made, loggers, level, defaultLevel, confLock,
                   held, handed, crashed>>

EndLoop(c) ==
    /\ pc[c] = "loop" /\ call[c].path = <<>> /\ call[c].todo = {}
    /\ \/ /\ call[c].op = "get"
          /\ Goto(c, "lock")
          /\ UNCHANGED <<call, confLock>>
       \/ /\ call[c].op = "set"
          /\ Goto(c, "idle")
          /\ call' = [call EXCEPT ![c] = NoCall]
          /\ confLock' = IF confLock = c THEN None ELSE confLock
    /\ UNCHANGED <<subLoggers, made, loggers, level, defaultLevel, held,
                   handed, crashed>>

-----------------------------------------------------------------------------
(* The loggers a program has: the default one and those it was handed.     *)
Known == {Root} \cup {a[2] : a \in handed}

Call(c) ==
    \/ \E n \in Name: GetOrCreateLogger(c, n)
    \/ \E l \in Known, n \in Name: GetOrCreateSubLogger(c, l, n)
    \/ \E l \in Known, lv \in SetLevels: SetTraceLevel(c, l, lv)
    \/ \E lv \in ResetLevels: ResetTraceLevel(c, lv)
    \/ \E n \in LoggerName, lv \in SetLevels: ManagerSetTraceLevel(c, n, lv)
    \/ ReadRaces(c)

Step(c) ==
    \/ ReadRoot(c) \/ LockParent(c) \/ AddSubLogger(c) \/ Answer(c)
    \/ ReadDefaultLevel(c) \/ LockForInsert(c) \/ Insert(c)
    \/ Visit(c) \/ Descend(c) \/ Leave(c) \/ EndLoop(c)

Next ==
    /\ crashed = "no"
    /\ \/ \E c \in Caller: Call(c)
       \/ \E u \in Updates: UpdateLevels(Updater, u)
       \/ \E c \in Goroutine: Step(c)

Spec == Init /\ [][Next]_vars

-----------------------------------------------------------------------------
Frame == [logger: LoggerId, left: SUBSET LoggerId]

TypeOK ==
    /\ subLoggers \in [LoggerId -> [Name -> LoggerId \cup {None}]]
    /\ made \subseteq LoggerId
    /\ loggers \in [Name -> LoggerId \cup {None}]
    /\ level \in Level /\ defaultLevel \in Level
    /\ confLock \in Goroutine \cup {None}
    /\ held \in [LoggerId -> Goroutine \cup {None}]
    /\ pc \in [Goroutine -> {"idle", "root", "create", "add", "answer",
                          "default", "loop", "lock", "insert"}]
    /\ call \in [Goroutine ->
           [op: {"none", "get", "sub", "set"}, logger: LoggerId \cup {None},
            name: Name \cup {None}, child: LoggerId \cup {None},
            level: Level \cup {None}, todo: SUBSET (LoggerId \X Level),
            path: Seq(Frame)]]
    /\ handed \subseteq (LoggerId \X Name) \X LoggerId
    /\ crashed \in {"no", "map race", "index out of range"}

(* Whoever asks for a name, of the manager or of a logger, is handed the   *)
(* logger everybody else was handed: the look-up, the creation and the     *)
(* insertion are three sections under two locks, and two callers may be    *)
(* between any two of them.  So it is in the code (logger.go:215-217) and  *)
(* in its tests, and manager.go:33 says it of the manager; what logger.go  *)
(* says of itself at line 17 is otherwise: see NilIfExists.                *)
OneLoggerPerName ==
    \A a, b \in handed: a[1] = b[1] => a[2] = b[2]

(* The manager's map and the default logger's sub-logger map never         *)
(* disagree, although they are filled at different times.                  *)
MapsAgree ==
    \A n \in Name: loggers[n] # None => loggers[n] = subLoggers[Root][n]

(* Recursive sets that overlap: the locks each holds are a path down the   *)
(* tree, so that two of them never wait for each other in a circle.        *)
LocksArePaths ==
    \A c \in Goroutine:
        LET path == call[c].path
        IN  /\ \A i \in 1..Len(path): held[path[i].logger] = c
            /\ \A i \in 1..(Len(path) - 1):
                 path[i + 1].logger \in Children(path[i].logger)

(* A call in progress is not waiting: the guards of Step, as the lock that *)
(* each of them waits for.                                                 *)
CanGoOn(c) ==
    LET path == call[c].path
        left == path[Len(path)].left
    IN  \/ pc[c] \in {"root", "answer", "default", "insert"}
        \/ pc[c] = "create" /\ held[call[c].logger] = None
        \/ pc[c] = "add" /\ made # LoggerId
        \/ pc[c] = "lock" /\ confLock = None
        \/ pc[c] = "loop" /\ path = <<>>
               /\ (call[c].todo # {} => \E t \in call[c].todo: held[t[1]] = None)
        \/ pc[c] = "loop" /\ path # <<>>
               /\ (left # {} => \E s \in left: held[s] = None)

(* As long as a call is in progress somebody can go on: no lock is left    *)
(* behind by a call that has ended, and calls never wait for each other in *)
(* a circle, through the manager's lock and the loggers'.                  *)
SomebodyGoesOn ==
    crashed = "no" /\ (\E c \in Goroutine: pc[c] # "idle")
        => \E c \in Goroutine: CanGoOn(c)

(* The names are kept as LoggerRegistry promises, of loggers as well, for  *)
(* which logger.go:17 promises something else (NilIfExists).               *)
Registry == INSTANCE LoggerRegistry WITH
    Key <- LoggerId \X Name,
    registry <- [k \in LoggerId \X Name |-> subLoggers[k[1]][k[2]]]
RegistrySpec == Registry!Spec

-----------------------------------------------------------------------------
Quiet == \A c \in Goroutine: pc[c] = "idle"

(* What logger.go:17 says of GetOrCreateSubLogger: it "creates and returns *)
(* a new child logger object. returns nil if exists".  A call of it that   *)
(* finds the name taken, under the lock, has nil for an answer.            *)
NilIfExists ==
    [][\A c \in Goroutine:
          /\ pc[c] = "create" /\ pc'[c] = "answer"
          /\ subLoggers[call[c].logger][call[c].name] # None
          => call'[c].child = None]_vars

(* What manager.go:44 says: "ResetTraceLevel sets the trace level to ALL   *)
(* loggers"; where nothing else sets levels, they stay there.              *)
ResetReachesAll == crashed = "no" /\ Quiet => level = defaultLevel

(* Manager.SetTraceLevel of a logger that exists sets its level or, as its *)
(* type says, returns an error: it does not panic.                         *)
SetTraceLevelReturns == crashed # "index out of range"
=============================================================================
