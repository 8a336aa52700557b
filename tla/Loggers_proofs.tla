--------------------------- MODULE Loggers_proofs ---------------------------
(***************************************************************************)
(* Proofs about the tree of loggers, for any number of goroutines, names,  *)
(* loggers and levels, and any updates.                                    *)
(***************************************************************************)
EXTENDS Loggers, SequenceTheorems, FiniteSetTheorems, TLAPS

Places == {"idle", "root", "create", "add", "answer", "default", "loop", "lock",
           "insert"}

CallRecord ==
    [op: {"none", "get", "sub", "set"}, logger: LoggerId \cup {None},
     name: Name \cup {None}, child: LoggerId \cup {None},
     level: Level \cup {None}, todo: SUBSET (LoggerId \X Level), path: Seq(Frame)]

(* A logger in the tree exists.                                            *)
MadeInv ==
    /\ {Root, SentryLogger} \subseteq made
    /\ \A l \in LoggerId, n \in Name:
         subLoggers[l][n] # None => subLoggers[l][n] \in made

(* What a goroutine has in hand: it adds a sub-logger under the lock of    *)
(* the parent, where there is none; a logger it got is in the tree.        *)
AfterGot(c) == pc[c] \in {"default", "lock", "insert"}
               \/ (pc[c] = "loop" /\ call[c].op = "get")

CallInv(c) ==
    /\ pc[c] \in {"root", "create", "add", "answer"} => call[c].name \in Name
    /\ pc[c] \in {"create", "add", "answer"} => call[c].logger \in LoggerId
    /\ pc[c] = "root" => call[c].op = "get"
    /\ pc[c] \in {"create", "add"} =>
          call[c].op # "get" \/ call[c].logger = Root
    /\ pc[c] = "add" => /\ held[call[c].logger] = c
                        /\ subLoggers[call[c].logger][call[c].name] = None
    /\ pc[c] = "answer" =>
          /\ call[c].child # None
          /\ call[c].child = subLoggers[call[c].logger][call[c].name]
    /\ AfterGot(c) =>
          /\ call[c].name \in Name
          /\ call[c].child # None
          /\ call[c].child = subLoggers[Root][call[c].name]
    /\ pc[c] # "loop" => call[c].path = <<>>
    /\ call[c].path # <<>> => call[c].level \in Level

(* Its path: it holds the lock of each logger on it, once, and each is     *)
(* below the one before; what is left to visit is below its logger.        *)
PathInv(c) ==
    LET path == call[c].path
    IN  \A i \in 1..Len(path):
          /\ held[path[i].logger] = c
          /\ \A j \in 1..Len(path): path[j].logger = path[i].logger => j = i
          /\ path[i].left \subseteq Children(path[i].logger)
          /\ i < Len(path) => path[i + 1].logger \in Children(path[i].logger)

HandedInv == \A a \in handed: a[2] = subLoggers[a[1][1]][a[1][2]]

LoggersInv ==
    /\ TypeOK /\ MadeInv /\ HandedInv /\ MapsAgree
    /\ \A c \in Goroutine: CallInv(c) /\ PathInv(c)

-----------------------------------------------------------------------------
LEMMA NoCallTyped == NoCall \in CallRecord
  <1>1. <<>> \in Seq(Frame) /\ {} \in SUBSET (LoggerId \X Level)
    OBVIOUS
  <1> QED BY <1>1 DEF NoCall, CallRecord

LEMMA LoggersInit == Init => LoggersInv
  <1> SUFFICES ASSUME Init PROVE LoggersInv
    OBVIOUS
  <1> USE NamesAssumption, IdsAssumption, LevelsAssumption
  <1>1. /\ subLoggers \in [LoggerId -> [Name -> LoggerId \cup {None}]]
        /\ \A l \in LoggerId, n \in Name:
             subLoggers[l][n] \in {None, SentryLogger}
    BY DEF Init
  <1>2. call \in [Goroutine -> CallRecord]
    BY NoCallTyped DEF Init
  <1>3. TypeOK
    BY <1>1, <1>2 DEF Init, TypeOK, CallRecord
  <1>4. MadeInv
    BY <1>1 DEF Init, MadeInv
  <1>5. \A c \in Goroutine: CallInv(c)
    BY DEF Init, CallInv, AfterGot, NoCall
  <1>7. \A c \in Goroutine: PathInv(c)
    BY EmptySeq DEF Init, PathInv, NoCall
  <1>6. HandedInv /\ MapsAgree
    BY DEF Init, HandedInv, MapsAgree
  <1> QED BY <1>3, <1>4, <1>5, <1>6, <1>7 DEF LoggersInv

LEMMA EmptyPath ==
    ASSUME NEW c, call'[c].path = <<>>
    PROVE  PathInv(c)'
  <1>1. Len(call'[c].path) = 0
    BY EmptySeq
  <1> QED BY <1>1 DEF PathInv

(* The frames of a path are of loggers. *)
LEMMA PathTyped ==
    ASSUME LoggersInv, NEW c \in Goroutine
    PROVE  /\ call[c].path \in Seq(Frame) /\ Len(call[c].path) \in Nat
           /\ \A i \in 1..Len(call[c].path):
                call[c].path[i] \in Frame /\ call[c].path[i].logger \in LoggerId
  <1>1. call[c].path \in Seq(Frame)
    BY DEF LoggersInv, TypeOK
  <1>2. \A i \in 1..Len(call[c].path): call[c].path[i] \in Frame
    BY <1>1, ElementOfSeq
  <1> QED BY <1>1, <1>2, LenProperties DEF Frame

(* The other goroutines keep what they have in hand, as long as the locks  *)
(* they hold stay theirs and the tree grows where they do not add to it.   *)
LEMMA OthersKeep ==
    ASSUME LoggersInv, NEW c \in Goroutine,
           \A d \in Goroutine \ {c}: pc'[d] = pc[d] /\ call'[d] = call[d],
           \A l \in LoggerId: held'[l] = held[l] \/ held[l] \in {None, c},
           \A l \in LoggerId, n \in Name:
              subLoggers'[l][n] = subLoggers[l][n]
                \/ (subLoggers[l][n] = None /\ held[l] = c)
    PROVE  \A d \in Goroutine \ {c}: CallInv(d)' /\ PathInv(d)'
  <1> SUFFICES ASSUME NEW d \in Goroutine \ {c} PROVE CallInv(d)' /\ PathInv(d)'
    OBVIOUS
  <1>1. CallInv(d) /\ PathInv(d) /\ pc'[d] = pc[d] /\ call'[d] = call[d] /\ d # None
    BY IdsAssumption DEF LoggersInv, Goroutine
  <1>2. pc[d] = "add" => /\ held'[call[d].logger] = d
                         /\ subLoggers'[call[d].logger][call[d].name] = None
    BY <1>1 DEF CallInv
  <1>3. pc[d] = "answer" => call[d].child = subLoggers'[call[d].logger][call[d].name]
    BY <1>1 DEF CallInv
  <1>4. AfterGot(d) => call[d].child = subLoggers'[Root][call[d].name]
    BY <1>1, IdsAssumption DEF CallInv
  <1>5. CallInv(d)'
    BY <1>1, <1>2, <1>3, <1>4 DEF CallInv, AfterGot
  <1>6. PathInv(d)'
    <2> DEFINE path == call[d].path
    <2>1. \A i \in 1..Len(path):
            /\ held'[path[i].logger] = d
            /\ Children(path[i].logger) \subseteq Children(path[i].logger)'
      <3> SUFFICES ASSUME NEW i \in 1..Len(path)
                   PROVE  /\ held'[path[i].logger] = d
                          /\ Children(path[i].logger) \subseteq Children(path[i].logger)'
        OBVIOUS
      <3>1. path[i].logger \in LoggerId /\ held[path[i].logger] = d
        BY <1>1, PathTyped DEF PathInv
      <3>2. \A n \in Name: subLoggers[path[i].logger][n] # None =>
               subLoggers'[path[i].logger][n] = subLoggers[path[i].logger][n]
        BY <3>1
      <3> QED BY <1>1, <3>1, <3>2 DEF Children
    <2>2. call'[d].path = path
      BY <1>1
    <2> QED BY <1>1, <2>1, <2>2 DEF PathInv
  <1> QED BY <1>5, <1>6

(* A step of one goroutine that neither adds to the tree nor answers.      *)
LEMMA PlainStep ==
    ASSUME LoggersInv, NEW c \in Goroutine, NEW place \in Places, NEW k \in CallRecord,
           UNCHANGED <<subLoggers, made, loggers, handed, crashed>>,
           pc' = [pc EXCEPT ![c] = place], call' = [call EXCEPT ![c] = k],
           held' \in [LoggerId -> Goroutine \cup {None}],
           \A l \in LoggerId: held'[l] = held[l] \/ held[l] \in {None, c},
           level' \in Level, defaultLevel' \in Level,
           confLock' \in Goroutine \cup {None},
           CallInv(c)', k.path = <<>> \/ PathInv(c)'
    PROVE  LoggersInv'
  <1>1. /\ pc'[c] = place /\ call'[c] = k
        /\ \A d \in Goroutine \ {c}: pc'[d] = pc[d] /\ call'[d] = call[d]
    BY DEF LoggersInv, TypeOK
  <1>2. TypeOK'
    <2>1. pc' \in [Goroutine -> Places] /\ call' \in [Goroutine -> CallRecord]
      BY DEF LoggersInv, TypeOK, Places, CallRecord
    <2> QED BY <2>1 DEF LoggersInv, TypeOK, Places, CallRecord
  <1>3. \A d \in Goroutine: CallInv(d)' /\ PathInv(d)'
    BY <1>1, OthersKeep, EmptyPath
  <1>4. MadeInv' /\ HandedInv' /\ MapsAgree'
    BY DEF LoggersInv, MadeInv, HandedInv, MapsAgree
  <1> QED BY <1>2, <1>3, <1>4 DEF LoggersInv

LEMMA Moved ==
    ASSUME LoggersInv, NEW c \in Goroutine, NEW place, NEW k,
           pc' = [pc EXCEPT ![c] = place], call' = [call EXCEPT ![c] = k]
    PROVE  pc'[c] = place /\ call'[c] = k
  BY DEF LoggersInv, TypeOK

LEMMA CallTyped ==
    ASSUME LoggersInv, NEW c \in Goroutine
    PROVE  call[c] \in CallRecord /\ CallInv(c) /\ PathInv(c)
  BY DEF LoggersInv, TypeOK, CallRecord

LEMMA AllCallsTyped == LoggersInv => call \in [Goroutine -> CallRecord]
  BY DEF LoggersInv, TypeOK, CallRecord

(* What the unchanged parts of the state are typed as.                     *)
LEMMA StateTyped ==
    ASSUME LoggersInv
    PROVE  /\ held \in [LoggerId -> Goroutine \cup {None}]
           /\ level \in Level /\ defaultLevel \in Level
           /\ confLock \in Goroutine \cup {None}
           /\ \A l \in LoggerId, n \in Name: subLoggers[l][n] \in LoggerId \cup {None}
           /\ \A n \in Name: loggers[n] \in LoggerId \cup {None}
  <1>1. /\ held \in [LoggerId -> Goroutine \cup {None}]
        /\ level \in Level /\ defaultLevel \in Level
        /\ confLock \in Goroutine \cup {None}
    BY DEF LoggersInv, TypeOK
  <1>2. subLoggers \in [LoggerId -> [Name -> LoggerId \cup {None}]]
    BY DEF LoggersInv, TypeOK
  <1>3. loggers \in [Name -> LoggerId \cup {None}]
    BY DEF LoggersInv, TypeOK
  <1> QED BY <1>1, <1>2, <1>3

(* An answer of a logger that is in the tree.                              *)
LEMMA HandTyped ==
    ASSUME LoggersInv, NEW l \in LoggerId, NEW n \in Name, NEW id \in LoggerId,
           Hand(l, n, id), id = subLoggers[l][n], subLoggers' = subLoggers
    PROVE  handed' \subseteq (LoggerId \X Name) \X LoggerId /\ HandedInv'
  <1>1. handed' = handed \cup {<<<<l, n>>, id>>}
    BY DEF Hand
  <1>2. handed \subseteq (LoggerId \X Name) \X LoggerId
    BY DEF LoggersInv, TypeOK
  <1>3. <<<<l, n>>, id>> \in (LoggerId \X Name) \X LoggerId
    OBVIOUS
  <1>4. HandedInv'
    BY <1>1 DEF LoggersInv, HandedInv
  <1> QED BY <1>1, <1>2, <1>3, <1>4

LEMMA KnownTyped == LoggersInv => Known \subseteq LoggerId
  <1> SUFFICES ASSUME LoggersInv, NEW a \in handed PROVE a[2] \in LoggerId
    BY IdsAssumption DEF Known
  <1>1. a \in (LoggerId \X Name) \X LoggerId
    BY DEF LoggersInv, TypeOK
  <1> QED BY <1>1

-----------------------------------------------------------------------------
(* The calls that get or create a logger.                                  *)
LEMMA GetOrCreateLoggerStep ==
    ASSUME LoggersInv, NEW c \in Goroutine, NEW n \in Name, GetOrCreateLogger(c, n)
    PROVE  LoggersInv'
  <1>1. CASE loggers[n] = None
    <2> DEFINE k == [NoCall EXCEPT !.op = "get", !.name = n]
    <2>1. /\ UNCHANGED <<subLoggers, made, loggers, level, defaultLevel, confLock,
                         held, handed, crashed>>
          /\ pc' = [pc EXCEPT ![c] = "root"] /\ call' = [call EXCEPT ![c] = k]
      BY <1>1 DEF GetOrCreateLogger, Goto
    <2>2. /\ k \in CallRecord /\ k.op = "get" /\ k.name = n /\ k.path = <<>>
      BY NoCallTyped DEF NoCall, CallRecord
    <2> HIDE DEF k
    <2>3. CallInv(c)'
      BY <2>1, <2>2, Moved DEF CallInv, AfterGot
    <2> QED BY <2>1, <2>2, <2>3, StateTyped, PlainStep DEF Places
  <1>2. CASE loggers[n] # None
    <2>1. /\ UNCHANGED <<pc, call, subLoggers, made, loggers, level, defaultLevel,
                         confLock, held, crashed>>
          /\ Hand(Root, n, loggers[n])
      BY <1>2 DEF GetOrCreateLogger
    <2>2. loggers[n] \in LoggerId /\ loggers[n] = subLoggers[Root][n]
      BY <1>2, StateTyped DEF LoggersInv, MapsAgree
    <2>3. handed' \subseteq (LoggerId \X Name) \X LoggerId /\ HandedInv'
      BY <2>1, <2>2, HandTyped, IdsAssumption
    <2>4. TypeOK'
      BY <2>1, <2>3 DEF LoggersInv, TypeOK
    <2>5. MadeInv' /\ MapsAgree'
      BY <2>1 DEF LoggersInv, MadeInv, MapsAgree
    <2>6. ASSUME NEW d \in Goroutine PROVE CallInv(d)' /\ PathInv(d)'
      <3>1. CallInv(d) /\ PathInv(d)
        BY DEF LoggersInv
      <3>2. CallInv(d)'
        BY <2>1, <3>1 DEF CallInv, AfterGot
      <3>3. PathInv(d)'
        BY <2>1, <3>1 DEF PathInv, Children
      <3> QED BY <3>2, <3>3
    <2> QED BY <2>3, <2>4, <2>5, <2>6 DEF LoggersInv
  <1> QED BY <1>1, <1>2

LEMMA ReadRootStep ==
    ASSUME LoggersInv, NEW c \in Goroutine, ReadRoot(c)
    PROVE  LoggersInv'
  <1> DEFINE k == [call[c] EXCEPT !.logger = Root]
  <1>1. /\ UNCHANGED <<subLoggers, made, loggers, level, defaultLevel, confLock,
                       held, handed, crashed>>
        /\ pc[c] = "root"
        /\ pc' = [pc EXCEPT ![c] = "create"] /\ call' = [call EXCEPT ![c] = k]
    BY CallTyped DEF ReadRoot, Goto, LoggersInv, TypeOK
  <1>2. /\ k \in CallRecord /\ k.logger = Root /\ k.name = call[c].name
        /\ k.path = call[c].path /\ k.op = call[c].op
    BY CallTyped, IdsAssumption DEF CallRecord
  <1> HIDE DEF k
  <1>3. pc'[c] = "create" /\ call'[c] = k
    BY <1>1, Moved
  <1>4. call[c].name \in Name /\ call[c].path = <<>>
    BY <1>1, CallTyped DEF CallInv
  <1>5. CallInv(c)'
    BY <1>2, <1>3, <1>4, IdsAssumption DEF CallInv, AfterGot
  <1> QED BY <1>1, <1>2, <1>4, <1>5, StateTyped, PlainStep DEF Places

LEMMA GetOrCreateSubLoggerStep ==
    ASSUME LoggersInv, NEW c \in Goroutine, NEW l \in Known, NEW n \in Name,
           GetOrCreateSubLogger(c, l, n)
    PROVE  LoggersInv'
  <1> DEFINE k == [NoCall EXCEPT !.op = "sub", !.logger = l, !.name = n]
  <1>1. /\ UNCHANGED <<subLoggers, made, loggers, level, defaultLevel, confLock,
                       held, handed, crashed>>
        /\ pc' = [pc EXCEPT ![c] = "create"] /\ call' = [call EXCEPT ![c] = k]
    BY DEF GetOrCreateSubLogger, Goto
  <1>2. l \in LoggerId
    BY KnownTyped
  <1>3. /\ k \in CallRecord /\ k.logger = l /\ k.name = n /\ k.op = "sub"
        /\ k.path = <<>>
    BY <1>2, NoCallTyped DEF NoCall, CallRecord
  <1> HIDE DEF k
  <1>4. CallInv(c)'
    BY <1>1, <1>2, <1>3, Moved DEF CallInv, AfterGot
  <1> QED BY <1>1, <1>3, <1>4, StateTyped, PlainStep DEF Places

(* With a sub-logger in hand a call goes on to what it was for.            *)
LEMMA HasGot ==
    ASSUME NEW c \in Goroutine, NEW id \in LoggerId, LoggersInv,
           pc[c] \in {"create", "add"}, Got(c, id)
    PROVE  \E place \in {"default", "answer"}:
             \E k \in CallRecord:
               /\ pc' = [pc EXCEPT ![c] = place] /\ call' = [call EXCEPT ![c] = k]
               /\ k.logger = call[c].logger /\ k.name = call[c].name
               /\ k.child = id /\ k.path = <<>> /\ k.op = call[c].op
               /\ place = "default" => call[c].op = "get"
  <1> DEFINE k == [call[c] EXCEPT !.child = id]
  <1>1. /\ k \in CallRecord /\ k.logger = call[c].logger /\ k.name = call[c].name
        /\ k.child = id /\ k.path = <<>> /\ k.op = call[c].op
    BY CallTyped DEF CallRecord, CallInv
  <1>2. call' = [call EXCEPT ![c] = k]
    BY DEF Got, LoggersInv, TypeOK
  <1>3. pc' = [pc EXCEPT ![c] = IF call[c].op = "get" THEN "default" ELSE "answer"]
    BY DEF Got, Goto
  <1> HIDE DEF k
  <1> QED BY <1>1, <1>2, <1>3

LEMMA LockParentStep ==
    ASSUME LoggersInv, NEW c \in Goroutine, LockParent(c)
    PROVE  LoggersInv'
  <1> DEFINE l == call[c].logger  n == call[c].name
  <1>1. /\ UNCHANGED <<subLoggers, made, loggers, level, defaultLevel, confLock,
                       handed, crashed>>
        /\ pc[c] = "create" /\ held[l] = None
    BY DEF LockParent
  <1>2. l \in LoggerId /\ n \in Name /\ (call[c].op # "get" \/ l = Root)
        /\ call[c].path = <<>>
    BY <1>1, CallTyped DEF CallInv
  <1>3. CASE subLoggers[l][n] # None
    <2>1. Got(c, subLoggers[l][n]) /\ held' = held
      BY <1>3 DEF LockParent
    <2>2. subLoggers[l][n] \in LoggerId
      BY <1>2, <1>3, StateTyped
    <2>3. PICK place \in {"default", "answer"}, k \in CallRecord:
            /\ pc' = [pc EXCEPT ![c] = place] /\ call' = [call EXCEPT ![c] = k]
            /\ k.logger = l /\ k.name = n /\ k.child = subLoggers[l][n]
            /\ k.path = <<>> /\ k.op = call[c].op
            /\ place = "default" => call[c].op = "get"
      BY <1>1, <2>1, <2>2, HasGot
    <2>4. pc'[c] = place /\ call'[c] = k
      BY <2>3, Moved
    <2>5. CallInv(c)'
      BY <1>1, <1>2, <1>3, <2>3, <2>4 DEF CallInv, AfterGot
    <2> QED BY <1>1, <2>1, <2>3, <2>5, StateTyped, PlainStep DEF Places
  <1>4. CASE subLoggers[l][n] = None
    <2>1. /\ held' = [held EXCEPT ![l] = c] /\ call' = call
          /\ pc' = [pc EXCEPT ![c] = "add"]
      BY <1>4 DEF LockParent, Goto
    <2>2. call' = [call EXCEPT ![c] = call[c]] /\ call[c] \in CallRecord
      BY <2>1, CallTyped DEF LoggersInv, TypeOK
    <2>3. /\ held' \in [LoggerId -> Goroutine \cup {None}] /\ held'[l] = c
          /\ \A m \in LoggerId: held'[m] = held[m] \/ held[m] \in {None, c}
      BY <1>1, <1>2, <2>1, StateTyped
    <2>4. pc'[c] = "add" /\ call'[c] = call[c]
      BY <2>1, <2>2, Moved
    <2>5. CallInv(c)'
      BY <1>1, <1>2, <1>4, <2>3, <2>4 DEF CallInv, AfterGot
    <2> QED BY <1>1, <1>2, <2>1, <2>2, <2>3, <2>5, StateTyped, PlainStep DEF Places
  <1> QED BY <1>3, <1>4

(* The tree grows, where nothing was, under the lock.                      *)
LEMMA AddSubLoggerStep ==
    ASSUME LoggersInv, NEW c \in Goroutine, AddSubLogger(c)
    PROVE  LoggersInv'
  <1> DEFINE l == call[c].logger  n == call[c].name
  <1>1. /\ UNCHANGED <<loggers, level, defaultLevel, confLock, handed, crashed>>
        /\ pc[c] = "add" /\ held' = [held EXCEPT ![l] = None]
    BY DEF AddSubLogger
  <1>2. /\ l \in LoggerId /\ n \in Name /\ (call[c].op # "get" \/ l = Root)
        /\ held[l] = c /\ subLoggers[l][n] = None
    BY <1>1, CallTyped DEF CallInv
  <1>3. PICK id \in LoggerId \ made:
          /\ subLoggers' = [subLoggers EXCEPT ![l][n] = id]
          /\ made' = made \cup {id} /\ Got(c, id)
    BY DEF AddSubLogger
  <1>4. PICK place \in {"default", "answer"}, k \in CallRecord:
          /\ pc' = [pc EXCEPT ![c] = place] /\ call' = [call EXCEPT ![c] = k]
          /\ k.logger = l /\ k.name = n /\ k.child = id
          /\ k.path = <<>> /\ k.op = call[c].op
          /\ place = "default" => call[c].op = "get"
    BY <1>1, <1>3, HasGot
  <1>5. /\ subLoggers' \in [LoggerId -> [Name -> LoggerId \cup {None}]]
        /\ subLoggers'[l][n] = id /\ id # None
        /\ \A m \in LoggerId, p \in Name:
             <<m, p>> # <<l, n>> => subLoggers'[m][p] = subLoggers[m][p]
    BY <1>2, <1>3, IdsAssumption DEF LoggersInv, TypeOK
  <1>6. /\ pc'[c] = place /\ call'[c] = k
        /\ \A d \in Goroutine \ {c}: pc'[d] = pc[d] /\ call'[d] = call[d]
    BY <1>4 DEF LoggersInv, TypeOK
  <1>7. \A d \in Goroutine: CallInv(d)' /\ PathInv(d)'
    <2>1. CallInv(c)' /\ PathInv(c)'
      BY <1>2, <1>4, <1>5, <1>6, EmptyPath DEF CallInv, AfterGot
    <2>2. \A m \in LoggerId: held'[m] = held[m] \/ held[m] \in {None, c}
      BY <1>1, <1>2, StateTyped
    <2>3. \A m \in LoggerId, p \in Name:
             subLoggers'[m][p] = subLoggers[m][p]
               \/ (subLoggers[m][p] = None /\ held[m] = c)
      BY <1>2, <1>5
    <2> QED BY <1>6, <2>1, <2>2, <2>3, OthersKeep
  <1>8. TypeOK'
    <2>1. pc' \in [Goroutine -> Places] /\ call' \in [Goroutine -> CallRecord]
      BY <1>4 DEF LoggersInv, TypeOK, Places, CallRecord
    <2>2. held' \in [LoggerId -> Goroutine \cup {None}]
      BY <1>1, StateTyped
    <2> QED BY <1>1, <1>3, <1>5, <2>1, <2>2 DEF LoggersInv, TypeOK, Places, CallRecord
  <1>9. MadeInv'
    BY <1>2, <1>3, <1>5 DEF LoggersInv, MadeInv
  <1>10. HandedInv'
    <2> SUFFICES ASSUME NEW a \in handed PROVE a[2] = subLoggers'[a[1][1]][a[1][2]]
      BY <1>1 DEF HandedInv
    <2>1. /\ a[1][1] \in LoggerId /\ a[1][2] \in Name /\ a[2] # None
          /\ a[2] = subLoggers[a[1][1]][a[1][2]]
      BY IdsAssumption DEF LoggersInv, TypeOK, HandedInv
    <2> QED BY <1>2, <1>5, <2>1
  <1>11. MapsAgree'
    BY <1>1, <1>2, <1>5, IdsAssumption DEF LoggersInv, MapsAgree
  <1> QED BY <1>7, <1>8, <1>9, <1>10, <1>11 DEF LoggersInv

(* The answers. *)
LEMMA AnswerStep ==
    ASSUME LoggersInv, NEW c \in Goroutine, Answer(c) \/ Insert(c)
    PROVE  LoggersInv'
  <1>1. PICK l \in LoggerId:
          /\ Hand(l, call[c].name, call[c].child)
          /\ call[c].name \in Name /\ call[c].child \in LoggerId
          /\ call[c].child = subLoggers[l][call[c].name]
          /\ UNCHANGED loggers
                \/ (l = Root /\ loggers' = [loggers EXCEPT ![call[c].name] = call[c].child])
    <2>1. CASE Answer(c)
      <3>1. /\ call[c].logger \in LoggerId /\ call[c].name \in Name
            /\ call[c].child \in LoggerId
            /\ call[c].child = subLoggers[call[c].logger][call[c].name]
        BY <2>1, CallTyped DEF Answer, CallInv, CallRecord
      <3> QED BY <2>1, <3>1 DEF Answer
    <2>2. CASE Insert(c)
      <3>1. /\ call[c].name \in Name /\ call[c].child \in LoggerId
            /\ call[c].child = subLoggers[Root][call[c].name]
        BY <2>2, CallTyped DEF Insert, CallInv, AfterGot, CallRecord
      <3> QED BY <2>2, <3>1, IdsAssumption DEF Insert
    <2> QED BY <2>1, <2>2
  <1>2. /\ UNCHANGED <<subLoggers, made, level, defaultLevel, held, crashed>>
        /\ pc' = [pc EXCEPT ![c] = "idle"] /\ call' = [call EXCEPT ![c] = NoCall]
        /\ confLock' \in {None, confLock}
    BY DEF Answer, Insert, Goto
  <1>3. handed' \subseteq (LoggerId \X Name) \X LoggerId /\ HandedInv'
    BY <1>1, <1>2, HandTyped
  <1>4. /\ pc'[c] = "idle" /\ call'[c] = NoCall
        /\ \A d \in Goroutine \ {c}: pc'[d] = pc[d] /\ call'[d] = call[d]
    BY <1>2 DEF LoggersInv, TypeOK
  <1>5. CallInv(c)' /\ PathInv(c)'
    BY <1>4, EmptyPath DEF CallInv, AfterGot, NoCall
  <1>6. \A d \in Goroutine: CallInv(d)' /\ PathInv(d)'
    BY <1>2, <1>4, <1>5, OthersKeep
  <1>7. TypeOK'
    <2>1. loggers' \in [Name -> LoggerId \cup {None}]
      BY <1>1 DEF LoggersInv, TypeOK
    <2>2. pc' \in [Goroutine -> Places] /\ call' \in [Goroutine -> CallRecord]
      BY <1>2, NoCallTyped DEF LoggersInv, TypeOK, Places, CallRecord
    <2> QED BY <1>2, <1>3, <2>1, <2>2 DEF LoggersInv, TypeOK, Places, CallRecord
  <1>8. MadeInv'
    BY <1>2 DEF LoggersInv, MadeInv
  <1>9. MapsAgree'
    <2> SUFFICES ASSUME NEW n \in Name, loggers'[n] # None
                 PROVE  loggers'[n] = subLoggers[Root][n]
      BY <1>2 DEF MapsAgree
    <2>1. CASE loggers'[n] = loggers[n]
      BY <2>1 DEF LoggersInv, MapsAgree
    <2>2. CASE loggers'[n] # loggers[n]
      BY <1>1, <2>2, StateTyped DEF LoggersInv, TypeOK
    <2> QED BY <2>1, <2>2
  <1> QED BY <1>3, <1>6, <1>7, <1>8, <1>9 DEF LoggersInv

(* GetOrCreateLogger, with its sub-logger, up to the insertion.            *)
LEMMA ReadDefaultLevelStep ==
    ASSUME LoggersInv, NEW c \in Goroutine, ReadDefaultLevel(c)
    PROVE  LoggersInv'
  <1> DEFINE k == [call[c] EXCEPT !.todo = {<<call[c].child, defaultLevel>>}]
  <1>1. /\ UNCHANGED <<subLoggers, made, loggers, level, defaultLevel, confLock,
                       held, handed, crashed>>
        /\ pc[c] = "default"
        /\ pc' = [pc EXCEPT ![c] = "loop"] /\ call' = [call EXCEPT ![c] = k]
    BY CallTyped DEF ReadDefaultLevel, Goto, LoggersInv, TypeOK
  <1>2. /\ call[c].name \in Name /\ call[c].child \in LoggerId
        /\ call[c].child = subLoggers[Root][call[c].name] /\ call[c].path = <<>>
    BY <1>1, CallTyped DEF CallInv, AfterGot, CallRecord
  <1>3. {<<call[c].child, defaultLevel>>} \in SUBSET (LoggerId \X Level)
    BY <1>2, StateTyped
  <1>4. /\ k \in CallRecord /\ k.name = call[c].name /\ k.child = call[c].child
        /\ k.path = call[c].path
    BY <1>3, CallTyped DEF CallRecord
  <1> HIDE DEF k
  <1>5. pc'[c] = "loop" /\ call'[c] = k
    BY <1>1, Moved
  <1>6. CallInv(c)'
    BY <1>1, <1>2, <1>4, <1>5, IdsAssumption DEF CallInv, AfterGot
  <1> QED BY <1>1, <1>2, <1>4, <1>6, StateTyped, PlainStep DEF Places

LEMMA LockForInsertStep ==
    ASSUME LoggersInv, NEW c \in Goroutine, LockForInsert(c)
    PROVE  LoggersInv'
  <1>1. /\ UNCHANGED <<subLoggers, made, loggers, level, defaultLevel, held, call,
                       handed, crashed>>
        /\ pc[c] = "lock" /\ confLock' = c /\ pc' = [pc EXCEPT ![c] = "insert"]
    BY DEF LockForInsert, Goto
  <1>2. call' = [call EXCEPT ![c] = call[c]] /\ call[c] \in CallRecord
    BY <1>1, CallTyped DEF LoggersInv, TypeOK
  <1>3. pc'[c] = "insert" /\ call'[c] = call[c]
    BY <1>1, <1>2, Moved
  <1>4. CallInv(c)' /\ call[c].path = <<>>
    BY <1>1, <1>3, CallTyped DEF CallInv, AfterGot
  <1> QED BY <1>1, <1>2, <1>4, StateTyped, PlainStep DEF Places

-----------------------------------------------------------------------------
(* The calls that set levels, up to their loop.                            *)
LEMMA StartLoopStep ==
    ASSUME LoggersInv, NEW c \in Goroutine, NEW todo \in SUBSET (LoggerId \X Level),
           StartLoop(c, todo),
           UNCHANGED <<subLoggers, made, loggers, level, held, handed, crashed>>,
           defaultLevel' \in Level, confLock' \in {confLock, c}
    PROVE  LoggersInv'
  <1> DEFINE k == [NoCall EXCEPT !.op = "set", !.todo = todo]
  <1>1. pc' = [pc EXCEPT ![c] = "loop"] /\ call' = [call EXCEPT ![c] = k]
    BY DEF StartLoop, Goto
  <1>2. k \in CallRecord /\ k.op = "set" /\ k.path = <<>>
    BY NoCallTyped DEF NoCall, CallRecord
  <1> HIDE DEF k
  <1>3. pc'[c] = "loop" /\ call'[c] = k
    BY <1>1, Moved
  <1>4. CallInv(c)'
    BY <1>2, <1>3 DEF CallInv, AfterGot
  <1>5. confLock' \in Goroutine \cup {None} /\ level' \in Level
    BY StateTyped
  <1>6. /\ held' \in [LoggerId -> Goroutine \cup {None}]
        /\ \A l \in LoggerId: held'[l] = held[l] \/ held[l] \in {None, c}
    BY StateTyped
  <1> QED BY <1>1, <1>2, <1>4, <1>5, <1>6, PlainStep DEF Places

LEMMA LookupTyped ==
    ASSUME LoggersInv, NEW n \in LoggerName
    PROVE  Lookup(n) \in LoggerId \cup {None}
  BY StateTyped, IdsAssumption DEF Lookup, LoggerName, DefaultLoggerName

LEMMA SetLevelsStep ==
    ASSUME LoggersInv, NEW c \in Goroutine,
           \/ \E l \in Known, lv \in SetLevels: SetTraceLevel(c, l, lv)
           \/ \E lv \in ResetLevels: ResetTraceLevel(c, lv)
           \/ \E u \in Updates: UpdateLevels(c, u)
    PROVE  LoggersInv'
  <1>1. ASSUME NEW l \in Known, NEW lv \in SetLevels, SetTraceLevel(c, l, lv)
        PROVE  LoggersInv'
    <2>1. {<<l, lv>>} \in SUBSET (LoggerId \X Level)
      BY KnownTyped, LevelsAssumption
    <2> QED BY <1>1, <2>1, StartLoopStep, StateTyped DEF SetTraceLevel
  <1>2. ASSUME NEW lv \in ResetLevels, ResetTraceLevel(c, lv) PROVE LoggersInv'
    <2>1. Registered \subseteq LoggerId
      BY LookupTyped DEF Registered
    <2>2. {<<l, lv>> : l \in Registered} \in SUBSET (LoggerId \X Level)
      BY <2>1, LevelsAssumption
    <2>3. defaultLevel' \in Level
      BY <1>2, LevelsAssumption DEF ResetTraceLevel
    <2> QED BY <1>2, <2>2, <2>3, StartLoopStep DEF ResetTraceLevel
  <1>3. ASSUME NEW u \in Updates, UpdateLevels(c, u) PROVE LoggersInv'
    <2> DEFINE todo == {<<Lookup(n), u[n]>> : n \in {m \in DOMAIN u: Lookup(m) # None}}
    <2>1. \A n \in {m \in DOMAIN u: Lookup(m) # None}:
             Lookup(n) \in LoggerId /\ u[n] \in Level
      BY LookupTyped, LevelsAssumption
    <2>2. todo \in SUBSET (LoggerId \X Level)
      BY <2>1
    <2>3. /\ StartLoop(c, todo) /\ confLock' = c /\ defaultLevel' = defaultLevel
          /\ UNCHANGED <<subLoggers, made, loggers, level, held, handed, crashed>>
      BY <1>3 DEF UpdateLevels
    <2> HIDE DEF todo
    <2> QED BY <2>2, <2>3, StartLoopStep, StateTyped
  <1> QED BY <1>1, <1>2, <1>3

(* A crash changes nothing else.                                           *)
LEMMA CrashStep ==
    ASSUME LoggersInv, crashed' \in {"no", "map race", "index out of range"},
           UNCHANGED <<subLoggers, made, loggers, level, defaultLevel, confLock, held,
                       pc, call, handed>>
    PROVE  LoggersInv'
  <1>1. TypeOK' /\ MadeInv' /\ HandedInv' /\ MapsAgree'
    BY DEF LoggersInv, TypeOK, MadeInv, HandedInv, MapsAgree
  <1>2. ASSUME NEW c \in Goroutine PROVE CallInv(c)' /\ PathInv(c)'
    <2>1. CallInv(c)'
      BY CallTyped DEF CallInv, AfterGot
    <2>2. PathInv(c) /\ (\A l: Children(l)' = Children(l))
      BY CallTyped DEF Children
    <2>3. PathInv(c)'
      BY <2>2 DEF PathInv
    <2> QED BY <2>1, <2>3
  <1> QED BY <1>1, <1>2 DEF LoggersInv

LEMMA ManagerSetTraceLevelStep ==
    ASSUME LoggersInv, NEW c \in Goroutine, NEW n \in LoggerName, NEW lv \in SetLevels,
           ManagerSetTraceLevel(c, n, lv)
    PROVE  LoggersInv'
  <1> DEFINE l == Lookup(n)  part == LastPart[n]
             sub == IF part \in Name THEN subLoggers[l][part] ELSE None
  <1>1. /\ l \in LoggerId
        /\ UNCHANGED <<subLoggers, made, loggers, level, defaultLevel, held, handed>>
    BY LookupTyped DEF ManagerSetTraceLevel
  <1>2. sub \in LoggerId \cup {None}
    BY <1>1, StateTyped
  <1>3. CASE crashed' \in {"map race", "index out of range"} /\ UNCHANGED <<confLock, pc, call>>
    BY <1>1, <1>3, CrashStep
  <1>4. CASE sub # None /\ confLock' = c /\ StartLoop(c, {<<sub, lv>>}) /\ crashed' = crashed
    <2>1. {<<sub, lv>>} \in SUBSET (LoggerId \X Level)
      BY <1>2, <1>4, LevelsAssumption
    <2> QED BY <1>1, <1>4, <2>1, StartLoopStep, StateTyped
  <1> QED BY <1>3, <1>4 DEF ManagerSetTraceLevel
(* Some goroutine's read of a map races with an insertion.                 *)
LEMMA ReadRacesStep ==
    ASSUME LoggersInv, NEW c \in Goroutine, ReadRaces(c)
    PROVE  LoggersInv'
  BY CrashStep DEF ReadRaces

-----------------------------------------------------------------------------
(* The loop over loggers and those below them.                             *)
LEMMA EnterKeepsLocks ==
    ASSUME LoggersInv, NEW c \in Goroutine, NEW l \in LoggerId, NEW lv \in Level,
           Enter(c, l, lv)
    PROVE  /\ held' \in [LoggerId -> Goroutine \cup {None}] /\ held'[l] = c
           /\ \A m \in LoggerId: held'[m] = held[m] \/ held[m] \in {None, c}
           /\ \A m \in LoggerId: held[m] = c => held'[m] = c /\ m # l
           /\ level' \in Level
  BY StateTyped, IdsAssumption DEF Enter, Goroutine

LEMMA VisitStep ==
    ASSUME LoggersInv, NEW c \in Goroutine, Visit(c)
    PROVE  LoggersInv'
  <1>1. PICK t \in call[c].todo:
          /\ Enter(c, t[1], t[2])
          /\ call' = [call EXCEPT ![c].todo = @ \ {t}, ![c].level = t[2],
                ![c].path = <<[logger |-> t[1], left |-> Children(t[1])]>>]
    BY DEF Visit
  <1>2. /\ UNCHANGED <<subLoggers, made, loggers, defaultLevel, confLock, pc, handed,
                       crashed>>
        /\ pc[c] = "loop"
    BY DEF Visit
  <1> DEFINE top == [logger |-> t[1], left |-> Children(t[1])]
             k == [call[c] EXCEPT !.todo = @ \ {t}, !.level = t[2], !.path = <<top>>]
  <1>3. t[1] \in LoggerId /\ t[2] \in Level
    BY CallTyped DEF CallRecord
  <1>4. top \in Frame /\ <<top>> \in Seq(Frame) /\ Len(<<top>>) = 1 /\ <<top>>[1] = top
    BY <1>3, StateTyped DEF Children, Frame
  <1>5. /\ k \in CallRecord /\ k.op = call[c].op /\ k.name = call[c].name
        /\ k.child = call[c].child /\ k.logger = call[c].logger
        /\ k.level = t[2] /\ k.path = <<top>>
    BY <1>3, <1>4, CallTyped DEF CallRecord
  <1>6. call' = [call EXCEPT ![c] = k] /\ pc' = [pc EXCEPT ![c] = "loop"]
    BY <1>1, <1>2 DEF LoggersInv, TypeOK
  <1> HIDE DEF k
  <1>7. pc'[c] = "loop" /\ call'[c] = k
    BY <1>6, Moved
  <1>8. CallInv(c)'
    BY <1>2, <1>3, <1>5, <1>7, CallTyped DEF CallInv, AfterGot
  <1>9. PathInv(c)'
    <2>1. /\ call'[c].path = <<top>> /\ top.logger = t[1] /\ top.left = Children(t[1])
      BY <1>5, <1>7
    <2>4. held'[t[1]] = c
      BY <1>1, <1>3, EnterKeepsLocks
    <2>3. \A l: Children(l)' = Children(l)
      BY <1>2 DEF Children
    <2>2. 1..Len(<<top>>) = {1}
      BY <1>4
    <2> HIDE DEF top
    <2> QED BY <1>4, <2>1, <2>2, <2>3, <2>4 DEF PathInv
  <1> QED BY <1>1, <1>2, <1>3, <1>5, <1>6, <1>8, <1>9, StateTyped, EnterKeepsLocks,
             PlainStep DEF Places

LEMMA DescendStep ==
    ASSUME LoggersInv, NEW c \in Goroutine, Descend(c)
    PROVE  LoggersInv'
  <1> DEFINE path == call[c].path  n == Len(path)
  <1>1. PICK s \in path[n].left:
          /\ Enter(c, s, call[c].level)
          /\ call' = [call EXCEPT ![c].path =
                Append([path EXCEPT ![n].left = @ \ {s}],
                       [logger |-> s, left |-> Children(s)])]
    BY DEF Descend
  <1>2. /\ UNCHANGED <<subLoggers, made, loggers, defaultLevel, confLock, pc, handed,
                       crashed>>
        /\ pc[c] = "loop" /\ path # <<>>
    BY DEF Descend
  <1>3. path \in Seq(Frame) /\ n \in 1..n /\ n \in Nat
    BY <1>2, PathTyped, EmptySeq
  <1> DEFINE lower == [path[n] EXCEPT !.left = @ \ {s}]
             above == [path EXCEPT ![n] = lower]
             top == [logger |-> s, left |-> Children(s)]
             new == Append(above, top)
             k == [call[c] EXCEPT !.path = new]
  <1>4. /\ path[n] \in Frame /\ lower \in Frame /\ lower.logger = path[n].logger
        /\ lower.left \subseteq path[n].left
        /\ s \in LoggerId /\ s \in Children(path[n].logger)
    BY <1>3, PathTyped, CallTyped DEF Frame, PathInv
  <1>5. /\ above \in Seq(Frame) /\ Len(above) = n
        /\ \A i \in 1..n: above[i] = IF i = n THEN lower ELSE path[i]
    BY <1>3, <1>4, ExceptSeq
  <1>6. top \in Frame
    BY <1>4, StateTyped DEF Children, Frame
  <1>7. /\ new \in Seq(Frame) /\ Len(new) = n + 1 /\ new[n + 1] = top
        /\ \A i \in 1..n: new[i] = above[i]
    <2> HIDE DEF above, top
    <2> QED BY <1>5, <1>6, AppendProperties
  <1>8. /\ \A i \in 1..n: /\ new[i].logger = path[i].logger
                           /\ new[i].left \subseteq path[i].left
        /\ new[n + 1].logger = s /\ new[n + 1].left = Children(s)
    <2>1. top.logger = s /\ top.left = Children(s)
      OBVIOUS
    <2> HIDE DEF lower, above, new, top
    <2> QED BY <2>1, <1>4, <1>5, <1>7
  <1>9. call[c].level \in Level
    BY <1>2, CallTyped DEF CallInv
  <1>10. /\ k \in CallRecord /\ k.op = call[c].op /\ k.name = call[c].name
         /\ k.child = call[c].child /\ k.logger = call[c].logger
         /\ k.level = call[c].level /\ k.path = new
    BY <1>7, CallTyped DEF CallRecord
  <1>11. call' = [call EXCEPT ![c] = k] /\ pc' = [pc EXCEPT ![c] = "loop"]
    BY <1>1, <1>2 DEF LoggersInv, TypeOK
  <1> HIDE DEF k, new, above, lower, top
  <1>12. pc'[c] = "loop" /\ call'[c] = k
    BY <1>11, Moved
  <1>13. CallInv(c)'
    BY <1>2, <1>9, <1>10, <1>12, CallTyped DEF CallInv, AfterGot
  <1>14. PathInv(c)'
    <2>1. /\ held'[s] = c
          /\ \A m \in LoggerId: held[m] = c => held'[m] = c /\ m # s
      BY <1>1, <1>4, <1>9, EnterKeepsLocks
    <2>2. \A l: Children(l)' = Children(l)
      BY <1>2 DEF Children
    <2>3. ASSUME NEW i \in 1..n
          PROVE  /\ held'[new[i].logger] = c
                 /\ new[i].left \subseteq Children(new[i].logger)
                 /\ new[i + 1].logger \in Children(new[i].logger)
                 /\ new[i].logger # s
                 /\ \A j \in 1..n: new[j].logger = new[i].logger => j = i
      <3>1. /\ path[i].logger \in LoggerId /\ held[path[i].logger] = c
            /\ path[i].left \subseteq Children(path[i].logger)
            /\ i < n => path[i + 1].logger \in Children(path[i].logger)
            /\ \A j \in 1..n: path[j].logger = path[i].logger => j = i
        BY PathTyped, CallTyped DEF PathInv
      <3>2. new[i].logger = path[i].logger /\ new[i].left \subseteq path[i].left
        BY <1>8
      <3>3. CASE i < n
        BY <1>3, <1>8, <2>1, <3>1, <3>2, <3>3
      <3>4. CASE i = n
        BY <1>4, <1>8, <2>1, <3>1, <3>2, <3>4
      <3> QED BY <1>3, <3>3, <3>4
    <2>4. /\ held'[new[n + 1].logger] = c
          /\ new[n + 1].left \subseteq Children(new[n + 1].logger)
      BY <1>8, <2>1
    <2>5. /\ call'[c].path = new /\ Len(new) = n + 1 /\ n \in Nat
          /\ \A i \in 1..(n + 1): i \in 1..n \/ i = n + 1
          /\ ~(n + 1 < n + 1) /\ (\A i \in 1..n: i # n + 1)
      BY <1>3, <1>7, <1>10, <1>12
    <2>6. \A i \in 1..n: new[i].logger # new[n + 1].logger
      BY <1>8, <2>3
    <2>7. \A i, j \in 1..(n + 1): new[j].logger = new[i].logger => j = i
      BY <2>3, <2>5, <2>6
    <2>8. \A i \in 1..(n + 1):
            /\ held'[new[i].logger] = c
            /\ new[i].left \subseteq Children(new[i].logger)
            /\ i < n + 1 => new[i + 1].logger \in Children(new[i].logger)
      BY <2>3, <2>4, <2>5
    <2> QED BY <2>2, <2>5, <2>7, <2>8 DEF PathInv
  <1> QED BY <1>1, <1>2, <1>4, <1>9, <1>10, <1>11, <1>13, <1>14, StateTyped,
             EnterKeepsLocks, PlainStep DEF Places

LEMMA LeaveStep ==
    ASSUME LoggersInv, NEW c \in Goroutine, Leave(c)
    PROVE  LoggersInv'
  <1> DEFINE path == call[c].path  n == Len(path)
             new == SubSeq(path, 1, n - 1)
             k == [call[c] EXCEPT !.path = new]
  <1>1. /\ UNCHANGED <<subLoggers, made, loggers, level, defaultLevel, confLock, pc,
                       handed, crashed>>
        /\ pc[c] = "loop" /\ path # <<>>
        /\ held' = [held EXCEPT ![path[n].logger] = None]
    BY DEF Leave
  <1>2. path \in Seq(Frame) /\ n \in 1..n /\ n \in Nat
    BY <1>1, PathTyped, EmptySeq
  <1>3. /\ new \in Seq(Frame) /\ Len(new) = n - 1
        /\ \A i \in 1..(n - 1): new[i] = path[i]
    <2>1. \A i \in 1..(n - 1): path[i] \in Frame
      BY <1>2, PathTyped
    <2> QED BY <1>2, <2>1, SubSeqProperties
  <1>4. /\ k \in CallRecord /\ k.op = call[c].op /\ k.name = call[c].name
        /\ k.child = call[c].child /\ k.logger = call[c].logger
        /\ k.level = call[c].level /\ k.path = new
    BY <1>3, CallTyped DEF CallRecord
  <1>5. call' = [call EXCEPT ![c] = k] /\ pc' = [pc EXCEPT ![c] = "loop"]
    <2>1. call' = [call EXCEPT ![c].path = new]
      BY DEF Leave
    <2> HIDE DEF new
    <2> QED BY <1>1, <2>1 DEF LoggersInv, TypeOK
  <1> HIDE DEF k, new
  <1>6. pc'[c] = "loop" /\ call'[c] = k
    BY <1>5, Moved
  <1>7. CallInv(c)'
    BY <1>1, <1>4, <1>6, CallTyped DEF CallInv, AfterGot
  <1>8. path[n].logger \in LoggerId /\ held[path[n].logger] = c
    BY <1>2, PathTyped, CallTyped DEF PathInv
  <1>9. PathInv(c)'
    <2>1. \A l: Children(l)' = Children(l)
      BY <1>1 DEF Children
    <2>2. ASSUME NEW i \in 1..(n - 1)
          PROVE  /\ held'[new[i].logger] = c
                 /\ new[i].left \subseteq Children(new[i].logger)
                 /\ i < n - 1 => new[i + 1].logger \in Children(new[i].logger)
                 /\ \A j \in 1..(n - 1): new[j].logger = new[i].logger => j = i
      <3>1. i \in 1..n /\ i # n /\ new[i] = path[i]
            /\ (i < n - 1 => i + 1 \in 1..(n - 1))
        BY <1>2, <1>3
      <3>2. /\ path[i].logger \in LoggerId /\ held[path[i].logger] = c
            /\ path[i].left \subseteq Children(path[i].logger)
            /\ i < n => path[i + 1].logger \in Children(path[i].logger)
            /\ \A j \in 1..n: path[j].logger = path[i].logger => j = i
        BY <3>1, PathTyped, CallTyped DEF PathInv
      <3>3. held'[path[i].logger] = c
        BY <1>1, <1>2, <1>8, <3>1, <3>2, StateTyped
      <3>4. \A j \in 1..(n - 1): j \in 1..n
        BY <1>2
      <3>5. i < n - 1 => new[i + 1] = path[i + 1] /\ i < n
        BY <1>2, <1>3, <3>1
      <3>6. \A j \in 1..(n - 1): new[j].logger = new[i].logger => j = i
        BY <1>3, <3>1, <3>2, <3>4
      <3> QED BY <3>1, <3>2, <3>3, <3>5, <3>6
    <2> QED BY <1>3, <1>4, <1>6, <2>1, <2>2 DEF PathInv
  <1>10. /\ held' \in [LoggerId -> Goroutine \cup {None}]
         /\ \A m \in LoggerId: held'[m] = held[m] \/ held[m] \in {None, c}
    BY <1>1, <1>8, StateTyped
  <1> QED BY <1>1, <1>4, <1>5, <1>7, <1>9, <1>10, StateTyped, PlainStep DEF Places

LEMMA EndLoopStep ==
    ASSUME LoggersInv, NEW c \in Goroutine, EndLoop(c)
    PROVE  LoggersInv'
  <1>1. /\ UNCHANGED <<subLoggers, made, loggers, level, defaultLevel, held, handed,
                       crashed>>
        /\ pc[c] = "loop" /\ call[c].path = <<>>
    BY DEF EndLoop
  <1>2. CASE call[c].op = "get" /\ pc' = [pc EXCEPT ![c] = "lock"] /\ call' = call
             /\ confLock' = confLock
    <2>1. call' = [call EXCEPT ![c] = call[c]] /\ call[c] \in CallRecord
      BY <1>2, CallTyped DEF LoggersInv, TypeOK
    <2>2. pc'[c] = "lock" /\ call'[c] = call[c]
      BY <1>2, <2>1, Moved
    <2>3. CallInv(c)'
      BY <1>1, <1>2, <2>2, CallTyped DEF CallInv, AfterGot
    <2> QED BY <1>1, <1>2, <2>1, <2>3, StateTyped, PlainStep DEF Places
  <1>3. CASE pc' = [pc EXCEPT ![c] = "idle"] /\ call' = [call EXCEPT ![c] = NoCall]
             /\ confLock' \in {None, confLock}
    <2>1. pc'[c] = "idle" /\ call'[c] = NoCall
      BY <1>3, Moved
    <2>2. CallInv(c)' /\ NoCall.path = <<>>
      BY <2>1 DEF CallInv, AfterGot, NoCall
    <2> QED BY <1>1, <1>3, <2>2, NoCallTyped, StateTyped, PlainStep DEF Places
  <1> QED BY <1>2, <1>3 DEF EndLoop, Goto

-----------------------------------------------------------------------------
LEMMA LoggersStep == LoggersInv /\ [Next]_vars => LoggersInv'
  <1> SUFFICES ASSUME LoggersInv, [Next]_vars PROVE LoggersInv'
    OBVIOUS
  <1>1. CASE UNCHANGED vars
    BY <1>1, CrashStep DEF vars, LoggersInv, TypeOK
  <1>2. ASSUME NEW c \in Caller, Call(c) PROVE LoggersInv'
    <2>1. c \in Goroutine
      BY DEF Goroutine
    <2> QED BY <1>2, <2>1, GetOrCreateLoggerStep, GetOrCreateSubLoggerStep,
               SetLevelsStep, ManagerSetTraceLevelStep, ReadRacesStep DEF Call
  <1>3. ASSUME NEW u \in Updates, UpdateLevels(Updater, u) PROVE LoggersInv'
    BY <1>3, SetLevelsStep DEF Goroutine
  <1>4. ASSUME NEW c \in Goroutine, Step(c) PROVE LoggersInv'
    BY <1>4, ReadRootStep, LockParentStep, AddSubLoggerStep, AnswerStep,
       ReadDefaultLevelStep, LockForInsertStep, VisitStep, DescendStep, LeaveStep,
       EndLoopStep DEF Step
  <1> QED BY <1>1, <1>2, <1>3, <1>4 DEF Next

(* What goroutines have in hand, the tree and its locks agree always.      *)
THEOREM LoggersInvariant == Spec => []LoggersInv
  BY LoggersInit, LoggersStep, PTL DEF Spec

(* The loggers, the locks and the calls are well typed. *)
THEOREM LoggersTyping == Spec => []TypeOK
  BY LoggersInvariant, PTL DEF LoggersInv

(* The manager's map and the default logger's sub-logger map never         *)
(* disagree, although they are filled at different times.                  *)
THEOREM TheMapsAgree == Spec => []MapsAgree
  BY LoggersInvariant, PTL DEF LoggersInv

(* Whoever asks for a name below a logger is handed the same logger.       *)
LEMMA OneAnswer == LoggersInv => OneLoggerPerName
  <1> SUFFICES ASSUME LoggersInv, NEW a \in handed, NEW b \in handed, a[1] = b[1]
               PROVE  a[2] = b[2]
    BY DEF OneLoggerPerName
  <1> QED BY DEF LoggersInv, HandedInv

(* A name below a logger is always answered with the same logger.          *)
THEOREM NamesAreUnique == Spec => []OneLoggerPerName
  BY LoggersInvariant, OneAnswer, PTL

(* The locks a recursive set holds are a path down the tree.               *)
LEMMA PathHeld == LoggersInv => LocksArePaths
  <1> SUFFICES ASSUME LoggersInv, NEW c \in Goroutine
               PROVE  /\ \A i \in 1..Len(call[c].path): held[call[c].path[i].logger] = c
                      /\ \A i \in 1..(Len(call[c].path) - 1):
                           call[c].path[i + 1].logger \in Children(call[c].path[i].logger)
    BY DEF LocksArePaths
  <1>1. Len(call[c].path) \in Nat
    BY PathTyped
  <1> QED BY <1>1, CallTyped DEF PathInv

(* The locks of a recursive set are a path down the tree.                  *)
THEOREM SetsHoldPaths == Spec => []LocksArePaths
  BY LoggersInvariant, PathHeld, PTL

-----------------------------------------------------------------------------
(* The registry: a name is given a logger once, and answers repeat it.     *)
TreeKey == LoggerId \X Name
TheRegistry == [k \in TreeKey |-> subLoggers[k[1]][k[2]]]

LEMMA RegistryInit == Init => Registry!Init
  <1> SUFFICES ASSUME Init PROVE Registry!Init
    OBVIOUS
  <1>1. LoggersInv /\ handed = {}
    BY LoggersInit DEF Init
  <1>2. \A k \in TreeKey: subLoggers[k[1]][k[2]] \in LoggerId \cup {None}
    BY <1>1, StateTyped DEF TreeKey
  <1> QED BY <1>1, <1>2 DEF Registry!Init, TreeKey

LEMMA RegistryKept ==
    ASSUME UNCHANGED subLoggers PROVE TheRegistry' = TheRegistry
  BY DEF TheRegistry

(* An answer is an answer of the registry.                                 *)
LEMMA RegistryAnswer ==
    ASSUME LoggersInv, NEW l \in LoggerId, NEW n \in Name, NEW id \in LoggerId,
           Hand(l, n, id), id = subLoggers[l][n], subLoggers' = subLoggers
    PROVE  Registry!Next
  <1> DEFINE k == <<l, n>>
  <1>1. k \in LoggerId \X Name /\ k[1] = l /\ k[2] = n /\ id # None
    BY IdsAssumption
  <1>2. TheRegistry[k] = id
    BY <1>1 DEF TheRegistry, TreeKey
  <1>3. TheRegistry' = TheRegistry /\ handed' = handed \cup {<<k, TheRegistry[k]>>}
    BY <1>2, RegistryKept DEF Hand
  <1>4. Registry!Answer(k)
    BY <1>1, <1>2, <1>3 DEF Registry!Answer, TheRegistry, TreeKey
  <1> QED BY <1>1, <1>4 DEF Registry!Next

LEMMA RegistryStep ==
    ASSUME LoggersInv, [Next]_vars PROVE [Registry!Next]_(Registry!vars)
  <1> USE DEF Registry!vars
  <1>1. CASE UNCHANGED <<subLoggers, handed>>
    BY <1>1, RegistryKept DEF TheRegistry, TreeKey
  <1>2. ASSUME NEW c \in Caller, NEW n \in Name, GetOrCreateLogger(c, n),
               loggers[n] # None
        PROVE  Registry!Next
    <2>1. loggers[n] \in LoggerId /\ loggers[n] = subLoggers[Root][n]
      BY <1>2, StateTyped DEF LoggersInv, MapsAgree
    <2> QED BY <1>2, <2>1, RegistryAnswer, IdsAssumption DEF GetOrCreateLogger
  <1>3. ASSUME NEW c \in Goroutine, Answer(c) PROVE Registry!Next
    <2>1. /\ call[c].logger \in LoggerId /\ call[c].name \in Name
          /\ call[c].child \in LoggerId
          /\ call[c].child = subLoggers[call[c].logger][call[c].name]
      BY <1>3, CallTyped DEF Answer, CallInv, CallRecord
    <2> QED BY <1>3, <2>1, RegistryAnswer DEF Answer
  <1>4. ASSUME NEW c \in Goroutine, Insert(c) PROVE Registry!Next
    <2>1. /\ call[c].name \in Name /\ call[c].child \in LoggerId
          /\ call[c].child = subLoggers[Root][call[c].name]
      BY <1>4, CallTyped DEF Insert, CallInv, AfterGot, CallRecord
    <2> QED BY <1>4, <2>1, RegistryAnswer, IdsAssumption DEF Insert
  <1>5. ASSUME NEW c \in Goroutine, AddSubLogger(c) PROVE Registry!Next
    <2> DEFINE l == call[c].logger  n == call[c].name  k == <<l, n>>
    <2>1. PICK id \in LoggerId \ made: subLoggers' = [subLoggers EXCEPT ![l][n] = id]
      BY <1>5 DEF AddSubLogger
    <2>2. l \in LoggerId /\ n \in Name /\ subLoggers[l][n] = None
      BY <1>5, CallTyped DEF AddSubLogger, CallInv
    <2>3. /\ k \in TreeKey /\ TheRegistry[k] = None
          /\ \A j \in TreeKey: TheRegistry[j] # id
      BY <2>1, <2>2, IdsAssumption DEF TheRegistry, TreeKey, LoggersInv, MadeInv
    <2>4. \A m \in LoggerId, p \in Name:
             subLoggers'[m][p] = IF m = l /\ p = n THEN id ELSE subLoggers[m][p]
      BY <2>1, <2>2 DEF LoggersInv, TypeOK
    <2>5. TheRegistry' = [TheRegistry EXCEPT ![k] = id]
      <3> DEFINE f == TheRegistry'  g == [TheRegistry EXCEPT ![k] = id]
      <3>1. /\ f = [j \in TreeKey |-> f[j]] /\ g = [j \in TreeKey |-> g[j]]
        BY DEF TheRegistry
      <3>2. ASSUME NEW j \in TreeKey PROVE f[j] = g[j]
        <4>1. PICK m \in LoggerId, p \in Name: j = <<m, p>>
          BY DEF TreeKey
        <4>2. f[j] = IF m = l /\ p = n THEN id ELSE subLoggers[m][p]
          BY <2>4, <4>1 DEF TheRegistry
        <4>3. g[j] = IF j = k THEN id ELSE subLoggers[m][p]
          BY <4>1 DEF TheRegistry
        <4> QED BY <4>1, <4>2, <4>3
      <3> HIDE DEF f, g
      <3>3. f = g
        BY <3>1, <3>2
      <3> QED BY <3>3 DEF f, g
    <2>6. Registry!Create(k, id)
      BY <1>5, <2>1, <2>3, <2>5 DEF Registry!Create, TheRegistry, TreeKey, AddSubLogger
    <2> QED BY <2>3, <2>6 DEF Registry!Next, TreeKey
  <1> QED BY <1>1, <1>2, <1>3, <1>4, <1>5
          DEF Next, vars, Call, Step, GetOrCreateLogger, ReadRoot, ReadRaces,
              GetOrCreateSubLogger, LockParent, ReadDefaultLevel, LockForInsert,
              SetTraceLevel, ResetTraceLevel, UpdateLevels, ManagerSetTraceLevel, Visit,
              Descend, Leave, EndLoop

(* The tree and the manager's map, with all their locks and interleavings, *)
(* implement the registry.                                                 *)
THEOREM ImplementsRegistry == Spec => RegistrySpec
  <1>1. Init => Registry!Init
    BY RegistryInit
  <1>2. LoggersInv /\ [Next]_vars => [Registry!Next]_(Registry!vars)
    BY RegistryStep
  <1> QED BY <1>1, <1>2, LoggersInvariant, PTL DEF Spec, RegistrySpec, Registry!Spec

-----------------------------------------------------------------------------
(* Nobody waits in a circle.  Every lock that is taken is the business of  *)
(* a call in progress; the loggers can be ranked so that a sub-logger is   *)
(* above its parent, and a set waits only for loggers above those it       *)
(* holds.                                                                  *)
Holds(c, l) ==
    \/ pc[c] = "add" /\ call[c].logger = l
    \/ \E i \in 1..Len(call[c].path): call[c].path[i].logger = l

HoldsConf(c) == pc[c] = "insert" \/ (pc[c] = "loop" /\ call[c].op = "set")

OpInv(c) ==
    /\ pc[c] = "default" => call[c].op = "get"
    /\ pc[c] = "loop" => call[c].op \in {"get", "set"}

LockInv ==
    /\ \A l \in LoggerId: held[l] # None => Holds(held[l], l)
    /\ confLock # None => HoldsConf(confLock)
    /\ \A c \in Goroutine: OpInv(c)

Ranks(rank) ==
    \A l \in LoggerId: \A s \in Children(l): rank[l] < rank[s]

TreeInv ==
    /\ \E rank \in [LoggerId -> Nat]: Ranks(rank)
    /\ \A l \in LoggerId \ made: Children(l) = {}
    /\ \A c \in Goroutine: pc[c] \in {"create", "add"} => call[c].logger \in made

(* Calls that may create a logger, for each of which an identity is kept.  *)
Makers == {d \in Goroutine: pc[d] \in {"root", "create", "add"}}

RoomInv == Cardinality(Makers) <= Cardinality(LoggerId \ made)

GoOnInv == LoggersInv /\ LockInv /\ TreeInv /\ RoomInv

-----------------------------------------------------------------------------
(* Of the members of a finite set one has the highest rank: those above a  *)
(* member are fewer, the higher it is.                                     *)
LEMMA Highest ==
    ASSUME NEW S, IsFiniteSet(S), NEW f \in [S -> Nat], NEW T \in SUBSET S, T # {}
    PROVE  \E x \in T: \A y \in T: f[y] <= f[x]
  <1> DEFINE Above(x) == {y \in T: f[y] > f[x]}
             F == {Above(x): x \in T}
             R == StrictSubsetOrdering(S)
  <1>1. IsWellFoundedOn(R, FiniteSubsetsOf(S))
    BY FS_StrictSubsetOrderingWellFounded
  <1>2. F \subseteq FiniteSubsetsOf(S) /\ F # {}
    <2>1. FiniteSubsetsOf(S) = SUBSET S
      BY FS_FiniteSubsetsOfFinite
    <2>2. \A x \in T: Above(x) \in SUBSET S
      OBVIOUS
    <2> HIDE DEF Above
    <2> QED BY <2>1, <2>2
  <1>3. \E A \in F: \A B \in F: ~ (<<B, A>> \in R)
    <2> HIDE DEF F, R
    <2> QED BY <1>1, <1>2, WFMin
  <1>4. PICK x \in T: \A B \in F: ~ (<<B, Above(x)>> \in R)
    BY <1>3
  <1>5. ASSUME NEW y \in T, f[y] > f[x] PROVE FALSE
    <2>1. Above(y) \subseteq Above(x)
      BY <1>5
    <2>2. y \in Above(x) /\ y \notin Above(y)
      BY <1>5
    <2>3. <<Above(y), Above(x)>> \in R
      BY <2>1, <2>2 DEF StrictSubsetOrdering
    <2> QED BY <1>4, <2>3
  <1> QED BY <1>5

LEMMA Identities ==
    /\ IsFiniteSet(Goroutine) /\ IsFiniteSet(LoggerId)
    /\ \A S \in SUBSET Goroutine: IsFiniteSet(S) /\ Cardinality(S) \in Nat
    /\ \A S \in SUBSET LoggerId: IsFiniteSet(S) /\ Cardinality(S) \in Nat
  <1>1. IsFiniteSet(Goroutine) /\ IsFiniteSet(LoggerId)
    BY FiniteAssumption, FS_AddElement DEF Goroutine
  <1> QED BY <1>1, FS_Subset, FS_CardinalityType

(* An identity is left for a call that is about to create a logger.        *)
LEMMA RoomLeft ==
    ASSUME RoomInv, NEW c \in Goroutine, pc[c] = "add"
    PROVE  LoggerId \ made # {}
  <1>1. c \in Makers /\ Makers \in SUBSET Goroutine /\ LoggerId \ made \in SUBSET LoggerId
    BY DEF Makers
  <1>2. Cardinality(Makers) # 0 /\ Cardinality(Makers) \in Nat
    BY <1>1, Identities, FS_EmptySet
  <1> QED BY <1>1, <1>2, Identities, FS_EmptySet DEF RoomInv

-----------------------------------------------------------------------------
(* Whatever the state, a call in progress means that some call goes on.    *)
LEMMA NoCircle ==
    ASSUME GoOnInv, NEW c \in Goroutine, pc[c] # "idle"
    PROVE  \E d \in Goroutine: CanGoOn(d)
  <1> USE DEF GoOnInv
  <1>1. \A d \in Goroutine: pc[d] = "add" => made # LoggerId
    BY RoomLeft
  <1>2. CASE \E l \in LoggerId: held[l] # None
    <2> DEFINE H == {l \in LoggerId: held[l] # None}
    <2>1. PICK rank \in [LoggerId -> Nat]: Ranks(rank)
      BY DEF TreeInv
    <2>2. PICK l \in H: \A m \in H: rank[m] <= rank[l]
      <3>1. H \in SUBSET LoggerId /\ H # {}
        BY <1>2
      <3> HIDE DEF H
      <3> QED BY <3>1, Identities, Highest
    <2> DEFINE d == held[l]
    <2>3. d \in Goroutine /\ l \in LoggerId /\ Holds(d, l)
      BY StateTyped DEF LockInv
    <2>4. CASE pc[d] = "add"
      BY <1>1, <2>3, <2>4 DEF CanGoOn
    <2>5. CASE pc[d] # "add"
      <3> DEFINE path == call[d].path  n == Len(path)
      <3>1. PICK i \in 1..n: path[i].logger = l
        BY <2>3, <2>5 DEF Holds
      <3>2. n \in Nat /\ path # <<>>
        BY <2>3, <3>1, PathTyped, EmptySeq
      <3>3. pc[d] = "loop"
        BY <2>3, <3>2, CallTyped DEF CallInv
      <3>4. \A m \in Children(l): rank[m] > rank[l] /\ m \in LoggerId
        BY <2>1, <2>3, StateTyped DEF Ranks, Children
      <3>5. \A m \in Children(l): held[m] = None
        <4> SUFFICES ASSUME NEW m \in Children(l), held[m] # None PROVE FALSE
          OBVIOUS
        <4>1. m \in H
          BY <3>4
        <4> QED BY <2>1, <2>2, <2>3, <3>4, <4>1
      <3>6. i = n
        <4> SUFFICES ASSUME i < n PROVE FALSE
          BY <3>1, <3>2
        <4>1. path[i + 1].logger \in Children(l) /\ i + 1 \in 1..n
          BY <2>3, <3>1, <3>2, CallTyped DEF PathInv
        <4>2. held[path[i + 1].logger] = d
          BY <2>3, <4>1, CallTyped DEF PathInv
        <4>3. d # None
          BY <2>3, IdsAssumption DEF Goroutine
        <4> QED BY <3>5, <4>1, <4>2, <4>3
      <3>7. path[n].left \subseteq Children(l)
        BY <2>3, <3>1, <3>6, CallTyped DEF PathInv
      <3>8. path[n].left # {} => \E s \in path[n].left: held[s] = None
        BY <3>5, <3>7
      <3>9. CanGoOn(d)
        BY <3>2, <3>3, <3>8 DEF CanGoOn
      <3> QED BY <2>3, <3>9
    <2> QED BY <2>4, <2>5
  <1>3. CASE \A l \in LoggerId: held[l] = None
    <2>1. ASSUME NEW d \in Goroutine, pc[d] # "idle", pc[d] # "lock" PROVE CanGoOn(d)
      <3>1. pc[d] \in Places
        BY DEF LoggersInv, TypeOK, Places
      <3>2. CASE pc[d] = "create"
        BY <1>3, <3>2, CallTyped DEF CanGoOn, CallInv
      <3>3. CASE pc[d] = "loop"
        <4>1. call[d].path = <<>>
          <5> SUFFICES ASSUME call[d].path # <<>> PROVE FALSE
            OBVIOUS
          <5>1. 1 \in 1..Len(call[d].path)
            BY PathTyped, EmptySeq
          <5>2. held[call[d].path[1].logger] = d /\ call[d].path[1].logger \in LoggerId
            BY <5>1, PathTyped, CallTyped DEF PathInv
          <5> QED BY <1>3, <5>2, IdsAssumption DEF Goroutine
        <4>2. \A t \in call[d].todo: held[t[1]] = None
          BY <1>3, CallTyped DEF CallRecord
        <4> QED BY <3>3, <4>1, <4>2 DEF CanGoOn
      <3>4. CASE pc[d] = "add"
        BY <1>1, <3>4 DEF CanGoOn
      <3> QED BY <2>1, <3>1, <3>2, <3>3, <3>4 DEF CanGoOn, Places
    <2>2. CASE pc[c] = "lock" /\ confLock = None
      BY <2>2 DEF CanGoOn
    <2>3. CASE pc[c] = "lock" /\ confLock # None
      <3>1. confLock \in Goroutine /\ HoldsConf(confLock)
        BY <2>3, StateTyped DEF LockInv
      <3> QED BY <2>1, <3>1 DEF HoldsConf
    <2> QED BY <2>1, <2>2, <2>3
  <1> QED BY <1>2, <1>3

-----------------------------------------------------------------------------
(* The tree and its ranks, step by step.                                   *)
LEMMA KnownMade == LoggersInv => Known \subseteq made
  <1> SUFFICES ASSUME LoggersInv, NEW a \in handed PROVE a[2] \in made
    BY DEF Known, LoggersInv, MadeInv
  <1>1. a[1][1] \in LoggerId /\ a[1][2] \in Name /\ a[2] \in LoggerId
    BY DEF LoggersInv, TypeOK
  <1> QED BY <1>1, IdsAssumption DEF LoggersInv, HandedInv, MadeInv

LEMMA TreeInit == Init => TreeInv
  <1> SUFFICES ASSUME Init PROVE TreeInv
    OBVIOUS
  <1> DEFINE rank == [l \in LoggerId |-> IF l = SentryLogger THEN 1 ELSE 0]
  <1>1. \A l \in LoggerId: Children(l) \subseteq IF l = Root THEN {SentryLogger} ELSE {}
    BY DEF Init, Children
  <1>2. rank \in [LoggerId -> Nat] /\ rank[Root] = 0 /\ rank[SentryLogger] = 1
    BY IdsAssumption
  <1> HIDE DEF rank
  <1>3. Ranks(rank)
    BY <1>1, <1>2 DEF Ranks
  <1> QED BY <1>1, <1>2, <1>3 DEF Init, TreeInv

LEMMA WentTo ==
    ASSUME LoggersInv, NEW c \in Goroutine, NEW place, pc' = [pc EXCEPT ![c] = place]
    PROVE  pc'[c] = place /\ \A d \in Goroutine \ {c}: pc'[d] = pc[d]
  <1>1. pc \in [Goroutine -> Places]
    BY DEF LoggersInv, TypeOK, Places
  <1> QED BY <1>1

\* A step that adds nothing to the tree.
LEMMA TreeKept ==
    ASSUME TreeInv, UNCHANGED <<subLoggers, made>>,
           \A d \in Goroutine: pc'[d] \in {"create", "add"} =>
              call'[d].logger \in made
                \/ (pc[d] \in {"create", "add"} /\ call'[d].logger = call[d].logger)
    PROVE  TreeInv'
  <1>1. \A l: Children(l)' = Children(l)
    BY DEF Children
  <1> QED BY <1>1 DEF TreeInv, Ranks

LEMMA TreeGrows ==
    ASSUME LoggersInv, TreeInv, NEW c \in Goroutine, AddSubLogger(c)
    PROVE  TreeInv'
  <1> DEFINE l == call[c].logger  n == call[c].name
  <1>1. l \in LoggerId /\ n \in Name /\ l \in made /\ l \in LoggerId
    BY CallTyped DEF AddSubLogger, CallInv, TreeInv
  <1>2. PICK id \in LoggerId \ made:
          /\ subLoggers' = [subLoggers EXCEPT ![l][n] = id]
          /\ made' = made \cup {id} /\ Got(c, id)
    BY DEF AddSubLogger
  <1>3. \A m \in LoggerId: Children(m)' \subseteq Children(m) \cup (IF m = l THEN {id} ELSE {})
    <2>1. \A m \in LoggerId, p \in Name:
            subLoggers'[m][p] = IF m = l /\ p = n THEN id ELSE subLoggers[m][p]
      BY <1>1, <1>2 DEF LoggersInv, TypeOK
    <2> QED BY <1>1, <2>1 DEF Children
  <1>4. \A m \in LoggerId: Children(m) \subseteq made
    BY DEF Children, LoggersInv, MadeInv
  <1>5. \E rank \in [LoggerId -> Nat]: Ranks(rank)'
    <2>1. PICK rank \in [LoggerId -> Nat]: Ranks(rank)
      BY DEF TreeInv
    <2>2. PICK new \in [LoggerId -> Nat]:
            new[id] = rank[l] + 1 /\ \A m \in LoggerId \ {id}: new[m] = rank[m]
      <3>1. rank[l] + 1 \in Nat
        BY <1>1
      <3>2. [rank EXCEPT ![id] = rank[l] + 1] \in [LoggerId -> Nat]
        BY <3>1
      <3> QED BY <3>2
    <2>3. Ranks(new)'
      <3> SUFFICES ASSUME NEW m \in LoggerId, NEW s \in Children(m)' PROVE new[m] < new[s]
        BY DEF Ranks
      <3>1. m # id
        BY <1>1, <1>2, <1>3 DEF TreeInv
      <3>2. CASE s \in Children(m)
        <4>1. s # id /\ s \in LoggerId
          BY <1>2, <1>4, <3>2, StateTyped DEF Children
        <4> QED BY <2>1, <2>2, <3>1, <3>2, <4>1 DEF Ranks
      <3>3. CASE s \notin Children(m)
        <4>1. m = l /\ s = id
          BY <1>1, <1>3, <3>3
        <4>2. rank[l] \in Nat
          BY <1>1, <2>1
        <4> QED BY <1>1, <2>2, <3>1, <4>1, <4>2
      <3> QED BY <3>2, <3>3
    <2> QED BY <2>2, <2>3
  <1>6. \A m \in LoggerId \ made': Children(m)' = {}
    BY <1>1, <1>2, <1>3 DEF TreeInv
  <1>7. \A d \in Goroutine: pc'[d] \in {"create", "add"} => call'[d].logger \in made'
    <2>1. pc[c] = "add"
      BY DEF AddSubLogger
    <2>2. PICK place \in {"default", "answer"}, k \in CallRecord:
            pc' = [pc EXCEPT ![c] = place] /\ call' = [call EXCEPT ![c] = k]
      BY <1>2, <2>1, HasGot
    <2>3. pc'[c] \in {"default", "answer"} /\ \A d \in Goroutine \ {c}: pc'[d] = pc[d]
      BY <2>2, WentTo
    <2>4. \A d \in Goroutine \ {c}: call'[d] = call[d]
      BY <2>2 DEF LoggersInv, TypeOK
    <2> QED BY <1>2, <2>3, <2>4 DEF TreeInv
  <1> QED BY <1>5, <1>6, <1>7 DEF TreeInv

LEMMA TreeStep ==
    ASSUME LoggersInv, TreeInv, [Next]_vars
    PROVE  TreeInv'
  <1>1. ASSUME NEW c \in Goroutine, NEW place, pc' = [pc EXCEPT ![c] = place],
               \A d \in Goroutine \ {c}: call'[d] = call[d],
               place \notin {"create", "add"}, UNCHANGED <<subLoggers, made>>
        PROVE  TreeInv'
    <2>1. pc'[c] \notin {"create", "add"} /\ \A d \in Goroutine \ {c}: pc'[d] = pc[d]
      BY <1>1, WentTo
    <2> QED BY <1>1, <2>1, TreeKept
  <1>2. CASE UNCHANGED <<subLoggers, made, pc, call>>
    BY <1>2, TreeKept
  <1>3. ASSUME NEW c \in Goroutine, NEW n \in Name, GetOrCreateLogger(c, n) PROVE TreeInv'
    <2>1. CASE loggers[n] # None
      BY <1>2, <1>3, <2>1 DEF GetOrCreateLogger
    <2>2. CASE loggers[n] = None
      <3>1. /\ pc' = [pc EXCEPT ![c] = "root"] /\ UNCHANGED <<subLoggers, made>>
            /\ \A d \in Goroutine \ {c}: call'[d] = call[d]
        BY <1>3, <2>2 DEF GetOrCreateLogger, Goto, LoggersInv, TypeOK
      <3> QED BY <1>1, <3>1
    <2> QED BY <2>1, <2>2
  <1>4. ASSUME NEW c \in Goroutine, NEW l \in Known, NEW n \in Name, GetOrCreateSubLogger(c, l, n)
        PROVE  TreeInv'
    <2>1. l \in made
      BY KnownMade
    <2>2. call'[c].logger = l /\ \A d \in Goroutine \ {c}: call'[d] = call[d] /\ pc'[d] = pc[d]
      BY <1>4 DEF GetOrCreateSubLogger, NoCall, Goto, LoggersInv, TypeOK
    <2> QED BY <1>4, <2>1, <2>2, TreeKept DEF GetOrCreateSubLogger
  <1>5. ASSUME NEW c \in Goroutine, ReadRoot(c) PROVE TreeInv'
    <2>1. call'[c].logger = Root /\ \A d \in Goroutine \ {c}: call'[d] = call[d] /\ pc'[d] = pc[d]
      BY <1>5 DEF ReadRoot, Goto, LoggersInv, TypeOK
    <2> QED BY <1>5, <2>1, TreeKept DEF ReadRoot, MadeInv, LoggersInv
  <1>6. ASSUME NEW c \in Goroutine, LockParent(c) PROVE TreeInv'
    <2>1. CASE subLoggers[call[c].logger][call[c].name] # None
      <3>1. Got(c, subLoggers[call[c].logger][call[c].name]) /\ UNCHANGED <<subLoggers, made>>
        BY <1>6, <2>1 DEF LockParent
      <3>2. \A d \in Goroutine \ {c}: call'[d] = call[d]
        BY <3>1 DEF Got, LoggersInv, TypeOK
      <3>3. \E place \in {"default", "answer"}: pc' = [pc EXCEPT ![c] = place]
        BY <3>1 DEF Got, Goto
      <3> QED BY <1>1, <3>1, <3>2, <3>3
    <2>2. CASE subLoggers[call[c].logger][call[c].name] = None
      <3>1. UNCHANGED <<subLoggers, made, call>> /\ pc' = [pc EXCEPT ![c] = "add"] /\ pc[c] = "create"
        BY <1>6, <2>2 DEF LockParent, Goto
      <3>2. \A d \in Goroutine: d # c => pc'[d] = pc[d]
        BY <3>1, WentTo
      <3> QED BY <3>1, <3>2, TreeKept
    <2> QED BY <2>1, <2>2
  <1>7. ASSUME NEW c \in Goroutine,
               \/ Answer(c) \/ ReadDefaultLevel(c) \/ LockForInsert(c) \/ Insert(c) \/ EndLoop(c)
        PROVE  TreeInv'
    <2>1. /\ UNCHANGED <<subLoggers, made>>
          /\ \E place \in {"idle", "loop", "insert", "lock"}: pc' = [pc EXCEPT ![c] = place]
          /\ \A d \in Goroutine \ {c}: call'[d] = call[d]
      BY <1>7 DEF Answer, ReadDefaultLevel, LockForInsert, Insert, EndLoop, Goto,
                  LoggersInv, TypeOK
    <2> QED BY <1>1, <2>1
  <1>8. ASSUME NEW c \in Goroutine, Visit(c) \/ Descend(c) \/ Leave(c) PROVE TreeInv'
    <2>1. UNCHANGED <<subLoggers, made, pc>> /\ pc[c] = "loop"
      BY <1>8 DEF Visit, Descend, Leave
    <2>2. \A d \in Goroutine \ {c}: call'[d] = call[d]
      BY <1>8 DEF Visit, Descend, Leave, LoggersInv, TypeOK
    <2> QED BY <2>1, <2>2, TreeKept
  <1>9. ASSUME NEW c \in Goroutine, NEW todo, StartLoop(c, todo), UNCHANGED <<subLoggers, made>>
        PROVE  TreeInv'
    <2>1. \A d \in Goroutine \ {c}: call'[d] = call[d]
      BY <1>9 DEF StartLoop, LoggersInv, TypeOK
    <2> QED BY <1>1, <1>9, <2>1 DEF StartLoop, Goto
  <1>10. ASSUME NEW c \in Goroutine,
                \/ \E l \in Known, lv \in SetLevels: SetTraceLevel(c, l, lv)
                \/ \E lv \in ResetLevels: ResetTraceLevel(c, lv)
                \/ \E n \in LoggerName, lv \in SetLevels: ManagerSetTraceLevel(c, n, lv)
                \/ \E w \in Updates: UpdateLevels(c, w)
         PROVE  TreeInv'
    <2>1. /\ UNCHANGED <<subLoggers, made>>
          /\ (\E todo: StartLoop(c, todo)) \/ UNCHANGED <<pc, call>>
      BY <1>10 DEF SetTraceLevel, ResetTraceLevel, ManagerSetTraceLevel, UpdateLevels
    <2> QED BY <1>2, <1>9, <2>1
  <1>11. ASSUME NEW c \in Goroutine, ReadRaces(c) PROVE TreeInv'
    BY <1>2, <1>11 DEF ReadRaces
  <1>12. Caller \subseteq Goroutine /\ Updater \in Goroutine
    BY DEF Goroutine
  <1>13. CASE UNCHANGED vars
    BY <1>2, <1>13 DEF vars
  <1> QED BY <1>3, <1>4, <1>5, <1>6, <1>7, <1>8, <1>10, <1>11, <1>12, <1>13, TreeGrows
          DEF Next, Call, Step
-----------------------------------------------------------------------------
(* Every call that may create a logger finds an identity.                  *)
LEMMA RoomInit == Init => RoomInv
  <1> SUFFICES ASSUME Init PROVE RoomInv
    OBVIOUS
  <1>1. Makers = {}
    BY DEF Init, Makers
  <1>2. Cardinality(LoggerId \ made) \in Nat
    BY Identities
  <1> QED BY <1>1, <1>2, FS_EmptySet DEF RoomInv

LEMMA RoomKept ==
    ASSUME RoomInv, UNCHANGED made,
           \A d \in Goroutine: pc'[d] \in {"root", "create", "add"}
              => pc[d] \in {"root", "create", "add"}
    PROVE  RoomInv'
  <1>1. Makers' \subseteq Makers /\ Makers \in SUBSET Goroutine
    BY DEF Makers
  <1>2. IsFiniteSet(Makers) /\ Cardinality(Makers) \in Nat /\ Cardinality(Makers') \in Nat
        /\ Cardinality(LoggerId \ made) \in Nat
    BY <1>1, Identities
  <1>3. Cardinality(Makers') <= Cardinality(Makers)
    BY <1>1, <1>2, FS_Subset
  <1> QED BY <1>2, <1>3 DEF RoomInv

\* A call that takes its place among the makers while there is room.
LEMMA RoomTaken ==
    ASSUME LoggersInv, Room, UNCHANGED made, NEW c \in Goroutine, NEW place,
           pc' = [pc EXCEPT ![c] = place]
    PROVE  RoomInv'
  <1>1. Makers' \subseteq Makers \cup {c} /\ Makers \in SUBSET Goroutine
    BY WentTo DEF Makers
  <1>2. /\ IsFiniteSet(Makers) /\ Cardinality(Makers) \in Nat
        /\ Cardinality(LoggerId \ made) \in Nat /\ Cardinality(Makers') \in Nat
    BY <1>1, Identities
  <1>3. /\ IsFiniteSet(Makers \cup {c})
        /\ Cardinality(Makers \cup {c}) \in {Cardinality(Makers), Cardinality(Makers) + 1}
    BY <1>2, FS_AddElement
  <1>4. Cardinality(Makers') <= Cardinality(Makers \cup {c})
    BY <1>1, <1>3, FS_Subset
  <1>5. Cardinality(Makers) < Cardinality(LoggerId \ made)
    BY DEF Room, Makers
  <1> QED BY <1>2, <1>3, <1>4, <1>5 DEF RoomInv

LEMMA RoomUsed ==
    ASSUME LoggersInv, RoomInv, NEW c \in Goroutine, AddSubLogger(c)
    PROVE  RoomInv'
  <1>1. pc[c] = "add"
    BY DEF AddSubLogger
  <1>2. PICK id \in LoggerId \ made: made' = made \cup {id} /\ Got(c, id)
    BY DEF AddSubLogger
  <1>3. PICK place \in {"default", "answer"}: pc' = [pc EXCEPT ![c] = place]
    BY <1>1, <1>2, HasGot
  <1>4. c \in Makers /\ Makers \in SUBSET Goroutine /\ Makers' = Makers \ {c}
    BY <1>1, <1>3, WentTo DEF Makers
  <1> DEFINE Free == LoggerId \ made
  <1>5. id \in Free /\ Free' = Free \ {id} /\ Free \in SUBSET LoggerId
    BY <1>2
  <1>6. Cardinality(Makers') = Cardinality(Makers) - 1
    BY <1>4, Identities, FS_RemoveElement
  <1> HIDE DEF Free
  <1>7. Cardinality(Free') = Cardinality(Free) - 1
    BY <1>5, Identities, FS_RemoveElement
  <1>8. Cardinality(Free) \in Nat /\ Cardinality(Makers) \in Nat
    BY <1>4, <1>5, Identities
  <1> QED BY <1>6, <1>7, <1>8 DEF RoomInv, Free

LEMMA RoomStep ==
    ASSUME LoggersInv, RoomInv, [Next]_vars
    PROVE  RoomInv'
  <1>1. ASSUME NEW c \in Goroutine, NEW place, pc' = [pc EXCEPT ![c] = place],
               place \notin {"root", "create", "add"}
                 \/ pc[c] \in {"root", "create", "add"}, UNCHANGED made
        PROVE  RoomInv'
    BY <1>1, WentTo, RoomKept
  <1>2. CASE UNCHANGED <<pc, made>>
    BY <1>2, RoomKept
  <1>3. ASSUME NEW c \in Goroutine,
               \/ \E n \in Name: GetOrCreateLogger(c, n)
               \/ \E l \in Known, n \in Name: GetOrCreateSubLogger(c, l, n)
        PROVE  RoomInv'
    BY <1>2, <1>3, RoomTaken DEF GetOrCreateLogger, GetOrCreateSubLogger, Goto
  <1>4. ASSUME NEW c \in Goroutine,
               \/ ReadRoot(c) \/ LockParent(c) \/ Answer(c) \/ ReadDefaultLevel(c)
               \/ LockForInsert(c) \/ Insert(c) \/ EndLoop(c)
        PROVE  RoomInv'
    <2>1. UNCHANGED made
      BY <1>4 DEF ReadRoot, LockParent, Answer, ReadDefaultLevel, LockForInsert, Insert,
                  EndLoop
    <2>2. \E place \in Places: pc' = [pc EXCEPT ![c] = place]
            /\ (place \notin {"root", "create", "add"} \/ pc[c] \in {"root", "create", "add"})
      BY <1>4 DEF ReadRoot, LockParent, Answer, ReadDefaultLevel, LockForInsert, Insert,
                  EndLoop, Got, Goto, Places
    <2> QED BY <1>1, <2>1, <2>2
  <1>5. ASSUME NEW c \in Goroutine, NEW todo, StartLoop(c, todo), UNCHANGED made
        PROVE  RoomInv'
    BY <1>1, <1>5 DEF StartLoop, Goto
  <1>6. ASSUME NEW c \in Goroutine,
                \/ \E l \in Known, lv \in SetLevels: SetTraceLevel(c, l, lv)
                \/ \E lv \in ResetLevels: ResetTraceLevel(c, lv)
                \/ \E n \in LoggerName, lv \in SetLevels: ManagerSetTraceLevel(c, n, lv)
                \/ \E w \in Updates: UpdateLevels(c, w)
         PROVE  RoomInv'
    <2>1. UNCHANGED made /\ ((\E todo: StartLoop(c, todo)) \/ UNCHANGED pc)
      BY <1>6 DEF SetTraceLevel, ResetTraceLevel, ManagerSetTraceLevel, UpdateLevels
    <2> QED BY <1>2, <1>5, <2>1
  <1>7. ASSUME NEW c \in Goroutine, Visit(c) \/ Descend(c) \/ Leave(c) \/ ReadRaces(c)
        PROVE  RoomInv'
    BY <1>2, <1>7 DEF Visit, Descend, Leave, ReadRaces
  <1>8. Caller \subseteq Goroutine /\ Updater \in Goroutine
    BY DEF Goroutine
  <1>9. CASE UNCHANGED vars
    BY <1>2, <1>9 DEF vars
  <1> QED BY <1>3, <1>4, <1>6, <1>7, <1>8, <1>9, RoomUsed DEF Next, Call, Step

-----------------------------------------------------------------------------
(* The locks that are taken, step by step.                                 *)
LEMMA LockInit == Init => LockInv
  BY DEF Init, LockInv, OpInv

\* A step of one goroutine: its locks are its business, and the locks of the
\* others stay theirs.
LEMMA LocksKept ==
    ASSUME LoggersInv, LockInv, NEW c \in Goroutine,
           \A d \in Goroutine \ {c}: pc'[d] = pc[d] /\ call'[d] = call[d],
           \A l \in LoggerId: held'[l] \in {held[l], None, c},
           \A l \in LoggerId: held'[l] = c => Holds(c, l)',
           confLock' \in {confLock, None, c}, confLock' = c => HoldsConf(c)',
           OpInv(c)'
    PROVE  LockInv'
  <1>1. ASSUME NEW d \in Goroutine \ {c}
        PROVE  /\ \A l: Holds(d, l)' <=> Holds(d, l)
               /\ HoldsConf(d)' <=> HoldsConf(d)
               /\ OpInv(d)' <=> OpInv(d)
    BY DEF Holds, HoldsConf, OpInv
  <1>2. ASSUME NEW l \in LoggerId, NEW d, d = held'[l], d # None PROVE Holds(d, l)'
    <2>1. CASE d = c
      BY <1>2, <2>1
    <2>2. CASE d # c
      <3>1. d = held[l] /\ d \in Goroutine \ {c}
        BY <1>2, <2>2, StateTyped
      <3> QED BY <1>1, <1>2, <3>1 DEF LockInv
    <2> QED BY <2>1, <2>2
  <1>3. ASSUME NEW d, d = confLock', d # None PROVE HoldsConf(d)'
    <2>1. CASE d = c
      BY <1>3, <2>1
    <2>2. CASE d # c
      <3>1. d = confLock /\ d \in Goroutine \ {c}
        BY <1>3, <2>2, StateTyped
      <3> QED BY <1>1, <1>3, <3>1 DEF LockInv
    <2> QED BY <2>1, <2>2
  <1>4. \A d \in Goroutine: OpInv(d)'
    BY <1>1 DEF LockInv
  <1> QED BY <1>2, <1>3, <1>4 DEF LockInv, Holds, HoldsConf

LEMMA HoldsNothing ==
    ASSUME LoggersInv, LockInv, NEW c \in Goroutine
    PROVE  /\ pc[c] # "add" /\ call[c].path = <<>> => \A l \in LoggerId: held[l] # c
           /\ pc[c] \notin {"add", "loop"} => \A l \in LoggerId: held[l] # c
           /\ pc[c] \notin {"insert", "loop"} => confLock # c
  <1>1. c # None
    BY IdsAssumption DEF Goroutine
  <1>2. call[c].path = <<>> => 1..Len(call[c].path) = {}
    BY EmptySeq
  <1>3. pc[c] # "loop" => call[c].path = <<>>
    BY CallTyped DEF CallInv
  <1> QED BY <1>1, <1>2, <1>3 DEF LockInv, Holds, HoldsConf

\* A step between two places at which the goroutine holds nothing.
LEMMA LocksUntouched ==
    ASSUME LoggersInv, LockInv, NEW c \in Goroutine, NEW place \in Places, NEW k,
           pc' = [pc EXCEPT ![c] = place], call' = [call EXCEPT ![c] = k],
           UNCHANGED held, \A l \in LoggerId: held[l] # c,
           confLock' \in {confLock, None, c},
           confLock' = c => place = "insert" \/ (place = "loop" /\ k.op = "set"),
           place = "default" => k.op = "get",
           place = "loop" => k.op \in {"get", "set"}
    PROVE  LockInv'
  <1>1. pc'[c] = place /\ call'[c] = k
        /\ \A d \in Goroutine \ {c}: pc'[d] = pc[d] /\ call'[d] = call[d]
    <2>1. \A d \in Goroutine \ {c}: call'[d] = call[d]
      BY DEF LoggersInv, TypeOK
    <2>2. pc'[c] = place /\ \A d \in Goroutine \ {c}: pc'[d] = pc[d]
      BY WentTo
    <2>3. call'[c] = k
      BY DEF LoggersInv, TypeOK
    <2> QED BY <2>1, <2>2, <2>3
  <1>2. OpInv(c)' /\ (confLock' = c => HoldsConf(c)')
    BY <1>1 DEF OpInv, HoldsConf
  <1> QED BY <1>1, <1>2, LocksKept

LEMMA LocksOfSets ==
    ASSUME LoggersInv, LockInv, NEW c \in Goroutine, pc[c] = "idle", NEW todo,
           StartLoop(c, todo), UNCHANGED held, confLock' \in {confLock, c}
    PROVE  LockInv'
  <1>1. \A l \in LoggerId: held[l] # c
    BY HoldsNothing
  <1> DEFINE k == [NoCall EXCEPT !.op = "set", !.todo = todo]
  <1>2. k.op = "set"
    BY DEF NoCall
  <1>3. pc' = [pc EXCEPT ![c] = "loop"] /\ call' = [call EXCEPT ![c] = k]
    BY DEF StartLoop, Goto
  <1> HIDE DEF k
  <1> QED BY <1>1, <1>2, <1>3, LocksUntouched DEF Places

LEMMA LocksOfGet ==
    ASSUME LoggersInv, LockInv, NEW c \in Goroutine,
           \/ \E n \in Name: GetOrCreateLogger(c, n)
           \/ \E l \in Known, n \in Name: GetOrCreateSubLogger(c, l, n)
           \/ ReadRoot(c) \/ Answer(c) \/ ReadDefaultLevel(c) \/ LockForInsert(c)
           \/ Insert(c)
    PROVE  LockInv'
  <1>1. pc[c] \notin {"add", "loop"} /\ UNCHANGED held /\ confLock' \in {confLock, None, c}
    BY DEF GetOrCreateLogger, GetOrCreateSubLogger, ReadRoot, Answer, ReadDefaultLevel,
           LockForInsert, Insert
  <1>2. \A l \in LoggerId: held[l] # c
    BY <1>1, HoldsNothing
  <1>3. pc[c] # "insert" => confLock # c
    BY <1>1, HoldsNothing
  <1>4. CASE UNCHANGED <<pc, call>>
    <2>1. confLock' = confLock
      BY <1>4 DEF GetOrCreateLogger, GetOrCreateSubLogger, ReadRoot, Answer,
             ReadDefaultLevel, LockForInsert, Insert, Goto, LoggersInv, TypeOK
    <2> QED BY <1>1, <1>4, <2>1 DEF LockInv, Holds, HoldsConf, OpInv
  <1>5. ASSUME NEW place \in {"root", "create", "idle"}, NEW k,
               pc' = [pc EXCEPT ![c] = place], call' = [call EXCEPT ![c] = k],
               confLock' # c
        PROVE  LockInv'
    BY <1>1, <1>2, <1>5, LocksUntouched DEF Places
  <1>6. ASSUME NEW n \in Name, GetOrCreateLogger(c, n) PROVE LockInv'
    <2>1. pc[c] = "idle" /\ UNCHANGED confLock
      BY <1>6 DEF GetOrCreateLogger
    <2>2. UNCHANGED <<pc, call>> \/ \E k: pc' = [pc EXCEPT ![c] = "root"]
                                          /\ call' = [call EXCEPT ![c] = k]
      BY <1>6 DEF GetOrCreateLogger, Goto
    <2> QED BY <1>3, <1>4, <1>5, <2>1, <2>2
  <1>7. ASSUME NEW l \in Known, NEW n \in Name, GetOrCreateSubLogger(c, l, n) PROVE LockInv'
    <2>1. pc[c] = "idle" /\ UNCHANGED confLock /\ pc' = [pc EXCEPT ![c] = "create"]
          /\ \E k: call' = [call EXCEPT ![c] = k]
      BY <1>7 DEF GetOrCreateSubLogger, Goto
    <2> QED BY <1>3, <1>5, <2>1
  <1>8. CASE ReadRoot(c) \/ Answer(c)
    <2>1. pc[c] \in {"root", "answer"} /\ UNCHANGED confLock
          /\ \E place \in {"create", "idle"}: \E k:
               pc' = [pc EXCEPT ![c] = place] /\ call' = [call EXCEPT ![c] = k]
      BY <1>8 DEF ReadRoot, Answer, Goto
    <2> QED BY <1>3, <1>5, <2>1
  <1>9. CASE ReadDefaultLevel(c)
    <2> DEFINE k == [call[c] EXCEPT !.todo = {<<call[c].child, defaultLevel>>}]
    <2>1. k.op = "get"
      BY <1>9, CallTyped DEF ReadDefaultLevel, LockInv, OpInv, CallRecord
    <2>2. pc' = [pc EXCEPT ![c] = "loop"] /\ call' = [call EXCEPT ![c] = k] /\ UNCHANGED confLock
          /\ pc[c] = "default"
      BY <1>9 DEF ReadDefaultLevel, Goto
    <2> HIDE DEF k
    <2> QED BY <1>1, <1>2, <1>3, <2>1, <2>2, LocksUntouched DEF Places
  <1>10. CASE LockForInsert(c)
    <2>1. pc' = [pc EXCEPT ![c] = "insert"] /\ call' = [call EXCEPT ![c] = call[c]]
      BY <1>10 DEF LockForInsert, Goto, LoggersInv, TypeOK
    <2> QED BY <1>1, <1>2, <2>1, LocksUntouched DEF Places
  <1>11. CASE Insert(c)
    <2>1. pc' = [pc EXCEPT ![c] = "idle"] /\ call' = [call EXCEPT ![c] = NoCall] /\ confLock' = None
      BY <1>11 DEF Insert, Goto
    <2>2. None # c
      BY IdsAssumption DEF Goroutine
    <2> QED BY <1>5, <2>1, <2>2
  <1> QED BY <1>6, <1>7, <1>8, <1>9, <1>10, <1>11

LEMMA LocksOfCreate ==
    ASSUME LoggersInv, LockInv, NEW c \in Goroutine, LockParent(c) \/ AddSubLogger(c)
    PROVE  LockInv'
  <1> DEFINE l == call[c].logger
  <1>1. pc[c] \in {"create", "add"} /\ call[c].path = <<>> /\ UNCHANGED confLock
        /\ l \in LoggerId
    BY CallTyped DEF LockParent, AddSubLogger, CallInv
  <1>2. confLock # c /\ c # None
    BY <1>1, HoldsNothing, IdsAssumption DEF Goroutine
  <1>3. \A m \in LoggerId: held[m] = c => pc[c] = "add" /\ m = l
    <2>1. 1..Len(call[c].path) = {}
      BY <1>1, EmptySeq
    <2> QED BY <1>2, <2>1 DEF LockInv, Holds
  <1>4. ASSUME NEW id \in LoggerId, Got(c, id), \A m \in LoggerId: held'[m] # c,
               \A m \in LoggerId: held'[m] \in {held[m], None}
        PROVE  LockInv'
    <2>1. PICK place \in {"default", "answer"}, k \in CallRecord:
            /\ pc' = [pc EXCEPT ![c] = place] /\ call' = [call EXCEPT ![c] = k]
            /\ k.op = call[c].op /\ (place = "default" => call[c].op = "get")
      BY <1>1, <1>4, HasGot
    <2>2. pc'[c] = place /\ \A d \in Goroutine \ {c}: pc'[d] = pc[d]
      BY <2>1, WentTo
    <2>3. call'[c] = k /\ \A d \in Goroutine \ {c}: call'[d] = call[d]
      BY <2>1 DEF LoggersInv, TypeOK
    <2>4. OpInv(c)'
      BY <2>1, <2>2, <2>3 DEF OpInv
    <2> QED BY <1>1, <1>2, <1>4, <2>2, <2>3, <2>4, LocksKept
  <1>5. CASE LockParent(c) /\ subLoggers[l][call[c].name] # None
    <2>1. Got(c, subLoggers[l][call[c].name]) /\ UNCHANGED held /\ pc[c] = "create"
      BY <1>5 DEF LockParent
    <2>2. subLoggers[l][call[c].name] \in LoggerId
      BY <1>1, <1>5, CallTyped, StateTyped DEF CallInv
    <2> QED BY <1>3, <1>4, <2>1, <2>2
  <1>6. CASE LockParent(c) /\ subLoggers[l][call[c].name] = None
    <2>1. /\ pc[c] = "create" /\ pc' = [pc EXCEPT ![c] = "add"] /\ UNCHANGED call
          /\ held' = [held EXCEPT ![l] = c]
      BY <1>6 DEF LockParent, Goto
    <2>2. pc'[c] = "add" /\ \A d \in Goroutine \ {c}: pc'[d] = pc[d]
      BY <2>1, WentTo
    <2>3. \A m \in LoggerId: held'[m] = IF m = l THEN c ELSE held[m]
      BY <1>1, <2>1, StateTyped
    <2>4. Holds(c, l)'
      BY <2>1, <2>2 DEF Holds
    <2>5. \A m \in LoggerId: held'[m] = c => Holds(c, m)'
      BY <1>3, <2>1, <2>2, <2>3 DEF Holds
    <2>6. OpInv(c)'
      BY <2>2 DEF OpInv
    <2> QED BY <1>1, <1>2, <2>1, <2>2, <2>3, <2>5, <2>6, LocksKept
  <1>7. CASE AddSubLogger(c)
    <2>1. PICK id \in LoggerId: Got(c, id)
      BY <1>7 DEF AddSubLogger
    <2>2. \A m \in LoggerId: held'[m] = IF m = l THEN None ELSE held[m]
      BY <1>1, <1>7, StateTyped DEF AddSubLogger
    <2> QED BY <1>2, <1>3, <1>4, <2>1, <2>2
  <1> QED BY <1>5, <1>6, <1>7

\* A step inside the loop keeps to the locks on the path.
LEMMA LocksOfPath ==
    ASSUME LoggersInv, LockInv, NEW c \in Goroutine, pc[c] = "loop",
           UNCHANGED <<pc, confLock>>, NEW new,
           call'[c].op = call[c].op, call'[c].path = new,
           \A d \in Goroutine \ {c}: call'[d] = call[d],
           \A l \in LoggerId: held'[l] \in {held[l], None, c},
           \A l \in LoggerId: held'[l] = c => \E i \in 1..Len(new): new[i].logger = l
    PROVE  LockInv'
  <1>1. \A l \in LoggerId: held'[l] = c => Holds(c, l)'
    BY DEF Holds
  <1>2. OpInv(c)' /\ (confLock' = c => HoldsConf(c)')
    BY IdsAssumption DEF OpInv, LockInv, HoldsConf, Goroutine
  <1> QED BY <1>1, <1>2, LocksKept

LEMMA LocksOfVisit ==
    ASSUME LoggersInv, LockInv, NEW c \in Goroutine, Visit(c)
    PROVE  LockInv'
  <1>1. PICK t \in call[c].todo:
          /\ Enter(c, t[1], t[2])
          /\ call' = [call EXCEPT ![c].todo = @ \ {t}, ![c].level = t[2],
                ![c].path = <<[logger |-> t[1], left |-> Children(t[1])]>>]
    BY DEF Visit
  <1>2. pc[c] = "loop" /\ call[c].path = <<>> /\ UNCHANGED <<pc, confLock>>
    BY DEF Visit
  <1>3. t[1] \in LoggerId
    BY CallTyped DEF CallRecord
  <1>4. \A l \in LoggerId: held[l] # c /\ held'[l] = IF l = t[1] THEN c ELSE held[l]
    BY <1>1, <1>2, <1>3, HoldsNothing, StateTyped DEF Enter
  <1> DEFINE top == [logger |-> t[1], left |-> Children(t[1])]
             new == <<top>>
  <1>5. /\ call'[c].op = call[c].op /\ call'[c].path = new
        /\ \A d \in Goroutine \ {c}: call'[d] = call[d]
    <2>1. call \in [Goroutine -> CallRecord]
      BY AllCallsTyped
    <2>2. call[c] \in CallRecord
      BY <2>1
    <2> QED BY <1>1, <2>1, <2>2 DEF CallRecord
  <1>6. Len(new) = 1 /\ new[1].logger = t[1]
    OBVIOUS
  <1> HIDE DEF new
  <1>7. 1 \in 1..Len(new)
    BY <1>6
  <1> QED BY <1>2, <1>4, <1>5, <1>6, <1>7, LocksOfPath

LEMMA LocksOfDescend ==
    ASSUME LoggersInv, LockInv, NEW c \in Goroutine, Descend(c)
    PROVE  LockInv'
  <1> DEFINE path == call[c].path  n == Len(path)
  <1>1. PICK s \in path[n].left:
          /\ Enter(c, s, call[c].level)
          /\ call' = [call EXCEPT ![c].path =
                Append([path EXCEPT ![n].left = @ \ {s}],
                       [logger |-> s, left |-> Children(s)])]
    BY DEF Descend
  <1>2. pc[c] = "loop" /\ path # <<>> /\ UNCHANGED <<pc, confLock>>
    BY DEF Descend
  <1>3. path \in Seq(Frame) /\ n \in 1..n /\ n \in Nat
    BY <1>2, PathTyped, EmptySeq
  <1> DEFINE lower == [path[n] EXCEPT !.left = @ \ {s}]
             above == [path EXCEPT ![n] = lower]
             top == [logger |-> s, left |-> Children(s)]
             new == Append(above, top)
  <1>4. /\ path[n] \in Frame /\ lower \in Frame /\ lower.logger = path[n].logger
        /\ s \in LoggerId
    BY <1>3, PathTyped, CallTyped DEF Frame, PathInv
  <1>5. /\ above \in Seq(Frame) /\ Len(above) = n
        /\ \A i \in 1..n: above[i] = IF i = n THEN lower ELSE path[i]
    BY <1>3, <1>4, ExceptSeq
  <1>6. top \in Frame /\ top.logger = s
    BY <1>4, StateTyped DEF Children, Frame
  <1>7. /\ call'[c].op = call[c].op /\ call'[c].path = new
        /\ \A d \in Goroutine \ {c}: call'[d] = call[d]
    BY <1>1 DEF LoggersInv, TypeOK
  <1> HIDE DEF above, top, lower
  <1>8. /\ Len(new) = n + 1 /\ new[n + 1].logger = s
        /\ \A i \in 1..n: new[i].logger = path[i].logger
    BY <1>4, <1>5, <1>6, AppendProperties
  <1>9. \A l \in LoggerId: held'[l] = IF l = s THEN c ELSE held[l]
    BY <1>1, <1>4, StateTyped DEF Enter
  <1>10. \A l \in LoggerId: held[l] = c => \E i \in 1..n: path[i].logger = l
    BY <1>2, IdsAssumption DEF LockInv, Holds, Goroutine
  <1>11. n + 1 \in 1..(n + 1) /\ \A i \in 1..n: i \in 1..(n + 1)
    BY <1>3
  <1> HIDE DEF new
  <1>12. \A l \in LoggerId: held'[l] = c => \E i \in 1..Len(new): new[i].logger = l
    BY <1>8, <1>9, <1>10, <1>11
  <1> QED BY <1>2, <1>7, <1>9, <1>12, LocksOfPath

LEMMA LocksOfLeave ==
    ASSUME LoggersInv, LockInv, NEW c \in Goroutine, Leave(c)
    PROVE  LockInv'
  <1> DEFINE path == call[c].path  n == Len(path)
             new == SubSeq(path, 1, n - 1)
  <1>1. /\ pc[c] = "loop" /\ path # <<>> /\ UNCHANGED <<pc, confLock>>
        /\ held' = [held EXCEPT ![path[n].logger] = None]
    BY DEF Leave
  <1>2. path \in Seq(Frame) /\ n \in 1..n /\ n \in Nat
    BY <1>1, PathTyped, EmptySeq
  <1>3. Len(new) = n - 1 /\ \A i \in 1..(n - 1): new[i] = path[i]
    <2>1. \A i \in 1..(n - 1): path[i] \in Frame
      BY <1>2, PathTyped
    <2> QED BY <1>2, <2>1, SubSeqProperties
  <1>4. /\ call'[c].op = call[c].op /\ call'[c].path = new
        /\ \A d \in Goroutine \ {c}: call'[d] = call[d]
    <2>1. call' = [call EXCEPT ![c].path = new]
      BY DEF Leave
    <2> HIDE DEF new
    <2> QED BY <2>1 DEF LoggersInv, TypeOK
  <1>5. path[n].logger \in LoggerId
    BY <1>2, PathTyped
  <1>6. \A l \in LoggerId: held'[l] = IF l = path[n].logger THEN None ELSE held[l]
    BY <1>1, <1>5, StateTyped
  <1>7. c # None
    BY IdsAssumption DEF Goroutine
  <1>8. \A l \in LoggerId: held[l] = c => \E i \in 1..n: path[i].logger = l
    BY <1>1, <1>7 DEF LockInv, Holds
  <1>9. \A i \in 1..n: i = n \/ i \in 1..(n - 1)
    BY <1>2
  <1> HIDE DEF new
  <1>10. \A l \in LoggerId: held'[l] = c => \E i \in 1..Len(new): new[i].logger = l
    BY <1>3, <1>6, <1>7, <1>8, <1>9
  <1> QED BY <1>1, <1>4, <1>6, <1>10, LocksOfPath

LEMMA LocksOfEndLoop ==
    ASSUME LoggersInv, LockInv, NEW c \in Goroutine, EndLoop(c)
    PROVE  LockInv'
  <1>1. pc[c] = "loop" /\ call[c].path = <<>> /\ UNCHANGED held /\ c # None
    BY IdsAssumption DEF EndLoop, Goroutine
  <1>2. \A l \in LoggerId: held[l] # c
    BY <1>1, HoldsNothing
  <1>3. CASE call[c].op = "get" /\ pc' = [pc EXCEPT ![c] = "lock"] /\ UNCHANGED <<call, confLock>>
    <2>1. confLock # c
      BY <1>1, <1>3 DEF LockInv, HoldsConf
    <2>2. call' = [call EXCEPT ![c] = call[c]]
      BY <1>3 DEF LoggersInv, TypeOK
    <2> QED BY <1>1, <1>2, <1>3, <2>1, <2>2, LocksUntouched DEF Places
  <1>4. CASE pc' = [pc EXCEPT ![c] = "idle"] /\ call' = [call EXCEPT ![c] = NoCall]
             /\ confLock' = IF confLock = c THEN None ELSE confLock
    BY <1>1, <1>2, <1>4, LocksUntouched DEF Places
  <1> QED BY <1>3, <1>4 DEF EndLoop, Goto

LEMMA LockStep ==
    ASSUME LoggersInv, LockInv, [Next]_vars
    PROVE  LockInv'
  <1>1. CASE UNCHANGED <<pc, call, held, confLock>>
    BY <1>1 DEF LockInv, Holds, HoldsConf, OpInv
  <1>2. ASSUME NEW c \in Goroutine,
                \/ \E l \in Known, lv \in SetLevels: SetTraceLevel(c, l, lv)
                \/ \E lv \in ResetLevels: ResetTraceLevel(c, lv)
                \/ \E n \in LoggerName, lv \in SetLevels: ManagerSetTraceLevel(c, n, lv)
                \/ \E w \in Updates: UpdateLevels(c, w)
         PROVE  LockInv'
    <2>1. /\ pc[c] = "idle" /\ UNCHANGED held /\ confLock' \in {confLock, c}
          /\ (\E todo: StartLoop(c, todo)) \/ UNCHANGED <<pc, call, held, confLock>>
      BY <1>2 DEF SetTraceLevel, ResetTraceLevel, ManagerSetTraceLevel, UpdateLevels
    <2> QED BY <1>1, <2>1, LocksOfSets
  <1>3. ASSUME NEW c \in Goroutine, ReadRaces(c) PROVE LockInv'
    BY <1>1, <1>3 DEF ReadRaces
  <1>4. Caller \subseteq Goroutine /\ Updater \in Goroutine
    BY DEF Goroutine
  <1>5. CASE UNCHANGED vars
    BY <1>1, <1>5 DEF vars
  <1>6. ASSUME NEW c \in Caller, Call(c) PROVE LockInv'
    BY <1>2, <1>3, <1>4, <1>6, LocksOfGet DEF Call
  <1>7. ASSUME NEW c \in Goroutine, Step(c) PROVE LockInv'
    BY <1>7, LocksOfGet, LocksOfCreate, LocksOfVisit, LocksOfDescend, LocksOfLeave,
       LocksOfEndLoop DEF Step
  <1> QED BY <1>2, <1>4, <1>5, <1>6, <1>7 DEF Next

-----------------------------------------------------------------------------
LEMMA GoOnInvariant == Spec => []GoOnInv
  <1>1. Init => GoOnInv
    BY LoggersInit, LockInit, TreeInit, RoomInit DEF GoOnInv
  <1>2. GoOnInv /\ [Next]_vars => GoOnInv'
    BY LoggersStep, LockStep, TreeStep, RoomStep DEF GoOnInv
  <1> QED BY <1>1, <1>2, PTL DEF Spec

(* Calls never wait for each other in a circle, for any number of          *)
(* goroutines and loggers and any shape of the tree: the locks of the      *)
(* manager and of the loggers are always somebody's that can go on, or     *)
(* that waits for one that can.                                            *)
THEOREM NobodyWaitsInACircle == Spec => []SomebodyGoesOn
  <1>1. GoOnInv => SomebodyGoesOn
    BY NoCircle DEF SomebodyGoesOn
  <1> QED BY <1>1, GoOnInvariant, PTL
=============================================================================
