# csp-cwp-common in TLA+: processors, their builder, logging and diagnostics

This directory holds TLA+ models of the Go packages under `csp-cwp-common/pkg`,
the TLC configurations that check them on small instances, and proofs, checked
by TLAPS, of what holds for every instance. Paths below are relative to `pkg/`.

## The system

| component | state it keeps | operations | talks to |
|---|---|---|---|
| processor goroutine, `processor/example_processor.go` | egress maps `eventSinks`, `querySinks`; unbuffered channels `events`, `stop`; `isReady`, `livenessTimestamp`, `heartbeatMsg`; the lists in `params` | `NewTestProcessor`, `AddEventSink`, `AddQuerySink`, `Run`, `Shutdown`, `PushEvent`, `IsReady`, `IsAlive`, `GetHeartbeat`, `UpdateConfiguration`; inside the goroutine `sendNextEvent`, `runNextQuery` | other instances, through a sink and the tap behind it |
| service goroutine, `processor/example_service.go` | the same | the same, and `RunQuery`, `GetEventSink` | the same |
| tap and sink, `processor/tap.go`, `processor/sink.go` | the handlers behind a tap; the tap behind a sink | `PushEvent`, `RunQuery` | pass a call on to the destination, on the caller's goroutine |
| builder, `builder/builder.go` | `constructors`, ordered map `localInstances`, the loaded blueprint | `NewBuilder`, `AddConstructor`, `Run`, `Shutdown`, `Clear` | creates, wires, runs and stops the instances; calls the loader and the constructors |
| blueprint loader, `builder/blueprint_loader.go` | three lists of string maps | `load`, `validate`, `checkKeys` | called by `NewBuilder` |
| constructor, `builder/constructor.go` | a creator function and its parameters | `call`, `validate` (reflection) | called by `createProcessor` |
| processors iterator, `builder/processors_iterator.go` | a cursor in `localInstances` | `GetProcessorsIterator`, `Next`, `Current` | health checks, which ask each instance `IsReady` |
| logger manager, `agent_libraries/logger/manager.go` | map of loggers, configuration, channel of configuration updates, the writers | `GetOrCreateLogger`, `SetTraceLevel`, `ResetTraceLevel`, `UpdateConfig`, `Close`, the update goroutine | loggers and writers |
| logger, `agent_libraries/logger/logger.go` | tree of sub-loggers that share one level handle and one pair of counters | the log calls, `SetTraceLevel`, `getOrCreateInternalSubLogger` | zap, then the sentry writer |
| rolling file writer, `agent_libraries/logger/file_logger.go` | `online`, the file, two stop channels, `os.Stdout` and `os.Stderr` | `enableFileLogger`, `Write`, `Close`, two redirection goroutines | the manager |
| sentry writer, `agent_libraries/logger/sentry.go` | client, options, level | `updateSentryConfig`, `sendSentryMessage`, `RecoverRepanicSentry` | loggers and manager |
| diagnostics, `agent_libraries/diagnostics/diagnose.go` | pprof server, gops flag, jaeger closer | `UpdateConfig`, `Close` | - |

These are three programs that meet only through calls: the mesh of instances and
its builder, the logger, and the diagnostics endpoints.

**The mesh.** An instance runs one goroutine,

    select { event := <-events | <-stop | <-ticker.C | default: runNextQuery(); sendNextEvent() }

and `sendNextEvent` pushes through sink and tap straight into the `events`
channel of the destination. That channel is unbuffered, so a sender is blocked
inside its own `default` branch until the destination's `select` comes round:
while it is, it neither receives, nor stops, nor ticks. `Shutdown` is a send on
the unbuffered `stop` channel. Everything the builder does to a running mesh is
therefore a question of who waits for whom:

* concurrency: several senders on one channel, a receiver that itself sends, a
  `Shutdown` caller competing with them;
* ordering: instances start in blueprint order and stop in the reverse order;
  `Run` and `Shutdown` return before the goroutines have set their readiness;
* failure: a `Run` that fails (zero interval), a constructor or a relation that
  fails half-way, a list operation that panics and takes the process down;
* call sequences: `Clear` of a live mesh, `Run` after it, a second `Run`;
* time: only the loop takes ticks, so a long push looks like a dead instance.

**The logger.** Callers, the goroutine of configuration updates, two redirection
goroutines per log file and main's deferred `Close` share a map of loggers under
the manager's lock, a tree of loggers with a lock each, one level cell, the
sentry writer under a lock of its own, and the file writer under none. What is
hard is what happens between two locks: `GetOrCreateLogger` looks up, creates and
inserts in three sections; `Write` checks and writes in two; an update of the
sentry writer is three assignments while messages are judged by what they read.

**The diagnostics.** `UpdateConfig` holds a lock, `Close` does not, and each reads
the closer of the tracer twice before it calls it; the pprof server is made by
an update and served by a goroutine that may run after the next one.

What makes each part correct:

* processor and service: no event lost, duplicated, reordered or delivered to
  the wrong instance between the pop and the append to `ProcessedEvents`; one
  answer per answered query; nothing happens after `Shutdown` has returned; an
  instance whose loop turns is alive, one whose loop does not is not; a
  heartbeat is that of one configuration;
* loader: it accepts exactly the usable blueprints;
* constructor: it makes a processor of every documented form of creator, and a
  processor of nothing else;
* builder: start and stop order; one failing instance does not affect the
  others and is reported; nobody sends to an instance that was stopped;
  `Shutdown` returns; events get where the blueprint sends them; a health check
  that walks the mesh comes to its end;
* loggers: a name has one logger, whoever asks for it and when; recursive level
  sets, calls that create and updates never wait for each other in a circle;
* log output: no line is written to a closed file; captured streams go to the
  file; the last update rules; updates and `Close` return;
* sentry writer: a message is judged and sent by one configuration;
* diagnostics: what an update asks for is what is there after it; what is closed
  is closed once and stays off.

`PROJECT.json` lists the hazards line by line.

## Modules

    EventFlow                what the event path promises (abstract)
      ^ implemented by
    Processor                goroutines, channels, taps and sinks
      ^ extended by
    Builder  <- Layout       one Builder, its caller, and every mesh it creates
      ^ extended by
    HealthCheck              the iterator, walking the mesh until it is ready
    Blueprint <- Layout      the loader's validation, entry by entry
    Constructor              the checks and the call of a creator, by reflection
    Liveness, Heartbeat      what monitors see of one instance
    LoggerRegistry           what the tree of loggers promises (abstract)
      ^ implemented by
    Loggers                  manager's map, tree, locks and level
    LogOutput                update channel, file writer, redirections, Close
    Sentry                   log calls, sentry updates, panics of main
    Diagnostics              pprof, gops and Jaeger under UpdateConfig and Close

    <Module>_proofs          theorems (Monitoring_proofs: Liveness and Heartbeat;
                             Blueprint_proofs: Constructor too; Builder_proofs:
                             HealthCheck too)
    MC<Module>, MC*.cfg      model checking (MCBlueprint: Blueprint and
                             Constructor; MCHealth: HealthCheck and Builder;
                             MCMonitoring: Liveness, Heartbeat, Diagnostics)

The update goroutine of the manager occurs in three modules, each with the part
of `safeUpdateConfig` that touches its state: the levels in `Loggers`, the
sentry writer in `Sentry`, the file and the console in `LogOutput`. The three
parts touch disjoint fields, one after the other, under one lock.

### EventFlow

Every instance has a list of events and a cursor. In one step the event under
the cursor is skipped, if its type has no sink, or moved to the end of the log
of the instance it is wired to. There are no goroutines, channels, stops or
panics. `Processor` implements it with `events` = the list an instance was
created with, `sinks` = `eventSinks`, `log` = `processed` and `cursor` = the
number of events popped, less the one that is in the sender's hands.

### Processor

| variable | code |
|---|---|
| `made[p]` | the `params` an instance was created with (`None` before `New`) |
| `eventSinks`, `querySinks` | the two maps, each sink named by the instance whose tap it holds |
| `pc[p]` | the goroutine: `new` (no `Run`), `launched` (the `go` statement), `select`, `sending` (an event was popped), `parked` (blocked in `events <- event`), `returning` (stop received), `exited` |
| `sendEvents[p]`, `sendQueries[p]` | what is left of the lists, as the window `lo .. hi` of the original slice: the code only re-slices |
| `processed[p]` | `ProcessedEvents`; an event is named by its sender and its place in the sender's list |
| `queryResults[p]` | `QueryResults`; an answer is named by the place of its query |
| `ready[p]`, `stopCaller[p]` | `isReady`; a `Shutdown` caller blocked on `stop` |
| `panicked` | a goroutine panicked, nobody recovers |

`New`, `AddEventSink`, `AddQuerySink`, `Run` and `Shutdown` are the calls;
`Start`, `Default`, `Panic`, `Park`, `Receive`, `TakeStop` and `Exit` are the
steps of the goroutine. `Default` is one step up to the push: a query runs on
the caller's goroutine and touches nothing of the callee, and what `runNextQuery`
and `sendNextEvent` change before the push is private to the instance. `Receive`
is the rendezvous, which moves sender and receiver together. `select` chooses
freely among the ready channels, and `default` only when none is.

A `TestService` pops with `[1 : len-1]`, a `TestProcessor` with `[1:]`; the model
has both (`Pop`), and the panic of the first on a list of length one (`Panic`).

Abstractions: the ticker branch only refreshes a timestamp and is left to
`Liveness`; the configuration calls, which only touch the heartbeat, are left to
`Heartbeat`; an instance has a `params` object of its own; `Run` is called at most once on an
instance, as the builder does; a panic ends the model.

### Layout and Blueprint

`Layout` has the shape of a blueprint: strings are members of `Word`, a missing
key has the value `Absent`. `WellFormed` says what a usable blueprint is without
reference to how it is checked. `Blueprint` is `validate`, one entry per step,
with the set of names met so far; each error return is a value of `err`.

### Builder

Extends `Processor`; instances are pairs of a mesh number and a name. The
builder is not synchronised, so its calls come from one thread: `mode` names the
loop that thread is in, `pos` its iteration, and the goroutines run between any
two iterations. `createProcessor`, `addEventRelation` and `addQueryRelation` are
the iterations of `createProcessorsMesh`, with the error path that clears the
mesh (`MeshError`); `RunInstance` is one iteration of `Run`;
`BeginShutdown`/`NextShutdown`/`EndShutdown` are `Shutdown`, whose calls block.
`Clear` forgets the mesh but its goroutines go on, so they stay in the model.
`MaxMesh` bounds the number of meshes and is the only bound.

Assumptions on the constants: the blueprint passed the loader
(`BlueprintsAssumption`); no two of its instances have the same type, because
these would share one `params` object (`OwnParamsAssumption`); a creator either
makes an instance from its parameters or fails (`CreatorsAssumption`).

### HealthCheck

`Builder` with the thread that also walks the mesh (`builder_test.go:184-220`):
`GetProcessorsIterator` after a `Run` without errors or after a `Shutdown`, then
`Poll`, which is `Current`, `IsReady` and, once that is as wished, `Next`. `iter`
is the cursor, `walk` what is waited for. While it walks the thread makes no
builder call; the goroutines go on.

### Constructor

`validate` and `call`, for any value given as a creator (nil, not a function, any
function type) and any list of parameters. A type is an element of `Type` with
the string reflect gives it, because `validate` compares strings and
`reflect.Value.Call` compares types. `results` is what the creator will return;
`outcome` is what `call` makes of it: a processor, a nil processor in a non-nil
interface, an error or a panic. Inside `Builder` a creator is what this leaves:
it makes an instance or fails.

### Liveness and Heartbeat

`Liveness` counts time from Go's zero time. `Elapse` is the clock with the ticker,
whose channel holds one tick; `TakeTick` is the ticker case of the loop with
`setLiveness`; `BeginPush` and `EndPush` bound the `default` case; `Stop` ends the
loop. `IsAlive` multiplies the grace by a second once more and wraps at the width
of a duration, as the code does. `MaxNow` bounds the time.

`Heartbeat` has the two writes of `UpdateConfiguration` and the two reads of
`GetHeartbeat`, each a step, under `heartbeatLock` (`writer`, `readers`).

### Loggers and LoggerRegistry

| variable | code |
|---|---|
| `subLoggers[l]`, `held[l]` | the sub-loggers of a logger and who holds its lock |
| `loggers`, `confLock` | `m.loggers` without its constant entry, and its lock |
| `level`, `defaultLevel` | the cell behind all level handles (`zap.AtomicLevel` is copied with the parent, `logger.go:225`), and `conf.DefaultTraceLevel` |
| `pc`, `call` | where each goroutine is, and what it has in hand: parent, name, sub-logger, levels still to set, and the path of a recursive set |
| `handed` | ghost: every answer, with its parent and name |
| `crashed` | the runtime's fatal map error, or a panic |

`GetOrCreateLogger`, `ReadRoot`, `LockParent`, `AddSubLogger`, `ReadDefaultLevel`,
`LockForInsert` and `Insert` are the sections of the manager's call;
`GetOrCreateSubLogger`, `LockParent`, `AddSubLogger` and `Answer` those of the
logger's. `SetTraceLevel`, `ResetTraceLevel`, `UpdateLevels` and
`ManagerSetTraceLevel` start a loop; `Visit`, `Descend`, `Leave` and `EndLoop` are
the recursion of `Logger.SetTraceLevel`, which holds the lock of a logger until
all below it are done. `ReadRaces` is the unlocked read of the manager's map that
meets an insertion: the process may end there.

`LoggerRegistry` says that under a parent a name is given one fresh logger, once,
and every answer is that logger. For `GetOrCreateSubLogger` this is what the code,
its tests and the manager say, and not what its interface comment says
(`logger.go:17`, see `NilIfExists` under the failing runs). `Loggers` implements it with `registry` = the
tree; the manager's map, the locks and the levels are invisible to it.

Abstractions: a logger is an identity; its zap core, its encoder and its two
counters, which nothing reads, are left out; a section under a read lock that
looks one entry up is one step; `Room` keeps the identities of `LoggerId` from
running out.

### LogOutput

A log file is named by the `enableFileLogger` call that opened it. `maker` is
`NewManager`, `main` closes the manager as often as it likes, `updater` is
`waitForConfigUpdate`; `pc` says where each is inside `CloseWriter`,
`CloseChannels`, `Enable`, `SetFile` and `GoOnline`, which are
`rollingFileWriter.Close` and `enableFileLogger`. `FindStream` to `RestoreStream`
are the goroutine that redirects one stream into one file. `StartWrite` and
`WriteFile` are the check and the write of `Write`. `UpdateConfig` and `Accept` are
the send on the channel of capacity one, `Receive` to `FinishUpdate` the update.

Abstractions: the 2 seconds of sleep in `Close` are taken to outlast any write
under way (`SleepOutlastsWrites`); the look at the stop channel and the putting
back of the stream are one step, because a closed channel stays closed; lines
lost in a pipe nobody reads are not counted; the rolling of a file by its size,
and that the rolling library opens a closed file again, are the library's.
`File == 1..2` is no restriction: the stop channels can be closed once, so a
third file is never opened.

### Sentry

`Log`, `Debugf`, `Panic` and `Fatal` are the log calls, as far as the zap logger
lets them come to the sentry writer. `ReadLock` to `ReadUnlock` is
`sendSentryMessage`, read by read; `Lock`, `SetLevel`, `SetDsn`, `SetClient`,
`Unlock` is `updateSentryConfig`, write by write. Both log under the writer's lock
through a logger that must not report to it (`InternalLoggerReports`). `MainPanics`
and `Close` are main's deferred `Manager.Close`, with Go's rule that `recover` works
only in the deferred function itself (`RecoveredIn`). Ghosts: `seen`, what a call
has read, and `inForce`, the configuration of the last update done.

Abstractions: tags, fingerprints and the text of a message; a client is named by
the DSN it was made for. `ErrorLevel` is zapcore's, which the log calls use; the
constant of that name the package exports is `zapcore.WarnLevel` (`manager.go:23`),
which matters to whoever configures a level by it, and to nothing in the model.

### Diagnostics

`Lock`, `UpdatePprof`, `UpdateGops`, `UpdateJaeger`, `InitJaeger`, `Unlock` are an
update; `CheckCloser`, `CallCloser`, `ForgetCloser` are `safeCloseJaeger`, for an
update and for `Close`; `StartClose`, `CloseGops`, `ClosePprof` the rest of `Close`;
`Serve` the goroutine of the pprof server. `isChangeInConfig` compares an
interface with nil, so that it is nil for the closer, an interface, and never for
the server pointer or the gops flag (`PprofIsNil`, `GopsIsNil`, `JaegerIsNil`). A
tracer is numbered by the `NewTracer` that made it; `MaxTracers` bounds them.
The Jaeger, gops and HTTP libraries are modelled from how they are used.

Definitions called "Mutant" in comments are broken variants of the operator that
follows them. No specification uses them: each is substituted for its operator
to see that a property really depends on it.

## Runs

| run | what it shows | instance |
|---|---|---|
| `processor` | `TypeOK`, `InOrder`, `OnlySent`, `NothingLost`, `ResultsMatchQueries`, `QuietAfterStop`, and that `Processor` implements `EventFlow` | two instances in symmetric roles; a processor with two events of different types and a query, a service that `Run` rejects, a service with three events and two queries of its own, which loses entries and panics on its second pop |
| `service_lists` | `ListsOnlyPopped` fails | the same |
| `blueprint` | `VerdictExact`: accepted iff well-formed; `DocumentedFormsWork` and `ProcessorIsChecked` of the constructor | at most two instances, two event relations, one query relation, with each kind of defect; functions of up to two parameters and three results, two types of one string, variadic functions, nil in every place |
| `mesh_safety` | `NoStrandedSender`, `StartStopOrder`, `RunReportsFailures`, `AsksOnlyWhatIsAllowed` | two meshes of two instances, five blueprints, creators of both kinds, one that fails and one whose `Run` fails |
| `mesh_liveness` | `ShutdownReturns`, `EventsDrain`, `WalkIsASnapshot`, `WalkEnds` | one mesh of two or three: two senders on one channel, a chain, a chain listed out of order, a processor and a service as in `builder_test.go`, two that send to each other |
| `failed_run` | `ShutdownAfterFailedRun` fails | two instances, the second fails to run |
| `load_layout` | `ShutdownOfAnyMeshReturns` fails | the layout of `blueprint_test.go` (LoadLayout) |
| `monitoring` | `NoFalseAlarm`, `HeldIsNoticed`; `HeartbeatIsLastConfig`; `TracerHasCloser`, `JaegerFollowsUpdates`, `PprofStaysOff`, `OnlyCloseCrashes` | `Liveness`, `Heartbeat` or `Diagnostics`, which share no variable, one in each behaviour: an interval of 3, a second of 2, durations of 20 values, five ticks, graces below and above the interval and the overflow; two callers, two configurations; two updaters, `Close`, three tracers, any of which may fail to start |
| `loggers` | `OneLoggerPerName`, `MapsAgree`, `LocksArePaths`, `SomebodyGoesOn`, and that `Loggers` implements `LoggerRegistry` | two callers and the updater, two names, two loggers besides the two there are at the start, in a tree of any shape, two levels |
| `sub_logger` | `NilIfExists` fails | the same |
| `log_output` | `NoWriteToClosedFile`, `FirstFileGetsStreams`, `LastUpdateRules`, `CrashNeedsFileUpdate`, `CallsReturn` | a sender, a writer, the updater, `Close` at any time; updates that name a file and that do not; copies that may fail |
| `sentry` | `ReportsSeeOneConfig`, `CallsReturn` | two callers, four kinds of first configuration, four updates, an address that is rejected |

Two instances suffice for the safety of `Processor` to be exercised in full: each
can be sender, receiver and its own receiver, wired in a cycle, stopped at any
point, or never run; two events are needed to tell order and loss apart. Two
meshes are what `Clear` of a live mesh needs. Three instances are what fan-in and
a chain need; `HealthCheck` has one mesh, because a walk is over before the next
is made. Two callers are what every race of the logger and the diagnostics is
between, and two new loggers make the tree two levels deep below the default
one, or two names race at one level. The theorems remove these bounds.

Deadlock checking is off everywhere: a mesh whose work is done, a stopped mesh, a
loader that has returned, a goroutine that waits for a call and a dead process
all legitimately stop. That what should happen does happen is what the liveness
properties say, and `SomebodyGoesOn` for the loggers.

### Fairness

`Builder`: weak fairness of each goroutine (`Goroutine(p)`) and of the thread inside
a builder call (`Proceed`); `HealthCheck` adds the walk (`Poll`). The Go scheduler
runs every runnable goroutine. No fairness is assumed of the calls themselves,
nor of the choice `select` makes among ready channels: `Shutdown` returns because
a receiver takes a stop once its finite supply of events is exhausted at the
latest. The ticker cannot starve a loop: its period is far longer than an
iteration.

`LogOutput` and `Sentry`: weak fairness of steps that nobody can disable, strong
fairness of those that wait for a lock or a place in a channel others may take
again and again. `sync.RWMutex` and channels both queue those who wait, so a
waiter is served after finitely many others. Calls are never fair.

`Loggers` states no fairness. `SomebodyGoesOn` says that while a call is in
progress some goroutine can take a step of its own: no circle, no lock left
behind. It uses no fairness, and so cannot be got from too much of it. When a
goroutine can go on is spelled out (`CanGoOn`: the lock it wants, its parent's, the
manager's or that of one sub-logger left to visit, is free, and there is an
identity for the logger it makes), so that the property can be proved; on the
instance of the run it was compared with `ENABLED Step(c)` in every state.

### What the failing runs say

* `TestService` drops the last element of `SendEvents` or `SendQueries` with
  every pop (`example_service.go:222`, `:239`), and panics on a list of length
  one. The comments describe plain popping, which is what `TestProcessor` does.
* After a `Run` with errors the comment at `builder.go:55-56` tells the user to
  call `Shutdown`. It blocks for ever on the instance that never ran, and does
  not reach the running ones before it.
* If events go to an instance listed later, `Shutdown` stops the receiver first.
  A sender blocked in its push then never gets to its own `stop` channel, and
  `Shutdown` hangs (`builder.go:89`). With receivers listed first, as in the
  builder's own tests, it returns (`ShutdownReturns`), and no sender is ever
  stranded (`NoStrandedSender`).
* `GetOrCreateSubLogger` hands out the sub-logger that exists (`logger.go:215-217`).
  Its interface comment says that it "returns nil if exists" (`logger.go:17`).
  `logger_test.go:57-66` and, of the manager's call, `manager.go:33` say what the
  code does; so `OneLoggerPerName` and `LoggerRegistry` take the code's side, and it
  is the comment that is wrong.

### Promises the code does not keep

The modules end with what a comment or a test says of the code and what the model
contradicts. These are stated, each with the line it quotes, but are part of no
run; put as the only invariant of the module's configuration, TLC refutes each of
them, but for the one where the table says so. What the counterexamples show:

| definition | what happens |
|---|---|
| `Loggers!ResetReachesAll` | a `GetOrCreateLogger` that read the old default level before a `ResetTraceLevel` sets it after it, for all loggers, because the level is one cell |
| `Loggers!SetTraceLevelReturns` | `Manager.SetTraceLevel` of a logger without a sub-logger of its own name panics while it makes its error message |
| `LogOutput!CloseIsSafe` | a `Close` of a file an update opened closes the stop channels a second time |
| `LogOutput!StreamsFollowFile` | the redirections of a second file find the channels closed and put the streams back |
| `Sentry!PanicsAreReported` | the zap logger panics or exits before the sentry writer is called |
| `Sentry!MainPanicIsReported` | `RecoverRepanicSentry` is called by the deferred function, so its `recover` returns nil |
| `Sentry!SavedConfigIsUsed` | the address of a disabled configuration is not saved, and an update that enables the writer without repeating it has none |
| `Sentry!SafelyApplies` | an update of a manager made without sentry locks a nil writer |
| `Diagnostics!UpdateEnablesPprof` | the interface made of a nil server pointer is not nil, so enabling is taken for no change |
| `Diagnostics!CloseIsGraceful` | `Close` and an update both find the closer, and one forgets it before the other calls it |
| `Liveness!GraceIsADuration` | a grace counts a second for each of its nanoseconds |
| `Liveness!TickIsAlive` | from about nine seconds on the product overflows, and an instance is dead the moment it ticks; this one holds in `MCMonitoring.cfg`, whose interval still fits, and fails with an interval of 5 |
| `Constructor!FailureIsAnError` | a creator that is no function, a nil parameter, two types of one string, a nil function or a variadic one: reflection panics |
| `Constructor!NilProcessorIsAnError` | a creator that declares a pointer type and returns nil gives a non-nil interface |

## Proofs

All theorems hold for every value of the constants that satisfies the named
assumptions.

`Processor_proofs`:

* `Typing`: `Spec => []TypeOK`. `TypeOK` is not inductive: that `Target` is an
  instance and that a pop stays within the list need `Bounds` (windows lie within
  their lists, nothing runs or is wired before it is created, a held event was
  popped and has a sink). `TypeInv == TypeOK /\ Bounds` is.
* `ExactlyOnceInOrder`: `InOrder`, `OnlySent` and `NothingLost`
  (`EventsStayInOrder` and `OnlySentIsProcessed` name the first two). Their
  conjunction (`Delivery`) is inductive relative to `TypeInv`. `Receive` is the
  heart: the event received is the sender's last popped one, hence new to the log
  and later than all its predecessors.
* `QueriesAnsweredOnce`: `ResultsMatchQueries` is inductive relative to `TypeInv`.
* `StopIsFinal`: `QuietAfterStop`, an action property, from `TypeInv`.
* `EventFlowImplemented`: initial states map to initial states, and every step to
  a step of `EventFlow` or a stutter. `Default` moves the cursor only when
  the event has no sink, `Receive` moves cursor and log together.
* `EveryStepIsProgress`: `Work(p)`, a natural number (`WorkIsFinite`), is what an
  instance has left to do: three for an event, one for a query, and how far it is
  from the end of its goroutine. No call and no step of anybody adds to it, and
  every step of a goroutine but a panic takes from its own or from that of the
  sender it releases. So loops cannot turn for ever, in any wiring; what can go
  wrong is only that nobody is able to go on.
* `RestDelivers`: what holds when nobody is (`Able` says who is): a processor in its
  loop has had all its events with a sink processed, and whoever is held in a
  push is held by an instance that was never run, has ended, or is held itself.
  `Consumption` says which entries a window has lost, for either kind of pop.
* `DeadForEver`: a set of instances that have ended, were rejected by `Run`, or hold
  each other in pushes stays so, and no `Shutdown` of any of them returns. This is
  the other side of `ShutdownReturns` and `EventsDrain`: their hypotheses on the
  blueprint cannot be done without.
* `OnlyOddServicesPanic` and `ServicesSendHalf`: what the pop of `TestService` costs,
  for lists of any length. It takes an entry from both ends, so the parity of a
  list is kept (`Consumption`) and only an odd one comes down to the length one
  that panics (`PanicCause`), and an event that is popped is of the first half.

`Builder_proofs`:

* `BuilderAsksProperly`: `AsksOnlyWhatIsAllowed`. Wherever the builder calls an
  instance without asking in which state it is (it wires, runs and stops what is
  listed), the state is one `Processor` allows the call in. So the guards of
  `Processor` never hold up a builder, and the model of the mesh does not owe its
  good behaviour to them. It follows from `WholeInv` (below), which includes where in
  the blueprint each loop of the builder is (`BuilderTypes`, `Placement`).
* `MeshesDeliver`: what is proved of processors under any caller, delivery, answers
  and quiet after a stop, holds of every mesh. That a step of the mesh is one of
  `Processor` (`MeshIsProcessors`) is so by composition; that the calls are allowed
  is `BuilderAsksProperly`.
* `NobodyStranded`: `NoStrandedSender`, and `OrderKept`: `StartStopOrder`. Neither
  is inductive. `MeshInv` adds that sinks follow the blueprint
  (`SinksFollowBlueprint`), that start and stop order hold of every mesh ever
  made, dropped ones included (`StartedInOrder`, `StoppedInOrder`), and how far
  the loops of `Run` and `Shutdown` have come (`RunProgress`, `StopProgress`).
  An instance takes a stop only when `Shutdown` has come to it, and then all
  those listed later have left their loops; so a sender, listed later than its
  receivers, is gone before any of them is.
* `FailuresReported`: `RunReportsFailures`, with `ErrorsReported` (what Run has
  reported so far, and that a failing instance never leaves `new`) added to
  `MeshInv`.
* `BuilderTyping`: `BuilderTypeOK`.
* `WalkSeesOneState`: `HealthSpec => []WalkIsASnapshot`. `HealthInv` adds to
  `MeshInv` when an instance is ready (`Readiness`), and that during a walk no call
  is in progress, so that nobody stops a goroutine and what the walk has passed
  stays past its start, or its end (`WalkInv`).
* `NoEventJam`: in a mesh without event cycles, of which nobody was stopped or
  rejected, somebody can go on until all events and queries are done
  (`EventsNeverJam`). Were all held, the one of them whose rank in the order of
  the relations is lowest would be held by one that is not held.
* `ShutdownGoesOn`: in a mesh whose events go to instances listed earlier, a first
  `Shutdown` has stopped all, or its call in progress is released, or somebody can
  go on (`ShutdownNeverStuck`). The instance that is waited for is in its loop, or
  held by one listed earlier, which is not stopped yet; the first of those that
  are held is held by one that is able.
* `SecondShutdownHangs` and `ShutdownOnceOnly`: between calls a mesh is stopped as a
  whole or not at all, a `Shutdown` that begins on a stopped mesh hangs in its
  first call, and nothing anybody does ends it.
* `WalkGoesOn`: the instance a walk looks at is as the walk wants it, or has one free
  step to take until it is (`WalkNeverStuck`).

  For these `WholeInv` adds to `MeshInv`, besides `ErrorsReported`, that the mesh of
  a number is what its blueprint lists (`Membership`), and which of its goroutines
  have been started and stopped together (`StartedTogether`, `StoppedTogether`).

`Blueprint_proofs`:

* `VerdictCorrect`: `VerdictExact`. `LoaderInv` says which entries have passed when
  an entry is looked at, and that the names met are then all there are; so
  looking a name up is the same as asking whether it exists at all.
* `ProcessorsAreChecked`: `ConstructorSpec => []ProcessorIsChecked`, and
  `DocumentedFormsMakeProcessors`: `DocumentedFormsWork`, for functions with any
  number of parameters and results. `ConstructorInv` says that the outcome is that
  of the one call made; `CallIsChecked` and `ResultsChecked` follow the checks to
  a processor, `DocumentedFormIsValid` the documented forms through the checks.

`Monitoring_proofs` (any interval, width of a duration, graces, callers):

* `AlarmsAreReal`: `NoFalseAlarm`, and `AlarmsAreRaised`: `HeldIsNoticed`.
  `LivenessInv` adds `TickerInv`: the next tick is ahead, by an interval at most,
  and when none waits the last one taken lies at most an interval before it,
  however many were dropped during a push; and `TimestampInv`: a push or an end
  is later than the timestamp. `EpochAssumption`, that the zero time is longer ago than
  any duration, is why an instance that never ticked is never alive.
* `GraceDecides`: with a grace that fits a duration an instance is alive as it ticks,
  its own interval included (`TickIsAlive`), and with one whose product wraps to
  zero or below it never is (`GraceMustFit`).
* `HeartbeatsAreWhole`: `HeartbeatIsLastConfig`. `HeartbeatInv` says that a writer
  excludes readers and what each has written or copied so far.

`Sentry_proofs` (any callers, levels and updates):

* `SentryTyping`, and `OneConfigurationReports`: `ReportsSeeOneConfig`. `SentryInv`
  adds that readers and the writer exclude each other (`LocksExclude`) and that
  what a call has read is what the writer still has (`OneConfig`).
* `CallsNeverStuck`: a call that has the read lock waits for nobody, one that wants
  it waits for an update, and an update only for calls that have it (`WaitsEnd`);
  that the logger used under the lock does not report is what it rests on.
* `ConfiguredUpdatesAreSafe`: `SafelyApplies` holds of every manager that was made
  with a sentry configuration.

`Diagnostics_proofs` (any number of updaters):

* `TracersHaveClosers`, `TracersFollowUpdates`, `PprofStays`, `UpdatesDoNotCrash`.
  `DiagnosticsInv` follows the one updater that holds the lock through its steps
  (`JaegerOf`, `PprofOf`): before a `Close` begins nobody else touches the tracer,
  and the tracer and its closer differ only while that updater closes it. What
  holds of pprof holds after a `Close` as well, which takes no lock, because
  nothing brings the server back.
* `UpdatesOnlySwitchOff`: that is a fact about every update, of gops as well, and the
  opposite of `UpdateEnablesPprof`.
* `TracersAreClosed`: between two updates every tracer ever made is closed but the one
  in use, and no update closes one twice (`NoTracerLeaks`, from `Accounted`: a tracer
  is closed before it is forgotten, and one is made only when none is there). Once
  a `Close` runs beside an update neither is promised.

`LogOutput_proofs` (any senders and writers):

* `ClosingIsSafe`, `LastUpdateApplies`, `StreamsReachFirstFile`, `WritesReachFiles`.
  `LogOutputInv`: one actor at a time is busy with the writer, the maker or
  whoever holds `confLock` (`Locks`); what that actor finds at each of its places
  (`PhaseOf`, `WriterInv`); that without an update of the file only `Close` ever
  closes it (`FileUpdates`); where the last update is on its way (`LastInv`); and
  that a redirection is there before its file is (`RedirectInv`). That no line
  goes to a closed file rests on the assumption about the sleep.
* `CrashCauses`: closing panics for the second file and for no other, which is hence
  never closed; a nil file writer is called only by an update that names a file
  after a `Close` (`CrashCause`).
* `ThirdFileNeverOpened`: the bound `File` hides no behaviour of the program.
* `CallsNeverStuck`: who wants `confLock` waits for its holder, and the holder, or
  `NewManager`, only for a write or a redirection under way (`WaitsEnd`).

`Loggers_proofs` (any goroutines, names, loggers, levels; a tree of any shape):

* `LoggersTyping`, `NamesAreUnique`, `TheMapsAgree`, `SetsHoldPaths`. `LoggersInv`
  says what a goroutine has in hand at each place (`CallInv`): one about to add a
  sub-logger holds the parent's lock and there is none yet; one that got a
  sub-logger has the one in the tree. So every answer is what the tree has
  (`HandedInv`), although the manager looks up, creates and inserts in three
  sections. `PathInv` says that a recursive set holds the locks on its path, each
  once, and that what is left to visit is below its logger, which the tree never
  forgets while it grows.
* `ImplementsRegistry`: `AddSubLogger` maps to the registry's creation, with an
  identity no other name has (`MadeInv`); the manager's hit, `Answer` and `Insert`
  map to its answer; all else stutters.
* `NobodyWaitsInACircle`: `SomebodyGoesOn`. `GoOnInv` adds to `LoggersInv` that a lock
  that is taken is the business of a goroutine at a place that holds it, and
  `confLock` likewise (`LockInv`); that the loggers can be ranked so that each
  sub-logger is above its parent, and one not yet made has none (`TreeInv`); and
  that an identity is kept for each call that may make a logger (`RoomInv`). If a
  logger lock is held, look at the highest one held: its holder adds a sub-logger,
  which waits for nothing, or its path ends there, and what it has left to visit is
  higher still, so free. If none is, who wants one gets it, and who wants `confLock`
  waits for a set that gets what it wants, or for an insertion.

Only model-checked: the liveness properties, `ShutdownReturns`, `EventsDrain`,
`WalkEnds` and the two `CallsReturn`, as they follow from fairness, which is out of
the prover's reach. What they rest on is proved without it, for every instance:
somebody can go on until the promise is kept (`ShutdownGoesOn`, `NoEventJam`,
`WalkGoesOn`, the two `CallsNeverStuck`), and for the mesh every step leaves less to
do (`EveryStepIsProgress`). The conclusion, that a scheduler which runs who is able
then keeps the promise, is the part left to TLC. Who is able is spelled out in
these theorems (`Able`, `CanGoOn`, `UpdateGoesOn`); TLC compared each with `ENABLED` of
the step it stands for, in all states of the instances of the runs.

## Not modelled

* The reading of the YAML file, formatting, version strings, build files, the
  Python example and the protobuf definitions, whose generated code is not in the
  repository: no state.
* `bad_processor.go`: stubs that return errors. What the builder does with an
  instance whose `Run` fails is in `Builder`, with the instances that really fail.
* `GetFormattedLoggerNames`, encoders, tags, the two counters of a logger: nothing
  reads them but people.
* Two instances of one type with one `params` object, which would append to one
  slice from two goroutines (`OwnParamsAssumption`): after such a race any value
  may be there, and nothing can be said.
* That a second `Shutdown` of one mesh returns is stated nowhere in the repository,
  and no run asks it; `ShutdownOnceOnly` says what the call does.

What could come next: one manager composed of `Loggers`, `LogOutput` and `Sentry`,
to follow one update through its three parts; several instances under one
`Liveness`, so that the time a sender is held is the time its receiver takes.
