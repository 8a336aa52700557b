------------------------------- MODULE Builder -------------------------------
(***************************************************************************)
(* pkg/builder composed with the goroutines of pkg/processor: one Builder, *)
(* the thread that calls it, and every mesh of instances it creates.       *)
(*                                                                         *)
(* The calls of the API are not synchronised with each other, so they come *)
(* from one thread (mode = "idle" between calls); inside a call every loop *)
(* iteration is a step, and the goroutines of all instances created so far *)
(* run in between, those of a mesh that Clear has dropped included.        *)
(*                                                                         *)
(* An instance is identified by the number of the mesh it was created for  *)
(* and its name.  MaxMesh bounds the number of meshes.                     *)
(***************************************************************************)
EXTENDS Processor

CONSTANTS
    Word, Empty, Absent,
    Blueprints,    \* blueprint files the builder may be created with
    Creators,      \* for each type name, what AddConstructor may register
    Broken,        \* a creator whose call fails
    MaxMesh

INSTANCE Layout WITH KnownEvent <- EventType, KnownQuery <- QueryType

\* NewBuilder fails unless the loader accepts the file.
ASSUME BlueprintsAssumption ==
    Blueprints \subseteq {b \in LayoutSet : WellFormed(b)}

\* Instances of one type would share the params object of its constructor.
ASSUME OwnParamsAssumption ==
    \A b \in Blueprints: \A i, j \in DOMAIN b.localInstances:
        i # j => b.localInstances[i].type # b.localInstances[j].type

ASSUME CreatorsAssumption ==
    /\ Creators \in [Word -> SUBSET (Params \cup {Broken})]
    /\ Broken \notin Params /\ Broken # None

ASSUME MeshAssumption == MaxMesh \in Nat /\ Instance = (1 .. MaxMesh) \X Word

VARIABLES
    blueprint,       \* b.loader
    constructors,    \* b.constructors
    localInstances,  \* b.localInstances, in insertion order
    meshes,          \* how many meshes were begun
    mode,            \* the call in progress, by its loop; "idle" if none
    pos,             \* the iteration of that loop
    runErrors        \* instances whose Run failed in the last Builder.Run

builderVars == <<blueprint, constructors, localInstances, meshes, mode, pos, runErrors>>
meshVars == <<vars, builderVars>>

Mode == {"idle", "instances", "events", "queries", "running", "stopping"}

\* The instance of this mesh called n.
Local(n) == <<meshes, n>>

Listed == {localInstances[i] : i \in DOMAIN localInstances}

-----------------------------------------------------------------------------
(* NewBuilder.                                                             *)
MeshInit ==
    /\ Init
    /\ blueprint \in Blueprints
    /\ constructors = [w \in Word |-> None]
    /\ localInstances = <<>>
    /\ meshes = 0
    /\ mode = "idle" /\ pos = 1
    /\ runErrors = {}

AddConstructor(type, c) ==
    /\ mode = "idle" /\ ~panicked
    /\ constructors[type] = None
    /\ constructors' = [constructors EXCEPT ![type] = c]
    /\ UNCHANGED <<vars, blueprint, localInstances, meshes, mode, pos, runErrors>>

(* Clear forgets the mesh without stopping it.                             *)
Clear ==
    /\ mode = "idle" /\ ~panicked
    /\ localInstances' = <<>>
    /\ constructors' = [w \in Word |-> None]
    /\ runErrors' = {}
    /\ UNCHANGED <<vars, blueprint, meshes, mode, pos>>

(* Run on a builder whose mesh is not empty only returns an error.         *)
BeginRun ==
    /\ mode = "idle" /\ ~panicked
    /\ localInstances = <<>>
    /\ meshes < MaxMesh
    /\ meshes' = meshes + 1
    /\ mode' = "instances" /\ pos' = 1
    /\ runErrors' = {}
    /\ UNCHANGED <<vars, blueprint, constructors, localInstances>>

\* Still inside the loop of mode m over list.
Iterating(m, list) == mode = m /\ pos <= Len(list) /\ ~panicked

\* The loop of mode m over list is done: go on with mode n.
LoopDone(m, list, n) ==
    /\ mode = m /\ pos > Len(list) /\ ~panicked
    /\ mode' = n /\ pos' = 1
    /\ UNCHANGED <<vars, blueprint, constructors, localInstances, meshes, runErrors>>

\* An error of createProcessorsMesh: clearMesh, and Run returns it.
MeshError ==
    /\ localInstances' = <<>>
    /\ mode' = "idle" /\ pos' = 1
    /\ UNCHANGED <<vars, blueprint, constructors, meshes, runErrors>>

NextIteration ==
    /\ pos' = pos + 1
    /\ UNCHANGED <<blueprint, constructors, meshes, mode>>

createProcessor ==
    /\ Iterating("instances", blueprint.localInstances)
    /\ LET e == blueprint.localInstances[pos]
           p == Local(e.name)
           create == constructors[e.type]
       IN  \/ (p \in Listed \/ create \in {None, Broken}) /\ MeshError
           \/ /\ p \notin Listed /\ create \notin {None, Broken}
              /\ New(p, create)
              /\ localInstances' = Append(localInstances, p)
              /\ NextIteration /\ UNCHANGED runErrors

\* getProcessorInfo finds both ends of a relation.
BothFound(r) == {Local(r.source), Local(r.destination)} \subseteq Listed

(* Mutant: the sink is made from the tap of the source.                    *)
addEventRelationToItself ==
    /\ Iterating("events", blueprint.eventRelations)
    /\ LET r == blueprint.eventRelations[pos]
           src == Local(r.source)
       IN  \/ (~BothFound(r) \/ eventSinks[src][r.type] # None) /\ MeshError
           \/ /\ BothFound(r)
              /\ AddEventSink(src, r.type, src)
              /\ NextIteration /\ UNCHANGED <<localInstances, runErrors>>

addEventRelation ==
    /\ Iterating("events", blueprint.eventRelations)
    /\ LET r == blueprint.eventRelations[pos]
           src == Local(r.source)
           dst == Local(r.destination)
       IN  \/ (~BothFound(r) \/ eventSinks[src][r.type] # None) /\ MeshError
           \/ /\ BothFound(r)
              /\ AddEventSink(src, r.type, dst)
              /\ NextIteration /\ UNCHANGED <<localInstances, runErrors>>

IsService(p) == made[p].kind = "service"

addQueryRelation ==
    /\ Iterating("queries", blueprint.queryRelations)
    /\ LET r == blueprint.queryRelations[pos]
           src == Local(r.source)
           dst == Local(r.destination)
       IN  \/ /\ ~BothFound(r) \/ ~IsService(dst) \/ querySinks[src][r.type] # None
              /\ MeshError
           \/ /\ BothFound(r) /\ IsService(dst)
              /\ AddQuerySink(src, r.type, dst)
              /\ NextIteration /\ UNCHANGED <<localInstances, runErrors>>

(* Mutant: an error is kept under the name of the instance.                *)
RunInstanceByName ==
    /\ Iterating("running", localInstances)
    /\ LET p == localInstances[pos]
       IN  \/ ~RunFails(p) /\ Run(p) /\ UNCHANGED runErrors
           \/ RunFails(p) /\ runErrors' = runErrors \cup {p[2]} /\ UNCHANGED vars
    /\ NextIteration /\ UNCHANGED localInstances

(* Mutant: the first error ends the loop.                                  *)
RunInstanceUntilError ==
    /\ Iterating("running", localInstances)
    /\ LET p == localInstances[pos]
       IN  \/ ~RunFails(p) /\ Run(p) /\ NextIteration /\ UNCHANGED runErrors
           \/ /\ RunFails(p) /\ runErrors' = runErrors \cup {p}
              /\ pos' = Len(localInstances) + 1
              /\ UNCHANGED <<vars, blueprint, constructors, meshes, mode>>
    /\ UNCHANGED localInstances

(* Run goes on after an instance that fails to run.                        *)
RunInstance ==
    /\ Iterating("running", localInstances)
    /\ LET p == localInstances[pos]
       IN  \/ ~RunFails(p) /\ Run(p) /\ UNCHANGED runErrors
           \/ RunFails(p) /\ runErrors' = runErrors \cup {p} /\ UNCHANGED vars
    /\ NextIteration /\ UNCHANGED localInstances

\* Mutant: in the order of the blueprint.
StopOrderForward(i) == localInstances[i]

\* The order in which Shutdown visits the mesh: its i-th call is for ...
StopOrder(i) == localInstances[Len(localInstances) + 1 - i]

(* The first call of Shutdown's loop.                                      *)
BeginShutdown ==
    /\ mode = "idle" /\ localInstances # <<>>
    /\ Shutdown(StopOrder(1))
    /\ mode' = "stopping" /\ pos' = 1
    /\ UNCHANGED <<blueprint, constructors, localInstances, meshes, runErrors>>

(* Mutant: Shutdown does not wait for the goroutine.                       *)
ReturnedAtOnce == mode = "stopping" /\ ~panicked

(* The call in progress returns: to the next one, or out of Shutdown.      *)
Returned == mode = "stopping" /\ ~stopCaller[StopOrder(pos)] /\ ~panicked

NextShutdown ==
    /\ Returned /\ pos < Len(localInstances)
    /\ Shutdown(StopOrder(pos + 1))
    /\ NextIteration /\ UNCHANGED <<localInstances, runErrors>>

EndShutdown ==
    /\ Returned /\ pos = Len(localInstances)
    /\ mode' = "idle" /\ pos' = 1
    /\ UNCHANGED <<vars, blueprint, constructors, localInstances, meshes, runErrors>>

(* Mutant: the relations are added after the instances were run.           *)
ProceedRunFirst ==
    \/ createProcessor \/ addEventRelation \/ addQueryRelation
    \/ LoopDone("instances", blueprint.localInstances, "running")
    \/ LoopDone("running", localInstances, "events")
    \/ LoopDone("events", blueprint.eventRelations, "queries")
    \/ LoopDone("queries", blueprint.queryRelations, "idle")
    \/ RunInstance \/ NextShutdown \/ EndShutdown

\* A step of a Builder call that is under way.
Proceed ==
    \/ createProcessor \/ addEventRelation \/ addQueryRelation
    \/ LoopDone("instances", blueprint.localInstances, "events")
    \/ LoopDone("events", blueprint.eventRelations, "queries")
    \/ LoopDone("queries", blueprint.queryRelations, "running")
    \/ LoopDone("running", localInstances, "idle")
    \/ RunInstance \/ NextShutdown \/ EndShutdown

\* A new call.
UserCall ==
    \/ \E type \in Word: \E c \in Creators[type]: AddConstructor(type, c)
    \/ BeginRun \/ BeginShutdown \/ Clear

Goroutine(p) == Loop(p) /\ UNCHANGED builderVars

MeshNext == UserCall \/ Proceed \/ \E p \in Instance: Goroutine(p)

MeshSpec == MeshInit /\ [][MeshNext]_meshVars

(* The scheduler runs every goroutine that can run, and the thread inside  *)
(* a Builder call; nobody has to call the Builder.                         *)
Fairness ==
    /\ WF_meshVars(Proceed)
    /\ \A p \in Instance: WF_meshVars(Goroutine(p))

FairMeshSpec == MeshSpec /\ Fairness

-----------------------------------------------------------------------------
Stopped == {"returning", "exited"}
Running == {"launched", "select", "sending", "parked"}

(* Blueprints whose event relations all point to an instance listed        *)
(* earlier, as in the builder's own tests.                                 *)
ListedBefore(b, m, n) ==
    \E i, j \in DOMAIN b.localInstances:
        i < j /\ b.localInstances[i].name = m /\ b.localInstances[j].name = n

Ordered(b) ==
    \A k \in DOMAIN b.eventRelations:
        ListedBefore(b, b.eventRelations[k].destination, b.eventRelations[k].source)

(* Blueprints whose event relations form no cycle: the instances can be    *)
(* ranked so that events only go down.                                     *)
Acyclic(b) ==
    \E rank \in [Names(b) -> DOMAIN b.localInstances]:
        \A k \in DOMAIN b.eventRelations:
            rank[b.eventRelations[k].destination] < rank[b.eventRelations[k].source]

BuilderTypeOK ==
    /\ TypeOK
    /\ blueprint \in Blueprints
    /\ constructors \in [Word -> Params \cup {None, Broken}]
    /\ localInstances \in Seq(Instance)
    /\ meshes \in 0 .. MaxMesh
    /\ mode \in Mode
    /\ pos \in Nat \ {0}
    /\ runErrors \subseteq Instance

(* In a mesh whose events only go to instances listed earlier, nobody ever *)
(* holds an event for an instance that has been stopped or that was not    *)
(* started yet: start order and reverse stop order together keep every     *)
(* receiver running for as long as one of its senders is.                  *)
NoStrandedSender ==
    Ordered(blueprint) =>
        \A p \in Instance:
            InFlight(p) /\ ~RunFails(Target(p)) => pc[Target(p)] \in Running

(* Instances start in blueprint order, failed ones skipped, and stop in    *)
(* the reverse order, each only after all later ones have stopped.         *)
StartStopOrder ==
    \A i, j \in DOMAIN localInstances:
        LET p == localInstances[i]
            q == localInstances[j]
        IN  i < j => /\ pc[q] # "new" => RunFails(p) \/ pc[p] # "new"
                     /\ pc[p] \in Stopped => pc[q] \in Stopped

(* Between calls, the instances Run reported are exactly those of the mesh *)
(* that are not running: one failure hides no other and stops no other.    *)
RunReportsFailures ==
    mode = "idle" /\ localInstances # <<>> =>
        runErrors = {p \in Listed: pc[p] = "new"}

(* What processor.go:26 and :31 ask of the builder, that sinks are added   *)
(* during bootstrap, and what else the processors package relies on: the   *)
(* builder creates no instance over another, wires members that exist and  *)
(* have not been run (their goroutine reads the sinks without a lock),     *)
(* runs each of them once, and has one Shutdown in progress at most, while *)
(* goroutines run, fail and stop and meshes are dropped.  It speaks of the *)
(* state before the call: nothing in builder.go asks for it there, and the *)
(* preconditions of Processor never keep a call from being made.           *)
AsksOnlyWhatIsAllowed ==
    /\ mode = "instances" /\ pos <= Len(blueprint.localInstances) =>
           LET p == Local(blueprint.localInstances[pos].name)
           IN  p \notin Listed => made[p] = None
    /\ mode = "events" /\ pos <= Len(blueprint.eventRelations) =>
           LET r == blueprint.eventRelations[pos]
           IN  BothFound(r) => /\ made[Local(r.source)] # None /\ pc[Local(r.source)] = "new"
                               /\ made[Local(r.destination)] # None
    /\ mode = "queries" /\ pos <= Len(blueprint.queryRelations) =>
           LET r == blueprint.queryRelations[pos]
           IN  BothFound(r) => /\ made[Local(r.source)] # None /\ pc[Local(r.source)] = "new"
                               /\ made[Local(r.destination)] # None
    /\ mode = "running" /\ pos <= Len(localInstances) =>
           made[localInstances[pos]] # None /\ pc[localInstances[pos]] = "new"
    /\ mode = "idle" => \A p \in Listed: made[p] # None /\ ~stopCaller[p]
    /\ mode = "stopping" /\ ~stopCaller[StopOrder(pos)] =>
           \A p \in Listed: made[p] # None /\ ~stopCaller[p]

-----------------------------------------------------------------------------
\* Shutdown was called for the first time on a mesh.
FirstShutdown == mode = "stopping" /\ pos = 1 /\ \A p \in Listed: pc[p] \notin Stopped

(* Builder.Shutdown returns, and every instance of the mesh ends up not    *)
(* ready, if events only go to instances listed earlier and every Run      *)
(* succeeded; senders blocked at the moment of the call are not in the way.*)
ShutdownReturns ==
    Ordered(blueprint) =>
        /\ FirstShutdown /\ runErrors = {} ~> panicked \/ mode = "idle"
        /\ \A n \in 1 .. MaxMesh:
               FirstShutdown /\ runErrors = {} /\ meshes = n
                   ~> panicked \/ \A p \in Instance: p[1] = n => ~ready[p]

\* Somebody stops instances of mesh n, or one of them did not run.
Hindered(n) ==
    \E p \in Instance: p[1] = n /\ made[p] # None /\
        (RunFails(p) \/ stopCaller[p] \/ pc[p] \in Stopped)

(* In a mesh without event cycles that nobody stops, every instance gets   *)
(* rid of all its events, even when Clear has dropped the mesh meanwhile.  *)
EventsDrain ==
    Acyclic(blueprint) =>
        \A p \in Instance:
            pc[p] = "launched" ~>
                panicked \/ Hindered(p[1]) \/ (IsEmpty(sendEvents[p]) /\ ~InFlight(p))

(* builder.go:53-56: after a Run with errors the user calls Shutdown, to   *)
(* shut off the processors that were able to run.                          *)
ShutdownAfterFailedRun ==
    FirstShutdown /\ runErrors # {} ~>
        panicked \/ \A p \in Listed: pc[p] \in Stopped \cup {"new"}

(* builder.go:85-86: Shutdown shuts the processors down and returns the    *)
(* errors, whatever the blueprint.                                         *)
ShutdownOfAnyMeshReturns ==
    FirstShutdown /\ runErrors = {} ~> panicked \/ mode = "idle"
=============================================================================
