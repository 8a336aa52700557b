--------------------------- MODULE Builder_proofs ---------------------------
(***************************************************************************)
(* Proofs about Builder and HealthCheck, for every accepted blueprint,     *)
(* every creator and any number of meshes.                                 *)
(***************************************************************************)
EXTENDS HealthCheck, Processor_proofs, WellFoundedInduction

(* Mesh members d and p of which the blueprint lists d before p.           *)
Earlier(d, p) == d[1] = p[1] /\ ListedBefore(blueprint, d[2], p[2])

BuilderTypes ==
    /\ blueprint \in Blueprints
    /\ constructors \in [Word -> Params \cup {None, Broken}]
    /\ localInstances \in Seq(Instance)
    /\ meshes \in 0 .. MaxMesh
    /\ mode \in Mode
    /\ pos \in Nat \ {0}
    /\ runErrors \subseteq Instance

(* localInstances is the mesh under construction or complete, in blueprint *)
(* order; nothing of a mesh not begun yet exists.                          *)
Placement ==
    /\ Len(localInstances) <= Len(blueprint.localInstances)
    /\ \A i \in DOMAIN localInstances:
           localInstances[i] = Local(blueprint.localInstances[i].name)
    /\ mode # "idle" => meshes > 0
    /\ mode = "idle" =>
           localInstances = <<>> \/ Len(localInstances) = Len(blueprint.localInstances)
    /\ mode = "instances" => pos = Len(localInstances) + 1
    /\ mode \in {"events", "queries", "running", "stopping"} =>
           Len(localInstances) = Len(blueprint.localInstances)
    /\ \A p \in Instance: p[1] > meshes => pc[p] = "new" /\ made[p] = None

(* Events stay within a mesh and follow a relation of the blueprint.       *)
SinksFollowBlueprint ==
    \A p \in Instance: \A t \in EventType:
        LET d == eventSinks[p][t]
        IN  d # None =>
                /\ d[1] = p[1]
                /\ \E k \in DOMAIN blueprint.eventRelations:
                       /\ blueprint.eventRelations[k].source = p[2]
                       /\ blueprint.eventRelations[k].destination = d[2]

(* In every mesh, dropped ones included, starts and stops respect the      *)
(* blueprint order.                                                        *)
StartedInOrder ==
    \A p, d \in Instance:
        Earlier(d, p) /\ pc[p] # "new" => RunFails(d) \/ pc[d] # "new"

StoppedInOrder ==
    \A p, d \in Instance:
        Earlier(d, p) /\ pc[d] \in Stopped => pc[p] \in Stopped

(* How far Run has come with the current mesh.                             *)
RunProgress ==
    /\ mode \in {"instances", "events", "queries"} =>
           \A p \in Instance: p[1] = meshes => pc[p] = "new"
    /\ mode = "running" => \A i \in DOMAIN localInstances:
           /\ i < pos => RunFails(localInstances[i]) \/ pc[localInstances[i]] # "new"
           /\ i >= pos => pc[localInstances[i]] = "new"
    /\ mode \in {"idle", "stopping"} => \A i \in DOMAIN localInstances:
           RunFails(localInstances[i]) \/ pc[localInstances[i]] # "new"

(* How far Shutdown has come: it waits for one instance, and the ones it   *)
(* is done with have left their loop.                                      *)
StopProgress ==
    /\ \A p \in Instance: stopCaller[p] => mode = "stopping" /\ p = StopOrder(pos)
    /\ mode = "stopping" =>
           /\ pos <= Len(localInstances)
           /\ \A i \in 1 .. pos - 1: pc[StopOrder(i)] \in Stopped
           /\ stopCaller[StopOrder(pos)] \/ pc[StopOrder(pos)] \in Stopped

(* What Run has reported: the failing instances among those it came to;    *)
(* and an instance that fails to run is never run.                         *)
ErrorsReported ==
    /\ \A p \in Instance: pc[p] # "new" => ~RunFails(p)
    /\ mode \in {"instances", "events", "queries"} => runErrors = {}
    /\ mode = "running" => runErrors =
           {p \in Listed: RunFails(p) /\ \E i \in DOMAIN localInstances: i < pos /\ p = localInstances[i]}
    /\ mode \in {"idle", "stopping"} /\ localInstances # <<>> =>
           runErrors = {p \in Listed: RunFails(p)}

MeshInv ==
    /\ TypeInv /\ BuilderTypes /\ Placement /\ SinksFollowBlueprint
    /\ StartedInOrder /\ StoppedInOrder /\ RunProgress /\ StopProgress

-----------------------------------------------------------------------------
(* What the loader guarantees, read off the blueprint.                     *)
LEMMA BlueprintFacts ==
    ASSUME BuilderTypes
    PROVE  /\ blueprint.localInstances \in Seq(InstanceEntry)
           /\ blueprint.localInstances # <<>>
           /\ \A i \in DOMAIN blueprint.localInstances:
                  /\ blueprint.localInstances[i].name \in Word
                  /\ blueprint.localInstances[i].type \in Word
           /\ \A i, j \in DOMAIN blueprint.localInstances:
                  blueprint.localInstances[i].name = blueprint.localInstances[j].name => i = j
           /\ blueprint.eventRelations \in Seq(RelationEntry)
           /\ \A k \in DOMAIN blueprint.eventRelations:
                  /\ blueprint.eventRelations[k].source \in Names(blueprint)
                  /\ blueprint.eventRelations[k].destination \in Names(blueprint)
                  /\ blueprint.eventRelations[k].type \in EventType
           /\ blueprint.queryRelations \in Seq(RelationEntry)
           /\ \A k \in DOMAIN blueprint.queryRelations:
                  /\ blueprint.queryRelations[k].source \in Names(blueprint)
                  /\ blueprint.queryRelations[k].destination \in Names(blueprint)
                  /\ blueprint.queryRelations[k].type \in QueryType
           /\ Names(blueprint) \subseteq Word
  <1>1. blueprint \in LayoutSet /\ WellFormed(blueprint)
    BY BlueprintsAssumption DEF BuilderTypes
  <1>2. /\ blueprint.localInstances \in Seq(InstanceEntry)
        /\ blueprint.eventRelations \in Seq(RelationEntry)
        /\ blueprint.queryRelations \in Seq(RelationEntry)
    BY <1>1 DEF LayoutSet
  <1>3. \A i \in DOMAIN blueprint.localInstances:
            /\ blueprint.localInstances[i].name \in Word
            /\ blueprint.localInstances[i].type \in Word
    <2> SUFFICES ASSUME NEW i \in DOMAIN blueprint.localInstances
                 PROVE  /\ blueprint.localInstances[i].name \in Word
                        /\ blueprint.localInstances[i].type \in Word
      OBVIOUS
    <2>1. blueprint.localInstances[i] \in InstanceEntry
      BY <1>2
    <2>2. InstanceKeys(blueprint.localInstances[i])
      BY <1>1 DEF WellFormed
    <2> QED BY <2>1, <2>2 DEF InstanceEntry, InstanceKeys, Value, Present
  <1> QED BY <1>1, <1>2, <1>3 DEF WellFormed, DistinctNames, GoodRelation, Names

\* The names of a mesh under way are instances.
LEMMA LocalType ==
    ASSUME BuilderTypes, Placement, mode # "idle", NEW n \in Word
    PROVE  Local(n) \in Instance
  BY MeshAssumption DEF BuilderTypes, Placement, Local

\* Shutdown calls instances of the mesh.
LEMMA StopOrderType ==
    ASSUME BuilderTypes, NEW i \in 1 .. Len(localInstances)
    PROVE  StopOrder(i) \in Instance
  <1>1. localInstances \in Seq(Instance) /\ Len(localInstances) + 1 - i \in 1 .. Len(localInstances)
    BY DEF BuilderTypes
  <1> QED BY <1>1 DEF StopOrder

(* Every step of the builder, of the meshes and of the caller is one that  *)
(* the processors on their own allow.                                      *)
LEMMA MeshStepIsProcessorStep ==
    ASSUME BuilderTypes, Placement, [MeshNext]_meshVars
    PROVE  [Next]_vars
  <1>1. CASE createProcessor
    <2> DEFINE e == blueprint.localInstances[pos]
    <2>1. pos \in DOMAIN blueprint.localInstances /\ mode = "instances"
      BY <1>1, BlueprintFacts DEF createProcessor, Iterating, BuilderTypes
    <2>2. Local(e.name) \in Instance /\ constructors[e.type] \in Params \cup {None, Broken}
      BY <2>1, LocalType, BlueprintFacts DEF BuilderTypes
    <2>3. \/ UNCHANGED vars
          \/ constructors[e.type] \notin {None, Broken} /\ New(Local(e.name), constructors[e.type])
      BY <1>1 DEF createProcessor, MeshError
    <2> QED BY <2>2, <2>3 DEF Next, Call
  <1>2. CASE addEventRelation
    <2> DEFINE r == blueprint.eventRelations[pos]
    <2>1. pos \in DOMAIN blueprint.eventRelations /\ mode = "events"
      BY <1>2, BlueprintFacts DEF addEventRelation, Iterating, BuilderTypes
    <2>2. Local(r.source) \in Instance /\ Local(r.destination) \in Instance /\ r.type \in EventType
      BY <2>1, LocalType, BlueprintFacts
    <2>3. UNCHANGED vars \/ AddEventSink(Local(r.source), r.type, Local(r.destination))
      BY <1>2 DEF addEventRelation, MeshError
    <2> QED BY <2>2, <2>3 DEF Next, Call
  <1>3. CASE addQueryRelation
    <2> DEFINE r == blueprint.queryRelations[pos]
    <2>1. pos \in DOMAIN blueprint.queryRelations /\ mode = "queries"
      BY <1>3, BlueprintFacts DEF addQueryRelation, Iterating, BuilderTypes
    <2>2. Local(r.source) \in Instance /\ Local(r.destination) \in Instance /\ r.type \in QueryType
      BY <2>1, LocalType, BlueprintFacts
    <2>3. UNCHANGED vars \/ AddQuerySink(Local(r.source), r.type, Local(r.destination))
      BY <1>3 DEF addQueryRelation, MeshError
    <2> QED BY <2>2, <2>3 DEF Next, Call
  <1>4. CASE RunInstance
    <2>1. localInstances[pos] \in Instance
      BY <1>4 DEF RunInstance, Iterating, BuilderTypes
    <2> QED BY <1>4, <2>1 DEF RunInstance, Next, Call
  <1>5. CASE BeginShutdown
    <2>1. 1 \in 1 .. Len(localInstances)
      BY <1>5 DEF BeginShutdown, BuilderTypes
    <2> QED BY <1>5, <2>1, StopOrderType DEF BeginShutdown, Next, Call
  <1>6. CASE NextShutdown
    <2>1. pos + 1 \in 1 .. Len(localInstances)
      BY <1>6 DEF NextShutdown, BuilderTypes
    <2> QED BY <1>6, <2>1, StopOrderType DEF NextShutdown, Next, Call
  <1>7. ASSUME NEW p \in Instance, Goroutine(p) PROVE Next
    BY <1>7 DEF Goroutine, Next
  <1>8. CASE UNCHANGED meshVars
    BY <1>8 DEF meshVars
  <1>9. ASSUME UserCall \/ Proceed PROVE [Next]_vars
    BY <1>1, <1>2, <1>3, <1>4, <1>5, <1>6, <1>9
       DEF UserCall, Proceed, AddConstructor, BeginRun, Clear, LoopDone, EndShutdown
  <1> QED BY <1>7, <1>8, <1>9 DEF MeshNext

-----------------------------------------------------------------------------
(* What a step of a goroutine does to what the builder relies on: it       *)
(* neither starts nor creates an instance, and it leaves its loop only     *)
(* when a Shutdown caller waits, whom it releases.                         *)
LEMMA LoopEffect ==
    ASSUME TypeInv, NEW p \in Instance, Loop(p)
    PROVE  /\ made' = made /\ eventSinks' = eventSinks
           /\ \A q \in Instance:
                  /\ pc'[q] = "new" <=> pc[q] = "new"
                  /\ pc[q] \in Stopped => pc'[q] \in Stopped
                  /\ pc'[q] \in Stopped => pc[q] \in Stopped \/ stopCaller[q]
                  /\ stopCaller'[q] => stopCaller[q]
                  /\ stopCaller[q] => stopCaller'[q] \/ pc'[q] \in Stopped
                  /\ stopCaller'[q] /\ pc'[q] \in Stopped => pc[q] \in Stopped
                  /\ stopCaller[q] /\ pc[q] \in Stopped => stopCaller'[q]
  <1> USE DEF TypeInv, TypeOK, wiring, lists, Stopped
  <1>1. CASE Start(p)
    BY <1>1 DEF Start
  <1>2. CASE Default(p)
    BY <1>2 DEF Default, RunNextQuery, SendNextEvent, AfterPop
  <1>3. CASE Panic(p)
    BY <1>3 DEF Panic
  <1>4. CASE Park(p)
    BY <1>4 DEF Park
  <1>5. CASE TakeStop(p)
    BY <1>5 DEF TakeStop
  <1>6. CASE Exit(p)
    BY <1>6 DEF Exit
  <1>7. ASSUME NEW o \in Instance, Receive(p, o)
        PROVE  /\ made' = made /\ eventSinks' = eventSinks
               /\ \A q \in Instance:
                      /\ pc'[q] = "new" <=> pc[q] = "new"
                      /\ pc[q] \in Stopped => pc'[q] \in Stopped
                      /\ pc'[q] \in Stopped => pc[q] \in Stopped \/ stopCaller[q]
                      /\ stopCaller'[q] => stopCaller[q]
                      /\ stopCaller[q] => stopCaller'[q] \/ pc'[q] \in Stopped
                      /\ stopCaller'[q] /\ pc'[q] \in Stopped => pc[q] \in Stopped
                      /\ stopCaller[q] /\ pc[q] \in Stopped => stopCaller'[q]
    BY <1>7 DEF Receive, BlockedOn
  <1> QED BY <1>1, <1>2, <1>3, <1>4, <1>5, <1>6, <1>7 DEF Loop

(* What the builder does to localInstances keeps it a list of instances.   *)
LEMMA MeshListType ==
    ASSUME NEW s \in Seq(Instance)
    PROVE  /\ <<>> \in Seq(Instance)
           /\ \A p \in Instance: Append(s, p) \in Seq(Instance)
  OBVIOUS

LEMMA BuilderTypesStep ==
    ASSUME BuilderTypes, Placement, [MeshNext]_meshVars
    PROVE  BuilderTypes'
  <1> USE DEF BuilderTypes, builderVars
  <1>1. CASE createProcessor
    <2> DEFINE e == blueprint.localInstances[pos]
    <2>1. pos \in DOMAIN blueprint.localInstances /\ mode # "idle"
      BY <1>1, BlueprintFacts DEF createProcessor, Iterating
    <2>2. Local(e.name) \in Instance
      BY <2>1, LocalType, BlueprintFacts
    <2>3. localInstances' = <<>> \/ localInstances' = Append(localInstances, Local(e.name))
      BY <1>1 DEF createProcessor, MeshError
    <2>4. localInstances' \in Seq(Instance)
      BY <2>2, <2>3, MeshListType
    <2> QED BY <1>1, <2>4 DEF createProcessor, MeshError, NextIteration, Mode
  <1>2. CASE addEventRelation \/ addQueryRelation
    <2>1. MeshError \/ (NextIteration /\ UNCHANGED <<localInstances, runErrors>>)
      BY <1>2 DEF addEventRelation, addQueryRelation
    <2>2. CASE MeshError
      <3>1. localInstances' \in Seq(Instance)
        BY <2>2, MeshListType DEF MeshError
      <3> QED BY <2>2, <3>1 DEF MeshError, Mode
    <2>3. CASE NextIteration /\ UNCHANGED <<localInstances, runErrors>>
      BY <2>3 DEF NextIteration
    <2> QED BY <2>1, <2>2, <2>3
  <1>3. CASE RunInstance
    <2>1. localInstances[pos] \in Instance
      BY <1>3 DEF RunInstance, Iterating
    <2> QED BY <1>3, <2>1 DEF RunInstance, NextIteration
  <1>4. CASE BeginShutdown \/ NextShutdown \/ EndShutdown
    BY <1>4 DEF BeginShutdown, NextShutdown, EndShutdown, NextIteration, Mode
  <1>5. CASE BeginRun
    BY <1>5, MeshAssumption DEF BeginRun, Mode
  <1>6. CASE Clear
    BY <1>6 DEF Clear
  <1>7. ASSUME NEW t \in Word, NEW c \in Creators[t], AddConstructor(t, c) PROVE BuilderTypes'
    <2>1. c \in Params \cup {Broken}
      BY CreatorsAssumption
    <2> QED BY <1>7, <2>1 DEF AddConstructor
  <1>8. ASSUME NEW m, NEW list, NEW n \in Mode, LoopDone(m, list, n) PROVE BuilderTypes'
    BY <1>8 DEF LoopDone
  <1>9. ASSUME NEW p \in Instance, Goroutine(p) PROVE BuilderTypes'
    BY <1>9 DEF Goroutine
  <1>10. CASE UNCHANGED meshVars
    BY <1>10 DEF meshVars
  <1>11. {"events", "queries", "running", "idle"} \subseteq Mode
    BY DEF Mode
  <1> QED
    BY <1>1, <1>2, <1>3, <1>4, <1>5, <1>6, <1>7, <1>8, <1>9, <1>10, <1>11
       DEF MeshNext, UserCall, Proceed

LEMMA PlacementStep ==
    ASSUME TypeInv, BuilderTypes, Placement, [MeshNext]_meshVars
    PROVE  Placement'
  <1> USE DEF BuilderTypes, Placement, Local, builderVars
  <1> DEFINE Beyond == \A p \in Instance: p[1] > meshes => pc[p] = "new" /\ made[p] = None
  <1>1. CASE createProcessor
    <2> DEFINE e == blueprint.localInstances[pos]
               p == Local(e.name)
    <2>1. pos \in DOMAIN blueprint.localInstances /\ mode = "instances"
      BY <1>1, BlueprintFacts DEF createProcessor, Iterating
    <2>2. p \in Instance /\ p[1] = meshes
      BY <2>1, LocalType, BlueprintFacts
    <2>3. CASE MeshError
      BY <2>3 DEF MeshError, vars
    <2>4. CASE New(p, constructors[e.type]) /\ localInstances' = Append(localInstances, p) /\ NextIteration
      <3>1. Beyond'
        BY <2>4, <2>2 DEF New, NextIteration, TypeInv, TypeOK
      <3>2. \A i \in DOMAIN localInstances':
               localInstances'[i] = Local(blueprint.localInstances[i].name)'
        BY <2>4, <2>1 DEF NextIteration
      <3> QED BY <3>1, <3>2, <2>4, <2>1, BlueprintFacts DEF NextIteration
    <2> QED BY <1>1, <2>3, <2>4 DEF createProcessor
  <1>2. CASE addEventRelation \/ addQueryRelation
    <2>1. pc' = pc /\ made' = made
      BY <1>2 DEF addEventRelation, addQueryRelation, MeshError, AddEventSink, AddQuerySink, vars
    <2> QED BY <1>2, <2>1 DEF addEventRelation, addQueryRelation, MeshError, NextIteration, Iterating
  <1>3. CASE RunInstance
    <2>1. pos \in DOMAIN localInstances /\ localInstances[pos][1] = meshes
      BY <1>3 DEF RunInstance, Iterating
    <2>2. Beyond'
      BY <1>3, <2>1 DEF RunInstance, Run, vars, wiring, NextIteration, TypeInv, TypeOK
    <2> QED BY <1>3, <2>2 DEF RunInstance, NextIteration, Iterating
  <1>4. CASE BeginShutdown \/ NextShutdown \/ EndShutdown
    <2>1. pc' = pc /\ made' = made
      BY <1>4 DEF BeginShutdown, NextShutdown, EndShutdown, Shutdown, vars, wiring
    <2>2. localInstances # <<>> => meshes > 0
      <3> SUFFICES ASSUME localInstances # <<>> PROVE meshes > 0
        OBVIOUS
      <3>1. localInstances[1] \in Instance /\ localInstances[1][1] = meshes
        OBVIOUS
      <3> QED BY <3>1, MeshAssumption
    <2> QED
      BY <1>4, <2>1, <2>2
         DEF BeginShutdown, NextShutdown, EndShutdown, NextIteration, Returned
  <1>5. CASE BeginRun
    BY <1>5, MeshAssumption DEF BeginRun, vars
  <1>6. CASE Clear
    BY <1>6 DEF Clear, vars
  <1>7. ASSUME NEW t, NEW c, AddConstructor(t, c) PROVE Placement'
    BY <1>7 DEF AddConstructor, vars
  <1>8. CASE LoopDone("instances", blueprint.localInstances, "events")
    BY <1>8, BlueprintFacts DEF LoopDone, vars
  <1>9. CASE \/ LoopDone("events", blueprint.eventRelations, "queries")
             \/ LoopDone("queries", blueprint.queryRelations, "running")
             \/ LoopDone("running", localInstances, "idle")
    BY <1>9 DEF LoopDone, vars
  <1>10. ASSUME NEW p \in Instance, Goroutine(p) PROVE Placement'
    <2>1. Beyond'
      BY <1>10, LoopEffect DEF Goroutine
    <2> QED BY <1>10, <2>1 DEF Goroutine
  <1>11. CASE UNCHANGED meshVars
    BY <1>11 DEF meshVars, vars
  <1> QED
    BY <1>1, <1>2, <1>3, <1>4, <1>5, <1>6, <1>7, <1>8, <1>9, <1>10, <1>11
       DEF MeshNext, UserCall, Proceed

(* A mesh is made of processors: its actions are theirs, or leave them be. *)
LEMMA MeshIsProcessors == MeshSpec => Spec
  <1> DEFINE PInv == TypeInv /\ BuilderTypes /\ Placement
  <1>1. MeshInit => Init /\ PInv
    <2> SUFFICES ASSUME MeshInit PROVE Init /\ PInv
      OBVIOUS
    <2>1. Init /\ TypeInv
      BY TypeInit DEF MeshInit
    <2>2. BuilderTypes
      BY MeshAssumption DEF MeshInit, BuilderTypes, Mode
    <2>3. blueprint.localInstances \in Seq(InstanceEntry)
      BY <2>2, BlueprintFacts
    <2>4. Placement
      BY <2>3 DEF MeshInit, Init, Placement
    <2> QED BY <2>1, <2>2, <2>4
  <1>2. PInv /\ [MeshNext]_meshVars => PInv' /\ [Next]_vars
    BY TypeStep, BuilderTypesStep, PlacementStep, MeshStepIsProcessorStep
  <1> QED BY <1>1, <1>2, PTL DEF MeshSpec, Spec

(* In every mesh, those that Clear dropped included, events and queries    *)
(* are delivered as Processor says.                                        *)
THEOREM MeshesDeliver ==
    MeshSpec => [](InOrder /\ OnlySent /\ NothingLost /\ ResultsMatchQueries)
                /\ QuietAfterStop
  BY MeshIsProcessors, EventsStayInOrder, OnlySentIsProcessed, ExactlyOnceInOrder,
     QueriesAnsweredOnce, StopIsFinal, PTL

-----------------------------------------------------------------------------
(* A member of the current mesh is the entry of localInstances at the      *)
(* place the blueprint gives its name, and has no other.                   *)
LEMMA MemberPlace ==
    ASSUME BuilderTypes, Placement
    PROVE  /\ \A i \in DOMAIN localInstances:
                  /\ i \in DOMAIN blueprint.localInstances
                  /\ localInstances[i] \in Instance
                  /\ localInstances[i] = <<meshes, blueprint.localInstances[i].name>>
           /\ \A i, j \in DOMAIN localInstances:
                  localInstances[i] = localInstances[j] => i = j
  <1>1. \A i \in DOMAIN localInstances:
            /\ i \in DOMAIN blueprint.localInstances
            /\ localInstances[i] \in Instance
            /\ localInstances[i] = <<meshes, blueprint.localInstances[i].name>>
    BY BlueprintFacts DEF BuilderTypes, Placement, Local
  <1>2. \A i, j \in DOMAIN localInstances:
            localInstances[i] = localInstances[j] => i = j
    BY <1>1, BlueprintFacts
  <1> QED BY <1>1, <1>2

(* What the blueprint lists before a member of the current mesh is in the  *)
(* mesh too, at an earlier place.                                          *)
LEMMA EarlierPlace ==
    ASSUME BuilderTypes, Placement, NEW j \in DOMAIN localInstances,
           NEW d \in Instance, Earlier(d, localInstances[j])
    PROVE  \E i \in DOMAIN localInstances: i < j /\ d = localInstances[i]
  <1>1. PICK i \in DOMAIN blueprint.localInstances, k \in DOMAIN blueprint.localInstances:
            /\ i < k
            /\ blueprint.localInstances[i].name = d[2]
            /\ blueprint.localInstances[k].name = localInstances[j][2]
    BY DEF Earlier, ListedBefore
  <1>2. k = j
    BY <1>1, MemberPlace, BlueprintFacts
  <1>3. i \in DOMAIN localInstances
    BY <1>1, <1>2, BlueprintFacts DEF BuilderTypes
  <1>4. d = <<d[1], d[2]>>
    BY MeshAssumption
  <1>5. d = localInstances[i]
    BY <1>1, <1>3, <1>4, MemberPlace DEF Earlier
  <1> QED BY <1>1, <1>2, <1>3, <1>5

(* Likewise for what it lists after a member, once the mesh is complete.   *)
LEMMA LaterPlace ==
    ASSUME BuilderTypes, Placement, NEW i \in DOMAIN localInstances,
           Len(localInstances) = Len(blueprint.localInstances),
           NEW p \in Instance, Earlier(localInstances[i], p)
    PROVE  \E j \in DOMAIN localInstances: i < j /\ p = localInstances[j]
  <1>1. PICK k \in DOMAIN blueprint.localInstances, j \in DOMAIN blueprint.localInstances:
            /\ k < j
            /\ blueprint.localInstances[k].name = localInstances[i][2]
            /\ blueprint.localInstances[j].name = p[2]
    BY DEF Earlier, ListedBefore
  <1>2. k = i
    BY <1>1, MemberPlace, BlueprintFacts
  <1>3. j \in DOMAIN localInstances
    BY <1>1, BlueprintFacts DEF BuilderTypes
  <1>4. p = <<p[1], p[2]>>
    BY MeshAssumption
  <1>5. p = localInstances[j]
    BY <1>1, <1>3, <1>4, MemberPlace DEF Earlier
  <1> QED BY <1>1, <1>2, <1>3, <1>5

(* The builder's steps that touch no instance.                             *)
LEMMA BuilderOnly ==
    ASSUME \/ \E t \in Word: \E c \in Creators[t]: AddConstructor(t, c)
           \/ Clear \/ BeginRun \/ MeshError \/ EndShutdown
           \/ \E m, list, n: LoopDone(m, list, n)
    PROVE  UNCHANGED vars /\ UNCHANGED blueprint
  BY DEF AddConstructor, Clear, BeginRun, MeshError, EndShutdown, LoopDone

LEMMA SinksStep ==
    ASSUME TypeInv, BuilderTypes, Placement, SinksFollowBlueprint, [MeshNext]_meshVars
    PROVE  SinksFollowBlueprint'
  <1> USE DEF SinksFollowBlueprint
  <1>1. ASSUME UNCHANGED <<eventSinks, blueprint>> PROVE SinksFollowBlueprint'
    BY <1>1
  <1>2. CASE addEventRelation
    <2> DEFINE r == blueprint.eventRelations[pos]
               src == Local(r.source)
               dst == Local(r.destination)
    <2>1. pos \in DOMAIN blueprint.eventRelations /\ mode = "events"
      BY <1>2, BlueprintFacts DEF addEventRelation, Iterating, BuilderTypes
    <2>2. src \in Instance /\ dst \in Instance /\ r.type \in EventType
      BY <2>1, LocalType, BlueprintFacts
    <2>3. MeshError \/ (AddEventSink(src, r.type, dst) /\ NextIteration)
      BY <1>2 DEF addEventRelation
    <2>4. ASSUME AddEventSink(src, r.type, dst), NextIteration PROVE SinksFollowBlueprint'
      <3> SUFFICES ASSUME NEW p \in Instance, NEW t \in EventType, (eventSinks[p][t] # None)'
                   PROVE  /\ eventSinks'[p][t][1] = p[1]
                          /\ \E k \in DOMAIN blueprint.eventRelations:
                                 /\ blueprint.eventRelations[k].source = p[2]
                                 /\ blueprint.eventRelations[k].destination = eventSinks'[p][t][2]
        BY <2>4 DEF NextIteration
      <3>1. CASE p = src /\ t = r.type
        <4>1. eventSinks'[p][t] = dst
          BY <3>1, <2>4, <2>2 DEF AddEventSink, TypeInv, TypeOK
        <4> QED BY <4>1, <3>1, <2>1 DEF Local
      <3>2. CASE ~(p = src /\ t = r.type)
        <4>1. eventSinks'[p][t] = eventSinks[p][t]
          BY <3>2, <2>4, <2>2 DEF AddEventSink, TypeInv, TypeOK
        <4> QED BY <4>1
      <3> QED BY <3>1, <3>2
    <2> QED BY <1>1, <2>3, <2>4, BuilderOnly DEF vars
  <1>3. CASE createProcessor \/ addQueryRelation \/ RunInstance \/ BeginShutdown \/ NextShutdown
    BY <1>1, <1>3
       DEF createProcessor, addQueryRelation, RunInstance, BeginShutdown, NextShutdown, MeshError,
           New, AddQuerySink, Run, Shutdown, NextIteration, wiring, vars
  <1>4. ASSUME NEW p \in Instance, Goroutine(p) PROVE SinksFollowBlueprint'
    BY <1>1, <1>4, LoopEffect DEF Goroutine, builderVars
  <1>5. CASE UNCHANGED meshVars
    BY <1>1, <1>5 DEF meshVars, vars, builderVars
  <1>6. CASE UNCHANGED vars /\ UNCHANGED blueprint
    BY <1>1, <1>6 DEF vars
  <1> QED BY <1>2, <1>3, <1>4, <1>5, <1>6, BuilderOnly DEF MeshNext, UserCall, Proceed

(* The steps that start, create and stop nothing.                          *)
Still == UNCHANGED <<made, pc, stopCaller, blueprint>>

LEMMA WiringIsStill ==
    ASSUME addEventRelation \/ addQueryRelation
    PROVE  Still
  BY DEF Still, addEventRelation, addQueryRelation, MeshError, AddEventSink, AddQuerySink,
         NextIteration, vars

LEMMA StartedStep ==
    ASSUME MeshInv, [MeshNext]_meshVars
    PROVE  StartedInOrder'
  <1> USE DEF StartedInOrder
  <1>1. ASSUME Still PROVE StartedInOrder'
    BY <1>1 DEF MeshInv, Still, Earlier, RunFails
  <1>2. CASE createProcessor
    <2> DEFINE e == blueprint.localInstances[pos]
               x == Local(e.name)
    <2>1. pos \in DOMAIN blueprint.localInstances /\ mode = "instances"
      BY <1>2, BlueprintFacts DEF createProcessor, Iterating, MeshInv, BuilderTypes
    <2>2. x \in Instance /\ x[1] = meshes
      BY <2>1, LocalType, BlueprintFacts DEF MeshInv, Local
    <2>3. MeshError \/ (New(x, constructors[e.type]) /\ NextIteration)
      BY <1>2 DEF createProcessor
    <2>4. ASSUME New(x, constructors[e.type]), NextIteration PROVE StartedInOrder'
      <3> SUFFICES ASSUME NEW p \in Instance, NEW d \in Instance, Earlier(d, p), pc[p] # "new"
                   PROVE  RunFails(d)' \/ pc[d] # "new"
        BY <2>4 DEF New, NextIteration, Earlier
      <3>1. RunFails(d) \/ pc[d] # "new"
        BY DEF MeshInv
      <3>2. d # x
        BY <2>1, <2>2 DEF MeshInv, RunProgress, Earlier
      <3>3. made'[d] = made[d]
        BY <3>2, <2>2, <2>4 DEF New, MeshInv, TypeInv, TypeOK
      <3> QED BY <3>1, <3>3 DEF RunFails
    <2> QED BY <1>1, <2>3, <2>4, BuilderOnly DEF Still, vars
  <1>3. CASE RunInstance
    <2> DEFINE x == localInstances[pos]
    <2>1. pos \in DOMAIN localInstances /\ mode = "running" /\ x \in Instance
      BY <1>3 DEF RunInstance, Iterating, MeshInv, BuilderTypes
    <2>2. Still \/ (Run(x) /\ NextIteration)
      BY <1>3 DEF RunInstance, Still, NextIteration, vars
    <2>3. ASSUME Run(x), NextIteration PROVE StartedInOrder'
      <3>1. made' = made /\ pc' = [pc EXCEPT ![x] = "launched"] /\ blueprint' = blueprint
        BY <2>3 DEF Run, wiring, NextIteration
      <3> SUFFICES ASSUME NEW p \in Instance, NEW d \in Instance, Earlier(d, p), pc'[p] # "new"
                   PROVE  RunFails(d) \/ pc'[d] # "new"
        BY <3>1 DEF Earlier, RunFails
      <3>2. CASE p = x
        <4>1. PICK i \in DOMAIN localInstances: i < pos /\ d = localInstances[i]
          BY <3>2, <2>1, EarlierPlace DEF MeshInv
        <4>2. RunFails(d) \/ pc[d] # "new"
          BY <4>1, <2>1 DEF MeshInv, RunProgress
        <4> QED BY <4>2, <3>1, <2>1 DEF MeshInv, TypeInv, TypeOK
      <3>3. CASE p # x
        <4>1. pc'[p] = pc[p]
          BY <3>1, <3>3, <2>1 DEF MeshInv, TypeInv, TypeOK
        <4>2. RunFails(d) \/ pc[d] # "new"
          BY <4>1 DEF MeshInv
        <4> QED BY <4>2, <3>1, <2>1 DEF MeshInv, TypeInv, TypeOK
      <3> QED BY <3>2, <3>3
    <2> QED BY <1>1, <2>2, <2>3
  <1>4. CASE BeginShutdown \/ NextShutdown
    <2>1. UNCHANGED <<made, pc, blueprint>>
      BY <1>4 DEF BeginShutdown, NextShutdown, Shutdown, NextIteration, wiring
    <2> QED BY <2>1 DEF MeshInv, Earlier, RunFails
  <1>5. ASSUME NEW p \in Instance, Goroutine(p) PROVE StartedInOrder'
    <2>1. UNCHANGED <<made, blueprint>> /\ \A q \in Instance: pc'[q] = "new" <=> pc[q] = "new"
      BY <1>5, LoopEffect DEF MeshInv, Goroutine, builderVars
    <2> QED BY <2>1 DEF MeshInv, Earlier, RunFails
  <1>6. CASE addEventRelation \/ addQueryRelation
    BY <1>1, <1>6, WiringIsStill
  <1>7. CASE UNCHANGED meshVars
    BY <1>1, <1>7 DEF meshVars, vars, builderVars, Still
  <1>8. CASE UNCHANGED vars /\ UNCHANGED blueprint
    BY <1>1, <1>8 DEF vars, Still
  <1> QED
    BY <1>2, <1>3, <1>4, <1>5, <1>6, <1>7, <1>8, BuilderOnly DEF MeshNext, UserCall, Proceed

LEMMA StoppedStep ==
    ASSUME MeshInv, [MeshNext]_meshVars
    PROVE  StoppedInOrder'
  <1> USE DEF StoppedInOrder
  <1>1. ASSUME UNCHANGED <<pc, blueprint>> PROVE StoppedInOrder'
    BY <1>1 DEF MeshInv, Earlier
  <1>2. CASE RunInstance
    <2> DEFINE x == localInstances[pos]
    <2>1. x \in Instance
      BY <1>2 DEF RunInstance, Iterating, MeshInv, BuilderTypes
    <2>2. \/ UNCHANGED <<pc, blueprint>>
          \/ pc[x] = "new" /\ pc' = [pc EXCEPT ![x] = "launched"] /\ blueprint' = blueprint
      BY <1>2 DEF RunInstance, Run, NextIteration, vars
    <2> QED BY <1>1, <2>1, <2>2 DEF MeshInv, TypeInv, TypeOK, Stopped, Earlier
  <1>3. ASSUME NEW g \in Instance, Goroutine(g) PROVE StoppedInOrder'
    <2>1. /\ blueprint' = blueprint
          /\ \A q \in Instance:
                 /\ pc[q] \in Stopped => pc'[q] \in Stopped
                 /\ pc'[q] \in Stopped => pc[q] \in Stopped \/ stopCaller[q]
      BY <1>3, LoopEffect DEF MeshInv, Goroutine, builderVars
    <2> SUFFICES ASSUME NEW p \in Instance, NEW d \in Instance, Earlier(d, p), pc'[d] \in Stopped
                 PROVE  pc[p] \in Stopped
      BY <2>1 DEF Earlier
    <2>2. CASE pc[d] \in Stopped
      BY <2>2 DEF MeshInv
    <2>3. CASE stopCaller[d]
      <3>1. mode = "stopping" /\ d = StopOrder(pos) /\ pos \in 1 .. Len(localInstances)
        BY <2>3 DEF MeshInv, StopProgress, BuilderTypes
      <3> DEFINE i == Len(localInstances) + 1 - pos
      <3>2. i \in DOMAIN localInstances /\ d = localInstances[i]
        BY <3>1 DEF StopOrder, MeshInv, BuilderTypes
      <3>3. PICK j \in DOMAIN localInstances: i < j /\ p = localInstances[j]
        BY <3>1, <3>2, LaterPlace DEF MeshInv, Placement
      <3> DEFINE k == Len(localInstances) + 1 - j
      <3>4. k \in 1 .. pos - 1 /\ Len(localInstances) + 1 - k = j
        BY <3>1, <3>3 DEF MeshInv, BuilderTypes
      <3>5. p = StopOrder(k)
        BY <3>3, <3>4 DEF StopOrder
      <3> QED BY <3>1, <3>4, <3>5 DEF MeshInv, StopProgress
    <2> QED BY <2>1, <2>2, <2>3
  <1>4. CASE createProcessor \/ BeginShutdown \/ NextShutdown
    BY <1>1, <1>4
       DEF createProcessor, BeginShutdown, NextShutdown, MeshError, New, Shutdown, NextIteration, vars
  <1>5. CASE addEventRelation \/ addQueryRelation
    BY <1>1, <1>5, WiringIsStill DEF Still
  <1>6. CASE UNCHANGED meshVars
    BY <1>1, <1>6 DEF meshVars, vars, builderVars
  <1>7. CASE UNCHANGED vars /\ UNCHANGED blueprint
    BY <1>1, <1>7 DEF vars
  <1> QED
    BY <1>2, <1>3, <1>4, <1>5, <1>6, <1>7, BuilderOnly DEF MeshNext, UserCall, Proceed

LEMMA RunProgressStep ==
    ASSUME MeshInv, [MeshNext]_meshVars
    PROVE  RunProgress'
  <1> USE DEF RunProgress
  <1>1. ASSUME UNCHANGED <<made, pc, localInstances, meshes, mode, pos>> PROVE RunProgress'
    BY <1>1 DEF MeshInv, RunFails
  <1>2. ASSUME localInstances' = <<>>, mode' = "idle" PROVE RunProgress'
    BY <1>2
  <1>3. CASE createProcessor
    <2> DEFINE e == blueprint.localInstances[pos]
               x == Local(e.name)
    <2>1. \/ MeshError
          \/ New(x, constructors[e.type]) /\ NextIteration /\ mode = "instances"
      BY <1>3 DEF createProcessor, Iterating
    <2> QED BY <1>2, <2>1 DEF MeshError, New, NextIteration, MeshInv
  <1>4. CASE addEventRelation \/ addQueryRelation
    <2>1. Still
      BY <1>4, WiringIsStill
    <2>2. MeshError \/ (NextIteration /\ mode \in {"events", "queries"})
      BY <1>4 DEF addEventRelation, addQueryRelation, Iterating
    <2> QED BY <1>2, <2>1, <2>2 DEF MeshError, NextIteration, Still, MeshInv
  <1>5. CASE RunInstance
    <2> DEFINE x == localInstances[pos]
    <2>1. pos \in DOMAIN localInstances /\ mode = "running" /\ pos \in Nat
      BY <1>5 DEF RunInstance, Iterating, MeshInv, BuilderTypes
    <2>2. /\ localInstances' = localInstances /\ mode' = mode /\ pos' = pos + 1 /\ made' = made
          /\ (RunFails(x) /\ pc' = pc) \/ pc' = [pc EXCEPT ![x] = "launched"]
      BY <1>5 DEF RunInstance, Run, wiring, NextIteration, vars
    <2> SUFFICES ASSUME NEW i \in DOMAIN localInstances
                 PROVE  /\ i < pos + 1 => RunFails(localInstances[i]) \/ pc'[localInstances[i]] # "new"
                        /\ i >= pos + 1 => pc'[localInstances[i]] = "new"
      BY <2>1, <2>2 DEF RunFails
    <2>3. localInstances[i] \in Instance /\ i \in Nat
      BY DEF MeshInv, BuilderTypes
    <2>4. CASE i = pos
      BY <2>1, <2>2, <2>3, <2>4 DEF MeshInv, TypeInv, TypeOK
    <2>5. CASE i # pos
      <3>1. localInstances[i] # x
        BY <2>1, <2>5, MemberPlace DEF MeshInv
      <3>2. pc'[localInstances[i]] = pc[localInstances[i]]
        BY <2>2, <2>3, <3>1 DEF MeshInv, TypeInv, TypeOK
      <3>3. i < pos \/ i > pos
        BY <2>1, <2>3, <2>5
      <3> QED BY <2>1, <2>3, <3>2, <3>3 DEF MeshInv
    <2> QED BY <2>4, <2>5
  <1>6. CASE BeginShutdown \/ NextShutdown \/ EndShutdown
    <2>1. /\ UNCHANGED <<made, pc, localInstances>>
          /\ mode \in {"idle", "stopping"} /\ mode' \in {"idle", "stopping"}
      BY <1>6 DEF BeginShutdown, NextShutdown, EndShutdown, Returned, Shutdown, wiring,
                  NextIteration, vars
    <2> QED BY <2>1 DEF MeshInv, RunFails
  <1>7. CASE BeginRun
    <2>1. UNCHANGED pc /\ meshes' = meshes + 1 /\ mode' = "instances" /\ meshes \in Nat
      BY <1>7, MeshAssumption DEF BeginRun, vars, MeshInv, BuilderTypes
    <2> QED BY <2>1 DEF MeshInv, Placement
  <1>8. CASE \/ LoopDone("instances", blueprint.localInstances, "events")
             \/ LoopDone("events", blueprint.eventRelations, "queries")
    BY <1>8 DEF LoopDone, vars, MeshInv
  <1>9. CASE LoopDone("queries", blueprint.queryRelations, "running")
    <2>1. /\ UNCHANGED <<made, pc, localInstances>>
          /\ mode = "queries" /\ mode' = "running" /\ pos' = 1
      BY <1>9 DEF LoopDone, vars
    <2>2. \A i \in DOMAIN localInstances: i \in Nat /\ i >= 1
      BY DEF MeshInv, BuilderTypes
    <2>3. \A i \in DOMAIN localInstances:
              localInstances[i] \in Instance /\ localInstances[i][1] = meshes
      BY MemberPlace DEF MeshInv
    <2>4. \A i \in DOMAIN localInstances: pc[localInstances[i]] = "new"
      BY <2>1, <2>3 DEF MeshInv
    <2> QED BY <2>1, <2>2, <2>4
  <1>10. CASE LoopDone("running", localInstances, "idle")
    <2>1. /\ UNCHANGED <<made, pc, localInstances>>
          /\ mode = "running" /\ mode' = "idle" /\ pos > Len(localInstances)
      BY <1>10 DEF LoopDone, vars
    <2>2. \A i \in DOMAIN localInstances: i < pos
      BY <2>1 DEF MeshInv, BuilderTypes
    <2> QED BY <2>1, <2>2 DEF MeshInv, RunFails
  <1>11. CASE Clear
    BY <1>2, <1>11 DEF Clear
  <1>12. ASSUME NEW t, NEW c, AddConstructor(t, c) PROVE RunProgress'
    BY <1>1, <1>12 DEF AddConstructor, vars
  <1>13. ASSUME NEW p \in Instance, Goroutine(p) PROVE RunProgress'
    <2>1. /\ UNCHANGED <<made, localInstances, meshes, mode, pos>>
          /\ \A q \in Instance: pc'[q] = "new" <=> pc[q] = "new"
      BY <1>13, LoopEffect DEF MeshInv, Goroutine, builderVars
    <2>2. \A i \in DOMAIN localInstances: localInstances[i] \in Instance
      BY DEF MeshInv, BuilderTypes
    <2> QED BY <2>1, <2>2 DEF MeshInv, RunFails
  <1>14. CASE UNCHANGED meshVars
    BY <1>1, <1>14 DEF meshVars, vars, builderVars
  <1> QED
    BY <1>3, <1>4, <1>5, <1>6, <1>7, <1>8, <1>9, <1>10, <1>11, <1>12, <1>13, <1>14
       DEF MeshNext, UserCall, Proceed

LEMMA StopProgressStep ==
    ASSUME MeshInv, [MeshNext]_meshVars
    PROVE  StopProgress'
  <1> USE DEF StopProgress
  <1>1. ASSUME stopCaller' = stopCaller, mode # "stopping", mode' # "stopping"
        PROVE  StopProgress'
    BY <1>1 DEF MeshInv
  <1>2. ASSUME NEW n \in 1 .. Len(localInstances), Shutdown(StopOrder(n)),
               localInstances' = localInstances, mode' = "stopping", pos' = n,
               \A p \in Instance: ~stopCaller[p],
               \A i \in 1 .. n - 1: pc[StopOrder(i)] \in Stopped
        PROVE  StopProgress'
    <2>1. StopOrder(n) \in Instance
      BY StopOrderType DEF MeshInv
    <2>2. pc' = pc /\ stopCaller' = [stopCaller EXCEPT ![StopOrder(n)] = TRUE]
      BY <1>2 DEF Shutdown
    <2> QED BY <1>2, <2>1, <2>2 DEF StopOrder, MeshInv, TypeInv, TypeOK
  <1>3. CASE BeginShutdown
    <2>1. 1 \in 1 .. Len(localInstances)
      BY <1>3 DEF BeginShutdown, MeshInv, BuilderTypes
    <2> QED BY <1>2, <1>3, <2>1 DEF BeginShutdown, MeshInv
  <1>4. CASE NextShutdown
    <2>1. /\ mode = "stopping" /\ pos' = pos + 1 /\ mode' = mode
          /\ pos + 1 \in 1 .. Len(localInstances)
          /\ Shutdown(StopOrder(pos + 1)) /\ localInstances' = localInstances
          /\ ~stopCaller[StopOrder(pos)]
      BY <1>4 DEF NextShutdown, Returned, NextIteration, MeshInv, BuilderTypes
    <2>2. \A p \in Instance: ~stopCaller[p]
      BY <2>1 DEF MeshInv
    <2>3. \A i \in 1 .. (pos + 1) - 1: pc[StopOrder(i)] \in Stopped
      BY <2>1 DEF MeshInv, BuilderTypes
    <2> QED BY <1>2, <2>1, <2>2, <2>3
  <1>5. CASE EndShutdown
    BY <1>5 DEF EndShutdown, Returned, MeshInv, vars
  <1>6. CASE createProcessor \/ addEventRelation \/ addQueryRelation
    BY <1>1, <1>6
       DEF createProcessor, addEventRelation, addQueryRelation, Iterating, MeshError, New,
           AddEventSink, AddQuerySink, NextIteration, vars
  <1>7. CASE RunInstance
    BY <1>1, <1>7 DEF RunInstance, Iterating, Run, NextIteration, vars
  <1>8. CASE \/ LoopDone("instances", blueprint.localInstances, "events")
             \/ LoopDone("events", blueprint.eventRelations, "queries")
             \/ LoopDone("queries", blueprint.queryRelations, "running")
             \/ LoopDone("running", localInstances, "idle")
    BY <1>1, <1>8 DEF LoopDone, vars
  <1>9. CASE BeginRun \/ Clear
    BY <1>1, <1>9 DEF BeginRun, Clear, vars
  <1>10. ASSUME NEW t, NEW c, AddConstructor(t, c) PROVE StopProgress'
    BY <1>1, <1>10 DEF AddConstructor, vars
  <1>11. ASSUME NEW g \in Instance, Goroutine(g) PROVE StopProgress'
    <2>1. /\ UNCHANGED <<localInstances, mode, pos>>
          /\ \A q \in Instance:
                 /\ pc[q] \in Stopped => pc'[q] \in Stopped
                 /\ stopCaller'[q] => stopCaller[q]
                 /\ stopCaller[q] => stopCaller'[q] \/ pc'[q] \in Stopped
      BY <1>11, LoopEffect DEF MeshInv, Goroutine, builderVars
    <2>2. \A i \in 1 .. Len(localInstances): StopOrder(i) \in Instance /\ StopOrder(i)' = StopOrder(i)
      BY <2>1, StopOrderType DEF MeshInv, StopOrder
    <2>3. \A p \in Instance: stopCaller'[p] => mode' = "stopping" /\ p = StopOrder(pos)'
      BY <2>1 DEF MeshInv, StopOrder
    <2>4. ASSUME mode = "stopping"
          PROVE  /\ pos <= Len(localInstances)
                 /\ \A i \in 1 .. pos - 1: pc'[StopOrder(i)] \in Stopped
                 /\ stopCaller'[StopOrder(pos)] \/ pc'[StopOrder(pos)] \in Stopped
      <3>1. pos \in 1 .. Len(localInstances) /\ 1 .. pos - 1 \subseteq 1 .. Len(localInstances)
        BY <2>4 DEF MeshInv, BuilderTypes
      <3> QED BY <2>1, <2>2, <2>4, <3>1 DEF MeshInv
    <2> QED BY <2>1, <2>3, <2>4 DEF StopOrder
  <1>12. CASE UNCHANGED meshVars
    BY <1>12 DEF meshVars, vars, builderVars, MeshInv, StopOrder
  <1> QED
    BY <1>3, <1>4, <1>5, <1>6, <1>7, <1>8, <1>9, <1>10, <1>11, <1>12
       DEF MeshNext, UserCall, Proceed

-----------------------------------------------------------------------------
LEMMA MeshInvInit == MeshInit => MeshInv
  <1> SUFFICES ASSUME MeshInit PROVE MeshInv
    OBVIOUS
  <1>1. TypeInv /\ Init
    BY TypeInit DEF MeshInit
  <1>2. BuilderTypes
    BY MeshAssumption DEF MeshInit, BuilderTypes, Mode
  <1>3. Placement
    BY <1>2, BlueprintFacts DEF MeshInit, Init, Placement
  <1>4. SinksFollowBlueprint /\ StartedInOrder /\ StoppedInOrder
    BY <1>1 DEF Init, SinksFollowBlueprint, StartedInOrder, StoppedInOrder, Stopped
  <1>5. RunProgress /\ StopProgress
    BY <1>1 DEF MeshInit, Init, RunProgress, StopProgress
  <1> QED BY <1>1, <1>2, <1>3, <1>4, <1>5 DEF MeshInv

LEMMA MeshInvStep ==
    ASSUME MeshInv, [MeshNext]_meshVars
    PROVE  MeshInv'
  <1>1. TypeInv'
    BY TypeStep, MeshStepIsProcessorStep DEF MeshInv
  <1>2. BuilderTypes' /\ Placement' /\ SinksFollowBlueprint'
    BY BuilderTypesStep, PlacementStep, SinksStep DEF MeshInv
  <1>3. StartedInOrder' /\ StoppedInOrder' /\ RunProgress' /\ StopProgress'
    BY StartedStep, StoppedStep, RunProgressStep, StopProgressStep
  <1> QED BY <1>1, <1>2, <1>3 DEF MeshInv

(* What is known of the mesh and of the builder's loops holds always.      *)
THEOREM MeshCorrect == MeshSpec => []MeshInv
  <1>1. MeshInv /\ [MeshNext]_meshVars => MeshInv'
    BY MeshInvStep
  <1> QED BY <1>1, MeshInvInit, PTL DEF MeshSpec

(* Types.                                                                  *)
THEOREM BuilderTyping == MeshSpec => []BuilderTypeOK
  <1>1. MeshInv => BuilderTypeOK
    BY DEF MeshInv, TypeInv, BuilderTypes, BuilderTypeOK
  <1> QED BY <1>1, MeshCorrect, PTL

(* In every mesh whose events only go to instances listed earlier, the     *)
(* receiver of a held event is running, unless its Run failed.             *)
THEOREM NobodyStranded == MeshSpec => []NoStrandedSender
  <1>1. MeshInv => NoStrandedSender
    <2> SUFFICES ASSUME MeshInv, Ordered(blueprint),
                        NEW p \in Instance, InFlight(p), ~RunFails(Target(p))
                 PROVE  pc[Target(p)] \in Running
      BY DEF NoStrandedSender
    <2> DEFINE d == Target(p)
    <2>1. sendEvents[p].lo > 1 /\ d # None
      BY DEF MeshInv, TypeInv, Bounds
    <2>2. PICK t \in EventType: d = eventSinks[p][t]
      <3>1. made[p] # None /\ sendEvents[p] \in Window /\ made[p] \in Params
        BY DEF MeshInv, TypeInv, TypeOK, Bounds, InFlight
      <3>2. Current(p) \in DOMAIN made[p].sendEvents
        BY <2>1, <3>1, ParamsAssumption
           DEF MeshInv, TypeInv, TypeOK, Bounds, InFlight, Fits, Window, Current
      <3>3. made[p].sendEvents[Current(p)] \in EventType
        BY <3>1, <3>2, ParamsAssumption
      <3> QED BY <3>3 DEF Target, Addressee
    <2>3. d \in Instance
      BY <2>1, <2>2 DEF MeshInv, TypeInv, TypeOK
    <2>4. Earlier(d, p)
      BY <2>1, <2>2 DEF MeshInv, SinksFollowBlueprint, Ordered, Earlier
    <2>5. pc[d] # "new"
      BY <2>3, <2>4 DEF MeshInv, StartedInOrder, InFlight
    <2>6. pc[d] \notin Stopped
      BY <2>3, <2>4 DEF MeshInv, StoppedInOrder, InFlight, Stopped
    <2> QED BY <2>3, <2>5, <2>6 DEF MeshInv, TypeInv, TypeOK, PC, Stopped, Running
  <1> QED BY <1>1, MeshCorrect, PTL

(* Instances start in blueprint order and stop in the reverse order.       *)
THEOREM OrderKept == MeshSpec => []StartStopOrder
  <1>1. MeshInv => StartStopOrder
    <2> SUFFICES ASSUME MeshInv, NEW i \in DOMAIN localInstances, NEW j \in DOMAIN localInstances,
                        i < j
                 PROVE  LET p == localInstances[i]
                            q == localInstances[j]
                        IN  /\ pc[q] # "new" => RunFails(p) \/ pc[p] # "new"
                            /\ pc[p] \in Stopped => pc[q] \in Stopped
      BY DEF StartStopOrder
    <2>1. localInstances[i] \in Instance /\ localInstances[j] \in Instance
      BY MemberPlace DEF MeshInv
    <2>2. Earlier(localInstances[i], localInstances[j])
      BY MemberPlace DEF MeshInv, Earlier, ListedBefore
    <2> QED BY <2>1, <2>2 DEF MeshInv, StartedInOrder, StoppedInOrder
  <1> QED BY <1>1, MeshCorrect, PTL

-----------------------------------------------------------------------------
LEMMA ErrorsStep ==
    ASSUME MeshInv, ErrorsReported, [MeshNext]_meshVars
    PROVE  ErrorsReported'
  <1> USE DEF ErrorsReported
  <1> DEFINE NeverRun == \A p \in Instance: pc[p] # "new" => ~RunFails(p)
  <1>0. ASSUME UNCHANGED <<made, pc>> PROVE NeverRun'
    BY <1>0 DEF RunFails
  <1>1. ASSUME UNCHANGED <<made, pc, localInstances, mode, pos, runErrors>> PROVE ErrorsReported'
    BY <1>1 DEF RunFails, Listed
  <1>2. ASSUME UNCHANGED <<made, pc>>, localInstances' = <<>>, mode' = "idle" PROVE ErrorsReported'
    BY <1>0, <1>2
  <1>3. CASE createProcessor
    <2> DEFINE e == blueprint.localInstances[pos]
               x == Local(e.name)
    <2>1. pos \in DOMAIN blueprint.localInstances /\ mode = "instances"
      BY <1>3, BlueprintFacts DEF createProcessor, Iterating, MeshInv, BuilderTypes
    <2>2. x \in Instance
      BY <2>1, LocalType, BlueprintFacts DEF MeshInv
    <2>3. MeshError \/ (New(x, constructors[e.type]) /\ NextIteration /\ UNCHANGED runErrors)
      BY <1>3 DEF createProcessor
    <2>4. ASSUME New(x, constructors[e.type]) PROVE NeverRun'
      <3>1. pc[x] = "new"
        BY <2>2, <2>4 DEF New, MeshInv, TypeInv, Bounds
      <3> QED BY <3>1, <2>2, <2>4 DEF New, RunFails, MeshInv, TypeInv, TypeOK
    <2> QED BY <1>2, <2>1, <2>3, <2>4 DEF MeshError, NextIteration, vars
  <1>4. CASE addEventRelation \/ addQueryRelation
    <2>1. Still
      BY <1>4, WiringIsStill
    <2>2. MeshError \/ (NextIteration /\ mode \in {"events", "queries"} /\ UNCHANGED runErrors)
      BY <1>4 DEF addEventRelation, addQueryRelation, Iterating
    <2> QED BY <1>0, <1>2, <2>1, <2>2 DEF MeshError, NextIteration, Still
  <1>5. CASE RunInstance
    <2> DEFINE x == localInstances[pos]
    <2>1. pos \in DOMAIN localInstances /\ mode = "running" /\ pos \in Nat /\ x \in Instance
      BY <1>5 DEF RunInstance, Iterating, MeshInv, BuilderTypes
    <2>2. /\ localInstances' = localInstances /\ mode' = mode /\ pos' = pos + 1 /\ made' = made
          /\ \/ RunFails(x) /\ pc' = pc /\ runErrors' = runErrors \cup {x}
             \/ ~RunFails(x) /\ pc' = [pc EXCEPT ![x] = "launched"] /\ runErrors' = runErrors
      BY <1>5 DEF RunInstance, Run, wiring, NextIteration, vars
    <2>3. NeverRun'
      BY <2>1, <2>2 DEF RunFails, MeshInv, TypeInv, TypeOK
    <2>4. \A i \in DOMAIN localInstances: i \in Nat /\ (i < pos + 1 <=> i < pos \/ i = pos)
      BY <2>1 DEF MeshInv, BuilderTypes
    <2>5. runErrors' = {p \in Listed: RunFails(p) /\ \E i \in DOMAIN localInstances: i < pos + 1 /\ p = localInstances[i]}
      BY <2>1, <2>2, <2>4 DEF Listed
    <2> QED BY <2>1, <2>2, <2>3, <2>5 DEF RunFails, Listed
  <1>6. CASE BeginShutdown \/ NextShutdown \/ EndShutdown
    <2>1. /\ UNCHANGED <<made, pc, localInstances, runErrors>>
          /\ mode \in {"idle", "stopping"} /\ mode' \in {"idle", "stopping"}
      BY <1>6 DEF BeginShutdown, NextShutdown, EndShutdown, Returned, Shutdown, wiring,
                  NextIteration, vars
    <2> QED BY <1>0, <2>1 DEF RunFails, Listed
  <1>7. CASE BeginRun
    BY <1>0, <1>7 DEF BeginRun, vars
  <1>8. CASE \/ LoopDone("instances", blueprint.localInstances, "events")
             \/ LoopDone("events", blueprint.eventRelations, "queries")
    BY <1>0, <1>8 DEF LoopDone, vars
  <1>9. CASE LoopDone("queries", blueprint.queryRelations, "running")
    <2>1. /\ UNCHANGED <<made, pc, localInstances, runErrors>>
          /\ mode = "queries" /\ mode' = "running" /\ pos' = 1
      BY <1>9 DEF LoopDone, vars
    <2>2. \A i \in DOMAIN localInstances: ~(i < 1)
      BY DEF MeshInv, BuilderTypes
    <2> QED BY <1>0, <2>1, <2>2
  <1>10. CASE LoopDone("running", localInstances, "idle")
    <2>1. /\ UNCHANGED <<made, pc, localInstances, runErrors>>
          /\ mode = "running" /\ mode' = "idle" /\ pos > Len(localInstances)
      BY <1>10 DEF LoopDone, vars
    <2>2. \A i \in DOMAIN localInstances: i < pos
      BY <2>1 DEF MeshInv, BuilderTypes
    <2>3. runErrors = {p \in Listed: RunFails(p)}
      BY <2>1, <2>2 DEF Listed
    <2> QED BY <1>0, <2>1, <2>3 DEF RunFails, Listed
  <1>11. CASE Clear
    BY <1>2, <1>11 DEF Clear, vars
  <1>12. ASSUME NEW t, NEW c, AddConstructor(t, c) PROVE ErrorsReported'
    BY <1>1, <1>12 DEF AddConstructor, vars
  <1>13. ASSUME NEW p \in Instance, Goroutine(p) PROVE ErrorsReported'
    <2>1. /\ UNCHANGED <<made, localInstances, mode, pos, runErrors>>
          /\ \A q \in Instance: pc'[q] = "new" <=> pc[q] = "new"
      BY <1>13, LoopEffect DEF MeshInv, Goroutine, builderVars
    <2> QED BY <2>1 DEF RunFails, Listed
  <1>14. CASE UNCHANGED meshVars
    BY <1>1, <1>14 DEF meshVars, vars, builderVars
  <1> QED
    BY <1>3, <1>4, <1>5, <1>6, <1>7, <1>8, <1>9, <1>10, <1>11, <1>12, <1>13, <1>14
       DEF MeshNext, UserCall, Proceed

(* Between calls, the instances Run reported are exactly those of the mesh *)
(* that are not running.                                                   *)
THEOREM FailuresReported == MeshSpec => []RunReportsFailures
  <1>1. MeshInit => ErrorsReported
    BY DEF MeshInit, Init, ErrorsReported
  <1>2. MeshInv /\ ErrorsReported /\ [MeshNext]_meshVars => ErrorsReported'
    BY ErrorsStep
  <1>3. MeshInv /\ ErrorsReported => RunReportsFailures
    <2> SUFFICES ASSUME MeshInv, ErrorsReported, mode = "idle", localInstances # <<>>
                 PROVE  runErrors = {p \in Listed: pc[p] = "new"}
      BY DEF RunReportsFailures
    <2>1. \A p \in Listed: p \in Instance /\ (RunFails(p) \/ pc[p] # "new")
      BY DEF MeshInv, BuilderTypes, RunProgress, Listed
    <2> QED BY <2>1 DEF ErrorsReported
  <1> QED BY <1>1, <1>2, <1>3, MeshCorrect, PTL DEF MeshSpec

-----------------------------------------------------------------------------
(* An instance is ready from the start of its goroutine to its end.        *)
Readiness ==
    \A p \in Instance: ready[p] <=> pc[p] \in {"select", "sending", "parked", "returning"}

(* During a walk no call of the builder is in progress; so nobody stops a  *)
(* goroutine, and those the walk has passed are past their start, or end.  *)
WalkInv ==
    /\ iter \in Nat \ {0} /\ walk \in {"none", "ready", "unready"}
    /\ walk # "none" => mode = "idle"
    /\ walk = "ready" => \A i \in DOMAIN localInstances:
           /\ pc[localInstances[i]] \in Running
           /\ i < iter => pc[localInstances[i]] # "launched"
    /\ walk = "unready" => \A i \in DOMAIN localInstances:
           /\ pc[localInstances[i]] \in Stopped
           /\ i < iter => pc[localInstances[i]] = "exited"

HealthInv == MeshInv /\ Readiness /\ WalkInv

LEMMA ReadinessCall ==
    ASSUME TypeInv, Readiness, NEW p \in Instance, Call(p)
    PROVE  Readiness'
  BY DEF Call, New, AddEventSink, AddQuerySink, Run, Shutdown, Readiness, TypeInv, TypeOK

(* A goroutine is not launched again, and has ended for good.              *)
LEMMA LoopOrder ==
    ASSUME TypeInv, Readiness, NEW p \in Instance, Loop(p)
    PROVE  /\ Readiness'
           /\ \A q \in Instance:
                  /\ pc'[q] = "launched" => pc[q] = "launched"
                  /\ pc[q] = "exited" => pc'[q] = "exited"
  <1> USE DEF TypeInv, TypeOK, Readiness
  <1>1. CASE Start(p)
    BY <1>1 DEF Start
  <1>2. CASE Default(p)
    BY <1>2 DEF Default, RunNextQuery, SendNextEvent, AfterPop
  <1>3. CASE Panic(p)
    BY <1>3 DEF Panic
  <1>4. CASE Park(p)
    BY <1>4 DEF Park
  <1>5. CASE TakeStop(p)
    BY <1>5 DEF TakeStop
  <1>6. CASE Exit(p)
    BY <1>6 DEF Exit
  <1>7. ASSUME NEW o \in Instance, Receive(p, o)
        PROVE  /\ Readiness'
               /\ \A q \in Instance:
                      /\ pc'[q] = "launched" => pc[q] = "launched"
                      /\ pc[q] = "exited" => pc'[q] = "exited"
    BY <1>7 DEF Receive, BlockedOn
  <1> QED BY <1>1, <1>2, <1>3, <1>4, <1>5, <1>6, <1>7 DEF Loop

LEMMA ReadinessStep ==
    ASSUME MeshInv, Readiness, [MeshNext]_meshVars
    PROVE  Readiness'
  <1>1. [Next]_vars /\ TypeInv
    BY MeshStepIsProcessorStep DEF MeshInv
  <1>2. CASE UNCHANGED vars
    BY <1>2 DEF vars, Readiness
  <1> QED BY <1>1, <1>2, ReadinessCall, LoopOrder DEF Next

(* Between calls of the builder only goroutines move, and none of them is  *)
(* stopped.                                                                *)
LEMMA WalkGoroutine ==
    ASSUME HealthInv, NEW p \in Instance, Goroutine(p), UNCHANGED <<walk, iter>>
    PROVE  WalkInv'
  <1>1. UNCHANGED <<localInstances, mode, pos>>
    BY DEF Goroutine, builderVars
  <1>2. \A q \in Instance:
            /\ pc'[q] = "new" <=> pc[q] = "new"
            /\ pc[q] \in Stopped => pc'[q] \in Stopped
            /\ pc'[q] \in Stopped => pc[q] \in Stopped \/ stopCaller[q]
            /\ pc'[q] = "launched" => pc[q] = "launched"
            /\ pc[q] = "exited" => pc'[q] = "exited"
            /\ pc'[q] \in PC
    <2>1. Loop(p) /\ TypeInv /\ TypeInv' /\ Readiness
      <3>1. MeshInv'
        BY MeshInvStep DEF HealthInv, MeshNext
      <3> QED BY <3>1 DEF HealthInv, MeshInv, Goroutine
    <2> QED BY <2>1, LoopEffect, LoopOrder DEF TypeInv, TypeOK
  <1>3. mode = "idle" => \A q \in Instance: ~stopCaller[q]
    BY DEF HealthInv, MeshInv, StopProgress
  <1>4. \A i \in DOMAIN localInstances: localInstances[i] \in Instance
    BY DEF HealthInv, MeshInv, BuilderTypes
  <1>5. \A q \in Instance: mode = "idle" /\ pc[q] \in Running => pc'[q] \in Running
    BY <1>2, <1>3 DEF PC, Running, Stopped
  <1> QED BY <1>1, <1>2, <1>4, <1>5 DEF HealthInv, WalkInv

LEMMA PollStep ==
    ASSUME HealthInv, Poll
    PROVE  WalkInv'
  <1>1. /\ iter \in DOMAIN localInstances \/ iter = 0
        /\ iter \in Nat /\ iter' = iter + 1
        /\ UNCHANGED <<localInstances, mode, pc, walk>>
        /\ ready[Visited] = (walk = "ready")
    BY DEF Poll, Walking, IsReady, HealthInv, WalkInv, MeshInv, BuilderTypes, meshVars, vars,
           builderVars
  <1>2. \A i \in DOMAIN localInstances:
            /\ i \in Nat \ {0} /\ localInstances[i] \in Instance
            /\ i < iter + 1 => i < iter \/ i = iter
    BY <1>1 DEF HealthInv, MeshInv, BuilderTypes
  <1>3. iter \in DOMAIN localInstances =>
            /\ walk = "ready" => pc[Visited] # "launched"
            /\ walk = "unready" => pc[Visited] = "exited"
    <2> SUFFICES ASSUME iter \in DOMAIN localInstances
                 PROVE  /\ walk = "ready" => pc[Visited] # "launched"
                        /\ walk = "unready" => pc[Visited] = "exited"
      OBVIOUS
    <2>1. Visited \in Instance
      BY <1>2 DEF Visited
    <2>2. walk = "ready" => ready[Visited] /\ pc[Visited] # "launched"
      BY <1>1, <2>1 DEF HealthInv, Readiness
    <2>3. walk = "unready" => pc[Visited] \in Stopped
      BY DEF HealthInv, WalkInv, Visited
    <2>4. walk = "unready" => ~ready[Visited]
      BY <1>1
    <2> QED BY <2>1, <2>2, <2>3, <2>4 DEF HealthInv, Readiness, Stopped
  <1> QED BY <1>1, <1>2, <1>3 DEF HealthInv, WalkInv, Visited

\* The walk and its caller do to the mesh only what the builder does.
LEMMA HealthStepIsMeshStep == [HealthNext]_healthVars => [MeshNext]_meshVars
  BY DEF HealthNext, BuilderCall, Others, GetProcessorsIterator, Poll, MeshNext, healthVars

LEMMA HealthStep ==
    ASSUME HealthInv, [HealthNext]_healthVars
    PROVE  HealthInv'
  <1>1. [MeshNext]_meshVars
    BY HealthStepIsMeshStep
  <1>2. MeshInv' /\ Readiness'
    BY <1>1, MeshInvStep, ReadinessStep DEF HealthInv
  <1>3. ASSUME BuilderCall PROVE WalkInv'
    <2>1. walk' = "none" /\ iter' = 1
      BY <1>3 DEF BuilderCall
    <2> QED BY <2>1 DEF WalkInv
  <1>4. ASSUME Proceed, UNCHANGED <<walk, iter>> PROVE WalkInv'
    <2>1. mode # "idle"
      BY <1>4 DEF Proceed, createProcessor, addEventRelation, addQueryRelation, Iterating, LoopDone,
                  RunInstance, NextShutdown, EndShutdown, Returned
    <2> QED BY <1>4, <2>1 DEF HealthInv, WalkInv
  <1>5. ASSUME NEW goal \in {"ready", "unready"}, GetProcessorsIterator(goal) PROVE WalkInv'
    <2>1. /\ UNCHANGED <<mode, pc, localInstances>> /\ mode = "idle"
          /\ walk' = goal /\ iter' = 1
          /\ goal = "ready" => \A q \in Listed: pc[q] \in Running
          /\ goal = "unready" => \A q \in Listed: pc[q] \in Stopped
      BY <1>5 DEF GetProcessorsIterator, meshVars, vars, builderVars
    <2>2. \A i \in DOMAIN localInstances: localInstances[i] \in Listed /\ ~(i < 1)
      BY DEF HealthInv, MeshInv, BuilderTypes, Listed
    <2> QED BY <2>1, <2>2 DEF WalkInv
  <1>6. ASSUME UNCHANGED healthVars PROVE WalkInv'
    <2>1. UNCHANGED <<pc, localInstances, mode, walk, iter>>
      BY <1>6 DEF healthVars, meshVars, vars, builderVars
    <2> QED BY <2>1 DEF HealthInv, WalkInv
  <1>7. ASSUME Others PROVE WalkInv'
    BY <1>4, <1>7, WalkGoroutine DEF Others
  <1>8. ASSUME Poll PROVE WalkInv'
    BY <1>8, PollStep
  <1>9. WalkInv'
    BY <1>3, <1>5, <1>6, <1>7, <1>8 DEF HealthNext
  <1> QED BY <1>2, <1>9 DEF HealthInv

LEMMA HealthCorrect == HealthSpec => []HealthInv
  <1>1. HealthInit => HealthInv
    <2> SUFFICES ASSUME HealthInit PROVE HealthInv
      OBVIOUS
    <2>1. MeshInv
      BY MeshInvInit DEF HealthInit
    <2> QED BY <2>1 DEF HealthInit, MeshInit, Init, HealthInv, Readiness, WalkInv
  <1>2. HealthInv /\ [HealthNext]_healthVars => HealthInv'
    BY HealthStep
  <1>3. HealthSpec => HealthInit /\ [][HealthNext]_healthVars
    BY PTL DEF HealthSpec
  <1> QED BY <1>1, <1>2, <1>3, PTL

(* All the walk has passed are ready together, or have all ended for good, *)
(* although it looked at them at different times.                          *)
THEOREM WalkSeesOneState == HealthSpec => []WalkIsASnapshot
  <1>1. HealthInv => WalkIsASnapshot
    <2> SUFFICES ASSUME HealthInv, NEW i \in DOMAIN localInstances, i < iter
                 PROVE  /\ walk = "ready" => ready[localInstances[i]]
                        /\ walk = "unready" => pc[localInstances[i]] = "exited"
      BY DEF WalkIsASnapshot
    <2>1. localInstances[i] \in Instance
      BY DEF HealthInv, MeshInv, BuilderTypes
    <2> QED BY <2>1 DEF HealthInv, WalkInv, Readiness, Running
  <1> QED BY <1>1, HealthCorrect, PTL

(* The walk is never held by an instance that cannot help it: the one it   *)
(* looks at is as the walk wants it to be, or its own goroutine has only   *)
(* to take its first step, or its last, which nothing can hold up.         *)
WalkNeverStuck ==
    Walking => \/ ready[Visited] = (walk = "ready")
               \/ walk = "ready" /\ pc[Visited] = "launched"
               \/ walk = "unready" /\ pc[Visited] = "returning"

(* No step of a walk waits for what will not happen.                       *)
THEOREM WalkGoesOn == HealthSpec => []WalkNeverStuck
  <1>1. ASSUME HealthInv, Walking
        PROVE  \/ ready[Visited] = (walk = "ready")
               \/ walk = "ready" /\ pc[Visited] = "launched"
               \/ walk = "unready" /\ pc[Visited] = "returning"
    <2>1. iter \in DOMAIN localInstances /\ walk \in {"ready", "unready"}
      BY <1>1 DEF Walking, HealthInv, WalkInv, MeshInv, BuilderTypes
    <2>2. Visited \in Instance
      BY <1>1, <2>1 DEF Visited, HealthInv, MeshInv, BuilderTypes
    <2>3. ready[Visited] \in BOOLEAN
      BY <1>1, <2>2 DEF HealthInv, MeshInv, TypeInv, TypeOK
    <2>4. CASE walk = "ready"
      <3>1. pc[Visited] \in Running
        BY <1>1, <2>1, <2>4 DEF HealthInv, WalkInv, Visited
      <3>2. ready[Visited] \/ pc[Visited] = "launched"
        BY <1>1, <2>2, <3>1 DEF HealthInv, Readiness, Running
      <3> QED BY <2>3, <2>4, <3>2
    <2>5. CASE walk = "unready"
      <3>1. pc[Visited] \in Stopped
        BY <1>1, <2>1, <2>5 DEF HealthInv, WalkInv, Visited
      <3>2. ~ready[Visited] \/ pc[Visited] = "returning"
        BY <1>1, <2>2, <3>1 DEF HealthInv, Readiness, Stopped
      <3> QED BY <2>3, <2>5, <3>2
    <2> QED BY <2>1, <2>4, <2>5
  <1>2. HealthInv => WalkNeverStuck
    BY <1>1 DEF WalkNeverStuck
  <1> QED BY <1>2, HealthCorrect, PTL

-----------------------------------------------------------------------------
(* A mesh as a whole.  All that was created for the current mesh is in     *)
(* localInstances; the instances of a mesh are started together, and       *)
(* between two calls either none of them has left its loop or all have: a  *)
(* Shutdown under way came to a running mesh, or hangs in its first call.  *)
Building == {"instances", "events", "queries", "running"}

Membership ==
    /\ \A i \in DOMAIN localInstances: made[localInstances[i]] # None
    /\ mode \in Building => \A p \in Instance: p[1] = meshes /\ made[p] # None => p \in Listed

StartedTogether ==
    \A p, q \in Instance:
        /\ p[1] = q[1] /\ pc[p] # "new" /\ made[q] # None
        /\ ~ (mode = "running" /\ p[1] = meshes)
        => RunFails(q) \/ pc[q] # "new"

NoneStopped == \A p \in Listed: pc[p] \notin Stopped
AllStopped == \A p \in Listed: pc[p] \in Stopped

StoppedTogether ==
    /\ mode = "idle" => NoneStopped \/ AllStopped
    /\ mode \in Building => NoneStopped
    /\ mode = "stopping" =>
           \/ /\ \A i \in pos + 1 .. Len(localInstances): pc[StopOrder(i)] \notin Stopped
              /\ stopCaller[StopOrder(pos)] => pc[StopOrder(pos)] \notin Stopped
           \/ pos = 1 /\ stopCaller[StopOrder(1)] /\ AllStopped

WholeInv == MeshInv /\ ErrorsReported /\ Membership /\ StartedTogether /\ StoppedTogether

LEMMA MembershipStep ==
    ASSUME MeshInv, Membership, [MeshNext]_meshVars
    PROVE  Membership'
  <1> USE DEF Membership
  <1>1. ASSUME UNCHANGED <<made, localInstances, meshes>>, mode' \in Building => mode \in Building
        PROVE  Membership'
    BY <1>1 DEF Listed
  <1>2. ASSUME localInstances' = <<>>, mode' = "idle" PROVE Membership'
    BY <1>2 DEF Building
  <1>3. CASE createProcessor
    <2> DEFINE e == blueprint.localInstances[pos]
               x == Local(e.name)
    <2>1. pos \in DOMAIN blueprint.localInstances /\ mode = "instances"
      BY <1>3, BlueprintFacts DEF createProcessor, Iterating, MeshInv, BuilderTypes
    <2>2. x \in Instance /\ x[1] = meshes
      BY <2>1, LocalType, BlueprintFacts DEF MeshInv, Local
    <2>3. CASE MeshError
      BY <1>2, <2>3 DEF MeshError
    <2>4. CASE New(x, constructors[e.type]) /\ localInstances' = Append(localInstances, x)
                  /\ NextIteration /\ constructors[e.type] \notin {None, Broken}
      <3>1. /\ made' = [made EXCEPT ![x] = constructors[e.type]] /\ mode' = mode /\ meshes' = meshes
            /\ constructors[e.type] # None /\ made \in [Instance -> Params \cup {None}]
        BY <2>4 DEF New, NextIteration, MeshInv, TypeInv, TypeOK
      <3>2. made'[x] # None /\ \A q \in Instance \ {x}: made'[q] = made[q]
        BY <2>2, <3>1
      <3>3. localInstances \in Seq(Instance)
        BY DEF MeshInv, BuilderTypes
      <3>4. Listed' = Listed \cup {x}
        BY <2>4, <3>3 DEF Listed
      <3>5. \A q \in Listed: q \in Instance /\ made[q] # None
        BY <3>3 DEF Listed
      <3>6. \A i \in DOMAIN localInstances': localInstances'[i] \in Listed \cup {x}
        BY <3>4 DEF Listed
      <3> QED BY <2>1, <2>2, <3>1, <3>2, <3>4, <3>5, <3>6 DEF Building
    <2> QED BY <1>3, <2>3, <2>4 DEF createProcessor
  <1>4. CASE addEventRelation \/ addQueryRelation
    <2>1. Still
      BY <1>4, WiringIsStill
    <2>2. MeshError \/ (NextIteration /\ UNCHANGED localInstances)
      BY <1>4 DEF addEventRelation, addQueryRelation
    <2> QED BY <1>1, <1>2, <2>1, <2>2 DEF MeshError, NextIteration, Still
  <1>5. CASE RunInstance
    BY <1>1, <1>5 DEF RunInstance, Run, wiring, NextIteration, vars
  <1>6. CASE BeginShutdown \/ NextShutdown \/ EndShutdown
    BY <1>1, <1>6
       DEF BeginShutdown, NextShutdown, EndShutdown, Returned, Shutdown, wiring, NextIteration,
           vars, Building
  <1>7. CASE BeginRun
    <2>1. UNCHANGED made /\ localInstances' = <<>> /\ meshes' = meshes + 1 /\ meshes \in Nat
      BY <1>7, MeshAssumption DEF BeginRun, vars, MeshInv, BuilderTypes
    <2> QED BY <2>1 DEF MeshInv, Placement
  <1>8. CASE Clear
    BY <1>2, <1>8 DEF Clear
  <1>9. CASE \/ LoopDone("instances", blueprint.localInstances, "events")
             \/ LoopDone("events", blueprint.eventRelations, "queries")
             \/ LoopDone("queries", blueprint.queryRelations, "running")
             \/ LoopDone("running", localInstances, "idle")
    BY <1>1, <1>9 DEF LoopDone, vars, Building
  <1>10. ASSUME NEW t, NEW c, AddConstructor(t, c) PROVE Membership'
    BY <1>1, <1>10 DEF AddConstructor, vars
  <1>11. ASSUME NEW p \in Instance, Goroutine(p) PROVE Membership'
    BY <1>1, <1>11, LoopEffect DEF Goroutine, builderVars, MeshInv
  <1>12. CASE UNCHANGED meshVars
    BY <1>1, <1>12 DEF meshVars, vars, builderVars
  <1> QED
    BY <1>3, <1>4, <1>5, <1>6, <1>7, <1>8, <1>9, <1>10, <1>11, <1>12
       DEF MeshNext, UserCall, Proceed

LEMMA TogetherStep ==
    ASSUME MeshInv, MeshInv', Membership, StartedTogether, [MeshNext]_meshVars
    PROVE  StartedTogether'
  <1> USE DEF StartedTogether
  <1>1. ASSUME made' = made, \A q \in Instance: pc'[q] = "new" <=> pc[q] = "new",
               mode # "running" \/ UNCHANGED <<mode, meshes>>
        PROVE  StartedTogether'
    BY <1>1 DEF RunFails
  <1>2. CASE createProcessor
    <2> DEFINE e == blueprint.localInstances[pos]
               x == Local(e.name)
    <2>1. pos \in DOMAIN blueprint.localInstances /\ mode = "instances"
      BY <1>2, BlueprintFacts DEF createProcessor, Iterating, MeshInv, BuilderTypes
    <2>2. x \in Instance /\ x[1] = meshes
      BY <2>1, LocalType, BlueprintFacts DEF MeshInv, Local
    <2>3. MeshError \/ (New(x, constructors[e.type]) /\ NextIteration)
      BY <1>2 DEF createProcessor
    <2>4. CASE MeshError
      BY <1>1, <2>1, <2>4 DEF MeshError, vars
    <2>5. CASE New(x, constructors[e.type]) /\ NextIteration
      <3>1. /\ pc' = pc /\ mode' = mode /\ meshes' = meshes
            /\ \A q \in Instance \ {x}: made'[q] = made[q]
        BY <2>5 DEF New, NextIteration, MeshInv, TypeInv, TypeOK
      <3>2. \A p \in Instance: p[1] = meshes => pc[p] = "new"
        BY <2>1 DEF MeshInv, RunProgress
      <3> QED BY <2>1, <2>2, <3>1, <3>2 DEF RunFails
    <2> QED BY <2>3, <2>4, <2>5
  <1>3. CASE addEventRelation \/ addQueryRelation
    <2>1. Still
      BY <1>3, WiringIsStill
    <2>2. mode # "running"
      BY <1>3 DEF addEventRelation, addQueryRelation, Iterating
    <2> QED BY <1>1, <2>1, <2>2 DEF Still
  <1>4. CASE RunInstance
    <2> DEFINE x == localInstances[pos]
    <2>1. pos \in DOMAIN localInstances /\ mode = "running" /\ x \in Instance /\ x[1] = meshes
      <3>1. pos \in DOMAIN localInstances /\ mode = "running"
        BY <1>4 DEF RunInstance, Iterating, MeshInv, BuilderTypes
      <3> QED BY <3>1, MemberPlace DEF MeshInv
    <2>2. /\ mode' = mode /\ meshes' = meshes /\ made' = made
          /\ \A q \in Instance \ {x}: pc'[q] = pc[q]
      BY <1>4 DEF RunInstance, Run, wiring, NextIteration, vars, MeshInv, TypeInv, TypeOK
    <2> QED BY <2>1, <2>2 DEF RunFails
  <1>5. CASE BeginShutdown \/ NextShutdown \/ EndShutdown
    BY <1>1, <1>5
       DEF BeginShutdown, NextShutdown, EndShutdown, Returned, Shutdown, wiring, NextIteration, vars
  <1>6. CASE BeginRun \/ Clear
    BY <1>1, <1>6 DEF BeginRun, Clear, vars
  <1>7. CASE \/ LoopDone("instances", blueprint.localInstances, "events")
             \/ LoopDone("events", blueprint.eventRelations, "queries")
             \/ LoopDone("queries", blueprint.queryRelations, "running")
    BY <1>1, <1>7 DEF LoopDone, vars
  <1>8. CASE LoopDone("running", localInstances, "idle")
    <2>1. UNCHANGED <<made, pc, localInstances, meshes>> /\ mode = "running" /\ mode' = "idle"
      BY <1>8 DEF LoopDone, vars
    <2>2. ASSUME NEW q \in Instance, q[1] = meshes, made[q] # None
          PROVE  RunFails(q) \/ pc[q] # "new"
      <3>1. PICK i \in DOMAIN localInstances: q = localInstances[i]
        BY <2>1, <2>2 DEF Membership, Building, Listed
      <3> QED BY <2>1, <3>1 DEF MeshInv, RunProgress, RunFails
    <2> QED BY <2>1, <2>2 DEF RunFails
  <1>9. ASSUME NEW t, NEW c, AddConstructor(t, c) PROVE StartedTogether'
    BY <1>1, <1>9 DEF AddConstructor, vars
  <1>10. ASSUME NEW p \in Instance, Goroutine(p) PROVE StartedTogether'
    BY <1>1, <1>10, LoopEffect DEF Goroutine, builderVars, MeshInv
  <1>11. CASE UNCHANGED meshVars
    BY <1>1, <1>11 DEF meshVars, vars, builderVars
  <1> QED
    BY <1>2, <1>3, <1>4, <1>5, <1>6, <1>7, <1>8, <1>9, <1>10, <1>11
       DEF MeshNext, UserCall, Proceed

(* Shutdown visits every member, each once.                                *)
LEMMA StopOrderCovers ==
    ASSUME BuilderTypes, Placement
    PROVE  /\ Listed \subseteq Instance
           /\ \A i \in 1 .. Len(localInstances): StopOrder(i) \in Listed
           /\ \A p \in Listed: \E i \in 1 .. Len(localInstances): p = StopOrder(i)
           /\ \A i, j \in 1 .. Len(localInstances): StopOrder(i) = StopOrder(j) => i = j
  <1>1. localInstances \in Seq(Instance) /\ Len(localInstances) \in Nat
    BY DEF BuilderTypes
  <1>2. \A i \in 1 .. Len(localInstances): Len(localInstances) + 1 - i \in DOMAIN localInstances
    BY <1>1
  <1>3. Listed \subseteq Instance /\ \A i \in 1 .. Len(localInstances): StopOrder(i) \in Listed
    BY <1>1, <1>2 DEF Listed, StopOrder
  <1>4. ASSUME NEW p \in Listed PROVE \E i \in 1 .. Len(localInstances): p = StopOrder(i)
    <2>1. PICK k \in DOMAIN localInstances: p = localInstances[k]
      BY DEF Listed
    <2>2. Len(localInstances) + 1 - k \in 1 .. Len(localInstances)
          /\ Len(localInstances) + 1 - (Len(localInstances) + 1 - k) = k
      BY <1>1
    <2> QED BY <2>1, <2>2 DEF StopOrder
  <1>5. ASSUME NEW i \in 1 .. Len(localInstances), NEW j \in 1 .. Len(localInstances),
               StopOrder(i) = StopOrder(j)
        PROVE  i = j
    <2>1. Len(localInstances) + 1 - i = Len(localInstances) + 1 - j
      BY <1>2, <1>5, MemberPlace DEF StopOrder
    <2> QED BY <1>1, <2>1
  <1> QED BY <1>3, <1>4, <1>5

LEMMA StoppedTogetherStep ==
    ASSUME MeshInv, StoppedTogether, [MeshNext]_meshVars
    PROVE  StoppedTogether'
  <1> USE DEF StoppedTogether, NoneStopped, AllStopped
  <1>0. BuilderTypes /\ Placement /\ StopProgress /\ TypeInv /\ pos \in Nat \ {0}
        /\ Len(localInstances) \in Nat
    BY DEF MeshInv, BuilderTypes
  <1>1. ASSUME UNCHANGED <<pc, localInstances>>, mode \in Building, mode' \in Building \cup {"idle"}
        PROVE  StoppedTogether'
    BY <1>1 DEF Listed, Building
  <1>2. ASSUME localInstances' = <<>>, mode' # "stopping" PROVE StoppedTogether'
    BY <1>2 DEF Listed
  <1>3. CASE createProcessor
    <2> DEFINE e == blueprint.localInstances[pos]
               x == Local(e.name)
    <2>1. pos \in DOMAIN blueprint.localInstances /\ mode = "instances"
      BY <1>3, BlueprintFacts DEF createProcessor, Iterating, MeshInv, BuilderTypes
    <2>2. x \in Instance /\ x[1] = meshes
      BY <2>1, LocalType, BlueprintFacts DEF MeshInv, Local
    <2>3. CASE MeshError
      BY <1>2, <2>3 DEF MeshError
    <2>4. CASE New(x, constructors[e.type]) /\ localInstances' = Append(localInstances, x)
                  /\ NextIteration
      <3>1. pc' = pc /\ mode' = mode
        BY <2>4 DEF New, NextIteration
      <3>2. Listed' = Listed \cup {x}
        BY <2>4, <1>0 DEF Listed, BuilderTypes
      <3>3. pc[x] = "new"
        BY <2>1, <2>2 DEF MeshInv, RunProgress
      <3> QED BY <2>1, <3>1, <3>2, <3>3 DEF Building, Stopped
    <2> QED BY <1>3, <2>3, <2>4 DEF createProcessor
  <1>4. CASE addEventRelation \/ addQueryRelation
    <2>1. Still
      BY <1>4, WiringIsStill
    <2>2. MeshError \/ (NextIteration /\ UNCHANGED localInstances /\ mode \in Building)
      BY <1>4 DEF addEventRelation, addQueryRelation, Iterating, Building
    <2> QED BY <1>1, <1>2, <2>1, <2>2 DEF MeshError, NextIteration, Still
  <1>5. CASE RunInstance
    <2>1. /\ mode = "running" /\ mode' = mode /\ localInstances' = localInstances
          /\ \A q \in Instance: pc'[q] = pc[q] \/ pc'[q] = "launched"
      BY <1>0, <1>5 DEF RunInstance, Iterating, Run, NextIteration, vars, TypeInv, TypeOK
    <2> QED BY <1>0, <2>1, StopOrderCovers DEF Listed, Building, Stopped
  <1>6. CASE BeginShutdown
    <2>1. /\ mode = "idle" /\ mode' = "stopping" /\ pos' = 1 /\ UNCHANGED <<pc, localInstances>>
          /\ stopCaller' = [stopCaller EXCEPT ![StopOrder(1)] = TRUE]
          /\ 1 \in 1 .. Len(localInstances)
      BY <1>0, <1>6 DEF BeginShutdown, Shutdown, BuilderTypes
    <2>2. StopOrder(1) \in Instance /\ StopOrder(1)' = StopOrder(1)
      BY <1>0, <2>1, StopOrderType DEF StopOrder
    <2>3. stopCaller'[StopOrder(1)]
      BY <1>0, <2>1, <2>2 DEF TypeInv, TypeOK
    <2>4. CASE NoneStopped
      <3>1. \A i \in 1 .. Len(localInstances): pc[StopOrder(i)] \notin Stopped
        BY <1>0, <2>4, StopOrderCovers
      <3> QED BY <2>1, <3>1 DEF StopOrder, Building
    <2>5. CASE AllStopped
      BY <2>1, <2>2, <2>3, <2>5 DEF Listed, StopOrder, Building
    <2> QED BY <2>1, <2>4, <2>5
  <1>7. CASE NextShutdown
    <2>1. /\ mode = "stopping" /\ mode' = mode /\ pos' = pos + 1 /\ UNCHANGED <<pc, localInstances>>
          /\ ~stopCaller[StopOrder(pos)] /\ pos + 1 \in 1 .. Len(localInstances)
      BY <1>0, <1>7 DEF NextShutdown, Returned, Shutdown, NextIteration
    <2>2. \A i \in pos + 1 .. Len(localInstances): pc[StopOrder(i)] \notin Stopped
      BY <2>1
    <2>3. pc[StopOrder(pos + 1)] \notin Stopped
          /\ \A i \in (pos + 1) + 1 .. Len(localInstances): pc[StopOrder(i)] \notin Stopped
      BY <1>0, <2>1, <2>2
    <2> QED BY <2>1, <2>3 DEF StopOrder, Building
  <1>8. CASE EndShutdown
    <2>1. /\ mode = "stopping" /\ mode' = "idle" /\ UNCHANGED <<pc, localInstances>>
          /\ ~stopCaller[StopOrder(pos)] /\ pos = Len(localInstances)
      BY <1>8 DEF EndShutdown, Returned, vars
    <2>2. \A i \in 1 .. Len(localInstances): pc[StopOrder(i)] \in Stopped
      BY <1>0, <2>1 DEF StopProgress
    <2>3. AllStopped
      BY <1>0, <2>2, StopOrderCovers
    <2> QED BY <2>1, <2>3 DEF Listed, Building
  <1>9. CASE BeginRun \/ Clear
    BY <1>2, <1>9 DEF BeginRun, Clear
  <1>10. CASE \/ LoopDone("instances", blueprint.localInstances, "events")
              \/ LoopDone("events", blueprint.eventRelations, "queries")
              \/ LoopDone("queries", blueprint.queryRelations, "running")
              \/ LoopDone("running", localInstances, "idle")
    BY <1>1, <1>10 DEF LoopDone, vars, Building
  <1>11. ASSUME UNCHANGED <<pc, stopCaller, localInstances, mode, pos>> PROVE StoppedTogether'
    BY <1>11 DEF Listed, StopOrder
  <1>12. ASSUME NEW t, NEW c, AddConstructor(t, c) PROVE StoppedTogether'
    BY <1>11, <1>12 DEF AddConstructor, vars
  <1>13. ASSUME NEW g \in Instance, Goroutine(g) PROVE StoppedTogether'
    <2>1. /\ UNCHANGED <<localInstances, mode, pos>>
          /\ \A q \in Instance:
                 /\ pc[q] \in Stopped => pc'[q] \in Stopped
                 /\ pc'[q] \in Stopped => pc[q] \in Stopped \/ stopCaller[q]
                 /\ stopCaller'[q] => stopCaller[q]
                 /\ stopCaller'[q] /\ pc'[q] \in Stopped => pc[q] \in Stopped
                 /\ stopCaller[q] /\ pc[q] \in Stopped => stopCaller'[q]
      BY <1>0, <1>13, LoopEffect DEF Goroutine, builderVars
    <2>2. Listed' = Listed /\ \A i: StopOrder(i)' = StopOrder(i)
      BY <2>1 DEF Listed, StopOrder
    <2>3. CASE mode # "stopping"
      <3>1. \A q \in Instance: ~stopCaller[q]
        BY <1>0, <2>3 DEF StopProgress
      <3> QED BY <1>0, <2>1, <2>2, <2>3, <3>1, StopOrderCovers
    <2>4. CASE mode = "stopping"
      <3>1. pos \in 1 .. Len(localInstances)
        BY <1>0, <2>4 DEF StopProgress
      <3>2. CASE /\ \A i \in pos + 1 .. Len(localInstances): pc[StopOrder(i)] \notin Stopped
                 /\ stopCaller[StopOrder(pos)] => pc[StopOrder(pos)] \notin Stopped
        <4>1. \A i \in pos + 1 .. Len(localInstances):
                  i \in 1 .. Len(localInstances) /\ i # pos
          BY <1>0
        <4>2. \A i \in pos + 1 .. Len(localInstances):
                  StopOrder(i) \in Instance /\ StopOrder(i) # StopOrder(pos)
          BY <1>0, <3>1, <4>1, StopOrderCovers
        <4>3. \A i \in pos + 1 .. Len(localInstances): pc'[StopOrder(i)] \notin Stopped
          BY <1>0, <2>1, <3>2, <4>2 DEF StopProgress
        <4>4. stopCaller'[StopOrder(pos)] => pc'[StopOrder(pos)] \notin Stopped
          BY <1>0, <2>1, <3>1, <3>2, StopOrderType
        <4> QED BY <2>1, <2>2, <2>4, <4>3, <4>4 DEF Building
      <3>3. CASE pos = 1 /\ stopCaller[StopOrder(1)] /\ AllStopped
        <4>1. StopOrder(1) \in Listed /\ Listed \subseteq Instance
          BY <1>0, <3>1, <3>3, StopOrderCovers
        <4>2. stopCaller'[StopOrder(1)] /\ \A p \in Listed: pc'[p] \in Stopped
          BY <2>1, <3>3, <4>1
        <4> QED BY <2>1, <2>2, <2>4, <3>3, <4>2 DEF Building
      <3> QED BY <2>4, <3>2, <3>3
    <2> QED BY <2>3, <2>4
  <1>14. CASE UNCHANGED meshVars
    BY <1>11, <1>14 DEF meshVars, vars, builderVars
  <1> QED
    BY <1>3, <1>4, <1>5, <1>6, <1>7, <1>8, <1>9, <1>10, <1>12, <1>13, <1>14
       DEF MeshNext, UserCall, Proceed

LEMMA WholeCorrect == MeshSpec => []WholeInv
  <1>1. MeshInit => WholeInv
    <2> SUFFICES ASSUME MeshInit PROVE WholeInv
      OBVIOUS
    <2>1. MeshInv
      BY MeshInvInit
    <2> QED
      BY <2>1
         DEF MeshInit, Init, WholeInv, ErrorsReported, Membership, StartedTogether, StoppedTogether,
             NoneStopped, Listed, Building
  <1>2. WholeInv /\ [MeshNext]_meshVars => WholeInv'
    <2> SUFFICES ASSUME WholeInv, [MeshNext]_meshVars PROVE WholeInv'
      OBVIOUS
    <2>1. MeshInv'
      BY MeshInvStep DEF WholeInv
    <2> QED BY <2>1, ErrorsStep, MembershipStep, TogetherStep, StoppedTogetherStep DEF WholeInv
  <1> QED BY <1>1, <1>2, PTL DEF MeshSpec

(* The builder never calls an instance in a state it must not be in.       *)
THEOREM BuilderAsksProperly == MeshSpec => []AsksOnlyWhatIsAllowed
  <1>1. WholeInv => AsksOnlyWhatIsAllowed
    <2> SUFFICES ASSUME WholeInv PROVE AsksOnlyWhatIsAllowed
      OBVIOUS
    <2>1. /\ TypeInv /\ BuilderTypes /\ Placement /\ StopProgress /\ RunProgress /\ Membership
          /\ pos \in Nat \ {0} /\ Len(localInstances) \in Nat
      BY DEF WholeInv, MeshInv, BuilderTypes
    <2>2. \A p \in Listed: p \in Instance /\ p[1] = meshes /\ made[p] # None
      <3>1. \A i \in DOMAIN localInstances:
                localInstances[i] \in Instance /\ localInstances[i][1] = meshes
        BY <2>1, MemberPlace
      <3> QED BY <2>1, <3>1 DEF Listed, Membership
    <2>3. ASSUME mode = "instances", pos <= Len(blueprint.localInstances)
          PROVE  LET p == Local(blueprint.localInstances[pos].name)
                 IN  p \notin Listed => made[p] = None
      <3>1. pos \in DOMAIN blueprint.localInstances
        BY <2>1, <2>3, BlueprintFacts
      <3>2. Local(blueprint.localInstances[pos].name) \in Instance
        BY <2>1, <2>3, <3>1, LocalType, BlueprintFacts
      <3> QED BY <2>1, <2>3, <3>2 DEF Membership, Building, Local
    <2>4. ASSUME mode \in {"events", "queries"}, NEW r, BothFound(r)
          PROVE  /\ made[Local(r.source)] # None /\ pc[Local(r.source)] = "new"
                 /\ made[Local(r.destination)] # None
      BY <2>1, <2>2, <2>4 DEF BothFound, RunProgress
    <2>5. ASSUME mode = "running", pos <= Len(localInstances)
          PROVE  made[localInstances[pos]] # None /\ pc[localInstances[pos]] = "new"
      <3>1. pos \in DOMAIN localInstances
        BY <2>1, <2>5 DEF BuilderTypes
      <3> QED BY <2>1, <2>5, <3>1 DEF RunProgress, Membership
    <2>6. ASSUME mode = "idle" \/ (mode = "stopping" /\ ~stopCaller[StopOrder(pos)])
          PROVE  \A p \in Listed: made[p] # None /\ ~stopCaller[p]
      BY <2>1, <2>2, <2>6 DEF StopProgress
    <2> HIDE DEF WholeInv
    <2>7. /\ mode = "events" /\ pos <= Len(blueprint.eventRelations) =>
                 LET r == blueprint.eventRelations[pos]
                 IN  BothFound(r) => /\ made[Local(r.source)] # None /\ pc[Local(r.source)] = "new"
                                     /\ made[Local(r.destination)] # None
          /\ mode = "queries" /\ pos <= Len(blueprint.queryRelations) =>
                 LET r == blueprint.queryRelations[pos]
                 IN  BothFound(r) => /\ made[Local(r.source)] # None /\ pc[Local(r.source)] = "new"
                                     /\ made[Local(r.destination)] # None
      BY <2>4
    <2> QED BY <2>3, <2>5, <2>6, <2>7 DEF AsksOnlyWhatIsAllowed
  <1> QED BY <1>1, WholeCorrect, PTL

-----------------------------------------------------------------------------
(* Of the members of a set of ranked things one has the lowest rank.       *)
LEMMA Lowest ==
    ASSUME NEW T, T # {}, NEW f \in [T -> Nat]
    PROVE  \E x \in T: \A y \in T: f[x] <= f[y]
  <1> DEFINE F == {f[x] : x \in T}
             R == OpToRel(<, Nat)
  <1>1. IsWellFoundedOn(R, Nat)
    BY NatLessThanWellFounded
  <1>2. F \subseteq Nat /\ F # {}
    OBVIOUS
  <1>3. \E m \in F: \A n \in F: ~ (<<n, m>> \in R)
    <2> HIDE DEF F, R
    <2> QED BY <1>1, <1>2, WFMin
  <1>4. \A m, n \in Nat: n < m => <<n, m>> \in R
    BY DEF OpToRel
  <1>5. PICK x \in T: \A n \in F: ~ (<<n, f[x]>> \in R)
    BY <1>3
  <1>6. ASSUME NEW y \in T PROVE f[x] <= f[y]
    <2>1. f[y] \in F /\ f[x] \in Nat /\ f[y] \in Nat
      OBVIOUS
    <2>2. ~ (f[y] < f[x])
      BY <1>4, <1>5, <2>1
    <2> QED BY <2>1, <2>2
  <1> QED BY <1>6

(* Who holds an event holds it for an instance of its own mesh, along a    *)
(* relation of the blueprint.                                              *)
LEMMA TargetFacts ==
    ASSUME MeshInv, NEW p \in Instance, InFlight(p)
    PROVE  /\ Target(p) \in Instance /\ made[Target(p)] # None /\ Target(p)[1] = p[1]
           /\ \E k \in DOMAIN blueprint.eventRelations:
                  /\ blueprint.eventRelations[k].source = p[2]
                  /\ blueprint.eventRelations[k].destination = Target(p)[2]
  <1>1. sendEvents[p].lo > 1 /\ Target(p) # None
    BY DEF MeshInv, TypeInv, Bounds
  <1>2. PICK t \in EventType: Target(p) = eventSinks[p][t]
    <2>1. made[p] # None /\ sendEvents[p] \in Window /\ made[p] \in Params
      BY DEF MeshInv, TypeInv, TypeOK, Bounds, InFlight
    <2>2. Current(p) \in DOMAIN made[p].sendEvents
      BY <1>1, <2>1, ParamsAssumption
         DEF MeshInv, TypeInv, TypeOK, Bounds, InFlight, Fits, Window, Current
    <2>3. made[p].sendEvents[Current(p)] \in EventType
      BY <2>1, <2>2, ParamsAssumption
    <2> QED BY <2>3 DEF Target, Addressee
  <1>3. Target(p) \in Instance
    BY <1>1, <1>2 DEF MeshInv, TypeInv, TypeOK
  <1>4. made[Target(p)] # None
    BY <1>1, <1>2 DEF MeshInv, TypeInv, Bounds
  <1> QED BY <1>1, <1>2, <1>3, <1>4 DEF MeshInv, SinksFollowBlueprint

(* Events do not jam.  In a mesh without event cycles that has been run,   *)
(* with no instance stopped, being stopped or rejected, either a goroutine *)
(* of the mesh is able to go on, or all of them are in their loops with    *)
(* nothing left to send and nothing to ask.  With WorkRunsOut and a        *)
(* scheduler that runs who is able, this is EventsDrain.                   *)
EventsNeverJam ==
    Acyclic(blueprint) =>
        \A n \in 1 .. MaxMesh:
            /\ ~Hindered(n) /\ ~ (mode = "running" /\ n = meshes)
            /\ \A p \in Instance: p[1] = n => ~Able(p)
            => \A p \in Instance: p[1] = n /\ pc[p] # "new" =>
                   pc[p] = "select" /\ IsEmpty(sendEvents[p]) /\ IsEmpty(sendQueries[p])

(* In a mesh without event cycles events do not jam.                       *)
THEOREM NoEventJam == MeshSpec => []EventsNeverJam
  <1>1. WholeInv => EventsNeverJam
    <2> SUFFICES ASSUME WholeInv, Acyclic(blueprint), NEW n \in 1 .. MaxMesh,
                        ~Hindered(n), ~ (mode = "running" /\ n = meshes),
                        \A p \in Instance: p[1] = n => ~Able(p)
                 PROVE  \A p \in Instance: p[1] = n /\ pc[p] # "new" =>
                            pc[p] = "select" /\ IsEmpty(sendEvents[p]) /\ IsEmpty(sendQueries[p])
      BY DEF EventsNeverJam
    <2> DEFINE Held == {p \in Instance: p[1] = n /\ pc[p] = "parked"}
    <2>1. TypeInv /\ MeshInv /\ BuilderTypes
      BY DEF WholeInv, MeshInv
    <2>2. ASSUME NEW p \in Instance, p[1] = n, pc[p] # "new"
          PROVE  \/ pc[p] = "parked"
                 \/ pc[p] = "select" /\ IsEmpty(sendEvents[p]) /\ IsEmpty(sendQueries[p])
      <3>1. made[p] # None /\ pc[p] \in PC
        BY <2>1, <2>2 DEF TypeInv, TypeOK, Bounds
      <3>2. pc[p] \notin Stopped
        BY <2>2, <3>1 DEF Hindered
      <3> QED BY <2>2, <3>1, <3>2 DEF Able, Stopped, PC
    <2>3. PICK rank \in [Names(blueprint) -> DOMAIN blueprint.localInstances]:
              \A k \in DOMAIN blueprint.eventRelations:
                  rank[blueprint.eventRelations[k].destination] < rank[blueprint.eventRelations[k].source]
      BY DEF Acyclic
    <2>4. ASSUME NEW p \in Held
          PROVE  /\ Target(p) \in Held /\ p[2] \in Names(blueprint) /\ Target(p)[2] \in Names(blueprint)
                 /\ rank[Target(p)[2]] < rank[p[2]]
      <3>1. p \in Instance /\ InFlight(p) /\ BlockedOn(p, Target(p))
        BY DEF InFlight, BlockedOn
      <3>2. /\ Target(p) \in Instance /\ made[Target(p)] # None /\ Target(p)[1] = n
            /\ \E k \in DOMAIN blueprint.eventRelations:
                   /\ blueprint.eventRelations[k].source = p[2]
                   /\ blueprint.eventRelations[k].destination = Target(p)[2]
        BY <2>1, <3>1, TargetFacts
      <3>3. pc[Target(p)] # "new"
        <4>1. RunFails(Target(p)) \/ pc[Target(p)] # "new"
          BY <3>1, <3>2 DEF WholeInv, StartedTogether
        <4> QED BY <3>2, <4>1 DEF Hindered
      <3>4. pc[Target(p)] # "select"
        BY <3>1, <3>2 DEF Able
      <3>5. pc[Target(p)] = "parked"
        BY <2>2, <3>2, <3>3, <3>4
      <3> QED BY <2>1, <2>3, <3>2, <3>5, BlueprintFacts
    <2>5. Held = {}
      <3> SUFFICES ASSUME Held # {} PROVE FALSE
        OBVIOUS
      <3> DEFINE f == [p \in Held |-> rank[p[2]]]
      <3>1. f \in [Held -> Nat]
        <4>1. DOMAIN blueprint.localInstances \subseteq Nat
          BY <2>1, BlueprintFacts
        <4> QED BY <2>3, <2>4, <4>1
      <3>2. PICK p \in Held: \A q \in Held: f[p] <= f[q]
        <4> HIDE DEF f, Held
        <4> QED BY <3>1, Lowest
      <3>3. Target(p) \in Held /\ f[Target(p)] < f[p]
        BY <2>4, <3>2
      <3>4. f[p] \in Nat /\ f[Target(p)] \in Nat /\ f[p] <= f[Target(p)]
        BY <3>1, <3>2, <3>3
      <3> HIDE DEF f
      <3> QED BY <3>3, <3>4
    <2> QED BY <2>2, <2>5
  <1> QED BY <1>1, WholeCorrect, PTL

(* Shutdown does not get stuck.  In a mesh whose events only go to         *)
(* instances listed earlier and of which every instance was run, a first   *)
(* Shutdown has either stopped all, or its call in progress has returned,  *)
(* or some goroutine of the mesh is able to go on, however many senders    *)
(* were blocked when it was called.                                        *)
ShutdownNeverStuck ==
    Ordered(blueprint) /\ mode = "stopping" /\ runErrors = {} =>
        \/ \A p \in Listed: pc[p] \in Stopped
        \/ ~stopCaller[StopOrder(pos)]
        \/ \E q \in Listed: Able(q)

(* A first Shutdown in an accepted order does not get stuck.               *)
THEOREM ShutdownGoesOn == MeshSpec => []ShutdownNeverStuck
  <1>1. ASSUME WholeInv, NoStrandedSender, Ordered(blueprint), mode = "stopping", runErrors = {},
               ~ (\A p \in Listed: pc[p] \in Stopped), stopCaller[StopOrder(pos)],
               \A q \in Listed: ~Able(q)
        PROVE  FALSE
    <2> DEFINE s == StopOrder(pos)
               Held == {i \in DOMAIN localInstances: pc[localInstances[i]] = "parked"}
    <2>1. /\ TypeInv /\ MeshInv /\ BuilderTypes /\ Placement /\ StopProgress /\ StoppedTogether
          /\ Len(localInstances) = Len(blueprint.localInstances) /\ DOMAIN localInstances \subseteq Nat
          /\ pos \in 1 .. Len(localInstances)
      BY <1>1 DEF WholeInv, MeshInv, BuilderTypes, Placement, StopProgress
    <2>2. localInstances # <<>>
      BY <2>1, BlueprintFacts
    <2>3. \A i \in DOMAIN localInstances:
              /\ localInstances[i] \in Listed /\ localInstances[i] \in Instance
              /\ ~RunFails(localInstances[i]) /\ pc[localInstances[i]] # "new"
              /\ ~Able(localInstances[i])
      <3>1. \A i \in DOMAIN localInstances: localInstances[i] \in Listed /\ localInstances[i] \in Instance
        BY <2>1, MemberPlace DEF Listed
      <3>2. \A p \in Listed: ~RunFails(p)
        BY <1>1, <2>2 DEF WholeInv, ErrorsReported
      <3> QED BY <1>1, <2>1, <3>1, <3>2 DEF MeshInv, RunProgress
    <2>4. PICK i0 \in DOMAIN localInstances: s = localInstances[i0]
      BY <2>1, StopOrderCovers DEF Listed
    <2>5. pc[s] \notin Stopped
      BY <1>1, <2>1 DEF StoppedTogether, AllStopped
    <2>6. i0 \in Held
      BY <1>1, <2>1, <2>3, <2>4, <2>5 DEF Able, Stopped, TypeInv, TypeOK, PC
    <2>7. ASSUME NEW i \in Held
          PROVE  \E j \in Held: j < i
      <3> DEFINE p == localInstances[i]
                 d == Target(p)
      <3>1. p \in Instance /\ InFlight(p) /\ BlockedOn(p, d) /\ p[1] = meshes
        BY <2>1, <2>3, MemberPlace DEF InFlight, BlockedOn
      <3>2. /\ d \in Instance /\ d[1] = p[1]
            /\ \E k \in DOMAIN blueprint.eventRelations:
                   /\ blueprint.eventRelations[k].source = p[2]
                   /\ blueprint.eventRelations[k].destination = d[2]
        BY <2>1, <3>1, TargetFacts
      <3>3. Earlier(d, p)
        BY <1>1, <3>2 DEF Ordered, Earlier
      <3>4. PICK j \in DOMAIN localInstances: j < i /\ d = localInstances[j]
        BY <2>1, <3>2, <3>3, EarlierPlace
      <3>5. pc[d] \in Running
        BY <1>1, <2>3, <3>1, <3>4 DEF NoStrandedSender
      <3>6. pc[d] = "parked"
        <4>1. ~Able(d)
          BY <2>3, <3>4
        <4> QED BY <3>1, <3>5, <4>1 DEF Able, Running
      <3> QED BY <3>4, <3>6
    <2> DEFINE f == [i \in Held |-> i]
    <2>8. f \in [Held -> Nat] /\ Held # {}
      BY <2>1, <2>6
    <2>9. PICK i \in Held: \A j \in Held: f[i] <= f[j]
      <3> HIDE DEF f, Held
      <3> QED BY <2>8, Lowest
    <2>10. PICK j \in Held: j < i
      BY <2>7
    <2>11. i <= j /\ i \in Nat /\ j \in Nat
      BY <2>1, <2>9
    <2> QED BY <2>10, <2>11
  <1>2. WholeInv /\ NoStrandedSender => ShutdownNeverStuck
    BY <1>1 DEF ShutdownNeverStuck
  <1> QED BY <1>2, WholeCorrect, NobodyStranded, PTL

(* A second Shutdown.  Between calls a mesh has been stopped as a whole or *)
(* not at all, and a Shutdown of a stopped mesh hangs in its first call:   *)
(* no step of anybody releases it.                                         *)
SecondShutdown ==
    mode = "stopping" /\ stopCaller[StopOrder(pos)] /\ pc[StopOrder(pos)] \in Stopped

(* Nothing that anybody does ends a second Shutdown.                       *)
THEOREM SecondShutdownHangs == MeshSpec => [][SecondShutdown => SecondShutdown']_meshVars
  <1>1. ASSUME WholeInv, [MeshNext]_meshVars, SecondShutdown PROVE SecondShutdown'
    <2>1. /\ TypeInv /\ MeshInv /\ BuilderTypes /\ StopProgress
          /\ pos \in 1 .. Len(localInstances) /\ StopOrder(pos) \in Instance
      BY <1>1, StopOrderType DEF WholeInv, MeshInv, BuilderTypes, StopProgress, SecondShutdown
    <2>2. ASSUME NEW g \in Instance, Goroutine(g) PROVE SecondShutdown'
      <3>1. UNCHANGED <<localInstances, mode, pos>>
            /\ pc'[StopOrder(pos)] \in Stopped /\ stopCaller'[StopOrder(pos)]
        BY <1>1, <2>1, <2>2, LoopEffect DEF Goroutine, builderVars, SecondShutdown
      <3> QED BY <1>1, <3>1 DEF SecondShutdown, StopOrder
    <2>3. CASE UNCHANGED meshVars
      BY <1>1, <2>3 DEF SecondShutdown, StopOrder, meshVars, vars, builderVars
    <2>4. ~UserCall /\ ~Proceed
      BY <1>1
         DEF SecondShutdown, UserCall, AddConstructor, BeginRun, BeginShutdown, Clear, Proceed,
             createProcessor, addEventRelation, addQueryRelation, Iterating, LoopDone, RunInstance,
             NextShutdown, EndShutdown, Returned
    <2> QED BY <1>1, <2>2, <2>3, <2>4 DEF MeshNext
  <1>2. WholeInv /\ [MeshNext]_meshVars => [SecondShutdown => SecondShutdown']_meshVars
    BY <1>1
  <1> QED BY <1>2, WholeCorrect, PTL DEF MeshSpec

(* A Shutdown that is begun on a stopped mesh is one, and no other is.     *)
THEOREM ShutdownOnceOnly ==
    MeshSpec => /\ []((mode = "idle" => NoneStopped \/ AllStopped)
                      /\ (SecondShutdown => pos = 1 /\ AllStopped))
                /\ [][BeginShutdown /\ AllStopped => SecondShutdown']_meshVars
  <1>1. WholeInv => /\ mode = "idle" => NoneStopped \/ AllStopped
                    /\ SecondShutdown => pos = 1 /\ AllStopped
    BY DEF WholeInv, StoppedTogether, SecondShutdown
  <1>2. WholeInv /\ [MeshNext]_meshVars => [BeginShutdown /\ AllStopped => SecondShutdown']_meshVars
    <2> SUFFICES ASSUME WholeInv, BeginShutdown, AllStopped PROVE SecondShutdown'
      OBVIOUS
    <2>1. BuilderTypes /\ Placement /\ TypeInv /\ 1 \in 1 .. Len(localInstances)
      BY DEF WholeInv, MeshInv, BuilderTypes, BeginShutdown
    <2>2. StopOrder(1) \in Instance /\ pc[StopOrder(1)] \in Stopped
      BY <2>1, StopOrderCovers DEF AllStopped
    <2> QED BY <2>1, <2>2 DEF BeginShutdown, Shutdown, SecondShutdown, StopOrder, TypeInv, TypeOK
  <1> QED BY <1>1, <1>2, WholeCorrect, PTL DEF MeshSpec
=============================================================================
