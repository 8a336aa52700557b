---------------------------- MODULE HealthCheck ----------------------------
(***************************************************************************)
(* ProcessorsIterator composed with the builder and its meshes: the thread *)
(* that calls the builder also walks the mesh from the front, and waits at *)
(* each instance until it is ready, after a Run, or is not, after a        *)
(* Shutdown (builder_test.go:184-220).  It makes no call of the builder    *)
(* before the walk is over.                                                *)
(*                                                                         *)
(* Run and Shutdown return before the goroutines they started, or stopped, *)
(* have set the readiness of their instance.                               *)
(***************************************************************************)
EXTENDS Builder

VARIABLES
    walk,   \* what the last walk waits for: "ready", "unready"; "none" if
            \* the mesh was changed since
    iter    \* the place the iterator points to, one past the end for nil

healthVars == <<meshVars, walk, iter>>

Visited == localInstances[iter]
Walking == walk # "none" /\ iter <= Len(localInstances)

-----------------------------------------------------------------------------
HealthInit == MeshInit /\ walk = "none" /\ iter = 1

(* Any call of the builder, between two walks. *)
BuilderCall ==
    /\ ~ Walking
    /\ UserCall
    /\ walk' = "none" /\ iter' = 1

Others ==
    /\ Proceed \/ \E p \in Instance: Goroutine(p)
    /\ UNCHANGED <<walk, iter>>

(* GetProcessorsIterator, which is nil for an empty mesh: after a Run that *)
(* reported no error, or after a Shutdown.                                 *)
GetProcessorsIterator(goal) ==
    /\ mode = "idle" /\ ~panicked /\ walk = "none"
    /\ localInstances # <<>>
    /\ goal = "ready" => runErrors = {} /\ \A p \in Listed: pc[p] \in Running
    /\ goal = "unready" => \A p \in Listed: pc[p] \in Stopped
    /\ walk' = goal /\ iter' = 1
    /\ UNCHANGED meshVars

IsReady(p) == ready[p]

(* Mutant: the walk does not wait.                                         *)
PollAtOnce ==
    /\ Walking /\ ~panicked
    /\ iter' = iter + 1
    /\ UNCHANGED <<meshVars, walk>>

(* Mutant: the iterator is not replaced by its Next.                       *)
PollWithoutNext ==
    /\ Walking /\ ~panicked
    /\ IsReady(Visited) = (walk = "ready")
    /\ UNCHANGED healthVars

(* Current, IsReady and, once it is as it should be, Next.                 *)
Poll ==
    /\ Walking /\ ~panicked
    /\ IsReady(Visited) = (walk = "ready")
    /\ iter' = iter + 1
    /\ UNCHANGED <<meshVars, walk>>

HealthNext ==
    \/ BuilderCall \/ Others
    \/ GetProcessorsIterator("ready") \/ GetProcessorsIterator("unready")
    \/ Poll

(* Builder calls in progress, goroutines and the walk go on.               *)
HealthSpec ==
    /\ HealthInit /\ [][HealthNext]_healthVars
    /\ WF_healthVars(Proceed /\ UNCHANGED <<walk, iter>>)
    /\ \A p \in Instance: WF_healthVars(Goroutine(p) /\ UNCHANGED <<walk, iter>>)
    /\ WF_healthVars(Poll)

-----------------------------------------------------------------------------
(* The walk looks at the instances one after the other, at different       *)
(* times; still, all it has passed are ready together, or have all ended   *)
(* for good, when it looks at the next.                                    *)
WalkIsASnapshot ==
    \A i \in DOMAIN localInstances: i < iter =>
        /\ walk = "ready" => ready[localInstances[i]]
        /\ walk = "unready" => pc[localInstances[i]] = "exited"

(* It comes to the end of the mesh, whatever the instances send each other *)
(* and whoever is held in a push meanwhile.                                *)
WalkEnds == Walking ~> ~ Walking \/ panicked
=============================================================================
