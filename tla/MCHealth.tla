------------------------------ MODULE MCHealth ------------------------------
(* HealthCheck for TLC: the trios of MCBuilder, the mesh of                *)
(* builder_test.go (RunWithShutdown), whose second instance is the service *)
(* s, and two instances that send to each other.                           *)
EXTENDS MCBuilder, HealthCheck

CONSTANT s

HealthWord == {a, b, c, s, ev, qu}
HealthInstance == (1 .. MaxMesh) \X HealthWord

HealthBlueprints ==
    TrioBlueprints \cup
    { Bp(<<c, s>>, <<Rel(s, c, ev)>>, <<Rel(c, s, qu)>>),
      Bp(<<b, c>>, <<Rel(b, c, ev), Rel(c, b, ev)>>, <<>>) }

HealthCreators ==
    [w \in HealthWord |->
        CASE w = s -> {Par("service", 1, <<ev, ev>>, <<>>)}
          [] w \in MCWord -> TrioCreators[w]]

HealthParams == UNION {HealthCreators[w] : w \in HealthWord}
=============================================================================
