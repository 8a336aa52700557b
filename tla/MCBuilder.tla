----------------------------- MODULE MCBuilder -----------------------------
(* Blueprints and creators for the runs of Builder.  Types are named after *)
(* the only instance of theirs.                                            *)
EXTENDS Builder

CONSTANTS a, b, c, ev, qu, empty, absent, broken

\* The blueprint that lists the names of s, one type each.
Instances(s) == [k \in DOMAIN s |-> [name |-> s[k], type |-> s[k]]]

Rel(s, d, t) == [source |-> s, destination |-> d, type |-> t]

Bp(s, evs, qus) ==
    [localInstances |-> Instances(s), eventRelations |-> evs, queryRelations |-> qus]

Par(k, n, e, q) ==
    [kind |-> k, interval |-> n, sendEvents |-> e, sendQueries |-> q]

MCWord == {a, b, c, ev, qu, empty}
MCInstance == (1 .. MaxMesh) \X MCWord
TwoNames == {a, b, ev, qu, empty}

-----------------------------------------------------------------------------
(* Two names, two meshes: layouts the builder accepts and rejects.         *)
PairBlueprints ==
    { Bp(<<a, b>>, <<Rel(b, a, ev)>>, <<Rel(a, b, qu)>>),                   \* RunWithShutdown
      Bp(<<a, b>>, <<Rel(b, a, ev)>>, <<Rel(b, a, qu)>>),
      Bp(<<a, b>>, <<Rel(b, a, ev), Rel(b, b, ev)>>, <<>>),                 \* sink already exists
      Bp(<<b, a>>, <<Rel(b, a, ev)>>, <<Rel(b, a, qu)>>),                   \* the order of LoadLayout
      Bp(<<b, a>>, <<>>, <<Rel(a, b, qu), Rel(a, b, qu)>>) }

PairCreators ==
    [w \in MCWord |->
        IF w = a THEN {Par("service", 1, <<>>, <<>>), Par("processor", 1, <<>>, <<qu>>)}
        ELSE IF w = b THEN {Par("processor", 1, <<ev, ev>>, <<qu>>),
                            Par("service", 1, <<ev, ev>>, <<>>),
                            Par("service", 0, <<ev>>, <<>>), broken}
        ELSE {}]

AllParams == UNION {PairCreators[w] : w \in MCWord} \ {broken}

-----------------------------------------------------------------------------
(* Three names, one mesh: two senders on one channel, a chain, and a chain *)
(* listed in an order its events do not follow.                            *)
TrioBlueprints ==
    { Bp(<<a, b, c>>, <<Rel(b, a, ev), Rel(c, a, ev)>>, <<>>),
      Bp(<<a, b, c>>, <<Rel(c, b, ev), Rel(b, a, ev)>>, <<Rel(c, a, qu)>>),
      Bp(<<b, c, a>>, <<Rel(c, b, ev), Rel(b, a, ev)>>, <<>>) }

TrioCreators ==
    [w \in MCWord |->
        IF w = a THEN {Par("service", 1, <<>>, <<>>)}
        ELSE IF w = b THEN {Par("processor", 1, <<ev, ev>>, <<>>)}
        ELSE IF w = c THEN {Par("processor", 1, <<ev, ev>>, <<qu>>),
                            Par("processor", 0, <<ev>>, <<>>)}
        ELSE {}]

TrioParams == UNION {TrioCreators[w] : w \in MCWord}

-----------------------------------------------------------------------------
(* A mesh whose second instance fails to run.                              *)
FailingBlueprints == { Bp(<<a, b>>, <<>>, <<>>) }

FailingCreators ==
    [w \in MCWord |->
        IF w = a THEN {Par("processor", 1, <<>>, <<>>)}
        ELSE IF w = b THEN {Par("processor", 0, <<>>, <<>>)}
        ELSE {}]

(* The layout of blueprint_test.go (LoadLayout): the sender is listed      *)
(* first.                                                                  *)
LayoutBlueprints == { Bp(<<a, b>>, <<Rel(a, b, ev)>>, <<Rel(a, b, qu)>>) }

LayoutCreators ==
    [w \in MCWord |->
        IF w = a THEN {Par("processor", 1, <<ev>>, <<qu>>)}
        ELSE IF w = b THEN {Par("service", 1, <<>>, <<>>)}
        ELSE {}]

FailingParams == UNION {FailingCreators[w] : w \in MCWord}
LayoutParams == UNION {LayoutCreators[w] : w \in MCWord}
=============================================================================
