-------------------------- MODULE Blueprint_proofs --------------------------
(***************************************************************************)
(* Proofs about what a builder is given: about the loader, for layouts of  *)
(* every size, and about the constructor, for creators of every type and   *)
(* any parameters.                                                         *)
(***************************************************************************)
EXTENDS Blueprint, Constructor, SequenceTheorems, TLAPS

(* The first n instances have passed.                                      *)
InstancesChecked(n) ==
    /\ \A k \in 1 .. n: InstanceKeys(layout.localInstances[k])
    /\ \A j, k \in 1 .. n: j # k =>
           layout.localInstances[j].name # layout.localInstances[k].name
    /\ instances = {layout.localInstances[k].name : k \in 1 .. n}

AllInstances ==
    /\ layout.localInstances # <<>>
    /\ InstancesChecked(Len(layout.localInstances))

(* The first n relations of a list have passed.                            *)
RelationsChecked(list, known, n) ==
    \A k \in 1 .. n: GoodRelation(list[k], Names(layout), known)

\* i is a place of the list, or 1.
Within(list) == i = 1 \/ i <= Len(list)

(* What has been established when validate looks at an entry.              *)
LoaderInv ==
    /\ TypeOK
    /\ section # "done" => err = "nil"
    /\ section = "instances" => Within(layout.localInstances) /\ InstancesChecked(i - 1)
    /\ section = "events" =>
           /\ AllInstances
           /\ Within(layout.eventRelations)
           /\ RelationsChecked(layout.eventRelations, KnownEvent, i - 1)
    /\ section = "queries" =>
           /\ AllInstances
           /\ RelationsChecked(layout.eventRelations, KnownEvent, Len(layout.eventRelations))
           /\ Within(layout.queryRelations)
           /\ RelationsChecked(layout.queryRelations, KnownQuery, i - 1)
    /\ VerdictExact

-----------------------------------------------------------------------------
LEMMA LayoutTypes ==
    ASSUME TypeOK
    PROVE  /\ layout.localInstances \in Seq(InstanceEntry)
           /\ layout.eventRelations \in Seq(RelationEntry)
           /\ layout.queryRelations \in Seq(RelationEntry)
  BY DEF TypeOK, LayoutSet

(* Once all instances have passed, the names met are the names there are,  *)
(* and none of them is empty or missing.                                   *)
LEMMA NamesKnown ==
    ASSUME TypeOK, AllInstances
    PROVE  /\ instances = Names(layout)
           /\ \A n \in Names(layout): Present(n)
           /\ DistinctNames(layout)
           /\ \A k \in DOMAIN layout.localInstances: InstanceKeys(layout.localInstances[k])
  <1>1. DOMAIN layout.localInstances = 1 .. Len(layout.localInstances)
    BY LayoutTypes
  <1> QED BY <1>1 DEF AllInstances, InstancesChecked, Names, DistinctNames, InstanceKeys

(* Then the checks of a relation find nothing iff the relation is good.    *)
LEMMA ComplaintExact ==
    ASSUME TypeOK, AllInstances, NEW r \in RelationEntry, NEW known,
           known \in {KnownEvent, KnownQuery}
    PROVE  Complaint(r, known) = "nil" <=> GoodRelation(r, Names(layout), known)
  <1>1. \A t \in known: Present(t)
    BY WordAssumption DEF Present
  <1> QED
    BY <1>1, NamesKnown DEF Complaint, RelationKeys, instanceExists, GoodRelation

LEMMA LoaderInit == Init => LoaderInv
  <1> SUFFICES ASSUME Init PROVE LoaderInv
    OBVIOUS
  <1>1. TypeOK
    BY LayoutsAssumption DEF Init, TypeOK, Errors
  <1>2. InstancesChecked(0)
    BY DEF Init, InstancesChecked
  <1> QED BY <1>1, <1>2 DEF Init, LoaderInv, Within, VerdictExact

LEMMA InstancesStep ==
    ASSUME LoaderInv, NoInstances \/ CheckInstance
    PROVE  LoaderInv'
  <1> DEFINE L == layout.localInstances
  <1>0. L \in Seq(InstanceEntry) /\ i \in Nat \ {0} /\ section = "instances" /\ err = "nil"
    BY LayoutTypes DEF LoaderInv, TypeOK, NoInstances, CheckInstance
  <1>1. CASE NoInstances
    <2>1. ~WellFormed(layout)
      BY <1>1 DEF NoInstances, WellFormed
    <2> QED BY <1>1, <2>1 DEF NoInstances, Return, LoaderInv, TypeOK, Errors, VerdictExact
  <1>2. CASE CheckInstance
    <2> DEFINE e == L[i]
    <2>1. i \in 1 .. Len(L) /\ e \in InstanceEntry
      BY <1>0, <1>2 DEF CheckInstance, LoaderInv, Within
    <2>2. InstancesChecked(i - 1)
      BY <1>0 DEF LoaderInv
    <2>3. CASE ~InstanceKeys(e) /\ Return("keys")
      <3>1. ~WellFormed(layout)
        BY <2>1, <2>3 DEF WellFormed
      <3> QED BY <2>3, <3>1 DEF Return, LoaderInv, TypeOK, Errors, VerdictExact
    <2>4. CASE instanceExists(e.name) /\ Return("duplicate")
      <3>1. PICK k \in 1 .. i - 1: L[k].name = e.name
        BY <2>2, <2>4 DEF instanceExists, InstancesChecked
      <3>2. k \in DOMAIN L /\ i \in DOMAIN L /\ k # i
        BY <2>1, <1>0
      <3>3. ~WellFormed(layout)
        BY <3>1, <3>2 DEF WellFormed, DistinctNames
      <3> QED BY <2>4, <3>3 DEF Return, LoaderInv, TypeOK, Errors, VerdictExact
    <2>5. CASE /\ InstanceKeys(e) /\ ~instanceExists(e.name)
               /\ instances' = instances \cup {e.name}
               /\ Advance(L, "events")
      <3>1. layout' = layout /\ err' = err
        BY <2>5 DEF Advance
      <3>2. e.name \in Word
        BY <2>1, <2>5 DEF InstanceEntry, InstanceKeys, Present, Value
      <3>3. InstancesChecked(i)'
            <=> /\ \A k \in 1 .. i': InstanceKeys(L[k])
                /\ \A j, k \in 1 .. i': j # k => L[j].name # L[k].name
                /\ instances' = {L[k].name : k \in 1 .. i'}
        BY <3>1 DEF InstancesChecked
      <3>4. /\ \A k \in 1 .. i: InstanceKeys(L[k])
            /\ \A j, k \in 1 .. i: j # k => L[j].name # L[k].name
            /\ instances' = {L[k].name : k \in 1 .. i}
        <4>1. 1 .. i = (1 .. i - 1) \cup {i}
          BY <1>0
        <4>2. \A k \in 1 .. i - 1: L[k].name # e.name
          BY <2>2, <2>5 DEF InstancesChecked, instanceExists
        <4> QED BY <4>1, <4>2, <2>2, <2>5 DEF InstancesChecked
      <3>5. CASE i < Len(L)
        <4>1. section' = section /\ i' = i + 1
          BY <2>5, <3>5 DEF Advance
        <4>2. i' - 1 = i
          BY <4>1, <1>0
        <4>3. InstancesChecked(i - 1)'
          BY <4>2, <3>1, <3>4 DEF InstancesChecked
        <4> QED
          BY <1>0, <2>5, <3>1, <3>2, <3>5, <4>1, <4>3 DEF LoaderInv, TypeOK, Within, VerdictExact
      <3>6. CASE ~(i < Len(L))
        <4>1. section' = "events" /\ i' = 1 /\ i = Len(L)
          BY <2>1, <2>5, <3>6 DEF Advance
        <4>2. AllInstances'
          BY <2>1, <3>1, <3>4, <4>1 DEF AllInstances, InstancesChecked
        <4>3. RelationsChecked(layout.eventRelations, KnownEvent, i - 1)'
          BY <4>1 DEF RelationsChecked
        <4> QED
          BY <1>0, <2>5, <3>1, <3>2, <4>1, <4>2, <4>3 DEF LoaderInv, TypeOK, Within, VerdictExact
      <3> QED BY <3>5, <3>6
    <2> QED BY <1>2, <2>3, <2>4, <2>5 DEF CheckInstance
  <1> QED BY <1>1, <1>2

LEMMA EventsStep ==
    ASSUME LoaderInv, CheckEvents
    PROVE  LoaderInv'
  <1> DEFINE L == layout.eventRelations
  <1>0. /\ L \in Seq(RelationEntry) /\ i \in Nat \ {0} /\ section = "events" /\ err = "nil"
        /\ AllInstances /\ Within(L) /\ RelationsChecked(L, KnownEvent, i - 1) /\ TypeOK
    BY LayoutTypes DEF LoaderInv, TypeOK, CheckEvents
  <1>1. CASE L = <<>> /\ EmptySection("queries")
    <2>1. /\ RelationsChecked(layout.eventRelations, KnownEvent, Len(layout.eventRelations))'
          /\ RelationsChecked(layout.queryRelations, KnownQuery, i - 1)'
      BY <1>1 DEF RelationsChecked, EmptySection
    <2> QED
      BY <1>0, <1>1, <2>1
         DEF EmptySection, LoaderInv, TypeOK, AllInstances, InstancesChecked, Within, VerdictExact
  <1>2. CASE L # <<>> /\ CheckRelation(L, KnownEvent, "queries")
    <2>1. i \in 1 .. Len(L) /\ L[i] \in RelationEntry
      BY <1>0, <1>2 DEF Within
    <2>2. Complaint(L[i], KnownEvent) = "nil" <=> GoodRelation(L[i], Names(layout), KnownEvent)
      BY <1>0, <2>1, ComplaintExact
    <2>3. CASE Complaint(L[i], KnownEvent) # "nil" /\ Return(Complaint(L[i], KnownEvent))
      <3>1. ~WellFormed(layout)
        BY <1>0, <2>1, <2>2, <2>3 DEF WellFormed
      <3>2. Complaint(L[i], KnownEvent) \in Errors
        BY <2>3 DEF Complaint, Errors
      <3> QED BY <1>0, <2>3, <3>1, <3>2 DEF Return, LoaderInv, TypeOK, VerdictExact
    <2>4. CASE Complaint(L[i], KnownEvent) = "nil" /\ Advance(L, "queries") /\ UNCHANGED instances
      <3>1. layout' = layout /\ err' = err /\ instances' = instances
        BY <2>4 DEF Advance
      <3>2. AllInstances'
        BY <1>0, <3>1 DEF AllInstances, InstancesChecked
      <3>3. \A k \in 1 .. i: GoodRelation(L[k], Names(layout), KnownEvent)
        BY <1>0, <2>2, <2>4 DEF RelationsChecked
      <3>4. CASE i < Len(L)
        <4>1. section' = section /\ i' = i + 1 /\ i' - 1 = i
          BY <1>0, <2>4, <3>4 DEF Advance
        <4>2. RelationsChecked(layout.eventRelations, KnownEvent, i - 1)'
          BY <3>1, <3>3, <4>1 DEF RelationsChecked
        <4>3. TypeOK' /\ Within(layout.eventRelations)'
          BY <1>0, <3>1, <3>4, <4>1 DEF TypeOK, Within
        <4> QED BY <1>0, <3>1, <3>2, <4>1, <4>2, <4>3 DEF LoaderInv, VerdictExact
      <3>5. CASE ~(i < Len(L))
        <4>1. section' = "queries" /\ i' = 1 /\ i = Len(L)
          BY <2>1, <2>4, <3>5 DEF Advance
        <4>2. /\ RelationsChecked(layout.eventRelations, KnownEvent, Len(layout.eventRelations))'
              /\ RelationsChecked(layout.queryRelations, KnownQuery, i - 1)'
          BY <3>1, <3>3, <4>1 DEF RelationsChecked
        <4> QED
          BY <1>0, <3>1, <3>2, <4>1, <4>2 DEF LoaderInv, TypeOK, Within, VerdictExact
      <3> QED BY <3>4, <3>5
    <2> QED BY <1>2, <2>3, <2>4 DEF CheckRelation
  <1> QED BY <1>1, <1>2 DEF CheckEvents

LEMMA QueriesStep ==
    ASSUME LoaderInv, CheckQueries
    PROVE  LoaderInv'
  <1> DEFINE L == layout.queryRelations
             E == layout.eventRelations
  <1>0. /\ L \in Seq(RelationEntry) /\ i \in Nat \ {0} /\ section = "queries" /\ err = "nil"
        /\ AllInstances /\ Within(L) /\ RelationsChecked(L, KnownQuery, i - 1) /\ TypeOK
        /\ E \in Seq(RelationEntry) /\ RelationsChecked(E, KnownEvent, Len(E))
    BY LayoutTypes DEF LoaderInv, TypeOK, CheckQueries
  <1>1. ASSUME \A k \in DOMAIN L: GoodRelation(L[k], Names(layout), KnownQuery)
        PROVE  WellFormed(layout)
    <2>1. \A k \in DOMAIN E: GoodRelation(E[k], Names(layout), KnownEvent)
      BY <1>0 DEF RelationsChecked
    <2> QED BY <1>0, <1>1, <2>1, NamesKnown DEF WellFormed, AllInstances
  <1>2. CASE L = <<>> /\ EmptySection("done")
    <2>1. WellFormed(layout)
      BY <1>1, <1>2
    <2> QED BY <1>0, <1>2, <2>1 DEF EmptySection, LoaderInv, TypeOK, VerdictExact
  <1>3. CASE L # <<>> /\ CheckRelation(L, KnownQuery, "done")
    <2>1. i \in 1 .. Len(L) /\ L[i] \in RelationEntry
      BY <1>0, <1>3 DEF Within
    <2>2. Complaint(L[i], KnownQuery) = "nil" <=> GoodRelation(L[i], Names(layout), KnownQuery)
      BY <1>0, <2>1, ComplaintExact
    <2>3. CASE Complaint(L[i], KnownQuery) # "nil" /\ Return(Complaint(L[i], KnownQuery))
      <3>1. ~WellFormed(layout)
        BY <1>0, <2>1, <2>2, <2>3 DEF WellFormed
      <3>2. Complaint(L[i], KnownQuery) \in Errors
        BY <2>3 DEF Complaint, Errors
      <3> QED BY <1>0, <2>3, <3>1, <3>2 DEF Return, LoaderInv, TypeOK, VerdictExact
    <2>4. CASE Complaint(L[i], KnownQuery) = "nil" /\ Advance(L, "done") /\ UNCHANGED instances
      <3>1. layout' = layout /\ err' = err /\ instances' = instances
        BY <2>4 DEF Advance
      <3>2. \A k \in 1 .. i: GoodRelation(L[k], Names(layout), KnownQuery)
        BY <1>0, <2>2, <2>4 DEF RelationsChecked
      <3>3. CASE i < Len(L)
        <4>1. section' = section /\ i' = i + 1 /\ i' - 1 = i
          BY <1>0, <2>4, <3>3 DEF Advance
        <4>2. AllInstances'
          BY <1>0, <3>1 DEF AllInstances, InstancesChecked
        <4>3. /\ RelationsChecked(layout.queryRelations, KnownQuery, i - 1)'
              /\ RelationsChecked(layout.eventRelations, KnownEvent, Len(layout.eventRelations))'
          BY <1>0, <3>1, <3>2, <4>1 DEF RelationsChecked
        <4>4. TypeOK' /\ Within(layout.queryRelations)'
          BY <1>0, <3>1, <3>3, <4>1 DEF TypeOK, Within
        <4> QED BY <1>0, <3>1, <4>1, <4>2, <4>3, <4>4 DEF LoaderInv, VerdictExact
      <3>4. CASE ~(i < Len(L))
        <4>1. section' = "done" /\ i' = 1 /\ i = Len(L)
          BY <2>1, <2>4, <3>4 DEF Advance
        <4>2. WellFormed(layout)
          BY <1>0, <1>1, <3>2, <4>1
        <4> QED BY <1>0, <3>1, <4>1, <4>2 DEF LoaderInv, TypeOK, VerdictExact
      <3> QED BY <3>3, <3>4
    <2> QED BY <1>3, <2>3, <2>4 DEF CheckRelation
  <1> QED BY <1>2, <1>3 DEF CheckQueries

(* The loader accepts exactly the well-formed blueprints.                  *)
THEOREM LoaderCorrect == Spec => []LoaderInv
  <1>1. LoaderInv /\ UNCHANGED loaderVars => LoaderInv'
    BY DEF loaderVars, LoaderInv, TypeOK, Within, InstancesChecked, AllInstances,
           RelationsChecked, VerdictExact
  <1>2. LoaderInv /\ [Next]_loaderVars => LoaderInv'
    BY <1>1, InstancesStep, EventsStep, QueriesStep DEF Next
  <1> QED BY <1>2, LoaderInit, PTL DEF Spec

(* The loader accepts exactly the well-formed blueprints, of any length.   *)
THEOREM VerdictCorrect == Spec => []VerdictExact
  <1>1. LoaderInv => VerdictExact
    BY DEF LoaderInv
  <1> QED BY <1>1, LoaderCorrect, PTL

-----------------------------------------------------------------------------
(* The constructor: its outcome is that of the one call made of it.        *)
ConstructorInv ==
    /\ creator \in Creators /\ params \in ParamLists
    /\ creator \notin {Nil, NotAFunc} => results \in Results(creator)
    /\ outcome = "none" \/ outcome = call

LEMMA ConstructorInvariant == ConstructorSpec => []ConstructorInv
  <1>1. ConstructorInit => ConstructorInv
    BY DEF ConstructorInit, ConstructorInv
  <1>2. ConstructorInv /\ [Call]_constructorVars => ConstructorInv'
    <2> SUFFICES ASSUME ConstructorInv, [Call]_constructorVars PROVE ConstructorInv'
      OBVIOUS
    <2>1. /\ UNCHANGED <<creator, params, results>>
          /\ outcome' = outcome \/ outcome' = call
      BY DEF Call, constructorVars
    <2>2. call' = call
      BY <2>1 DEF call, validate, CallPanics, Converted, IsNilInterface, FirstBad, Bad,
                  ResultsAccepted
    <2>3. creator \notin {Nil, NotAFunc} => (results \in Results(creator))'
      BY <2>1 DEF ConstructorInv, Results
    <2> QED BY <2>1, <2>2, <2>3 DEF ConstructorInv
  <1> QED BY <1>1, <1>2, PTL DEF ConstructorSpec

(* What a function given as a creator, and its parameters, are.            *)
LEMMA CreatorTypes ==
    ASSUME ConstructorInv, creator \notin {Nil, NotAFunc}
    PROVE  /\ creator.isNil \in BOOLEAN /\ creator.in \in Seq(Type)
           /\ creator.out \in Seq(ResultType)
           /\ params \in Seq(Type \cup {Nil})
           /\ DOMAIN params = 1..Len(params) /\ DOMAIN creator.in = 1..Len(creator.in)
           /\ DOMAIN creator.out = 1..Len(creator.out) /\ Len(creator.out) \in Nat
           /\ \A k \in DOMAIN creator.out: results[k] \in {"nil", "value"}
  <1>1. creator \in Function
    BY CreatorsAssumption DEF ConstructorInv
  <1>2. creator.isNil \in BOOLEAN /\ creator.in \in Seq(Type) /\ creator.out \in Seq(ResultType)
    BY <1>1 DEF Function
  <1>3. params \in Seq(Type \cup {Nil})
    BY CreatorsAssumption DEF ConstructorInv
  <1>4. results \in [DOMAIN creator.out -> {"nil", "value"}]
    BY DEF ConstructorInv, Results
  <1> QED BY <1>2, <1>3, <1>4, LenProperties

(* A list of parameters equal to those declared, place by place, is them.  *)
LEMMA SameParameters ==
    ASSUME ConstructorInv, creator \notin {Nil, NotAFunc}, Len(creator.in) = Len(params),
           \A k \in DOMAIN params: params[k] = creator.in[k]
    PROVE  params = creator.in
  <1>1. creator.in \in Seq(Type \cup {Nil}) /\ params \in Seq(Type \cup {Nil})
    BY CreatorTypes
  <1>2. \A k \in 1..Len(params): params[k] = creator.in[k]
    BY CreatorTypes
  <1> QED BY <1>1, <1>2, SeqEqual

(* A call that gives a processor has passed every check.                   *)
LEMMA CallIsChecked ==
    ASSUME ConstructorInv, call \in {"processor", "nil processor"}
    PROVE  /\ creator \notin {Nil, NotAFunc}
           /\ Len(creator.in) = Len(params)
           /\ \A k \in DOMAIN params: params[k] = creator.in[k]
           /\ ResultsAccepted(creator)
           /\ Len(creator.out) > 1 => IsNilInterface(2)
  <1>1. validate \in {"error", "panic", "valid"}
    BY DEF validate
  <1>2. validate = "valid" /\ ~ CallPanics /\ Converted \in {"processor", "nil processor"}
    BY <1>1 DEF call
  <1>3. /\ creator \notin {Nil, NotAFunc} /\ Len(creator.in) = Len(params)
        /\ ResultsAccepted(creator)
    BY <1>2 DEF validate
  <1>4. \A k \in DOMAIN params: params[k] = creator.in[k]
    BY <1>2 DEF CallPanics
  <1>5. Len(creator.out) > 1 => IsNilInterface(2)
    BY <1>2 DEF Converted
  <1> QED BY <1>3, <1>4, <1>5

(* Results that are accepted are of the right types.                       *)
LEMMA ResultsChecked ==
    ASSUME ConstructorInv, creator \notin {Nil, NotAFunc}, ResultsAccepted(creator),
           Len(creator.out) > 1 => results[2] = "nil"
    PROVE  /\ Len(creator.out) \in 1..2 /\ "processor" \in creator.out[1].implements
           /\ \A k \in DOMAIN creator.out: k = 2 =>
                 "error" \in creator.out[k].implements /\ results[k] = "nil"
  <1>1. /\ Len(creator.out) \in 1..2 /\ "processor" \in creator.out[1].implements
        /\ Len(creator.out) > 1 => "error" \in creator.out[2].implements
    BY DEF ResultsAccepted
  <1>2. DOMAIN creator.out = 1..Len(creator.out)
    BY CreatorTypes
  <1>3. 2 \in DOMAIN creator.out => Len(creator.out) > 1
    BY <1>1, <1>2
  <1> QED BY <1>1, <1>3

(* A processor is only taken from a function with one or two results, of   *)
(* the right types, called with parameters of its own types.               *)
THEOREM ProcessorsAreChecked == ConstructorSpec => []ProcessorIsChecked
  <1>1. ConstructorInv => ProcessorIsChecked
    <2> SUFFICES ASSUME ConstructorInv, outcome \in {"processor", "nil processor"}
                 PROVE  ProcessorIsChecked
      BY DEF ProcessorIsChecked
    <2>1. call \in {"processor", "nil processor"}
      BY DEF ConstructorInv
    <2>2. creator \notin {Nil, NotAFunc} /\ params = creator.in
      BY <2>1, CallIsChecked, SameParameters
    <2>3. ResultsAccepted(creator) /\ (Len(creator.out) > 1 => results[2] = "nil")
      BY <2>1, CallIsChecked DEF IsNilInterface
    <2>4. /\ Len(creator.out) \in 1..2 /\ "processor" \in creator.out[1].implements
          /\ \A k \in DOMAIN creator.out: k = 2 =>
                "error" \in creator.out[k].implements /\ results[k] = "nil"
      BY <2>2, <2>3, ResultsChecked
    <2> QED BY <2>2, <2>4 DEF ProcessorIsChecked
  <1> QED BY <1>1, ConstructorInvariant, PTL

(* A function of a documented form passes every check, and its call too.   *)
LEMMA DocumentedFormIsValid ==
    ASSUME ConstructorInv, DocumentedForm
    PROVE  validate = "valid" /\ ~ CallPanics
  <1>1. creator \notin {Nil, NotAFunc} /\ params = creator.in /\ ResultsAccepted(creator)
    BY DEF DocumentedForm
  <1>2. \A k \in DOMAIN params: params[k] \in Type
    BY <1>1, CreatorTypes, ElementOfSeq
  <1>3. \A k \in DOMAIN params: params[k] # Nil /\ ~ Bad(k)
    BY <1>1, <1>2, CreatorsAssumption DEF Bad
  <1>4. validate = "valid"
    BY <1>1, <1>3 DEF validate
  <1>5. ~ CallPanics
    BY <1>1 DEF CallPanics, DocumentedForm
  <1> QED BY <1>4, <1>5

(* A function of a documented form makes a processor just when it returns  *)
(* one, and no error; otherwise there is an error.                         *)
THEOREM DocumentedFormsMakeProcessors == ConstructorSpec => []DocumentedFormsWork
  <1>1. ConstructorInv => DocumentedFormsWork
    <2> SUFFICES ASSUME ConstructorInv, DocumentedForm, outcome # "none"
                 PROVE  outcome = IF /\ results[1] = "value"
                                     /\ Len(creator.out) > 1 => results[2] = "nil"
                                  THEN "processor" ELSE "error"
      BY DEF DocumentedFormsWork
    <2>1. outcome = Converted
      BY DocumentedFormIsValid DEF ConstructorInv, call
    <2>2. /\ creator \notin {Nil, NotAFunc} /\ Len(creator.out) \in 1..2
          /\ \A k \in DOMAIN creator.out: creator.out[k].interface
      BY DEF DocumentedForm, ResultsAccepted, Interfaces
    <2>3. /\ DOMAIN creator.out = 1..Len(creator.out)
          /\ \A k \in DOMAIN creator.out: results[k] \in {"nil", "value"}
      BY <2>2, CreatorTypes
    <2>4. IsNilInterface(1) <=> results[1] = "nil"
      BY <2>2, <2>3 DEF IsNilInterface
    <2>5. Len(creator.out) > 1 => (IsNilInterface(2) <=> results[2] = "nil")
      BY <2>2, <2>3 DEF IsNilInterface
    <2>6. results[1] \in {"nil", "value"}
      BY <2>2, <2>3
    <2> QED BY <2>1, <2>4, <2>5, <2>6 DEF Converted
  <1> QED BY <1>1, ConstructorInvariant, PTL
=============================================================================
