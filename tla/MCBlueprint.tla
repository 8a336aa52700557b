---------------------------- MODULE MCBlueprint ----------------------------
(* The two judges of what a builder is given: the loader of blueprints and *)
(* the constructor of processors.  A behaviour of BuilderInputs is one of  *)
(* either; the other then has nothing to do.                               *)
EXTENDS Blueprint, Constructor

CONSTANTS a, b, ufo, T, ev, qu, empty, absent, int, t1, t2, ints, anys

-----------------------------------------------------------------------------
(* Up to two instances, two event relations and one query relation, with   *)
(* missing keys, empty values, unknown names and unknown types.            *)

MCWord == {a, b, ufo, T, ev, qu, empty}

Upto(n, S) == UNION {[1 .. k -> S] : k \in 0 .. n}

SomeInstances ==
    [name: {a, b, absent}, type: {T}] \cup [name: {a, empty}, type: {T, empty}]

SomeRelations(t) ==
    [source: {a, b, ufo}, destination: {a, b}, type: {t}]
    \cup [source: {a, absent}, destination: {a, ufo}, type: {t, ufo, empty}]

MCLayouts ==
    [ localInstances: Upto(2, SomeInstances),
      eventRelations: Upto(1, SomeRelations(ev)) \cup [1 .. 2 -> [source: {a, b}, destination: {a, b}, type: {ev, qu}]],
      queryRelations: Upto(1, SomeRelations(qu)) ]

-----------------------------------------------------------------------------
(* int, two types "p.T" of different packages, []int and []interface{};    *)
(* functions of up to two parameters and three results, and the results a  *)
(* Go program would declare.                                               *)
MCString(t) == CASE t = int -> "int" [] t = ints -> "[]int"
                 [] t = anys -> "[]interface {}" [] OTHER -> "p.T"

Out(types, isInterface) == [implements |-> types, interface |-> isInterface]

ProcessorInterface == Out({"processor"}, TRUE)
TestProcessorPointer == Out({"processor"}, FALSE)
ErrorInterface == Out({"error"}, TRUE)
ErrorPointer == Out({"error"}, FALSE)
Int == Out({}, FALSE)
Any == Out({}, TRUE)

First == {ProcessorInterface, TestProcessorPointer, Int, ErrorInterface}
Second == {ErrorInterface, ErrorPointer, Int, Any, ProcessorInterface}

Outs == {<<>>} \cup {<<o>> : o \in First} \cup (First \X Second)
        \cup {<<ProcessorInterface, ErrorInterface, ErrorInterface>>}

Ins == {<<>>, <<int>>, <<t1>>, <<ints>>, <<int, t1>>}

Functions(ins, variadic) ==
    [isNil: BOOLEAN, in: ins, variadic: {variadic}, out: Outs]

MCCreators ==
    {Nil, NotAFunc} \cup Functions(Ins, "no")
    \cup Functions({<<ints>>, <<int, ints>>}, "typed") \cup Functions({<<anys>>}, "any")

MCParamLists == {<<>>} \cup {<<p>> : p \in Type \cup {Nil}}
                \cup ({int, t1, t2, Nil} \X {int, t1, t2, ints, Nil})

-----------------------------------------------------------------------------
NoLayout == CHOOSE l \in Layouts: l.localInstances = <<>>

BuilderInputs ==
    /\ \/ Init /\ creator = Nil /\ params = <<>> /\ results = <<>> /\ outcome = "error"
       \/ /\ layout = NoLayout /\ section = "done" /\ i = 1 /\ instances = {}
          /\ err = "missing instances"
          /\ ConstructorInit
    /\ [][ \/ Next /\ UNCHANGED constructorVars
           \/ Call /\ UNCHANGED loaderVars ]_<<loaderVars, constructorVars>>
=============================================================================
