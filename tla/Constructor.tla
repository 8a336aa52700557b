---------------------------- MODULE Constructor ----------------------------
(***************************************************************************)
(* pkg/builder/constructor.go: validate and call, which make a processor   *)
(* of any value given as a creator and any values given as its parameters. *)
(*                                                                         *)
(* A type is known by the string reflect gives for it and by itself: two   *)
(* packages of one name may have types of one string.  A parameter is      *)
(* known by its dynamic type.                                              *)
(***************************************************************************)
EXTENDS Naturals, Sequences

CONSTANTS
    Type,       \* types of parameters
    StringOf(_),  \* reflect.Type.String of each
    Nil,        \* nil, as a parameter, a creator or a result
    Creators,   \* values given as creators: Nil, NotAFunc or a function type
    NotAFunc,
    ParamLists  \* lists given as parameters

(* What a result type implements, and whether it is an interface type.     *)
ResultType == [implements: SUBSET {"processor", "error"}, interface: BOOLEAN]

(* A function value, nil or not, by its type.  When it is variadic the     *)
(* last of its parameters is a slice, of any values or of typed ones.      *)
Function == [isNil: BOOLEAN, in: Seq(Type), variadic: {"no", "any", "typed"},
             out: Seq(ResultType)]

ASSUME CreatorsAssumption ==
    /\ Creators \subseteq Function \cup {Nil, NotAFunc}
    /\ Nil # NotAFunc /\ Nil \notin Function /\ NotAFunc \notin Function
    /\ Nil \notin Type
    /\ ParamLists \subseteq Seq(Type \cup {Nil})

VARIABLES
    creator, params,  \* of the constructor
    results,          \* what the creator returns: which of its results are nil
    outcome           \* "none", "processor", "nil processor", "error", "panic"

constructorVars == <<creator, params, results, outcome>>

-----------------------------------------------------------------------------
(* The checks of validate, in its order; each is made only if those before *)
(* it passed, and a list is gone through up to its first bad entry.        *)
Results(c) == [DOMAIN c.out -> {"nil", "value"}]

Bad(k) == params[k] = Nil \/ StringOf(params[k]) # StringOf(creator.in[k])
FirstBad(k) == Bad(k) /\ \A j \in DOMAIN params: j < k => ~ Bad(j)

(* Mutant: a function may return any number of values.                     *)
AnyNumberOfResults(c) ==
    /\ Len(c.out) >= 1
    /\ "processor" \in c.out[1].implements
    /\ Len(c.out) > 1 => "error" \in c.out[2].implements

ResultsAccepted(c) ==
    /\ Len(c.out) \in 1..2
    /\ "processor" \in c.out[1].implements
    /\ Len(c.out) > 1 => "error" \in c.out[2].implements

validate ==
    IF creator = Nil THEN "error"
    ELSE IF creator = NotAFunc THEN "panic"
    ELSE IF Len(creator.in) # Len(params) THEN "error"
    ELSE IF \E k \in DOMAIN params: FirstBad(k) /\ params[k] = Nil THEN "panic"
    ELSE IF \E k \in DOMAIN params: Bad(k) THEN "error"
    ELSE IF ~ ResultsAccepted(creator) THEN "error"
    ELSE "valid"

(* reflect.Value.Call: each parameter has to be assignable, and those of a *)
(* variadic function are wanted one by one; a slice of them is one more    *)
(* value, which is any value but none of a type.                           *)
CallPanics ==
    \/ creator.isNil
    \/ creator.variadic = "typed"
    \/ \E k \in DOMAIN params: params[k] # creator.in[k]

(* Value.Interface of a result: nil only if its type is an interface type. *)
IsNilInterface(k) == results[k] = "nil" /\ creator.out[k].interface

(* Mutant: the error is not looked at.                                     *)
ConvertedProcessor ==
    IF IsNilInterface(1) THEN "error"
    ELSE IF results[1] = "nil" THEN "nil processor" ELSE "processor"

Converted ==
    IF Len(creator.out) > 1 /\ ~ IsNilInterface(2) THEN "error"
    ELSE IF IsNilInterface(1) THEN "error"
    ELSE IF results[1] = "nil" THEN "nil processor" ELSE "processor"

call ==
    IF validate # "valid" THEN validate
    ELSE IF CallPanics THEN "panic" ELSE Converted

-----------------------------------------------------------------------------
ConstructorInit ==
    /\ creator \in Creators
    /\ params \in ParamLists
    /\ results \in IF creator \in {Nil, NotAFunc} THEN {<<>>} ELSE Results(creator)
    /\ outcome = "none"

Call ==
    /\ outcome = "none"
    /\ outcome' = call
    /\ UNCHANGED <<creator, params, results>>

ConstructorSpec == ConstructorInit /\ [][Call]_constructorVars

-----------------------------------------------------------------------------
Interfaces == \A k \in DOMAIN creator.out: creator.out[k].interface

(* The forms validate lists (constructor.go:64-75), with the parameters    *)
(* they declare.                                                           *)
DocumentedForm ==
    /\ creator \notin {Nil, NotAFunc} /\ ~ creator.isNil /\ creator.variadic = "no"
    /\ params = creator.in
    /\ ResultsAccepted(creator) /\ Interfaces

(* A function of a documented form makes a processor just when it returns  *)
(* one, and no error; otherwise there is an error.                         *)
DocumentedFormsWork ==
    DocumentedForm /\ outcome # "none" =>
        outcome = IF results[1] = "value" /\ (Len(creator.out) > 1 => results[2] = "nil")
                  THEN "processor" ELSE "error"

(* A processor is only taken from a function with one or two results, of   *)
(* the right types, called with parameters of its own types; what else was *)
(* given, a missing parameter or one too many among it, gives none.        *)
ProcessorIsChecked ==
    outcome \in {"processor", "nil processor"} =>
        /\ creator \notin {Nil, NotAFunc}
        /\ params = creator.in
        /\ Len(creator.out) \in 1..2
        /\ "processor" \in creator.out[1].implements
        /\ \A k \in DOMAIN creator.out: k = 2 =>
              "error" \in creator.out[k].implements /\ results[k] = "nil"

-----------------------------------------------------------------------------
(* What constructor.go:24 says of call: "Return nil Processor and an error *)
(* if creator failed on validation or the actual call failed."             *)
FailureIsAnError == outcome # "panic"

(* What constructor_test.go:104 says: a "constructor should fail due to    *)
(* returning nil processor".                                               *)
NilProcessorIsAnError == outcome # "nil processor"
=============================================================================
