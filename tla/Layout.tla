------------------------------- MODULE Layout -------------------------------
(***************************************************************************)
(* Blueprints as the YAML reader hands them over: three lists of string    *)
(* maps.  A string is a member of Word; Empty is the empty string; a key   *)
(* that is missing from a map has the value Absent.                        *)
(***************************************************************************)
EXTENDS Naturals, Sequences

CONSTANTS
    Word,          \* strings that may appear as values, Empty included
    Empty, Absent,
    KnownEvent,    \* keys of proto.EventType_value
    KnownQuery     \* keys of proto.QueryType_value

ASSUME WordAssumption ==
    /\ Empty \in Word /\ Absent \notin Word
    /\ KnownEvent \subseteq Word \ {Empty}
    /\ KnownQuery \subseteq Word \ {Empty}

Value == Word \cup {Absent}

InstanceEntry == [name: Value, type: Value]
RelationEntry == [source: Value, destination: Value, type: Value]

LayoutSet == [ localInstances: Seq(InstanceEntry),
               eventRelations: Seq(RelationEntry),
               queryRelations: Seq(RelationEntry) ]

\* checkKeys, for one key.
Present(v) == v \notin {Absent, Empty}

InstanceKeys(e) == Present(e.name) /\ Present(e.type)

RelationKeys(r) == Present(r.source) /\ Present(r.destination) /\ Present(r.type)

-----------------------------------------------------------------------------
(* What a usable blueprint is, independently of how it is validated.       *)

Names(b) == {b.localInstances[i].name : i \in DOMAIN b.localInstances}

DistinctNames(b) ==
    \A i, j \in DOMAIN b.localInstances:
        i # j => b.localInstances[i].name # b.localInstances[j].name

GoodRelation(r, names, known) ==
    r.source \in names /\ r.destination \in names /\ r.type \in known

WellFormed(b) ==
    /\ b.localInstances # <<>>
    /\ \A i \in DOMAIN b.localInstances: InstanceKeys(b.localInstances[i])
    /\ DistinctNames(b)
    /\ \A i \in DOMAIN b.eventRelations:
           GoodRelation(b.eventRelations[i], Names(b), KnownEvent)
    /\ \A i \in DOMAIN b.queryRelations:
           GoodRelation(b.queryRelations[i], Names(b), KnownQuery)
=============================================================================
