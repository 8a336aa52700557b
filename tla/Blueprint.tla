------------------------------ MODULE Blueprint ------------------------------
(***************************************************************************)
(* blueprintLoader.validate: one pass over the three sections of a layout, *)
(* with the set of instance names met so far, stopping at the first error. *)
(* Reading the file and unmarshalling the YAML are not modelled: the       *)
(* layout is the unmarshalled map, a missing section an empty list.        *)
(***************************************************************************)
EXTENDS Layout

CONSTANT Layouts    \* the layouts that may be loaded

ASSUME LayoutsAssumption == Layouts \subseteq LayoutSet

VARIABLES
    layout,      \* what load unmarshalled
    section,     \* the section being checked, "done" once validate returned
    i,           \* the entry of it
    instances,   \* names met so far
    err          \* what validate returned, "nil" if nothing

loaderVars == <<layout, section, i, instances, err>>

Errors == {"missing instances", "keys", "duplicate", "source", "destination", "type"}

Init ==
    /\ layout \in Layouts
    /\ section = "instances" /\ i = 1
    /\ instances = {}
    /\ err = "nil"

Return(e) ==
    /\ section' = "done" /\ err' = e
    /\ UNCHANGED <<layout, i, instances>>

\* On to the next entry, or to section s after the last one.
Advance(list, s) ==
    /\ IF i < Len(list) THEN section' = section /\ i' = i + 1
                        ELSE section' = s /\ i' = 1
    /\ UNCHANGED <<layout, err>>

NoInstances ==
    /\ section = "instances" /\ layout.localInstances = <<>>
    /\ Return("missing instances")

instanceExists(n) == n \in instances

CheckInstance ==
    /\ section = "instances" /\ layout.localInstances # <<>>
    /\ LET e == layout.localInstances[i] IN
       \/ ~InstanceKeys(e) /\ Return("keys")
       \/ InstanceKeys(e) /\ instanceExists(e.name) /\ Return("duplicate")
       \/ /\ InstanceKeys(e) /\ ~instanceExists(e.name)
          /\ instances' = instances \cup {e.name}
          /\ Advance(layout.localInstances, "events")

\* Mutant: the destination is not looked up.
ComplaintOfSource(r, known) ==
    IF ~RelationKeys(r) THEN "keys"
    ELSE IF ~instanceExists(r.source) THEN "source"
    ELSE IF r.type \notin known THEN "type"
    ELSE "nil"

\* What the checks of one relation return.
Complaint(r, known) ==
    IF ~RelationKeys(r) THEN "keys"
    ELSE IF ~instanceExists(r.source) THEN "source"
    ELSE IF ~instanceExists(r.destination) THEN "destination"
    ELSE IF r.type \notin known THEN "type"
    ELSE "nil"

CheckRelation(list, known, s) ==
    LET c == Complaint(list[i], known) IN
    \/ c # "nil" /\ Return(c)
    \/ c = "nil" /\ Advance(list, s) /\ UNCHANGED instances

EmptySection(s) ==
    /\ section' = s /\ i' = 1
    /\ UNCHANGED <<layout, instances, err>>

CheckEvents ==
    /\ section = "events"
    /\ \/ layout.eventRelations = <<>> /\ EmptySection("queries")
       \/ layout.eventRelations # <<>> /\ CheckRelation(layout.eventRelations, KnownEvent, "queries")

CheckQueries ==
    /\ section = "queries"
    /\ \/ layout.queryRelations = <<>> /\ EmptySection("done")
       \/ layout.queryRelations # <<>> /\ CheckRelation(layout.queryRelations, KnownQuery, "done")

Next == NoInstances \/ CheckInstance \/ CheckEvents \/ CheckQueries

Spec == Init /\ [][Next]_loaderVars

-----------------------------------------------------------------------------
TypeOK ==
    /\ layout \in LayoutSet
    /\ section \in {"instances", "events", "queries", "done"}
    /\ i \in Nat \ {0}
    /\ instances \subseteq Word
    /\ err \in Errors \cup {"nil"}

(* The loader accepts exactly the well-formed blueprints: what it has seen *)
(* so far always suffices to judge the entry at hand, because instances    *)
(* are checked before the relations that name them.  It promises nothing   *)
(* about cycles, about two relations of one source and type, or about the  *)
(* kind of a query's destination: the last two are left to the builder.    *)
VerdictExact == section = "done" => (err = "nil" <=> WellFormed(layout))
=============================================================================
