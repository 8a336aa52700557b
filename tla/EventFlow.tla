------------------------------ MODULE EventFlow ------------------------------
(***************************************************************************)
(* What the event path of pkg/processor promises, without goroutines or    *)
(* channels: every instance owns a list of events and a cursor in it; the  *)
(* event under the cursor either has no sink and is skipped, or moves, in  *)
(* one step, to the end of the log of the instance it is wired to.  Once   *)
(* an instance has moved its cursor its list and its wiring are fixed.     *)
(* Nothing says that a cursor ever moves: a stopped instance keeps its     *)
(* remaining events.                                                       *)
(***************************************************************************)
EXTENDS Naturals, Sequences

CONSTANTS Instance, EventType, None,
          List    \* the event lists an instance can be created with

VARIABLES
    events,    \* the events each instance has to send, by type
    sinks,     \* where each of its event types goes
    cursor,    \* its next event
    log        \* the events it has been handed, as sender and place

vars == <<events, sinks, cursor, log>>

Init ==
    /\ events = [p \in Instance |-> <<>>]
    /\ sinks = [p \in Instance |-> [t \in EventType |-> None]]
    /\ cursor = [p \in Instance |-> 1]
    /\ log = [p \in Instance |-> <<>>]

Create(p, s) ==
    /\ events[p] = <<>>
    /\ events' = [events EXCEPT ![p] = s]
    /\ UNCHANGED <<sinks, cursor, log>>

Connect(p, t, d) ==
    /\ cursor[p] = 1
    /\ sinks[p][t] = None
    /\ sinks' = [sinks EXCEPT ![p][t] = d]
    /\ UNCHANGED <<events, cursor, log>>

NextType(p) == events[p][cursor[p]]

Skip(p) ==
    /\ cursor[p] <= Len(events[p])
    /\ sinks[p][NextType(p)] = None
    /\ cursor' = [cursor EXCEPT ![p] = @ + 1]
    /\ UNCHANGED <<events, sinks, log>>

Transfer(p, d) ==
    /\ cursor[p] <= Len(events[p])
    /\ sinks[p][NextType(p)] = d
    /\ cursor' = [cursor EXCEPT ![p] = @ + 1]
    /\ log' = [log EXCEPT ![d] = Append(@, [src |-> p, n |-> cursor[p]])]
    /\ UNCHANGED <<events, sinks>>

Next ==
    \E p \in Instance:
        \/ \E s \in List: Create(p, s)
        \/ \E t \in EventType, d \in Instance: Connect(p, t, d)
        \/ Skip(p)
        \/ \E d \in Instance: Transfer(p, d)

Spec == Init /\ [][Next]_vars
=============================================================================
