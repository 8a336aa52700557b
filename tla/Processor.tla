------------------------------ MODULE Processor ------------------------------
(***************************************************************************)
(* The goroutines of pkg/processor: TestProcessor and TestService, the     *)
(* tap and the sink between them, and the two unbuffered channels (events  *)
(* and stop) each of them owns.                                            *)
(*                                                                         *)
(* Every instance runs one loop,                                           *)
(*                                                                         *)
(*     select { <-events | <-stop | <-ticker.C | default }                 *)
(*                                                                         *)
(* whose default branch pops one query and one event and hands them to the *)
(* sink wired for their type.  A query runs on the caller's goroutine and  *)
(* touches nothing of the callee.  An event is a rendezvous: the sender is *)
(* blocked inside its own default branch until the receiver's select takes *)
(* the event, so a blocked sender neither receives, nor stops, nor ticks.  *)
(*                                                                         *)
(* Abstractions: an event is named by its sender and its place in the      *)
(* sender's SendEvents list, and so is a query; the ticker branch only     *)
(* refreshes the liveness timestamp and is left out; every instance has a  *)
(* params object of its own and Run is called at most once on it, which is *)
(* how the builder and its tests use them.                                 *)
(***************************************************************************)
EXTENDS Naturals, Sequences

CONSTANTS
    Instance,    \* identities of Processors and Services
    EventType,   \* proto.EventType
    QueryType,   \* proto.QueryType
    Params,      \* the params objects constructors are given, with their kind
    None         \* absent map entry

ASSUME ParamsAssumption ==
    Params \subseteq [ kind: {"processor", "service"},
                       interval: Nat,
                       sendEvents: Seq(EventType),
                       sendQueries: Seq(QueryType) ]

ASSUME NoneAssumption == None \notin Params /\ None \notin Instance

VARIABLES
    made,          \* params of each created instance, None before creation
    eventSinks,    \* eventSinks map: the instance behind the sink of a type
    querySinks,    \* querySinks map
    pc,            \* where the goroutine of each instance is
    sendEvents,    \* window of params.SendEvents not yet popped
    sendQueries,   \* window of params.SendQueries not yet popped
    processed,     \* params.ProcessedEvents
    queryResults,  \* params.QueryResults, each by its query's place
    ready,         \* isReady
    stopCaller,    \* is a Shutdown caller blocked on the stop channel?
    panicked       \* a goroutine panicked: the process is gone

wiring == <<made, eventSinks, querySinks>>
lists  == <<sendEvents, sendQueries, queryResults>>
vars   == <<made, eventSinks, querySinks, pc, sendEvents, sendQueries,
            processed, queryResults, ready, stopCaller, panicked>>

-----------------------------------------------------------------------------
(* A Go slice that is only ever re-sliced is a window on its array.        *)

Window == [lo: Nat \ {0}, hi: Nat]

\* Mutant: a fresh list is re-sliced from one before its first entry.
WholeFromZero(s) == [lo |-> 0, hi |-> Len(s)]

Whole(s) == [lo |-> 1, hi |-> Len(s)]

IsEmpty(w) == w.lo > w.hi

PopBoth(w) == [lo |-> w.lo + 1, hi |-> w.hi - 1]

\* TestProcessor re-slices [1:]; TestService re-slices [1:len-1].
Pop(p, w) ==
    IF made[p].kind = "processor" THEN [w EXCEPT !.lo = @ + 1] ELSE PopBoth(w)

\* [1:0] is out of range: popping the only element of a TestService panics.
PopPanics(p, w) == made[p].kind = "service" /\ w.lo = w.hi

(* The states of a goroutine.  "sending": sendNextEvent popped an event    *)
(* and is about to push it; "parked": blocked on the receiver's channel;   *)
(* "returning": the stop value was received, the deferred calls are next.  *)

PC == {"new", "launched", "select", "sending", "parked", "returning", "exited"}

InFlight(p) == pc[p] \in {"sending", "parked"}

\* The place of the event sendNextEvent holds.
Current(p) == sendEvents[p].lo - 1

\* Whose events channel the n-th event of p is for: Sink -> Tap -> PushEvent.
\* Mutant: the sink of the first event of the list serves all of them.
AddresseeOfFirst(p, n) == eventSinks[p][made[p].sendEvents[1]]

Addressee(p, n) == eventSinks[p][made[p].sendEvents[n]]

Target(p) == Addressee(p, Current(p))

BlockedOn(o, p) == pc[o] = "parked" /\ Target(o) = p

Event == [src: Instance, n: Nat \ {0}]

\* A query sink answers when the tap behind it has a query handler.
Answered(p, n) ==
    LET d == querySinks[p][made[p].sendQueries[n]]
    IN  d # None /\ made[d].kind = "service"

-----------------------------------------------------------------------------
Init ==
    /\ made = [p \in Instance |-> None]
    /\ eventSinks = [p \in Instance |-> [t \in EventType |-> None]]
    /\ querySinks = [p \in Instance |-> [t \in QueryType |-> None]]
    /\ pc = [p \in Instance |-> "new"]
    /\ sendEvents = [p \in Instance |-> Whole(<<>>)]
    /\ sendQueries = [p \in Instance |-> Whole(<<>>)]
    /\ processed = [p \in Instance |-> <<>>]
    /\ queryResults = [p \in Instance |-> <<>>]
    /\ ready = [p \in Instance |-> FALSE]
    /\ stopCaller = [p \in Instance |-> FALSE]
    /\ panicked = FALSE

(* NewTestProcessor(params) and NewTestService(params).                    *)
New(p, a) ==
    /\ ~panicked
    /\ made[p] = None
    /\ made' = [made EXCEPT ![p] = a]
    /\ sendEvents' = [sendEvents EXCEPT ![p] = Whole(a.sendEvents)]
    /\ sendQueries' = [sendQueries EXCEPT ![p] = Whole(a.sendQueries)]
    /\ UNCHANGED <<eventSinks, querySinks, pc, processed, queryResults,
                   ready, stopCaller, panicked>>

(* Sinks are added during bootstrap only; a taken entry is an error that   *)
(* changes nothing.                                                        *)
AddEventSink(p, t, d) ==
    /\ ~panicked
    /\ made[p] # None /\ made[d] # None /\ pc[p] = "new"
    /\ eventSinks[p][t] = None
    /\ eventSinks' = [eventSinks EXCEPT ![p][t] = d]
    /\ UNCHANGED <<made, querySinks, pc, lists, processed, ready, stopCaller,
                   panicked>>

AddQuerySink(p, t, d) ==
    /\ ~panicked
    /\ made[p] # None /\ made[d] # None /\ pc[p] = "new"
    /\ querySinks[p][t] = None
    /\ querySinks' = [querySinks EXCEPT ![p][t] = d]
    /\ UNCHANGED <<made, eventSinks, pc, lists, processed, ready, stopCaller,
                   panicked>>

\* A zero liveness interval makes Run return an error and start nothing.
RunFails(p) == made[p].interval = 0

(* Run: the go statement; the goroutine itself starts at Start.            *)
Run(p) ==
    /\ ~panicked
    /\ made[p] # None /\ pc[p] = "new" /\ ~RunFails(p)
    /\ pc' = [pc EXCEPT ![p] = "launched"]
    /\ UNCHANGED <<wiring, lists, processed, ready, stopCaller, panicked>>

Start(p) ==
    /\ ~panicked
    /\ pc[p] = "launched"
    /\ pc' = [pc EXCEPT ![p] = "select"]
    /\ ready' = [ready EXCEPT ![p] = TRUE]
    /\ UNCHANGED <<wiring, lists, processed, stopCaller, panicked>>

(* The default branch, taken only when no channel is ready: runNextQuery,  *)
(* then the popping half of sendNextEvent.  A type without a sink is       *)
(* dropped.                                                                *)
NothingReady(p) == ~stopCaller[p] /\ \A o \in Instance: ~BlockedOn(o, p)

\* Mutant: a tap without a query handler answers too.
AnswerOfAnySink(p, n) ==
    IF querySinks[p][made[p].sendQueries[n]] # None THEN Append(queryResults[p], n) ELSE queryResults[p]

Answer(p, n) == IF Answered(p, n) THEN Append(queryResults[p], n) ELSE queryResults[p]

RunNextQuery(p) ==
    \/ /\ IsEmpty(sendQueries[p])
       /\ UNCHANGED <<sendQueries, queryResults>>
    \/ /\ ~IsEmpty(sendQueries[p])
       /\ ~PopPanics(p, sendQueries[p])
       /\ sendQueries' = [sendQueries EXCEPT ![p] = Pop(p, @)]
       /\ queryResults' = [queryResults EXCEPT ![p] = Answer(p, sendQueries[p].lo)]

\* Where the goroutine is after popping its n-th event.
\* Mutant: a non-blocking send, which drops what a busy receiver cannot take.
AfterPopNonBlocking(p, n) ==
    IF Addressee(p, n) # None /\ pc[Addressee(p, n)] = "select" THEN "sending" ELSE "select"

AfterPop(p, n) == IF Addressee(p, n) # None THEN "sending" ELSE "select"

SendNextEvent(p) ==
    \/ /\ IsEmpty(sendEvents[p])
       /\ UNCHANGED <<sendEvents, pc>>
    \/ /\ ~IsEmpty(sendEvents[p])
       /\ ~PopPanics(p, sendEvents[p])
       /\ sendEvents' = [sendEvents EXCEPT ![p] = Pop(p, @)]
       /\ pc' = [pc EXCEPT ![p] = AfterPop(p, sendEvents[p].lo)]

Default(p) ==
    /\ ~panicked
    /\ pc[p] = "select" /\ NothingReady(p)
    /\ RunNextQuery(p)
    /\ SendNextEvent(p)
    /\ UNCHANGED <<wiring, processed, ready, stopCaller, panicked>>

(* The same branch when a pop slices out of range.  Nobody recovers, so    *)
(* the process dies and the rest of the state no longer matters.           *)
Panic(p) ==
    /\ ~panicked
    /\ pc[p] = "select" /\ NothingReady(p)
    /\ PopPanics(p, sendQueries[p]) \/ PopPanics(p, sendEvents[p])
    /\ panicked' = TRUE
    /\ UNCHANGED <<wiring, lists, pc, processed, ready, stopCaller>>

(* The other half of sendNextEvent: the send statement blocks, until the   *)
(* receiver takes the event.                                               *)
Park(p) ==
    /\ ~panicked
    /\ pc[p] = "sending"
    /\ pc' = [pc EXCEPT ![p] = "parked"]
    /\ UNCHANGED <<wiring, lists, processed, ready, stopCaller, panicked>>

\* ProcessedEvents after one more event.
\* Mutant: the newest event is put first.
RecordFirst(s, e) == <<e>> \o s

Record(s, e) == Append(s, e)

(* Mutant: the sender is not released, and the event is taken again.       *)
ReceiveAgain(p, o) ==
    /\ ~panicked
    /\ pc[p] = "select" /\ BlockedOn(o, p)
    /\ processed' = [processed EXCEPT ![p] = Record(@, [src |-> o, n |-> Current(o)])]
    /\ UNCHANGED <<wiring, lists, pc, ready, stopCaller, panicked>>

(* Mutant: a goroutine that is returning still drains its channel.         *)
ReceiveWhileReturning(p, o) ==
    /\ ~panicked
    /\ pc[p] \in {"select", "returning"} /\ BlockedOn(o, p)
    /\ processed' = [processed EXCEPT ![p] = Record(@, [src |-> o, n |-> Current(o)])]
    /\ pc' = [pc EXCEPT ![o] = "select"]
    /\ UNCHANGED <<wiring, lists, ready, stopCaller, panicked>>

(* case event := <-events, receiving from the parked sender o.             *)
Receive(p, o) ==
    /\ ~panicked
    /\ pc[p] = "select" /\ BlockedOn(o, p)
    /\ processed' = [processed EXCEPT ![p] = Record(@, [src |-> o, n |-> Current(o)])]
    /\ pc' = [pc EXCEPT ![o] = "select"]
    /\ UNCHANGED <<wiring, lists, ready, stopCaller, panicked>>

(* Shutdown blocks its caller on the stop channel, whatever the state of   *)
(* the goroutine; it returns when TakeStop receives the value.             *)
Shutdown(p) ==
    /\ ~panicked
    /\ made[p] # None /\ ~stopCaller[p]
    /\ stopCaller' = [stopCaller EXCEPT ![p] = TRUE]
    /\ UNCHANGED <<wiring, lists, pc, processed, ready, panicked>>

TakeStop(p) ==
    /\ ~panicked
    /\ pc[p] = "select" /\ stopCaller[p]
    /\ stopCaller' = [stopCaller EXCEPT ![p] = FALSE]
    /\ pc' = [pc EXCEPT ![p] = "returning"]
    /\ UNCHANGED <<wiring, lists, processed, ready, panicked>>

(* The deferred setReadiness(false), after Shutdown may have returned.     *)
Exit(p) ==
    /\ ~panicked
    /\ pc[p] = "returning"
    /\ pc' = [pc EXCEPT ![p] = "exited"]
    /\ ready' = [ready EXCEPT ![p] = FALSE]
    /\ UNCHANGED <<wiring, lists, processed, stopCaller, panicked>>

\* A step of p's goroutine.
Loop(p) ==
    \/ Start(p) \/ Default(p) \/ Panic(p) \/ Park(p) \/ TakeStop(p) \/ Exit(p)
    \/ \E o \in Instance: Receive(p, o)

\* A call made on p from outside its goroutine.
Call(p) ==
    \/ \E a \in Params: New(p, a)
    \/ \E t \in EventType, d \in Instance: AddEventSink(p, t, d)
    \/ \E t \in QueryType, d \in Instance: AddQuerySink(p, t, d)
    \/ Run(p) \/ Shutdown(p)

Next == \E p \in Instance: Call(p) \/ Loop(p)

Spec == Init /\ [][Next]_vars

-----------------------------------------------------------------------------
(* Types, and the little more that makes every expression above defined:   *)
(* only created instances are wired or run, and a held event has a sink.   *)
TypeOK ==
    /\ made \in [Instance -> Params \cup {None}]
    /\ eventSinks \in [Instance -> [EventType -> Instance \cup {None}]]
    /\ querySinks \in [Instance -> [QueryType -> Instance \cup {None}]]
    /\ pc \in [Instance -> PC]
    /\ sendEvents \in [Instance -> Window]
    /\ sendQueries \in [Instance -> Window]
    /\ processed \in [Instance -> Seq(Event)]
    /\ queryResults \in [Instance -> Seq(Nat \ {0})]
    /\ ready \in [Instance -> BOOLEAN]
    /\ stopCaller \in [Instance -> BOOLEAN]
    /\ panicked \in BOOLEAN

(* Events of one sender are processed by their receiver in list order and  *)
(* none of them twice, however many senders interleave on the channel.     *)
InOrder ==
    \A d \in Instance: \A i, j \in DOMAIN processed[d]:
        i < j /\ processed[d][i].src = processed[d][j].src
            => processed[d][i].n < processed[d][j].n

(* Whatever a receiver processed was popped by its sender, was addressed   *)
(* to that receiver, and is no longer held by the sender.                  *)
HandedOver(s, n, d) ==
    /\ n < sendEvents[s].lo
    /\ Addressee(s, n) = d
    /\ InFlight(s) => n < Current(s)

OnlySent ==
    \A d \in Instance: \A i \in DOMAIN processed[d]:
        HandedOver(processed[d][i].src, processed[d][i].n, d)

(* An event with a sink is never lost once popped: it was processed by its *)
(* addressee or its sender still holds it, even if receivers stop first.   *)
NothingLost ==
    \A p \in Instance: \A n \in 1 .. sendEvents[p].lo - 1:
        LET d == Addressee(p, n)
        IN  \/ d = None
            \/ InFlight(p) /\ n = Current(p)
            \/ [src |-> p, n |-> n] \in {processed[d][i] : i \in DOMAIN processed[d]}

(* QueryResults holds the answer to every query popped so far that has a   *)
(* service behind its sink, in the order of the list, and nothing else.    *)
ResultsOf(p) ==
    /\ \A i, j \in DOMAIN queryResults[p]: i < j => queryResults[p][i] < queryResults[p][j]
    /\ {queryResults[p][i] : i \in DOMAIN queryResults[p]} =
           {n \in 1 .. sendQueries[p].lo - 1 : Answered(p, n)}

ResultsMatchQueries == \A p \in Instance: ResultsOf(p)

(* Once a Shutdown call has returned, its processor handles, sends and     *)
(* asks nothing more, whoever is still blocked on it.                      *)
QuietAfterStop ==
    [][\A p \in Instance: pc[p] \in {"returning", "exited"} =>
          /\ pc'[p] \in {"returning", "exited"}
          /\ processed'[p] = processed[p]
          /\ sendEvents'[p] = sendEvents[p]
          /\ sendQueries'[p] = sendQueries[p]
          /\ queryResults'[p] = queryResults[p]]_vars

(* SendEvents shrinks by popping only: no entry leaves the list unsent.    *)
ListsOnlyPopped ==
    \A p \in Instance: made[p] # None =>
        /\ sendEvents[p].hi = Len(made[p].sendEvents)
        /\ sendQueries[p].hi = Len(made[p].sendQueries)

-----------------------------------------------------------------------------
(* The goroutines implement EventFlow: an event a sender has popped but    *)
(* not handed over is still under its cursor, and is moved by Receive.     *)
EventsOf(p) == IF made[p] = None THEN <<>> ELSE made[p].sendEvents

Cursor(p) == IF InFlight(p) THEN Current(p) ELSE sendEvents[p].lo

Flow == INSTANCE EventFlow WITH
            List   <- {a.sendEvents : a \in Params},
            events <- [p \in Instance |-> EventsOf(p)],
            sinks  <- eventSinks,
            cursor <- [p \in Instance |-> Cursor(p)],
            log    <- processed

(* Seen from outside, an event leaves its sender and reaches its receiver  *)
(* at one instant, whatever happens between the pop and the hand-over: no  *)
(* state of the channel, of a stop or of a panic shows in between.         *)
ImplementsEventFlow == Flow!Spec
=============================================================================
