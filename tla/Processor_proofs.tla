-------------------------- MODULE Processor_proofs --------------------------
(***************************************************************************)
(* Proofs about the goroutines of Processor, for every set of instances,   *)
(* every params object and every wiring.                                   *)
(***************************************************************************)
EXTENDS Processor, TLAPS

(* The window of a list lies within it.                                    *)
Fits(w, s) == w.lo <= w.hi + 1 /\ w.hi <= Len(s)

(* What TypeOK needs to be inductive: nothing runs, waits or is wired      *)
(* before it is created, nothing is popped before it is run, and an        *)
(* instance that holds an event has popped one that has a sink.            *)
Bounds ==
    /\ \A p \in Instance: made[p] # None =>
           /\ Fits(sendEvents[p], made[p].sendEvents)
           /\ Fits(sendQueries[p], made[p].sendQueries)
    /\ \A p \in Instance: pc[p] # "new" => made[p] # None
    /\ \A p \in Instance: pc[p] \in {"new", "launched"} =>
           sendEvents[p].lo = 1 /\ sendQueries[p].lo = 1
    /\ \A p \in Instance: \A t \in EventType:
           eventSinks[p][t] # None => made[eventSinks[p][t]] # None
    /\ \A p \in Instance: \A t \in QueryType:
           querySinks[p][t] # None => made[querySinks[p][t]] # None
    /\ \A p \in Instance: InFlight(p) => sendEvents[p].lo > 1 /\ Target(p) # None

TypeInv == TypeOK /\ Bounds

-----------------------------------------------------------------------------
(* Popping a non-empty window that does not panic leaves a window of the   *)
(* same list, one entry further.                                           *)
LEMMA PopWindow ==
    ASSUME NEW p, NEW w \in Window, NEW s, Len(s) \in Nat,
           made[p].kind \in {"processor", "service"},
           ~IsEmpty(w), ~PopPanics(p, w), Fits(w, s)
    PROVE  /\ Pop(p, w) \in Window
           /\ Pop(p, w).lo = w.lo + 1
           /\ Fits(Pop(p, w), s)
  BY DEF Window, IsEmpty, PopPanics, Fits, Pop, PopBoth

LEMMA TypeInit == Init => TypeInv
  <1> SUFFICES ASSUME Init PROVE TypeInv
    OBVIOUS
  <1>1. Whole(<<>>) \in Window
    BY DEF Whole, Window
  <1>2. TypeOK
    <2>1. processed \in [Instance -> Seq(Event)] /\ queryResults \in [Instance -> Seq(Nat \ {0})]
      BY DEF Init
    <2>2. pc \in [Instance -> PC]
      BY DEF Init, PC
    <2>3. sendEvents \in [Instance -> Window] /\ sendQueries \in [Instance -> Window]
      BY <1>1 DEF Init
    <2>4. /\ made \in [Instance -> Params \cup {None}]
          /\ eventSinks \in [Instance -> [EventType -> Instance \cup {None}]]
          /\ querySinks \in [Instance -> [QueryType -> Instance \cup {None}]]
      BY DEF Init
    <2>5. ready \in [Instance -> BOOLEAN] /\ stopCaller \in [Instance -> BOOLEAN] /\ panicked \in BOOLEAN
      BY DEF Init
    <2> QED BY <2>1, <2>2, <2>3, <2>4, <2>5 DEF TypeOK
  <1>3. Bounds
    BY DEF Init, Bounds, Whole, InFlight
  <1> QED BY <1>2, <1>3 DEF TypeInv

LEMMA TypeNew ==
    ASSUME TypeInv, NEW p \in Instance, NEW a \in Params, New(p, a)
    PROVE  TypeInv'
  <1> USE ParamsAssumption, NoneAssumption
  <1>1. Whole(a.sendEvents) \in Window /\ Whole(a.sendQueries) \in Window
    BY DEF Whole, Window
  <1>2. TypeOK'
    BY <1>1 DEF TypeInv, TypeOK, New
  <1>3. Bounds'
    BY <1>1 DEF TypeInv, TypeOK, Bounds, New, Fits, Whole, InFlight, Target, Addressee, Current
  <1> QED BY <1>2, <1>3 DEF TypeInv

LEMMA TypeAddEventSink ==
    ASSUME TypeInv, NEW p \in Instance, NEW t \in EventType, NEW d \in Instance,
           AddEventSink(p, t, d)
    PROVE  TypeInv'
  <1> USE DEF TypeInv, AddEventSink, wiring, lists
  <1>1. TypeOK'
    BY DEF TypeOK
  <1>2. Bounds'
    BY NoneAssumption DEF TypeOK, Bounds, InFlight, Target, Addressee, Current
  <1> QED BY <1>1, <1>2

LEMMA TypeAddQuerySink ==
    ASSUME TypeInv, NEW p \in Instance, NEW t \in QueryType, NEW d \in Instance,
           AddQuerySink(p, t, d)
    PROVE  TypeInv'
  <1> USE DEF TypeInv, AddQuerySink, wiring, lists
  <1>1. TypeOK'
    BY DEF TypeOK
  <1>2. Bounds'
    BY NoneAssumption DEF TypeOK, Bounds, InFlight, Target, Addressee, Current
  <1> QED BY <1>1, <1>2

(* The steps that only move program counters and flags.                    *)
Control(p) ==
    Run(p) \/ Start(p) \/ Panic(p) \/ Park(p) \/ Shutdown(p) \/ TakeStop(p) \/ Exit(p)

LEMMA TypeControl ==
    ASSUME TypeInv, NEW p \in Instance, Control(p)
    PROVE  TypeInv'
  <1> USE DEF TypeInv, wiring, lists
  <1>1. TypeOK'
    <2>1. /\ UNCHANGED <<made, eventSinks, querySinks, sendEvents, sendQueries, processed, queryResults>>
          /\ \E v \in PC: pc' = [pc EXCEPT ![p] = v] \/ pc' = pc
          /\ \E v \in BOOLEAN: ready' = [ready EXCEPT ![p] = v] \/ ready' = ready
          /\ \E v \in BOOLEAN: stopCaller' = [stopCaller EXCEPT ![p] = v] \/ stopCaller' = stopCaller
          /\ panicked' \in BOOLEAN
      BY DEF TypeOK, PC, Control, Run, Start, Panic, Park, Shutdown, TakeStop, Exit
    <2> QED BY <2>1 DEF TypeOK
  <1>2. Bounds'
    <2>1. UNCHANGED <<made, eventSinks, querySinks, sendEvents, sendQueries>>
      BY DEF Control, Run, Start, Panic, Park, Shutdown, TakeStop, Exit
    <2>2. \A q \in Instance: pc'[q] # "new" => made[q] # None
      BY DEF TypeOK, Bounds, Control, Run, Start, Panic, Park, Shutdown, TakeStop, Exit
    <2>3. \A q \in Instance:
              pc'[q] \in {"new", "launched"} => pc[q] \in {"new", "launched"}
      BY DEF TypeOK, Control, Run, Start, Panic, Park, Shutdown, TakeStop, Exit
    <2>4. \A q \in Instance: InFlight(q)' => InFlight(q)
      BY DEF TypeOK, InFlight, Control, Run, Start, Panic, Park, Shutdown, TakeStop, Exit
    <2> QED BY <2>1, <2>2, <2>3, <2>4 DEF Bounds, InFlight, Target, Addressee, Current
  <1> QED BY <1>1, <1>2

LEMMA TypeReceive ==
    ASSUME TypeInv, NEW p \in Instance, NEW o \in Instance, Receive(p, o)
    PROVE  TypeInv'
  <1> USE DEF TypeInv, Receive, wiring, lists
  <1>1. [src |-> o, n |-> Current(o)] \in Event
    BY DEF TypeOK, Bounds, Window, BlockedOn, InFlight, Current, Event
  <1>2. TypeOK'
    BY <1>1 DEF TypeOK, PC, Record
  <1>3. Bounds'
    BY DEF TypeOK, Bounds, BlockedOn, InFlight, Target, Addressee, Current
  <1> QED BY <1>2, <1>3

LEMMA TypeDefault ==
    ASSUME TypeInv, NEW p \in Instance, Default(p)
    PROVE  TypeInv'
  <1> USE DEF TypeInv, Default, wiring
  <1>1. /\ made[p] \in Params
        /\ made[p].kind \in {"processor", "service"}
        /\ made[p].sendEvents \in Seq(EventType)
        /\ made[p].sendQueries \in Seq(QueryType)
    BY ParamsAssumption DEF TypeOK, Bounds
  <1>2. /\ sendEvents[p] \in Window /\ Fits(sendEvents[p], made[p].sendEvents)
        /\ sendQueries[p] \in Window /\ Fits(sendQueries[p], made[p].sendQueries)
    BY <1>1, NoneAssumption DEF TypeOK, Bounds
  <1>3. /\ sendQueries' \in [Instance -> Window]
        /\ queryResults' \in [Instance -> Seq(Nat \ {0})]
        /\ Fits(sendQueries'[p], made[p].sendQueries)
        /\ \A q \in Instance \ {p}: sendQueries'[q] = sendQueries[q]
    <2>1. CASE IsEmpty(sendQueries[p])
      BY <2>1, <1>2 DEF RunNextQuery, TypeOK
    <2>2. CASE ~IsEmpty(sendQueries[p])
      <3>1. /\ Pop(p, sendQueries[p]) \in Window
            /\ Fits(Pop(p, sendQueries[p]), made[p].sendQueries)
        BY <2>2, <1>1, <1>2, PopWindow DEF RunNextQuery
      <3>2. sendQueries' = [sendQueries EXCEPT ![p] = Pop(p, sendQueries[p])]
        BY <2>2 DEF RunNextQuery
      <3>3. Answer(p, sendQueries[p].lo) \in Seq(Nat \ {0})
        BY <1>2 DEF Answer, TypeOK, Window
      <3>4. queryResults' = [queryResults EXCEPT ![p] = Answer(p, sendQueries[p].lo)]
        BY <2>2 DEF RunNextQuery
      <3> QED BY <3>1, <3>2, <3>3, <3>4 DEF TypeOK
    <2> QED BY <2>1, <2>2
  <1>4. /\ sendEvents' \in [Instance -> Window]
        /\ pc' \in [Instance -> PC]
        /\ Fits(sendEvents'[p], made[p].sendEvents)
        /\ pc'[p] \in {"select", "sending"}
        /\ \A q \in Instance \ {p}: sendEvents'[q] = sendEvents[q] /\ pc'[q] = pc[q]
        /\ pc'[p] = "sending" => sendEvents'[p].lo = sendEvents[p].lo + 1
                                 /\ Addressee(p, sendEvents[p].lo) # None
    <2>1. CASE IsEmpty(sendEvents[p])
      BY <2>1, <1>2 DEF SendNextEvent, TypeOK
    <2>2. CASE ~IsEmpty(sendEvents[p])
      <3>1. /\ Pop(p, sendEvents[p]) \in Window
            /\ Fits(Pop(p, sendEvents[p]), made[p].sendEvents)
            /\ Pop(p, sendEvents[p]).lo = sendEvents[p].lo + 1
        BY <2>2, <1>1, <1>2, PopWindow DEF SendNextEvent
      <3>2. sendEvents' = [sendEvents EXCEPT ![p] = Pop(p, sendEvents[p])]
        BY <2>2 DEF SendNextEvent
      <3>3. pc' = [pc EXCEPT ![p] = AfterPop(p, sendEvents[p].lo)]
        BY <2>2 DEF SendNextEvent
      <3>4. AfterPop(p, sendEvents[p].lo) \in {"select", "sending"}
        BY DEF AfterPop
      <3>5. AfterPop(p, sendEvents[p].lo) = "sending" => Addressee(p, sendEvents[p].lo) # None
        BY DEF AfterPop
      <3> QED BY <3>1, <3>2, <3>3, <3>4, <3>5 DEF TypeOK, PC
    <2> QED BY <2>1, <2>2
  <1>5. UNCHANGED <<made, eventSinks, querySinks>>
    OBVIOUS
  <1>6. TypeOK'
    BY <1>3, <1>4, <1>5 DEF TypeOK
  <1>7. Bounds'
    <2>1. \A q \in Instance: made[q] # None =>
              /\ Fits(sendEvents'[q], made[q].sendEvents)
              /\ Fits(sendQueries'[q], made[q].sendQueries)
      BY <1>3, <1>4 DEF Bounds
    <2>2. \A q \in Instance: pc'[q] # "new" => made[q] # None
      BY <1>1, <1>4, NoneAssumption DEF Bounds
    <2>3. \A q \in Instance: pc'[q] \in {"new", "launched"} =>
              sendEvents'[q].lo = 1 /\ sendQueries'[q].lo = 1
      BY <1>3, <1>4 DEF Bounds
    <2>4. \A q \in Instance: InFlight(q)' => sendEvents'[q].lo > 1 /\ Target(q)' # None
      <3> SUFFICES ASSUME NEW q \in Instance, InFlight(q)'
                   PROVE  sendEvents'[q].lo > 1 /\ Target(q)' # None
        OBVIOUS
      <3>1. CASE q = p
        <4>1. pc'[p] = "sending"
          BY <3>1, <1>4 DEF InFlight
        <4>2. Current(p)' = sendEvents[p].lo
          BY <4>1, <1>2, <1>4 DEF Current, Window
        <4> QED BY <3>1, <4>1, <4>2, <1>2, <1>4, <1>5 DEF Target, Addressee, Window
      <3>2. CASE q # p
        BY <3>2, <1>4, <1>5 DEF Bounds, InFlight, Target, Addressee, Current
      <3> QED BY <3>1, <3>2
    <2> QED BY <2>1, <2>2, <2>3, <2>4, <1>5 DEF Bounds
  <1> QED BY <1>6, <1>7

LEMMA TypeStutter == TypeInv /\ UNCHANGED vars => TypeInv'
  BY DEF TypeInv, TypeOK, Bounds, vars, InFlight, Target, Addressee, Current

LEMMA TypeStep == TypeInv /\ [Next]_vars => TypeInv'
  <1> SUFFICES ASSUME TypeInv, [Next]_vars PROVE TypeInv'
    OBVIOUS
  <1>1. ASSUME NEW p \in Instance, Call(p) PROVE TypeInv'
    BY <1>1, TypeNew, TypeAddEventSink, TypeAddQuerySink, TypeControl DEF Call, Control
  <1>2. ASSUME NEW p \in Instance, Loop(p) PROVE TypeInv'
    BY <1>2, TypeDefault, TypeReceive, TypeControl DEF Loop, Control
  <1> QED BY <1>1, <1>2, TypeStutter DEF Next

(* Every state of the goroutines is well typed, and no instance runs, is   *)
(* wired or holds an event before it is created: the maps and lists of     *)
(* TestProcessor and TestService are never indexed out of range, except by *)
(* the pop that panics.                                                    *)
THEOREM TypeCorrect == Spec => []TypeInv
  BY TypeInit, TypeStep, PTL DEF Spec

(* Processors, services and their channels are well typed.                 *)
THEOREM Typing == Spec => []TypeOK
  BY TypeCorrect, PTL DEF TypeInv

-----------------------------------------------------------------------------
(* What the default branch does to the events of an instance that has one. *)
LEMMA PoppedEvent ==
    ASSUME TypeInv, NEW p \in Instance, Default(p), ~IsEmpty(sendEvents[p])
    PROVE  /\ sendEvents' = [sendEvents EXCEPT ![p] = Pop(p, sendEvents[p])]
           /\ pc' = [pc EXCEPT ![p] = AfterPop(p, sendEvents[p].lo)]
           /\ made[p] # None /\ made[p].sendEvents \in Seq(EventType)
           /\ sendEvents[p].lo \in 1 .. Len(made[p].sendEvents)
           /\ sendEvents'[p].lo = sendEvents[p].lo + 1
  <1>1. /\ sendEvents' = [sendEvents EXCEPT ![p] = Pop(p, sendEvents[p])]
        /\ pc' = [pc EXCEPT ![p] = AfterPop(p, sendEvents[p].lo)]
        /\ ~PopPanics(p, sendEvents[p]) /\ pc[p] = "select"
    BY DEF Default, SendNextEvent
  <1>2. /\ made[p].kind \in {"processor", "service"}
        /\ made[p].sendEvents \in Seq(EventType) /\ made[p] # None
    BY <1>1, ParamsAssumption DEF TypeInv, TypeOK, Bounds
  <1>3. sendEvents[p] \in Window /\ Fits(sendEvents[p], made[p].sendEvents)
    BY <1>2 DEF TypeInv, TypeOK, Bounds
  <1>4. sendEvents[p].lo \in 1 .. Len(made[p].sendEvents)
    BY <1>2, <1>3 DEF Window, Fits, IsEmpty
  <1>5. Pop(p, sendEvents[p]).lo = sendEvents[p].lo + 1
    BY <1>1, <1>2, <1>3, PopWindow
  <1> QED BY <1>1, <1>2, <1>4, <1>5 DEF TypeInv, TypeOK

(* The events popped so far are entries of the list.                       *)
LEMMA AddresseeType ==
    ASSUME TypeInv, NEW p \in Instance, NEW n \in 1 .. sendEvents[p].lo - 1
    PROVE  Addressee(p, n) \in Instance \cup {None}
  <1>1. sendEvents[p].lo \in Nat /\ sendEvents[p].hi \in Nat
    BY DEF TypeInv, TypeOK, Window
  <1>2. made[p] # None
    BY <1>1 DEF TypeInv, Bounds
  <1>3. made[p].sendEvents \in Seq(EventType)
    BY <1>2, ParamsAssumption DEF TypeInv, TypeOK
  <1>4. n \in 1 .. Len(made[p].sendEvents)
    BY <1>1, <1>2, <1>3 DEF TypeInv, Bounds, Fits
  <1> QED BY <1>3, <1>4 DEF Addressee, TypeInv, TypeOK

(* Exactly once and in order.  Each of the three invariants needs the      *)
(* other two: OnlySent says that what a sender still holds is newer than   *)
(* everything its receivers have, so that a hand-over keeps InOrder.       *)
Delivery == InOrder /\ OnlySent /\ NothingLost

\* Delivery depends on nothing but these.
LEMMA DeliveryFrame ==
    ASSUME TypeInv, Delivery,
           UNCHANGED <<made, eventSinks, sendEvents, processed>>,
           \A q \in Instance: InFlight(q)' <=> InFlight(q)
    PROVE  Delivery'
  <1>1. \A q \in Instance: Current(q)' = Current(q)
    BY DEF Current
  <1>2. \A q, n: Addressee(q, n)' = Addressee(q, n)
    BY DEF Addressee
  <1>3. \A d \in Instance: \A i \in DOMAIN processed[d]: processed[d][i] \in Event
    BY DEF TypeInv, TypeOK
  <1>4. InOrder'
    BY DEF Delivery, InOrder
  <1>5. OnlySent'
    BY <1>1, <1>2, <1>3 DEF Delivery, OnlySent, HandedOver, Event
  <1>6. NothingLost'
    BY <1>1, <1>2 DEF Delivery, NothingLost
  <1> QED BY <1>4, <1>5, <1>6 DEF Delivery

LEMMA DeliveryInit == Init => Delivery
  BY DEF Init, Delivery, InOrder, OnlySent, NothingLost, Whole

LEMMA DeliveryControl ==
    ASSUME TypeInv, Delivery, NEW p \in Instance, Control(p)
    PROVE  Delivery'
  <1>1. UNCHANGED <<made, eventSinks, sendEvents, processed>>
    BY DEF Control, Run, Start, Panic, Park, Shutdown, TakeStop, Exit, wiring, lists
  <1>2. \A q \in Instance: InFlight(q)' <=> InFlight(q)
    BY DEF TypeInv, TypeOK, InFlight,
           Control, Run, Start, Panic, Park, Shutdown, TakeStop, Exit
  <1> QED BY <1>1, <1>2, DeliveryFrame

LEMMA DeliveryAddQuerySink ==
    ASSUME TypeInv, Delivery, NEW p \in Instance, NEW t \in QueryType, NEW d \in Instance,
           AddQuerySink(p, t, d)
    PROVE  Delivery'
  BY DeliveryFrame DEF AddQuerySink, InFlight, lists

(* What has a window that was never popped from has not been sent: adding  *)
(* a sink or creating the instance changes nothing for the sent events.    *)
LEMMA DeliveryBeforeRun ==
    ASSUME TypeInv, Delivery, NEW p \in Instance, pc[p] = "new",
           UNCHANGED <<pc, processed>>,
           sendEvents'[p].lo = 1,
           \A q \in Instance \ {p}: /\ made'[q] = made[q]
                                    /\ eventSinks'[q] = eventSinks[q]
                                    /\ sendEvents'[q] = sendEvents[q]
    PROVE  Delivery'
  <1>1. sendEvents[p].lo = 1
    BY DEF TypeInv, Bounds
  <1>2. \A d \in Instance: \A i \in DOMAIN processed[d]:
            processed[d][i].src \in Instance \ {p} /\ processed[d][i].n \in Nat \ {0}
    <2> SUFFICES ASSUME NEW d \in Instance, NEW i \in DOMAIN processed[d]
                 PROVE  processed[d][i].src \in Instance \ {p} /\ processed[d][i].n \in Nat \ {0}
      OBVIOUS
    <2>1. processed[d][i] \in Event
      BY DEF TypeInv, TypeOK
    <2>2. processed[d][i].n < sendEvents[processed[d][i].src].lo
      BY DEF Delivery, OnlySent, HandedOver
    <2> QED BY <2>1, <2>2, <1>1 DEF Event
  <1>3. \A q \in Instance \ {p}: Current(q)' = Current(q) /\ (InFlight(q)' <=> InFlight(q))
    BY DEF Current, InFlight
  <1>4. \A q \in Instance \ {p}: \A n: Addressee(q, n)' = Addressee(q, n)
    BY DEF Addressee
  <1>5. InOrder'
    BY DEF Delivery, InOrder
  <1>6. OnlySent'
    BY <1>2, <1>3, <1>4 DEF Delivery, OnlySent, HandedOver
  <1>7. NothingLost'
    <2> SUFFICES ASSUME NEW q \in Instance, NEW n \in (1 .. sendEvents[q].lo - 1)'
                 PROVE  LET d == Addressee(q, n)'
                        IN  \/ d = None
                            \/ InFlight(q)' /\ n = Current(q)'
                            \/ [src |-> q, n |-> n] \in {processed'[d][i] : i \in DOMAIN processed'[d]}
      BY DEF NothingLost
    <2>1. q # p
      OBVIOUS
    <2> QED BY <2>1, <1>3, <1>4 DEF Delivery, NothingLost
  <1> QED BY <1>5, <1>6, <1>7 DEF Delivery

LEMMA DeliveryNew ==
    ASSUME TypeInv, Delivery, NEW p \in Instance, NEW a \in Params, New(p, a)
    PROVE  Delivery'
  <1>1. pc[p] = "new"
    BY DEF TypeInv, Bounds, New
  <1>2. sendEvents'[p].lo = 1
    BY DEF TypeInv, TypeOK, New, Whole
  <1> QED BY <1>1, <1>2, DeliveryBeforeRun DEF New

LEMMA DeliveryAddEventSink ==
    ASSUME TypeInv, Delivery, NEW p \in Instance, NEW t \in EventType, NEW d \in Instance,
           AddEventSink(p, t, d)
    PROVE  Delivery'
  <1>1. pc[p] = "new" /\ sendEvents'[p].lo = 1
    BY DEF TypeInv, Bounds, AddEventSink, lists
  <1> QED BY <1>1, DeliveryBeforeRun DEF AddEventSink, lists

(* The default branch: the popped event becomes the one the sender holds,  *)
(* or is dropped because nothing is wired for its type.                    *)
LEMMA DeliveryDefault ==
    ASSUME TypeInv, Delivery, NEW p \in Instance, Default(p)
    PROVE  Delivery'
  <1>1. UNCHANGED <<made, eventSinks, processed>> /\ pc[p] = "select"
    BY DEF Default, wiring
  <1>2. CASE IsEmpty(sendEvents[p])
    <2>1. UNCHANGED <<sendEvents, pc>>
      BY <1>2 DEF Default, SendNextEvent
    <2> QED BY <1>1, <2>1, DeliveryFrame DEF InFlight
  <1>3. CASE ~IsEmpty(sendEvents[p])
    <2> DEFINE k == sendEvents[p].lo
    <2>1. /\ sendEvents' = [sendEvents EXCEPT ![p] = Pop(p, sendEvents[p])]
          /\ pc' = [pc EXCEPT ![p] = AfterPop(p, k)]
      BY <1>3, PoppedEvent
    <2>2. k \in Nat \ {0} /\ sendEvents'[p].lo = k + 1
      BY <1>3, PoppedEvent
    <2>3. Current(p)' = k
      BY <2>2 DEF Current
    <2>4. /\ ~InFlight(p)
          /\ InFlight(p)' <=> Addressee(p, k) # None
      BY <1>1, <2>1 DEF InFlight, AfterPop, TypeInv, TypeOK
    <2>5. \A q \in Instance \ {p}:
              /\ sendEvents'[q] = sendEvents[q]
              /\ Current(q)' = Current(q)
              /\ InFlight(q)' <=> InFlight(q)
      BY <2>1 DEF Current, InFlight, TypeInv, TypeOK
    <2>6. \A q, n: Addressee(q, n)' = Addressee(q, n)
      BY <1>1 DEF Addressee
    <2>7. \A d \in Instance: \A i \in DOMAIN processed[d]: processed[d][i] \in Event
      BY DEF TypeInv, TypeOK
    <2>8. InOrder'
      BY <1>1 DEF Delivery, InOrder
    <2>9. OnlySent'
      <3>1. ASSUME NEW s \in Instance, NEW n \in Nat \ {0}, NEW d, HandedOver(s, n, d)
            PROVE  HandedOver(s, n, d)'
        <4>1. CASE s = p
          BY <3>1, <4>1, <2>2, <2>3, <2>6 DEF HandedOver
        <4>2. CASE s # p
          BY <3>1, <4>2, <2>5, <2>6 DEF HandedOver
        <4> QED BY <4>1, <4>2
      <3> SUFFICES ASSUME NEW d \in Instance, NEW i \in DOMAIN processed[d]
                   PROVE  HandedOver(processed[d][i].src, processed[d][i].n, d)'
        BY <1>1 DEF OnlySent
      <3>2. processed[d][i].src \in Instance /\ processed[d][i].n \in Nat \ {0}
        BY <2>7 DEF Event
      <3>3. HandedOver(processed[d][i].src, processed[d][i].n, d)
        BY DEF Delivery, OnlySent
      <3>4. PICK s \in Instance, n \in Nat \ {0}:
                s = processed[d][i].src /\ n = processed[d][i].n
        BY <3>2
      <3>5. HandedOver(s, n, d)'
        BY <3>1, <3>3, <3>4
      <3> QED BY <1>1, <3>4, <3>5 DEF HandedOver, Addressee, InFlight, Current
    <2>10. NothingLost'
      <3> SUFFICES ASSUME NEW q \in Instance, NEW n \in 1 .. sendEvents'[q].lo - 1
                   PROVE  LET d == Addressee(q, n)'
                          IN  \/ d = None
                              \/ InFlight(q)' /\ n = Current(q)'
                              \/ [src |-> q, n |-> n] \in {processed[d][i] : i \in DOMAIN processed[d]}
        BY <1>1 DEF NothingLost
      <3>1. CASE q = p /\ n = k
        BY <3>1, <2>3, <2>4, <2>6
      <3>2. CASE q = p /\ n # k
        <4>1. n \in 1 .. sendEvents[p].lo - 1
          BY <3>2, <2>2
        <4> QED BY <3>2, <4>1, <2>4, <2>6 DEF Delivery, NothingLost
      <3>3. CASE q # p
        BY <3>3, <2>5, <2>6 DEF Delivery, NothingLost
      <3> QED BY <3>1, <3>2, <3>3
    <2> QED BY <2>8, <2>9, <2>10 DEF Delivery
  <1> QED BY <1>2, <1>3

(* The hand-over: the event o holds goes to the end of its target's list,  *)
(* where everything else of o is older.                                    *)
LEMMA DeliveryReceive ==
    ASSUME TypeInv, Delivery, NEW p \in Instance, NEW o \in Instance, Receive(p, o)
    PROVE  Delivery'
  <1> DEFINE k == Current(o)
             e == [src |-> o, n |-> k]
             L == Len(processed[p])
  <1>1. /\ UNCHANGED <<made, eventSinks, sendEvents>>
        /\ processed' = [processed EXCEPT ![p] = Append(processed[p], e)]
        /\ pc' = [pc EXCEPT ![o] = "select"]
        /\ InFlight(o) /\ Target(o) = p
    BY DEF Receive, Record, wiring, lists, BlockedOn, InFlight
  <1>2. k \in Nat \ {0} /\ k < sendEvents[o].lo /\ Addressee(o, k) = p
    BY <1>1 DEF TypeInv, TypeOK, Bounds, Window, Current, Target
  <1>3. /\ ~InFlight(o)'
        /\ \A q \in Instance \ {o}: InFlight(q)' <=> InFlight(q)
    BY <1>1 DEF InFlight, TypeInv, TypeOK
  <1>4. /\ \A q: Current(q)' = Current(q)
        /\ \A q, n: Addressee(q, n)' = Addressee(q, n)
    BY <1>1 DEF Current, Addressee
  <1>5. /\ L \in Nat
        /\ DOMAIN processed[p] = 1 .. L
        /\ DOMAIN processed'[p] = 1 .. L + 1
        /\ \A i \in 1 .. L: processed'[p][i] = processed[p][i]
        /\ processed'[p][L + 1] = e
    BY <1>1 DEF TypeInv, TypeOK
  <1>6. \A d \in Instance \ {p}: processed'[d] = processed[d]
    BY <1>1 DEF TypeInv, TypeOK
  <1>7. \A d \in Instance: \A i \in DOMAIN processed[d]:
            processed[d][i].src \in Instance /\ processed[d][i].n \in Nat \ {0}
    <2>1. \A d \in Instance: \A i \in DOMAIN processed[d]: processed[d][i] \in Event
      BY DEF TypeInv, TypeOK
    <2> QED BY <2>1 DEF Event
  <1>8. \A i \in 1 .. L: processed[p][i].src = o => processed[p][i].n < k
    BY <1>1, <1>5 DEF Delivery, OnlySent, HandedOver
  <1>9. InOrder'
    <2> SUFFICES ASSUME NEW d \in Instance,
                        NEW i \in DOMAIN processed'[d], NEW j \in DOMAIN processed'[d],
                        i < j, processed'[d][i].src = processed'[d][j].src
                 PROVE  processed'[d][i].n < processed'[d][j].n
      BY DEF InOrder
    <2>1. CASE d # p
      BY <2>1, <1>6 DEF Delivery, InOrder
    <2>2. CASE d = p /\ j = L + 1
      <3>1. i \in 1 .. L
        BY <2>2, <1>5
      <3> QED BY <2>2, <3>1, <1>5, <1>8
    <2>3. CASE d = p /\ j # L + 1
      <3>1. i \in 1 .. L /\ j \in 1 .. L
        BY <2>3, <1>5
      <3> QED BY <2>3, <3>1, <1>5 DEF Delivery, InOrder
    <2> QED BY <2>1, <2>2, <2>3
  <1>10. OnlySent'
    <2>1. ASSUME NEW s \in Instance, NEW n \in Nat \ {0}, NEW d, HandedOver(s, n, d)
          PROVE  HandedOver(s, n, d)'
      BY <2>1, <1>1, <1>3, <1>4 DEF HandedOver
    <2>2. HandedOver(o, k, p)'
      BY <1>1, <1>2, <1>3, <1>4 DEF HandedOver, Addressee, Current, InFlight
    <2> SUFFICES ASSUME NEW d \in Instance, NEW i \in DOMAIN processed'[d],
                        NEW s, NEW n, s = processed'[d][i].src, n = processed'[d][i].n
                 PROVE  HandedOver(s, n, d)'
      BY DEF OnlySent, HandedOver, Addressee, InFlight, Current
    <2>3. CASE d = p /\ i = L + 1
      <3>1. s = o /\ n = k
        BY <2>3, <1>5
      <3> QED BY <3>1, <2>2, <2>3, <1>4 DEF HandedOver, Addressee, InFlight
    <2>4. CASE d # p \/ i # L + 1
      <3>1. i \in DOMAIN processed[d] /\ processed'[d][i] = processed[d][i]
        BY <2>4, <1>5, <1>6
      <3>2. HandedOver(s, n, d) /\ s \in Instance /\ n \in Nat \ {0}
        BY <3>1, <1>7 DEF Delivery, OnlySent
      <3> QED BY <3>2, <2>1
    <2> QED BY <2>3, <2>4
  <1>11. NothingLost'
    <2> SUFFICES ASSUME NEW q \in Instance, NEW n \in 1 .. sendEvents[q].lo - 1
                 PROVE  LET d == Addressee(q, n)
                        IN  \/ d = None
                            \/ InFlight(q)' /\ n = Current(q)
                            \/ [src |-> q, n |-> n] \in {processed'[d][i] : i \in DOMAIN processed'[d]}
      BY <1>1, <1>4 DEF NothingLost
    <2>1. CASE q = o /\ n = k
      BY <2>1, <1>2, <1>5
    <2>2. CASE ~(q = o /\ n = k)
      <3> DEFINE d == Addressee(q, n)
      <3>1. \/ d = None
            \/ q # o /\ InFlight(q) /\ n = Current(q)
            \/ \E i \in DOMAIN processed[d]: processed[d][i] = [src |-> q, n |-> n]
        BY <2>2 DEF Delivery, NothingLost
      <3>2. d # None => d \in Instance
        BY AddresseeType
      <3> QED BY <3>1, <3>2, <1>3, <1>5, <1>6
    <2> QED BY <2>1, <2>2
  <1> QED BY <1>9, <1>10, <1>11 DEF Delivery

LEMMA DeliveryStep == TypeInv /\ Delivery /\ [Next]_vars => Delivery'
  <1> SUFFICES ASSUME TypeInv, Delivery, [Next]_vars PROVE Delivery'
    OBVIOUS
  <1>1. ASSUME NEW p \in Instance, Call(p) PROVE Delivery'
    BY <1>1, DeliveryNew, DeliveryAddEventSink, DeliveryAddQuerySink, DeliveryControl
       DEF Call, Control
  <1>2. ASSUME NEW p \in Instance, Loop(p) PROVE Delivery'
    BY <1>2, DeliveryDefault, DeliveryReceive, DeliveryControl DEF Loop, Control
  <1>3. CASE UNCHANGED vars
    BY <1>3, DeliveryFrame DEF vars, InFlight
  <1> QED BY <1>1, <1>2, <1>3 DEF Next

(* Whatever the wiring, the interleaving of senders, stops and panics:     *)
(* every event a sender popped for a wired type reaches the instance it is *)
(* wired to, once, in the sender's order, or is still held by the sender.  *)
THEOREM ExactlyOnceInOrder == Spec => [](InOrder /\ OnlySent /\ NothingLost)
  <1>1. Spec => []Delivery
    BY TypeCorrect, DeliveryInit, DeliveryStep, PTL DEF Spec
  <1> QED BY <1>1, PTL DEF Delivery

(* Of one sender, a receiver processes the events in their order.          *)
COROLLARY EventsStayInOrder == Spec => []InOrder
  <1>1. InOrder /\ OnlySent /\ NothingLost => InOrder
    OBVIOUS
  <1> QED BY <1>1, ExactlyOnceInOrder, PTL

(* Only events that were popped for it reach an instance.                  *)
COROLLARY OnlySentIsProcessed == Spec => []OnlySent
  <1>1. InOrder /\ OnlySent /\ NothingLost => OnlySent
    OBVIOUS
  <1> QED BY <1>1, ExactlyOnceInOrder, PTL

-----------------------------------------------------------------------------
(* Query results, one instance at a time.                                  *)
LEMMA ResultsInit == Init => ResultsMatchQueries
  <1> SUFFICES ASSUME Init, NEW p \in Instance PROVE ResultsOf(p)
    BY DEF ResultsMatchQueries
  <1>1. sendQueries[p].lo = 1 /\ queryResults[p] = <<>>
    BY DEF Init, Whole
  <1>2. DOMAIN queryResults[p] = {}
    BY <1>1
  <1> QED BY <1>1, <1>2 DEF ResultsOf

\* The queries popped so far are entries of the list.
LEMMA PoppedQuery ==
    ASSUME TypeInv, NEW p \in Instance, NEW n \in 1 .. sendQueries[p].lo - 1
    PROVE  made[p].sendQueries[n] \in QueryType
  <1>1. sendQueries[p].lo \in Nat /\ sendQueries[p].hi \in Nat
    BY DEF TypeInv, TypeOK, Window
  <1>2. made[p] # None
    BY <1>1 DEF TypeInv, Bounds
  <1>3. made[p].sendQueries \in Seq(QueryType)
    BY <1>2, ParamsAssumption DEF TypeInv, TypeOK
  <1>4. n \in 1 .. Len(made[p].sendQueries)
    BY <1>1, <1>2, <1>3 DEF TypeInv, Bounds, Fits
  <1> QED BY <1>3, <1>4

\* Steps that pop no query of p and wire no query sink of p.
LEMMA ResultsFrame ==
    ASSUME TypeInv, NEW p \in Instance, ResultsOf(p),
           UNCHANGED <<sendQueries[p], queryResults[p]>>,
           sendQueries[p].lo = 1 \/
               (UNCHANGED <<made[p], querySinks[p]>>
                /\ \A d \in Instance: made[d] # None => made'[d] = made[d])
    PROVE  ResultsOf(p)'
  <1>1. CASE sendQueries[p].lo = 1
    BY <1>1 DEF ResultsOf
  <1>2. CASE /\ UNCHANGED <<made[p], querySinks[p]>>
             /\ \A d \in Instance: made[d] # None => made'[d] = made[d]
    <2>1. ASSUME NEW n \in 1 .. sendQueries[p].lo - 1
          PROVE  Answered(p, n)' <=> Answered(p, n)
      <3>1. made[p].sendQueries[n] \in QueryType
        BY PoppedQuery
      <3>2. querySinks[p][made[p].sendQueries[n]] # None =>
                /\ querySinks[p][made[p].sendQueries[n]] \in Instance
                /\ made[querySinks[p][made[p].sendQueries[n]]] # None
        BY <3>1 DEF TypeInv, TypeOK, Bounds
      <3> QED BY <1>2, <3>2 DEF Answered
    <2> QED BY <2>1 DEF ResultsOf
  <1> QED BY <1>1, <1>2

LEMMA ResultsDefault ==
    ASSUME TypeInv, ResultsMatchQueries, NEW p \in Instance, Default(p)
    PROVE  ResultsMatchQueries'
  <1> DEFINE k == sendQueries[p].lo
             r == queryResults[p]
  <1>1. UNCHANGED <<made, querySinks>> /\ pc[p] = "select"
    BY DEF Default, wiring
  <1>2. \A q, n: Answered(q, n)' <=> Answered(q, n)
    BY <1>1 DEF Answered
  <1>3. \A q \in Instance: ResultsOf(q)
    BY DEF ResultsMatchQueries
  <1>4. CASE IsEmpty(sendQueries[p])
    <2>1. UNCHANGED <<sendQueries, queryResults>>
      BY <1>4 DEF Default, RunNextQuery
    <2> QED BY <1>1, <1>3, <2>1, ResultsFrame DEF ResultsMatchQueries
  <1>5. CASE ~IsEmpty(sendQueries[p])
    <2>1. /\ sendQueries' = [sendQueries EXCEPT ![p] = Pop(p, sendQueries[p])]
          /\ queryResults' = [queryResults EXCEPT ![p] = Answer(p, k)]
          /\ ~PopPanics(p, sendQueries[p])
      BY <1>5 DEF Default, RunNextQuery
    <2>2. /\ made[p].kind \in {"processor", "service"}
          /\ made[p].sendQueries \in Seq(QueryType) /\ made[p] # None
      BY <1>1, ParamsAssumption DEF TypeInv, TypeOK, Bounds
    <2>3. sendQueries[p] \in Window /\ Fits(sendQueries[p], made[p].sendQueries)
      BY <2>2 DEF TypeInv, TypeOK, Bounds
    <2>4. k \in Nat \ {0} /\ Pop(p, sendQueries[p]).lo = k + 1
      BY <1>5, <2>1, <2>2, <2>3, PopWindow DEF Window
    <2>5. sendQueries'[p].lo = k + 1 /\ queryResults'[p] = Answer(p, k)
      BY <2>1, <2>4 DEF TypeInv, TypeOK
    <2>6. r \in Seq(Nat \ {0})
      BY DEF TypeInv, TypeOK
    <2>7. /\ \A i, j \in DOMAIN r: i < j => r[i] < r[j]
          /\ {r[i] : i \in DOMAIN r} = {n \in 1 .. k - 1 : Answered(p, n)}
      BY <1>3 DEF ResultsOf
    <2>8. \A i \in DOMAIN r: r[i] < k
      <3> SUFFICES ASSUME NEW i \in DOMAIN r PROVE r[i] < k
        OBVIOUS
      <3>1. r[i] \in {n \in 1 .. k - 1 : Answered(p, n)}
        BY <2>7
      <3> QED BY <3>1, <2>4
    <2>9. ResultsOf(p)'
      <3>1. CASE ~Answered(p, k)
        <4>1. queryResults'[p] = r
          BY <2>5, <3>1 DEF Answer
        <4>2. {n \in 1 .. k : Answered(p, n)} = {n \in 1 .. k - 1 : Answered(p, n)}
          BY <2>4, <3>1
        <4> QED BY <4>1, <4>2, <2>4, <2>5, <2>7, <1>2 DEF ResultsOf
      <3>2. CASE Answered(p, k)
        <4>1. queryResults'[p] = Append(r, k)
          BY <2>5, <3>2 DEF Answer
        <4>2. /\ DOMAIN Append(r, k) = 1 .. Len(r) + 1
              /\ DOMAIN r = 1 .. Len(r) /\ Len(r) \in Nat
              /\ \A i \in 1 .. Len(r): Append(r, k)[i] = r[i]
              /\ Append(r, k)[Len(r) + 1] = k
          BY <2>4, <2>6
        <4>3. \A i, j \in DOMAIN Append(r, k): i < j => Append(r, k)[i] < Append(r, k)[j]
          <5> SUFFICES ASSUME NEW i \in 1 .. Len(r) + 1, NEW j \in 1 .. Len(r) + 1, i < j
                       PROVE  Append(r, k)[i] < Append(r, k)[j]
            BY <4>2
          <5>1. i \in 1 .. Len(r)
            BY <4>2
          <5>2. CASE j = Len(r) + 1
            BY <5>1, <5>2, <4>2, <2>8
          <5>3. CASE j # Len(r) + 1
            <6>1. j \in 1 .. Len(r)
              BY <5>3, <4>2
            <6> QED BY <5>1, <6>1, <4>2, <2>7
          <5> QED BY <5>2, <5>3
        <4>4. {Append(r, k)[i] : i \in DOMAIN Append(r, k)} = {r[i] : i \in DOMAIN r} \cup {k}
          BY <4>2
        <4>5. {n \in 1 .. k : Answered(p, n)} = {n \in 1 .. k - 1 : Answered(p, n)} \cup {k}
          BY <2>4, <3>2
        <4> QED BY <4>1, <4>3, <4>4, <4>5, <2>4, <2>5, <2>7, <1>2 DEF ResultsOf
      <3> QED BY <3>1, <3>2
    <2>10. \A q \in Instance \ {p}: ResultsOf(q)'
      <3>1. \A q \in Instance \ {p}: UNCHANGED <<sendQueries[q], queryResults[q]>>
        BY <2>1 DEF TypeInv, TypeOK
      <3> QED BY <1>1, <1>3, <3>1, ResultsFrame
    <2> QED BY <2>9, <2>10 DEF ResultsMatchQueries
  <1> QED BY <1>4, <1>5

LEMMA ResultsStep == TypeInv /\ ResultsMatchQueries /\ [Next]_vars => ResultsMatchQueries'
  <1> SUFFICES ASSUME TypeInv, ResultsMatchQueries, [Next]_vars PROVE ResultsMatchQueries'
    OBVIOUS
  <1>1. \A p \in Instance: ResultsOf(p)
    BY DEF ResultsMatchQueries
  <1>2. ASSUME NEW q \in Instance, NEW a \in Params, New(q, a) PROVE ResultsMatchQueries'
    <2>1. /\ made[q] = None /\ pc[q] = "new"
          /\ sendQueries'[q].lo = 1 /\ sendQueries[q].lo = 1
          /\ UNCHANGED <<querySinks, queryResults>>
          /\ \A d \in Instance: made[d] # None => made'[d] = made[d]
      BY <1>2 DEF New, Whole, TypeInv, TypeOK, Bounds
    <2>2. \A p \in Instance \ {q}: made'[p] = made[p] /\ sendQueries'[p] = sendQueries[p]
      BY <1>2 DEF New, TypeInv, TypeOK
    <2>3. \A p \in Instance \ {q}: ResultsOf(p)'
      BY <1>1, <2>1, <2>2, ResultsFrame
    <2>4. ResultsOf(q)'
      BY <1>1, <2>1 DEF ResultsOf
    <2> QED BY <2>3, <2>4 DEF ResultsMatchQueries
  <1>3. ASSUME NEW q \in Instance, NEW t \in QueryType, NEW d \in Instance, AddQuerySink(q, t, d)
        PROVE  ResultsMatchQueries'
    <2>1. sendQueries[q].lo = 1 /\ UNCHANGED <<made, sendQueries, queryResults>>
      BY <1>3 DEF AddQuerySink, lists, TypeInv, Bounds
    <2>2. \A p \in Instance \ {q}: querySinks'[p] = querySinks[p]
      BY <1>3 DEF AddQuerySink, TypeInv, TypeOK
    <2> QED BY <1>1, <2>1, <2>2, ResultsFrame DEF ResultsMatchQueries
  <1>4. CASE UNCHANGED <<made, querySinks, sendQueries, queryResults>>
    BY <1>1, <1>4, ResultsFrame DEF ResultsMatchQueries
  <1>5. ASSUME NEW p \in Instance, Call(p) PROVE ResultsMatchQueries'
    BY <1>2, <1>3, <1>4, <1>5 DEF Call, Run, Shutdown, AddEventSink, wiring, lists
  <1>6. ASSUME NEW p \in Instance, Loop(p) PROVE ResultsMatchQueries'
    <2>1. CASE Default(p)
      BY <2>1, ResultsDefault
    <2>2. CASE ~Default(p)
      BY <1>4, <1>6, <2>2 DEF Loop, Start, Panic, Park, Receive, TakeStop, Exit, wiring, lists
    <2> QED BY <2>1, <2>2
  <1> QED BY <1>4, <1>5, <1>6 DEF Next, vars

(* The answers an instance collects are those of the queries it popped     *)
(* that a service is wired for, each once and in the order of its list,    *)
(* whether or not the service is running.                                  *)
THEOREM QueriesAnsweredOnce == Spec => []ResultsMatchQueries
  BY TypeCorrect, ResultsInit, ResultsStep, PTL DEF Spec

-----------------------------------------------------------------------------
(* A stopped goroutine takes no step, and nobody else touches its lists.   *)
LEMMA QuietStep ==
    ASSUME TypeInv, [Next]_vars, NEW p \in Instance, pc[p] \in {"returning", "exited"}
    PROVE  /\ pc'[p] \in {"returning", "exited"}
           /\ processed'[p] = processed[p]
           /\ sendEvents'[p] = sendEvents[p]
           /\ sendQueries'[p] = sendQueries[p]
           /\ queryResults'[p] = queryResults[p]
  <1> USE DEF wiring, lists
  <1>1. made[p] # None
    BY DEF TypeInv, Bounds
  <1>2. ASSUME NEW q \in Instance, NEW a \in Params, New(q, a)
        PROVE  q # p /\ UNCHANGED <<pc, processed, sendEvents[p], sendQueries[p], queryResults>>
    BY <1>1, <1>2 DEF New, TypeInv, TypeOK
  <1>3. ASSUME NEW q \in Instance, Default(q)
        PROVE  q # p /\ UNCHANGED <<pc[p], processed, sendEvents[p], sendQueries[p], queryResults[p]>>
    BY <1>3 DEF Default, RunNextQuery, SendNextEvent, TypeInv, TypeOK
  <1>4. ASSUME NEW q \in Instance, NEW o \in Instance, Receive(q, o)
        PROVE  q # p /\ o # p /\ UNCHANGED <<pc[p], processed[p], sendEvents, sendQueries, queryResults>>
    BY <1>4 DEF Receive, BlockedOn, TypeInv, TypeOK
  <1>5. ASSUME NEW q \in Instance, Control(q)
        PROVE  /\ pc'[p] \in {"returning", "exited"}
               /\ UNCHANGED <<processed, sendEvents, sendQueries, queryResults>>
    BY <1>5 DEF Control, Run, Start, Panic, Park, Shutdown, TakeStop, Exit, TypeInv, TypeOK
  <1>6. CASE UNCHANGED vars
    BY <1>6 DEF vars
  <1>7. ASSUME NEW q \in Instance, NEW t, NEW d,
               AddEventSink(q, t, d) \/ AddQuerySink(q, t, d)
        PROVE  UNCHANGED <<pc, processed, sendEvents, sendQueries, queryResults>>
    BY <1>7 DEF AddEventSink, AddQuerySink
  <1> QED BY <1>2, <1>3, <1>4, <1>5, <1>6, <1>7 DEF Next, Call, Loop, Control

(* After Shutdown(p) has returned, p handles, sends and asks nothing, for  *)
(* any number of senders that are still blocked on it.                     *)
THEOREM StopIsFinal == Spec => QuietAfterStop
  <1>1. TypeInv /\ [Next]_vars =>
            \A p \in Instance: pc[p] \in {"returning", "exited"} =>
                /\ pc'[p] \in {"returning", "exited"}
                /\ processed'[p] = processed[p]
                /\ sendEvents'[p] = sendEvents[p]
                /\ sendQueries'[p] = sendQueries[p]
                /\ queryResults'[p] = queryResults[p]
    BY QuietStep
  <1> QED BY <1>1, TypeCorrect, PTL DEF Spec, QuietAfterStop

-----------------------------------------------------------------------------
(* Refinement: EventFlow's state as a function of the goroutines' state.   *)
flowEvents == [p \in Instance |-> EventsOf(p)]
flowCursor == [p \in Instance |-> Cursor(p)]
flowVars == <<flowEvents, eventSinks, flowCursor, processed>>

\* A step that moves no cursor is a stutter.
LEMMA FlowStutter ==
    ASSUME UNCHANGED <<made, eventSinks, processed>>,
           \A q \in Instance: Cursor(q)' = Cursor(q)
    PROVE  UNCHANGED flowVars
  BY DEF flowVars, flowEvents, flowCursor, EventsOf

LEMMA FlowControl ==
    ASSUME TypeInv, NEW p \in Instance, Control(p)
    PROVE  UNCHANGED flowVars
  <1>1. UNCHANGED <<made, eventSinks, sendEvents, processed>>
    BY DEF Control, Run, Start, Panic, Park, Shutdown, TakeStop, Exit, wiring, lists
  <1>2. \A q \in Instance: InFlight(q)' <=> InFlight(q)
    BY DEF TypeInv, TypeOK, InFlight,
           Control, Run, Start, Panic, Park, Shutdown, TakeStop, Exit
  <1> QED BY <1>1, <1>2, FlowStutter DEF Cursor, Current

LEMMA FlowInit == Init => Flow!Init
  BY DEF Init, Flow!Init, EventsOf, Cursor, InFlight, Whole

\* Before Run, the cursor is at the first event.
LEMMA FlowAtStart ==
    ASSUME TypeInv, NEW p \in Instance, pc[p] = "new"
    PROVE  Cursor(p) = 1 /\ flowCursor[p] = 1
  BY DEF Cursor, InFlight, flowCursor, TypeInv, Bounds

LEMMA FlowNew ==
    ASSUME TypeInv, NEW p \in Instance, NEW a \in Params, New(p, a)
    PROVE  Flow!Next
  <1>1. pc[p] = "new" /\ UNCHANGED <<pc, eventSinks, processed>>
    BY DEF TypeInv, Bounds, New
  <1>2. flowEvents[p] = <<>> /\ flowEvents' = [flowEvents EXCEPT ![p] = a.sendEvents]
    BY NoneAssumption DEF flowEvents, EventsOf, New, TypeInv, TypeOK
  <1>3. \A q \in Instance: Cursor(q)' = Cursor(q)
    <2>1. Cursor(p)' = 1
      BY <1>1 DEF Cursor, InFlight, New, Whole, TypeInv, TypeOK
    <2>2. \A q \in Instance \ {p}: Cursor(q)' = Cursor(q)
      BY <1>1 DEF Cursor, InFlight, Current, New, TypeInv, TypeOK
    <2> QED BY <1>1, <2>1, <2>2, FlowAtStart
  <1>4. flowCursor' = flowCursor
    BY <1>3 DEF flowCursor
  <1>5. Flow!Create(p, a.sendEvents)
    BY <1>1, <1>2, <1>4 DEF Flow!Create, flowEvents, flowCursor
  <1> QED BY <1>5 DEF Flow!Next

LEMMA FlowConnect ==
    ASSUME TypeInv, NEW p \in Instance, NEW t \in EventType, NEW d \in Instance,
           AddEventSink(p, t, d)
    PROVE  Flow!Next
  <1>1. flowCursor[p] = 1
    BY FlowAtStart DEF AddEventSink
  <1>2. flowEvents' = flowEvents /\ flowCursor' = flowCursor
    BY DEF AddEventSink, lists, flowEvents, EventsOf, flowCursor, Cursor, InFlight, Current
  <1>3. Flow!Connect(p, t, d)
    BY <1>1, <1>2 DEF Flow!Connect, AddEventSink, flowEvents, flowCursor
  <1> QED BY <1>3 DEF Flow!Next

LEMMA FlowReceive ==
    ASSUME TypeInv, NEW p \in Instance, NEW o \in Instance, Receive(p, o)
    PROVE  Flow!Next
  <1>1. /\ UNCHANGED <<made, eventSinks, sendEvents>>
        /\ processed' = [processed EXCEPT ![p] = Append(@, [src |-> o, n |-> Current(o)])]
        /\ pc' = [pc EXCEPT ![o] = "select"]
        /\ InFlight(o) /\ Target(o) = p
    BY DEF Receive, Record, wiring, lists, BlockedOn, InFlight
  <1>2. sendEvents[o].lo \in Nat /\ sendEvents[o].hi \in Nat /\ sendEvents[o].lo > 1 /\ made[o] # None
    BY <1>1 DEF TypeInv, TypeOK, Bounds, Window, InFlight
  <1>3. made[o].sendEvents \in Seq(EventType)
    BY <1>2, ParamsAssumption DEF TypeInv, TypeOK
  <1>4. Current(o) \in 1 .. Len(made[o].sendEvents)
    BY <1>2, <1>3 DEF TypeInv, Bounds, Fits, Current
  <1>5. flowCursor[o] = Current(o) /\ flowEvents[o] = made[o].sendEvents
    BY <1>1, <1>2 DEF flowCursor, flowEvents, Cursor, EventsOf
  <1>6. flowCursor' = [flowCursor EXCEPT ![o] = @ + 1]
    <2>1. Cursor(o)' = Cursor(o) + 1
      BY <1>1, <1>2 DEF Cursor, Current, InFlight, TypeInv, TypeOK
    <2>2. \A q \in Instance \ {o}: Cursor(q)' = Cursor(q)
      BY <1>1 DEF Cursor, Current, InFlight, TypeInv, TypeOK
    <2> QED BY <2>1, <2>2 DEF flowCursor
  <1>7. flowEvents' = flowEvents
    BY <1>1 DEF flowEvents, EventsOf
  <1>8. eventSinks[o][flowEvents[o][flowCursor[o]]] = p
    BY <1>1, <1>5 DEF Target, Addressee
  <1>9. Flow!Transfer(o, p)
    BY <1>1, <1>3, <1>4, <1>5, <1>6, <1>7, <1>8
       DEF Flow!Transfer, Flow!NextType, flowEvents, flowCursor
  <1> QED BY <1>9 DEF Flow!Next

LEMMA FlowDefault ==
    ASSUME TypeInv, NEW p \in Instance, Default(p)
    PROVE  Flow!Next \/ UNCHANGED flowVars
  <1> DEFINE k == sendEvents[p].lo
  <1>1. UNCHANGED <<made, eventSinks, processed>> /\ pc[p] = "select"
    BY DEF Default, wiring
  <1>2. CASE IsEmpty(sendEvents[p])
    <2>1. UNCHANGED <<sendEvents, pc>>
      BY <1>2 DEF Default, SendNextEvent
    <2> QED BY <1>1, <2>1, FlowStutter DEF Cursor, Current, InFlight
  <1>3. CASE ~IsEmpty(sendEvents[p])
    <2>1. /\ sendEvents' = [sendEvents EXCEPT ![p] = Pop(p, sendEvents[p])]
          /\ pc' = [pc EXCEPT ![p] = AfterPop(p, k)]
      BY <1>3, PoppedEvent
    <2>2. made[p] # None /\ made[p].sendEvents \in Seq(EventType)
      BY <1>3, PoppedEvent
    <2>4. k \in 1 .. Len(made[p].sendEvents)
      BY <1>3, PoppedEvent
    <2>5. sendEvents'[p].lo = k + 1
      BY <1>3, PoppedEvent
    <2>6. Cursor(p) = k
      BY <1>1 DEF Cursor, InFlight
    <2>7. \A q \in Instance \ {p}: Cursor(q)' = Cursor(q)
      BY <2>1 DEF Cursor, Current, InFlight, TypeInv, TypeOK
    <2>8. CASE Addressee(p, k) # None
      <3>1. InFlight(p)'
        BY <2>1, <2>8 DEF InFlight, AfterPop, TypeInv, TypeOK
      <3>2. Cursor(p)' = k
        BY <2>4, <2>5, <3>1 DEF Cursor, Current
      <3> QED BY <1>1, <2>6, <2>7, <3>2, FlowStutter
    <2>9. CASE Addressee(p, k) = None
      <3>1. Cursor(p)' = k + 1
        BY <2>1, <2>5, <2>9 DEF Cursor, InFlight, AfterPop, TypeInv, TypeOK
      <3>2. flowCursor' = [flowCursor EXCEPT ![p] = @ + 1]
        BY <2>6, <2>7, <3>1 DEF flowCursor
      <3>3. flowEvents' = flowEvents
        BY <1>1 DEF flowEvents, EventsOf
      <3>4. flowCursor[p] = k /\ flowEvents[p] = made[p].sendEvents
        BY <2>2, <2>6 DEF flowCursor, flowEvents, EventsOf
      <3>5. Flow!Skip(p)
        BY <1>1, <2>4, <2>9, <3>2, <3>3, <3>4
           DEF Flow!Skip, Flow!NextType, Addressee, flowEvents, flowCursor
      <3> QED BY <3>5 DEF Flow!Next
    <2> QED BY <2>8, <2>9
  <1> QED BY <1>2, <1>3

LEMMA FlowStep == TypeInv /\ [Next]_vars => [Flow!Next]_flowVars
  <1> SUFFICES ASSUME TypeInv, [Next]_vars PROVE [Flow!Next]_flowVars
    OBVIOUS
  <1>1. ASSUME NEW p \in Instance, NEW t \in QueryType, NEW d \in Instance, AddQuerySink(p, t, d)
        PROVE  UNCHANGED flowVars
    BY <1>1, FlowStutter DEF AddQuerySink, lists, Cursor, Current, InFlight
  <1>2. ASSUME NEW p \in Instance, Call(p) PROVE [Flow!Next]_flowVars
    BY <1>1, <1>2, FlowNew, FlowConnect, FlowControl DEF Call, Control
  <1>3. ASSUME NEW p \in Instance, Loop(p) PROVE [Flow!Next]_flowVars
    BY <1>3, FlowDefault, FlowReceive, FlowControl DEF Loop, Control
  <1>4. CASE UNCHANGED vars
    BY <1>4, FlowStutter DEF vars, Cursor, Current, InFlight
  <1> QED BY <1>2, <1>3, <1>4 DEF Next

(* The goroutines, their rendezvous and their stops implement the flow of  *)
(* events that leave one list and enter another at a single instant.       *)
THEOREM EventFlowImplemented == Spec => ImplementsEventFlow
  <1>1. TypeInv /\ [Next]_vars => [Flow!Next]_(Flow!vars)
    BY FlowStep DEF Flow!vars, flowVars, flowEvents, flowCursor
  <1> QED BY <1>1, FlowInit, TypeCorrect, PTL DEF Spec, ImplementsEventFlow, Flow!Spec

-----------------------------------------------------------------------------
(* Progress.  What a goroutine still has to do is a number, and everything *)
(* it does makes the number of some goroutine smaller: Work counts its     *)
(* events, its queries and how far it is from its end.                     *)
Left(w) == (w.hi + 1) - w.lo

Stage(place) ==
    IF place = "exited" THEN 0
    ELSE IF place = "returning" THEN 1
    ELSE IF place = "select" THEN 2
    ELSE IF place \in {"parked", "launched"} THEN 3
    ELSE 4

Work(p) == 3 * Left(sendEvents[p]) + Left(sendQueries[p]) + Stage(pc[p])

LEMMA WorkTyped ==
    ASSUME TypeInv, NEW p \in Instance, made[p] # None
    PROVE  /\ sendEvents[p] \in Window /\ sendQueries[p] \in Window
           /\ Left(sendEvents[p]) \in Nat /\ Left(sendQueries[p]) \in Nat
           /\ Stage(pc[p]) \in Nat /\ Work(p) \in Nat
           /\ made[p].kind \in {"processor", "service"}
           /\ Fits(sendEvents[p], made[p].sendEvents) /\ Len(made[p].sendEvents) \in Nat
           /\ Fits(sendQueries[p], made[p].sendQueries) /\ Len(made[p].sendQueries) \in Nat
  <1>1. sendEvents[p] \in Window /\ sendQueries[p] \in Window /\ made[p] \in Params
    BY DEF TypeInv, TypeOK
  <1>2. /\ Fits(sendEvents[p], made[p].sendEvents) /\ Fits(sendQueries[p], made[p].sendQueries)
        /\ made[p].kind \in {"processor", "service"}
        /\ Len(made[p].sendEvents) \in Nat /\ Len(made[p].sendQueries) \in Nat
    BY <1>1, ParamsAssumption DEF TypeInv, Bounds
  <1>3. Left(sendEvents[p]) \in Nat /\ Left(sendQueries[p]) \in Nat
    BY <1>1, <1>2 DEF Left, Window, Fits
  <1>4. Stage(pc[p]) \in Nat
    BY DEF Stage
  <1> QED BY <1>1, <1>2, <1>3, <1>4 DEF Work

LEMMA PopLeft ==
    ASSUME NEW p, NEW w \in Window, NEW s, Len(s) \in Nat,
           made[p].kind \in {"processor", "service"},
           ~IsEmpty(w), ~PopPanics(p, w), Fits(w, s)
    PROVE  Left(Pop(p, w)) \in Nat /\ Left(Pop(p, w)) + 1 <= Left(w)
  BY DEF Window, IsEmpty, PopPanics, Fits, Pop, PopBoth, Left

\* A step that moves one goroutine on and touches no list.
LEMMA WorkOfMove ==
    ASSUME TypeInv, NEW p \in Instance, pc[p] # "new", NEW place,
           pc' = [pc EXCEPT ![p] = place], Stage(place) < Stage(pc[p]), Stage(place) \in Nat,
           UNCHANGED <<sendEvents, sendQueries>>
    PROVE  /\ \A q \in Instance: made[q] # None => Work(q)' <= Work(q)
           /\ Work(p)' < Work(p)
  <1>1. made[p] # None
    BY DEF TypeInv, Bounds
  <1>2. pc'[p] = place /\ \A q \in Instance \ {p}: pc'[q] = pc[q]
    BY DEF TypeInv, TypeOK
  <1>3. Work(p)' < Work(p)
    <2>1. Stage(pc[p])' = Stage(place)
      BY <1>2 DEF Stage
    <2> QED BY <1>1, <2>1, WorkTyped DEF Work, Left
  <1>4. \A q \in Instance \ {p}: Work(q)' = Work(q)
    BY <1>2 DEF Work, Left, Stage
  <1>5. Work(p)' \in Nat /\ \A q \in Instance: made[q] # None => Work(q) \in Nat
    <2>1. Work(p)' = 3 * Left(sendEvents[p]) + Left(sendQueries[p]) + Stage(place)
      BY <1>2 DEF Work, Left, Stage
    <2> QED BY <1>1, <2>1, WorkTyped
  <1> QED BY <1>1, <1>3, <1>4, <1>5

LEMMA WorkOfDefault ==
    ASSUME TypeInv, NEW p \in Instance, Default(p)
    PROVE  /\ \A q \in Instance: made[q] # None => Work(q)' <= Work(q)
           /\ UNCHANGED vars \/ Work(p)' < Work(p)
  <1>1. pc[p] = "select" /\ made[p] # None /\ UNCHANGED <<wiring, processed, ready, stopCaller, panicked>>
    BY DEF Default, TypeInv, Bounds
  <1>2. \/ IsEmpty(sendQueries[p]) /\ UNCHANGED <<sendQueries, queryResults>>
        \/ /\ Left(sendQueries[p])' \in Nat /\ Left(sendQueries[p])' + 1 <= Left(sendQueries[p])
           /\ \A q \in Instance \ {p}: sendQueries'[q] = sendQueries[q]
    <2>1. CASE ~IsEmpty(sendQueries[p])
      <3>1. /\ ~PopPanics(p, sendQueries[p])
            /\ sendQueries' = [sendQueries EXCEPT ![p] = Pop(p, sendQueries[p])]
        BY <2>1 DEF Default, RunNextQuery
      <3>2. sendQueries'[p] = Pop(p, sendQueries[p])
            /\ \A q \in Instance \ {p}: sendQueries'[q] = sendQueries[q]
        BY <3>1 DEF TypeInv, TypeOK
      <3>3. /\ Left(Pop(p, sendQueries[p])) \in Nat
            /\ Left(Pop(p, sendQueries[p])) + 1 <= Left(sendQueries[p])
        BY <1>1, <2>1, <3>1, WorkTyped, PopLeft
      <3> QED BY <3>2, <3>3 DEF Left
    <2>2. CASE IsEmpty(sendQueries[p])
      BY <2>2 DEF Default, RunNextQuery
    <2> QED BY <2>1, <2>2
  <1>3. \/ IsEmpty(sendEvents[p]) /\ UNCHANGED <<sendEvents, pc>>
        \/ /\ Left(sendEvents[p])' \in Nat /\ Left(sendEvents[p])' + 1 <= Left(sendEvents[p])
           /\ pc'[p] \in {"select", "sending"}
           /\ \A q \in Instance \ {p}: sendEvents'[q] = sendEvents[q] /\ pc'[q] = pc[q]
    <2>1. CASE ~IsEmpty(sendEvents[p])
      <3>1. /\ ~PopPanics(p, sendEvents[p])
            /\ sendEvents' = [sendEvents EXCEPT ![p] = Pop(p, sendEvents[p])]
            /\ pc' = [pc EXCEPT ![p] = AfterPop(p, sendEvents[p].lo)]
        BY <2>1 DEF Default, SendNextEvent
      <3>2. sendEvents'[p] = Pop(p, sendEvents[p])
            /\ pc'[p] \in {"select", "sending"}
            /\ \A q \in Instance \ {p}: sendEvents'[q] = sendEvents[q] /\ pc'[q] = pc[q]
        BY <3>1 DEF TypeInv, TypeOK, AfterPop
      <3>3. /\ Left(Pop(p, sendEvents[p])) \in Nat
            /\ Left(Pop(p, sendEvents[p])) + 1 <= Left(sendEvents[p])
        BY <1>1, <2>1, <3>1, WorkTyped, PopLeft
      <3> QED BY <3>2, <3>3 DEF Left
    <2>2. CASE IsEmpty(sendEvents[p])
      BY <2>2 DEF Default, SendNextEvent
    <2> QED BY <2>1, <2>2
  <1>4. \A q \in Instance \ {p}: Work(q)' = Work(q)
    BY <1>2, <1>3 DEF Work, Left, Stage
  <1>5. \A q \in Instance: made[q] # None => Work(q) \in Nat
    BY WorkTyped
  <1>6. UNCHANGED vars \/ Work(p)' < Work(p)
    <2>1. CASE UNCHANGED <<sendEvents, pc>> /\ UNCHANGED <<sendQueries, queryResults>>
      BY <1>1, <2>1 DEF vars, wiring
    <2> DEFINE e == Left(sendEvents[p])  f == Left(sendEvents[p])'
               x == Left(sendQueries[p])  y == Left(sendQueries[p])'
               i == Stage(pc[p])  j == Stage(pc[p])'
    <2>2. e \in Nat /\ x \in Nat /\ i = 2
      BY <1>1, WorkTyped DEF Stage
    <2>3. CASE ~(UNCHANGED <<sendEvents, pc>> /\ UNCHANGED <<sendQueries, queryResults>>)
      <3>1. \/ f = e /\ j = i
            \/ f \in Nat /\ f + 1 <= e /\ j \in {2, 4}
        BY <1>3 DEF Left, Stage
      <3>2. y = x \/ (y \in Nat /\ y + 1 <= x)
        BY <1>2 DEF Left
      <3>3. f # e \/ y # x
        BY <1>2, <1>3, <2>2, <2>3
      <3>4. Work(p) = 3 * e + x + i /\ Work(p)' = 3 * f + y + j
        BY DEF Work
      <3> HIDE DEF e, f, x, y, i, j
      <3>5. 3 * f + y + j < 3 * e + x + i
        BY <2>2, <3>1, <3>2, <3>3
      <3> QED BY <3>4, <3>5
    <2> QED BY <2>1, <2>3
  <1>7. Work(p)' <= Work(p)
    <2>1. CASE UNCHANGED vars
      <3>1. Work(p)' = Work(p)
        BY <2>1 DEF vars, Work, Left, Stage
      <3> QED BY <1>1, <1>5, <3>1
    <2>2. Left(sendEvents[p])' \in Nat /\ Left(sendQueries[p])' \in Nat
      BY <1>1, <1>2, <1>3, WorkTyped DEF Left
    <2>3. Stage(pc[p])' \in Nat
      BY DEF Stage
    <2>4. Work(p)' \in Nat
      BY <2>2, <2>3 DEF Work
    <2> QED BY <1>1, <1>5, <1>6, <2>1, <2>4
  <1> QED BY <1>4, <1>5, <1>6, <1>7

LEMMA WorkOfLoop ==
    ASSUME TypeInv, NEW p \in Instance, Loop(p)
    PROVE  /\ \A q \in Instance: made[q] # None => Work(q)' <= Work(q)
           /\ UNCHANGED vars \/ panicked' \/ \E q \in Instance: Work(q)' < Work(q)
  <1> USE DEF wiring, lists
  <1>1. CASE Default(p)
    BY <1>1, WorkOfDefault
  <1>2. CASE Panic(p)
    <2>1. UNCHANGED <<sendEvents, sendQueries, pc>> /\ panicked'
      BY <1>2 DEF Panic
    <2>2. \A q \in Instance: Work(q)' = Work(q) /\ (made[q] # None => Work(q) \in Nat)
      BY <2>1, WorkTyped DEF Work
    <2> QED BY <2>1, <2>2
  <1>3. CASE Start(p)
    <2>1. pc' = [pc EXCEPT ![p] = "select"] /\ pc[p] = "launched" /\ UNCHANGED <<sendEvents, sendQueries>>
      BY <1>3 DEF Start
    <2>2. Stage("select") < Stage("launched") /\ Stage("select") \in Nat
      BY DEF Stage
    <2>3. /\ \A r \in Instance: made[r] # None => Work(r)' <= Work(r)
          /\ Work(p)' < Work(p)
      BY <2>1, <2>2, WorkOfMove
    <2> QED BY <2>3
  <1>4. CASE Park(p)
    <2>1. pc' = [pc EXCEPT ![p] = "parked"] /\ pc[p] = "sending" /\ UNCHANGED <<sendEvents, sendQueries>>
      BY <1>4 DEF Park
    <2>2. Stage("parked") < Stage("sending") /\ Stage("parked") \in Nat
      BY DEF Stage
    <2>3. /\ \A r \in Instance: made[r] # None => Work(r)' <= Work(r)
          /\ Work(p)' < Work(p)
      BY <2>1, <2>2, WorkOfMove
    <2> QED BY <2>3
  <1>5. CASE TakeStop(p)
    <2>1. pc' = [pc EXCEPT ![p] = "returning"] /\ pc[p] = "select" /\ UNCHANGED <<sendEvents, sendQueries>>
      BY <1>5 DEF TakeStop
    <2>2. Stage("returning") < Stage("select") /\ Stage("returning") \in Nat
      BY DEF Stage
    <2>3. /\ \A r \in Instance: made[r] # None => Work(r)' <= Work(r)
          /\ Work(p)' < Work(p)
      BY <2>1, <2>2, WorkOfMove
    <2> QED BY <2>3
  <1>6. CASE Exit(p)
    <2>1. pc' = [pc EXCEPT ![p] = "exited"] /\ pc[p] = "returning" /\ UNCHANGED <<sendEvents, sendQueries>>
      BY <1>6 DEF Exit
    <2>2. Stage("exited") < Stage("returning") /\ Stage("exited") \in Nat
      BY DEF Stage
    <2>3. /\ \A r \in Instance: made[r] # None => Work(r)' <= Work(r)
          /\ Work(p)' < Work(p)
      BY <2>1, <2>2, WorkOfMove
    <2> QED BY <2>3
  <1>7. ASSUME NEW o \in Instance, Receive(p, o)
        PROVE  /\ \A q \in Instance: made[q] # None => Work(q)' <= Work(q)
               /\ \E q \in Instance: Work(q)' < Work(q)
    <2>1. pc' = [pc EXCEPT ![o] = "select"] /\ pc[o] = "parked" /\ UNCHANGED <<sendEvents, sendQueries>>
      BY <1>7 DEF Receive, BlockedOn
    <2>2. Stage("select") < Stage("parked") /\ Stage("select") \in Nat
      BY DEF Stage
    <2>3. /\ \A r \in Instance: made[r] # None => Work(r)' <= Work(r)
          /\ Work(o)' < Work(o)
      BY <2>1, <2>2, WorkOfMove
    <2> QED BY <2>3
  <1> QED BY <1>1, <1>2, <1>3, <1>4, <1>5, <1>6, <1>7 DEF Loop

LEMMA WorkOfCall ==
    ASSUME TypeInv, NEW p \in Instance, Call(p)
    PROVE  \A q \in Instance: made[q] # None => Work(q)' <= Work(q)
  <1>1. CASE UNCHANGED <<sendEvents, sendQueries, pc>>
    <2>1. \A q \in Instance: Work(q)' = Work(q) /\ (made[q] # None => Work(q) \in Nat)
      BY <1>1, WorkTyped DEF Work
    <2> QED BY <2>1
  <1>2. ASSUME NEW a \in Params, New(p, a)
        PROVE  \A q \in Instance: made[q] # None => Work(q)' <= Work(q)
    <2>1. \A q \in Instance: made[q] # None => Work(q)' = Work(q) /\ Work(q) \in Nat
      <3>1. made[p] = None /\ UNCHANGED pc /\ \A q \in Instance \ {p}:
               sendEvents'[q] = sendEvents[q] /\ sendQueries'[q] = sendQueries[q]
        BY <1>2 DEF New, TypeInv, TypeOK
      <3> QED BY <3>1, WorkTyped DEF Work
    <2> QED BY <2>1
  <1>3. CASE Run(p)
    <2>1. /\ pc[p] = "new" /\ pc' = [pc EXCEPT ![p] = "launched"]
          /\ UNCHANGED <<sendEvents, sendQueries>> /\ made[p] # None
      BY <1>3 DEF Run, lists
    <2>2. \A q \in Instance \ {p}: Work(q)' = Work(q)
      BY <2>1 DEF Work, Left, TypeInv, TypeOK
    <2>3. Work(p)' = 3 * Left(sendEvents[p]) + Left(sendQueries[p]) + 3
          /\ Work(p) = 3 * Left(sendEvents[p]) + Left(sendQueries[p]) + 4
      BY <2>1 DEF Work, Left, Stage, TypeInv, TypeOK
    <2> QED BY <2>1, <2>2, <2>3, WorkTyped
  <1> QED BY <1>1, <1>2, <1>3 DEF Call, AddEventSink, AddQuerySink, Shutdown, lists

(* Nothing that is called gives a goroutine more to do, and every step a   *)
(* goroutine takes leaves less to do, for itself or for the sender it      *)
(* releases: the loops cannot run on without getting anywhere, whatever    *)
(* the wiring and however the goroutines take turns.                       *)
WorkRunsOut ==
    [][/\ \A q \in Instance: made[q] # None => Work(q)' <= Work(q)
       /\ \A p \in Instance: Loop(p) => panicked' \/ \E q \in Instance: Work(q)' < Work(q)]_vars

(* What an instance has left to do is a natural number.                    *)
THEOREM WorkIsFinite == Spec => [](\A p \in Instance: made[p] # None => Work(p) \in Nat)
  <1>1. TypeInv => \A p \in Instance: made[p] # None => Work(p) \in Nat
    BY WorkTyped
  <1> QED BY <1>1, TypeCorrect, PTL

(* The loops of all instances together run out of work.                    *)
THEOREM EveryStepIsProgress == Spec => WorkRunsOut
  <1>1. ASSUME TypeInv, [Next]_vars
        PROVE  [/\ \A q \in Instance: made[q] # None => Work(q)' <= Work(q)
                /\ \A p \in Instance: Loop(p) => panicked' \/ \E q \in Instance: Work(q)' < Work(q)]_vars
    <2> SUFFICES ASSUME Next, ~UNCHANGED vars
                 PROVE  /\ \A q \in Instance: made[q] # None => Work(q)' <= Work(q)
                        /\ \A p \in Instance: Loop(p) => panicked' \/ \E q \in Instance: Work(q)' < Work(q)
      BY <1>1
    <2>1. \A q \in Instance: made[q] # None => Work(q)' <= Work(q)
      BY <1>1, WorkOfLoop, WorkOfCall DEF Next
    <2>2. \A p \in Instance: Loop(p) => panicked' \/ \E q \in Instance: Work(q)' < Work(q)
      BY <1>1, WorkOfLoop
    <2> QED BY <2>1, <2>2
  <1> QED BY <1>1, TypeCorrect, PTL DEF Spec, WorkRunsOut

-----------------------------------------------------------------------------
(* How a list is consumed: a processor only moves its lower end, a service *)
(* moves both ends towards each other.                                     *)
Shape(p, w, s) ==
    IF made[p].kind = "processor" THEN w.hi = Len(s) ELSE w.lo + w.hi = Len(s) + 1

Consumption ==
    \A p \in Instance: made[p] # None =>
        Shape(p, sendEvents[p], made[p].sendEvents) /\ Shape(p, sendQueries[p], made[p].sendQueries)

\* A panic is the pop of the middle element of a list.
PanicCause ==
    panicked => \E p \in Instance: made[p] # None /\
                    (PopPanics(p, sendEvents[p]) \/ PopPanics(p, sendQueries[p]))

LEMMA PopShape ==
    ASSUME NEW p, made[p].kind \in {"processor", "service"}, NEW w \in Window,
           NEW s, Len(s) \in Nat, Shape(p, w, s)
    PROVE  Shape(p, Pop(p, w), s)
  BY DEF Window, Pop, PopBoth, Shape

LEMMA ConsumptionStep == TypeInv /\ Consumption /\ [Next]_vars => Consumption'
  <1> SUFFICES ASSUME TypeInv, Consumption, [Next]_vars PROVE Consumption'
    OBVIOUS
  <1>1. ASSUME NEW p \in Instance, Default(p) PROVE Consumption'
    <2>1. made' = made /\ made[p] # None
      BY <1>1 DEF Default, wiring, TypeInv, Bounds
    <2>2. /\ sendEvents'[p] \in {sendEvents[p], Pop(p, sendEvents[p])}
          /\ sendQueries'[p] \in {sendQueries[p], Pop(p, sendQueries[p])}
          /\ \A q \in Instance \ {p}: sendEvents'[q] = sendEvents[q] /\ sendQueries'[q] = sendQueries[q]
      BY <1>1 DEF Default, RunNextQuery, SendNextEvent, TypeInv, TypeOK
    <2>3. /\ Shape(p, sendEvents'[p], made[p].sendEvents)
          /\ Shape(p, sendQueries'[p], made[p].sendQueries)
      BY <2>1, <2>2, WorkTyped, PopShape DEF Consumption
    <2>4. ASSUME NEW q \in Instance, made[q] # None
          PROVE  /\ Shape(q, sendEvents'[q], made[q].sendEvents)
                 /\ Shape(q, sendQueries'[q], made[q].sendQueries)
      BY <2>2, <2>3, <2>4 DEF Consumption
    <2> QED BY <2>1, <2>4 DEF Consumption, Shape
  <1>2. ASSUME NEW p \in Instance, NEW a \in Params, New(p, a) PROVE Consumption'
    <2>1. /\ made'[p] = a /\ sendEvents'[p] = Whole(a.sendEvents) /\ sendQueries'[p] = Whole(a.sendQueries)
          /\ \A q \in Instance \ {p}: /\ made'[q] = made[q]
                                      /\ sendEvents'[q] = sendEvents[q] /\ sendQueries'[q] = sendQueries[q]
      BY <1>2 DEF New, TypeInv, TypeOK
    <2>2. Len(a.sendEvents) \in Nat /\ Len(a.sendQueries) \in Nat
      BY ParamsAssumption
    <2>3. /\ Shape(p, sendEvents[p], made[p].sendEvents)'
          /\ Shape(p, sendQueries[p], made[p].sendQueries)'
      BY <2>1, <2>2 DEF Shape, Whole
    <2>4. \A q \in Instance \ {p}: made'[q] # None =>
              /\ Shape(q, sendEvents[q], made[q].sendEvents)'
              /\ Shape(q, sendQueries[q], made[q].sendQueries)'
      BY <2>1 DEF Consumption, Shape
    <2> QED BY <2>3, <2>4 DEF Consumption
  <1>3. CASE UNCHANGED <<made, sendEvents, sendQueries>>
    BY <1>3 DEF Consumption, Shape
  <1> QED
    BY <1>1, <1>2, <1>3
       DEF Next, Call, Loop, AddEventSink, AddQuerySink, Run, Shutdown, Start, Panic, Park,
           Receive, TakeStop, Exit, wiring, lists, vars

LEMMA PanicCauseStep == TypeInv /\ PanicCause /\ [Next]_vars => PanicCause'
  <1> SUFFICES ASSUME TypeInv, PanicCause, [Next]_vars PROVE PanicCause'
    OBVIOUS
  <1>1. ASSUME NEW p \in Instance, Panic(p) PROVE PanicCause'
    BY <1>1 DEF Panic, PanicCause, PopPanics, wiring, lists, TypeInv, Bounds
  <1>2. CASE UNCHANGED vars
    BY <1>2 DEF PanicCause, PopPanics, vars
  <1>3. CASE ~panicked'
    BY <1>3 DEF PanicCause
  <1>4. ASSUME NEW p \in Instance, Call(p) PROVE ~panicked'
    BY <1>4 DEF Call, New, AddEventSink, AddQuerySink, Run, Shutdown
  <1>5. ASSUME NEW p \in Instance, Loop(p), ~Panic(p) PROVE ~panicked'
    BY <1>5 DEF Loop, Start, Default, Park, Receive, TakeStop, Exit
  <1> QED BY <1>1, <1>2, <1>3, <1>4, <1>5 DEF Next

LEMMA ListsConsumed == Spec => [](TypeInv /\ Consumption /\ PanicCause)
  <1>1. Init => Consumption /\ PanicCause
    BY DEF Init, Consumption, PanicCause
  <1> QED BY <1>1, TypeCorrect, ConsumptionStep, PanicCauseStep, PTL DEF Spec

(* Only a service with a list of odd length makes the process panic: with  *)
(* processors, and services whose lists are of even length, no wiring and  *)
(* no order of calls and steps does.                                       *)
THEOREM OnlyOddServicesPanic ==
    Spec => [](panicked => \E p \in Instance:
                   /\ made[p] # None /\ made[p].kind = "service"
                   /\ Len(made[p].sendEvents) % 2 = 1 \/ Len(made[p].sendQueries) % 2 = 1)
  <1>1. ASSUME TypeInv, Consumption, PanicCause, panicked
        PROVE  \E p \in Instance:
                   /\ made[p] # None /\ made[p].kind = "service"
                   /\ Len(made[p].sendEvents) % 2 = 1 \/ Len(made[p].sendQueries) % 2 = 1
    <2>1. PICK p \in Instance: made[p] # None /\
                   (PopPanics(p, sendEvents[p]) \/ PopPanics(p, sendQueries[p]))
      BY <1>1 DEF PanicCause
    <2>2. made[p].kind = "service"
      BY <2>1 DEF PopPanics
    <2>3. ASSUME NEW w \in Window, NEW s, Len(s) \in Nat, w.lo = w.hi, w.lo + w.hi = Len(s) + 1
          PROVE  Len(s) % 2 = 1
      BY <2>3 DEF Window
    <2>4. /\ Shape(p, sendEvents[p], made[p].sendEvents)
          /\ Shape(p, sendQueries[p], made[p].sendQueries)
      BY <1>1, <2>1 DEF Consumption
    <2> QED BY <1>1, <2>1, <2>2, <2>3, <2>4, WorkTyped DEF PopPanics, Shape
  <1> QED BY <1>1, ListsConsumed, PTL

(* A service never sends more than the first half of its SendEvents: its   *)
(* pop gives up an entry at the other end for every event it takes.        *)
THEOREM ServicesSendHalf ==
    Spec => [](\A d \in Instance: \A i \in DOMAIN processed[d]:
                   LET e == processed[d][i]
                   IN  made[e.src].kind = "service" => 2 * e.n <= Len(made[e.src].sendEvents))
  <1>1. ASSUME TypeInv, Consumption, OnlySent, NEW d \in Instance, NEW i \in DOMAIN processed[d],
               made[processed[d][i].src].kind = "service"
        PROVE  2 * processed[d][i].n <= Len(made[processed[d][i].src].sendEvents)
    <2> DEFINE e == processed[d][i]
    <2>1. e \in Event
      BY <1>1 DEF TypeInv, TypeOK
    <2>2. e.src \in Instance /\ e.n \in Nat \ {0} /\ e.n < sendEvents[e.src].lo
      BY <1>1, <2>1 DEF OnlySent, HandedOver, Event
    <2>3. sendEvents[e.src] \in Window
      BY <1>1, <2>2 DEF TypeInv, TypeOK
    <2>4. made[e.src] # None
      BY <1>1, <2>2, <2>3 DEF TypeInv, Bounds, Window
    <2>5. /\ Shape(e.src, sendEvents[e.src], made[e.src].sendEvents)
          /\ Fits(sendEvents[e.src], made[e.src].sendEvents)
          /\ Len(made[e.src].sendEvents) \in Nat
      BY <1>1, <2>2, <2>4, WorkTyped DEF Consumption
    <2>6. ASSUME NEW w \in Window, NEW len \in Nat, NEW n \in Nat,
                 n < w.lo, w.lo <= w.hi + 1, w.lo + w.hi = len + 1
          PROVE  2 * n <= len
      BY <2>6 DEF Window
    <2>7. sendEvents[e.src].lo + sendEvents[e.src].hi = Len(made[e.src].sendEvents) + 1
      BY <1>1, <2>5 DEF Shape
    <2>8. sendEvents[e.src].lo <= sendEvents[e.src].hi + 1
      BY <2>5 DEF Fits
    <2> QED BY <2>2, <2>3, <2>5, <2>6, <2>7, <2>8
  <1>2. TypeInv /\ Consumption /\ OnlySent =>
            \A d \in Instance: \A i \in DOMAIN processed[d]:
                LET e == processed[d][i]
                IN  made[e.src].kind = "service" => 2 * e.n <= Len(made[e.src].sendEvents)
    BY <1>1
  <1> QED BY <1>2, ListsConsumed, OnlySentIsProcessed, PTL

-----------------------------------------------------------------------------
(* Rest.  A goroutine that is not able is one whose every step is blocked: *)
(* it is done, or waits for a channel, a Run or a receiver.                *)
Able(p) ==
    \/ pc[p] \in {"launched", "sending", "returning"}
    \/ /\ pc[p] = "select"
       /\ \/ stopCaller[p] \/ \E o \in Instance: BlockedOn(o, p)
          \/ ~IsEmpty(sendEvents[p]) \/ ~IsEmpty(sendQueries[p])

AtRest == \A q \in Instance: ~Able(q)

(* What is left when nobody can go on: a processor in its loop has sent    *)
(* all of its list and every event of it that has a sink was processed;    *)
(* and who is held in a push is held by an instance that was never run,    *)
(* has ended, or is itself held.                                           *)
RestIsDelivery ==
    AtRest => \A p \in Instance:
        /\ pc[p] = "select" /\ made[p].kind = "processor" =>
               \A n \in 1 .. Len(made[p].sendEvents):
                   LET d == Addressee(p, n)
                   IN  d = None \/ [src |-> p, n |-> n] \in {processed[d][i] : i \in DOMAIN processed[d]}
        /\ pc[p] = "parked" => pc[Target(p)] \in {"new", "parked", "exited"}

(* When all goroutines rest, all events have been delivered.               *)
THEOREM RestDelivers == Spec => []RestIsDelivery
  <1>1. ASSUME TypeInv, Consumption, NothingLost, AtRest, NEW p \in Instance,
               pc[p] = "select", made[p].kind = "processor",
               NEW n \in 1 .. Len(made[p].sendEvents)
        PROVE  LET d == Addressee(p, n)
               IN  d = None \/ [src |-> p, n |-> n] \in {processed[d][i] : i \in DOMAIN processed[d]}
    <2>1. made[p] # None /\ IsEmpty(sendEvents[p])
      BY <1>1 DEF AtRest, Able, TypeInv, Bounds
    <2>2. sendEvents[p].hi = Len(made[p].sendEvents) /\ sendEvents[p] \in Window
          /\ Len(made[p].sendEvents) \in Nat
      BY <1>1, <2>1, WorkTyped DEF Consumption, Shape
    <2>3. n \in 1 .. sendEvents[p].lo - 1
      BY <2>1, <2>2 DEF IsEmpty, Window
    <2> QED BY <1>1, <2>3 DEF NothingLost, InFlight
  <1>2. ASSUME TypeInv, AtRest, NEW p \in Instance, pc[p] = "parked"
        PROVE  pc[Target(p)] \in {"new", "parked", "exited"}
    <2>1. Target(p) \in Instance
      <3>1. sendEvents[p].lo > 1 /\ Target(p) # None /\ sendEvents[p].lo \in Nat
        BY <1>2 DEF TypeInv, TypeOK, Bounds, InFlight, Window
      <3>2. Current(p) \in 1 .. sendEvents[p].lo - 1
        BY <3>1 DEF Current
      <3> QED BY <1>2, <3>1, <3>2, AddresseeType DEF Target
    <2>2. pc[Target(p)] \in PC /\ ~Able(Target(p)) /\ BlockedOn(p, Target(p))
      BY <1>2, <2>1 DEF TypeInv, TypeOK, AtRest, BlockedOn
    <2> QED BY <2>2 DEF Able, PC
  <1>3. TypeInv /\ Consumption /\ NothingLost => RestIsDelivery
    BY <1>1, <1>2 DEF RestIsDelivery
  <1> QED BY <1>3, ListsConsumed, ExactlyOnceInOrder, PTL

-----------------------------------------------------------------------------
(* Dead goroutines.  A set of instances is dead when each of them has left *)
(* its loop or was rejected by Run, or is held in a push by another of     *)
(* the set: a circle of senders, or a queue of them before one that ended. *)
Gone(p) ==
    \/ pc[p] \in {"returning", "exited"}
    \/ made[p] # None /\ pc[p] = "new" /\ RunFails(p)

Dead(S) == \A p \in S: Gone(p) \/ (pc[p] = "parked" /\ Target(p) \in S)

(* They never come back: nothing any goroutine or caller does revives one, *)
(* and whoever calls Shutdown on one of them is never released.            *)
TheDeadStayDead ==
    [][\A S \in SUBSET Instance: Dead(S) =>
           Dead(S)' /\ \A p \in S: stopCaller[p] => stopCaller'[p]]_vars

\* What a step does to an instance that has ended, was rejected or is held.
LEMMA DeadEffect ==
    ASSUME TypeInv, [Next]_vars, NEW p \in Instance
    PROVE  /\ Gone(p) => Gone(p)' /\ (stopCaller[p] => stopCaller'[p])
           /\ pc[p] = "parked" =>
                  /\ stopCaller[p] => stopCaller'[p]
                  /\ \/ pc'[p] = "parked" /\ Target(p)' = Target(p)
                     \/ pc[Target(p)] = "select"
  <1> USE DEF TypeInv, TypeOK, wiring, lists, Gone, RunFails, Target, Addressee, Current
  <1>1. pc[p] # "new" => made[p] # None
    BY DEF Bounds
  <1>2. ASSUME NEW q \in Instance, NEW a \in Params, New(q, a)
        PROVE  /\ pc' = pc /\ stopCaller' = stopCaller /\ eventSinks' = eventSinks
               /\ made[p] # None => made'[p] = made[p] /\ sendEvents'[p] = sendEvents[p]
    BY <1>2 DEF New
  <1>3. ASSUME NEW q \in Instance, Default(q)
        PROVE  /\ pc[q] = "select" /\ UNCHANGED <<made, eventSinks, stopCaller>>
               /\ p # q => pc'[p] = pc[p] /\ sendEvents'[p] = sendEvents[p]
    BY <1>3 DEF Default, SendNextEvent
  <1>4. ASSUME NEW q \in Instance, NEW o \in Instance, Receive(q, o)
        PROVE  /\ UNCHANGED <<made, eventSinks, stopCaller, sendEvents>>
               /\ pc[o] = "parked" /\ Target(o) = q /\ pc[q] = "select"
               /\ p # o => pc'[p] = pc[p]
    BY <1>4 DEF Receive, BlockedOn
  <1>5. ASSUME NEW q \in Instance, NEW t \in EventType, NEW d \in Instance, AddEventSink(q, t, d)
        PROVE  /\ UNCHANGED <<made, pc, stopCaller, sendEvents>> /\ pc[q] = "new"
               /\ p # q => eventSinks'[p] = eventSinks[p]
    BY <1>5 DEF AddEventSink
  <1>6. ASSUME NEW q \in Instance, Control(q)
        PROVE  /\ UNCHANGED <<made, eventSinks, sendEvents>>
               /\ Gone(p) => Gone(p)' /\ (stopCaller[p] => stopCaller'[p])
               /\ pc[p] = "parked" => pc'[p] = "parked" /\ (stopCaller[p] => stopCaller'[p])
    BY <1>6 DEF Control, Run, Start, Panic, Park, Shutdown, TakeStop, Exit
  <1>7. CASE UNCHANGED <<made, eventSinks, pc, stopCaller, sendEvents>>
    BY <1>7
  <1>8. ASSUME NEW q \in Instance, NEW t, NEW d, AddQuerySink(q, t, d)
        PROVE  UNCHANGED <<made, eventSinks, pc, stopCaller, sendEvents>>
    BY <1>8 DEF AddQuerySink
  <1>9. CASE \E q \in Instance: \E a \in Params: New(q, a)
    BY <1>1, <1>2, <1>9
  <1>10. CASE \E q \in Instance: Default(q)
    BY <1>3, <1>10
  <1>11. CASE \E q \in Instance: \E o \in Instance: Receive(q, o)
    BY <1>4, <1>11
  <1>12. CASE \E q \in Instance: \E t \in EventType, d \in Instance: AddEventSink(q, t, d)
    BY <1>5, <1>12
  <1>13. CASE \E q \in Instance: Control(q)
    BY <1>6, <1>13
  <1> HIDE DEF Gone, Target, TypeInv, TypeOK
  <1> QED BY <1>7, <1>8, <1>9, <1>10, <1>11, <1>12, <1>13 DEF Next, Call, Loop, Control, vars

(* Circles of blocked senders never dissolve.                              *)
THEOREM DeadForEver == Spec => TheDeadStayDead
  <1>1. ASSUME TypeInv, [Next]_vars, NEW S \in SUBSET Instance, Dead(S)
        PROVE  Dead(S)' /\ \A p \in S: stopCaller[p] => stopCaller'[p]
    <2>1. ASSUME NEW p \in S
          PROVE  /\ Gone(p)' \/ (pc'[p] = "parked" /\ Target(p)' \in S)
                 /\ stopCaller[p] => stopCaller'[p]
      <3>1. CASE Gone(p)
        BY <1>1, <3>1, DeadEffect
      <3>2. CASE pc[p] = "parked" /\ Target(p) \in S
        <4>1. pc[Target(p)] # "select"
          BY <1>1, <3>2 DEF Dead, Gone
        <4> QED BY <1>1, <3>2, <4>1, DeadEffect
      <3> QED BY <1>1, <3>1, <3>2 DEF Dead
    <2> QED BY <2>1 DEF Dead
  <1>2. TypeInv /\ [Next]_vars =>
            [\A S \in SUBSET Instance: Dead(S) =>
                 Dead(S)' /\ \A p \in S: stopCaller[p] => stopCaller'[p]]_vars
    BY <1>1
  <1> QED BY <1>2, TypeCorrect, PTL DEF Spec, TheDeadStayDead
=============================================================================
