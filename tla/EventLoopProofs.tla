-------------------------- MODULE EventLoopProofs ---------------------------
(***************************************************************************)
(* Proofs about the event loop, for any events, types, capacity of the     *)
(* queue and number of tickers: where an event is, what is handled before  *)
(* Run returns, and that no delayed event is ever dispatched.  They hold   *)
(* for the loop of the protocol and for that of the metrics.               *)
(***************************************************************************)
EXTENDS Metrics, TLAPS, FiniteSetTheorems

Item(e) == [event |-> e]

Sending(e) == <<Item(e)>> \in senders

NotQueued(e) == At(eventQ, Item(e)) = {}

OnceQueued(e) == \E i \in At(eventQ, Item(e)) : At(eventQ, Item(e)) = {i}

NotWaiting(e) == \A k \in Keys : At(waitingEvents[k], e) = {}

OnceWaiting(e) ==
    \E k \in Keys :
        /\ \E i \in At(waitingEvents[k], e) : At(waitingEvents[k], e) = {i}
        /\ \A l \in Keys \ {k} : At(waitingEvents[l], e) = {}

Nowhere(e) == ~Sending(e) /\ NotQueued(e) /\ NotWaiting(e) /\ e \notin handled

\* The event is in one place, and there once.
Somewhere(e) ==
    \/ Sending(e) /\ NotQueued(e) /\ NotWaiting(e) /\ e \notin handled
    \/ ~Sending(e) /\ OnceQueued(e) /\ NotWaiting(e) /\ e \notin handled
    \/ ~Sending(e) /\ NotQueued(e) /\ OnceWaiting(e) /\ e \notin handled
    \/ ~Sending(e) /\ NotQueued(e) /\ NotWaiting(e) /\ e \in handled

Located == \A e \in Event : IF e \in added THEN Somewhere(e) ELSE Nowhere(e)

\* DelayUntil files an event under a value of the awaited type, and
\* dispatchDelayedEvents looks under the type itself: nothing is ever there.
NeverDispatched == \A t \in Types : waitingEvents[TypeKey(t)] = <<>>

\* So a goroutine in AddEvent has one event to send.
OneEach == \A s \in senders : \E x \in QueuedEvents : s = <<x>>

\* What was in the queue when Run saw the cancellation is handled or delayed, or
\* among the events that are still to be drained.
Draining ==
    /\ drained <= queued
    /\ queued - drained <= Len(eventQ)
    /\ loop = "running" => drained = 0 /\ queued = 0 /\ lastQ = {}
    /\ loop = "stopped" => drained = queued
    /\ \A e \in lastQ :
         \/ e \in handled \cup deferred
         \/ \E i \in 1..(queued - drained) : eventQ[i] = Item(e)

LoopInv == TypeOK /\ Located /\ NeverDispatched /\ OneEach /\ Draining

-----------------------------------------------------------------------------
(* Sequences and events *)

\* The places of an element after another one has been appended.
LEMMA AtAppend ==
    ASSUME NEW S, NEW q \in Seq(S), NEW x \in S, NEW y
    PROVE  /\ x = y => At(Append(q, x), y) = At(q, y) \cup {Len(q) + 1}
           /\ x # y => At(Append(q, x), y) = At(q, y)
<1>1. /\ Len(q) \in Nat /\ DOMAIN q = 1..Len(q)
      /\ DOMAIN Append(q, x) = 1..(Len(q) + 1)
      /\ \A i \in 1..Len(q) : Append(q, x)[i] = q[i]
      /\ Append(q, x)[Len(q) + 1] = x
  OBVIOUS
<1>2. \A i : i \in 1..(Len(q) + 1) <=> i \in 1..Len(q) \/ i = Len(q) + 1
  BY <1>1
<1> QED
  BY <1>1, <1>2, Zenon DEF At

\* The places of an element after the first one has been taken.
LEMMA AtTail ==
    ASSUME NEW S, NEW q \in Seq(S), q # <<>>, NEW y
    PROVE  /\ At(q, y) = {} => At(Tail(q), y) = {} /\ q[1] # y
           /\ (\E i \in At(q, y) : At(q, y) = {i}) =>
                IF q[1] = y THEN At(Tail(q), y) = {}
                ELSE \E i \in At(Tail(q), y) : At(Tail(q), y) = {i}
<1>1. /\ Len(q) \in Nat /\ Len(q) > 0 /\ DOMAIN q = 1..Len(q)
      /\ DOMAIN Tail(q) = 1..(Len(q) - 1)
      /\ \A i \in 1..(Len(q) - 1) : Tail(q)[i] = q[i + 1]
  OBVIOUS
<1>2. \A i \in At(Tail(q), y) : i \in Nat /\ i > 0 /\ i + 1 \in At(q, y)
  BY <1>1 DEF At
<1>3. \A i \in At(q, y) : i \in Nat /\ (i # 1 => i - 1 \in At(Tail(q), y))
  <2> SUFFICES ASSUME NEW i \in At(q, y), i # 1 PROVE i - 1 \in At(Tail(q), y)
    BY <1>1 DEF At
  <2>1. i \in 1..Len(q) /\ q[i] = y
    BY <1>1, Zenon DEF At
  <2>2. i - 1 \in 1..(Len(q) - 1) /\ (i - 1) + 1 = i
    BY <1>1, <2>1
  <2> QED
    BY <1>1, <2>1, <2>2, Zenon DEF At
<1>4. 1 \in At(q, y) <=> q[1] = y
  BY <1>1 DEF At
<1>5. ASSUME NEW i \in At(q, y), At(q, y) = {i}
      PROVE  IF q[1] = y THEN At(Tail(q), y) = {}
             ELSE \E j \in At(Tail(q), y) : At(Tail(q), y) = {j}
  <2>1. CASE q[1] = y
    <3>1. i = 1
      BY <1>4, <1>5, <2>1, Zenon
    <3>2. \A j \in At(Tail(q), y) : j + 1 = 1 /\ j \in Nat /\ j > 0
      BY <1>2, <1>5, <3>1, Zenon
    <3> QED
      BY <2>1, <3>2
  <2>2. CASE q[1] # y
    <3>1. i # 1 /\ i \in Nat /\ i - 1 \in At(Tail(q), y)
      BY <1>3, <1>4, <2>2, Zenon
    <3>2. \A j \in At(Tail(q), y) : j = i - 1
      BY <1>2, <1>5, <3>1
    <3> QED
      BY <2>2, <3>1, <3>2, Zenon
  <2> QED
    BY <2>1, <2>2, Zenon
<1> QED
  BY <1>2, <1>4, <1>5, Zenon

\* The queue items of events are one-to-one and differ from the ticks.
LEMMA ItemKinds ==
    /\ \A e \in Event : Item(e) \in QueuedEvents
    /\ \A e, f : Item(e) = Item(f) => e = f
    /\ \A q \in QueuedEvents :
         /\ "event" \in DOMAIN q => q.event \in Event /\ q = Item(q.event)
         /\ "event" \notin DOMAIN q => \A e : q # Item(e)
         /\ "start" \in DOMAIN q => q.start \in TickerId /\ "event" \notin DOMAIN q
         /\ "tick" \in DOMAIN q => "event" \notin DOMAIN q
    /\ \A id \in TickerId :
         /\ StartTickerEvent(id) \in QueuedEvents /\ TickEvent(id) \in QueuedEvents
         /\ \A e : StartTickerEvent(id) # Item(e) /\ TickEvent(id) # Item(e)
<1>1. \A e \in Event : Item(e) \in QueuedEvents
  BY Zenon DEF Item, QueuedEvents
<1>2. \A e, f : Item(e) = Item(f) => e = f
  BY Zenon DEF Item
<1>3. \A e : DOMAIN Item(e) = {"event"}
  BY Zenon DEF Item
<1>4. \A q \in [event : Event] : DOMAIN q = {"event"} /\ q.event \in Event /\ q = Item(q.event)
  BY DEF Item
<1>5. \A q \in [start : TickerId] : DOMAIN q = {"start"} /\ q.start \in TickerId
  BY Zenon
<1>6. \A q \in [tick : TickerId] : DOMAIN q = {"tick"} /\ q.tick \in TickerId
  BY Zenon
<1>7. \A q \in QueuedEvents :
         /\ "event" \in DOMAIN q => q.event \in Event /\ q = Item(q.event)
         /\ "event" \notin DOMAIN q => \A e : q # Item(e)
         /\ "start" \in DOMAIN q => q.start \in TickerId /\ "event" \notin DOMAIN q
         /\ "tick" \in DOMAIN q => "event" \notin DOMAIN q
  BY <1>3, <1>4, <1>5, <1>6, Zenon DEF QueuedEvents
<1>8. \A id \in TickerId :
         /\ StartTickerEvent(id) \in [start : TickerId]
         /\ TickEvent(id) \in [tick : TickerId]
  BY Zenon DEF StartTickerEvent, TickEvent
<1>9. \A id \in TickerId : \A e : StartTickerEvent(id) # Item(e) /\ TickEvent(id) # Item(e)
  BY <1>3, <1>5, <1>6, <1>8, Zenon
<1> QED
  BY <1>1, <1>2, <1>7, <1>8, <1>9, Zenon DEF QueuedEvents

\* The key of DelayUntil is never the key of a dispatch.
LEMMA KeyKinds ==
    /\ \A t \in Types : ValueKey(t) \in Keys /\ TypeKey(t) \in Keys
    /\ \A t, u \in Types : ValueKey(t) # TypeKey(u)
BY Zenon DEF ValueKey, TypeKey, Keys

\* One item is one item, whatever it is wrapped in.
LEMMA Wrapped == \A x, y : <<x>> = <<y>> => x = y
BY Zenon

-----------------------------------------------------------------------------
(* What taking an event does *)

\* The handler is done with e, or delays it.
Done(e) == handled' = handled \cup {e} /\ UNCHANGED <<waitingEvents, deferred>>

Delayed(e) ==
    /\ e \notin deferred
    /\ deferred' = deferred \cup {e}
    /\ UNCHANGED handled
    /\ \E u \in Types : waitingEvents' = [waitingEvents EXCEPT ![ValueKey(u)] = Append(@, e)]

\* processEvent handles an event, delays it, or handles a tick.
LEMMA TakeEffect ==
    ASSUME TypeOK, NeverDispatched, TakeEvent
    PROVE  /\ eventQ # <<>> /\ Head(eventQ) = eventQ[1] /\ eventQ[1] \in QueuedEvents
           /\ eventQ' = Tail(eventQ)
           /\ UNCHANGED <<senders, added, tickers, tickerID, cancelled, removed>>
           /\ \/ \E e \in Event :
                   /\ eventQ[1] = Item(e) /\ (Done(e) \/ Delayed(e)) /\ UNCHANGED ticking
                   /\ due' = due \cup {d \in deferred : TypeOf[e] \in Awaits[d]}
              \/ /\ \A e : eventQ[1] # Item(e)
                 /\ UNCHANGED eventVars
                 /\ UNCHANGED ticking \/ \E id \in TickerId : StartTicker(id)
<1> DEFINE q == Head(eventQ)
<1>1. eventQ # <<>> /\ eventQ \in Seq(QueuedEvents)
  BY Zenon DEF TakeEvent, TypeOK
<1>2. Head(eventQ) = eventQ[1] /\ q \in QueuedEvents
  BY <1>1
<1>3. CASE "event" \in DOMAIN q
  <2> DEFINE e == q.event
             t == TypeOf[e]
  <2>1. e \in Event /\ q = Item(e) /\ "tick" \notin DOMAIN q /\ "start" \notin DOMAIN q
    BY <1>2, <1>3, ItemKinds, Zenon
  <2>2. t \in Types /\ Awaits[e] \subseteq Types
    BY <2>1, EventLoopAssumption, Zenon
  <2>3. ProcessEvent(e) /\ UNCHANGED ticking
    BY <2>1, Zenon DEF TakeEvent
  <2>4. ASSUME NEW w \in [Keys -> Seq(Event)], w[TypeKey(t)] = <<>>, DispatchDelayedEvents(t, w)
        PROVE  waitingEvents' = w /\ senders' = senders
    <3>1. [i \in DOMAIN w[TypeKey(t)] |-> [event |-> w[TypeKey(t)][i]]] = <<>>
      BY <2>4
    <3>2. senders' = senders
      BY <2>4, <3>1, Zenon DEF DispatchDelayedEvents
    <3>3. waitingEvents' = [w EXCEPT ![TypeKey(t)] = <<>>]
      BY <2>4, Zenon DEF DispatchDelayedEvents
    <3>4. [w EXCEPT ![TypeKey(t)] = <<>>] = w
      BY <2>4, Zenon
    <3> QED
      BY <3>2, <3>3, <3>4, Zenon
  <2>5. waitingEvents \in [Keys -> Seq(Event)] /\ waitingEvents[TypeKey(t)] = <<>>
    BY <2>2, Zenon DEF TypeOK, NeverDispatched
  <2>6. ASSUME NEW u \in Types
        PROVE  DelayUntil(u, e) \in [Keys -> Seq(Event)] /\ DelayUntil(u, e)[TypeKey(t)] = <<>>
    BY <2>1, <2>2, <2>5, KeyKinds DEF DelayUntil
  <2>7. CASE handled' = handled \cup {e} /\ DispatchDelayedEvents(t, waitingEvents) /\ UNCHANGED deferred
    BY <1>1, <1>2, <2>1, <2>3, <2>4, <2>5, <2>7, Zenon DEF Done, TakeEvent, ProcessEvent
  <2>8. CASE /\ e \notin deferred
             /\ \E u \in Awaits[e] : DispatchDelayedEvents(t, DelayUntil(u, e))
             /\ deferred' = deferred \cup {e}
             /\ UNCHANGED handled
    <3>1. PICK u \in Types : DispatchDelayedEvents(t, DelayUntil(u, e))
      BY <2>2, <2>8, Zenon
    <3>2. waitingEvents' = DelayUntil(u, e) /\ senders' = senders
      BY <2>4, <2>6, <3>1, Zenon
    <3>3. Delayed(e)
      BY <2>8, <3>2, Zenon DEF Delayed, DelayUntil
    <3> QED
      BY <1>1, <1>2, <2>1, <2>3, <3>2, <3>3, Zenon DEF TakeEvent, ProcessEvent
  <2> QED
    BY <2>3, <2>7, <2>8, Zenon DEF ProcessEvent
<1>4. CASE "event" \notin DOMAIN q
  <2>1. \A e : q # Item(e)
    BY <1>2, <1>4, ItemKinds, Zenon
  <2>2. UNCHANGED <<senders, eventVars>> /\ (UNCHANGED ticking \/ \E id \in TickerId : StartTicker(id))
    BY <1>2, <1>4, ItemKinds, Zenon DEF TakeEvent
  <2> QED
    BY <1>1, <1>2, <2>1, <2>2, Zenon DEF TakeEvent
<1> QED
  BY <1>3, <1>4, Zenon

-----------------------------------------------------------------------------
(* Where an event is *)

\* An event is where it was when the places did not change for it.
LEMMA StaysLocated ==
    ASSUME NEW e, Sending(e)' <=> Sending(e),
           At(eventQ', Item(e)) = At(eventQ, Item(e)), UNCHANGED waitingEvents,
           e \in handled' <=> e \in handled
    PROVE  /\ Somewhere(e) => Somewhere(e)'
           /\ Nowhere(e) => Nowhere(e)'
<1>1. /\ NotQueued(e)' <=> NotQueued(e)
      /\ OnceQueued(e)' <=> OnceQueued(e)
  BY Zenon DEF NotQueued, OnceQueued, Item
<1>2. /\ NotWaiting(e)' <=> NotWaiting(e)
      /\ OnceWaiting(e)' <=> OnceWaiting(e)
  BY Zenon DEF NotWaiting, OnceWaiting
<1> QED
  BY <1>1, <1>2, Zenon DEF Somewhere, Nowhere

\* AddEvent puts a new event into one place.
LEMMA AddEventLocated ==
    ASSUME TypeOK, Located, NEW a \in Event, AddEvent(a)
    PROVE  Located'
<1> SUFFICES ASSUME NEW e \in Event
             PROVE  IF e \in added' THEN Somewhere(e)' ELSE Nowhere(e)'
  BY Zenon DEF Located
<1>1. /\ a \notin added /\ added' = added \cup {a}
      /\ senders' = senders \cup {<<Item(a)>>}
      /\ UNCHANGED <<eventQ, waitingEvents, handled>>
  BY Zenon DEF AddEvent, eventVars, Item
<1>2. CASE e = a
  <2>1. Nowhere(e)
    BY <1>1, <1>2, Zenon DEF Located
  <2>2. Sending(e)' /\ NotQueued(e)' /\ NotWaiting(e)' /\ e \notin handled'
    BY <1>1, <1>2, <2>1, Zenon DEF Nowhere, Sending, NotQueued, NotWaiting, Item
  <2> QED
    BY <1>1, <1>2, <2>2, Zenon DEF Somewhere
<1>3. CASE e # a
  <2>1. <<Item(e)>> # <<Item(a)>>
    BY <1>3, ItemKinds, Wrapped, Zenon
  <2>2. Sending(e)' <=> Sending(e)
    BY <1>1, <2>1, Zenon DEF Sending, Item
  <2> QED
    BY <1>1, <1>3, <2>2, StaysLocated, Zenon DEF Located
<1> QED
  BY <1>2, <1>3, Zenon

\* A sender moves its event to the end of the queue.
LEMMA SendLocated ==
    ASSUME TypeOK, Located, OneEach, NEW s \in senders, Send(s)
    PROVE  Located'
<1> SUFFICES ASSUME NEW e \in Event
             PROVE  IF e \in added' THEN Somewhere(e)' ELSE Nowhere(e)'
  BY Zenon DEF Located
<1>1. PICK x \in QueuedEvents : s = <<x>>
  BY Zenon DEF OneEach
<1>2. Head(s) = x /\ Tail(s) = <<>>
  BY <1>1
<1>3. /\ eventQ' = Append(eventQ, x) /\ senders' = senders \ {s}
      /\ UNCHANGED <<added, waitingEvents, handled>>
  BY <1>2, Zenon DEF Send, eventVars
<1>4. eventQ \in Seq(QueuedEvents)
  BY Zenon DEF TypeOK
<1>5. CASE x = Item(e)
  <2>1. Sending(e) /\ ~Sending(e)'
    BY <1>1, <1>3, <1>5, Zenon DEF Sending, Item
  <2>2. e \in added /\ NotQueued(e) /\ NotWaiting(e) /\ e \notin handled
    BY <2>1, Zenon DEF Located, Somewhere, Nowhere
  <2>3. At(eventQ', Item(e)) = {Len(eventQ) + 1}
    BY <1>3, <1>4, <1>5, <2>2, AtAppend DEF NotQueued
  <2>4. OnceQueued(e)' /\ NotWaiting(e)'
    BY <1>3, <2>2, <2>3, Zenon DEF OnceQueued, NotWaiting, Item
  <2> QED
    BY <1>3, <2>1, <2>2, <2>4, Zenon DEF Somewhere
<1>6. CASE x # Item(e)
  <2>1. <<x>> # <<Item(e)>>
    BY <1>6, Wrapped, Zenon
  <2>2. Sending(e)' <=> Sending(e)
    BY <1>1, <1>3, <2>1, Zenon DEF Sending, Item
  <2>3. At(eventQ', Item(e)) = At(eventQ, Item(e))
    BY <1>3, <1>4, <1>6, AtAppend
  <2> QED
    BY <1>3, <2>2, <2>3, StaysLocated, Zenon DEF Located
<1> QED
  BY <1>5, <1>6, Zenon

\* The events of tickers do not change where others are.
LEMMA TickerLocated ==
    ASSUME TypeOK, Located, NEW x \in QueuedEvents, \A e \in Event : x # Item(e),
           UNCHANGED <<added, waitingEvents, handled>>,
           \/ eventQ' = Append(eventQ, x) /\ UNCHANGED senders
           \/ senders' = senders \cup {<<x>>} /\ UNCHANGED eventQ
    PROVE  Located'
<1> SUFFICES ASSUME NEW e \in Event
             PROVE  IF e \in added' THEN Somewhere(e)' ELSE Nowhere(e)'
  BY Zenon DEF Located
<1>1. eventQ \in Seq(QueuedEvents)
  BY Zenon DEF TypeOK
<1>2. At(eventQ', Item(e)) = At(eventQ, Item(e))
  <2>1. At(Append(eventQ, x), Item(e)) = At(eventQ, Item(e))
    BY <1>1, AtAppend
  <2>2. eventQ' = Append(eventQ, x) \/ eventQ' = eventQ
    BY Zenon
  <2> QED
    BY <2>1, <2>2, Zenon
<1>3. <<x>> # <<Item(e)>>
  BY Wrapped, Zenon
<1>4. Sending(e)' <=> Sending(e)
  BY <1>3, Zenon DEF Sending, Item
<1> QED
  BY <1>2, <1>4, StaysLocated, Zenon DEF Located

\* Nothing moves in the other steps.
LEMMA SameLocated ==
    ASSUME Located, UNCHANGED <<added, waitingEvents, handled, eventQ, senders>>
    PROVE  Located'
<1>1. \A e : Sending(e)' <=> Sending(e)
  BY Zenon DEF Sending, Item
<1>2. \A e : At(eventQ', Item(e)) = At(eventQ, Item(e))
  BY Zenon
<1>3. \A e : (Somewhere(e) => Somewhere(e)') /\ (Nowhere(e) => Nowhere(e)')
  BY <1>1, <1>2, StaysLocated, Zenon
<1> QED
  BY <1>3, Zenon DEF Located

\* processEvent moves an event from the queue to one other place.
LEMMA TakeLocated ==
    ASSUME TypeOK, Located, NeverDispatched, TakeEvent
    PROVE  Located'
<1> SUFFICES ASSUME NEW e \in Event
             PROVE  IF e \in added' THEN Somewhere(e)' ELSE Nowhere(e)'
  BY Zenon DEF Located
<1>1. eventQ \in Seq(QueuedEvents) /\ waitingEvents \in [Keys -> Seq(Event)]
  BY Zenon DEF TypeOK
<1>2. eventQ # <<>> /\ eventQ' = Tail(eventQ) /\ UNCHANGED <<senders, added>>
  BY TakeEffect, Zenon
<1>3. Sending(e)' <=> Sending(e)
  BY <1>2, Zenon DEF Sending, Item
<1>4. /\ NotQueued(e) => NotQueued(e)' /\ eventQ[1] # Item(e)
      /\ OnceQueued(e) => IF eventQ[1] = Item(e) THEN NotQueued(e)' ELSE OnceQueued(e)'
  BY <1>1, <1>2, AtTail, Zenon DEF NotQueued, OnceQueued, Item
<1>5. CASE eventQ[1] = Item(e)
  <2>1. /\ e \in added /\ ~Sending(e) /\ OnceQueued(e) /\ NotWaiting(e) /\ e \notin handled
    BY <1>4, <1>5, Zenon DEF Located, Somewhere, Nowhere
  <2>2. ~Sending(e)' /\ NotQueued(e)' /\ e \in added'
    BY <1>2, <1>3, <1>4, <1>5, <2>1, Zenon
  <2>3. Done(e) \/ Delayed(e)
    BY <1>5, TakeEffect, ItemKinds, Zenon
  <2>4. CASE Done(e)
    BY <2>1, <2>2, <2>4, Zenon DEF Done, Somewhere, NotWaiting
  <2>5. CASE Delayed(e)
    <3>1. PICK u \in Types : waitingEvents' = [waitingEvents EXCEPT ![ValueKey(u)] = Append(@, e)]
      BY <2>5, Zenon DEF Delayed
    <3> DEFINE k == ValueKey(u)
    <3>2. k \in Keys
      BY KeyKinds, Zenon
    <3>3. /\ waitingEvents'[k] = Append(waitingEvents[k], e)
          /\ \A l \in Keys \ {k} : waitingEvents'[l] = waitingEvents[l]
      BY <1>1, <3>1, <3>2, Zenon
    <3>4. At(waitingEvents[k], e) = {} /\ waitingEvents[k] \in Seq(Event)
      BY <1>1, <2>1, <3>2, Zenon DEF NotWaiting
    <3>5. At(waitingEvents'[k], e) = {Len(waitingEvents[k]) + 1}
      BY <3>3, <3>4, AtAppend
    <3>6. \A l \in Keys \ {k} : At(waitingEvents'[l], e) = {}
      BY <2>1, <3>3, Zenon DEF NotWaiting
    <3>7. OnceWaiting(e)'
      BY <3>2, <3>5, <3>6, Zenon DEF OnceWaiting
    <3> QED
      BY <2>1, <2>2, <2>5, <3>7, Zenon DEF Somewhere, Delayed
  <2> QED
    BY <2>3, <2>4, <2>5, Zenon
<1>6. CASE eventQ[1] # Item(e)
  <2>1. e \in handled' <=> e \in handled
    BY <1>6, TakeEffect, ItemKinds, Zenon DEF Done, Delayed, eventVars
  <2>2. \A k \in Keys : At(waitingEvents'[k], e) = At(waitingEvents[k], e)
    <3>1. CASE UNCHANGED waitingEvents
      BY <3>1, Zenon
    <3>2. CASE \E f \in Event : eventQ[1] = Item(f) /\ Delayed(f)
      <4>1. PICK f \in Event : eventQ[1] = Item(f) /\ Delayed(f)
        BY <3>2, Zenon
      <4>2. f # e
        BY <1>6, <4>1, Zenon
      <4>3. PICK u \in Types : waitingEvents' = [waitingEvents EXCEPT ![ValueKey(u)] = Append(@, f)]
        BY <4>1, Zenon DEF Delayed
      <4>4. ASSUME NEW k \in Keys PROVE At(waitingEvents'[k], e) = At(waitingEvents[k], e)
        <5>1. waitingEvents[k] \in Seq(Event)
          BY <1>1, Zenon
        <5>2. CASE k = ValueKey(u)
          BY <1>1, <4>2, <4>3, <5>1, <5>2, AtAppend
        <5>3. CASE k # ValueKey(u)
          BY <1>1, <4>3, <5>3, Zenon
        <5> QED
          BY <5>2, <5>3, Zenon
      <4> QED
        BY <4>4, Zenon
    <3> QED
      BY <3>1, <3>2, TakeEffect, Zenon DEF Done, eventVars
  <2>3. (NotWaiting(e)' <=> NotWaiting(e)) /\ (OnceWaiting(e)' <=> OnceWaiting(e))
    BY <2>2, Zenon DEF NotWaiting, OnceWaiting
  <2> QED
    BY <1>2, <1>3, <1>4, <1>6, <2>1, <2>3, Zenon DEF Located, Somewhere, Nowhere
<1> QED
  BY <1>5, <1>6, Zenon

-----------------------------------------------------------------------------
(* The inductive invariant *)

\* An event that is somewhere was added.
LEMMA QueuedAdded ==
    ASSUME Located, NEW e \in Event, eventQ \in Seq(QueuedEvents), eventQ # <<>>, eventQ[1] = Item(e)
    PROVE  e \in added
<1>1. 1 \in At(eventQ, Item(e))
  BY DEF At
<1> QED
  BY <1>1, Zenon DEF Located, Nowhere, NotQueued

\* What processEvent does to the queue and the delayed events.
LEMMA TakeTypes ==
    ASSUME TypeOK, Located, NeverDispatched, TakeEvent
    PROVE  /\ eventQ' \in Seq(QueuedEvents) /\ Len(eventQ') = Len(eventQ) - 1
           /\ \A i \in 1..Len(eventQ') : eventQ'[i] = eventQ[i + 1]
           /\ waitingEvents' \in [Keys -> Seq(Event)]
           /\ senders' = senders
           /\ ticking' \in [TickerId -> {"no", "begin", "send", "wait", "end"}]
           /\ deferred' \subseteq Event /\ added' = added /\ handled' \subseteq added'
           /\ due' \subseteq deferred'
           /\ tickers' = tickers /\ tickerID' = tickerID /\ cancelled' = cancelled /\ removed' = removed
           /\ NeverDispatched'
<1>1. /\ eventQ \in Seq(QueuedEvents) /\ eventQ # <<>> /\ eventQ' = Tail(eventQ)
      /\ UNCHANGED <<senders, added, tickers, tickerID, cancelled, removed>>
  BY TakeEffect, Zenon DEF TypeOK
<1>2. /\ eventQ' \in Seq(QueuedEvents) /\ Len(eventQ') = Len(eventQ) - 1
      /\ \A i \in 1..Len(eventQ') : eventQ'[i] = eventQ[i + 1]
  BY <1>1
<1>3. ticking' \in [TickerId -> {"no", "begin", "send", "wait", "end"}]
  BY TakeEffect, Zenon DEF TypeOK, StartTicker
<1>4. ASSUME NEW e \in Event, eventQ[1] = Item(e), Done(e) \/ Delayed(e),
             due' = due \cup {d \in deferred : TypeOf[e] \in Awaits[d]}
      PROVE  /\ waitingEvents' \in [Keys -> Seq(Event)] /\ deferred' \subseteq Event
             /\ handled' \subseteq added' /\ due' \subseteq deferred' /\ NeverDispatched'
  <2>1. e \in added
    BY <1>1, <1>4, QueuedAdded, Zenon
  <2>2. handled' \subseteq added' /\ deferred' \subseteq Event /\ due' \subseteq deferred'
    BY <1>1, <1>4, <2>1, Zenon DEF Done, Delayed, TypeOK
  <2>3. waitingEvents' \in [Keys -> Seq(Event)] /\ NeverDispatched'
    <3>1. CASE Done(e)
      BY <3>1, Zenon DEF Done, TypeOK, NeverDispatched
    <3>2. CASE Delayed(e)
      <4>1. PICK u \in Types : waitingEvents' = [waitingEvents EXCEPT ![ValueKey(u)] = Append(@, e)]
        BY <3>2, Zenon DEF Delayed
      <4>2. /\ waitingEvents \in [Keys -> Seq(Event)] /\ ValueKey(u) \in Keys
            /\ Append(waitingEvents[ValueKey(u)], e) \in Seq(Event)
        BY KeyKinds DEF TypeOK
      <4>3. waitingEvents' \in [Keys -> Seq(Event)]
        BY <4>1, <4>2, Zenon
      <4>4. \A t \in Types : waitingEvents'[TypeKey(t)] = waitingEvents[TypeKey(t)]
        BY <4>1, <4>2, KeyKinds, Zenon
      <4> QED
        BY <4>3, <4>4, Zenon DEF NeverDispatched
    <3> QED
      BY <1>4, <3>1, <3>2, Zenon
  <2> QED
    BY <2>2, <2>3, Zenon
<1>5. ASSUME UNCHANGED eventVars
      PROVE  /\ waitingEvents' \in [Keys -> Seq(Event)] /\ deferred' \subseteq Event
             /\ handled' \subseteq added' /\ due' \subseteq deferred' /\ NeverDispatched'
  BY <1>1, <1>5, Zenon DEF eventVars, TypeOK, NeverDispatched
<1>6. /\ waitingEvents' \in [Keys -> Seq(Event)] /\ deferred' \subseteq Event
      /\ handled' \subseteq added' /\ due' \subseteq deferred' /\ NeverDispatched'
  BY <1>4, <1>5, TakeEffect, Zenon
<1> QED
  BY <1>1, <1>2, <1>3, <1>6, Zenon

\* What is drained is handled or delayed.
LEMMA TakeDrains ==
    ASSUME TypeOK, NeverDispatched, TakeEvent
    PROVE  /\ handled \cup deferred \subseteq handled' \cup deferred'
           /\ \A e \in Event : eventQ[1] = Item(e) => e \in handled' \cup deferred'
BY TakeEffect, ItemKinds, Zenon DEF Done, Delayed, eventVars

\* The goroutines beside the loop keep the types.
LEMMA OtherTypes ==
    ASSUME TypeOK, OneEach, OtherGoroutine(Event)
    PROVE  TypeOK' /\ OneEach'
<1>1. ASSUME NEW e \in Event, AddEvent(e) PROVE TypeOK' /\ OneEach'
  <2>1. <<Item(e)>> \in Seq(QueuedEvents) /\ Item(e) \in QueuedEvents
    BY ItemKinds
  <2>2. senders' = senders \cup {<<Item(e)>>}
    BY <1>1, Zenon DEF AddEvent, Item
  <2>3. OneEach'
    BY <2>1, <2>2, Zenon DEF OneEach
  <2> QED
    BY <1>1, <2>1, <2>2, <2>3, Zenon DEF AddEvent, TypeOK, eventVars, tickerVars, stopVars
<1>2. ASSUME NEW s \in senders, Send(s) PROVE TypeOK' /\ OneEach'
  <2>1. PICK x \in QueuedEvents : s = <<x>>
    BY Zenon DEF OneEach
  <2>2. Head(s) = x /\ Tail(s) = <<>>
    BY <2>1
  <2>3. eventQ' = Append(eventQ, x) /\ senders' = senders \ {s} /\ Len(eventQ) < BufferSize
    BY <1>2, <2>2, Zenon DEF Send, HasRoom
  <2>4. eventQ' \in Seq(QueuedEvents) /\ Len(eventQ') <= BufferSize
    BY <2>3, EventLoopAssumption DEF TypeOK
  <2> QED
    BY <1>2, <2>3, <2>4, Zenon DEF Send, TypeOK, OneEach, eventVars, tickerVars, stopVars
<1>3. CASE AddTicker
  <2> DEFINE x == StartTickerEvent(tickerID)
  <2>1. tickerID \in TickerId /\ tickerID + 1 \in 0..MaxTickers
    BY <1>3, EventLoopAssumption DEF AddTicker, TickerId, TypeOK
  <2>2. x \in QueuedEvents
    BY <2>1, ItemKinds, Zenon
  <2> HIDE DEF x
  <2>3. <<x>> \in Seq(QueuedEvents)
    BY <2>2
  <2>4. senders' = senders \cup {<<x>>}
    BY <1>3, Zenon DEF AddTicker, x
  <2>5. OneEach'
    BY <2>2, <2>4, Zenon DEF OneEach
  <2>6. tickers' \subseteq TickerId /\ tickerID' \in 0..MaxTickers /\ senders' \subseteq Seq(QueuedEvents)
    BY <1>3, <2>1, <2>3, <2>4, Zenon DEF AddTicker, TypeOK
  <2> QED
    BY <1>3, <2>5, <2>6, Zenon DEF AddTicker, TypeOK, eventVars, stopVars
<1>4. ASSUME NEW id \in TickerId, RemoveTicker(id) PROVE TypeOK' /\ OneEach'
  BY <1>4, Zenon DEF RemoveTicker, TypeOK, OneEach, eventVars, stopVars
<1>5. ASSUME NEW id \in TickerId, BeginTicker(id) \/ Tick(id) \/ EndTicker(id) PROVE TypeOK' /\ OneEach'
  BY <1>5, Zenon DEF BeginTicker, Tick, EndTicker, TypeOK, OneEach, eventVars, stopVars
<1>6. ASSUME NEW id \in TickerId, SendTick(id) PROVE TypeOK' /\ OneEach'
  <2>1. TickEvent(id) \in QueuedEvents
    BY ItemKinds, Zenon
  <2>2. eventQ' = Append(eventQ, TickEvent(id)) /\ Len(eventQ) < BufferSize
    BY <1>6, Zenon DEF SendTick, HasRoom
  <2>3. eventQ' \in Seq(QueuedEvents) /\ Len(eventQ') <= BufferSize
    BY <2>1, <2>2, EventLoopAssumption DEF TypeOK
  <2> QED
    BY <1>6, <2>3, Zenon DEF SendTick, TypeOK, OneEach, eventVars, stopVars
<1> QED
  BY <1>1, <1>2, <1>3, <1>4, <1>5, <1>6, Zenon DEF OtherGoroutine

\* The loop and its cancellation keep the types.
LEMMA LoopTypes ==
    ASSUME LoopInv, RunEvent \/ Cancel \/ SeeCancelled \/ DrainEvent \/ Stop
    PROVE  TypeOK' /\ OneEach'
<1>1. TypeOK /\ OneEach /\ Located /\ NeverDispatched /\ Draining
  BY Zenon DEF LoopInv
<1>6. ASSUME TakeEvent, UNCHANGED <<loop, ctxDone, queued, lastQ>>, drained' \in 0..BufferSize
      PROVE  TypeOK' /\ OneEach'
  <2>1. /\ eventQ' \in Seq(QueuedEvents) /\ Len(eventQ') = Len(eventQ) - 1
        /\ waitingEvents' \in [Keys -> Seq(Event)]
        /\ ticking' \in [TickerId -> {"no", "begin", "send", "wait", "end"}]
        /\ deferred' \subseteq Event /\ added' = added /\ handled' \subseteq added'
        /\ due' \subseteq deferred'
        /\ tickers' = tickers /\ tickerID' = tickerID /\ cancelled' = cancelled /\ removed' = removed
    BY <1>1, <1>6, TakeTypes, Zenon
  <2>2. senders' = senders
    BY <1>1, <1>6, TakeTypes, Zenon
  <2>3. Len(eventQ') <= BufferSize
    BY <1>1, <2>1, EventLoopAssumption DEF TypeOK
  <2> QED
    BY <1>1, <1>6, <2>1, <2>2, <2>3, Zenon DEF TypeOK, OneEach
<1>2. CASE RunEvent
  BY <1>1, <1>2, <1>6, Zenon DEF RunEvent, stopVars, TypeOK
<1>3. CASE DrainEvent
  <2>1. drained' \in 0..BufferSize
    BY <1>1, <1>3, EventLoopAssumption DEF DrainEvent, MoreToDrain, TypeOK
  <2> QED
    BY <1>3, <1>6, <2>1, Zenon DEF DrainEvent
<1>4. CASE SeeCancelled
  <2>1. EventsOf(eventQ) \subseteq Event
    <3>1. eventQ \in Seq(QueuedEvents)
      BY <1>1, Zenon DEF TypeOK
    <3>2. \A i \in DOMAIN eventQ : eventQ[i] \in QueuedEvents
      BY <3>1
    <3> QED
      BY <3>2, ItemKinds DEF EventsOf
  <2>2. Len(eventQ) \in 0..BufferSize
    BY <1>1, EventLoopAssumption DEF TypeOK
  <2> QED
    BY <1>1, <1>4, <2>1, <2>2, Zenon DEF SeeCancelled, TypeOK, OneEach, eventVars, tickerVars
<1>5. CASE Cancel \/ Stop
  BY <1>1, <1>5, Zenon DEF Cancel, Stop, TypeOK, OneEach, eventVars, tickerVars
<1> QED
  BY <1>2, <1>3, <1>4, <1>5, Zenon

\* The queue only grows at its end, or nothing is drained yet.
LEMMA OtherDraining ==
    ASSUME TypeOK, Draining, UNCHANGED <<stopVars, handled, deferred>>,
           eventQ' = eventQ \/ \E x \in QueuedEvents : eventQ' = Append(eventQ, x)
    PROVE  Draining'
<1>1. eventQ \in Seq(QueuedEvents) /\ drained \in Nat /\ queued \in Nat
  BY DEF TypeOK
<1>2. /\ Len(eventQ) \in Nat /\ Len(eventQ') \in Nat /\ Len(eventQ) <= Len(eventQ')
      /\ \A i \in 1..Len(eventQ) : eventQ'[i] = eventQ[i]
  BY <1>1
<1>3. 1..(queued - drained) \subseteq 1..Len(eventQ)
  BY <1>1, <1>2 DEF Draining
<1>4. UNCHANGED <<loop, drained, queued, lastQ>>
  BY Zenon DEF stopVars
<1>5. ASSUME NEW e \in lastQ
      PROVE  \/ e \in handled \cup deferred
             \/ \E i \in 1..(queued - drained) : eventQ'[i] = Item(e)
  BY <1>2, <1>3, <1>5, Zenon DEF Draining
<1>6. queued - drained <= Len(eventQ')
  BY <1>1, <1>2 DEF Draining
<1> QED
  BY <1>4, <1>5, <1>6, Zenon DEF Draining, Item

\* What is left of the queue at the cancellation is at its head.
LEMMA LoopDraining ==
    ASSUME LoopInv, RunEvent \/ Cancel \/ SeeCancelled \/ DrainEvent \/ Stop
    PROVE  Draining'
<1>1. TypeOK /\ Located /\ NeverDispatched /\ Draining
  BY Zenon DEF LoopInv
<1>2. /\ eventQ \in Seq(QueuedEvents) /\ drained \in Nat /\ queued \in Nat /\ lastQ \subseteq Event
      /\ Len(eventQ) \in Nat
  BY <1>1 DEF TypeOK
<1>3. CASE RunEvent
  <2>1. drained' = 0 /\ queued' = 0 /\ lastQ' = {} /\ loop' = "running"
    BY <1>1, <1>3, Zenon DEF RunEvent, stopVars, Draining
  <2>2. eventQ' \in Seq(QueuedEvents)
    BY <1>1, <1>3, TakeTypes, Zenon DEF RunEvent
  <2>3. Len(eventQ') \in Nat
    BY <2>2
  <2> QED
    BY <2>1, <2>3 DEF Draining
<1>4. CASE SeeCancelled
  <2>1. /\ drained' = 0 /\ queued' = Len(eventQ) /\ lastQ' = EventsOf(eventQ)
        /\ loop' = "draining" /\ eventQ' = eventQ
    BY <1>1, <1>4, Zenon DEF SeeCancelled, Draining
  <2>2. ASSUME NEW e \in EventsOf(eventQ) PROVE \E i \in 1..Len(eventQ) : eventQ[i] = Item(e)
    <3>1. PICK i \in DOMAIN eventQ : "event" \in DOMAIN eventQ[i] /\ e = eventQ[i].event
      BY Zenon DEF EventsOf
    <3>2. i \in 1..Len(eventQ) /\ eventQ[i] \in QueuedEvents
      BY <1>2
    <3> QED
      BY <3>1, <3>2, ItemKinds, Zenon
  <2>3. Len(eventQ) - 0 = Len(eventQ)
    BY <1>2
  <2> QED
    BY <1>2, <2>1, <2>2, <2>3 DEF Draining, Item
<1>5. CASE DrainEvent
  <2>1. /\ TakeEvent /\ drained' = drained + 1 /\ drained < queued
        /\ UNCHANGED <<loop, queued, lastQ>> /\ loop = "draining"
    BY <1>5, Zenon DEF DrainEvent, MoreToDrain
  <2>2. /\ Len(eventQ') = Len(eventQ) - 1
        /\ \A i \in 1..Len(eventQ') : eventQ'[i] = eventQ[i + 1]
    BY <1>1, <2>1, TakeTypes, Zenon
  <2>3. /\ handled \cup deferred \subseteq handled' \cup deferred'
        /\ \A e \in Event : eventQ[1] = Item(e) => e \in handled' \cup deferred'
    BY <1>1, <2>1, TakeDrains, Zenon
  <2>4. queued - drained <= Len(eventQ)
    BY <1>1, Zenon DEF Draining
  <2>5. ASSUME NEW e \in lastQ
        PROVE  \/ e \in handled' \cup deferred'
               \/ \E i \in 1..(queued - (drained + 1)) : eventQ'[i] = Item(e)
    <3>1. CASE e \in handled \cup deferred
      BY <2>3, <3>1, Zenon
    <3>2. ASSUME NEW i \in 1..(queued - drained), eventQ[i] = Item(e), i # 1
          PROVE  \E j \in 1..(queued - (drained + 1)) : eventQ'[j] = Item(e)
      <4>1. /\ i - 1 \in 1..(queued - (drained + 1)) /\ i - 1 \in 1..(Len(eventQ) - 1)
            /\ (i - 1) + 1 = i
        BY <1>2, <2>4, <3>2
      <4>2. eventQ'[i - 1] = Item(e)
        BY <2>2, <3>2, <4>1, Zenon
      <4> QED
        BY <4>1, <4>2, Zenon
    <3> QED
      BY <1>1, <1>2, <2>3, <2>5, <3>1, <3>2, Zenon DEF Draining
  <2>6. drained + 1 <= queued /\ queued - (drained + 1) <= Len(eventQ')
    BY <1>2, <2>1, <2>2, <2>4
  <2> QED
    BY <2>1, <2>5, <2>6, Zenon DEF Draining, Item
<1>6. CASE Cancel \/ Stop
  <2>1. UNCHANGED <<eventQ, handled, deferred, drained, queued, lastQ>>
    BY <1>6, Zenon DEF Cancel, Stop, eventVars
  <2>2. /\ loop' = "running" => loop = "running"
        /\ loop' = "stopped" => drained = queued
    BY <1>1, <1>2, <1>6 DEF Cancel, Stop, Draining, MoreToDrain
  <2> QED
    BY <1>1, <2>1, <2>2, Zenon DEF Draining, Item
<1> QED
  BY <1>3, <1>4, <1>5, <1>6, Zenon

\* The invariant holds at the start.
LEMMA LoopInit == Init => LoopInv
<1> SUFFICES ASSUME Init PROVE LoopInv
  BY Zenon
<1>1. TypeOK
  <2>1. 0 \in 0..BufferSize /\ 0 \in 0..MaxTickers /\ Len(<<>>) <= BufferSize
    BY EventLoopAssumption
  <2>2. eventQ \in Seq(QueuedEvents) /\ waitingEvents \in [Keys -> Seq(Event)]
    BY DEF Init
  <2> QED
    BY <2>1, <2>2, Zenon DEF Init, TypeOK
<1>2. NeverDispatched
  BY KeyKinds, Zenon DEF Init, NeverDispatched
<1>3. \A e : Nowhere(e)
  BY DEF Init, Nowhere, Sending, NotQueued, NotWaiting, At
<1> QED
  BY <1>1, <1>2, <1>3 DEF Init, LoopInv, Located, OneEach, Draining

\* Every step keeps the invariant.
LEMMA LoopStep == LoopInv /\ [Next]_vars => LoopInv'
<1> SUFFICES ASSUME LoopInv, [Next]_vars PROVE LoopInv'
  BY Zenon
<1>1. TypeOK /\ Located /\ NeverDispatched /\ OneEach /\ Draining
  BY Zenon DEF LoopInv
<1>2. CASE OtherGoroutine(Event)
  <2>1. TypeOK' /\ OneEach'
    BY <1>1, <1>2, OtherTypes, Zenon
  <2>2. UNCHANGED <<stopVars, eventVars>>
    BY <1>2, Zenon DEF OtherGoroutine, AddEvent, Send, AddTicker, RemoveTicker, BeginTicker, SendTick,
       Tick, EndTicker
  <2>3. NeverDispatched'
    BY <1>1, <2>2, Zenon DEF NeverDispatched, eventVars
  <2>4. eventQ' = eventQ \/ \E x \in QueuedEvents : eventQ' = Append(eventQ, x)
    <3>1. \A s \in senders : Head(s) \in QueuedEvents
      BY <1>1 DEF OneEach
    <3>2. \A id \in TickerId : TickEvent(id) \in QueuedEvents
      BY ItemKinds, Zenon
    <3> QED
      BY <1>2, <3>1, <3>2, Zenon DEF OtherGoroutine, AddEvent, Send, AddTicker, RemoveTicker, BeginTicker,
         SendTick, Tick, EndTicker
  <2>5. Draining'
    BY <1>1, <2>2, <2>4, OtherDraining, Zenon DEF eventVars
  <2>6. Located'
    <3>1. ASSUME NEW e \in Event, AddEvent(e) PROVE Located'
      BY <1>1, <3>1, AddEventLocated, Zenon
    <3>2. ASSUME NEW s \in senders, Send(s) PROVE Located'
      BY <1>1, <3>2, SendLocated, Zenon
    <3>3. CASE AddTicker
      <4>1. tickerID \in TickerId
        BY <1>1, <3>3, EventLoopAssumption DEF AddTicker, TypeOK, TickerId
      <4>2. StartTickerEvent(tickerID) \in QueuedEvents /\ \A e : StartTickerEvent(tickerID) # Item(e)
        BY <4>1, ItemKinds, Zenon
      <4> QED
        BY <1>1, <3>3, <4>2, TickerLocated, Zenon DEF AddTicker, eventVars
    <3>4. ASSUME NEW id \in TickerId, SendTick(id) PROVE Located'
      <4>1. TickEvent(id) \in QueuedEvents /\ \A e : TickEvent(id) # Item(e)
        BY ItemKinds, Zenon
      <4> QED
        BY <1>1, <3>4, <4>1, TickerLocated, Zenon DEF SendTick, eventVars
    <3>5. ASSUME NEW id \in TickerId,
                 RemoveTicker(id) \/ BeginTicker(id) \/ Tick(id) \/ EndTicker(id)
          PROVE  Located'
      BY <1>1, <3>5, SameLocated, Zenon DEF RemoveTicker, BeginTicker, Tick, EndTicker, eventVars
    <3> QED
      BY <1>2, <3>1, <3>2, <3>3, <3>4, <3>5, Zenon DEF OtherGoroutine
  <2> QED
    BY <2>1, <2>3, <2>5, <2>6, Zenon DEF LoopInv
<1>3. CASE RunEvent \/ Cancel \/ SeeCancelled \/ DrainEvent \/ Stop
  <2>1. TypeOK' /\ OneEach' /\ Draining'
    BY <1>3, LoopTypes, LoopDraining, Zenon
  <2>2. CASE TakeEvent
    BY <1>1, <2>1, <2>2, TakeLocated, TakeTypes, Zenon DEF LoopInv
  <2>3. CASE Cancel \/ SeeCancelled \/ Stop
    <3>1. UNCHANGED <<eventQ, senders, added, eventVars>>
      BY <2>3, Zenon DEF Cancel, SeeCancelled, Stop
    <3>2. Located' /\ NeverDispatched'
      BY <1>1, <3>1, SameLocated, Zenon DEF eventVars, NeverDispatched
    <3> QED
      BY <2>1, <3>2, Zenon DEF LoopInv
  <2> QED
    BY <1>3, <2>2, <2>3, Zenon DEF RunEvent, DrainEvent
<1>4. CASE UNCHANGED vars
  <2>1. TypeOK'
    BY <1>1, <1>4, Zenon DEF vars, TypeOK, eventVars, tickerVars, stopVars
  <2>2. Located'
    BY <1>1, <1>4, SameLocated, Zenon DEF vars, eventVars
  <2> QED
    BY <1>1, <1>4, <2>1, <2>2, Zenon
       DEF vars, eventVars, stopVars, LoopInv, NeverDispatched, OneEach, Draining, Item
<1> QED
  BY <1>2, <1>3, <1>4, Zenon DEF Next

\* The invariant always holds.
LEMMA LoopAlways == Spec => []LoopInv
BY LoopInit, LoopStep, PTL DEF Spec

\* An event that is somewhere is in one of the places.
LEMMA OnePlace ==
    ASSUME OneEach, NEW e, Somewhere(e)
    PROVE  \E place \in Places(e) : Places(e) = {place}
<1>1. \A x : x \in Places(e) <=>
        \/ \E s \in senders : \E i \in At(s, Item(e)) : x = <<"sender", s, i>>
        \/ \E i \in At(eventQ, Item(e)) : x = <<"queue", i>>
        \/ \E k \in Keys : \E i \in At(waitingEvents[k], e) : x = <<"waiting", k, i>>
        \/ e \in handled /\ x = <<"handled">>
  <2> DEFINE A == UNION {{<<"sender", s, i>> : i \in At(s, Item(e))} : s \in senders}
             B == {<<"queue", i>> : i \in At(eventQ, Item(e))}
             C == UNION {{<<"waiting", k, i>> : i \in At(waitingEvents[k], e)} : k \in Keys}
             D == {<<"handled">> : h \in handled \cap {e}}
  <2>1. Places(e) = A \cup B \cup C \cup D
    BY Zenon DEF Places, Item
  <2>2. \A x : x \in A <=> \E s \in senders : \E i \in At(s, Item(e)) : x = <<"sender", s, i>>
    OBVIOUS
  <2>3. \A x : x \in B <=> \E i \in At(eventQ, Item(e)) : x = <<"queue", i>>
    BY Zenon
  <2>4. \A x : x \in C <=> \E k \in Keys : \E i \in At(waitingEvents[k], e) : x = <<"waiting", k, i>>
    OBVIOUS
  <2>5. \A x : x \in D <=> e \in handled /\ x = <<"handled">>
    BY Zenon
  <2> HIDE DEF A, B, C, D
  <2> QED
    BY <2>1, <2>2, <2>3, <2>4, <2>5, Zenon
<1>2. \A s \in senders : \A i \in At(s, Item(e)) : i = 1 /\ s = <<Item(e)>>
  BY DEF OneEach, At
<1>3. 1 \in At(<<Item(e)>>, Item(e))
  BY DEF At
<1>4. CASE Sending(e) /\ NotQueued(e) /\ NotWaiting(e) /\ e \notin handled
  <2>1. \A x : x \in Places(e) <=> x = <<"sender", <<Item(e)>>, 1>>
    BY <1>1, <1>2, <1>3, <1>4, Zenon DEF Sending, NotQueued, NotWaiting
  <2> DEFINE y == <<"sender", <<Item(e)>>, 1>>
  <2> HIDE DEF y
  <2>5. \A x : x \in Places(e) <=> x = y
    BY <2>1, Zenon DEF y
  <2>6. Places(e) = {y}
    BY <2>5, Zenon
  <2> QED
    BY <2>6, Zenon
<1>5. ASSUME ~Sending(e) PROVE \A s \in senders : At(s, Item(e)) = {}
  BY <1>2, <1>5, Zenon DEF Sending
<1>6. CASE ~Sending(e) /\ OnceQueued(e) /\ NotWaiting(e) /\ e \notin handled
  <2>1. PICK i \in At(eventQ, Item(e)) : At(eventQ, Item(e)) = {i}
    BY <1>6, Zenon DEF OnceQueued
  <2>2. \A x : x \in Places(e) <=> x = <<"queue", i>>
    BY <1>1, <1>5, <1>6, <2>1, Zenon DEF NotWaiting
  <2> DEFINE y == <<"queue", i>>
  <2> HIDE DEF y
  <2>5. \A x : x \in Places(e) <=> x = y
    BY <2>2, Zenon DEF y
  <2>6. Places(e) = {y}
    BY <2>5, Zenon
  <2> QED
    BY <2>6, Zenon
<1>7. CASE ~Sending(e) /\ NotQueued(e) /\ OnceWaiting(e) /\ e \notin handled
  <2>1. PICK k \in Keys : /\ \E i \in At(waitingEvents[k], e) : At(waitingEvents[k], e) = {i}
                         /\ \A l \in Keys \ {k} : At(waitingEvents[l], e) = {}
    BY <1>7, Zenon DEF OnceWaiting
  <2>2. PICK i \in At(waitingEvents[k], e) : At(waitingEvents[k], e) = {i}
    BY <2>1, Zenon
  <2>3. \A x : x \in Places(e) <=> x = <<"waiting", k, i>>
    BY <1>1, <1>5, <1>7, <2>1, <2>2 DEF NotQueued
  <2> DEFINE y == <<"waiting", k, i>>
  <2> HIDE DEF y
  <2>5. \A x : x \in Places(e) <=> x = y
    BY <2>3, Zenon DEF y
  <2>6. Places(e) = {y}
    BY <2>5, Zenon
  <2> QED
    BY <2>6, Zenon
<1>8. CASE ~Sending(e) /\ NotQueued(e) /\ NotWaiting(e) /\ e \in handled
  <2>1. \A x : x \in Places(e) <=> x = <<"handled">>
    BY <1>1, <1>5, <1>8 DEF NotQueued, NotWaiting
  <2> DEFINE y == <<"handled">>
  <2> HIDE DEF y
  <2>5. \A x : x \in Places(e) <=> x = y
    BY <2>1, Zenon DEF y
  <2>6. Places(e) = {y}
    BY <2>5, Zenon
  <2> QED
    BY <2>6, Zenon
<1> QED
  BY <1>4, <1>6, <1>7, <1>8, Zenon DEF Somewhere

-----------------------------------------------------------------------------
(* The theorems *)

\* The types, among them that the queue holds at most its capacity.
THEOREM LoopTypesHold == Spec => []TypeOK
<1>1. LoopInv => TypeOK
  BY Zenon DEF LoopInv
<1> QED
  BY <1>1, LoopAlways, PTL

\* AddEvent and Run: an event that was added is in exactly one place from then
\* on, whatever the capacity, the number of senders and the events delayed.
THEOREM EventsAreKept == Spec => []EventsKept
<1>1. LoopInv => EventsKept
  BY OnePlace, Zenon DEF LoopInv, Located, EventsKept, TypeOK
<1> QED
  BY <1>1, LoopAlways, PTL

\* Run: when it returns, everything that was in the queue when it saw the
\* cancellation has been handled or delayed, though senders refill the queue.
THEOREM QueueIsDrained == Spec => []QueueDrained
<1>1. LoopInv => QueueDrained
  <2> SUFFICES ASSUME LoopInv, loop = "stopped", NEW e \in lastQ
               PROVE  e \in handled \cup deferred
    BY Zenon DEF QueueDrained
  <2>1. drained = queued /\ drained \in Nat
    BY DEF LoopInv, Draining, TypeOK
  <2>2. 1..(queued - drained) = {}
    BY <2>1
  <2> QED
    BY <2>2, Zenon DEF LoopInv, Draining
<1> QED
  BY <1>1, LoopAlways, PTL

\* DelayUntil and dispatchDelayedEvents use different keys, so that no delayed
\* event is ever among those that a dispatch sends on.
THEOREM DelayedNeverDispatched == Spec => []NeverDispatched
<1>1. LoopInv => NeverDispatched
  BY Zenon DEF LoopInv
<1> QED
  BY <1>1, LoopAlways, PTL

\* The loops that the metrics observe are event loops: what holds of Spec holds
\* of them.
LEMMA MetricsRefine == MetricsSpec => Spec
<1>1. MetricsInit => Init
  BY Zenon DEF MetricsInit
<1>2. [MetricsNext]_<<vars, metricVars, role>> => [Next]_vars
  <2>1. OwnEvents \subseteq Event
    BY Zenon DEF OwnEvents
  <2>2. OtherGoroutine(OwnEvents) => OtherGoroutine(Event)
    BY <2>1, Zenon DEF OtherGoroutine
  <2>3. MetricsNext => Next
    BY <2>2, Zenon DEF MetricsNext, Next
  <2> QED
    BY <2>3, Zenon
<1> QED
  BY <1>1, <1>2, PTL DEF MetricsSpec, Spec
-----------------------------------------------------------------------------
(* The measurements *)

\* A measurement m counts the events of the set events.
Counts(m, events) ==
    /\ m.throughput.commits = Cardinality(OfType(events, "CommitEvent"))
    /\ m.views.views = Cardinality(OfType(events, "ViewChangeEvent"))
    /\ m.count = Cardinality(OfType(events, "LatencyMeasurementEvent"))

\* The numbers of commits, view changes and latencies in the measurements.
NumbersExact ==
    /\ Counts(Measurement, since)
    /\ \A m \in log : Counts(m.logged, m.events)

\* What the metrics see was added to their loop and is handled, and the other
\* loop has no measurements.
MetricsInv ==
    /\ MeasuredOnce
    /\ NumbersExact
    /\ IsFiniteSet(since)
    /\ since \subseteq handled
    /\ \A m \in log : m.events \subseteq handled
    /\ Metric => added \subseteq OwnEvents
    /\ ~Metric => since = {} /\ log = {}

\* A counter goes up by one with each new event of its type.
LEMMA OneMore ==
    ASSUME NEW S, IsFiniteSet(S), NEW e, e \notin S, NEW t
    PROVE  /\ Cardinality(OfType(S, t)) \in Nat
           /\ Cardinality(OfType(S \cup {e}, t)) =
                Cardinality(OfType(S, t)) + (IF TypeOf[e] = t THEN 1 ELSE 0)
<1>1. IsFiniteSet(OfType(S, t)) /\ e \notin OfType(S, t)
  BY FS_Subset, Zenon DEF OfType
<1>2. Cardinality(OfType(S, t)) \in Nat
  BY <1>1, FS_CardinalityType, Zenon
<1>3. CASE TypeOf[e] = t
  <2>1. OfType(S \cup {e}, t) = OfType(S, t) \cup {e}
    BY <1>3, Zenon DEF OfType
  <2> QED
    BY <1>1, <1>2, <1>3, <2>1, FS_AddElement, ZenonT(40)
<1>4. CASE TypeOf[e] # t
  <2>1. OfType(S \cup {e}, t) = OfType(S, t)
    BY <1>4, Zenon DEF OfType
  <2> QED
    BY <1>2, <1>4, <2>1
<1> QED
  BY <1>3, <1>4, Zenon

\* A handler counts its event.
LEMMA HandleCounts ==
    ASSUME Counts(Measurement, since), IsFiniteSet(since), NEW e, e \notin since, Handle(e)
    PROVE  Counts(Measurement', since')
<1>1. since' = since \cup {e}
  BY Zenon DEF Handle
<1>2. ASSUME NEW t
      PROVE  /\ Cardinality(OfType(since, t)) \in Nat
             /\ Cardinality(OfType(since', t)) =
                  Cardinality(OfType(since, t)) + (IF TypeOf[e] = t THEN 1 ELSE 0)
  BY <1>1, OneMore, Zenon
<1> DEFINE c == Cardinality(OfType(since, "CommitEvent"))
           v == Cardinality(OfType(since, "ViewChangeEvent"))
           l == Cardinality(OfType(since, "LatencyMeasurementEvent"))
<1>3. c \in Nat /\ v \in Nat /\ l \in Nat
  BY <1>2, Zenon
<1>4. throughput.commits = c /\ viewTimeouts.views = v /\ wf.count = l
  BY DEF Counts, Measurement
<1> DEFINE C == Cardinality(OfType(since', "CommitEvent"))
           V == Cardinality(OfType(since', "ViewChangeEvent"))
           W == Cardinality(OfType(since', "LatencyMeasurementEvent"))
<1>5. /\ C = c + (IF TypeOf[e] = "CommitEvent" THEN 1 ELSE 0)
      /\ V = v + (IF TypeOf[e] = "ViewChangeEvent" THEN 1 ELSE 0)
      /\ W = l + (IF TypeOf[e] = "LatencyMeasurementEvent" THEN 1 ELSE 0)
  BY <1>2, Zenon
<1> HIDE DEF c, v, l, C, V, W
<1>6. throughput'.commits = C /\ viewTimeouts'.views = V /\ wf'.count = W
  <2>1. CASE TypeOf[e] = "CommitEvent" /\ RecordCommit(Value[e])
    BY <1>3, <1>4, <1>5, <2>1 DEF RecordCommit
  <2>2. CASE TypeOf[e] = "ViewChangeEvent" /\ ViewChange(Value[e])
    BY <1>3, <1>4, <1>5, <2>2 DEF ViewChange
  <2>3. CASE TypeOf[e] = "LatencyMeasurementEvent" /\ AddLatency(Value[e])
    BY <1>3, <1>4, <1>5, <2>3 DEF AddLatency, Update
  <2> QED
    BY <2>1, <2>2, <2>3, Zenon DEF Handle
<1> QED
  BY <1>6 DEF Counts, Measurement, C, V, W

\* Nothing is counted after a tick.
LEMMA NothingCounted ==
    ASSUME NEW m, m.throughput.commits = 0, m.views.views = 0, m.count = 0
    PROVE  Counts(m, {})
<1>1. \A t : OfType({}, t) = {}
  BY Zenon DEF OfType
<1> QED
  BY <1>1, FS_EmptySet DEF Counts

\* The metrics take the next item of the queue.
LEMMA MetricsTake ==
    ASSUME LoopInv, MetricsInv, Metric, TakeEvent, Observe(Head(eventQ)), role' = role
    PROVE  MetricsInv'
<1>1. TypeOK /\ Located /\ NeverDispatched
  BY Zenon DEF LoopInv
<1>2. /\ eventQ # <<>> /\ Head(eventQ) = eventQ[1] /\ eventQ[1] \in QueuedEvents /\ added' = added
      /\ eventQ \in Seq(QueuedEvents)
  BY <1>1, TakeEffect, Zenon DEF TypeOK
<1>3. Metric' /\ OwnEvents' = OwnEvents
  BY Zenon DEF Metric, OwnEvents
<1> DEFINE q == eventQ[1]
<1>4. CASE "event" \in DOMAIN q
  <2> DEFINE e == q.event
  <2>1. e \in Event /\ q = Item(e) /\ "tick" \notin DOMAIN q /\ "start" \notin DOMAIN q
    BY <1>2, <1>4, ItemKinds, Zenon
  <2>2. e \in added
    BY <1>1, <1>2, <2>1, QueuedAdded, Zenon
  <2>3. e \notin handled
    <3>1. 1 \in At(eventQ, Item(e))
      BY <1>2, <2>1 DEF At
    <3> QED
      BY <1>1, <2>1, <2>2, <3>1, Zenon DEF Located, Somewhere, NotQueued
  <2>4. Awaits[e] = {}
    <3>1. TypeOf[e] \in MetricTypes[role]
      BY <2>2, Zenon DEF MetricsInv, OwnEvents
    <3> QED
      BY <2>1, <3>1, MetricTypesAssumption, ZenonT(40) DEF Metric
  <2>5. handled' = handled \cup {e}
    BY <1>2, <2>1, <2>4, Zenon DEF TakeEvent, ProcessEvent
  <2>6. Handle(e)
    BY <1>2, <1>4, Zenon DEF Observe
  <2>7. since' = since \cup {e} /\ log' = log
    BY <2>6, Zenon DEF Handle
  <2> HIDE DEF e
  <2>8. e \notin since /\ \A m \in log : e \notin m.events
    BY <2>3, Zenon DEF MetricsInv
  <2>9. Counts(Measurement, since)' /\ IsFiniteSet(since')
    BY <2>6, <2>7, <2>8, HandleCounts, FS_AddElement, Zenon DEF MetricsInv, NumbersExact
  <2>10. NumbersExact'
    BY <2>7, <2>9, Zenon DEF MetricsInv, NumbersExact, Counts, OfType
  <2>11. MeasuredOnce'
    <3>1. \A m \in log : m.events \cap since' = {}
      BY <2>7, <2>8, Zenon DEF MetricsInv, MeasuredOnce
    <3>2. handled' = since' \cup UNION {m.events : m \in log}
      BY <2>5, <2>7, Zenon DEF MetricsInv, MeasuredOnce
    <3> QED
      BY <2>7, <3>1, <3>2, Zenon DEF MetricsInv, MeasuredOnce
  <2>12. since' \subseteq handled' /\ \A m \in log' : m.events \subseteq handled'
    BY <2>5, <2>7, Zenon DEF MetricsInv
  <2> QED
    BY <1>2, <1>3, <2>9, <2>10, <2>11, <2>12, Zenon DEF MetricsInv
<1>5. CASE "event" \notin DOMAIN q
  <2>1. handled' = handled
    BY <1>2, <1>5, ItemKinds, Zenon DEF TakeEvent, eventVars
  <2>2. CASE UNCHANGED <<throughput, viewTimeouts, wf, log, since>>
    <3>1. Measurement' = Measurement
      BY <2>2, Zenon DEF Measurement
    <3>2. NumbersExact'
      BY <2>2, <3>1, Zenon DEF MetricsInv, NumbersExact, Counts, OfType
    <3>3. MeasuredOnce'
      BY <1>3, <2>1, <2>2, Zenon DEF MetricsInv, MeasuredOnce
    <3> QED
      BY <1>2, <1>3, <2>1, <2>2, <3>2, <3>3, Zenon DEF MetricsInv
  <2>3. CASE ObserveTick
    <3> DEFINE n == [events |-> since, logged |-> Measurement]
    <3>1. log' = log \cup {n} /\ since' = {}
      BY <2>3, Zenon DEF ObserveTick
    <3>2. n.events = since /\ n.logged = Measurement
      BY Zenon
    <3>3. throughput'.commits = 0 /\ viewTimeouts'.views = 0 /\ wf'.count = 0
      BY <2>3, Zenon DEF ObserveTick, TickThroughput, TickViewTimeouts, TickLatency, NoThroughput,
         NoViews, Reset
    <3> HIDE DEF n
    <3>4. Measurement'.throughput.commits = 0 /\ Measurement'.views.views = 0
          /\ Measurement'.count = 0
      BY <3>3, Zenon DEF Measurement
    <3>5. Counts(Measurement', since')
      BY <3>1, <3>4, NothingCounted, Zenon
    <3>6. \A m \in log' : Counts(m.logged, m.events)
      BY <3>1, <3>2, Zenon DEF MetricsInv, NumbersExact
    <3>7. NumbersExact'
      BY <3>5, <3>6, Zenon DEF NumbersExact, Counts, OfType
    <3>8. \A m, o \in log' : m = o \/ m.events \cap o.events = {}
      BY <3>1, <3>2, Zenon DEF MetricsInv, MeasuredOnce
    <3>9. handled' = since' \cup UNION {m.events : m \in log'}
      BY <2>1, <3>1, <3>2, ZenonT(30) DEF MetricsInv, MeasuredOnce
    <3>10. MeasuredOnce'
      BY <3>1, <3>8, <3>9, Zenon DEF MeasuredOnce
    <3>11. \A m \in log' : m.events \subseteq handled'
      BY <2>1, <3>1, <3>2, Zenon DEF MetricsInv
    <3>12. IsFiniteSet(since') /\ since' \subseteq handled'
      BY <3>1, FS_EmptySet, Zenon
    <3> QED
      BY <1>2, <1>3, <3>7, <3>10, <3>11, <3>12 DEF MetricsInv
  <2> QED
    BY <1>2, <1>5, <2>2, <2>3, Zenon DEF Observe, OnTick, metricVars
<1> QED
  BY <1>4, <1>5, Zenon

\* Nothing is measured by the other steps.
LEMMA MetricsSame ==
    ASSUME MetricsInv, UNCHANGED <<metricVars, role, handled>>, Metric => added' \subseteq OwnEvents
    PROVE  MetricsInv'
<1>1. UNCHANGED <<throughput, viewTimeouts, wf, log, since>>
  BY Zenon DEF metricVars
<1>2. Measurement' = Measurement /\ (Metric' <=> Metric) /\ OwnEvents' = OwnEvents
  BY <1>1, Zenon DEF Measurement, Metric, OwnEvents
<1>3. NumbersExact'
  BY <1>1, <1>2, Zenon DEF MetricsInv, NumbersExact, Counts, OfType
<1>4. MeasuredOnce'
  BY <1>1, <1>2, Zenon DEF MetricsInv, MeasuredOnce
<1> QED
  BY <1>1, <1>2, <1>3, <1>4, Zenon DEF MetricsInv

\* Nothing has been handled and nothing measured at the start.
LEMMA MetricsStart == MetricsInit => MetricsInv
<1> SUFFICES ASSUME MetricsInit PROVE MetricsInv
  BY Zenon
<1>1. since = {} /\ log = {} /\ handled = {} /\ added = {}
  BY Zenon DEF MetricsInit, Init
<1>2. Measurement.throughput.commits = 0 /\ Measurement.views.views = 0 /\ Measurement.count = 0
  BY Zenon DEF MetricsInit, NoThroughput, NoViews, Reset, Measurement
<1>3. Counts(Measurement, {})
  BY <1>2, NothingCounted, Zenon
<1> QED
  BY <1>1, <1>3, FS_EmptySet DEF MetricsInv, MeasuredOnce, NumbersExact

\* Every step of the loop with its metrics keeps the invariant.
LEMMA MetricsStep ==
    LoopInv /\ MetricsInv /\ [MetricsNext]_<<vars, metricVars, role>> => MetricsInv'
<1> SUFFICES ASSUME LoopInv, MetricsInv, [MetricsNext]_<<vars, metricVars, role>>
             PROVE  MetricsInv'
  BY Zenon
<1>1. CASE (RunEvent \/ DrainEvent) /\ Observe(Head(eventQ)) /\ UNCHANGED role
  <2>1. TakeEvent
    BY <1>1, Zenon DEF RunEvent, DrainEvent
  <2>2. CASE Metric
    BY <1>1, <2>1, <2>2, MetricsTake, Zenon
  <2>3. CASE ~Metric
    <3>1. UNCHANGED metricVars /\ UNCHANGED role
      BY <1>1, <2>3, Zenon DEF Observe
    <3>2. UNCHANGED <<throughput, viewTimeouts, wf, log, since>>
      BY <3>1, Zenon DEF metricVars
    <3>3. since = {} /\ log = {} /\ Measurement' = Measurement /\ ~Metric'
      BY <2>3, <3>1, <3>2, Zenon DEF MetricsInv, Measurement, Metric
    <3>4. NumbersExact'
      BY <3>2, <3>3, Zenon DEF MetricsInv, NumbersExact, Counts, OfType
    <3> QED
      BY <3>2, <3>3, <3>4, FS_EmptySet, Zenon DEF MetricsInv, MeasuredOnce
  <2> QED
    BY <2>2, <2>3, Zenon
<1>2. CASE OtherGoroutine(OwnEvents) /\ UNCHANGED metricVars /\ UNCHANGED role
  <2>1. handled' = handled /\ (added' = added \/ \E e \in OwnEvents : added' = added \cup {e})
    BY <1>2, Zenon DEF OtherGoroutine, AddEvent, Send, AddTicker, RemoveTicker, BeginTicker, SendTick,
       Tick, EndTicker, eventVars
  <2> QED
    BY <1>2, <2>1, MetricsSame, Zenon DEF MetricsInv
<1>3. CASE (Cancel \/ SeeCancelled \/ Stop) /\ UNCHANGED metricVars /\ UNCHANGED role
  <2>1. handled' = handled /\ added' = added
    BY <1>3, Zenon DEF Cancel, SeeCancelled, Stop, eventVars
  <2> QED
    BY <1>3, <2>1, MetricsSame, Zenon DEF MetricsInv
<1>4. CASE UNCHANGED <<vars, metricVars, role>>
  <2>1. handled' = handled /\ added' = added
    BY <1>4, Zenon DEF vars, eventVars
  <2> QED
    BY <1>4, <2>1, MetricsSame, Zenon DEF MetricsInv
<1> QED
  BY <1>1, <1>2, <1>3, <1>4, Zenon DEF MetricsNext

\* The invariant always holds.
LEMMA MetricsAlways == MetricsSpec => []MetricsInv
<1>1. MetricsSpec => []LoopInv
  BY MetricsRefine, LoopAlways, PTL
<1> QED
  BY <1>1, MetricsStart, MetricsStep, PTL DEF MetricsSpec

\* The numbers of commits, view changes and latencies that a measurement logs
\* are those of its events.
THEOREM NumbersAreExact == MetricsSpec => []NumbersExact
<1>1. MetricsInv => NumbersExact
  BY Zenon DEF MetricsInv
<1> QED
  BY <1>1, MetricsAlways, PTL
=============================================================================
