----------------------------- MODULE EventLoop -----------------------------
(***************************************************************************)
(* The event loop of a replica (eventloop.go): goroutines that add events  *)
(* to a bounded channel, the loop that takes them off and runs their       *)
(* handlers, events that a handler delays until another event, tickers,    *)
(* and the way the loop stops.                                             *)
(***************************************************************************)
EXTENDS Integers, Sequences, FiniteSets

CONSTANTS
    Event,          \* the events that other goroutines add
    Types,          \* the types of these events
    TypeOf,         \* reflect.TypeOf
    Awaits,         \* Awaits[e]: the types that the handler of e may delay it for
    BufferSize,     \* the capacity of the channel
    MaxTickers      \* bound: how many tickers are added

ASSUME EventLoopAssumption ==
    /\ TypeOf \in [Event -> Types]
    /\ Awaits \in [Event -> SUBSET Types]
    /\ BufferSize \in Nat \ {0}
    /\ MaxTickers \in Nat

TickerId == 0..(MaxTickers - 1)

StartTickerEvent(id) == [start |-> id]
TickEvent(id) == [tick |-> id]

QueuedEvents == [event : Event] \cup [start : TickerId] \cup [tick : TickerId]

\* The keys of waitingEvents: a value of an event type, or a reflect.Type.
ValueKey(t) == <<"value", t>>
TypeKey(t) == <<"type", t>>

Keys == {"value", "type"} \X Types

VARIABLES
    eventQ,         \* EventLoop.eventQ
    waitingEvents,  \* EventLoop.waitingEvents
    tickers,        \* EventLoop.tickers: the IDs in the map
    tickerID,       \* EventLoop.tickerID
    senders,        \* the goroutines in AddEvent: what each has still to send
    ticking,        \* the state of each runTicker goroutine
    cancelled,      \* the tickers whose context is cancelled
    deferred,       \* the events that are marked Deferred
    loop,           \* where Run is
    ctxDone,        \* whether the context of Run is cancelled
    drained,        \* Run, after cancellation: i
    queued,         \* Run, after cancellation: l
    added,          \* history: the events given to AddEvent
    handled,        \* history: the events whose handler is done with them
    due,            \* history: the delayed events whose awaited event has happened
    removed,        \* history: the tickers removed
    lastQ           \* history: the queue when Run saw the cancellation

tickerVars == <<tickers, tickerID, ticking, cancelled, removed>>
stopVars == <<loop, ctxDone, drained, queued, lastQ>>
eventVars == <<waitingEvents, deferred, handled, due>>

vars == <<eventQ, senders, added, eventVars, tickerVars, stopVars>>

TypeOK ==
    /\ eventQ \in Seq(QueuedEvents) /\ Len(eventQ) <= BufferSize
    /\ waitingEvents \in [Keys -> Seq(Event)]
    /\ tickers \subseteq TickerId
    /\ tickerID \in 0..MaxTickers
    /\ senders \subseteq Seq(QueuedEvents)
    /\ ticking \in [TickerId -> {"no", "begin", "send", "wait", "end"}]
    /\ cancelled \subseteq TickerId
    /\ deferred \subseteq Event
    /\ loop \in {"running", "draining", "stopped"}
    /\ ctxDone \in BOOLEAN
    /\ drained \in 0..BufferSize
    /\ queued \in 0..BufferSize
    /\ added \subseteq Event
    /\ handled \subseteq added
    /\ due \subseteq deferred
    /\ removed \subseteq TickerId
    /\ lastQ \subseteq Event

Init ==
    /\ eventQ = <<>>
    /\ waitingEvents = [k \in Keys |-> <<>>]
    /\ tickers = {}
    /\ tickerID = 0
    /\ senders = {}
    /\ ticking = [id \in TickerId |-> "no"]
    /\ cancelled = {}
    /\ deferred = {}
    /\ loop = "running"
    /\ ctxDone = FALSE
    /\ drained = 0
    /\ queued = 0
    /\ added = {}
    /\ handled = {}
    /\ due = {}
    /\ removed = {}
    /\ lastQ = {}

HasRoomLate == Len(eventQ) <= BufferSize

\* The channel takes another event.
HasRoom == Len(eventQ) < BufferSize

-----------------------------------------------------------------------------
(* Other goroutines *)

AddEvent(e) ==
    /\ e \notin added
    /\ added' = added \cup {e}
    /\ senders' = senders \cup {<<[event |-> e]>>}
    /\ UNCHANGED <<eventQ, eventVars, tickerVars, stopVars>>

\* The channel takes the next event of a sender.
Send(s) ==
    /\ HasRoom
    /\ eventQ' = Append(eventQ, Head(s))
    /\ senders' = (senders \ {s}) \cup ({Tail(s)} \ {<<>>})
    /\ UNCHANGED <<added, eventVars, tickerVars, stopVars>>

AddTicker ==
    /\ tickerID < MaxTickers
    /\ tickers' = tickers \cup {tickerID}
    /\ tickerID' = tickerID + 1
    /\ senders' = senders \cup {<<StartTickerEvent(tickerID)>>}
    /\ UNCHANGED <<eventQ, added, eventVars, ticking, cancelled, removed, stopVars>>

RemoveTickerOnly(id) ==
    /\ id \in tickers
    /\ <<StartTickerEvent(id)>> \notin senders
    /\ tickers' = tickers \ {id}
    /\ removed' = removed \cup {id}
    /\ UNCHANGED <<eventQ, senders, added, eventVars, tickerID, ticking, cancelled, stopVars>>

\* RemoveTicker, once AddTicker has returned the ID.  The cancel function is
\* empty until the ticker is started.
RemoveTicker(id) ==
    /\ id \in tickers
    /\ <<StartTickerEvent(id)>> \notin senders
    /\ tickers' = tickers \ {id}
    /\ removed' = removed \cup {id}
    /\ cancelled' = IF ticking[id] = "no" THEN cancelled ELSE cancelled \cup {id}
    /\ UNCHANGED <<eventQ, senders, added, eventVars, tickerID, ticking, stopVars>>

TickerCancelled(id) == ctxDone \/ id \in cancelled

\* runTicker: nothing if the ticker is cancelled by now, else a first event.
BeginTicker(id) ==
    /\ ticking[id] = "begin"
    /\ ticking' = [ticking EXCEPT ![id] = IF TickerCancelled(id) THEN "end" ELSE "send"]
    /\ UNCHANGED <<eventQ, senders, added, eventVars, tickers, tickerID, cancelled,
                   removed, stopVars>>

SendTick(id) ==
    /\ ticking[id] = "send"
    /\ HasRoom
    /\ eventQ' = Append(eventQ, TickEvent(id))
    /\ ticking' = [ticking EXCEPT ![id] = "wait"]
    /\ UNCHANGED <<senders, added, eventVars, tickers, tickerID, cancelled, removed, stopVars>>

Tick(id) ==
    /\ ticking[id] = "wait"
    /\ ticking' = [ticking EXCEPT ![id] = "send"]
    /\ UNCHANGED <<eventQ, senders, added, eventVars, tickers, tickerID, cancelled,
                   removed, stopVars>>

EndTicker(id) ==
    /\ ticking[id] = "wait"
    /\ TickerCancelled(id)
    /\ ticking' = [ticking EXCEPT ![id] = "end"]
    /\ UNCHANGED <<eventQ, senders, added, eventVars, tickers, tickerID, cancelled,
                   removed, stopVars>>

-----------------------------------------------------------------------------
(* The loop *)

DelayUntilLast(t, e) == [waitingEvents EXCEPT ![ValueKey(t)] = <<e>>]

\* DelayUntil, whose caller passes the zero value of the awaited type.
DelayUntil(t, e) == [waitingEvents EXCEPT ![ValueKey(t)] = Append(@, e)]

\* dispatchDelayedEvents: the events that wait for type t are sent again by a
\* goroutine of their own, in order.
DispatchDelayedEvents(t, waiting) ==
    LET key == TypeKey(t)
        again == [i \in DOMAIN waiting[key] |-> [event |-> waiting[key][i]]]
    IN  /\ waitingEvents' = [waiting EXCEPT ![key] = <<>>]
        /\ senders' = senders \cup ({again} \ {<<>>})

\* processEvent: the handler is done with the event or delays it, once, until
\* an event of another type; then the events that waited for this one go on.
ProcessEvent(e) ==
    LET t == TypeOf[e]
    IN  /\ \/ /\ handled' = handled \cup {e}
              /\ DispatchDelayedEvents(t, waitingEvents)
              /\ UNCHANGED deferred
           \/ /\ e \notin deferred
              /\ \E u \in Awaits[e] : DispatchDelayedEvents(t, DelayUntil(u, e))
              /\ deferred' = deferred \cup {e}
              /\ UNCHANGED handled
        /\ due' = due \cup {d \in deferred : t \in Awaits[d]}

StartTicker(id) ==
    ticking' = IF id \in tickers THEN [ticking EXCEPT ![id] = "begin"] ELSE ticking

\* Take the next event.  Ticks have observers only; a ticker is started by a
\* running loop, and not by one that is stopping.
TakeEvent ==
    /\ eventQ # <<>>
    /\ eventQ' = Tail(eventQ)
    /\ LET q == Head(eventQ)
       IN  \/ /\ "event" \in DOMAIN q
              /\ ProcessEvent(q.event)
              /\ UNCHANGED ticking
           \/ /\ "tick" \in DOMAIN q
              /\ UNCHANGED <<senders, eventVars, ticking>>
           \/ /\ "start" \in DOMAIN q
              /\ \/ loop = "running" /\ StartTicker(q.start)
                 \/ loop = "draining" /\ UNCHANGED ticking
              /\ UNCHANGED <<senders, eventVars>>
    /\ UNCHANGED <<added, tickers, tickerID, cancelled, removed>>

\* Run, while it is not cancelled: select may still pick an event afterwards.
RunEvent ==
    /\ loop = "running"
    /\ TakeEvent
    /\ UNCHANGED stopVars

Cancel ==
    /\ ~ctxDone
    /\ ctxDone' = TRUE
    /\ UNCHANGED <<eventQ, senders, added, eventVars, tickerVars, loop, drained,
                   queued, lastQ>>

EventsOf(q) == {q[i].event : i \in {j \in DOMAIN q : "event" \in DOMAIN q[j]}}

SeeCancelled ==
    /\ loop = "running"
    /\ ctxDone
    /\ loop' = "draining"
    /\ queued' = Len(eventQ)
    /\ lastQ' = EventsOf(eventQ)
    /\ UNCHANGED <<eventQ, senders, added, eventVars, tickerVars, ctxDone, drained>>

MoreInQueue == drained < Len(eventQ)

\* The events that were in the queue are not all handled.
MoreToDrain == drained < queued

DrainEvent ==
    /\ loop = "draining"
    /\ MoreToDrain
    /\ TakeEvent
    /\ drained' = drained + 1
    /\ UNCHANGED <<loop, ctxDone, queued, lastQ>>

Stop ==
    /\ loop = "draining"
    /\ ~MoreToDrain
    /\ loop' = "stopped"
    /\ UNCHANGED <<eventQ, senders, added, eventVars, tickerVars, ctxDone, drained,
                   queued, lastQ>>

\* The steps of the goroutines that use the loop and add some of the events.
OtherGoroutine(events) ==
    \/ \E e \in events : AddEvent(e)
    \/ \E s \in senders : Send(s)
    \/ AddTicker
    \/ \E id \in TickerId :
         RemoveTicker(id) \/ BeginTicker(id) \/ SendTick(id) \/ Tick(id) \/ EndTicker(id)

Next ==
    \/ OtherGoroutine(Event)
    \/ RunEvent \/ Cancel \/ SeeCancelled \/ DrainEvent \/ Stop

Spec == Init /\ [][Next]_vars

\* The loop keeps running, and so do the goroutines of tickers; a channel
\* serves its senders in turn, and select picks every case that stays ready.
Fairness ==
    /\ WF_vars(RunEvent \/ SeeCancelled)
    /\ WF_vars(DrainEvent \/ Stop)
    /\ SF_vars(\E s \in senders : "event" \in DOMAIN Head(s) /\ Send(s))
    /\ \A id \in TickerId :
         /\ SF_vars(\E s \in senders : Head(s) = StartTickerEvent(id) /\ Send(s))
         /\ WF_vars(BeginTicker(id))
         /\ SF_vars(SendTick(id))
         /\ SF_vars(EndTicker(id))

FairSpec == Spec /\ Fairness

-----------------------------------------------------------------------------
(* Properties *)

At(q, x) == {i \in DOMAIN q : q[i] = x}

\* Where e is: with a sender, in the queue, waiting, or handled.
Places(e) ==
    (UNION {{<<"sender", s, i>> : i \in At(s, [event |-> e])} : s \in senders})
    \cup {<<"queue", i>> : i \in At(eventQ, [event |-> e])}
    \cup (UNION {{<<"waiting", k, i>> : i \in At(waitingEvents[k], e)} : k \in Keys})
    \cup {<<"handled">> : h \in handled \cap {e}}

\* No event gets lost or is handled twice, whichever goroutines send, delay and
\* dispatch it: after AddEvent(e), e is in exactly one place.
EventsKept == \A e \in added : \E place \in Places(e) : Places(e) = {place}

\* When Run returns, every event that was in the queue when it was cancelled
\* has been processed, although senders refill the queue while it drains.
QueueDrained ==
    loop = "stopped" => \A e \in lastQ : e \in handled \cup deferred

\* Once RemoveTicker has returned, the ticker soon stops for good, be its start
\* still queued, its goroutine about to begin, or blocked in AddEvent.
RemovedTickersStop ==
    \A id \in TickerId :
        <>[](id \in removed => ticking[id] \in {"no", "end"} \/ loop = "stopped")

\* An event that was delayed until another one is handled after that one has
\* happened.
DelayedEventsHandled ==
    \A e \in Event : e \in due ~> e \in handled \/ loop # "running"
=============================================================================
