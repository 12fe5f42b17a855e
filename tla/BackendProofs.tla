--------------------------- MODULE BackendProofs ----------------------------
(***************************************************************************)
(* Proofs of the safety properties of the backend, for any replicas,       *)
(* queues and numbers of views: the order in which messages of one kind    *)
(* travel from one replica to another, the book-keeping of fetches, and    *)
(* the IDs under which messages are handled.                               *)
(***************************************************************************)
EXTENDS Backend, TLAPS

BlockIds == (Replica \cup {0}) \X Int

Requests == [kind : Kinds \cup {"fetch"}, n : Nat, block : BlockIds]

QueuedEvents ==
    [kind : Kinds \cup {"local"}, n : Nat, block : BlockIds, from : Replica,
     id : Replica \cup {0}]

Fetches ==
    [at : {"fetch"}, n : Nat, event : QueuedEvents, waiting : SUBSET Replica,
     found : BOOLEAN]

\* The types of what the proofs are about.
Shapes ==
    /\ life \in [Replica -> {"serving", "connected", "running", "stopping", "closed"}]
    /\ loop \in [Replica -> {Idle, Proposing} \cup Fetches]
    /\ eventQ \in [Replica -> Seq(QueuedEvents)]
    /\ channel \in [Pairs -> Seq(Requests)]
    /\ sent \in [Pairs -> [Kinds -> Nat]]
    /\ handled \in [Pairs -> [Kinds -> Nat]]

PendingTyped == pendingFetch \in [Replica -> SUBSET BlockIds]

\* A message in the queue comes from another replica, and under its ID unless
\* it is a timeout.
FromOthers ==
    \A r \in Replica : \A i \in 1..Len(eventQ[r]) :
        /\ eventQ[r][i].kind \in Kinds => eventQ[r][i].from # r
        /\ eventQ[r][i].kind \in {"propose", "vote", "newview"} =>
             eventQ[r][i].id = eventQ[r][i].from

\* A replica handles nothing before Start, and takes no message under TLS
\* before Connect but timeouts.
NotStarted ==
    \A r \in Replica :
        /\ life[r] \in {"serving", "connected"} => loop[r] = Idle
        /\ Tls /\ life[r] = "serving" =>
             \A i \in 1..Len(eventQ[r]) : eventQ[r][i].kind \in {"local", "timeout"}

\* Where the messages of kind k from p[1] to p[2] are.
InChannel(p, k) == {i \in 1..Len(channel[p]) : channel[p][i].kind = k}

InQueue(p, k) ==
    {i \in 1..Len(eventQ[p[2]]) : eventQ[p[2]][i].kind = k /\ eventQ[p[2]][i].from = p[1]}

\* They arrive in the order they were sent: the numbers ascend from the last
\* one handled through the queue of the receiver and the channel.
ChannelAscends(p, k) ==
    /\ \A i \in InChannel(p, k) : channel[p][i].n \in handled[p][k]..sent[p][k]
    /\ \A i, j \in InChannel(p, k) : i < j => channel[p][i].n <= channel[p][j].n

QueueAscends(p, k) ==
    /\ \A i \in InQueue(p, k) : eventQ[p[2]][i].n \in handled[p][k]..sent[p][k]
    /\ \A i, j \in InQueue(p, k) : i < j => eventQ[p[2]][i].n <= eventQ[p[2]][j].n

QueueBeforeChannel(p, k) ==
    \A i \in InQueue(p, k), j \in InChannel(p, k) : eventQ[p[2]][i].n <= channel[p][j].n

OrderedAt(p, k) ==
    /\ handled[p][k] <= sent[p][k]
    /\ ChannelAscends(p, k)
    /\ QueueAscends(p, k)
    /\ QueueBeforeChannel(p, k)

\* What NewestKept says of one kind of messages between two replicas.
NewestAt(p, k) ==
    sent[p][k] > handled[p][k] =>
        \/ \E i \in InChannel(p, k) : channel[p][i].n = sent[p][k]
        \/ \E i \in InQueue(p, k) : eventQ[p[2]][i].n = sent[p][k]

Open(p) == life[p[1]] # "closed" /\ life[p[2]] # "closed"

OrderInv == \A p \in Pairs, k \in Kinds : OrderedAt(p, k) /\ (Open(p) => NewestAt(p, k))

\* The inductive invariant.
BackendInv ==
    /\ Shapes
    /\ FromOthers
    /\ NotStarted
    /\ PendingTyped
    /\ FetchRecorded
    /\ OrderInv

-----------------------------------------------------------------------------
(* Types *)

\* A pair is two different replicas.
LEMMA PairTypes ==
    ASSUME NEW p \in Pairs
    PROVE  p[1] \in Replica /\ p[2] \in Replica /\ p[1] # p[2] /\ p = <<p[1], p[2]>>
BY DEF Pairs

\* Every replica has a connection to another one.
LEMMA HasOthers == \A r \in Replica : \E q \in Others(r) : q \in Replica /\ <<r, q>> \in Pairs
<1>1. PICK other \in Replica : other # FirstLeader
  BY BackendAssumption, Zenon
<1>2. \A r, q \in Replica : r # q => q \in Others(r) /\ <<r, q>> \in Pairs
  BY Zenon DEF Others, Pairs
<1> QED
  BY <1>1, <1>2, BackendAssumption, Zenon

\* The parent of a block is a block.
LEMMA ParentType == \A b \in BlockIds : Parent(b) \in BlockIds
BY DEF BlockIds, Parent

\* The event that the loop takes next is at the head of the queue.
LEMMA FirstEventType ==
    ASSUME Shapes, NEW r \in Replica, NEW e \in FirstEvent(r)
    PROVE  /\ e \in QueuedEvents
           /\ eventQ[r] # <<>> /\ e = Head(eventQ[r]) /\ e = eventQ[r][1]
           /\ 1 \in 1..Len(eventQ[r])
<1>1. eventQ[r] \in Seq(QueuedEvents)
  BY Zenon DEF Shapes
<1> QED
  BY <1>1 DEF FirstEvent

\* Sending a message keeps the types of the channels.
LEMMA SendToType ==
    ASSUME Shapes, NEW r \in Replica, NEW dests, NEW k \in Kinds, NEW b \in BlockIds,
           SendTo(r, dests, k, b)
    PROVE  channel' \in [Pairs -> Seq(Requests)] /\ sent' \in [Pairs -> [Kinds -> Nat]]
<1>1. ASSUME NEW p \in Pairs
      PROVE  /\ [sent[p] EXCEPT ![k] = @ + 1] \in [Kinds -> Nat]
             /\ Append(channel[p], Request(k, sent[p][k] + 1, b)) \in Seq(Requests)
  <2>1. sent[p] \in [Kinds -> Nat] /\ channel[p] \in Seq(Requests)
    BY Zenon DEF Shapes
  <2>2. Request(k, sent[p][k] + 1, b) \in Requests
    BY <2>1 DEF Request, Requests
  <2> QED
    BY <2>1, <2>2
<1> QED
  BY <1>1, Zenon DEF SendTo, Shapes

\* No block stands for a block in the records of events.
LEMMA NoBlockType == NoBlock \in BlockIds
BY DEF NoBlock, BlockIds

\* Taking an event keeps the types of what it touches.
LEMMA TakeEventType ==
    ASSUME Shapes, FromOthers, NEW r \in Replica, NEW e \in FirstEvent(r), TakeEvent(r, e)
    PROVE  /\ eventQ' \in [Replica -> Seq(QueuedEvents)]
           /\ handled' \in [Pairs -> [Kinds -> Nat]]
           /\ loop[r] = Idle
<1>1. e \in QueuedEvents /\ eventQ[r] # <<>> /\ e = eventQ[r][1] /\ 1 \in 1..Len(eventQ[r])
  BY FirstEventType, Zenon
<1>2. eventQ' \in [Replica -> Seq(QueuedEvents)]
  BY <1>1 DEF TakeEvent, Shapes
<1>3. ASSUME e.kind \in Kinds
      PROVE  [handled EXCEPT ![<<e.from, r>>][e.kind] = e.n] \in [Pairs -> [Kinds -> Nat]]
  <2>1. <<e.from, r>> \in Pairs
    BY <1>1, <1>3, Zenon DEF FromOthers, Pairs, QueuedEvents
  <2> QED
    BY <1>1, <1>3, <2>1, Zenon DEF Shapes, QueuedEvents
<1> QED
  BY <1>2, <1>3, Zenon DEF TakeEvent, NoteHandled, Shapes

\* A loop that fetches has the record of a fetch.
LEMMA FetchingType ==
    ASSUME Shapes
    PROVE  /\ \A q \in Replica : loop[q].at = "fetch" => loop[q] \in Fetches
           /\ Idle.at # "fetch" /\ Proposing.at # "fetch" /\ Idle # Proposing
<1>1. Idle.at = "idle" /\ Proposing.at = "commands"
  BY Zenon DEF Idle, Proposing
<1> QED
  BY <1>1, Zenon DEF Shapes

\* The requests of a channel that a step takes from are typed.
LEMMA ChannelHead ==
    ASSUME Shapes, NEW p \in Pairs, channel[p] # <<>>
    PROVE  /\ Head(channel[p]) \in Requests /\ Head(channel[p]) = channel[p][1]
           /\ Tail(channel[p]) \in Seq(Requests)
           /\ 1 \in 1..Len(channel[p])
<1>1. channel[p] \in Seq(Requests)
  BY Zenon DEF Shapes
<1> QED
  BY <1>1

\* The step of the loop that takes an event keeps the types, whatever it sends.
LEMMA NetShapes ==
    ASSUME Shapes, NEW p \in Pairs, NetStep(p)
    PROVE  Shapes'
<1> USE PairTypes
<1>1. CASE Drop(p)
  BY <1>1, ChannelHead, Zenon DEF Drop, Shapes
<1>2. CASE Receive(p)
  <2>1. /\ Head(channel[p]) \in Requests /\ Tail(channel[p]) \in Seq(Requests)
        /\ Head(channel[p]).kind \in Kinds
    BY <1>2, ChannelHead, Zenon DEF Receive, Requests
  <2>2. Events(p[2], p[1], Head(channel[p])) \in Seq(QueuedEvents)
    <3>1. ClientID(p[2], p[1]) \in Replica \cup {0}
      BY Zenon DEF ClientID
    <3>2. Event(Head(channel[p]).kind, Head(channel[p]), p[1], ClientID(p[2], p[1])) \in QueuedEvents
      BY <2>1, <3>1, Zenon DEF Event, QueuedEvents, Requests
    <3> QED
      BY <3>2 DEF Events
  <2>3. eventQ' \in [Replica -> Seq(QueuedEvents)]
    BY <1>2, <2>2 DEF Receive, Shapes
  <2>4. channel' \in [Pairs -> Seq(Requests)]
    BY <1>2, <2>1, Zenon DEF Receive, Shapes
  <2>5. handled' \in [Pairs -> [Kinds -> Nat]]
    BY <1>2, <2>1, Zenon DEF Receive, Shapes, Requests
  <2> QED
    BY <1>2, <2>3, <2>4, <2>5, Zenon DEF Receive, Shapes
<1>3. CASE ServeFetch(p)
  <2>1. loop[p[1]].at = "fetch" => loop[p[1]] \in Fetches
    BY FetchingType, Zenon
  <2>2. loop' \in [Replica -> {Idle, Proposing} \cup Fetches]
    BY <1>3, <2>1, Zenon DEF ServeFetch, Shapes, Fetches
  <2> QED
    BY <1>3, <2>2, ChannelHead, Zenon DEF ServeFetch, Shapes
<1>4. CASE Refuse(p)
  <2>1. loop[p[1]].at = "fetch" => loop[p[1]] \in Fetches
    BY FetchingType, Zenon
  <2>2. loop' \in [Replica -> {Idle, Proposing} \cup Fetches]
    BY <1>4, <2>1, Zenon DEF Refuse, Shapes, Fetches
  <2> QED
    BY <1>4, <2>2 DEF Refuse, Shapes
<1> QED
  BY <1>1, <1>2, <1>3, <1>4, Zenon DEF NetStep

\* The steps of the event loop keep the types.
LEMMA LoopShapes ==
    ASSUME Shapes, FromOthers, NEW r \in Replica, LoopStep(r)
    PROVE  Shapes'
<1>1. CASE OnPropose(r)
  <2>1. PICK e \in FirstEvent(r) :
          /\ TakeEvent(r, e)
          /\ SendVote(r, e.from) \/ UNCHANGED <<channel, sent>>
    BY <1>1, Zenon DEF OnPropose
  <2>2. channel' \in [Pairs -> Seq(Requests)] /\ sent' \in [Pairs -> [Kinds -> Nat]]
    BY <2>1, SendToType, NoBlockType, Zenon DEF SendVote, Kinds, Shapes
  <2> QED
    BY <1>1, <2>1, <2>2, TakeEventType, Zenon DEF OnPropose, Shapes
<1>2. CASE StartGet(r)
  <2>1. PICK e \in FirstEvent(r) :
          /\ TakeEvent(r, e)
          /\ loop' = [loop EXCEPT ![r] = [at |-> "fetch", n |-> e.n, event |-> e,
                                          waiting |-> Others(r), found |-> FALSE]]
          /\ SendFetch(r, e.n, Parent(e.block))
    BY <1>2, Zenon DEF StartGet
  <2>2. e \in QueuedEvents
    BY FirstEventType, Zenon
  <2>3. loop' \in [Replica -> {Idle, Proposing} \cup Fetches]
    BY <2>1, <2>2, Zenon DEF Shapes, Fetches, Others, QueuedEvents
  <2>4. Request("fetch", e.n, Parent(e.block)) \in Requests
    BY <2>2, ParentType, Zenon DEF Request, Requests, QueuedEvents
  <2>5. channel' \in [Pairs -> Seq(Requests)]
    BY <2>1, <2>4 DEF SendFetch, Shapes
  <2> QED
    BY <1>2, <2>1, <2>3, <2>5, TakeEventType, Zenon DEF StartGet, Shapes
<1>3. CASE GetReturns(r)
  <2>1. channel' \in [Pairs -> Seq(Requests)] /\ sent' \in [Pairs -> [Kinds -> Nat]]
    BY <1>3, SendToType, NoBlockType, Zenon DEF GetReturns, SendVote, Kinds, Shapes
  <2> QED
    BY <1>3, <2>1, Zenon DEF GetReturns, Shapes
<1>4. CASE OnMessage(r)
  <2>1. PICK e \in FirstEvent(r) :
          /\ TakeEvent(r, e)
          /\ SendNewView(r, e.from) \/ UNCHANGED <<channel, sent>>
    BY <1>4, Zenon DEF OnMessage
  <2>2. channel' \in [Pairs -> Seq(Requests)] /\ sent' \in [Pairs -> [Kinds -> Nat]]
    BY <2>1, SendToType, NoBlockType, Zenon DEF SendNewView, Kinds, Shapes
  <2> QED
    BY <1>4, <2>1, <2>2, TakeEventType, Zenon DEF OnMessage, Shapes
<1>5. CASE OnLocalTimeout(r)
  <2>1. PICK e \in FirstEvent(r) : TakeEvent(r, e) /\ SendTimeout(r)
    BY <1>5, Zenon DEF OnLocalTimeout
  <2>2. channel' \in [Pairs -> Seq(Requests)] /\ sent' \in [Pairs -> [Kinds -> Nat]]
    BY <2>1, SendToType, NoBlockType, Zenon DEF SendTimeout, Kinds
  <2> QED
    BY <1>5, <2>1, <2>2, TakeEventType, Zenon DEF OnLocalTimeout, Shapes
<1>6. CASE ProposeNothing(r)
  BY <1>6, Zenon DEF ProposeNothing, Shapes, netVars
<1> QED
  BY <1>1, <1>2, <1>3, <1>4, <1>5, <1>6, Zenon DEF LoopStep

\* The block that Propose makes has a type.
LEMMA ProposedType ==
    ASSUME Shapes, NEW r \in Replica
    PROVE  <<r, sent[<<r, CHOOSE q \in Others(r) : TRUE>>]["propose"] + 1>> \in BlockIds
<1> DEFINE q == CHOOSE q \in Others(r) : TRUE
<1>1. q \in Others(r)
  BY HasOthers, Zenon
<1>2. <<r, q>> \in Pairs
  BY <1>1 DEF Others, Pairs
<1>3. sent[<<r, q>>]["propose"] \in Nat
  BY <1>2 DEF Shapes, Kinds
<1> QED
  BY <1>3 DEF BlockIds

\* The timer, the view context, proposals, start and stop keep the types.
LEMMA OtherShapes ==
    ASSUME Shapes, NEW r \in Replica,
           EnterView(r) \/ Propose(r) \/ ViewStep(r) \/ LifeStep(r)
    PROVE  Shapes'
<1>1. CASE EnterView(r)
  BY <1>1, Zenon DEF EnterView, Shapes, netVars
<1>2. CASE Propose(r)
  <2>1. channel' \in [Pairs -> Seq(Requests)] /\ sent' \in [Pairs -> [Kinds -> Nat]]
    BY <1>2, SendToType, ProposedType, Zenon DEF Propose, SendPropose, Kinds
  <2> QED
    BY <1>2, <2>1, Zenon DEF Propose, Shapes
<1>3. CASE Expire(r) \/ Deadline(r)
  BY <1>3, Zenon DEF Expire, Deadline, Shapes, netVars
<1>4. CASE AddTimeout(r)
  <2>1. Event("local", Request("local", 0, NoBlock), r, r) \in QueuedEvents
    BY NoBlockType, Zenon DEF Event, Request, QueuedEvents
  <2>2. eventQ' \in [Replica -> Seq(QueuedEvents)]
    BY <1>4, <2>1 DEF AddTimeout, Shapes
  <2> QED
    BY <1>4, <2>2, Zenon DEF AddTimeout, Shapes, netVars
<1>5. CASE Connect(r) \/ Start(r) \/ Stop(r)
  BY <1>5, Zenon DEF Connect, Start, Stop, Shapes, netVars
<1>6. CASE Close(r)
  <2>1. \A q \in Replica : loop[q].at = "fetch" => loop[q] \in Fetches
    BY FetchingType, Zenon
  <2>2. loop' \in [Replica -> {Idle, Proposing} \cup Fetches]
    <3>1. \A f \in Fetches : [f EXCEPT !.waiting = @ \ {r}] \in Fetches
      BY Zenon DEF Fetches
    <3>2. \A q \in Replica : loop[q] \in {Idle, Proposing} \cup Fetches
      BY Zenon DEF Shapes
    <3> QED
      BY <1>6, <2>1, <3>1, <3>2, Zenon DEF Close
  <2>3. channel' \in [Pairs -> Seq(Requests)]
    BY <1>6 DEF Close, Shapes
  <2> QED
    BY <1>6, <2>2, <2>3, Zenon DEF Close, Shapes
<1> QED
  BY <1>1, <1>2, <1>3, <1>4, <1>5, <1>6, Zenon DEF ViewStep, LifeStep

\* Every step keeps the types.
LEMMA ShapesStep ==
    ASSUME Shapes, FromOthers, [Next]_vars
    PROVE  Shapes'
<1>1. CASE UNCHANGED vars
  BY <1>1, Zenon DEF vars, netVars, Shapes
<1> QED
  BY <1>1, NetShapes, LoopShapes, OtherShapes, Zenon DEF Next

-----------------------------------------------------------------------------
(* The order of messages *)

\* In a step the channel gets messages of the newest numbers, or nothing.
GrowsBySending(p) ==
    /\ Len(channel'[p]) >= Len(channel[p])
    /\ \A i \in 1..Len(channel[p]) : channel'[p][i] = channel[p][i]
    /\ \A i \in (Len(channel[p]) + 1)..Len(channel'[p]), k \in Kinds :
         channel'[p][i].kind = k => channel'[p][i].n = sent'[p][k]
    /\ \A k \in Kinds :
         \/ sent'[p][k] = sent[p][k]
         \/ /\ sent'[p][k] > sent[p][k]
            /\ \E i \in 1..Len(channel'[p]) :
                 channel'[p][i].kind = k /\ channel'[p][i].n = sent'[p][k]

\* In a step the queue of the receiver stays, or its head is handled.
Advances(p) ==
    \/ eventQ'[p[2]] = eventQ[p[2]] /\ handled'[p] = handled[p]
    \/ LET q == eventQ[p[2]]
       IN  /\ Len(q) > 0
           /\ Len(eventQ'[p[2]]) = Len(q) - 1
           /\ \A i \in 1..(Len(q) - 1) : eventQ'[p[2]][i] = q[i + 1]
           /\ \A k \in Kinds :
                handled'[p][k] = IF q[1].kind = k /\ q[1].from = p[1] THEN q[1].n
                                 ELSE handled[p][k]

\* The numbers and lengths that the order speaks of.
LEMMA NumberTypes ==
    ASSUME NEW c \in [Pairs -> Seq(Requests)], NEW e \in [Replica -> Seq(QueuedEvents)],
           NEW s \in [Pairs -> [Kinds -> Nat]], NEW h \in [Pairs -> [Kinds -> Nat]],
           NEW p \in Pairs, NEW k \in Kinds
    PROVE  /\ s[p][k] \in Nat /\ h[p][k] \in Nat
           /\ Len(c[p]) \in Nat /\ Len(e[p[2]]) \in Nat
           /\ \A i \in 1..Len(c[p]) : c[p][i].n \in Nat
           /\ \A i \in 1..Len(e[p[2]]) : e[p[2]][i].n \in Nat
<1>1. c[p] \in Seq(Requests) /\ e[p[2]] \in Seq(QueuedEvents)
  BY PairTypes, Zenon
<1>2. s[p] \in [Kinds -> Nat] /\ h[p] \in [Kinds -> Nat]
  BY Zenon
<1>3. /\ \A i \in 1..Len(c[p]) : c[p][i] \in Requests
      /\ \A i \in 1..Len(e[p[2]]) : e[p[2]][i] \in QueuedEvents
  BY <1>1
<1>4. Len(c[p]) \in Nat /\ Len(e[p[2]]) \in Nat
  BY <1>1
<1>5. \A m \in Requests : m.n \in Nat
  BY DEF Requests
<1>6. \A m \in QueuedEvents : m.n \in Nat
  BY DEF QueuedEvents
<1> QED
  BY <1>2, <1>3, <1>4, <1>5, <1>6, Zenon

\* A step of the event loop of either end keeps the order and the newest.
LEMMA LoopOrdered ==
    ASSUME Shapes, Shapes', NEW p \in Pairs, NEW k \in Kinds,
           GrowsBySending(p), Advances(p), OrderedAt(p, k)
    PROVE  OrderedAt(p, k)' /\ (NewestAt(p, k) => NewestAt(p, k)')
<1>1. /\ sent[p][k] \in Nat /\ handled[p][k] \in Nat
      /\ Len(channel[p]) \in Nat /\ Len(eventQ[p[2]]) \in Nat
      /\ \A i \in 1..Len(channel[p]) : channel[p][i].n \in Nat
      /\ \A i \in 1..Len(eventQ[p[2]]) : eventQ[p[2]][i].n \in Nat
  BY NumberTypes, Zenon DEF Shapes
<1>2. /\ sent'[p][k] \in Nat /\ handled'[p][k] \in Nat
      /\ Len(channel'[p]) \in Nat /\ Len(eventQ'[p[2]]) \in Nat
      /\ \A i \in 1..Len(channel'[p]) : channel'[p][i].n \in Nat
      /\ \A i \in 1..Len(eventQ'[p[2]]) : eventQ'[p[2]][i].n \in Nat
  BY NumberTypes, Zenon DEF Shapes
<1>3. /\ sent'[p][k] >= sent[p][k]
      /\ sent'[p][k] # sent[p][k] => \E i \in InChannel(p, k)' : channel'[p][i].n = sent'[p][k]
  BY <1>1, <1>2, SMTT(30) DEF GrowsBySending, InChannel
<1>13. ASSUME NEW x, x \in handled[p][k]..sent[p][k] \/ x \in handled'[p][k]..sent[p][k]
       PROVE  /\ x \in Nat /\ x <= sent'[p][k]
              /\ x \in handled'[p][k]..sent[p][k] => x \in handled'[p][k]..sent'[p][k]
  <2>1. /\ sent[p][k] \in Nat /\ handled[p][k] \in Nat
        /\ sent'[p][k] \in Nat /\ handled'[p][k] \in Nat
        /\ sent'[p][k] >= sent[p][k]
    BY <1>1, <1>2, <1>3, Zenon
  <2> QED
    BY <1>13, <2>1
<1>6. ASSUME NEW i \in InChannel(p, k)'
      PROVE  \/ i \in InChannel(p, k) /\ channel'[p][i].n = channel[p][i].n
             \/ i > Len(channel[p]) /\ channel'[p][i].n = sent'[p][k]
  <2>1. i \in 1..Len(channel'[p]) /\ channel'[p][i].kind = k
    BY Zenon DEF InChannel
  <2>2. CASE i \in 1..Len(channel[p])
    BY <2>1, <2>2, Zenon DEF GrowsBySending, InChannel
  <2>3. CASE i \in (Len(channel[p]) + 1)..Len(channel'[p])
    <3>1. i > Len(channel[p])
      BY <1>1, <1>2, <2>3
    <3>2. channel'[p][i].n = sent'[p][k]
      BY <2>1, <2>3, Zenon DEF GrowsBySending
    <3> QED
      BY <3>1, <3>2, Zenon
  <2> QED
    BY <1>1, <1>2, <2>1, <2>2, <2>3
<1>7. ASSUME NEW i \in InChannel(p, k)
      PROVE  i \in InChannel(p, k)' /\ channel'[p][i].n = channel[p][i].n
  BY <1>1, <1>2, SMTT(30) DEF GrowsBySending, InChannel
<1>8. \A i \in InChannel(p, k) : i \in Nat /\ i <= Len(channel[p]) /\ channel[p][i].n \in Nat
  BY <1>1 DEF InChannel
<1>9. \A i \in InQueue(p, k) : i \in Nat /\ i >= 1 /\ eventQ[p[2]][i].n \in Nat
  BY <1>1 DEF InQueue
<1>10. \A i \in InChannel(p, k)' : i \in Nat
  BY <1>2 DEF InChannel
<1>11. ASSUME handled'[p][k] <= sent[p][k],
              \A i \in InChannel(p, k) : channel[p][i].n \in handled'[p][k]..sent[p][k]
       PROVE  handled'[p][k] <= sent'[p][k] /\ ChannelAscends(p, k)'
  <2>1. handled'[p][k] <= sent'[p][k]
    BY <1>1, <1>2, <1>3, <1>11
  <2>2. \A i \in InChannel(p, k) : channel[p][i].n <= sent'[p][k]
    BY <1>11, <1>13, Zenon
  <2>3. \A i \in InChannel(p, k)' : channel'[p][i].n \in handled'[p][k]..sent'[p][k]
    BY <1>1, <1>2, <1>6, <1>8, <1>11, <2>1, <2>2, SMTT(30)
  <2>4. ASSUME NEW i \in InChannel(p, k)', NEW j \in InChannel(p, k)', i < j
        PROVE  channel'[p][i].n <= channel'[p][j].n
    <3>1. CASE j \in InChannel(p, k) /\ channel'[p][j].n = channel[p][j].n
      <4>1. i \in InChannel(p, k) /\ channel'[p][i].n = channel[p][i].n
        BY <1>1, <1>6, <1>8, <1>10, <2>4, <3>1
      <4> QED
        BY <2>4, <3>1, <4>1, Zenon DEF OrderedAt, ChannelAscends
    <3>2. CASE channel'[p][j].n = sent'[p][k]
      BY <2>3, <3>2
    <3> QED
      BY <1>6, <3>1, <3>2, Zenon
  <2> QED
    BY <2>1, <2>3, <2>4, Zenon DEF ChannelAscends
<1>4. CASE eventQ'[p[2]] = eventQ[p[2]] /\ handled'[p] = handled[p]
  <2>1. InQueue(p, k)' = InQueue(p, k)
    BY <1>4, Zenon DEF InQueue
  <2>2. handled'[p][k] <= sent'[p][k] /\ ChannelAscends(p, k)'
    BY <1>4, <1>11, Zenon DEF OrderedAt, ChannelAscends
  <2>3. QueueAscends(p, k)'
    BY <1>1, <1>2, <1>3, <1>4, <1>9, <2>1, SMTT(30) DEF OrderedAt, QueueAscends
  <2>4. QueueBeforeChannel(p, k)'
    <3> SUFFICES ASSUME NEW i \in InQueue(p, k), NEW j \in InChannel(p, k)'
                 PROVE  eventQ[p[2]][i].n <= channel'[p][j].n
      BY <1>4, <2>1, Zenon DEF QueueBeforeChannel
    <3>1. eventQ[p[2]][i].n \in Nat /\ eventQ[p[2]][i].n <= sent'[p][k]
      BY <1>13, Zenon DEF OrderedAt, QueueAscends
    <3>2. \A l \in InChannel(p, k) : eventQ[p[2]][i].n <= channel[p][l].n
      BY Zenon DEF OrderedAt, QueueBeforeChannel
    <3> QED
      BY <1>6, <3>1, <3>2, Zenon
  <2> QED
    BY <1>3, <1>4, <1>7, <2>1, <2>2, <2>3, <2>4, Zenon DEF NewestAt, OrderedAt
<1>5. CASE ~(eventQ'[p[2]] = eventQ[p[2]] /\ handled'[p] = handled[p])
  <2> DEFINE q == eventQ[p[2]]
             mine == q[1].kind = k /\ q[1].from = p[1]
  <2>1. /\ Len(q) > 0
        /\ Len(eventQ'[p[2]]) = Len(q) - 1
        /\ \A i \in 1..(Len(q) - 1) : eventQ'[p[2]][i] = q[i + 1]
        /\ handled'[p][k] = IF mine THEN q[1].n ELSE handled[p][k]
    BY <1>5, Zenon DEF Advances
  <2>2. \A i \in InQueue(p, k)' : i + 1 \in InQueue(p, k) /\ eventQ'[p[2]][i].n = q[i + 1].n
    BY <1>1, <2>1, SMTT(30) DEF InQueue
  <2>3. \A i \in InQueue(p, k) : i # 1 =>
          i - 1 \in InQueue(p, k)' /\ eventQ'[p[2]][i - 1].n = q[i].n
    BY <1>1, <2>1, SMTT(30) DEF InQueue
  <2>4. 1 \in InQueue(p, k) <=> mine
    BY <1>1, <2>1 DEF InQueue
  <2>5. \A i \in InQueue(p, k) : i \in Nat /\ i >= 1
    BY DEF InQueue
  <2>6. \A i \in InQueue(p, k)' : i \in Nat /\ i >= 1
    BY SMTT(30) DEF InQueue
  <2>7. handled'[p][k] \in handled[p][k]..sent[p][k]
    BY <1>1, <1>2, <2>1, <2>4, SMTT(30) DEF OrderedAt, QueueAscends
  <2>8. \A i \in InQueue(p, k)' : eventQ'[p[2]][i].n \in handled'[p][k]..sent[p][k]
    <3> SUFFICES ASSUME NEW i \in InQueue(p, k)'
                 PROVE  eventQ'[p[2]][i].n \in handled'[p][k]..sent[p][k]
      BY Zenon
    <3>1. i + 1 \in InQueue(p, k) /\ i + 1 > 1 /\ eventQ'[p[2]][i].n = q[i + 1].n
      BY <2>2, <2>6
    <3>2. q[i + 1].n \in handled[p][k]..sent[p][k]
      BY <3>1, Zenon DEF OrderedAt, QueueAscends
    <3>3. mine => q[1].n <= q[i + 1].n
      BY <2>4, <3>1, Zenon DEF OrderedAt, QueueAscends
    <3> QED
      BY <1>1, <1>2, <1>9, <2>1, <3>1, <3>2, <3>3
  <2>9. \A i \in InChannel(p, k) : channel[p][i].n \in handled'[p][k]..sent[p][k]
    BY <1>1, <1>2, <1>8, <2>1, <2>4 DEF OrderedAt, ChannelAscends, QueueBeforeChannel
  <2>12. handled'[p][k] <= sent'[p][k] /\ ChannelAscends(p, k)'
    BY <1>1, <1>2, <1>11, <2>7, <2>9
  <2>13. QueueAscends(p, k)'
    <3>1. \A i \in InQueue(p, k)' : eventQ'[p[2]][i].n \in handled'[p][k]..sent'[p][k]
      BY <1>13, <2>8, Zenon
    <3>2. \A i, j \in InQueue(p, k)' : i < j => i + 1 < j + 1
      BY <2>6
    <3>3. \A i, j \in InQueue(p, k)' : i < j => eventQ'[p[2]][i].n <= eventQ'[p[2]][j].n
      BY <2>2, <3>2, Zenon DEF OrderedAt, QueueAscends
    <3> QED
      BY <3>1, <3>3, Zenon DEF QueueAscends
  <2>10. QueueBeforeChannel(p, k)'
    <3> SUFFICES ASSUME NEW i \in InQueue(p, k)', NEW j \in InChannel(p, k)'
                 PROVE  eventQ'[p[2]][i].n <= channel'[p][j].n
      BY Zenon DEF QueueBeforeChannel
    <3>1. eventQ'[p[2]][i].n \in Nat /\ eventQ'[p[2]][i].n <= sent'[p][k]
      BY <1>13, <2>8, Zenon
    <3>2. \A l \in InChannel(p, k) : eventQ'[p[2]][i].n <= channel[p][l].n
      BY <2>2, Zenon DEF OrderedAt, QueueBeforeChannel
    <3> QED
      BY <1>6, <3>1, <3>2, Zenon
  <2>11. ASSUME NewestAt(p, k) PROVE NewestAt(p, k)'
    <3> SUFFICES ASSUME sent'[p][k] > handled'[p][k]
                 PROVE  \/ \E i \in InChannel(p, k)' : channel'[p][i].n = sent'[p][k]
                        \/ \E i \in InQueue(p, k)' : eventQ'[p[2]][i].n = sent'[p][k]
      BY Zenon DEF NewestAt
    <3>1. CASE sent'[p][k] # sent[p][k]
      BY <1>3, <3>1, Zenon
    <3>2. CASE sent'[p][k] = sent[p][k]
      <4>1. sent[p][k] > handled[p][k]
        BY <1>1, <1>2, <2>7, <3>2, SMTT(30)
      <4>2. CASE \E i \in InChannel(p, k) : channel[p][i].n = sent[p][k]
        BY <1>7, <3>2, <4>2, Zenon
      <4>3. CASE \E i \in InQueue(p, k) : q[i].n = sent[p][k]
        <5>1. PICK i \in InQueue(p, k) : q[i].n = sent[p][k]
          BY <4>3, Zenon
        <5>2. i # 1
          BY <1>1, <1>2, <2>1, <2>4, <3>2, <5>1
        <5> QED
          BY <2>3, <3>2, <5>1, <5>2, Zenon
      <4> QED
        BY <2>11, <4>1, <4>2, <4>3, Zenon DEF NewestAt
    <3> QED
      BY <3>1, <3>2, Zenon
  <2> QED
    BY <2>10, <2>11, <2>12, <2>13, Zenon DEF OrderedAt
<1> QED
  BY <1>4, <1>5, Zenon

\* In a step the first message of the channel is taken.
TakesHead(p) == channel[p] # <<>> /\ channel'[p] = Tail(channel[p])

\* What is left of a channel when its first message is taken.
LEMMA ChannelTail ==
    ASSUME Shapes, NEW p \in Pairs, NEW k \in Kinds, TakesHead(p)
    PROVE  /\ Len(channel[p]) \in Nat /\ Len(channel[p]) > 0
           /\ \A i \in InChannel(p, k) : i \in Nat /\ i >= 1 /\ channel[p][i].n \in Nat
           /\ \A i \in InChannel(p, k)' :
                i + 1 \in InChannel(p, k) /\ i \in Nat /\ i >= 1 /\ channel'[p][i].n = channel[p][i + 1].n
           /\ \A i \in InChannel(p, k) : i # 1 =>
                i - 1 \in InChannel(p, k)' /\ channel'[p][i - 1].n = channel[p][i].n
           /\ 1 \in InChannel(p, k) <=> Head(channel[p]).kind = k
           /\ Head(channel[p]) = channel[p][1]
<1>1. channel[p] \in Seq(Requests)
  BY Zenon DEF Shapes
<1>2. /\ Len(channel[p]) \in Nat /\ Len(channel[p]) > 0 /\ Head(channel[p]) = channel[p][1]
      /\ Len(channel'[p]) = Len(channel[p]) - 1
      /\ \A i \in 1..(Len(channel[p]) - 1) : channel'[p][i] = channel[p][i + 1]
  BY <1>1, SMTT(30) DEF TakesHead
<1>3. \A i \in 1..Len(channel[p]) : channel[p][i].n \in Nat
  BY NumberTypes, Zenon DEF Shapes
<1>4. \A i \in InChannel(p, k) : i \in 1..Len(channel[p]) /\ channel[p][i].kind = k
  BY Zenon DEF InChannel
<1>5. \A i \in InChannel(p, k)' : i \in 1..Len(channel'[p]) /\ channel'[p][i].kind = k
  BY Zenon DEF InChannel
<1>6. \A i \in 1..Len(channel[p]) : channel[p][i].kind = k => i \in InChannel(p, k)
  BY Zenon DEF InChannel
<1>7. \A i \in 1..Len(channel'[p]) : channel'[p][i].kind = k => i \in InChannel(p, k)'
  BY Zenon DEF InChannel
<1>8. \A i \in InChannel(p, k)' :
        i + 1 \in InChannel(p, k) /\ i \in Nat /\ i >= 1 /\ channel'[p][i].n = channel[p][i + 1].n
  <2> SUFFICES ASSUME NEW i \in InChannel(p, k)'
               PROVE  /\ i + 1 \in InChannel(p, k) /\ i \in Nat /\ i >= 1
                      /\ channel'[p][i].n = channel[p][i + 1].n
    BY Zenon
  <2>1. i \in 1..(Len(channel[p]) - 1) /\ i + 1 \in 1..Len(channel[p]) /\ i \in Nat /\ i >= 1
    BY <1>2, <1>5
  <2>2. channel'[p][i] = channel[p][i + 1]
    BY <1>2, <2>1, Zenon
  <2> QED
    BY <1>5, <1>6, <2>1, <2>2, Zenon
<1>9. ASSUME NEW i \in InChannel(p, k), i # 1
      PROVE  i - 1 \in InChannel(p, k)' /\ channel'[p][i - 1].n = channel[p][i].n
  <2>1. i - 1 \in 1..(Len(channel[p]) - 1) /\ (i - 1) + 1 = i
    BY <1>2, <1>4, <1>9
  <2>2. channel'[p][i - 1] = channel[p][i]
    BY <1>2, <2>1, Zenon
  <2> QED
    BY <1>2, <1>4, <1>7, <2>1, <2>2, Zenon
<1> QED
  BY <1>2, <1>3, <1>4, <1>6, <1>8, <1>9

\* It is as ordered as it was.
LEMMA TailAscends ==
    ASSUME Shapes, NEW p \in Pairs, NEW k \in Kinds, OrderedAt(p, k), TakesHead(p)
    PROVE  /\ \A i \in InChannel(p, k)' : channel'[p][i].n \in handled[p][k]..sent[p][k]
           /\ \A i, j \in InChannel(p, k)' : i < j => channel'[p][i].n <= channel'[p][j].n
           /\ \A i \in InQueue(p, k), j \in InChannel(p, k)' : eventQ[p[2]][i].n <= channel'[p][j].n
           /\ Head(channel[p]).kind = k =>
                \A j \in InChannel(p, k)' : channel[p][1].n <= channel'[p][j].n
<1>1. \A i \in InChannel(p, k)' :
        i + 1 \in InChannel(p, k) /\ i \in Nat /\ i >= 1 /\ channel'[p][i].n = channel[p][i + 1].n
  BY ChannelTail
<1>2. Head(channel[p]).kind = k => 1 \in InChannel(p, k)
  BY ChannelTail, Zenon
<1>3. \A i \in InChannel(p, k)' : 1 < i + 1
  BY <1>1
<1>4. \A i, j \in InChannel(p, k)' : i < j => i + 1 < j + 1
  BY <1>1
<1>5. /\ \A i \in InChannel(p, k) : channel[p][i].n \in handled[p][k]..sent[p][k]
      /\ \A i, j \in InChannel(p, k) : i < j => channel[p][i].n <= channel[p][j].n
      /\ \A i \in InQueue(p, k), j \in InChannel(p, k) : eventQ[p[2]][i].n <= channel[p][j].n
  BY Zenon DEF OrderedAt, ChannelAscends, QueueBeforeChannel
<1>6. \A i \in InChannel(p, k)' : channel'[p][i].n \in handled[p][k]..sent[p][k]
  BY <1>1, <1>5, Zenon
<1>7. \A i, j \in InChannel(p, k)' : i < j => channel'[p][i].n <= channel'[p][j].n
  BY <1>1, <1>4, <1>5, Zenon
<1>8. \A i \in InQueue(p, k), j \in InChannel(p, k)' : eventQ[p[2]][i].n <= channel'[p][j].n
  BY <1>1, <1>5, Zenon
<1>9. Head(channel[p]).kind = k =>
        \A j \in InChannel(p, k)' : channel[p][1].n <= channel'[p][j].n
  BY <1>1, <1>2, <1>3, <1>5, Zenon
<1> QED
  BY <1>6, <1>7, <1>8, <1>9, Zenon

\* A message that is not the newest is dropped, or a fetch served.
LEMMA HeadLost ==
    ASSUME Shapes, NEW p \in Pairs, NEW k \in Kinds, OrderedAt(p, k),
           TakesHead(p),
           Head(channel[p]).kind = k => Head(channel[p]).n < sent[p][k],
           sent'[p][k] = sent[p][k], handled'[p][k] = handled[p][k],
           eventQ'[p[2]] = eventQ[p[2]]
    PROVE  OrderedAt(p, k)' /\ (NewestAt(p, k) => NewestAt(p, k)')
<1>1. sent[p][k] \in Nat /\ handled[p][k] \in Nat
  BY NumberTypes, Zenon DEF Shapes
<1>2. InQueue(p, k)' = InQueue(p, k)
  BY Zenon DEF InQueue
<1>3. ChannelAscends(p, k)'
  BY TailAscends, Zenon DEF ChannelAscends
<1>4. QueueAscends(p, k)'
  BY <1>2, Zenon DEF OrderedAt, QueueAscends
<1>5. QueueBeforeChannel(p, k)'
  BY <1>2, TailAscends, Zenon DEF QueueBeforeChannel
<1>6. ASSUME NewestAt(p, k) PROVE NewestAt(p, k)'
  <2>1. \A i \in InChannel(p, k) : channel[p][i].n = sent[p][k] => i # 1
    BY <1>1, ChannelTail
  <2>2. \A i \in InChannel(p, k) : channel[p][i].n = sent[p][k] =>
          i - 1 \in InChannel(p, k)' /\ channel'[p][i - 1].n = sent'[p][k]
    BY <2>1, ChannelTail
  <2> QED
    BY <1>2, <1>6, <2>2, Zenon DEF NewestAt
<1> QED
  BY <1>3, <1>4, <1>5, <1>6, Zenon DEF OrderedAt

\* A message is put at the end of the queue of its receiver.
LEMMA Received ==
    ASSUME Shapes, NEW p \in Pairs, NEW k \in Kinds, OrderedAt(p, k), NEW id,
           TakesHead(p),
           sent'[p][k] = sent[p][k], handled'[p][k] = handled[p][k],
           eventQ'[p[2]] = Append(eventQ[p[2]], Event(Head(channel[p]).kind, Head(channel[p]), p[1], id))
    PROVE  OrderedAt(p, k)' /\ (NewestAt(p, k) => NewestAt(p, k)')
<1> DEFINE q == eventQ[p[2]]
           c == channel[p]
           mine == Head(c).kind = k
<1>1. /\ sent[p][k] \in Nat /\ handled[p][k] \in Nat
      /\ Len(c) \in Nat /\ Len(q) \in Nat
      /\ \A i \in 1..Len(c) : c[i].n \in Nat
      /\ \A i \in 1..Len(q) : q[i].n \in Nat
  BY NumberTypes, Zenon DEF Shapes
<1>2. q \in Seq(QueuedEvents)
  BY PairTypes, Zenon DEF Shapes
<1>3. /\ Len(eventQ'[p[2]]) = Len(q) + 1
      /\ \A i \in 1..Len(q) : eventQ'[p[2]][i] = q[i]
      /\ eventQ'[p[2]][Len(q) + 1] = Event(Head(c).kind, Head(c), p[1], id)
  BY <1>2
<1>4. /\ eventQ'[p[2]][Len(q) + 1].kind = Head(c).kind
      /\ eventQ'[p[2]][Len(q) + 1].from = p[1]
      /\ eventQ'[p[2]][Len(q) + 1].n = Head(c).n
  BY <1>3 DEF Event
<1>5. \A i \in InQueue(p, k) : i \in 1..Len(q) /\ i \in InQueue(p, k)' /\ eventQ'[p[2]][i].n = q[i].n
  BY <1>1, <1>3, SMTT(30) DEF InQueue
<1>6. ASSUME NEW i \in InQueue(p, k)'
      PROVE  /\ i \in Nat
             /\ \/ i \in InQueue(p, k) /\ i <= Len(q) /\ eventQ'[p[2]][i].n = q[i].n
                \/ mine /\ i = Len(q) + 1 /\ eventQ'[p[2]][i].n = c[1].n
  <2>1. i \in 1..(Len(q) + 1) /\ eventQ'[p[2]][i].kind = k /\ eventQ'[p[2]][i].from = p[1]
    BY <1>3, Zenon DEF InQueue
  <2>2. CASE i \in 1..Len(q)
    <3>1. i \in Nat /\ i <= Len(q)
      BY <1>1, <2>2
    <3>2. eventQ'[p[2]][i] = q[i]
      BY <1>3, <2>2, Zenon
    <3> QED
      BY <2>1, <2>2, <3>1, <3>2, Zenon DEF InQueue
  <2>3. CASE i = Len(q) + 1
    BY <1>1, <1>4, <2>1, <2>3, ChannelTail, SMTT(30)
  <2> QED
    <3>1. i \in 1..Len(q) \/ i = Len(q) + 1
      BY <1>1, <2>1
    <3> QED
      BY <2>2, <2>3, <3>1, Zenon
<1>7. mine => Len(q) + 1 \in InQueue(p, k)' /\ eventQ'[p[2]][Len(q) + 1].n = c[1].n
  <2>1. Len(q) + 1 \in 1..(Len(q) + 1)
    BY <1>1
  <2>2. mine => Len(q) + 1 \in InQueue(p, k)'
    BY <1>3, <1>4, <2>1, Zenon DEF InQueue
  <2>3. c \in Seq(Requests) /\ c # <<>>
    BY ChannelTail DEF Shapes
  <2>4. Head(c) = c[1]
    BY <2>3
  <2> QED
    BY <1>4, <2>2, <2>4, Zenon
<1>8. mine => /\ c[1].n \in handled[p][k]..sent[p][k]
              /\ \A i \in InQueue(p, k) : q[i].n <= c[1].n
              /\ \A j \in InChannel(p, k) : c[1].n <= c[j].n
  <2>1. mine => 1 \in InChannel(p, k)
    BY ChannelTail, Zenon
  <2>2. \A j \in InChannel(p, k) : j = 1 \/ 1 < j
    BY ChannelTail, SMTT(30)
  <2> QED
    BY <1>1, <2>1, <2>2 DEF OrderedAt, ChannelAscends, QueueBeforeChannel
<1>9. ChannelAscends(p, k)'
  BY TailAscends, Zenon DEF ChannelAscends
<1>10. QueueAscends(p, k)'
  <2>1. \A i \in InQueue(p, k)' : eventQ'[p[2]][i].n \in handled[p][k]..sent[p][k]
    BY <1>6, <1>8, ZenonT(40) DEF OrderedAt, QueueAscends
  <2>2. ASSUME NEW i \in InQueue(p, k)', NEW j \in InQueue(p, k)', i < j
        PROVE  eventQ'[p[2]][i].n <= eventQ'[p[2]][j].n
    <3>3. j \in Nat /\ j <= Len(q) + 1 /\ i \in Nat
      BY <1>1, <1>6, SMTT(30)
    <3>2. i # Len(q) + 1
      BY <1>1, <2>2, <3>3
    <3>1. i \in InQueue(p, k) /\ eventQ'[p[2]][i].n = q[i].n
      BY <1>6, <3>2, Zenon
    <3> QED
      BY <1>6, <1>8, <2>2, <3>1, Zenon DEF OrderedAt, QueueAscends
  <2> QED
    BY <2>1, <2>2, Zenon DEF QueueAscends
<1>11. QueueBeforeChannel(p, k)'
  <2>1. \A i \in InQueue(p, k), j \in InChannel(p, k)' : q[i].n <= channel'[p][j].n
    BY TailAscends, Zenon
  <2>2. mine => \A j \in InChannel(p, k)' : c[1].n <= channel'[p][j].n
    BY TailAscends, Zenon
  <2> QED
    BY <1>6, <2>1, <2>2, Zenon DEF QueueBeforeChannel
<1>12. ASSUME NewestAt(p, k) PROVE NewestAt(p, k)'
  <2>1. \A i \in InChannel(p, k) : i # 1 =>
          i - 1 \in InChannel(p, k)' /\ channel'[p][i - 1].n = c[i].n
    BY ChannelTail, Zenon
  <2>2. 1 \in InChannel(p, k) => mine
    BY ChannelTail, Zenon
  <2> QED
    BY <1>5, <1>7, <1>12, <2>1, <2>2, ZenonT(30) DEF NewestAt
<1> QED
  BY <1>9, <1>10, <1>11, <1>12, Zenon DEF OrderedAt

\* A message that has no ID is refused: it counts as handled.
LEMMA Refused ==
    ASSUME Shapes, NEW p \in Pairs, NEW k \in Kinds, OrderedAt(p, k),
           TakesHead(p),
           sent'[p][k] = sent[p][k], eventQ'[p[2]] = eventQ[p[2]],
           handled'[p][k] = IF Head(channel[p]).kind = k THEN Head(channel[p]).n ELSE handled[p][k],
           Head(channel[p]).kind = k => InQueue(p, k) = {}
    PROVE  OrderedAt(p, k)' /\ (NewestAt(p, k) => NewestAt(p, k)')
<1>1. sent[p][k] \in Nat /\ handled[p][k] \in Nat
  BY NumberTypes, Zenon DEF Shapes
<1>2. InQueue(p, k)' = InQueue(p, k)
  BY Zenon DEF InQueue
<1>3. CASE Head(channel[p]).kind # k
  <2>1. handled'[p][k] = handled[p][k]
    BY <1>3, Zenon
  <2> QED
    BY <1>3, <2>1, HeadLost, Zenon
<1>4. CASE Head(channel[p]).kind = k
  <2> DEFINE first == channel[p][1].n
  <2>1. /\ 1 \in InChannel(p, k) /\ handled'[p][k] = first
        /\ \A j \in InChannel(p, k) : j = 1 \/ 1 < j
    BY <1>4, ChannelTail, SMTT(30)
  <2>2. first \in Nat /\ first \in handled[p][k]..sent[p][k]
    BY <1>1, <2>1, ChannelTail, Zenon DEF OrderedAt, ChannelAscends
  <2>3. \A j \in InChannel(p, k) : channel[p][j].n \in first..sent[p][k]
    BY <1>1, <2>1, <2>2, ChannelTail, SMTT(30) DEF OrderedAt, ChannelAscends
  <2>4. ChannelAscends(p, k)'
    <3>1. /\ \A i \in InChannel(p, k)' : channel'[p][i].n \in handled[p][k]..sent[p][k]
          /\ \A i, j \in InChannel(p, k)' : i < j => channel'[p][i].n <= channel'[p][j].n
          /\ \A j \in InChannel(p, k)' : first <= channel'[p][j].n
      BY <1>4, TailAscends, Zenon
    <3>2. ASSUME NEW i \in InChannel(p, k)' PROVE channel'[p][i].n \in first..sent[p][k]
      <4>1. channel'[p][i].n \in handled[p][k]..sent[p][k] /\ first <= channel'[p][i].n
        BY <3>1, Zenon
      <4> QED
        BY <1>1, <2>2, <4>1, SMTT(30)
    <3> QED
      BY <2>1, <3>1, <3>2, Zenon DEF ChannelAscends
  <2>5. QueueAscends(p, k)' /\ QueueBeforeChannel(p, k)'
    BY <1>2, <1>4, Zenon DEF QueueAscends, QueueBeforeChannel
  <2>6. ASSUME NewestAt(p, k) PROVE NewestAt(p, k)'
    <3> SUFFICES ASSUME sent[p][k] > first
                 PROVE  \E i \in InChannel(p, k)' : channel'[p][i].n = sent[p][k]
      BY <2>1, ZenonT(40) DEF NewestAt
    <3>1. PICK i \in InChannel(p, k) : channel[p][i].n = sent[p][k]
      BY <1>1, <1>4, <2>2, <2>6, SMTT(30) DEF NewestAt
    <3>2. i # 1
      BY <1>1, <2>2, <3>1, SMTT(30)
    <3>3. i - 1 \in InChannel(p, k)' /\ channel'[p][i - 1].n = channel[p][i].n
      BY <3>2, ChannelTail, SMTT(30)
    <3> QED
      BY <3>1, <3>3, Zenon
  <2> QED
    BY <1>1, <2>1, <2>2, <2>4, <2>5, <2>6, SMTT(30) DEF OrderedAt
<1> QED
  BY <1>3, <1>4, Zenon

\* An event from elsewhere is put into the queue of p[2].
LEMMA OtherAppended ==
    ASSUME Shapes, NEW p \in Pairs, NEW k \in Kinds, OrderedAt(p, k), NEW e,
           e.kind = k => e.from # p[1],
           eventQ'[p[2]] = Append(eventQ[p[2]], e), channel'[p] = channel[p],
           sent'[p][k] = sent[p][k], handled'[p][k] = handled[p][k]
    PROVE  OrderedAt(p, k)' /\ (NewestAt(p, k) => NewestAt(p, k)')
<1> DEFINE q == eventQ[p[2]]
<1>1. q \in Seq(QueuedEvents)
  BY PairTypes, Zenon DEF Shapes
<1>2. /\ Len(q) \in Nat
      /\ Len(eventQ'[p[2]]) = Len(q) + 1
      /\ \A i \in 1..Len(q) : eventQ'[p[2]][i] = q[i]
      /\ eventQ'[p[2]][Len(q) + 1] = e
  BY <1>1
<1>3. InQueue(p, k)' = InQueue(p, k) /\ \A i \in InQueue(p, k) : eventQ'[p[2]][i] = q[i]
  <2>1. \A i \in InQueue(p, k) : i \in InQueue(p, k)' /\ eventQ'[p[2]][i] = q[i]
    BY <1>2 DEF InQueue
  <2>2. ASSUME NEW i \in InQueue(p, k)' PROVE i \in InQueue(p, k)
    <3>1. i \in 1..(Len(q) + 1) /\ eventQ'[p[2]][i].kind = k /\ eventQ'[p[2]][i].from = p[1]
      BY <1>2, Zenon DEF InQueue
    <3>2. i # Len(q) + 1
      BY <1>2, <3>1, Zenon
    <3>3. i \in 1..Len(q)
      BY <1>2, <3>1, <3>2
    <3> QED
      BY <1>2, <3>1, <3>3, Zenon DEF InQueue
  <2> QED
    BY <2>1, <2>2, Zenon
<1>4. InChannel(p, k)' = InChannel(p, k)
  BY Zenon DEF InChannel
<1> QED
  BY <1>3, <1>4, Zenon DEF OrderedAt, ChannelAscends, QueueAscends, QueueBeforeChannel, NewestAt

\* The connection is closed and what it held is lost.
LEMMA Emptied ==
    ASSUME NEW p \in Pairs, NEW k \in Kinds, OrderedAt(p, k),
           channel'[p] = <<>>, eventQ'[p[2]] = eventQ[p[2]],
           sent'[p][k] = sent[p][k], handled'[p][k] = handled[p][k]
    PROVE  OrderedAt(p, k)'
<1>1. InQueue(p, k)' = InQueue(p, k)
  BY Zenon DEF InQueue
<1>2. InChannel(p, k)' = {}
  BY SMTT(30) DEF InChannel
<1> QED
  BY <1>1, <1>2, Zenon DEF OrderedAt, ChannelAscends, QueueAscends, QueueBeforeChannel

\* Nothing happens between p[1] and p[2].
LEMMA Untouched ==
    ASSUME NEW p \in Pairs, NEW k \in Kinds, OrderedAt(p, k),
           channel'[p] = channel[p], eventQ'[p[2]] = eventQ[p[2]],
           sent'[p][k] = sent[p][k], handled'[p][k] = handled[p][k]
    PROVE  OrderedAt(p, k)' /\ (NewestAt(p, k) => NewestAt(p, k)')
<1>1. InQueue(p, k)' = InQueue(p, k)
  BY Zenon DEF InQueue
<1>2. InChannel(p, k)' = InChannel(p, k)
  BY Zenon DEF InChannel
<1> QED
  BY <1>1, <1>2, Zenon DEF OrderedAt, ChannelAscends, QueueAscends, QueueBeforeChannel, NewestAt

-----------------------------------------------------------------------------
(* The steps that concern the order *)

\* Sending appends one message with the next number to some channels.
LEMMA SendToGrows ==
    ASSUME Shapes, NEW r, NEW dests, NEW kind \in Kinds, NEW b,
           SendTo(r, dests, kind, b), NEW p \in Pairs
    PROVE  GrowsBySending(p)
<1>1. channel[p] \in Seq(Requests) /\ sent[p] \in [Kinds -> Nat]
  BY Zenon DEF Shapes
<1>2. CASE p[1] = r /\ p[2] \in dests
  <2> DEFINE m == Request(kind, sent[p][kind] + 1, b)
  <2>1. /\ channel'[p] = Append(channel[p], m)
        /\ sent'[p] = [sent[p] EXCEPT ![kind] = @ + 1]
    BY <1>2, Zenon DEF SendTo
  <2>2. m.kind = kind /\ m.n = sent[p][kind] + 1
    BY Zenon DEF Request
  <2>3. sent'[p][kind] = sent[p][kind] + 1 /\ \A k \in Kinds : k # kind => sent'[p][k] = sent[p][k]
    BY <1>1, <2>1, Zenon
  <2>4. /\ Len(channel[p]) \in Nat
        /\ Len(channel'[p]) = Len(channel[p]) + 1
        /\ \A i \in 1..Len(channel[p]) : channel'[p][i] = channel[p][i]
        /\ channel'[p][Len(channel[p]) + 1] = m
    <3> HIDE DEF m
    <3> QED
      BY <1>1, <2>1
  <2>5. sent[p][kind] \in Nat
    BY <1>1, Zenon
  <2> HIDE DEF m
  <2>6. \A i \in (Len(channel[p]) + 1)..Len(channel'[p]) : i = Len(channel[p]) + 1
    BY <2>4
  <2>7. Len(channel[p]) + 1 \in 1..Len(channel'[p])
    BY <2>4
  <2>8. \A i \in (Len(channel[p]) + 1)..Len(channel'[p]), k \in Kinds :
          channel'[p][i].kind = k => channel'[p][i].n = sent'[p][k]
    BY <2>2, <2>3, <2>4, <2>6, Zenon
  <2>9. ASSUME NEW k \in Kinds
        PROVE  \/ sent'[p][k] = sent[p][k]
               \/ /\ sent'[p][k] > sent[p][k]
                  /\ \E i \in 1..Len(channel'[p]) :
                       channel'[p][i].kind = k /\ channel'[p][i].n = sent'[p][k]
    <3>1. CASE k # kind
      BY <2>3, <3>1, Zenon
    <3>2. CASE k = kind
      <4>1. channel'[p][Len(channel[p]) + 1].kind = k /\ channel'[p][Len(channel[p]) + 1].n = sent'[p][k]
        BY <2>2, <2>3, <2>4, <3>2, Zenon
      <4>2. sent'[p][k] > sent[p][k]
        BY <2>3, <2>5, <3>2
      <4> QED
        BY <2>7, <4>1, <4>2, Zenon
    <3> QED
      BY <3>1, <3>2, Zenon
  <2>10. Len(channel'[p]) >= Len(channel[p])
    BY <2>4
  <2> QED
    BY <2>4, <2>8, <2>9, <2>10, Zenon DEF GrowsBySending
<1>3. CASE ~(p[1] = r /\ p[2] \in dests)
  <2>1. channel'[p] = channel[p] /\ sent'[p] = sent[p]
    BY <1>3, Zenon DEF SendTo
  <2> QED
    BY <1>1, <2>1 DEF GrowsBySending
<1> QED
  BY <1>2, <1>3, Zenon

\* Config.Fetch adds requests, which count for no kind of message.
LEMMA SendFetchGrows ==
    ASSUME Shapes, NEW r, NEW n, NEW b, SendFetch(r, n, b), UNCHANGED sent, NEW p \in Pairs
    PROVE  GrowsBySending(p)
<1>1. channel[p] \in Seq(Requests) /\ sent[p] \in [Kinds -> Nat]
  BY Zenon DEF Shapes
<1>2. CASE p[1] = r
  <2> DEFINE m == Request("fetch", n, b)
  <2>1. channel'[p] = Append(channel[p], m)
    BY <1>2, Zenon DEF SendFetch
  <2>2. m.kind \notin Kinds
    BY Zenon DEF Request, Kinds
  <2> HIDE DEF m
  <2>3. /\ Len(channel[p]) \in Nat
        /\ Len(channel'[p]) = Len(channel[p]) + 1
        /\ \A i \in 1..Len(channel[p]) : channel'[p][i] = channel[p][i]
        /\ channel'[p][Len(channel[p]) + 1] = m
    BY <1>1, <2>1
  <2>4. \A i \in (Len(channel[p]) + 1)..Len(channel'[p]) : i = Len(channel[p]) + 1
    BY <2>3
  <2> QED
    BY <2>2, <2>3, <2>4 DEF GrowsBySending
<1>3. CASE p[1] # r
  <2>1. channel'[p] = channel[p]
    BY <1>3, Zenon DEF SendFetch
  <2> QED
    BY <1>1, <2>1 DEF GrowsBySending
<1> QED
  BY <1>2, <1>3, Zenon

\* A step that sends nothing adds nothing to a channel.
LEMMA SilentGrows ==
    ASSUME Shapes, UNCHANGED <<channel, sent>>, NEW p \in Pairs
    PROVE  GrowsBySending(p)
<1>1. channel[p] \in Seq(Requests)
  BY Zenon DEF Shapes
<1> QED
  BY <1>1 DEF GrowsBySending

\* An event loop takes the first event of its queue.
LEMMA TakeAdvances ==
    ASSUME Shapes, FromOthers, NEW r \in Replica, NEW e \in FirstEvent(r), TakeEvent(r, e),
           NEW p \in Pairs
    PROVE  Advances(p)
<1>1. /\ e \in QueuedEvents /\ eventQ[r] # <<>> /\ e = eventQ[r][1]
      /\ 1 \in 1..Len(eventQ[r]) /\ eventQ[r] \in Seq(QueuedEvents)
  BY FirstEventType, Zenon DEF Shapes
<1>2. e.kind \in Kinds => <<e.from, r>> \in Pairs
  BY <1>1, Zenon DEF FromOthers, Pairs, QueuedEvents
<1>3. p = <<p[1], p[2]>> /\ p[1] \in Replica /\ p[2] \in Replica
  BY PairTypes, Zenon
<1>4. handled[p] \in [Kinds -> Nat]
  BY Zenon DEF Shapes
<1>5. CASE p[2] = r
  <2>1. /\ Len(eventQ[r]) > 0
        /\ eventQ'[r] = Tail(eventQ[r])
    BY <1>1 DEF TakeEvent, Shapes
  <2>2. /\ Len(eventQ'[r]) = Len(eventQ[r]) - 1
        /\ \A i \in 1..(Len(eventQ[r]) - 1) : eventQ'[r][i] = eventQ[r][i + 1]
    BY <1>1, <2>1
  <2>3. <<e.from, r>> = p <=> e.from = p[1]
    BY <1>3, <1>5
  <2>4. ASSUME NEW k \in Kinds
        PROVE  handled'[p][k] = IF e.kind = k /\ e.from = p[1] THEN e.n ELSE handled[p][k]
    <3>1. CASE e.kind \in Kinds /\ e.from = p[1]
      <4>1. handled'[p] = [handled[p] EXCEPT ![e.kind] = e.n]
        BY <2>3, <3>1, Zenon DEF TakeEvent, NoteHandled, Shapes
      <4> QED
        BY <1>4, <3>1, <4>1, Zenon
    <3>2. CASE ~(e.kind \in Kinds /\ e.from = p[1])
      <4>1. handled'[p] = handled[p]
        BY <2>3, <3>2, Zenon DEF TakeEvent, NoteHandled, Shapes
      <4> QED
        BY <3>2, <4>1, Zenon
    <3> QED
      BY <3>1, <3>2, Zenon
  <2> QED
    BY <1>1, <1>5, <2>1, <2>2, <2>4, Zenon DEF Advances
<1>6. CASE p[2] # r
  <2>1. eventQ'[p[2]] = eventQ[p[2]]
    BY <1>3, <1>6, Zenon DEF TakeEvent, Shapes
  <2>2. <<e.from, r>> # p
    BY <1>3, <1>6
  <2>3. handled'[p] = handled[p]
    BY <1>2, <2>2, Zenon DEF TakeEvent, NoteHandled, Shapes
  <2> QED
    BY <2>1, <2>3, Zenon DEF Advances
<1> QED
  BY <1>5, <1>6, Zenon

\* A step that leaves the event queue alone advances no kind of message.
LEMMA StandsStill ==
    ASSUME UNCHANGED <<eventQ, handled>>, NEW p \in Pairs
    PROVE  Advances(p)
BY Zenon DEF Advances

\* A closed replica stays closed.
LEMMA StaysClosed ==
    ASSUME Shapes, [Next]_vars
    PROVE  \A r \in Replica : life[r] = "closed" => life'[r] = "closed"
<1> SUFFICES ASSUME Next PROVE \A r \in Replica : life[r] = "closed" => life'[r] = "closed"
  BY Zenon DEF vars
<1>1. ASSUME NEW p \in Pairs, NetStep(p) PROVE UNCHANGED life
  BY <1>1, ZenonT(40) DEF NetStep, Drop, Receive, ServeFetch, Refuse
<1>2. ASSUME NEW r \in Replica, LoopStep(r) PROVE UNCHANGED life
  BY <1>2, Zenon DEF LoopStep, OnPropose, StartGet, GetReturns, OnMessage, OnLocalTimeout, ProposeNothing
<1>3. ASSUME NEW r \in Replica, EnterView(r) \/ Propose(r) \/ ViewStep(r) PROVE UNCHANGED life
  BY <1>3, Zenon DEF EnterView, Propose, ViewStep, Expire, AddTimeout, Deadline
<1>4. ASSUME NEW r \in Replica, LifeStep(r)
      PROVE  \E l : life' = [life EXCEPT ![r] = l] /\ life[r] # "closed"
  BY <1>4, Zenon DEF LifeStep, Connect, Start, Stop, Close
<1> QED
  BY <1>1, <1>2, <1>3, <1>4, Zenon DEF Next, Shapes

\* The steps of the event loops, the timers and the lives.
LEMMA GrowingOrder ==
    ASSUME Shapes, Shapes', OrderInv, \A p \in Pairs : GrowsBySending(p) /\ Advances(p),
           \A r \in Replica : life[r] = "closed" => life'[r] = "closed"
    PROVE  OrderInv'
<1> SUFFICES ASSUME NEW p \in Pairs, NEW k \in Kinds
             PROVE  OrderedAt(p, k)' /\ (Open(p)' => NewestAt(p, k)')
  BY Zenon DEF OrderInv
<1>1. GrowsBySending(p) /\ Advances(p) /\ OrderedAt(p, k) /\ (Open(p) => NewestAt(p, k))
  BY Zenon DEF OrderInv
<1>2. Open(p)' => Open(p)
  BY PairTypes, Zenon DEF Open
<1>3. OrderedAt(p, k)' /\ (NewestAt(p, k) => NewestAt(p, k)')
  BY <1>1, LoopOrdered, Zenon
<1> QED
  BY <1>1, <1>2, <1>3, Zenon

\* Drop, ServeFetch, Receive and Refuse.
LEMMA NetOrder ==
    ASSUME Shapes, FromOthers, NotStarted, OrderInv, NEW n \in Pairs, NetStep(n)
    PROVE  OrderInv'
<1> SUFFICES ASSUME NEW p \in Pairs, NEW k \in Kinds
             PROVE  OrderedAt(p, k)' /\ (Open(p)' => NewestAt(p, k)')
  BY Zenon DEF OrderInv
<1>1. /\ OrderedAt(p, k) /\ (Open(p) => NewestAt(p, k))
      /\ p[1] \in Replica /\ p[2] \in Replica /\ n[1] \in Replica /\ n[2] \in Replica
      /\ p[1] = n[1] /\ p[2] = n[2] => p = n
  BY PairTypes, Zenon DEF OrderInv
<1>2. UNCHANGED life /\ UNCHANGED sent
  BY Zenon DEF NetStep, Drop, Receive, ServeFetch, Refuse
<1>3. Open(p)' <=> Open(p)
  BY <1>2, Zenon DEF Open
<1>4. SUFFICES OrderedAt(p, k)' /\ (Open(p) /\ NewestAt(p, k) => NewestAt(p, k)')
  BY <1>1, <1>3, Zenon
<1>5. CASE p # n /\ (Drop(n) \/ ServeFetch(n) \/ Refuse(n))
  <2>1. UNCHANGED eventQ /\ UNCHANGED handled /\ channel'[p] = channel[p]
    BY <1>5, Zenon DEF Drop, ServeFetch, Refuse, Shapes
  <2> QED
    BY <1>1, <1>2, <2>1, Untouched, Zenon
<1>6. CASE p = n /\ (Drop(n) \/ ServeFetch(n))
  <2>1. UNCHANGED eventQ /\ UNCHANGED handled /\ TakesHead(p)
    BY <1>6, Zenon DEF Drop, ServeFetch, Shapes, TakesHead
  <2>2. Head(channel[p]).kind = k => Head(channel[p]).n < sent[p][k]
    BY <1>6, Zenon DEF Drop, ServeFetch, Cancelled, Kinds
  <2> QED
    BY <1>1, <1>2, <2>1, <2>2, HeadLost, Zenon
<1>7. CASE p = n /\ Refuse(n)
  <2>1. UNCHANGED eventQ /\ UNCHANGED handled /\ channel'[p] = <<>> /\ ~Open(p)
    BY <1>7, Zenon DEF Refuse, Shapes, Open
  <2> QED
    BY <1>1, <1>2, <2>1, Emptied, Zenon
<1>8. CASE Receive(n)
  <2> DEFINE m == Head(channel[n])
             e == Event(m.kind, m, n[1], ClientID(n[2], n[1]))
  <2>1. /\ TakesHead(n)
        /\ m.kind \in Kinds
        /\ \A q \in Pairs : q # n => channel'[q] = channel[q]
    BY <1>8, ChannelHead, Zenon DEF Receive, TakesHead, Shapes, Requests
  <2>2. CASE ClientID(n[2], n[1]) = 0 /\ m.kind # "timeout"
    <3>1. /\ eventQ'[p[2]] = eventQ[p[2]] \/ eventQ'[p[2]] = eventQ[p[2]] \o <<>>
          /\ handled' = [handled EXCEPT ![n][m.kind] = m.n]
      BY <1>1, <1>8, <2>2, Zenon DEF Receive, Events, Shapes
    <3>2. eventQ[p[2]] \o <<>> = eventQ[p[2]]
      <4>1. eventQ[p[2]] \in Seq(QueuedEvents)
        BY <1>1, Zenon DEF Shapes
      <4> QED
        BY <4>1
    <3>3. CASE p # n
      <4>1. handled'[p] = handled[p]
        BY <3>1, <3>3, Zenon DEF Shapes
      <4> QED
        BY <1>1, <1>2, <2>1, <3>1, <3>2, <3>3, <4>1, Untouched, Zenon
    <3>4. CASE p = n
      <4>1. handled[p] \in [Kinds -> Nat]
        BY Zenon DEF Shapes
      <4>2. handled'[p] = [handled[p] EXCEPT ![m.kind] = m.n]
        BY <3>1, <3>4, Zenon DEF Shapes
      <4>3. handled'[p][k] = IF m.kind = k THEN m.n ELSE handled[p][k]
        BY <2>1, <4>1, <4>2, Zenon
      <4>4. Tls /\ life[p[2]] = "serving"
        BY <1>1, <2>2, <3>4, BackendAssumption, Zenon DEF ClientID, Replicas
      <4>5. m.kind = k => InQueue(p, k) = {}
        BY <1>1, <2>2, <4>4, Zenon DEF NotStarted, InQueue, Kinds
      <4> QED
        BY <1>1, <1>2, <2>1, <3>1, <3>2, <3>4, <4>3, <4>5, Refused, Zenon
    <3> QED
      BY <3>3, <3>4, Zenon
  <2>3. CASE ~(ClientID(n[2], n[1]) = 0 /\ m.kind # "timeout")
    <3>1. UNCHANGED handled /\ eventQ' = [eventQ EXCEPT ![n[2]] = @ \o <<e>>]
      BY <1>8, <2>3, Zenon DEF Receive, Events
    <3>2. eventQ[n[2]] \o <<e>> = Append(eventQ[n[2]], e)
      <4>1. eventQ[n[2]] \in Seq(QueuedEvents)
        BY <1>1, Zenon DEF Shapes
      <4> HIDE DEF e
      <4> QED
        BY <4>1
    <3>3. e.kind = m.kind /\ e.from = n[1]
      BY Zenon DEF Event
    <3>4. CASE p[2] # n[2]
      <4>1. eventQ'[p[2]] = eventQ[p[2]] /\ p # n
        BY <1>1, <3>1, <3>4, Zenon DEF Shapes
      <4> QED
        BY <1>1, <1>2, <2>1, <3>1, <4>1, Untouched, Zenon
    <3>5. CASE p[2] = n[2] /\ p # n
      <4>1. eventQ'[p[2]] = Append(eventQ[p[2]], e)
        BY <1>1, <3>1, <3>2, <3>5, Zenon DEF Shapes
      <4>2. e.kind = k => e.from # p[1]
        BY <1>1, <3>3, <3>5, ZenonT(40)
      <4> HIDE DEF e
      <4> QED
        BY <1>1, <1>2, <2>1, <3>1, <3>5, <4>1, <4>2, OtherAppended, Zenon
    <3>6. CASE p = n
      <4>1. eventQ'[p[2]] = Append(eventQ[p[2]], e)
        BY <1>1, <3>1, <3>2, <3>6, Zenon DEF Shapes
      <4> QED
        BY <1>1, <1>2, <2>1, <3>1, <3>6, <4>1, Received, Zenon
    <3> QED
      BY <3>4, <3>5, <3>6, Zenon
  <2> QED
    BY <2>2, <2>3, Zenon
<1> QED
  BY <1>5, <1>6, <1>7, <1>8, Zenon DEF NetStep

\* The messages of each kind stay in the order in which they were sent.
LEMMA OrderStep ==
    ASSUME Shapes, Shapes', FromOthers, NotStarted, OrderInv, [Next]_vars
    PROVE  OrderInv'
<1>1. \A r \in Replica : life[r] = "closed" => life'[r] = "closed"
  BY StaysClosed, Zenon
<1>2. CASE \E n \in Pairs : NetStep(n)
  BY <1>2, NetOrder, Zenon
<1>3. ASSUME NEW r \in Replica, NEW e \in FirstEvent(r), TakeEvent(r, e),
             \A p \in Pairs : GrowsBySending(p)
      PROVE  OrderInv'
  BY <1>1, <1>3, TakeAdvances, GrowingOrder, Zenon
<1>4. ASSUME UNCHANGED <<eventQ, handled>>, \A p \in Pairs : GrowsBySending(p)
      PROVE  OrderInv'
  BY <1>1, <1>4, StandsStill, GrowingOrder, Zenon
<1>5. ASSUME NEW r \in Replica, OnPropose(r) PROVE OrderInv'
  <2>1. PICK e \in FirstEvent(r) :
          /\ TakeEvent(r, e)
          /\ SendVote(r, e.from) \/ UNCHANGED <<channel, sent>>
    BY <1>5, Zenon DEF OnPropose
  <2>2. \A p \in Pairs : GrowsBySending(p)
    BY <2>1, SendToGrows, SilentGrows, Zenon DEF SendVote, Kinds
  <2> QED
    BY <1>3, <2>1, <2>2, Zenon
<1>6. ASSUME NEW r \in Replica, StartGet(r) PROVE OrderInv'
  <2>1. PICK e \in FirstEvent(r) :
          TakeEvent(r, e) /\ SendFetch(r, e.n, Parent(e.block)) /\ UNCHANGED sent
    BY <1>6, Zenon DEF StartGet
  <2> QED
    BY <1>3, <2>1, SendFetchGrows, Zenon
<1>7. ASSUME NEW r \in Replica, GetReturns(r) PROVE OrderInv'
  <2>1. /\ SendVote(r, loop[r].event.from) \/ UNCHANGED <<channel, sent>>
        /\ UNCHANGED <<eventQ, handled>>
    BY <1>7, Zenon DEF GetReturns
  <2>2. \A p \in Pairs : GrowsBySending(p)
    BY <2>1, SendToGrows, SilentGrows, Zenon DEF SendVote, Kinds
  <2> QED
    BY <1>4, <2>1, <2>2, Zenon
<1>8. ASSUME NEW r \in Replica, OnMessage(r) PROVE OrderInv'
  <2>1. PICK e \in FirstEvent(r) :
          /\ TakeEvent(r, e)
          /\ SendNewView(r, e.from) \/ UNCHANGED <<channel, sent>>
    BY <1>8, Zenon DEF OnMessage
  <2>2. \A p \in Pairs : GrowsBySending(p)
    BY <2>1, SendToGrows, SilentGrows, Zenon DEF SendNewView, Kinds
  <2> QED
    BY <1>3, <2>1, <2>2, Zenon
<1>9. ASSUME NEW r \in Replica, OnLocalTimeout(r) PROVE OrderInv'
  <2>1. PICK e \in FirstEvent(r) : TakeEvent(r, e) /\ SendTimeout(r)
    BY <1>9, Zenon DEF OnLocalTimeout
  <2>2. \A p \in Pairs : GrowsBySending(p)
    BY <2>1, SendToGrows, Zenon DEF SendTimeout, Kinds
  <2> QED
    BY <1>3, <2>1, <2>2, Zenon
<1>10. ASSUME NEW r \in Replica, Propose(r) PROVE OrderInv'
  <2>1. /\ \E b : SendPropose(r, b)
        /\ UNCHANGED <<eventQ, handled>>
    BY <1>10, Zenon DEF Propose
  <2>2. \A p \in Pairs : GrowsBySending(p)
    BY <2>1, SendToGrows, Zenon DEF SendPropose, Kinds
  <2> QED
    BY <1>4, <2>1, <2>2, Zenon
<1>11. ASSUME UNCHANGED <<eventQ, handled, channel, sent>> PROVE OrderInv'
  BY <1>4, <1>11, SilentGrows, Zenon
<1>12. ASSUME NEW r \in Replica,
              \/ ProposeNothing(r) \/ EnterView(r) \/ Expire(r) \/ Deadline(r)
              \/ Connect(r) \/ Start(r) \/ Stop(r)
       PROVE  OrderInv'
  BY <1>11, <1>12, Zenon DEF ProposeNothing, EnterView, Expire, Deadline, Connect, Start, Stop, netVars
<1>13. ASSUME NEW r \in Replica, AddTimeout(r) PROVE OrderInv'
  <2> SUFFICES ASSUME NEW p \in Pairs, NEW k \in Kinds
               PROVE  OrderedAt(p, k)' /\ (Open(p)' => NewestAt(p, k)')
    BY Zenon DEF OrderInv
  <2> DEFINE e == Event("local", Request("local", 0, NoBlock), r, r)
  <2>1. /\ OrderedAt(p, k) /\ (Open(p) => NewestAt(p, k))
        /\ p[2] \in Replica
    BY PairTypes, Zenon DEF OrderInv
  <2>2. /\ UNCHANGED <<life, channel, sent, handled>>
        /\ eventQ' = [eventQ EXCEPT ![r] = Append(@, e)]
    BY <1>13, Zenon DEF AddTimeout, netVars
  <2>3. e.kind \notin Kinds
    BY Zenon DEF Event, Kinds
  <2> HIDE DEF e
  <2>4. OrderedAt(p, k)' /\ (NewestAt(p, k) => NewestAt(p, k)')
    <3>1. CASE p[2] = r
      <4>1. eventQ'[p[2]] = Append(eventQ[p[2]], e)
        BY <2>1, <2>2, <3>1, Zenon DEF Shapes
      <4> QED
        BY <2>1, <2>2, <2>3, <4>1, OtherAppended, Zenon
    <3>2. CASE p[2] # r
      <4>1. eventQ'[p[2]] = eventQ[p[2]]
        BY <2>1, <2>2, <3>2, Zenon DEF Shapes
      <4> QED
        BY <2>1, <2>2, <4>1, Untouched, Zenon
    <3> QED
      BY <3>1, <3>2, Zenon
  <2> QED
    BY <2>1, <2>2, <2>4, Zenon DEF Open
<1>14. ASSUME NEW r \in Replica, Close(r) PROVE OrderInv'
  <2> SUFFICES ASSUME NEW p \in Pairs, NEW k \in Kinds
               PROVE  OrderedAt(p, k)' /\ (Open(p)' => NewestAt(p, k)')
    BY Zenon DEF OrderInv
  <2>1. /\ OrderedAt(p, k) /\ (Open(p) => NewestAt(p, k))
        /\ p[1] \in Replica /\ p[2] \in Replica
    BY PairTypes, Zenon DEF OrderInv
  <2>2. UNCHANGED <<eventQ, sent, handled>> /\ life' = [life EXCEPT ![r] = "closed"]
    BY <1>14, Zenon DEF Close
  <2>3. CASE r \in {p[1], p[2]}
    <3>1. channel'[p] = <<>>
      BY <1>14, <2>3, Zenon DEF Close
    <3>2. ~Open(p)'
      BY <2>1, <2>2, <2>3, Zenon DEF Open, Shapes
    <3> QED
      BY <2>1, <2>2, <3>1, <3>2, Emptied, Zenon
  <2>4. CASE r \notin {p[1], p[2]}
    <3>1. channel'[p] = channel[p]
      BY <1>14, <2>4, Zenon DEF Close
    <3>2. Open(p)' => Open(p)
      BY <1>1, <2>1, Zenon DEF Open
    <3> QED
      BY <2>1, <2>2, <3>1, <3>2, Untouched, Zenon
  <2> QED
    BY <2>3, <2>4, Zenon
<1>15. CASE UNCHANGED vars
  BY <1>11, <1>15, Zenon DEF vars, netVars
<1> QED
  BY <1>2, <1>5, <1>6, <1>7, <1>8, <1>9, <1>10, <1>12, <1>13, <1>14, <1>15, Zenon
     DEF Next, LoopStep, ViewStep, LifeStep

-----------------------------------------------------------------------------
(* What waits in the queues *)

\* What a step may add to the queue of r.
NewEvent(r, e) ==
    \/ e = Event("local", Request("local", 0, NoBlock), r, r)
    \/ \E p \in Replica, m \in Requests :
        /\ p # r /\ m.kind \in Kinds
        /\ ClientID(r, p) = 0 => m.kind = "timeout"
        /\ e = Event(m.kind, m, p, ClientID(r, p))

\* What waits after a step waited before, or was added by it.
LEMMA QueueElements ==
    ASSUME Shapes, FromOthers, [Next]_vars, NEW r \in Replica, NEW i \in 1..Len(eventQ'[r])
    PROVE  \/ \E j \in 1..Len(eventQ[r]) : eventQ'[r][i] = eventQ[r][j]
           \/ NewEvent(r, eventQ'[r][i])
<1>1. eventQ[r] \in Seq(QueuedEvents)
  BY Zenon DEF Shapes
<1>2. CASE eventQ'[r] = eventQ[r]
  BY <1>2, Zenon
<1>3. CASE eventQ[r] # <<>> /\ eventQ'[r] = Tail(eventQ[r])
  <2>1. i + 1 \in 1..Len(eventQ[r]) /\ eventQ'[r][i] = eventQ[r][i + 1]
    BY <1>1, <1>3
  <2> QED
    BY <2>1, Zenon
<1>4. ASSUME NEW e, eventQ'[r] = Append(eventQ[r], e), NewEvent(r, e)
      PROVE  \/ \E j \in 1..Len(eventQ[r]) : eventQ'[r][i] = eventQ[r][j]
             \/ NewEvent(r, eventQ'[r][i])
  <2>1. /\ Len(eventQ[r]) \in Nat /\ i \in 1..(Len(eventQ[r]) + 1)
        /\ eventQ'[r][Len(eventQ[r]) + 1] = e
        /\ \A j \in 1..Len(eventQ[r]) : eventQ'[r][j] = eventQ[r][j]
    BY <1>1, <1>4
  <2>2. CASE i = Len(eventQ[r]) + 1
    BY <1>4, <2>1, <2>2, Zenon
  <2>3. CASE i \in 1..Len(eventQ[r])
    BY <2>1, <2>3, Zenon
  <2> QED
    BY <2>1, <2>2, <2>3
<1>5. ASSUME NEW p \in Pairs, Receive(p)
      PROVE  \/ eventQ'[r] = eventQ[r]
             \/ \E e : eventQ'[r] = Append(eventQ[r], e) /\ NewEvent(r, e)
  <2> DEFINE m == Head(channel[p])
             e == Event(m.kind, m, p[1], ClientID(p[2], p[1]))
  <2>1. m \in Requests /\ m.kind \in Kinds
    BY <1>5, ChannelHead, Zenon DEF Receive, Requests
  <2>2. p[1] \in Replica /\ p[2] \in Replica /\ p[1] # p[2]
    BY PairTypes, Zenon
  <2>3. CASE p[2] # r
    BY <1>5, <2>2, <2>3, Zenon DEF Receive, Shapes
  <2>4. CASE p[2] = r /\ ClientID(p[2], p[1]) = 0 /\ m.kind # "timeout"
    <3>1. eventQ'[r] = eventQ[r] \o <<>>
      BY <1>5, <2>2, <2>4, Zenon DEF Receive, Events, Shapes
    <3> QED
      BY <1>1, <3>1
  <2>5. CASE p[2] = r /\ ~(ClientID(p[2], p[1]) = 0 /\ m.kind # "timeout")
    <3>1. eventQ'[r] = eventQ[r] \o <<e>>
      BY <1>5, <2>2, <2>5, Zenon DEF Receive, Events, Shapes
    <3>2. NewEvent(r, e)
      BY <2>1, <2>2, <2>5, Zenon DEF NewEvent
    <3> HIDE DEF e
    <3>3. eventQ[r] \o <<e>> = Append(eventQ[r], e)
      BY <1>1
    <3> QED
      BY <3>1, <3>2, <3>3, Zenon
  <2> QED
    BY <2>3, <2>4, <2>5, Zenon
<1>6. ASSUME NEW q \in Replica, NEW e \in FirstEvent(q), TakeEvent(q, e)
      PROVE  eventQ'[r] = eventQ[r] \/ (eventQ[r] # <<>> /\ eventQ'[r] = Tail(eventQ[r]))
  <2>1. eventQ[q] # <<>>
    BY FirstEventType, Zenon
  <2> QED
    BY <1>6, <2>1, Zenon DEF TakeEvent, Shapes
<1>7. ASSUME NEW q \in Replica, AddTimeout(q)
      PROVE  \/ eventQ'[r] = eventQ[r]
             \/ \E e : eventQ'[r] = Append(eventQ[r], e) /\ NewEvent(r, e)
  BY <1>7, Zenon DEF AddTimeout, NewEvent, Shapes
<1>8. CASE \E p \in Pairs : NetStep(p)
  BY <1>2, <1>4, <1>5, <1>8, Zenon DEF NetStep, Drop, ServeFetch, Refuse
<1>9. CASE \E q \in Replica : LoopStep(q)
  BY <1>2, <1>3, <1>6, <1>9, ZenonT(40)
     DEF LoopStep, OnPropose, StartGet, GetReturns, OnMessage, OnLocalTimeout, ProposeNothing
<1>10. CASE \E q \in Replica : EnterView(q) \/ Propose(q) \/ ViewStep(q) \/ LifeStep(q)
  BY <1>2, <1>4, <1>7, <1>10, Zenon
     DEF EnterView, Propose, ViewStep, Expire, Deadline, LifeStep, Connect, Start, Stop, Close
<1>11. CASE UNCHANGED vars
  BY <1>2, <1>11, ZenonT(40) DEF vars
<1> QED
  BY <1>8, <1>9, <1>10, <1>11, Zenon DEF Next

\* A message in the queue stays one of another replica and under its ID.
LEMMA FromOthersStep ==
    ASSUME Shapes, FromOthers, [Next]_vars
    PROVE  FromOthers'
<1> SUFFICES ASSUME NEW r \in Replica, NEW i \in 1..Len(eventQ'[r])
             PROVE  /\ eventQ'[r][i].kind \in Kinds => eventQ'[r][i].from # r
                    /\ eventQ'[r][i].kind \in {"propose", "vote", "newview"} =>
                         eventQ'[r][i].id = eventQ'[r][i].from
  BY Zenon DEF FromOthers
<1>1. CASE \E j \in 1..Len(eventQ[r]) : eventQ'[r][i] = eventQ[r][j]
  BY <1>1, SMTT(30) DEF FromOthers
<1>2. CASE eventQ'[r][i] = Event("local", Request("local", 0, NoBlock), r, r)
  BY <1>2 DEF Event, Kinds
<1>3. ASSUME NEW p \in Replica, NEW m \in Requests, p # r,
             ClientID(r, p) = 0 => m.kind = "timeout",
             eventQ'[r][i] = Event(m.kind, m, p, ClientID(r, p))
      PROVE  /\ eventQ'[r][i].from # r
             /\ eventQ'[r][i].kind \in {"propose", "vote", "newview"} =>
                  eventQ'[r][i].id = eventQ'[r][i].from
  BY <1>3, SMTT(30) DEF Event, ClientID
<1> QED
  BY <1>1, <1>2, <1>3, QueueElements, Zenon DEF NewEvent

\* Before it starts, a replica handles nothing; under TLS it knows no other
\* replica until it is connected.
LEMMA NotStartedStep ==
    ASSUME Shapes, FromOthers, NotStarted, [Next]_vars
    PROVE  NotStarted'
<1> SUFFICES ASSUME NEW r \in Replica
             PROVE  /\ life'[r] \in {"serving", "connected"} => loop'[r] = Idle
                    /\ Tls /\ life'[r] = "serving" =>
                         \A i \in 1..Len(eventQ'[r]) : eventQ'[r][i].kind \in {"local", "timeout"}
  BY Zenon DEF NotStarted
<1> DEFINE new == life[r] \in {"serving", "connected"}
<1>1. /\ life'[r] = "serving" => life[r] = "serving"
      /\ life'[r] \in {"serving", "connected"} => new /\ loop'[r] = loop[r]
  <2>1. CASE UNCHANGED <<life, loop>>
    BY <2>1, Zenon DEF NotStarted
  <2>2. ASSUME NEW q \in Replica, UNCHANGED life, Runs(q) \/ loop[q] # Idle,
               \E l : loop' = [loop EXCEPT ![q] = l]
        PROVE  new => loop'[r] = loop[r]
    BY <2>2, Zenon DEF Runs, NotStarted, Shapes
  <2>3. Idle.at # "fetch" /\ Proposing.at # "fetch" /\ Idle # Proposing
    BY FetchingType, Zenon
  <2>4. ASSUME NEW p \in Pairs, NetStep(p) PROVE UNCHANGED life /\ (new => loop'[r] = loop[r])
    <3>1. UNCHANGED loop \/ (loop[p[1]].at = "fetch" /\ \E l : loop' = [loop EXCEPT ![p[1]] = l])
      BY <2>4, Zenon DEF NetStep, Drop, Receive, ServeFetch, Refuse
    <3>2. UNCHANGED life
      BY <2>4, ZenonT(40) DEF NetStep, Drop, Receive, ServeFetch, Refuse
    <3> QED
      BY <2>2, <2>3, <3>1, <3>2, PairTypes, Zenon
  <2>5. ASSUME NEW q \in Replica, LoopStep(q) \/ EnterView(q) \/ Propose(q)
        PROVE  UNCHANGED life /\ (new => loop'[r] = loop[r])
    <3>1. /\ UNCHANGED life
          /\ UNCHANGED loop \/ \E l : loop' = [loop EXCEPT ![q] = l]
          /\ Runs(q) \/ loop[q] # Idle
      BY <2>3, <2>5, Zenon DEF LoopStep, OnPropose, StartGet, GetReturns, OnMessage, OnLocalTimeout,
         ProposeNothing, EnterView, Propose, TakeEvent
    <3> QED
      BY <2>2, <3>1, Zenon
  <2>6. ASSUME NEW q \in Replica, ViewStep(q) PROVE UNCHANGED <<life, loop>>
    BY <2>6, Zenon DEF ViewStep, Expire, AddTimeout, Deadline
  <2>7. ASSUME NEW q \in Replica, Connect(q) \/ Start(q) \/ Stop(q)
        PROVE  /\ life'[r] = "serving" => life[r] = "serving"
               /\ life'[r] \in {"serving", "connected"} => new /\ loop'[r] = loop[r]
    BY <2>7, Zenon DEF Connect, Start, Stop, Shapes
  <2>8. ASSUME NEW q \in Replica, Close(q)
        PROVE  /\ life'[r] = "serving" => life[r] = "serving"
               /\ life'[r] \in {"serving", "connected"} => new /\ loop'[r] = loop[r]
    <3>1. life' = [life EXCEPT ![q] = "closed"]
      BY <2>8, Zenon DEF Close
    <3>2. new => loop[r] = Idle
      BY Zenon DEF NotStarted
    <3>3. new => loop'[r] = loop[r]
      BY <2>3, <2>8, <3>2, Zenon DEF Close
    <3> QED
      BY <3>1, <3>3, Zenon DEF Shapes
  <2>9. CASE UNCHANGED vars
    BY <2>9, Zenon DEF vars
  <2> QED
    BY <2>1, <2>4, <2>5, <2>6, <2>7, <2>8, <2>9, Zenon DEF Next, LifeStep
<1>2. ASSUME Tls, life'[r] = "serving", NEW i \in 1..Len(eventQ'[r])
      PROVE  eventQ'[r][i].kind \in {"local", "timeout"}
  <2>1. life[r] = "serving"
    BY <1>1, <1>2, Zenon
  <2>2. CASE \E j \in 1..Len(eventQ[r]) : eventQ'[r][i] = eventQ[r][j]
    BY <1>2, <2>1, <2>2, Zenon DEF NotStarted
  <2>3. CASE NewEvent(r, eventQ'[r][i])
    <3>1. \A p \in Replica : ClientID(r, p) = 0
      BY <1>2, <2>1, Zenon DEF ClientID, Replicas
    <3>2. ASSUME NEW p \in Replica, NEW m, ClientID(r, p) = 0 => m.kind = "timeout",
                 eventQ'[r][i] = Event(m.kind, m, p, ClientID(r, p))
          PROVE  eventQ'[r][i].kind = "timeout"
      BY <3>1, <3>2 DEF Event
    <3>3. Event("local", Request("local", 0, NoBlock), r, r).kind = "local"
      BY Zenon DEF Event
    <3> QED
      BY <2>3, <3>2, <3>3, Zenon DEF NewEvent
  <2> QED
    BY <1>2, <2>2, <2>3, QueueElements, Zenon
<1> QED
  BY <1>1, <1>2, Zenon DEF NotStarted

\* StartGet is the only step that begins a fetch and GetReturns the only one
\* that ends it, and the others keep the block that it is about.
LEMMA FetchRecordedStep ==
    ASSUME Shapes, FromOthers, NotStarted, PendingTyped, FetchRecorded, [Next]_vars
    PROVE  PendingTyped' /\ FetchRecorded'
<1> DEFINE Of(l) == IF l.at = "fetch" THEN {Parent(l.event.block)} ELSE {}
<1>1. /\ \A q \in Replica : loop[q].at = "fetch" => loop[q] \in Fetches
      /\ Idle.at # "fetch" /\ Proposing.at # "fetch" /\ Idle # Proposing
  BY FetchingType, Zenon
<1>2. Of(Idle) = {} /\ Of(Proposing) = {}
  BY <1>1, Zenon
<1>3. \A q \in Replica : pendingFetch[q] = Of(loop[q])
  BY Zenon DEF FetchRecorded
<1> DEFINE Goal == PendingTyped' /\ \A q \in Replica : pendingFetch'[q] = Of(loop'[q])
<1>4. SUFFICES Goal
  BY Zenon DEF FetchRecorded
<1>5. ASSUME UNCHANGED pendingFetch, \A q \in Replica : Of(loop'[q]) = Of(loop[q])
      PROVE  Goal
  BY <1>3, <1>5, Zenon DEF PendingTyped
<1>6. \A q, t \in Replica : loop[q].at = "fetch" =>
        /\ Of([loop[q] EXCEPT !.waiting = @ \ {t}]) = Of(loop[q])
        /\ Of([loop[q] EXCEPT !.found = TRUE]) = Of(loop[q])
  BY <1>1, Zenon DEF Fetches
<1>7. ASSUME NEW p \in Pairs, NetStep(p) PROVE Goal
  <2>1. UNCHANGED pendingFetch
    BY <1>7, Zenon DEF NetStep, Drop, Receive, ServeFetch, Refuse, chainVars
  <2>2. p[1] \in Replica /\ p[2] \in Replica
    BY PairTypes, Zenon
  <2>3. \/ UNCHANGED loop
        \/ /\ loop[p[1]].at = "fetch"
           /\ \/ loop' = [loop EXCEPT ![p[1]].found = TRUE]
              \/ loop' = [loop EXCEPT ![p[1]].waiting = @ \ {p[2]}]
    BY <1>7, Zenon DEF NetStep, Drop, Receive, ServeFetch, Refuse
  <2>4. \A q \in Replica :
          \/ loop'[q] = loop[q]
          \/ /\ loop[q].at = "fetch"
             /\ \/ loop'[q] = [loop[q] EXCEPT !.found = TRUE]
                \/ loop'[q] = [loop[q] EXCEPT !.waiting = @ \ {p[2]}]
    BY <2>2, <2>3, Zenon DEF Shapes
  <2> HIDE DEF Of
  <2>5. \A q \in Replica : Of(loop'[q]) = Of(loop[q])
    BY <1>6, <2>2, <2>4, Zenon
  <2> QED
    BY <1>5, <2>1, <2>5, Zenon
<1>8. ASSUME NEW r \in Replica, StartGet(r) PROVE Goal
  <2>1. PICK e \in FirstEvent(r) :
          /\ TakeEvent(r, e)
          /\ pendingFetch' = [pendingFetch EXCEPT ![r] = @ \cup {Parent(e.block)}]
          /\ loop' = [loop EXCEPT ![r] = [at |-> "fetch", n |-> e.n, event |-> e,
                                          waiting |-> Others(r), found |-> FALSE]]
    BY <1>8, Zenon DEF StartGet
  <2>2. pendingFetch[r] = {}
    BY <1>2, <1>3, <2>1, Zenon DEF TakeEvent
  <2>3. loop'[r] = [at |-> "fetch", n |-> e.n, event |-> e, waiting |-> Others(r), found |-> FALSE]
    BY <2>1, Zenon DEF Shapes
  <2>4. Of(loop'[r]) = {Parent(e.block)}
    BY <2>3
  <2>5. \A q \in Replica : q # r => loop'[q] = loop[q]
    BY <2>1, Zenon DEF Shapes
  <2>6. Parent(e.block) \in BlockIds
    BY FirstEventType, ParentType, Zenon DEF QueuedEvents
  <2> HIDE DEF Of
  <2> QED
    BY <1>3, <2>1, <2>2, <2>4, <2>5, <2>6, ZenonT(40) DEF PendingTyped
<1>9. ASSUME NEW r \in Replica, GetReturns(r) PROVE Goal
  <2>1. /\ loop[r].at = "fetch"
        /\ pendingFetch' = [pendingFetch EXCEPT ![r] = @ \ {Parent(loop[r].event.block)}]
        /\ loop' = [loop EXCEPT ![r] = Idle]
    BY <1>9, Zenon DEF GetReturns, Forget
  <2>2. pendingFetch[r] = {Parent(loop[r].event.block)}
    BY <1>3, <2>1, Zenon
  <2>3. loop'[r] = Idle /\ \A q \in Replica : q # r => loop'[q] = loop[q]
    BY <2>1, Zenon DEF Shapes
  <2> HIDE DEF Of
  <2> QED
    BY <1>2, <1>3, <2>1, <2>2, <2>3, Zenon DEF PendingTyped
<1>10. ASSUME NEW r \in Replica, UNCHANGED pendingFetch,
              loop[r] \in {Idle, Proposing}, \E l \in {Idle, Proposing} : loop' = [loop EXCEPT ![r] = l]
       PROVE  Goal
  <2>1. Of(loop[r]) = {} /\ \A l \in {Idle, Proposing} : Of(l) = {}
    BY <1>2, <1>10, Zenon
  <2>2. loop'[r] \in {Idle, Proposing} /\ \A q \in Replica : q # r => loop'[q] = loop[q]
    BY <1>10, Zenon DEF Shapes
  <2> HIDE DEF Of
  <2>3. \A q \in Replica : Of(loop'[q]) = Of(loop[q])
    BY <2>1, <2>2, Zenon
  <2> QED
    BY <1>5, <1>10, <2>3, Zenon
<1>11. ASSUME NEW r \in Replica, ProposeNothing(r) \/ EnterView(r) \/ Propose(r) \/ Start(r)
       PROVE  Goal
  <2>1. UNCHANGED pendingFetch /\ \E l \in {Idle, Proposing} : loop' = [loop EXCEPT ![r] = l]
    BY <1>11, Zenon DEF ProposeNothing, EnterView, Propose, Start, chainVars
  <2>2. loop[r] \in {Idle, Proposing}
    BY <1>11, Zenon DEF ProposeNothing, EnterView, Propose, Start, NotStarted
  <2> QED
    BY <1>10, <2>1, <2>2, ZenonT(40)
<1>12. ASSUME NEW r \in Replica, Close(r) PROVE Goal
  <2>1. UNCHANGED pendingFetch
    BY <1>12, Zenon DEF Close, chainVars
  <2>2. \A q \in Replica :
          loop'[q] = IF loop[q].at = "fetch" THEN [loop[q] EXCEPT !.waiting = @ \ {r}] ELSE loop[q]
    BY <1>12, Zenon DEF Close
  <2> HIDE DEF Of
  <2>3. \A q \in Replica : Of(loop'[q]) = Of(loop[q])
    BY <1>6, <2>2, ZenonT(40)
  <2> QED
    BY <1>5, <2>1, <2>3, Zenon
<1>13. ASSUME UNCHANGED <<pendingFetch, loop>> PROVE Goal
  BY <1>5, <1>13, Zenon
<1>14. ASSUME NEW r \in Replica,
              \/ OnPropose(r) \/ OnMessage(r) \/ OnLocalTimeout(r) \/ ViewStep(r)
              \/ Connect(r) \/ Stop(r)
       PROVE  UNCHANGED <<pendingFetch, loop>>
  BY <1>14, ZenonT(40) DEF OnPropose, OnMessage, OnLocalTimeout, ViewStep, Expire, AddTimeout, Deadline,
     Connect, Stop, chainVars
<1>15. CASE UNCHANGED vars
  BY <1>13, <1>15, Zenon DEF vars, chainVars
<1> HIDE DEF Goal
<1> QED
  BY <1>7, <1>8, <1>9, <1>11, <1>12, <1>13, <1>14, <1>15, Zenon DEF Next, LoopStep, LifeStep

-----------------------------------------------------------------------------
(* The theorems *)

\* The invariant holds at the start.
LEMMA BackendInit == Init => BackendInv
<1> SUFFICES ASSUME Init PROVE BackendInv
  BY Zenon
<1>1. Shapes
  BY SMTT(30) DEF Init, InitConfig, Shapes
<1>2. \A r \in Replica : eventQ[r] = <<>> /\ loop[r] = Idle /\ pendingFetch[r] = {}
  BY Zenon DEF Init
<1>3. FromOthers /\ NotStarted
  BY <1>2, SMTT(30) DEF FromOthers, NotStarted
<1>4. PendingTyped
  BY Zenon DEF Init, PendingTyped
<1>5. FetchRecorded
  BY <1>1, <1>2, FetchingType, ZenonT(40) DEF FetchRecorded
<1>6. ASSUME NEW p \in Pairs, NEW k \in Kinds PROVE OrderedAt(p, k) /\ NewestAt(p, k)
  <2>1. channel[p] = <<>> /\ eventQ[p[2]] = <<>> /\ sent[p][k] = 0 /\ handled[p][k] = 0
    BY <1>2, PairTypes, Zenon DEF Init, InitConfig
  <2>2. InChannel(p, k) = {} /\ InQueue(p, k) = {}
    BY <2>1, SMTT(30) DEF InChannel, InQueue
  <2> QED
    <3>1. ChannelAscends(p, k) /\ QueueAscends(p, k) /\ QueueBeforeChannel(p, k)
      BY <2>2, Zenon DEF ChannelAscends, QueueAscends, QueueBeforeChannel
    <3>2. handled[p][k] <= sent[p][k] /\ ~(sent[p][k] > handled[p][k])
      BY <2>1
    <3> QED
      BY <3>1, <3>2, Zenon DEF OrderedAt, NewestAt
<1> QED
  BY <1>1, <1>3, <1>4, <1>5, <1>6, Zenon DEF BackendInv, OrderInv

\* Every step keeps the invariant.
LEMMA BackendStep == BackendInv /\ [Next]_vars => BackendInv'
<1> SUFFICES ASSUME Shapes, FromOthers, NotStarted, PendingTyped, FetchRecorded, OrderInv, [Next]_vars
             PROVE  BackendInv'
  BY Zenon DEF BackendInv
<1>1. Shapes'
  BY ShapesStep, Zenon
<1>2. FromOthers' /\ NotStarted'
  BY FromOthersStep, NotStartedStep, Zenon
<1>3. PendingTyped' /\ FetchRecorded'
  BY FetchRecordedStep, Zenon
<1>4. OrderInv'
  BY <1>1, OrderStep, Zenon
<1> QED
  BY <1>1, <1>2, <1>3, <1>4, Zenon DEF BackendInv

\* The invariant always holds.
LEMMA BackendAlways == Spec => []BackendInv
BY BackendInit, BackendStep, PTL DEF Spec

\* Config: the cancel functions of the four kinds of messages never cost the
\* newest message, with or without TLS, however messages, fetches, timeouts and
\* the ends of replicas interleave.
THEOREM NewestIsKept == Spec => []NewestKept
<1>1. BackendInv => NewestKept
  <2> SUFFICES ASSUME BackendInv, NEW p \in Pairs, NEW k \in Kinds,
                      sent[p][k] > handled[p][k], Open(p)
               PROVE  \/ \E i \in 1..Len(channel[p]) :
                           channel[p][i].kind = k /\ channel[p][i].n = sent[p][k]
                      \/ \E e \in Waiting(p[2]) : e.kind = k /\ e.from = p[1] /\ e.n = sent[p][k]
    BY ZenonT(40) DEF NewestKept, Open
  <2>1. NewestAt(p, k)
    BY Zenon DEF BackendInv, OrderInv
  <2>2. \A i \in InQueue(p, k) : \E e \in Waiting(p[2]) :
          e.kind = k /\ e.from = p[1] /\ e.n = eventQ[p[2]][i].n
    BY Zenon DEF InQueue, Waiting
  <2> QED
    BY <2>1, <2>2, ZenonT(40) DEF NewestAt, InChannel
<1> QED
  BY <1>1, BackendAlways, PTL

\* blockChain.Get: while the event loop fetches a block exactly that block is in
\* pendingFetch, and at all other times nothing is.
THEOREM FetchIsRecorded == Spec => []FetchRecorded
<1>1. BackendInv => FetchRecorded
  BY Zenon DEF BackendInv
<1> QED
  BY <1>1, BackendAlways, PTL
=============================================================================
