------------------------------ MODULE Backend -------------------------------
(***************************************************************************)
(* The gorums backend between replicas: Config sends, Server receives,     *)
(* messages wait in the bounded queue of the event loop, and the event     *)
(* loop blocks while blockChain.Get fetches a block from the others.  Also *)
(* the life of a Replica (Connect, Start, Stop, Close) and the contexts    *)
(* and the timer of the view, which end a fetch.                           *)
(*                                                                         *)
(* What the protocol decides is left open: when a replica proposes,        *)
(* whether a proposal is voted for, whether a timeout ends the view.       *)
(* A block is its proposer and number; its parent has the number before.   *)
(***************************************************************************)
EXTENDS Integers, Sequences, FiniteSets

CONSTANTS
    Replica,
    Tls,            \* whether the connections use TLS
    BufferSize,     \* of the event loop's queue
    FirstLeader,    \* the leader of view 1
    MaxViews,       \* bound: MaxViews[r] times r enters a view that it leads
    MaxExpire,      \* bound: MaxExpire[r] times the timer of r expires
    MayStop         \* the replicas that are stopped at some time

ASSUME BackendAssumption ==
    /\ 0 \notin Replica
    /\ Tls \in BOOLEAN
    /\ BufferSize \in Nat \ {0}
    /\ FirstLeader \in Replica /\ Replica # {FirstLeader}
    /\ MaxViews \in [Replica -> Nat]
    /\ MaxExpire \in [Replica -> Nat]
    /\ MayStop \subseteq Replica

VARIABLES
    life,           \* where each replica is in its life
    loop,           \* what its event loop does
    eventQ,         \* the queue of its event loop
    led,            \* how often it entered a view that it leads
    blocks,         \* blockChain.blocks: the hashes it has
    pendingFetch,   \* blockChain.pendingFetch
    ctx,            \* the view context: "first" has no deadline, or it is "done"
    timer,          \* whether the view timer is set
    firing,         \* how many of its functions are in AddEvent
    expired,        \* how often the timer expired
    channel,        \* the requests from one replica to another: gorums
    sent,           \* the number of the last message of a kind, and whose
                    \* context is the one that is not cancelled
    handled         \* history: the number of the last one handled or refused

viewVars == <<ctx, timer, firing, expired>>
chainVars == <<blocks, pendingFetch>>
netVars == <<channel, sent>>

vars == <<life, loop, eventQ, led, chainVars, viewVars, netVars, handled>>

Kinds == {"propose", "vote", "newview", "timeout"}
Pairs == {p \in Replica \X Replica : p[1] # p[2]}
Others(r) == Replica \ {r}

Parent(b) == <<b[1], b[2] - 1>>
Idle == [at |-> "idle"]
Proposing == [at |-> "commands"]

\* The channels and the cancel functions of NewConfig; the ID of the sender is
\* in the metadata of its connection.
InitConfig ==
    /\ channel = [p \in Pairs |-> <<>>]
    /\ sent = [p \in Pairs |-> [k \in Kinds |-> 0]]

Init ==
    /\ life = [r \in Replica |-> "serving"]
    /\ loop = [r \in Replica |-> Idle]
    /\ eventQ = [r \in Replica |-> <<>>]
    /\ led = [r \in Replica |-> 0]
    /\ blocks = [r \in Replica |-> {<<p, 0>> : p \in Replica}]
    /\ pendingFetch = [r \in Replica |-> {}]
    /\ ctx = [r \in Replica |-> "first"]
    /\ timer = [r \in Replica |-> FALSE]
    /\ firing = [r \in Replica |-> 0]
    /\ expired = [r \in Replica |-> 0]
    /\ InitConfig
    /\ handled = [p \in Pairs |-> [k \in Kinds |-> 0]]

-----------------------------------------------------------------------------
(* Sending: Config and gorumsReplica *)

Request(kind, n, block) == [kind |-> kind, n |-> n, block |-> block]

NoBlock == <<0, 0>>

\* Vote, NewView, Propose and Timeout to some replicas: the context of the
\* message of the kind before is cancelled, and this one gets a new context.
SendTo(r, dests, kind, block) ==
    /\ sent' = [p \in Pairs |-> IF p[1] = r /\ p[2] \in dests
                                THEN [sent[p] EXCEPT ![kind] = @ + 1] ELSE sent[p]]
    /\ channel' = [p \in Pairs |-> IF p[1] = r /\ p[2] \in dests
                                   THEN Append(channel[p], Request(kind, sent[p][kind] + 1, block))
                                   ELSE channel[p]]

SendVote(r, q) == SendTo(r, {q}, "vote", NoBlock)

SendNewView(r, q) == SendTo(r, {q}, "newview", NoBlock)

SendPropose(r, b) == SendTo(r, Others(r), "propose", b)

SendTimeout(r) == SendTo(r, Others(r), "timeout", NoBlock)

\* The quorum call Fetch asks all the others.
SendFetch(r, n, b) ==
    channel' = [p \in Pairs |-> IF p[1] = r THEN Append(channel[p], Request("fetch", n, b))
                               ELSE channel[p]]

CancelledAll(p, m) == m.kind \in Kinds /\ m.n <= sent[p][m.kind]

Cancelled(p, m) == m.kind \in Kinds /\ m.n < sent[p][m.kind]

\* gorums drops a request whose context is cancelled before it is sent.
Drop(p) ==
    /\ channel[p] # <<>> /\ Cancelled(p, Head(channel[p]))
    /\ channel' = [channel EXCEPT ![p] = Tail(@)]
    /\ UNCHANGED <<life, led, loop, eventQ, chainVars, viewVars, sent, handled>>

-----------------------------------------------------------------------------
(* Receiving: Server *)

\* The replicas in the configuration of q, which is empty until Connect.
Replicas(q) == IF life[q] = "serving" THEN {} ELSE Replica

\* getClientID: with TLS the replica is looked up in the configuration.
ClientID(q, p) == IF Tls /\ p \notin Replicas(q) THEN 0 ELSE p

Event(kind, m, p, id) == [kind |-> kind, n |-> m.n, block |-> m.block, from |-> p, id |-> id]

\* Without an ID, Propose, Vote and NewView return, and Timeout goes on.
Events(q, p, m) ==
    IF ClientID(q, p) = 0 /\ m.kind # "timeout" THEN <<>>
    ELSE <<Event(m.kind, m, p, ClientID(q, p))>>

HasRoom(r) == Len(eventQ[r]) < BufferSize

\* The handlers of the messages of a connection run one after the other: while
\* AddEvent waits for room, the next message is not looked at.
Receive(p) ==
    /\ channel[p] # <<>> /\ Head(channel[p]).kind # "fetch"
    /\ LET es == Events(p[2], p[1], Head(channel[p]))
       IN  /\ es # <<>> => HasRoom(p[2])
           /\ eventQ' = [eventQ EXCEPT ![p[2]] = @ \o es]
           /\ handled' = IF es # <<>> THEN handled
                         ELSE [handled EXCEPT ![p][Head(channel[p]).kind] = Head(channel[p]).n]
    /\ channel' = [channel EXCEPT ![p] = Tail(@)]
    /\ UNCHANGED <<life, led, loop, chainVars, viewVars, sent>>

\* Server.Fetch answers from the local chain.  The quorum call ends with the
\* first block whose hash is right, or when every replica has answered.
ServeFetch(p) ==
    LET m == Head(channel[p])
        waits == loop[p[1]].at = "fetch" /\ loop[p[1]].n = m.n
    IN  /\ channel[p] # <<>>
        /\ m.kind = "fetch"
        /\ channel' = [channel EXCEPT ![p] = Tail(@)]
        /\ loop' = IF ~waits THEN loop
                   ELSE IF m.block \in blocks[p[2]]
                   THEN [loop EXCEPT ![p[1]].found = TRUE]
                   ELSE [loop EXCEPT ![p[1]].waiting = @ \ {p[2]}]
        /\ UNCHANGED <<life, led, eventQ, chainVars, viewVars, sent, handled>>

-----------------------------------------------------------------------------
(* The view: timer and context *)

\* newCtx and timer.Reset.
NewView(r) ==
    /\ ctx' = [ctx EXCEPT ![r] = "live"]
    /\ timer' = [timer EXCEPT ![r] = TRUE]
    /\ UNCHANGED <<firing, expired>>

\* The timer expires: its function cancels the context and then adds an event.
Expire(r) ==
    /\ timer[r]
    /\ expired[r] < MaxExpire[r]
    /\ expired' = [expired EXCEPT ![r] = @ + 1]
    /\ ctx' = [ctx EXCEPT ![r] = "done"]
    /\ timer' = [timer EXCEPT ![r] = FALSE]
    /\ firing' = [firing EXCEPT ![r] = @ + 1]
    /\ UNCHANGED <<life, led, loop, eventQ, chainVars, netVars, handled>>

AddTimeout(r) ==
    /\ firing[r] > 0
    /\ HasRoom(r)
    /\ firing' = [firing EXCEPT ![r] = @ - 1]
    /\ eventQ' = [eventQ EXCEPT ![r] =
           Append(@, Event("local", Request("local", 0, NoBlock), r, r))]
    /\ UNCHANGED <<life, led, loop, chainVars, ctx, timer, expired, netVars, handled>>

DeadlineNever(r) == FALSE /\ UNCHANGED vars

\* context.WithTimeout.
Deadline(r) ==
    /\ ctx[r] = "live"
    /\ ctx' = [ctx EXCEPT ![r] = "done"]
    /\ UNCHANGED <<life, led, loop, eventQ, chainVars, timer, firing, expired, netVars, handled>>

-----------------------------------------------------------------------------
(* The event loop *)

\* The loop runs, or handles what was in the queue when it was stopped.
Runs(r) == life[r] \in {"running", "stopping"}

\* The event at the head of the queue, if any.
FirstEvent(r) == {eventQ[r][i] : i \in (1..Len(eventQ[r])) \cap {1}}

NoteHandled(e, r) ==
    handled' = IF e.kind \in Kinds THEN [handled EXCEPT ![<<e.from, r>>][e.kind] = e.n]
               ELSE handled

\* A replica enters a view that it leads: Propose waits for commands.
EnterView(r) ==
    /\ Runs(r) /\ loop[r] = Idle
    /\ led[r] < MaxViews[r]
    /\ led' = [led EXCEPT ![r] = @ + 1]
    /\ NewView(r)
    /\ loop' = [loop EXCEPT ![r] = Proposing]
    /\ UNCHANGED <<life, eventQ, chainVars, netVars, handled>>

\* The command queue has commands: Propose stores its block and sends it.
Propose(r) ==
    LET b == <<r, sent[<<r, CHOOSE q \in Others(r) : TRUE>>]["propose"] + 1>>
    IN  /\ loop[r] = Proposing
        /\ blocks' = [blocks EXCEPT ![r] = @ \cup {b}]
        /\ SendPropose(r, b)
        /\ loop' = [loop EXCEPT ![r] = Idle]
        /\ UNCHANGED <<life, led, eventQ, pendingFetch, viewVars, handled>>

\* The command queue gives up when the view context is done.
ProposeNothing(r) ==
    /\ loop[r] = Proposing
    /\ ctx[r] = "done"
    /\ loop' = [loop EXCEPT ![r] = Idle]
    /\ UNCHANGED <<life, led, eventQ, chainVars, viewVars, netVars, handled>>

TakeEvent(r, e) ==
    /\ Runs(r) /\ loop[r] = Idle
    /\ eventQ' = [eventQ EXCEPT ![r] = Tail(@)]
    /\ NoteHandled(e, r)

\* OnPropose whose blocks are there: the block may be stored and voted for.
OnPropose(r) ==
    \E e \in FirstEvent(r) :
        /\ e.kind = "propose"
        /\ TakeEvent(r, e)
        /\ Parent(e.block) \in blocks[r]
        /\ \/ /\ blocks' = [blocks EXCEPT ![r] = @ \cup {e.block}]
              /\ SendVote(r, e.from)
           \/ UNCHANGED <<blocks, channel, sent>>
        /\ UNCHANGED <<life, led, loop, pendingFetch, viewVars>>

\* Get does not find the block: the mutex is released, and Fetch waits.
StartGet(r) ==
    \E e \in FirstEvent(r) :
        /\ e.kind = "propose"
        /\ TakeEvent(r, e)
        /\ Parent(e.block) \notin blocks[r]
        /\ pendingFetch' = [pendingFetch EXCEPT ![r] = @ \cup {Parent(e.block)}]
        /\ loop' = [loop EXCEPT ![r] = [at |-> "fetch", n |-> e.n, event |-> e,
                                        waiting |-> Others(r), found |-> FALSE]]
        /\ SendFetch(r, e.n, Parent(e.block))
        /\ UNCHANGED <<life, led, blocks, viewVars, sent>>

\* Fetch returns: with a block, without, or because the context is done.
FetchEnds(r) == loop[r].found \/ loop[r].waiting = {} \/ ctx[r] = "done"

ForgetFound(r) ==
    pendingFetch' = IF loop[r].found
                    THEN [pendingFetch EXCEPT ![r] = @ \ {Parent(loop[r].event.block)}]
                    ELSE pendingFetch

\* Get, after Fetch: the entry in pendingFetch is deleted first.
Forget(r) ==
    pendingFetch' = [pendingFetch EXCEPT ![r] = @ \ {Parent(loop[r].event.block)}]

\* Get returns and OnPropose goes on.
GetReturns(r) ==
    /\ loop[r].at = "fetch"
    /\ FetchEnds(r)
    /\ Forget(r)
    /\ LET e == loop[r].event
           got == IF loop[r].found THEN {Parent(e.block)} ELSE {}
       IN  \/ /\ blocks' = [blocks EXCEPT ![r] = @ \cup got \cup {e.block}]
              /\ SendVote(r, e.from)
           \/ /\ blocks' = [blocks EXCEPT ![r] = @ \cup got]
              /\ UNCHANGED <<channel, sent>>
    /\ loop' = [loop EXCEPT ![r] = Idle]
    /\ UNCHANGED <<life, led, eventQ, viewVars, handled>>

\* OnVote, OnNewView and OnRemoteTimeout: a timeout may end the view, and the
\* next leader gets a new-view message.
OnMessage(r) ==
    \E e \in FirstEvent(r) :
        /\ e.kind \in {"vote", "newview", "timeout"}
        /\ TakeEvent(r, e)
        /\ \/ UNCHANGED <<viewVars, channel, sent>>
           \/ /\ e.kind = "timeout"
              /\ NewView(r)
              /\ SendNewView(r, e.from)
        /\ UNCHANGED <<life, led, loop, chainVars>>

\* onLocalTimeout: the timeout is sent, and the context renewed if it is done.
OnLocalTimeout(r) ==
    \E e \in FirstEvent(r) :
        /\ e.kind = "local"
        /\ TakeEvent(r, e)
        /\ SendTimeout(r)
        /\ IF ctx[r] = "done" THEN NewView(r)
           ELSE /\ timer' = [timer EXCEPT ![r] = TRUE]
                /\ UNCHANGED <<ctx, firing, expired>>
        /\ UNCHANGED <<life, led, loop, chainVars>>

-----------------------------------------------------------------------------
(* The life of a replica *)

Connect(r) ==
    /\ life[r] = "serving"
    /\ life' = [life EXCEPT ![r] = "connected"]
    /\ UNCHANGED <<led, loop, eventQ, chainVars, viewVars, netVars, handled>>

\* Start: the synchronizer sets its timer, the leader of view 1 proposes, and
\* then the event loop runs.
Start(r) ==
    /\ life[r] = "connected"
    /\ life' = [life EXCEPT ![r] = "running"]
    /\ timer' = [timer EXCEPT ![r] = TRUE]
    /\ loop' = [loop EXCEPT ![r] = IF r = FirstLeader THEN Proposing ELSE Idle]
    /\ UNCHANGED <<led, eventQ, chainVars, ctx, firing, expired, netVars, handled>>

\* Stop: the context of Run is cancelled, which also stops the timer.
Stop(r) ==
    /\ r \in MayStop
    /\ life[r] = "running"
    /\ life' = [life EXCEPT ![r] = "stopping"]
    /\ timer' = [timer EXCEPT ![r] = FALSE]
    /\ UNCHANGED <<led, loop, eventQ, chainVars, ctx, firing, expired, netVars, handled>>

\* The event loop has ended, Stop goes on and closes the connections: fetches
\* of others fail, and no message leaves or reaches the replica any more.
Close(r) ==
    /\ life[r] = "stopping" /\ loop[r] = Idle
    /\ life' = [life EXCEPT ![r] = "closed"]
    /\ channel' = [p \in Pairs |-> IF r \in {p[1], p[2]} THEN <<>> ELSE channel[p]]
    /\ loop' = [q \in Replica |-> IF loop[q].at = "fetch"
                                  THEN [loop[q] EXCEPT !.waiting = @ \ {r}] ELSE loop[q]]
    /\ UNCHANGED <<led, eventQ, chainVars, viewVars, sent, handled>>

\* A request to a replica that is closed fails.
Refuse(p) ==
    /\ life[p[2]] = "closed" /\ channel[p] # <<>>
    /\ channel' = [channel EXCEPT ![p] = <<>>]
    /\ loop' = IF loop[p[1]].at = "fetch"
               THEN [loop EXCEPT ![p[1]].waiting = @ \ {p[2]}] ELSE loop
    /\ UNCHANGED <<life, led, eventQ, chainVars, viewVars, sent, handled>>

NetStep(p) ==
    Drop(p) \/ Receive(p) \/ ServeFetch(p) \/ Refuse(p)

LoopStep(r) ==
    \/ OnPropose(r) \/ StartGet(r) \/ GetReturns(r)
    \/ OnMessage(r) \/ OnLocalTimeout(r) \/ ProposeNothing(r)

ViewStep(r) == Expire(r) \/ AddTimeout(r) \/ Deadline(r)

LifeStep(r) == Connect(r) \/ Start(r) \/ Stop(r) \/ Close(r)

Next ==
    \/ \E p \in Pairs : NetStep(p)
    \/ \E r \in Replica : LoopStep(r) \/ EnterView(r) \/ Propose(r) \/ ViewStep(r) \/ LifeStep(r)

Spec == Init /\ [][Next]_vars

\* Goroutines run on: the loops, gorums and its handlers, contexts with a
\* deadline, and a Stop that was called.  Nothing makes a replica connect,
\* start, enter a view or stop, commands may never come, and a timer that was
\* stopped never expires.
Fairness ==
    /\ \A p \in Pairs : WF_vars(NetStep(p))
    /\ \A r \in Replica : WF_vars(LoopStep(r)) /\ WF_vars(Deadline(r)) /\ WF_vars(AddTimeout(r))
                          /\ WF_vars(Close(r))

FairSpec == Spec /\ Fairness
-----------------------------------------------------------------------------
(* Properties *)

Waiting(r) == {eventQ[r][i] : i \in 1..Len(eventQ[r])}

\* Cancelling the message of a kind before the next one (voteCancel,
\* proposeCancel and the others) never costs the newest: as long as both ends
\* are open it is on its way, waits, was handled, or was refused because its
\* sender was not known yet.
NewestKept ==
    \A p \in Pairs, k \in Kinds :
        sent[p][k] > handled[p][k] /\ life[p[1]] # "closed" /\ life[p[2]] # "closed" =>
            \/ \E i \in 1..Len(channel[p]) : channel[p][i].kind = k /\ channel[p][i].n = sent[p][k]
            \/ \E e \in Waiting(p[2]) : e.kind = k /\ e.from = p[1] /\ e.n = sent[p][k]

\* pendingFetch names the block that the event loop waits for, and no other:
\* Get deletes the entry however Fetch ends.
FetchRecorded ==
    \A r \in Replica :
        pendingFetch[r] = IF loop[r].at = "fetch" THEN {Parent(loop[r].event.block)} ELSE {}

\* Get always returns, so that the event loop goes on, though the replica that
\* has the block may wait for commands while its queue is full and the request
\* is behind a message that its handler cannot add.
GetEnds == \A r \in Replica : loop[r].at = "fetch" ~> loop[r].at # "fetch"

\* Stop returns after the first view, though it waits for an event loop that may
\* be fetching or waiting for commands, and though it stops the timer.  In the
\* first view, whose context has no deadline, it need not return.
StopEndsLater ==
    \A r \in Replica : life[r] = "stopping" /\ ctx[r] # "first" ~> life[r] = "closed"
=============================================================================
