--------------------------- MODULE Orchestration ---------------------------
(***************************************************************************)
(* An experiment: the controller (Experiment.Run), the stream to each of   *)
(* its workers (RemoteWorker, protostream) and the workers (Worker.Run)    *)
(* that create, start and stop replicas and clients.  A worker handles one *)
(* request at a time; a stream carries one request or one response.        *)
(* The replicas themselves are modelled elsewhere: here they leave their   *)
(* first view, execute blocks and end.  A replica that is stopped in its   *)
(* first view may wait for commands for ever.                              *)
(***************************************************************************)
EXTENDS Assignment

CONSTANTS
    Configs,       \* the host configurations to consider
    MaxErrors,     \* bound: the operations of workers that fail
    MaxCrashes,    \* bound: the workers that crash
    MaxExecuted    \* bound: the blocks that a replica executes

\* A configuration only names hosts that have a worker.
ASSUME OrchestrationAssumption ==
    \A c \in Configs :
        /\ DOMAIN c \subseteq Hosts
        /\ \A h \in DOMAIN c : c[h].replicas \in Nat /\ c[h].clients \in Nat

VARIABLES
    phase,       \* where the controller is in Run
    failed,      \* the controller has seen an error
    todo,        \* the hosts that the loop of the phase has still to call
    called,      \* the hosts whose response is awaited
    plan,        \* the assignment of replicas and clients to hosts, and the
                 \* configuration it was made from
    cfg,         \* the replicas that were created, as the controller knows
    hashes,      \* the hashes that the controller got
    request,     \* the request on the stream to each worker, or None
    response,    \* the response on the stream from each worker, or None
    worker,      \* is each worker "running", "ended" or "crashed"?
    replica,     \* the state of each replica
    client,      \* the state of each client
    config,      \* the replicas in the configuration of each replica
    executed,    \* the number of blocks that each replica has executed
    taken,       \* the hashes that the stopReplicas of each worker has taken
    errors,      \* bound: operations failed so far
    crashes      \* bound: workers crashed so far

controller == <<phase, failed, todo, called, plan, cfg, hashes>>
streams == <<request, response>>
nodes == <<replica, client, config, executed, taken>>
vars == <<controller, streams, worker, nodes, errors, crashes>>

None == [type |-> "none"]
NoHashes == [id \in {} |-> 0]
ReplicaIDs == 1..NumReplicas
ClientIDs == 1..NumClients

\* A bug that stops the replicas before the clients.
PhasesReplicasFirst == <<"create", "startReplicas", "startClients", "sleep",
            "stopReplicas", "stopClients", "quit", "done">>

\* The phases of Run in order; "quit" is the deferred call.
Phases == <<"create", "startReplicas", "startClients", "sleep",
            "stopClients", "stopReplicas", "quit", "done">>
NextPhase(p) == Phases[1 + CHOOSE i \in DOMAIN Phases : Phases[i] = p]

\* startReplicas calls all workers at once, the others one after the other.
Concurrent(p) == p = "startReplicas"

\* An order of the hosts, as the loop over a map has.
Orders == Bijection(1..NumHosts, Hosts)

\* A strategy for each replica that is assigned, for any order in which the
\* loop over the strategies visits them.
Strategies(ids) ==
    {f \in [ids -> DOMAIN Byzantine \cup {""}] :
        \A id \in ids : IF StrategiesOf(id) = {} THEN f[id] = ""
                       ELSE f[id] \in StrategiesOf(id)}

Plans(c, order) ==
    LET replicas == HostsToReplicas(c, order)
    IN  {[given    |-> c,
          replicas |-> replicas,
          clients  |-> HostsToClients(c, order),
          strategy |-> strategy] :
            strategy \in Strategies(UNION {replicas[h] : h \in Hosts})}

NoPlan == [given |-> <<>>, replicas |-> [h \in Hosts |-> {}],
           clients |-> [h \in Hosts |-> {}], strategy |-> <<>>]

Init ==
    /\ \E c \in Configs, order \in Orders :
        IF Valid(c, order)
        THEN plan \in Plans(c, order) /\ phase = "create" /\ failed = FALSE
        ELSE plan = NoPlan /\ phase = "quit" /\ failed = TRUE
    /\ todo = Hosts
    /\ called = {}
    /\ cfg = {}
    /\ hashes = NoHashes
    /\ request = [h \in Hosts |-> None]
    /\ response = [h \in Hosts |-> None]
    /\ worker = [h \in Hosts |-> "running"]
    /\ replica = [id \in ReplicaIDs |-> "none"]
    /\ client = [id \in ClientIDs |-> "none"]
    /\ config = [id \in ReplicaIDs |-> {}]
    /\ executed = [id \in ReplicaIDs |-> 0]
    /\ taken = [h \in Hosts |-> NoHashes]
    /\ errors = 0
    /\ crashes = 0

-----------------------------------------------------------------------------
\* The controller.

\* The request that the current phase sends to host h.
RequestTo(h) ==
    CASE phase = "create"        -> [type |-> phase, ids |-> plan.replicas[h]]
      [] phase = "startReplicas" -> [type |-> phase, ids |-> plan.replicas[h],
                                     cfg |-> cfg]
      [] phase = "startClients"  -> [type |-> phase, ids |-> plan.clients[h],
                                     cfg |-> cfg]
      [] phase = "stopClients"   -> [type |-> phase, ids |-> plan.clients[h]]
      [] phase = "stopReplicas"  -> [type |-> phase, ids |-> plan.replicas[h]]
      [] phase = "quit"          -> [type |-> phase]

\* rpc: the request is written, and the response awaited.
Call(h) ==
    /\ phase \notin {"sleep", "quit", "done"}
    /\ h \in todo
    /\ Concurrent(phase) \/ called = {}
    /\ todo' = todo \ {h}
    /\ called' = called \cup {h}
    /\ request' = [request EXCEPT ![h] = RequestTo(h)]
    /\ UNCHANGED <<phase, failed, plan, cfg, hashes, response, worker, nodes,
                   errors, crashes>>

\* A bug that does not wait for the other calls of the phase.
LeaveAtOnce(open) == TRUE

\* The loop of the phase is over when no call is open.
Leave(open) == open = {}

\* The controller goes on when host h has answered, well or not.
GoOn(h, ok) ==
    LET open == (called \cup todo) \ {h}
        bad  == failed \/ ~ok
    IN  /\ failed' = bad
        /\ IF ~ok /\ ~Concurrent(phase)
           THEN phase' = "quit" /\ todo' = Hosts /\ called' = {}
           ELSE IF Leave(open)
           THEN /\ phase' = IF bad THEN "quit" ELSE NextPhase(phase)
                /\ todo' = Hosts
                /\ called' = {}
           ELSE /\ called' = called \ {h}
                /\ UNCHANGED <<phase, todo>>

\* The response of a worker is read: a status error, or what the phase does
\* with a good one.  The last response of stopReplicas is followed by the
\* comparison of the hashes.
Answered(h) ==
    LET res == response[h]
        got == [id \in DOMAIN hashes \cup DOMAIN res.hashes |->
                    IF id \in DOMAIN hashes THEN hashes[id] ELSE res.hashes[id]]
        mismatch == /\ phase = "stopReplicas" /\ todo = {}
                    /\ \E i, j \in DOMAIN got : got[i] # got[j]
    IN  /\ h \in called
        /\ res # None
        /\ response' = [response EXCEPT ![h] = None]
        /\ GoOn(h, res.ok /\ ~mismatch)
        /\ cfg' = IF phase = "create" THEN cfg \cup res.ids ELSE cfg
        /\ hashes' = got
        /\ UNCHANGED <<plan, request, worker, nodes, errors, crashes>>

\* A bug that keeps waiting for the response of a worker that has ended.
DisconnectedUnseen(h) == FALSE

\* The stream ends because the worker has: Write or Read fails.
Disconnected(h) ==
    /\ h \in called
    /\ response[h] = None
    /\ worker[h] # "running"
    /\ GoOn(h, FALSE)
    /\ UNCHANGED <<plan, cfg, hashes, streams, worker, nodes, errors, crashes>>

\* time.Sleep(e.Duration)
Sleep ==
    /\ phase = "sleep"
    /\ phase' = NextPhase(phase)
    /\ UNCHANGED <<failed, todo, called, plan, cfg, hashes, streams, worker,
                   nodes, errors, crashes>>

\* quit: Quit only writes.  The first error ends the loop; the write to a
\* worker that has ended may or may not fail.
Quit(h) ==
    /\ phase = "quit"
    /\ h \in todo
    /\ \/ /\ request' = [request EXCEPT ![h] = RequestTo(h)]
          /\ todo' = todo \ {h}
          /\ phase' = IF todo' = {} THEN "done" ELSE phase
          /\ UNCHANGED failed
       \/ /\ worker[h] # "running"
          /\ phase' = "done"
          /\ failed' = TRUE
          /\ UNCHANGED <<todo, request>>
    /\ UNCHANGED <<called, plan, cfg, hashes, response, worker, nodes, errors,
                   crashes>>

-----------------------------------------------------------------------------
\* The workers.

\* The response of an operation that went well, and of one that failed.
Ok(ids, h) == [type |-> "ok", ok |-> TRUE, ids |-> ids, hashes |-> h]
Failure == [type |-> "status", ok |-> FALSE, ids |-> {}, hashes |-> NoHashes]

\* Run writes the response of the request it has read.
Respond(h, res) ==
    /\ request' = [request EXCEPT ![h] = None]
    /\ response' = [response EXCEPT ![h] = res]
    /\ UNCHANGED <<controller, worker, crashes>>

\* An operation that works on the ids of the request one by one may fail
\* after some of them: done is those it went through, which are all exactly
\* if it did not fail.
Through(h, done, res) ==
    LET ids == request[h].ids
    IN  \/ /\ done = ids
           /\ UNCHANGED errors
           /\ Respond(h, res)
        \/ /\ done # ids
           /\ errors < MaxErrors
           /\ errors' = errors + 1
           /\ Respond(h, Failure)

\* f with the value v for the ids given.
Become(f, ids, v) == [id \in DOMAIN f |-> IF id \in ids THEN v ELSE f[id]]

Takes(h, type) == worker[h] = "running" /\ request[h].type = type

\* createReplicas: the loop over the map of options may fail at any replica.
CreateReplicas(h, done) ==
    /\ Takes(h, "create")
    /\ done \subseteq request[h].ids
    /\ replica' = Become(replica, done, "created")
    /\ Through(h, done, Ok(done, NoHashes))
    /\ UNCHANGED <<client, config, executed, taken>>

\* A replica can be connected to when its worker runs.
HostOf(id) == CHOOSE h \in Hosts : id \in plan.replicas[h]
Reachable(ids) == \A id \in ids : worker[HostOf(id)] = "running"

\* Those of the request are connected one by one to all replicas.  Connect
\* fails from the time that one of these is gone.
Connected(h, done) ==
    \/ /\ done # {} => Reachable(request[h].cfg)
       /\ Through(h, done, Ok({}, NoHashes))
    \/ /\ done # request[h].ids
       /\ ~Reachable(request[h].cfg)
       /\ Respond(h, Failure)
       /\ UNCHANGED errors

\* The replicas are connected in order; those that were are started when the
\* function returns, with an error or without.
Prefix(ids, done) == done \subseteq ids /\ \A i \in done, j \in ids \ done : i < j

StartReplicas(h, done) ==
    /\ Takes(h, "startReplicas")
    /\ Prefix(request[h].ids, done)
    /\ \A id \in done : replica[id] = "created"
    /\ replica' = Become(replica, done, "started")
    /\ config' = Become(config, done, request[h].cfg)
    /\ Connected(h, done)
    /\ UNCHANGED <<client, executed, taken>>

\* startClients connects and starts one client after the other.
StartClients(h, done) ==
    /\ Takes(h, "startClients")
    /\ done \subseteq request[h].ids
    /\ client' = Become(client, done, "started")
    /\ Connected(h, done)
    /\ UNCHANGED <<replica, config, executed, taken>>

\* stopClients: Stop cancels each client.  The channel it then reads is closed
\* since Start, so that it does not wait for the client to end.
StopClients(h) ==
    /\ Takes(h, "stopClients")
    /\ client' = [c \in ClientIDs |->
                    IF c \in request[h].ids /\ client[c] = "started"
                    THEN "cancelled" ELSE client[c]]
    /\ Respond(h, Ok({}, NoHashes))
    /\ UNCHANGED <<replica, config, executed, taken, errors>>

\* The loop of stopReplicas has come to replica id.
Stopping(h, id) ==
    /\ Takes(h, "stopReplicas")
    /\ id \in request[h].ids \ DOMAIN taken[h]
    /\ \A i \in request[h].ids \ DOMAIN taken[h] : id <= i

\* replica.Stop cancels the replica and waits for its Run to return, which it
\* may never do in the first view.
CancelReplica(h, id) ==
    /\ Stopping(h, id)
    /\ \/ /\ replica[id] \in {"started", "running"}
          /\ replica' = [replica EXCEPT ![id] = "stopping"]
       \/ /\ replica[id] = "started"
          /\ replica' = [replica EXCEPT ![id] = "stuck"]
    /\ UNCHANGED <<controller, streams, worker, client, config, executed, taken,
                   errors, crashes>>

\* A bug that takes the hash of a replica that was only cancelled.
HasStoppedAtOnce(id) == replica[id] \in {"stopping", "stopped"}

\* Run has returned, and Stop does too.
HasStopped(id) == replica[id] = "stopped"

\* The hash of the replica is taken when Stop has returned.
TakeHash(h, id) ==
    /\ Stopping(h, id)
    /\ HasStopped(id)
    /\ taken' = [taken EXCEPT ![h] =
                  [i \in DOMAIN taken[h] \cup {id} |->
                      IF i = id THEN executed[id] ELSE taken[h][i]]]
    /\ UNCHANGED <<controller, streams, worker, replica, client, config, executed,
                   errors, crashes>>

\* stopReplicas returns the hashes of all of them.
StopReplicas(h) ==
    /\ Takes(h, "stopReplicas")
    /\ request[h].ids = DOMAIN taken[h]
    /\ Respond(h, Ok({}, taken[h]))
    /\ UNCHANGED <<nodes, errors>>

\* The process of a worker is over, and with it those it started.
End(h, how) ==
    /\ worker' = [worker EXCEPT ![h] = how]
    /\ replica' = Become(replica, plan.replicas[h], "gone")
    /\ client' = Become(client, plan.clients[h], "gone")
    /\ UNCHANGED <<controller, config, executed, taken, errors>>

\* Run returns on a QuitRequest, or when the stream ends with the controller.
WorkerQuits(h) ==
    /\ worker[h] = "running"
    /\ \/ Takes(h, "quit")
       \/ phase = "done" /\ request[h] = None
    /\ End(h, "ended")
    /\ UNCHANGED <<streams, crashes>>

Crash(h) ==
    /\ worker[h] = "running"
    /\ crashes < MaxCrashes
    /\ crashes' = crashes + 1
    /\ End(h, "crashed")
    /\ UNCHANGED streams

\* Run in a replica: it leaves the first view, executes a block, also one of
\* those that its event loop still handles when it is cancelled, and ends.
LeaveFirstView(id) ==
    /\ replica[id] = "started"
    /\ replica' = [replica EXCEPT ![id] = "running"]
    /\ UNCHANGED <<controller, streams, worker, client, config, executed, taken,
                   errors, crashes>>

Execute(id) ==
    /\ replica[id] \in {"running", "stopping"}
    /\ executed[id] < MaxExecuted
    /\ executed' = [executed EXCEPT ![id] = @ + 1]
    /\ UNCHANGED <<controller, streams, worker, replica, client, config, taken,
                   errors, crashes>>

ReplicaEnds(id) ==
    /\ replica[id] = "stopping"
    /\ replica' = [replica EXCEPT ![id] = "stopped"]
    /\ UNCHANGED <<controller, streams, worker, client, config, executed, taken,
                   errors, crashes>>

\* The goroutines of a client that was cancelled end at some time or never.
ClientEnds(c) ==
    /\ client[c] = "cancelled"
    /\ client' = [client EXCEPT ![c] = "ended"]
    /\ UNCHANGED <<controller, streams, worker, replica, config, executed, taken,
                   errors, crashes>>

ControllerStep(h) == Call(h) \/ Answered(h) \/ Disconnected(h) \/ Quit(h)

WorkerStep(h) ==
    \/ \E done \in SUBSET ReplicaIDs : CreateReplicas(h, done)
    \/ \E done \in SUBSET ReplicaIDs : StartReplicas(h, done)
    \/ \E done \in SUBSET ClientIDs : StartClients(h, done)
    \/ StopClients(h)
    \/ \E id \in ReplicaIDs : CancelReplica(h, id) \/ TakeHash(h, id)
    \/ StopReplicas(h)
    \/ WorkerQuits(h)

Next ==
    \/ \E h \in Hosts : ControllerStep(h) \/ WorkerStep(h) \/ Crash(h)
    \/ Sleep
    \/ \E id \in ReplicaIDs : LeaveFirstView(id) \/ Execute(id) \/ ReplicaEnds(id)
    \/ \E c \in ClientIDs : ClientEnds(c)

Spec == Init /\ [][Next]_vars

\* The controller and the workers are never stopped in the middle of a loop:
\* what they can do they do at some time.  A replica that is cancelled after
\* its first view ends.
Fairness ==
    /\ WF_vars(Sleep)
    /\ \A id \in ReplicaIDs : WF_vars(ReplicaEnds(id))
    /\ \A h \in Hosts : WF_vars(ControllerStep(h)) /\ WF_vars(WorkerStep(h))

FairSpec == Spec /\ Fairness

-----------------------------------------------------------------------------
Assigned == UNION {plan.replicas[h] : h \in Hosts}

\* What assignReplicasAndClients does with a count: no ID is given to two
\* hosts and none is left out, a host with a configuration gets what it says,
\* and the others get all of the rest, in shares that differ by at most one.
\* Only when every host has a configuration may less be given than asked for.
Dealt(ids, asked, given) ==
    /\ \A g, h \in Hosts : g # h => ids[g] \cap ids[h] = {}
    /\ \E n \in 0..asked : UNION {ids[h] : h \in Hosts} = 1..n
    /\ DOMAIN given # Hosts => UNION {ids[h] : h \in Hosts} = 1..asked
    /\ \A h \in DOMAIN given : Cardinality(ids[h]) = given[h]
    /\ \A g, h \in Hosts \ DOMAIN given : Cardinality(ids[g]) <= Cardinality(ids[h]) + 1

\* assignReplicasAndClients deals replicas and clients out to the hosts.  No
\* strategy is given to more replicas than asked for, and as many replicas are
\* byzantine as are asked for with the most frequent strategy, or all of them:
\* with one strategy that is the number asked for, with several it is less
\* than their sum, as a replica counts for all of them.
AssignmentSound ==
    LET byzantine == {id \in Assigned : plan.strategy[id] # ""}
    IN  plan # NoPlan =>
            /\ Dealt(plan.replicas, NumReplicas, ReplicasGiven(plan.given))
            /\ Dealt(plan.clients, NumClients, ClientsGiven(plan.given))
            /\ \A s \in DOMAIN Byzantine :
                /\ Cardinality({id \in Assigned : plan.strategy[id] = s}) <= Byzantine[s]
                /\ (\A t \in DOMAIN Byzantine : Byzantine[t] <= Byzantine[s]) =>
                     Cardinality(byzantine) = Byzantine[s] \/ byzantine = Assigned

\* A replica is started only with the configuration of all replicas, each of
\* which was created before: createReplicas has every worker's answer before
\* startReplicas calls the first.
ConfigComplete ==
    \A id \in ReplicaIDs : config[id] # {} =>
        config[id] = Assigned /\ \A r \in Assigned : replica[r] # "none"

\* Clients are started after all replicas and cancelled before the first is,
\* whatever fails in between: while there is one that was not cancelled, every
\* replica runs, or is gone with its worker.  (A client that was cancelled may
\* go on while replicas are stopped: Stop does not wait for it.)
ClientsInside ==
    \A c \in ClientIDs : client[c] = "started" =>
        \A id \in Assigned : replica[id] \in {"started", "running", "gone"}

\* The hashes that stopReplicas compares are final: no replica executes a
\* command after its hash was taken.
HashesFinal == \A id \in DOMAIN hashes : hashes[id] = executed[id]

\* The experiment ends, and no worker outlives it, whatever fails, unless a
\* replica was stopped in its first view and waits for commands for ever: then
\* its worker never answers, and the controller waits for it.
WorkersEnd ==
    <>[](\/ phase = "done" /\ \A h \in Hosts : worker[h] # "running"
         \/ \E id \in ReplicaIDs : replica[id] = "stuck")
=============================================================================
