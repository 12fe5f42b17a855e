------------------------ MODULE OrchestrationProofs -------------------------
(***************************************************************************)
(* Proofs about experiments with any number of hosts, replicas, clients,   *)
(* failing operations and crashing workers: what the order of the phases   *)
(* guarantees.  They rest on the assignment: every replica that a host is  *)
(* given is one that was asked for.                                        *)
(***************************************************************************)
EXTENDS Orchestration, TLAPS, WellFoundedInduction, FiniteSetTheorems

PhaseNames == {"create", "startReplicas", "startClients", "sleep",
               "stopClients", "stopReplicas", "quit", "done"}

ReplicaStates == {"none", "created", "started", "running", "stopping", "stuck",
                  "stopped", "gone"}
ClientStates == {"none", "started", "cancelled", "ended", "gone"}

Types ==
    /\ phase \in PhaseNames /\ failed \in BOOLEAN
    /\ todo \subseteq Hosts /\ called \subseteq Hosts
    /\ request = [h \in Hosts |-> request[h]]
    /\ response = [h \in Hosts |-> response[h]]
    /\ worker \in [Hosts -> {"running", "ended", "crashed"}]
    /\ replica \in [ReplicaIDs -> ReplicaStates]
    /\ client \in [ClientIDs -> ClientStates]
    /\ config = [id \in ReplicaIDs |-> config[id]]
    /\ executed \in [ReplicaIDs -> Nat]
    /\ taken = [h \in Hosts |-> taken[h]]

\* What the proofs need of the assignment.
Within == \A h \in Hosts : plan.replicas[h] \subseteq ReplicaIDs

\* A host of the phase that has answered.
Settled(h) == h \notin todo /\ h \notin called

\* What a worker that runs has still to do is the call of this phase, and a
\* response belongs to it too.
Calls ==
    /\ \A g, h \in called : Concurrent(phase) \/ g = h
    /\ phase \in {"sleep", "quit", "done"} => called = {}
    /\ phase = "sleep" => todo = Hosts
    /\ todo \cap called = {}
    /\ \A h \in Hosts : response[h] # None => h \in called /\ request[h] = None
    /\ \A h \in Hosts : worker[h] = "running" /\ request[h] # None =>
         \/ h \in called /\ request[h] = RequestTo(h)
         \/ request[h] = [type |-> "quit"]

Up(h) == \A id \in plan.replicas[h] : replica[id] \in {"started", "running", "gone"}

Silent(h) == \A c \in plan.clients[h] \cap ClientIDs : client[c] # "started"

\* Hashes of replicas that will not execute any more.
Final(hs) ==
    \A id \in DOMAIN hs :
        id \in ReplicaIDs /\ hs[id] = executed[id] /\ replica[id] \in {"stopped", "gone"}

\* What a good response of a host stands for.
Answer(h, res) ==
    /\ res.ok = TRUE
    /\ Final(res.hashes)
    /\ phase # "stopReplicas" => DOMAIN res.hashes = {}
    /\ phase = "create" =>
         res.ids = plan.replicas[h] /\ \A id \in plan.replicas[h] : replica[id] # "none"
    /\ phase = "startReplicas" => Up(h)
    /\ phase = "stopClients" => Silent(h)

Answers == \A h \in Hosts : response[h] \in {None, Failure} \/ Answer(h, response[h])

\* How far the experiment has come, and what holds from then on.
Created ==
    /\ cfg \subseteq Assigned /\ \A id \in cfg : replica[id] # "none"
    /\ phase = "create" => \A h \in Hosts : Settled(h) => plan.replicas[h] \subseteq cfg
    /\ phase \in {"startReplicas", "startClients", "sleep", "stopClients", "stopReplicas"} =>
         cfg = Assigned

Started ==
    /\ phase = "startReplicas" /\ ~failed => \A h \in Hosts : Settled(h) => Up(h)
    /\ phase \in {"startClients", "sleep", "stopClients"} => \A h \in Hosts : Up(h)

ClientsStopped ==
    /\ phase \in {"create", "startReplicas", "stopReplicas"} =>
         \A c \in ClientIDs : client[c] # "started"
    /\ phase = "stopClients" => \A h \in Hosts : Settled(h) => Silent(h)
    /\ \A c \in ClientIDs : client[c] = "started" => \E h \in Hosts : c \in plan.clients[h]

Hashed ==
    /\ Final(hashes)
    /\ phase \notin {"stopReplicas", "quit", "done"} => DOMAIN hashes = {}

Took ==
    /\ \A h \in Hosts : Final(taken[h])
    /\ phase = "create" => \A h \in Hosts : DOMAIN taken[h] = {}

\* The inductive invariant.
OrchestrationInv ==
    /\ Types /\ Within /\ Calls /\ Answers
    /\ Created /\ Started /\ ClientsStopped /\ Hashed /\ Took
    /\ ConfigComplete /\ ClientsInside

-----------------------------------------------------------------------------
(***************************************************************************)
(* The operators.                                                          *)
(***************************************************************************)

\* The order of the phases.
LEMMA Following ==
    /\ NextPhase("create") = "startReplicas"
    /\ NextPhase("startReplicas") = "startClients"
    /\ NextPhase("startClients") = "sleep"
    /\ NextPhase("sleep") = "stopClients"
    /\ NextPhase("stopClients") = "stopReplicas"
    /\ NextPhase("stopReplicas") = "quit"
<1> DEFINE At(p) == CHOOSE i \in DOMAIN Phases : Phases[i] = p
<1>1. DOMAIN Phases = 1..8
  BY DEF Phases
<1>2. /\ Phases[1] = "create" /\ Phases[2] = "startReplicas"
      /\ Phases[3] = "startClients" /\ Phases[4] = "sleep"
      /\ Phases[5] = "stopClients" /\ Phases[6] = "stopReplicas"
      /\ Phases[7] = "quit" /\ Phases[8] = "done"
  BY Zenon DEF Phases
<1> HIDE DEF Phases
<1>3. At("create") = 1
  BY <1>1, <1>2
<1>4. At("startReplicas") = 2
  BY <1>1, <1>2
<1>5. At("startClients") = 3
  BY <1>1, <1>2
<1>6. At("sleep") = 4
  BY <1>1, <1>2
<1>7. At("stopClients") = 5
  BY <1>1, <1>2
<1>8. At("stopReplicas") = 6
  BY <1>1, <1>2
<1>9. \A p : NextPhase(p) = Phases[1 + At(p)]
  BY Zenon DEF NextPhase
<1> HIDE DEF At
<1> QED
  BY <1>2, <1>3, <1>4, <1>5, <1>6, <1>7, <1>8, <1>9

CallPhases == {"create", "startReplicas", "startClients", "stopClients", "stopReplicas"}

\* The fields of the requests.
LEMMA RequestFields ==
    ASSUME NEW h \in Hosts
    PROVE  /\ phase \in CallPhases => RequestTo(h).type = phase
           /\ phase \in {"create", "startReplicas", "stopReplicas"} =>
                RequestTo(h).ids = plan.replicas[h]
           /\ phase \in {"startClients", "stopClients"} =>
                RequestTo(h).ids = plan.clients[h]
           /\ phase = "startReplicas" => RequestTo(h).cfg = cfg
           /\ phase = "quit" => RequestTo(h) = [type |-> "quit"]
<1>1. CASE phase = "create"
  BY <1>1, Zenon DEF RequestTo, CallPhases
<1>2. CASE phase = "startReplicas"
  BY <1>2, Zenon DEF RequestTo, CallPhases
<1>3. CASE phase = "startClients"
  BY <1>3, Zenon DEF RequestTo, CallPhases
<1>4. CASE phase = "stopClients"
  BY <1>4, Zenon DEF RequestTo, CallPhases
<1>5. CASE phase = "stopReplicas"
  BY <1>5, Zenon DEF RequestTo, CallPhases
<1>6. CASE phase = "quit"
  BY <1>6, Zenon DEF RequestTo, CallPhases
<1> QED
  BY <1>1, <1>2, <1>3, <1>4, <1>5, <1>6, Zenon DEF CallPhases

\* The requests change only with the controller.
LEMMA SameRequests ==
    ASSUME NEW h \in Hosts, UNCHANGED <<phase, plan, cfg>>
    PROVE  RequestTo(h)' = RequestTo(h)
BY Zenon DEF RequestTo

\* A worker that takes the request of an operation is called in its phase.
LEMMA Taking ==
    ASSUME Types, Calls, NEW h \in Hosts, NEW type \in CallPhases, Takes(h, type)
    PROVE  /\ phase = type /\ h \in called /\ response[h] = None
           /\ request[h] = RequestTo(h)
<1>1. request[h] # None /\ request[h] # [type |-> "quit"]
  BY DEF Takes, None, CallPhases
<1>2. h \in called /\ request[h] = RequestTo(h) /\ response[h] = None
  BY <1>1, Zenon DEF Calls, Takes
<1>3. phase \in CallPhases
  BY <1>2, Zenon DEF Types, Calls, CallPhases, PhaseNames
<1> QED
  BY <1>2, <1>3, RequestFields, Zenon DEF Takes

\* What GoOn may do: give the experiment up, go to the next phase after the
\* last good answer, or wait for the others.
GivesUp == phase' = "quit" /\ todo' = Hosts /\ called' = {}

GoesToNext(h) ==
    /\ \A g \in Hosts : g # h => Settled(g)
    /\ phase' = NextPhase(phase) /\ todo' = Hosts /\ called' = {}

WaitsOn(h) == called' = called \ {h} /\ UNCHANGED <<phase, todo>>

\* After an answer Run gives up, goes to the next phase, or waits on.
LEMMA Going ==
    ASSUME NEW h \in Hosts, NEW ok \in BOOLEAN, failed \in BOOLEAN, GoOn(h, ok)
    PROVE  /\ failed' = (failed \/ ~ok)
           /\ \/ GivesUp /\ (Concurrent(phase) => \A g \in Hosts : g # h => Settled(g))
              \/ GoesToNext(h) /\ ok /\ ~failed
              \/ WaitsOn(h) /\ (ok \/ Concurrent(phase))
<1>1. failed' = (failed \/ ~ok)
  BY Zenon DEF GoOn
<1>2. CASE ~ok /\ ~Concurrent(phase)
  BY <1>1, <1>2, Zenon DEF GoOn, GivesUp
<1>3. CASE (ok \/ Concurrent(phase)) /\ (called \cup todo) \ {h} = {}
  <2>1. phase' = (IF failed \/ ~ok THEN "quit" ELSE NextPhase(phase))
        /\ todo' = Hosts /\ called' = {}
    BY <1>3, Zenon DEF GoOn, Leave
  <2>2. \A g \in Hosts : g # h => Settled(g)
    BY <1>3 DEF Settled
  <2> QED
    BY <1>1, <2>1, <2>2, Zenon DEF GivesUp, GoesToNext
<1>4. CASE (ok \/ Concurrent(phase)) /\ (called \cup todo) \ {h} # {}
  BY <1>1, <1>4, Zenon DEF GoOn, Leave, WaitsOn
<1> QED
  BY <1>2, <1>3, <1>4, Zenon

\* What becomes of the nodes of a host.
LEMMA Becoming ==
    ASSUME NEW S, NEW V, NEW f \in [S -> V], NEW ids, NEW v
    PROVE  /\ \A W : V \subseteq W /\ v \in W => Become(f, ids, v) \in [S -> W]
           /\ \A id \in S : Become(f, ids, v)[id] = IF id \in ids THEN v ELSE f[id]
BY Zenon DEF Become

-----------------------------------------------------------------------------
(***************************************************************************)
(* The steps of the workers, in which the controller does not move.        *)
(***************************************************************************)

\* The hash of one more replica is taken, which has ended.
TakesOne(h) ==
    /\ phase = "stopReplicas"
    /\ \A id \in DOMAIN taken'[h] :
        \/ id \in DOMAIN taken[h] /\ taken'[h][id] = taken[h][id]
        \/ /\ id \in ReplicaIDs /\ replica'[id] = "stopped"
           /\ taken'[h][id] = executed'[id]

\* What a step that is not the controller's may do to the nodes in each
\* phase.
Steady ==
    /\ UNCHANGED controller
    /\ \A id \in ReplicaIDs : replica[id] # "none" => replica'[id] # "none"
    /\ phase = "create" \/ \A id \in ReplicaIDs : replica[id] \in {"stopped", "gone"} =>
         replica'[id] \in {"stopped", "gone"} /\ executed'[id] = executed[id]
    /\ phase \in {"create", "stopReplicas"} \/
         \A id \in ReplicaIDs : replica[id] \in {"started", "running", "gone"} =>
             replica'[id] \in {"started", "running", "gone"}
    /\ \A c \in ClientIDs : client[c] # "started" /\ client'[c] = "started" =>
         phase = "startClients" /\ \E h \in Hosts : c \in plan.clients[h]
    /\ \A id \in ReplicaIDs : config'[id] # config[id] =>
         phase = "startReplicas" /\ config'[id] = cfg
    /\ \A h \in Hosts : taken'[h] = taken[h] \/ TakesOne(h)

\* The replicas of the plan are replicas that were asked for.
LEMMA AssignedWithin ==
    ASSUME Within
    PROVE  /\ Assigned \subseteq ReplicaIDs
           /\ \A h \in Hosts : plan.replicas[h] \subseteq Assigned
           /\ \A id \in Assigned : \E h \in Hosts : id \in plan.replicas[h]
BY Zenon DEF Within, Assigned

\* A good answer stays one.
LEMMA AnswerKept ==
    ASSUME OrchestrationInv, Steady, NEW h \in Hosts,
           response'[h] = response[h], Answer(h, response[h])
    PROVE  Answer(h, response[h])'
<1> DEFINE res == response[h]
<1>1. UNCHANGED <<phase, plan>> /\ plan.replicas[h] \subseteq ReplicaIDs
  BY Zenon DEF Steady, controller, OrchestrationInv, Within
<1>3. \A id \in DOMAIN res.hashes :
        /\ id \in ReplicaIDs /\ res.hashes[id] = executed'[id]
        /\ replica'[id] \in {"stopped", "gone"}
  <2>1. CASE phase = "create"
    BY <2>1, Zenon DEF Answer
  <2>2. CASE phase # "create"
    BY <2>2, ZenonT(30) DEF Answer, Final, Steady
  <2> QED
    BY <2>1, <2>2, Zenon
<1>4. Final(response[h].hashes)'
  BY <1>3, Zenon DEF Final
<1>5. phase = "create" => \A id \in plan.replicas[h] : replica'[id] # "none"
  BY <1>1, Zenon DEF Answer, Steady
<1>6. phase = "startReplicas" => Up(h)'
  BY <1>1, Zenon DEF Answer, Steady, Up
<1>7. phase = "stopClients" => Silent(h)'
  BY <1>1, Zenon DEF Answer, Steady, Silent
<1> QED
  BY <1>1, <1>4, <1>5, <1>6, <1>7, Zenon DEF Answer

\* The progress of the experiment is not lost.
LEMMA Keeping ==
    ASSUME OrchestrationInv, Steady
    PROVE  /\ Within' /\ Created' /\ Started' /\ ClientsStopped' /\ Hashed' /\ Took'
           /\ ConfigComplete' /\ ClientsInside'
<1>1. UNCHANGED <<phase, failed, todo, called, plan, cfg, hashes>> /\ Assigned' = Assigned
  BY Zenon DEF Steady, controller, Assigned
<1>2. Within'
  BY <1>1, Zenon DEF OrchestrationInv, Within
<1>3. /\ Assigned \subseteq ReplicaIDs
      /\ \A h \in Hosts : plan.replicas[h] \subseteq ReplicaIDs
      /\ \A id \in Assigned : \E h \in Hosts : id \in plan.replicas[h]
  BY AssignedWithin, Zenon DEF OrchestrationInv, Within
<1>4. \A h \in Hosts : Settled(h)' = Settled(h)
  BY <1>1, Zenon DEF Settled
<1>5. Created'
  BY <1>1, <1>3, <1>4, Zenon DEF OrchestrationInv, Created, Steady
<1>6. phase \notin {"create", "stopReplicas"} => \A h \in Hosts : Up(h) => Up(h)'
  BY <1>1, <1>3, Zenon DEF Steady, Up
<1>7. Started'
  BY <1>1, <1>4, <1>6, Zenon DEF OrchestrationInv, Started
<1>8. phase # "startClients" => \A h \in Hosts : Silent(h) => Silent(h)'
  BY <1>1, Zenon DEF Steady, Silent
<1>9. ClientsStopped'
  <2>1. \A c \in ClientIDs : client'[c] = "started" =>
          \E h \in Hosts : c \in plan.clients[h]
    BY Zenon DEF OrchestrationInv, ClientsStopped, Steady
  <2>2. phase \in {"create", "startReplicas", "stopReplicas"} =>
          \A c \in ClientIDs : client'[c] # "started"
    BY Zenon DEF OrchestrationInv, ClientsStopped, Steady
  <2> QED
    BY <1>1, <1>4, <1>8, <2>1, <2>2, Zenon DEF OrchestrationInv, ClientsStopped
<1>10. Hashed'
  <2>1. CASE phase = "create"
    BY <1>1, <2>1, Zenon DEF OrchestrationInv, Hashed, Final
  <2>2. CASE phase # "create"
    BY <1>1, <2>2, Zenon DEF OrchestrationInv, Hashed, Final, Steady
  <2> QED
    BY <2>1, <2>2, Zenon
<1>11. ConfigComplete'
  <2>1. SUFFICES ASSUME NEW id \in ReplicaIDs, config'[id] # {}
                 PROVE  /\ config'[id] = Assigned
                        /\ \A r \in Assigned : replica[r] # "none"
    BY <1>1, <1>3, Zenon DEF ConfigComplete, Steady
  <2>2. CASE config'[id] = config[id]
    BY <2>1, <2>2, Zenon DEF OrchestrationInv, ConfigComplete
  <2>3. CASE config'[id] # config[id]
    BY <2>3, Zenon DEF OrchestrationInv, Created, Steady
  <2> QED
    BY <2>2, <2>3, Zenon
<1>12. ClientsInside'
  <2>1. SUFFICES ASSUME NEW c \in ClientIDs, client'[c] = "started"
                 PROVE  \A id \in Assigned : replica'[id] \in {"started", "running", "gone"}
    BY <1>1, Zenon DEF ClientsInside
  <2>2. CASE phase \in {"create", "startReplicas", "stopReplicas"}
    BY <1>1, <1>9, <2>1, <2>2, Zenon DEF ClientsStopped
  <2>3. CASE phase \in {"startClients", "sleep", "stopClients"}
    BY <1>1, <1>3, <1>7, <2>3, Zenon DEF Started, Up
  <2>4. CASE phase \in {"quit", "done"}
    <3>1. client[c] = "started"
      BY <2>1, <2>4, Zenon DEF Steady
    <3> QED
      BY <1>3, <2>4, <3>1, Zenon DEF OrchestrationInv, ClientsInside, Steady
  <2> QED
    BY <2>2, <2>3, <2>4, Zenon DEF OrchestrationInv, Types, PhaseNames
<1>13. Took'
  <2>1. ASSUME NEW h \in Hosts, phase # "create"
        PROVE  Final(taken[h])'
    <3>1. SUFFICES ASSUME NEW id \in DOMAIN taken'[h]
                   PROVE  /\ id \in ReplicaIDs /\ taken'[h][id] = executed'[id]
                          /\ replica'[id] \in {"stopped", "gone"}
      BY Zenon DEF Final
    <3>2. \A i \in DOMAIN taken[h] :
            /\ i \in ReplicaIDs /\ taken[h][i] = executed'[i]
            /\ replica'[i] \in {"stopped", "gone"}
      BY <2>1, Zenon DEF OrchestrationInv, Took, Final, Steady
    <3> QED
      BY <3>2, Zenon DEF Steady, TakesOne
  <2>2. CASE phase = "create"
    BY <1>1, <2>2, Zenon DEF OrchestrationInv, Took, Final, Steady, TakesOne
  <2> QED
    BY <1>1, <2>1, <2>2, Zenon DEF Took
<1> QED
  BY <1>2, <1>5, <1>7, <1>9, <1>10, <1>11, <1>12, <1>13, Zenon

\* A worker that was called answers.
LEMMA Responding ==
    ASSUME OrchestrationInv, Steady, NEW h \in Hosts, NEW res, h \in called,
           Respond(h, res)
    PROVE  /\ Calls'
           /\ request' = [g \in Hosts |-> request'[g]]
           /\ response' = [g \in Hosts |-> response'[g]]
           /\ response'[h] = res
           /\ \A g \in Hosts : g # h => response'[g] = response[g]
<1>1. UNCHANGED <<phase, todo, called, plan, cfg, worker>>
  BY Zenon DEF Respond, controller
<1>2. /\ request' = [request EXCEPT ![h] = None]
      /\ response' = [response EXCEPT ![h] = res]
      /\ request = [g \in Hosts |-> request[g]]
      /\ response = [g \in Hosts |-> response[g]]
  BY Zenon DEF Respond, OrchestrationInv, Types
<1>3. /\ request'[h] = None /\ response'[h] = res
      /\ \A g \in Hosts : g # h => request'[g] = request[g] /\ response'[g] = response[g]
      /\ request' = [g \in Hosts |-> request'[g]]
      /\ response' = [g \in Hosts |-> response'[g]]
  BY <1>2, Zenon
<1>4. \A g \in Hosts : RequestTo(g)' = RequestTo(g)
  BY <1>1, SameRequests, Zenon
<1>5. Calls'
  BY <1>1, <1>3, <1>4, Zenon DEF OrchestrationInv, Calls
<1> QED
  BY <1>3, <1>5, Zenon

\* The invariant after a response.
LEMMA AfterResponse ==
    ASSUME OrchestrationInv, Steady, NEW h \in Hosts, NEW res, h \in called,
           Respond(h, res), response'[h] # Failure => Answer(h, response[h])',
           replica' \in [ReplicaIDs -> ReplicaStates],
           client' \in [ClientIDs -> ClientStates],
           config' = [id \in ReplicaIDs |-> config'[id]], UNCHANGED <<executed, taken>>
    PROVE  OrchestrationInv'
<1>1. /\ Calls'
      /\ request' = [g \in Hosts |-> request'[g]]
      /\ response' = [g \in Hosts |-> response'[g]]
      /\ \A g \in Hosts : g # h => response'[g] = response[g]
  BY Responding, Zenon
<1>2. UNCHANGED <<phase, failed, todo, called, worker, executed, taken>>
  BY Zenon DEF Respond, controller
<1>3. Types'
  BY <1>1, <1>2, Zenon DEF OrchestrationInv, Types
<1>4. Answers'
  <2>1. SUFFICES ASSUME NEW g \in Hosts
                 PROVE  response'[g] \in {None, Failure} \/ Answer(g, response[g])'
    BY Zenon DEF Answers, None, Failure, NoHashes
  <2>2. CASE g = h
    BY <2>2, Zenon
  <2>3. CASE g # h
    BY <1>1, <2>3, AnswerKept, Zenon DEF OrchestrationInv, Answers
  <2> QED
    BY <2>2, <2>3, Zenon
<1> QED
  BY <1>1, <1>3, <1>4, Keeping, Zenon DEF OrchestrationInv

\* Worker.createReplicas keeps the invariant.
LEMMA CreateStep ==
    ASSUME OrchestrationInv, NEW h \in Hosts, NEW done \in SUBSET ReplicaIDs,
           CreateReplicas(h, done)
    PROVE  OrchestrationInv'
<1>1. /\ phase = "create" /\ h \in called
      /\ request[h].ids = plan.replicas[h]
  <2>1. phase = "create" /\ h \in called /\ request[h] = RequestTo(h)
    BY Taking, Zenon DEF OrchestrationInv, CreateReplicas, CallPhases
  <2> QED
    BY <2>1, RequestFields, Zenon
<1>2. /\ replica' \in [ReplicaIDs -> ReplicaStates]
      /\ \A id \in ReplicaIDs : replica'[id] = IF id \in done THEN "created" ELSE replica[id]
  BY Zenon DEF CreateReplicas, Become, OrchestrationInv, Types, ReplicaStates, ClientStates
<1>3. UNCHANGED <<client, config, executed, taken>> /\ UNCHANGED controller
  BY Zenon DEF CreateReplicas, Through, Respond
<1>4. Steady
  BY <1>1, <1>2, <1>3, Zenon DEF Steady
<1>5. /\ client' \in [ClientIDs -> ClientStates]
      /\ config' = [id \in ReplicaIDs |-> config'[id]]
  BY <1>3, Zenon DEF OrchestrationInv, Types
<1>6. CASE done = plan.replicas[h] /\ Respond(h, Ok(done, NoHashes))
  <2>1. response'[h] = Ok(done, NoHashes)
    BY <1>1, <1>4, <1>6, Responding, Zenon
  <2>2. /\ response'[h].ok = TRUE /\ response'[h].ids = done
        /\ DOMAIN response'[h].hashes = {}
    BY <2>1 DEF Ok, NoHashes
  <2>3. \A id \in plan.replicas[h] : replica'[id] # "none"
    BY <1>2, <1>6, Zenon
  <2>4. UNCHANGED <<phase, plan>>
    BY <1>3, Zenon DEF controller
  <2>5. Answer(h, response[h])'
    BY <1>1, <1>6, <2>2, <2>3, <2>4, Zenon DEF Answer, Final
  <2> QED
    BY <1>1, <1>2, <1>3, <1>4, <1>5, <1>6, <2>5, AfterResponse, Zenon
<1>7. CASE Respond(h, Failure)
  <2>1. response'[h] = Failure
    BY <1>1, <1>4, <1>7, Responding, Zenon
  <2> QED
    BY <1>1, <1>2, <1>3, <1>4, <1>5, <1>7, <2>1, AfterResponse, Zenon
<1> QED
  BY <1>1, <1>6, <1>7, Zenon DEF CreateReplicas, Through

\* Worker.startReplicas keeps the invariant.
LEMMA StartReplicasStep ==
    ASSUME OrchestrationInv, NEW h \in Hosts, NEW done \in SUBSET ReplicaIDs,
           StartReplicas(h, done)
    PROVE  OrchestrationInv'
<1>1. /\ phase = "startReplicas" /\ h \in called
      /\ request[h].ids = plan.replicas[h] /\ request[h].cfg = cfg
  <2>1. phase = "startReplicas" /\ h \in called /\ request[h] = RequestTo(h)
    BY Taking, Zenon DEF OrchestrationInv, StartReplicas, CallPhases
  <2> QED
    BY <2>1, RequestFields, Zenon
<1>2. /\ replica' \in [ReplicaIDs -> ReplicaStates]
      /\ \A id \in ReplicaIDs : replica'[id] = IF id \in done THEN "started" ELSE replica[id]
      /\ \A id \in done : replica[id] = "created"
  BY Zenon DEF StartReplicas, Become, OrchestrationInv, Types, ReplicaStates, ClientStates
<1>3. UNCHANGED <<client, executed, taken>> /\ UNCHANGED controller
  BY Zenon DEF StartReplicas, Connected, Through, Respond
<1>4. /\ config' = [id \in ReplicaIDs |-> config'[id]]
      /\ \A id \in ReplicaIDs : config'[id] = IF id \in done THEN cfg ELSE config[id]
  <2>1. config' = [id \in DOMAIN config |-> IF id \in done THEN cfg ELSE config[id]]
    BY <1>1, Zenon DEF StartReplicas, Become
  <2>2. DOMAIN config = ReplicaIDs
    BY Zenon DEF OrchestrationInv, Types
  <2> QED
    BY <2>1, <2>2, Zenon
<1>5. Steady
  BY <1>1, <1>2, <1>3, <1>4, Zenon DEF Steady
<1>6. client' \in [ClientIDs -> ClientStates]
  BY <1>3, Zenon DEF OrchestrationInv, Types
<1>7. CASE done = plan.replicas[h] /\ Respond(h, Ok({}, NoHashes))
  <2>1. response'[h] = Ok({}, NoHashes)
    BY <1>1, <1>5, <1>7, Responding, Zenon
  <2>2. response'[h].ok = TRUE /\ DOMAIN response'[h].hashes = {}
    BY <2>1 DEF Ok, NoHashes
  <2>3. UNCHANGED <<phase, plan>>
    BY <1>3, Zenon DEF controller
  <2>4. Up(h)'
    BY <1>2, <1>7, <2>3, Zenon DEF Up
  <2>5. Answer(h, response[h])'
    BY <1>1, <2>2, <2>3, <2>4, Zenon DEF Answer, Final
  <2> QED
    BY <1>1, <1>2, <1>3, <1>4, <1>5, <1>6, <1>7, <2>5, AfterResponse, Zenon
<1>8. CASE Respond(h, Failure)
  <2>1. response'[h] = Failure
    BY <1>1, <1>5, <1>8, Responding, Zenon
  <2> QED
    BY <1>1, <1>2, <1>3, <1>4, <1>5, <1>6, <1>8, <2>1, AfterResponse, Zenon
<1> QED
  BY <1>1, <1>7, <1>8, Zenon DEF StartReplicas, Connected, Through

\* Worker.startClients keeps the invariant.
LEMMA StartClientsStep ==
    ASSUME OrchestrationInv, NEW h \in Hosts, NEW done \in SUBSET ClientIDs,
           StartClients(h, done)
    PROVE  OrchestrationInv'
<1>1. /\ phase = "startClients" /\ h \in called
      /\ request[h].ids = plan.clients[h]
  <2>1. phase = "startClients" /\ h \in called /\ request[h] = RequestTo(h)
    BY Taking, Zenon DEF OrchestrationInv, StartClients, CallPhases
  <2> QED
    BY <2>1, RequestFields, Zenon
<1>2. /\ client' \in [ClientIDs -> ClientStates]
      /\ \A c \in ClientIDs : client'[c] = IF c \in done THEN "started" ELSE client[c]
      /\ done \subseteq plan.clients[h]
  BY <1>1, Zenon DEF StartClients, Become, OrchestrationInv, Types, ReplicaStates, ClientStates
<1>3. UNCHANGED <<replica, config, executed, taken>> /\ UNCHANGED controller
  BY Zenon DEF StartClients, Connected, Through, Respond
<1>4. Steady
  BY <1>1, <1>2, <1>3, Zenon DEF Steady
<1>5. /\ replica' \in [ReplicaIDs -> ReplicaStates]
      /\ config' = [id \in ReplicaIDs |-> config'[id]]
  BY <1>3, Zenon DEF OrchestrationInv, Types
<1>6. CASE Respond(h, Ok({}, NoHashes))
  <2>1. response'[h] = Ok({}, NoHashes)
    BY <1>1, <1>4, <1>6, Responding, Zenon
  <2>2. response'[h].ok = TRUE /\ DOMAIN response'[h].hashes = {}
    BY <2>1 DEF Ok, NoHashes
  <2>3. UNCHANGED <<phase, plan>>
    BY <1>3, Zenon DEF controller
  <2>4. Answer(h, response[h])'
    BY <1>1, <2>2, <2>3, Zenon DEF Answer, Final
  <2> QED
    BY <1>1, <1>2, <1>3, <1>4, <1>5, <1>6, <2>4, AfterResponse, Zenon
<1>7. CASE Respond(h, Failure)
  <2>1. response'[h] = Failure
    BY <1>1, <1>4, <1>7, Responding, Zenon
  <2> QED
    BY <1>1, <1>2, <1>3, <1>4, <1>5, <1>7, <2>1, AfterResponse, Zenon
<1> QED
  BY <1>6, <1>7, Zenon DEF StartClients, Connected, Through

\* Worker.stopClients keeps the invariant.
LEMMA StopClientsStep ==
    ASSUME OrchestrationInv, NEW h \in Hosts, StopClients(h)
    PROVE  OrchestrationInv'
<1>1. /\ phase = "stopClients" /\ h \in called
      /\ request[h].ids = plan.clients[h]
  <2>1. phase = "stopClients" /\ h \in called /\ request[h] = RequestTo(h)
    BY Taking, Zenon DEF OrchestrationInv, StopClients, CallPhases
  <2> QED
    BY <2>1, RequestFields, Zenon
<1>2. /\ client' \in [ClientIDs -> ClientStates]
      /\ \A c \in ClientIDs :
            client'[c] = IF c \in plan.clients[h] /\ client[c] = "started"
                         THEN "cancelled" ELSE client[c]
  BY <1>1, Zenon DEF StopClients, OrchestrationInv, Types, ClientStates
<1>3. UNCHANGED <<replica, config, executed, taken>> /\ UNCHANGED controller
  BY Zenon DEF StopClients, Respond
<1>4. Steady
  BY <1>1, <1>2, <1>3, Zenon DEF Steady
<1>5. /\ replica' \in [ReplicaIDs -> ReplicaStates]
      /\ config' = [id \in ReplicaIDs |-> config'[id]]
  BY <1>3, Zenon DEF OrchestrationInv, Types
<1>6. Respond(h, Ok({}, NoHashes))
  BY Zenon DEF StopClients
<1>7. response'[h] = Ok({}, NoHashes)
  BY <1>1, <1>4, <1>6, Responding, Zenon
<1>8. response'[h].ok = TRUE /\ DOMAIN response'[h].hashes = {}
  BY <1>7 DEF Ok, NoHashes
<1>9. UNCHANGED <<phase, plan>>
  BY <1>3, Zenon DEF controller
<1>10. Silent(h)'
  BY <1>2, <1>9, Zenon DEF Silent
<1>11. Answer(h, response[h])'
  BY <1>1, <1>8, <1>9, <1>10, Zenon DEF Answer, Final
<1> QED
  BY <1>1, <1>2, <1>3, <1>4, <1>5, <1>6, <1>11, AfterResponse, Zenon

\* The response of Worker.stopReplicas keeps the invariant.
LEMMA StopReplicasStep ==
    ASSUME OrchestrationInv, NEW h \in Hosts, StopReplicas(h)
    PROVE  OrchestrationInv'
<1>1. phase = "stopReplicas" /\ h \in called
  BY Taking, Zenon DEF OrchestrationInv, StopReplicas, CallPhases
<1>2. UNCHANGED <<replica, client, config, executed, taken>> /\ UNCHANGED controller
  BY Zenon DEF StopReplicas, Respond, nodes
<1>3. Steady
  BY <1>2, Zenon DEF Steady
<1>4. /\ replica' \in [ReplicaIDs -> ReplicaStates]
      /\ client' \in [ClientIDs -> ClientStates]
      /\ config' = [id \in ReplicaIDs |-> config'[id]]
  BY <1>2, Zenon DEF OrchestrationInv, Types
<1>5. Respond(h, Ok({}, taken[h]))
  BY Zenon DEF StopReplicas
<1>6. response'[h] = Ok({}, taken[h])
  BY <1>1, <1>3, <1>5, Responding, Zenon
<1>7. response'[h].ok = TRUE /\ response'[h].hashes = taken[h]
  BY <1>6 DEF Ok
<1>8. UNCHANGED <<phase, plan>>
  BY <1>2, Zenon DEF controller
<1>9. Final(response[h].hashes)'
  BY <1>2, <1>7, Zenon DEF OrchestrationInv, Took, Final
<1>10. Answer(h, response[h])'
  BY <1>1, <1>7, <1>8, <1>9, Zenon DEF Answer
<1> QED
  BY <1>1, <1>2, <1>3, <1>4, <1>5, <1>10, AfterResponse, Zenon

\* The end of a worker, or a step of a replica or client.
LEMMA StreamsKept ==
    ASSUME OrchestrationInv, Steady, UNCHANGED streams, Types',
           \A h \in Hosts : worker'[h] = "running" => worker[h] = "running"
    PROVE  OrchestrationInv'
<1>1. UNCHANGED <<phase, todo, called, plan, cfg, request, response>>
  BY Zenon DEF Steady, controller, streams
<1>2. Calls'
  <2>1. \A h \in Hosts : RequestTo(h)' = RequestTo(h)
    BY <1>1, SameRequests, Zenon
  <2> QED
    BY <1>1, <2>1, Zenon DEF OrchestrationInv, Calls
<1>3. Answers'
  <2>1. SUFFICES ASSUME NEW g \in Hosts
                 PROVE  response'[g] \in {None, Failure} \/ Answer(g, response[g])'
    BY Zenon DEF Answers, None, Failure, NoHashes
  <2> QED
    BY <1>1, AnswerKept, Zenon DEF OrchestrationInv, Answers
<1> QED
  BY <1>2, <1>3, Keeping, Zenon DEF OrchestrationInv

\* The end of a worker, by request or crash, keeps the invariant.
LEMMA EndStep ==
    ASSUME OrchestrationInv, NEW h \in Hosts, WorkerQuits(h) \/ Crash(h)
    PROVE  OrchestrationInv'
<1>1. PICK how \in {"ended", "crashed"} : End(h, how)
  BY Zenon DEF WorkerQuits, Crash
<1>2. UNCHANGED streams
  BY Zenon DEF WorkerQuits, Crash
<1>3. UNCHANGED <<config, executed, taken>> /\ UNCHANGED controller
  BY <1>1, Zenon DEF End
<1>4. /\ replica' \in [ReplicaIDs -> ReplicaStates]
      /\ \A id \in ReplicaIDs :
            replica'[id] = IF id \in plan.replicas[h] THEN "gone" ELSE replica[id]
  BY <1>1, Zenon DEF End, Become, OrchestrationInv, Types, ReplicaStates, ClientStates
<1>5. /\ client' \in [ClientIDs -> ClientStates]
      /\ \A c \in ClientIDs : client'[c] = IF c \in plan.clients[h] THEN "gone" ELSE client[c]
  BY <1>1, Zenon DEF End, Become, OrchestrationInv, Types, ReplicaStates, ClientStates
<1>6. worker' \in [Hosts -> {"running", "ended", "crashed"}]
      /\ \A g \in Hosts : worker'[g] = "running" => worker[g] = "running"
  BY <1>1, Zenon DEF End, OrchestrationInv, Types
<1>7. Steady
  BY <1>3, <1>4, <1>5, Zenon DEF Steady
<1>8. UNCHANGED <<phase, failed, todo, called, request, response>>
  BY <1>2, <1>3, Zenon DEF controller, streams
<1>9. Types'
  BY <1>3, <1>4, <1>5, <1>6, <1>8, Zenon DEF OrchestrationInv, Types
<1> QED
  BY <1>2, <1>6, <1>7, <1>9, StreamsKept, Zenon

\* A replica that executes a block keeps the invariant.
LEMMA ExecuteStep ==
    ASSUME OrchestrationInv, NEW id \in ReplicaIDs, Execute(id)
    PROVE  OrchestrationInv'
<1>1. UNCHANGED <<controller, streams, worker, replica, client, config, taken>>
  BY Zenon DEF Execute
<1>2. UNCHANGED <<phase, failed, todo, called, request, response>>
  BY <1>1, Zenon DEF controller, streams
<1>3. /\ executed' \in [ReplicaIDs -> Nat]
      /\ \A i \in ReplicaIDs : i # id => executed'[i] = executed[i]
  BY DEF Execute, OrchestrationInv, Types
<1>4. replica[id] \in {"running", "stopping"}
  BY Zenon DEF Execute
<1>5. Steady
  BY <1>1, <1>3, <1>4, Zenon DEF Steady
<1>6. Types'
  BY <1>1, <1>2, <1>3, Zenon DEF OrchestrationInv, Types
<1> QED
  BY <1>1, <1>5, <1>6, StreamsKept, Zenon

\* A replica that is cancelled, leaves its first view or ends keeps the
\* invariant.
LEMMA ReplicaStep ==
    ASSUME OrchestrationInv, NEW id \in ReplicaIDs,
           \/ \E h \in Hosts : CancelReplica(h, id)
           \/ LeaveFirstView(id) \/ ReplicaEnds(id)
    PROVE  OrchestrationInv'
<1>1. UNCHANGED <<controller, streams, worker, client, config, executed, taken>>
  BY Zenon DEF CancelReplica, LeaveFirstView, ReplicaEnds
<1>2. UNCHANGED <<phase, failed, todo, called, request, response>>
  BY <1>1, Zenon DEF controller, streams
<1>3. (\E h \in Hosts : CancelReplica(h, id)) => phase = "stopReplicas"
  BY Taking, Zenon DEF OrchestrationInv, CancelReplica, Stopping, CallPhases
<1>4. PICK v \in {"stopping", "stuck", "running", "stopped"} :
        replica' = [replica EXCEPT ![id] = v]
  BY Zenon DEF CancelReplica, LeaveFirstView, ReplicaEnds
<1>5. /\ replica[id] \in {"started", "running", "stopping"}
      /\ \/ phase = "stopReplicas"
         \/ replica[id] = "started" /\ replica'[id] = "running"
         \/ replica[id] = "stopping"
  BY <1>3, Zenon DEF CancelReplica, LeaveFirstView, ReplicaEnds, OrchestrationInv, Types
<1>6. /\ replica' \in [ReplicaIDs -> ReplicaStates] /\ replica'[id] = v
      /\ \A i \in ReplicaIDs : i # id => replica'[i] = replica[i]
  BY <1>4, Zenon DEF OrchestrationInv, Types, ReplicaStates
<1>7. Steady
  <2>1. \A i \in ReplicaIDs : replica[i] # "none" => replica'[i] # "none"
    BY <1>6, Zenon
  <2>2. \A i \in ReplicaIDs : replica[i] \in {"stopped", "gone"} => replica'[i] = replica[i]
    BY <1>5, <1>6, Zenon
  <2>3. phase \in {"create", "stopReplicas"} \/
          \A i \in ReplicaIDs : replica[i] \in {"started", "running", "gone"} =>
              replica'[i] \in {"started", "running", "gone"}
    BY <1>5, <1>6, Zenon
  <2> QED
    BY <1>1, <2>1, <2>2, <2>3, Zenon DEF Steady
<1>8. Types'
  BY <1>1, <1>2, <1>6, Zenon DEF OrchestrationInv, Types
<1> QED
  BY <1>1, <1>7, <1>8, StreamsKept, Zenon

\* A hash that Worker.stopReplicas takes keeps the invariant: its replica has
\* ended.
LEMMA TakeHashStep ==
    ASSUME OrchestrationInv, NEW h \in Hosts, NEW id \in ReplicaIDs, TakeHash(h, id)
    PROVE  OrchestrationInv'
<1>1. UNCHANGED <<controller, streams, worker, replica, client, config, executed>>
  BY Zenon DEF TakeHash
<1>2. UNCHANGED <<phase, failed, todo, called, request, response>>
  BY <1>1, Zenon DEF controller, streams
<1>3. phase = "stopReplicas" /\ replica[id] = "stopped"
  BY Taking, Zenon DEF OrchestrationInv, TakeHash, Stopping, HasStopped, CallPhases
<1> DEFINE new == [i \in DOMAIN taken[h] \cup {id} |->
                     IF i = id THEN executed[id] ELSE taken[h][i]]
<1>4. /\ taken' = [g \in Hosts |-> taken'[g]] /\ taken'[h] = new
      /\ \A g \in Hosts : g # h => taken'[g] = taken[g]
  <2>1. taken' = [taken EXCEPT ![h] = new] /\ taken = [g \in Hosts |-> taken[g]]
    BY Zenon DEF TakeHash, OrchestrationInv, Types
  <2> QED
    BY <2>1, Zenon
<1>5. \A i \in DOMAIN new : \/ i \in DOMAIN taken[h] /\ new[i] = taken[h][i]
                            \/ i = id /\ new[i] = executed[id]
  BY Zenon
<1> HIDE DEF new
<1>6. TakesOne(h)
  BY <1>1, <1>3, <1>4, <1>5, Zenon DEF TakesOne
<1>7. Steady
  BY <1>1, <1>4, <1>6, Zenon DEF Steady
<1>8. Types'
  BY <1>1, <1>2, <1>4, Zenon DEF OrchestrationInv, Types
<1> QED
  BY <1>1, <1>7, <1>8, StreamsKept, Zenon

\* A client that ends keeps the invariant.
LEMMA ClientEndsStep ==
    ASSUME OrchestrationInv, NEW c \in ClientIDs, ClientEnds(c)
    PROVE  OrchestrationInv'
<1>1. UNCHANGED <<controller, streams, worker, replica, config, executed, taken>>
  BY Zenon DEF ClientEnds
<1>2. UNCHANGED <<phase, failed, todo, called, request, response>>
  BY <1>1, Zenon DEF controller, streams
<1>3. /\ client' \in [ClientIDs -> ClientStates]
      /\ \A d \in ClientIDs : client'[d] = client[d] \/ client'[d] = "ended"
  BY Zenon DEF ClientEnds, OrchestrationInv, Types, ClientStates
<1>4. Steady
  BY <1>1, <1>3, Zenon DEF Steady
<1>5. Types'
  BY <1>1, <1>2, <1>3, Zenon DEF OrchestrationInv, Types
<1> QED
  BY <1>1, <1>4, <1>5, StreamsKept, Zenon

-----------------------------------------------------------------------------
(***************************************************************************)
(* The steps of the controller, in which the nodes do not move.            *)
(***************************************************************************)

\* What is said of the nodes alone.
LEMMA SameNodes ==
    ASSUME UNCHANGED <<plan, nodes>>
    PROVE  /\ \A h \in Hosts : Up(h)' = Up(h) /\ Silent(h)' = Silent(h)
           /\ Assigned' = Assigned
           /\ Within => Within'
           /\ ConfigComplete => ConfigComplete'
           /\ ClientsInside => ClientsInside'
           /\ Types => taken' = [h \in Hosts |-> taken'[h]]
           /\ Took /\ (phase' = "create" => phase = "create") => Took'
<1>1. UNCHANGED <<replica, client, config, executed, taken, plan>>
  BY Zenon DEF nodes
<1>2. Assigned' = Assigned
  BY <1>1, Zenon DEF Assigned
<1>3. \A h \in Hosts : Up(h)' = Up(h) /\ Silent(h)' = Silent(h)
  BY <1>1, Zenon DEF Up, Silent
<1>4. Within => Within'
  BY <1>1, Zenon DEF Within
<1>5. ConfigComplete => ConfigComplete'
  BY <1>1, <1>2, Zenon DEF ConfigComplete
<1>6. ClientsInside => ClientsInside'
  BY <1>1, <1>2, Zenon DEF ClientsInside
<1>7. Types => taken' = [h \in Hosts |-> taken'[h]]
  BY <1>1, Zenon DEF Types
<1>8. Took /\ (phase' = "create" => phase = "create") => Took'
  BY <1>1, Zenon DEF Took, Final
<1> QED
  BY <1>2, <1>3, <1>4, <1>5, <1>6, <1>7, <1>8, Zenon

\* A request to a worker keeps the invariant.
LEMMA CallStep ==
    ASSUME OrchestrationInv, NEW h \in Hosts, Call(h)
    PROVE  OrchestrationInv'
<1>1. /\ UNCHANGED <<phase, failed, plan, cfg, hashes, response, worker, nodes>>
      /\ phase \notin {"sleep", "quit", "done"}
      /\ h \in todo /\ (Concurrent(phase) \/ called = {})
      /\ todo' = todo \ {h} /\ called' = called \cup {h}
  BY Zenon DEF Call
<1>2. /\ request' = [g \in Hosts |-> request'[g]]
      /\ request'[h] = RequestTo(h)
      /\ \A g \in Hosts : g # h => request'[g] = request[g]
  <2>1. request = [g \in Hosts |-> request[g]]
    BY Zenon DEF OrchestrationInv, Types
  <2>2. request' = [request EXCEPT ![h] = RequestTo(h)]
    BY Zenon DEF Call
  <2> QED
    BY <2>1, <2>2, Zenon
<1>3. UNCHANGED <<replica, client, config, executed, taken>>
  BY <1>1, Zenon DEF nodes
<1>4. Types'
  BY <1>1, <1>2, <1>3, Zenon DEF OrchestrationInv, Types
<1>5. Calls'
  <2>1. \A g \in Hosts : RequestTo(g)' = RequestTo(g)
    BY <1>1, SameRequests, Zenon
  <2>2. h \notin called /\ response[h] = None
    BY <1>1, Zenon DEF OrchestrationInv, Calls
  <2> QED
    BY <1>1, <1>2, <2>1, <2>2, Zenon DEF OrchestrationInv, Calls
<1>6. Answers'
  BY <1>1, <1>3, SameNodes, ZenonT(30)
     DEF OrchestrationInv, Answers, Answer, Final, None, Failure, NoHashes
<1>7. \A g \in Hosts : Settled(g)' => Settled(g)
  BY <1>1, Zenon DEF Settled
<1>8. Created'
  BY <1>1, <1>3, <1>7, SameNodes, Zenon DEF OrchestrationInv, Created
<1>9. Started'
  BY <1>1, <1>7, SameNodes, Zenon DEF OrchestrationInv, Started
<1>10. ClientsStopped'
  BY <1>1, <1>3, <1>7, SameNodes, Zenon DEF OrchestrationInv, ClientsStopped
<1>11. Hashed'
  BY <1>1, <1>3, Zenon DEF OrchestrationInv, Hashed, Final
<1> QED
  BY <1>1, <1>4, <1>5, <1>6, <1>8, <1>9, <1>10, <1>11, SameNodes, Zenon DEF OrchestrationInv

\* The end of the call of host h: what it brings the controller is what the
\* host answered.
Learns(h, ok) ==
    /\ UNCHANGED <<plan, request, worker, nodes>>
    /\ response' = [response EXCEPT ![h] = None]
    /\ cfg \subseteq cfg' /\ cfg' \subseteq Assigned
    /\ \A id \in cfg' : replica[id] # "none"
    /\ phase # "create" => cfg' = cfg
    /\ Final(hashes)'
    /\ phase \notin {"stopReplicas", "quit", "done"} => DOMAIN hashes' = {}
    /\ ok => /\ phase = "create" => plan.replicas[h] \subseteq cfg'
             /\ phase = "startReplicas" => Up(h)
             /\ phase = "stopClients" => Silent(h)

\* What Run does with an answer or an error keeps the invariant.
LEMMA Concluding ==
    ASSUME OrchestrationInv, NEW h \in Hosts, NEW ok \in BOOLEAN, h \in called,
           GoOn(h, ok), Learns(h, ok), worker[h] = "running" => request[h] = None
    PROVE  OrchestrationInv'
<1>1. /\ failed' = (failed \/ ~ok)
      /\ \/ GivesUp /\ (Concurrent(phase) => \A g \in Hosts : g # h => Settled(g))
         \/ GoesToNext(h) /\ ok /\ ~failed
         \/ WaitsOn(h) /\ (ok \/ Concurrent(phase))
  BY Going, Zenon DEF OrchestrationInv, Types
<1>2. /\ response' = [g \in Hosts |-> response'[g]]
      /\ response'[h] = None
      /\ \A g \in Hosts : g # h => response'[g] = response[g]
  <2>1. response = [g \in Hosts |-> response[g]]
    BY Zenon DEF OrchestrationInv, Types
  <2>2. response' = [response EXCEPT ![h] = None]
    BY Zenon DEF Learns
  <2> QED
    BY <2>1, <2>2, Zenon
<1>3. UNCHANGED <<plan, request, worker, replica, client, config, executed, taken>>
  BY Zenon DEF Learns, nodes
<1>4. phase \in CallPhases
  BY Zenon DEF OrchestrationInv, Types, Calls, PhaseNames, CallPhases
<1>5. /\ \A g \in Hosts : Up(g)' = Up(g) /\ Silent(g)' = Silent(g)
      /\ Assigned' = Assigned /\ Within' /\ ConfigComplete' /\ ClientsInside'
  BY SameNodes, Zenon DEF OrchestrationInv, Learns
<1>6. \A c \in ClientIDs : client[c] = "started" => \E g \in Hosts : c \in plan.clients[g]
  BY Zenon DEF OrchestrationInv, ClientsStopped
<1>7. Final(hashes)'
  BY Zenon DEF Learns
<1>8. cfg' \subseteq Assigned /\ \A id \in cfg' : replica[id] # "none"
  BY Zenon DEF Learns
<1>13. (phase' = "create" => phase = "create") => Took'
  BY SameNodes, Zenon DEF OrchestrationInv, Learns
<1>9. CASE WaitsOn(h) /\ (ok \/ Concurrent(phase))
  <2>1. UNCHANGED <<phase, todo>> /\ called' = called \ {h}
    BY <1>9, Zenon DEF WaitsOn
  <2>2. Types'
    BY <1>1, <1>2, <1>3, <2>1, Zenon DEF OrchestrationInv, Types
  <2>3. Calls'
    <3>1. \A g \in Hosts : g \in called' => RequestTo(g)' = RequestTo(g)
      <4>1. CASE phase # "create"
        BY <1>3, <2>1, <4>1, SameRequests, Zenon DEF Learns
      <4>2. CASE phase = "create"
        BY <2>1, <4>2, Zenon DEF OrchestrationInv, Calls, Concurrent
      <4> QED
        BY <4>1, <4>2, Zenon
    <3>2. \A g \in Hosts : worker'[g] = "running" /\ request'[g] # None =>
            \/ g \in called' /\ request'[g] = RequestTo(g)'
            \/ request'[g] = [type |-> "quit"]
      BY <1>3, <2>1, <3>1, Zenon DEF OrchestrationInv, Calls
    <3> QED
      BY <1>2, <1>3, <2>1, <3>2, Zenon DEF OrchestrationInv, Calls
  <2>4. Answers'
    BY <1>2, <1>3, <1>5, <2>1
       DEF OrchestrationInv, Answers, Answer, Final, None, Failure, NoHashes
  <2>5. \A g \in Hosts : Settled(g)' => g = h \/ Settled(g)
    BY <2>1, Zenon DEF Settled
  <2>6. Created'
    BY <1>3, <1>4, <1>5, <1>8, <1>9, <2>1, <2>5, Zenon
       DEF OrchestrationInv, Created, Learns, Concurrent
  <2>7. Started'
    BY <1>1, <1>4, <1>5, <2>1, <2>5, ZenonT(40) DEF OrchestrationInv, Started, Learns
  <2>8. ClientsStopped'
    BY <1>3, <1>5, <1>9, <2>1, <2>5, Zenon
       DEF OrchestrationInv, ClientsStopped, Learns, Concurrent
  <2>9. Hashed'
    BY <1>7, <2>1, Zenon DEF Hashed, Learns
  <2> QED
    BY <1>5, <1>13, <2>1, <2>2, <2>3, <2>4, <2>6, <2>7, <2>8, <2>9, Zenon
       DEF OrchestrationInv
<1>10. ASSUME todo' = Hosts, called' = {}, phase' \in PhaseNames,
              \A g \in called : g = h
       PROVE  Types' /\ Calls' /\ Answers'
  <2>1. Types'
    BY <1>1, <1>2, <1>3, <1>10, Zenon DEF OrchestrationInv, Types
  <2>2. \A g \in Hosts : response'[g] = None
    BY <1>2, <1>10, SMTT(30) DEF OrchestrationInv, Calls
  <2>3. \A g \in Hosts : worker[g] = "running" /\ request[g] # None =>
          request[g] = [type |-> "quit"]
    BY <1>10, Zenon DEF OrchestrationInv, Calls
  <2>4. Calls'
    BY <1>3, <1>10, <2>2, <2>3, Zenon DEF Calls
  <2>5. Answers'
    BY <2>2, Zenon DEF Answers, None
  <2> QED
    BY <2>1, <2>4, <2>5, Zenon
<1>11. CASE GivesUp /\ (Concurrent(phase) => \A g \in Hosts : g # h => Settled(g))
  <2>1. todo' = Hosts /\ called' = {} /\ phase' = "quit"
    BY <1>11, Zenon DEF GivesUp
  <2>2. \A g \in called : g = h
    BY <1>11, Zenon DEF OrchestrationInv, Calls, Types, Settled
  <2>3. Types' /\ Calls' /\ Answers'
    BY <1>10, <2>1, <2>2, Zenon DEF PhaseNames
  <2>4. Created' /\ Started' /\ Hashed'
    BY <1>3, <1>5, <1>7, <1>8, <2>1, Zenon DEF Created, Started, Hashed
  <2>5. ClientsStopped'
    BY <1>3, <1>6, <2>1, Zenon DEF ClientsStopped
  <2> QED
    BY <1>5, <1>13, <2>1, <2>3, <2>4, <2>5, Zenon DEF OrchestrationInv
<1>12. CASE GoesToNext(h) /\ ok /\ ~failed
  <2>1. /\ todo' = Hosts /\ called' = {} /\ phase' = NextPhase(phase)
        /\ \A g \in Hosts : g # h => Settled(g)
    BY <1>12, Zenon DEF GoesToNext
  <2>2. \A g \in called : g = h
    BY <2>1, Zenon DEF OrchestrationInv, Types, Settled
  <2>3. \A g \in Hosts : Settled(g)' = FALSE
    BY <2>1, Zenon DEF Settled
  <2>4. CASE phase = "create"
    <3>1. phase' = "startReplicas"
      BY <2>1, <2>4, Following, Zenon
    <3>2. cfg' = Assigned
      <4>1. \A g \in Hosts : plan.replicas[g] \subseteq cfg'
        BY <1>12, <2>1, <2>4, Zenon DEF OrchestrationInv, Created, Learns
      <4> QED
        BY <1>8, <4>1, Zenon DEF Assigned
    <3>3. Created' /\ Started'
      BY <1>3, <1>5, <1>8, <2>3, <3>1, <3>2, Zenon DEF Created, Started
    <3>4. ClientsStopped' /\ Hashed'
      BY <1>3, <1>7, <2>3, <2>4, <3>1, Zenon
         DEF OrchestrationInv, ClientsStopped, Hashed, Learns
    <3> QED
      BY <1>5, <1>10, <1>13, <2>1, <2>2, <3>1, <3>3, <3>4, Zenon
         DEF OrchestrationInv, PhaseNames
  <2>5. CASE phase # "create"
    <3>1. cfg' = cfg /\ cfg = Assigned
      BY <1>4, <2>5, Zenon DEF Learns, OrchestrationInv, Created, CallPhases
    <3>2. phase' \in {"startClients", "sleep", "stopReplicas", "quit"}
      BY <1>4, <2>1, <2>5, Following, Zenon DEF CallPhases
    <3>3. Created'
      BY <1>3, <1>5, <1>8, <3>1, <3>2, Zenon DEF Created
    <3>4. Started'
      <4>1. phase = "startReplicas" => \A g \in Hosts : Up(g)
        BY <1>12, <2>1, Zenon DEF OrchestrationInv, Started, Learns
      <4>2. phase' \in {"startClients", "sleep"} => phase \in {"startReplicas", "startClients"}
        BY <1>4, <2>1, <2>5, Following, Zenon DEF CallPhases
      <4>3. phase' \in {"startClients", "sleep"} => \A g \in Hosts : Up(g)
        BY <4>1, <4>2, Zenon DEF OrchestrationInv, Started
      <4> QED
        BY <1>5, <3>2, <4>3, Zenon DEF Started
    <3>5. ClientsStopped'
      <4>1. phase' = "stopReplicas" => phase = "stopClients"
        BY <1>4, <2>1, <2>5, Following, Zenon DEF CallPhases
      <4>2. phase = "stopClients" => \A g \in Hosts : Silent(g)
        BY <1>12, <2>1, Zenon DEF OrchestrationInv, ClientsStopped, Learns
      <4>3. phase' = "stopReplicas" => \A c \in ClientIDs : client[c] # "started"
        BY <1>6, <4>1, <4>2, Zenon DEF Silent
      <4> QED
        BY <1>3, <1>6, <3>2, <4>3, Zenon DEF ClientsStopped
    <3>6. Hashed'
      <4>1. phase' \in {"startClients", "sleep"} => phase \in {"startReplicas", "startClients"}
        BY <1>4, <2>1, <2>5, Following, Zenon DEF CallPhases
      <4> QED
        BY <1>7, <3>2, <4>1, Zenon DEF Hashed, Learns
    <3> QED
      BY <1>5, <1>10, <1>13, <2>1, <2>2, <3>2, <3>3, <3>4, <3>5, <3>6, Zenon
         DEF OrchestrationInv, PhaseNames
  <2> QED
    BY <2>4, <2>5, Zenon
<1> QED
  BY <1>1, <1>9, <1>11, <1>12, Zenon

\* The answer of a worker keeps the invariant.
LEMMA AnsweredStep ==
    ASSUME OrchestrationInv, NEW h \in Hosts, Answered(h)
    PROVE  OrchestrationInv'
<1> DEFINE res == response[h]
           got == [id \in DOMAIN hashes \cup DOMAIN res.hashes |->
                       IF id \in DOMAIN hashes THEN hashes[id] ELSE res.hashes[id]]
           mismatch == /\ phase = "stopReplicas" /\ todo = {}
                       /\ \E i, j \in DOMAIN got : got[i] # got[j]
           ok == res.ok /\ ~mismatch
<1>1. /\ h \in called /\ res # None
      /\ response' = [response EXCEPT ![h] = None]
      /\ GoOn(h, ok)
      /\ cfg' = IF phase = "create" THEN cfg \cup res.ids ELSE cfg
      /\ hashes' = got
      /\ UNCHANGED <<plan, request, worker, nodes>>
  BY ZenonT(40) DEF Answered
<1>2. request[h] = None
  BY <1>1, Zenon DEF OrchestrationInv, Calls
<1>3. res = Failure \/ Answer(h, res)
  BY <1>1, Zenon DEF OrchestrationInv, Answers
<1>4. UNCHANGED <<replica, executed>>
  BY <1>1, Zenon DEF nodes
<1>5. res = Failure => res.ids = {} /\ res.ok = FALSE /\ DOMAIN res.hashes = {}
  BY DEF Failure, NoHashes
<1>6. /\ DOMAIN got = DOMAIN hashes \cup DOMAIN res.hashes
      /\ \A id \in DOMAIN got : got[id] = IF id \in DOMAIN hashes THEN hashes[id] ELSE res.hashes[id]
  BY Zenon
<1>7. Final(res.hashes) /\ (phase # "stopReplicas" => DOMAIN res.hashes = {})
  BY <1>3, <1>5, Zenon DEF Answer, Final
<1>8. ok \in BOOLEAN /\ (ok => Answer(h, res))
  BY <1>3, <1>5, Zenon DEF Answer
<1> HIDE DEF got, ok
<1>9. Final(hashes)' /\ (phase \notin {"stopReplicas", "quit", "done"} => DOMAIN hashes' = {})
  BY <1>1, <1>4, <1>6, <1>7, ZenonT(40) DEF OrchestrationInv, Hashed, Final
<1>10. /\ cfg \subseteq cfg' /\ cfg' \subseteq Assigned
       /\ \A id \in cfg' : replica[id] # "none"
       /\ phase # "create" => cfg' = cfg
       /\ ok /\ phase = "create" => plan.replicas[h] \subseteq cfg'
  <2>1. CASE phase # "create"
    BY <1>1, <2>1, Zenon DEF OrchestrationInv, Created
  <2>2. CASE phase = "create" /\ res = Failure
    BY <1>1, <1>5, <1>8, <2>2, Zenon DEF OrchestrationInv, Created, Answer
  <2>3. CASE phase = "create" /\ Answer(h, res)
    <3>1. res.ids = plan.replicas[h] /\ \A id \in plan.replicas[h] : replica[id] # "none"
      BY <2>3, Zenon DEF Answer
    <3>2. plan.replicas[h] \subseteq Assigned
      BY AssignedWithin, Zenon DEF OrchestrationInv
    <3>3. cfg' = cfg \cup plan.replicas[h]
      BY <1>1, <2>3, <3>1, Zenon
    <3> QED
      BY <2>3, <3>1, <3>2, <3>3, Zenon DEF OrchestrationInv, Created
  <2> QED
    BY <1>3, <2>1, <2>2, <2>3, Zenon
<1>11. ok => /\ phase = "startReplicas" => Up(h)
             /\ phase = "stopClients" => Silent(h)
  BY <1>8, Zenon DEF Answer
<1>12. Learns(h, ok)
  BY <1>1, <1>9, <1>10, <1>11, Zenon DEF Learns
<1> QED
  BY <1>1, <1>2, <1>8, <1>12, Concluding, Zenon

\* The error of a broken stream keeps the invariant.
LEMMA DisconnectedStep ==
    ASSUME OrchestrationInv, NEW h \in Hosts, Disconnected(h)
    PROVE  OrchestrationInv'
<1>1. /\ h \in called /\ response[h] = None /\ worker[h] # "running"
      /\ GoOn(h, FALSE)
      /\ UNCHANGED <<plan, cfg, hashes, request, response, worker, nodes>>
  BY Zenon DEF Disconnected, streams
<1>2. response' = [response EXCEPT ![h] = None]
  <2>1. response = [g \in Hosts |-> response[g]]
    BY Zenon DEF OrchestrationInv, Types
  <2> QED
    BY <1>1, <2>1, Zenon
<1>3. Final(hashes)' /\ (phase \notin {"stopReplicas", "quit", "done"} => DOMAIN hashes' = {})
  BY <1>1, Zenon DEF OrchestrationInv, Hashed, Final, nodes
<1>4. Learns(h, FALSE)
  BY <1>1, <1>2, <1>3, Zenon DEF OrchestrationInv, Created, Learns
<1> QED
  BY <1>1, <1>4, Concluding, Zenon

\* The end of the duration of the experiment keeps the invariant.
LEMMA SleepStep ==
    ASSUME OrchestrationInv, Sleep
    PROVE  OrchestrationInv'
<1>1. /\ phase = "sleep" /\ phase' = "stopClients"
      /\ UNCHANGED <<failed, todo, called, plan, cfg, hashes, request, response, worker,
                     nodes>>
  BY Following, Zenon DEF Sleep, streams
<1>2. UNCHANGED <<replica, client, config, executed, taken>>
  BY <1>1, Zenon DEF nodes
<1>3. called = {} /\ todo = Hosts
  BY <1>1, Zenon DEF OrchestrationInv, Calls
<1>4. Types'
  BY <1>1, <1>2, Zenon DEF OrchestrationInv, Types, PhaseNames
<1>5. Calls'
  BY <1>1, <1>3, Zenon DEF OrchestrationInv, Calls
<1>6. Answers'
  <2>1. \A h \in Hosts : response'[h] = None
    BY <1>1, <1>3, Zenon DEF OrchestrationInv, Calls
  <2> QED
    BY <2>1, Zenon DEF Answers, None
<1>7. \A h \in Hosts : Settled(h)' = FALSE
  BY <1>1, <1>3, Zenon DEF Settled
<1>8. Created' /\ Started'
  BY <1>1, <1>2, <1>7, SameNodes, Zenon DEF OrchestrationInv, Created, Started
<1>9. ClientsStopped' /\ Hashed'
  BY <1>1, <1>2, <1>7, Zenon DEF OrchestrationInv, ClientsStopped, Hashed, Final
<1> QED
  BY <1>1, <1>4, <1>5, <1>6, <1>8, <1>9, SameNodes, Zenon DEF OrchestrationInv

\* Ending a worker keeps the invariant.
LEMMA QuitStep ==
    ASSUME OrchestrationInv, NEW h \in Hosts, Quit(h)
    PROVE  OrchestrationInv'
<1>1. /\ phase = "quit" /\ phase' \in {"quit", "done"}
      /\ todo' \subseteq Hosts /\ failed' \in BOOLEAN
      /\ UNCHANGED <<called, plan, cfg, hashes, response, worker, nodes>>
  BY Zenon DEF Quit, OrchestrationInv, Types
<1>2. UNCHANGED <<replica, client, config, executed, taken>>
  BY <1>1, Zenon DEF nodes
<1>3. called = {}
  BY <1>1, Zenon DEF OrchestrationInv, Calls
<1>4. /\ request' = [g \in Hosts |-> request'[g]]
      /\ \A g \in Hosts : request'[g] = request[g] \/ request'[g] = [type |-> "quit"]
  <2>1. request = [g \in Hosts |-> request[g]]
    BY Zenon DEF OrchestrationInv, Types
  <2>2. request' = request \/ request' = [request EXCEPT ![h] = [type |-> "quit"]]
    BY <1>1, RequestFields, Zenon DEF Quit
  <2> QED
    BY <2>1, <2>2, Zenon
<1>5. Types'
  BY <1>1, <1>2, <1>4, Zenon DEF OrchestrationInv, Types, PhaseNames
<1>6. \A g \in Hosts : response'[g] = None
  BY <1>1, <1>3, Zenon DEF OrchestrationInv, Calls
<1>7. Calls'
  BY <1>1, <1>3, <1>4, <1>6, Zenon DEF OrchestrationInv, Calls
<1>8. Answers'
  BY <1>6, Zenon DEF Answers, None
<1>9. Created' /\ Started'
  BY <1>1, <1>2, SameNodes, Zenon DEF OrchestrationInv, Created, Started
<1>10. ClientsStopped' /\ Hashed'
  BY <1>1, <1>2, Zenon DEF OrchestrationInv, ClientsStopped, Hashed, Final
<1> QED
  BY <1>1, <1>5, <1>7, <1>8, <1>9, <1>10, SameNodes, Zenon DEF OrchestrationInv

-----------------------------------------------------------------------------
(***************************************************************************)
(* The assignment, whose loops over the hosts are followed by induction on *)
(* the hosts visited.                                                      *)
(***************************************************************************)

Below == {p \in Nat \X Nat : p[1] < p[2]}

\* Induction up to a bound, stated with a set: a counterexample would be a
\* least one.
LEMMA BoundedInduction ==
    ASSUME NEW bound \in Nat, NEW S, 0 \in S,
           \A n \in 0..(bound - 1) : n \in S => n + 1 \in S
    PROVE  0..bound \subseteq S
<1> DEFINE T == {n \in Nat : n <= bound /\ n \notin S}
<1>1. SUFFICES ASSUME T # {} PROVE FALSE
  OBVIOUS
<1>2. Below = OpToRel(<, Nat)
  BY Zenon DEF Below, OpToRel
<1>3. IsWellFoundedOn(Below, Nat)
  BY <1>2, NatLessThanWellFounded, Zenon
<1>4. PICK n \in T : \A m \in T : ~ (<<m, n>> \in Below)
  BY <1>1, <1>3, WFMin, Zenon
<1>5. n \in Nat /\ n # 0 /\ n - 1 \in Nat /\ n - 1 \in 0..(bound - 1) /\ (n - 1) + 1 = n
  BY <1>4
<1>6. n - 1 \in T
  BY <1>4, <1>5
<1>7. <<n - 1, n>> \in Below
  BY <1>5 DEF Below
<1> QED
  BY <1>4, <1>6, <1>7, Zenon

\* There are finitely many hosts.
LEMMA HostsFinite == NumHosts \in Nat /\ IsFiniteSet(Hosts)
BY AssignmentAssumption, FS_CardinalityType, Zenon DEF NumHosts

\* A counter of a loop over the hosts goes up by what the loop adds for each.
LEMMA TotalsLoop ==
    ASSUME NEW counts \in [1..NumHosts -> Int]
    PROVE  /\ Totals(counts) \in [0..NumHosts -> Int] /\ Totals(counts)[0] = 0
           /\ \A i \in 1..NumHosts : Totals(counts)[i] = Totals(counts)[i - 1] + counts[i]
<1> DEFINE N == NumHosts
           Eq(f) == f = [i \in 0..N |-> IF i = 0 THEN 0 ELSE f[i - 1] + counts[i]]
           Run(f, k) == /\ f \in [0..k -> Int] /\ f[0] = 0
                        /\ \A n \in 1..k : f[n] = f[n - 1] + counts[n]
           S == {k \in Nat : \E f : Run(f, k)}
<1>1. Totals(counts) = CHOOSE f : Eq(f)
  BY Zenon DEF Totals
<1>2. N \in Nat
  BY HostsFinite, Zenon
<1> HIDE DEF N
<1>3. counts \in [1..N -> Int]
  BY Zenon DEF N
<1>4. 0 \in S
  <2> DEFINE f == [n \in 0..0 |-> 0]
  <2>1. f \in [0..0 -> Int] /\ f[0] = 0
    OBVIOUS
  <2>2. Run(f, 0)
    BY <2>1
  <2> QED
    BY <2>2, Zenon
<1>5. ASSUME NEW k \in 0..(N - 1), k \in S
      PROVE  k + 1 \in S
  <2>1. PICK f : Run(f, k)
    BY <1>5, Zenon
  <2> DEFINE v == f[k] + counts[k + 1]
             g == [n \in 0..(k + 1) |-> IF n = k + 1 THEN v ELSE f[n]]
  <2>2. v \in Int
    <3>1. k \in 0..k /\ k + 1 \in 1..N
      BY <1>2
    <3>2. f \in [0..k -> Int]
      BY <2>1, Zenon
    <3>3. f[k] \in Int /\ counts[k + 1] \in Int
      BY <1>3, <3>1, <3>2, Zenon
    <3> QED
      BY <3>3
  <2> HIDE DEF v
  <2>3. \A n \in 0..(k + 1) : g[n] = IF n = k + 1 THEN v ELSE f[n]
    BY Zenon
  <2>4. g \in [0..(k + 1) -> Int]
    BY <2>1, <2>2
  <2> HIDE DEF g
  <2>5. g[0] = 0
    BY <2>1, <2>3
  <2>6. ASSUME NEW n \in 1..(k + 1) PROVE g[n] = g[n - 1] + counts[n]
    <3>1. CASE n = k + 1
      BY <2>3, <3>1 DEF v
    <3>2. CASE n # k + 1
      <4>1. n \in 1..k /\ g[n] = f[n] /\ g[n - 1] = f[n - 1]
        BY <2>3, <3>2
      <4> QED
        BY <2>1, <4>1, Zenon
    <3> QED
      BY <3>1, <3>2, Zenon
  <2>7. Run(g, k + 1)
    BY <2>4, <2>5, <2>6, Zenon
  <2> QED
    BY <2>7
<1>6. PICK f : Run(f, N)
  <2>1. \A k \in 0..(N - 1) : k \in S => k + 1 \in S
    BY <1>5, Zenon
  <2> HIDE DEF S
  <2>2. 0..N \subseteq S
    BY <1>2, <1>4, <2>1, BoundedInduction, Zenon
  <2>3. N \in S
    BY <1>2, <2>2
  <2> QED
    BY <2>3, Zenon DEF S
<1>7. Eq(f)
  <2>1. f = [i \in 0..N |-> f[i]]
    BY <1>6, Zenon
  <2>2. \A i \in 0..N : f[i] = IF i = 0 THEN 0 ELSE f[i - 1] + counts[i]
    BY <1>2, <1>6
  <2> QED
    BY <2>1, <2>2, Zenon
<1>8. Eq(Totals(counts))
  BY <1>1, <1>7, Zenon
<1> DEFINE t == Totals(counts)
<1> HIDE DEF t
<1>9. /\ t = [i \in 0..N |-> IF i = 0 THEN 0 ELSE t[i - 1] + counts[i]]
      /\ \A i \in 0..N : t[i] = IF i = 0 THEN 0 ELSE t[i - 1] + counts[i]
  BY <1>8, Zenon DEF t
<1>10. t[0] = 0 /\ \A i \in 1..N : t[i] = t[i - 1] + counts[i]
  BY <1>2, <1>9
<1>11. t \in [0..N -> Int]
  <2> DEFINE U == {i \in 0..N : t[i] \in Int}
  <2>1. 0 \in U
    BY <1>2, <1>10
  <2>2. \A k \in 0..(N - 1) : k \in U => k + 1 \in U
    <3>1. SUFFICES ASSUME NEW k \in 0..(N - 1), k \in U PROVE k + 1 \in U
      BY Zenon
    <3>2. k + 1 \in 1..N /\ k + 1 \in 0..N /\ (k + 1) - 1 = k
      BY <1>2
    <3>3. counts[k + 1] \in Int /\ t[k] \in Int
      BY <1>3, <3>1, <3>2, Zenon
    <3>4. t[k + 1] = t[k] + counts[k + 1]
      BY <1>10, <3>2, Zenon
    <3> QED
      BY <3>2, <3>3, <3>4
  <2>3. 0..N \subseteq U
    <3> HIDE DEF U
    <3> QED
      BY <1>2, <2>1, <2>2, BoundedInduction, Zenon
  <2>4. DOMAIN t = 0..N /\ t = [i \in 0..N |-> t[i]]
    BY <1>9, Zenon
  <2> QED
    BY <2>3, <2>4, Zenon
<1> QED
  BY <1>10, <1>11, Zenon DEF t, N

\* Counters that only go up.
LEMMA TotalsGrow ==
    ASSUME NEW counts \in [1..NumHosts -> Nat]
    PROVE  /\ Totals(counts) \in [0..NumHosts -> Nat]
           /\ \A i, j \in 0..NumHosts : i <= j => Totals(counts)[i] <= Totals(counts)[j]
<1> DEFINE t == Totals(counts)
           N == NumHosts
           S == {j \in 0..N : t[j] \in Nat /\ \A i \in 0..j : t[i] <= t[j]}
<1>1. N \in Nat /\ counts \in [1..N -> Int]
  BY HostsFinite
<1>2. /\ t \in [0..N -> Int] /\ t[0] = 0
      /\ \A i \in 1..N : t[i] = t[i - 1] + counts[i]
  BY <1>1, TotalsLoop, Zenon
<1> HIDE DEF t, N
<1>3. 0 \in S
  BY <1>1, <1>2
<1>4. ASSUME NEW k \in 0..(N - 1), k \in S PROVE k + 1 \in S
  <2>1. t[k + 1] = t[k] + counts[k + 1] /\ counts[k + 1] \in Nat /\ t[k] \in Nat
    BY <1>1, <1>2, <1>4 DEF N
  <2>2. \A i \in 0..(k + 1) : t[i] <= t[k + 1]
    <3>1. SUFFICES ASSUME NEW i \in 0..(k + 1) PROVE t[i] <= t[k + 1]
      BY Zenon
    <3>2. CASE i = k + 1
      BY <2>1, <3>2
    <3>3. CASE i # k + 1
      <4>1. i \in 0..k /\ i \in 0..N
        BY <1>1, <3>3
      <4>2. t[i] <= t[k] /\ t[i] \in Int
        BY <1>2, <1>4, <4>1, Zenon
      <4> QED
        BY <2>1, <4>2
    <3> QED
      BY <3>2, <3>3, Zenon
  <2>3. k + 1 \in 0..N /\ t[k + 1] \in Nat
    BY <1>1, <2>1
  <2> QED
    BY <2>2, <2>3, Zenon
<1>5. 0..N \subseteq S
  <2>1. \A k \in 0..(N - 1) : k \in S => k + 1 \in S
    BY <1>4, Zenon
  <2> HIDE DEF S
  <2> QED
    BY <1>1, <1>3, <2>1, BoundedInduction, Zenon
<1>6. t \in [0..N -> Nat] /\ \A i, j \in 0..N : i <= j => t[i] <= t[j]
  BY <1>1, <1>2, <1>5
<1> QED
  BY <1>6, Zenon DEF t, N

\* The blocks of IDs are apart and cover all IDs up to the sum of the shares.
LEMMA BlocksApart ==
    ASSUME NEW shares \in [1..NumHosts -> Nat]
    PROVE  /\ \A i, j \in 1..NumHosts : i # j => Block(shares, i) \cap Block(shares, j) = {}
           /\ \A id : id \in 1..Totals(shares)[NumHosts] <=>
                        \E i \in 1..NumHosts : id \in Block(shares, i)
<1> DEFINE t == Totals(shares)
           N == NumHosts
<1>1. N \in Nat /\ shares \in [1..N -> Int]
  BY HostsFinite
<1>2. /\ t \in [0..N -> Nat] /\ t[0] = 0
      /\ \A i, j \in 0..N : i <= j => t[i] <= t[j]
  BY <1>1, TotalsLoop, TotalsGrow, Zenon
<1>3. \A i : Block(shares, i) = (t[i - 1] + 1)..t[i]
  BY Zenon DEF Block
<1> HIDE DEF t, N
<1>4. \A i \in 1..N : t[i] \in Nat /\ t[i - 1] \in Nat /\ 0 <= t[i - 1] /\ t[i] <= t[N]
  BY <1>1, <1>2
<1>5. ASSUME NEW i \in 1..N, NEW j \in 1..N, i < j
      PROVE  Block(shares, i) \cap Block(shares, j) = {}
  <2>1. t[i] <= t[j - 1]
    BY <1>1, <1>2, <1>5
  <2>2. SUFFICES ASSUME NEW id, id \in Block(shares, i), id \in Block(shares, j) PROVE FALSE
    BY Zenon
  <2>3. id \in (t[i - 1] + 1)..t[i] /\ id \in (t[j - 1] + 1)..t[j]
    BY <1>3, <2>2, Zenon
  <2>4. t[i] \in Nat /\ t[i - 1] \in Nat /\ t[j] \in Nat /\ t[j - 1] \in Nat
    BY <1>4, Zenon
  <2> QED
    BY <2>1, <2>3, <2>4, SMTT(30)
<1>6. \A i, j \in 1..N : i # j => Block(shares, i) \cap Block(shares, j) = {}
  <2>1. SUFFICES ASSUME NEW i \in 1..N, NEW j \in 1..N, i # j
                 PROVE  Block(shares, i) \cap Block(shares, j) = {}
    BY Zenon
  <2>2. i < j \/ j < i
    BY <1>1, <2>1
  <2> QED
    BY <1>5, <2>2, Zenon
<1>7. ASSUME NEW i \in 1..N, NEW id \in Block(shares, i)
      PROVE  id \in 1..t[N]
  <2>1. N \in 0..N /\ t[N] \in Nat
    BY <1>1, <1>2
  <2>2. id \in (t[i - 1] + 1)..t[i]
    BY <1>3, Zenon
  <2>3. t[i] \in Nat /\ t[i - 1] \in Nat /\ t[i] <= t[N]
    BY <1>4, Zenon
  <2> QED
    BY <2>1, <2>2, <2>3, SMTT(30)
<1>8. ASSUME NEW id \in 1..t[N], \A i \in 1..N : id \notin Block(shares, i)
      PROVE  FALSE
  <2> DEFINE S == {k \in 0..N : t[k] < id}
  <2>1. 0 \in S
    BY <1>1, <1>2
  <2>2. ASSUME NEW k \in 0..(N - 1), k \in S PROVE k + 1 \in S
    <3>1. k + 1 \in 1..N /\ (k + 1) - 1 = k /\ id \in Int
      BY <1>1
    <3>2. id \notin (t[k] + 1)..t[k + 1] /\ t[k + 1] \in Nat /\ t[k] \in Nat
      BY <1>3, <1>4, <1>8, <3>1, Zenon
    <3> QED
      BY <1>1, <2>2, <3>1, <3>2
  <2>3. 0..N \subseteq S
    <3>1. \A k \in 0..(N - 1) : k \in S => k + 1 \in S
      BY <2>2, Zenon
    <3> HIDE DEF S
    <3> QED
      BY <1>1, <2>1, <3>1, BoundedInduction, ZenonT(40)
  <2>4. t[N] < id /\ t[N] \in Nat
    BY <1>1, <1>2, <2>3
  <2> QED
    BY <2>4
<1> QED
  BY <1>6, <1>7, <1>8, Zenon DEF t, N

\* A block has as many IDs as the share says.
LEMMA BlockSize ==
    ASSUME NEW shares \in [1..NumHosts -> Nat], NEW i \in 1..NumHosts
    PROVE  Cardinality(Block(shares, i)) = shares[i]
<1> DEFINE t == Totals(shares)
           N == NumHosts
<1>1. N \in Nat /\ shares \in [1..N -> Int]
  BY HostsFinite
<1>2. t \in [0..N -> Nat] /\ t[i] = t[i - 1] + shares[i]
  BY <1>1, TotalsLoop, TotalsGrow, Zenon
<1>3. Block(shares, i) = (t[i - 1] + 1)..t[i]
  BY Zenon DEF Block
<1> HIDE DEF t
<1>4. t[i - 1] \in Nat /\ t[i] \in Nat /\ shares[i] \in Nat
  BY <1>1, <1>2
<1> DEFINE a == t[i - 1] + 1
           b == t[i]
<1>5. a \in Int /\ b \in Int /\ (IF a > b THEN 0 ELSE b - a + 1) = shares[i]
  BY <1>2, <1>4
<1> HIDE DEF a, b
<1>6. Cardinality(a..b) = IF a > b THEN 0 ELSE b - a + 1
  BY <1>5, FS_Interval, Zenon
<1> QED
  BY <1>3, <1>5, <1>6, Zenon DEF a, b

\* The hosts without a configuration are counted by the loop.
LEMMA AutoCount ==
    ASSUME NEW given, DOMAIN given \subseteq Hosts, NEW order \in Orders
    PROVE  /\ AutoBefore(given, order, 1) = 0
           /\ \A i \in 1..NumHosts :
                /\ AutoBefore(given, order, i) \in Nat
                /\ AutoBefore(given, order, i + 1) =
                     AutoBefore(given, order, i) + IF order[i] \in DOMAIN given THEN 0 ELSE 1
           /\ AutoBefore(given, order, NumHosts + 1) = AutoConfig(given)
           /\ DOMAIN given # Hosts => AutoConfig(given) \in Nat \ {0}
<1> DEFINE N == NumHosts
           D == DOMAIN given
           A(i) == {j \in 1..(i - 1) : order[j] \notin D}
<1>1. N \in Nat /\ IsFiniteSet(Hosts)
  BY HostsFinite, Zenon
<1>2. \A i : AutoBefore(given, order, i) = Cardinality(A(i))
  BY DEF AutoBefore
<1>3. /\ order \in [1..N -> Hosts]
      /\ \A i, j \in 1..N : order[i] = order[j] => i = j
      /\ \A h \in Hosts : \E i \in 1..N : order[i] = h
  BY DEF Orders, Bijection, Injection, Surjection, IsInjective
<1> HIDE DEF N, D
<1>4. ASSUME NEW i \in 1..(N + 1) PROVE IsFiniteSet(A(i)) /\ Cardinality(A(i)) \in Nat
  <2>1. A(i) \subseteq 1..(i - 1) /\ IsFiniteSet(1..(i - 1))
    BY <1>1, FS_Interval
  <2> QED
    BY <2>1, FS_Subset, FS_CardinalityType, Zenon
<1>5. Cardinality(A(1)) = 0
  <2>1. A(1) = {}
    OBVIOUS
  <2> QED
    BY <2>1, FS_EmptySet, Zenon
<1>6. ASSUME NEW i \in 1..N
      PROVE  Cardinality(A(i + 1)) = Cardinality(A(i)) + IF order[i] \in D THEN 0 ELSE 1
  <2>1. i \in 1..(N + 1)
    BY <1>1
  <2>2. IsFiniteSet(A(i)) /\ Cardinality(A(i)) \in Nat
    BY <1>4, <2>1, Zenon
  <2>3. CASE order[i] \in D
    <3>1. A(i + 1) = A(i)
      BY <1>1, <2>3
    <3> HIDE DEF A
    <3> QED
      BY <2>2, <2>3, <3>1
  <2>4. CASE order[i] \notin D
    <3>1. A(i + 1) = A(i) \cup {i} /\ i \notin A(i)
      BY <1>1, <2>4, SMTT(30)
    <3> HIDE DEF A
    <3>2. Cardinality(A(i) \cup {i}) = Cardinality(A(i)) + 1
      BY <2>2, <3>1, FS_AddElement, Zenon
    <3> QED
      BY <2>2, <2>4, <3>1, <3>2, Zenon
  <2> QED
    BY <2>3, <2>4, Zenon
<1>7. Cardinality(A(N + 1)) = Cardinality(Hosts \ D)
  <2> DEFINE f == [j \in A(N + 1) |-> order[j]]
  <2>1. A(N + 1) \subseteq 1..N /\ \A j \in 1..N : order[j] \notin D => j \in A(N + 1)
    BY <1>1
  <2>2. f \in [A(N + 1) -> Hosts \ D]
    BY <1>3, <2>1, Zenon
  <2>3. \A i, j \in A(N + 1) : f[i] = f[j] => i = j
    BY <1>3, <2>1, Zenon
  <2>4. \A h \in Hosts \ D : \E j \in A(N + 1) : f[j] = h
    BY <1>3, <2>1, Zenon
  <2>5. f \in Bijection(A(N + 1), Hosts \ D)
    <3> HIDE DEF f
    <3> QED
      BY <2>2, <2>3, <2>4, Zenon DEF Bijection, Injection, Surjection, IsInjective
  <2>6. ExistsBijection(A(N + 1), Hosts \ D)
    BY <2>5, Zenon DEF ExistsBijection
  <2>7. N + 1 \in 1..(N + 1)
    BY <1>1
  <2> QED
    BY <1>4, <2>6, <2>7, FS_Bijection, Zenon
<1>8. AutoConfig(given) = N - Cardinality(D)
  BY DEF AutoConfig, N, D
<1>9. /\ Cardinality(Hosts \ D) = Cardinality(Hosts) - Cardinality(D) /\ IsFiniteSet(Hosts \ D)
      /\ Cardinality(Hosts \ D) \in Nat
  <2>1. Hosts \cap D = D
    BY Zenon DEF D
  <2> QED
    BY <1>1, <2>1, FS_Difference, FS_CardinalityType, Zenon
<1>10. Cardinality(A(N + 1)) = AutoConfig(given) /\ AutoConfig(given) = Cardinality(Hosts \ D)
  BY <1>7, <1>8, <1>9 DEF N, NumHosts
<1>11. D # Hosts => AutoConfig(given) \in Nat \ {0}
  <2>1. D # Hosts => Hosts \ D # {}
    BY Zenon DEF D
  <2> QED
    BY <1>9, <1>10, <2>1, FS_EmptySet, Zenon
<1>12. \A i \in 1..N : i \in 1..(N + 1)
  BY <1>1, SMTT(30)
<1>13. \A i \in 1..N : /\ Cardinality(A(i)) \in Nat
                       /\ Cardinality(A(i + 1)) =
                            Cardinality(A(i)) + IF order[i] \in D THEN 0 ELSE 1
  BY <1>4, <1>6, <1>12, Zenon
<1> HIDE DEF A
<1> QED
  BY <1>2, <1>5, <1>10, <1>11, <1>13, Zenon DEF N, D

\* The shares of the hosts without a configuration, one by one: an equal part each,
\* and one more for as many as the remainder.
LEMMA SharesSum ==
    ASSUME NEW asked \in Nat, NEW given, DOMAIN given \subseteq Hosts, DOMAIN given # Hosts,
           \A h \in DOMAIN given : given[h] \in Nat,
           NEW order \in Orders, Remaining(asked, given, order) >= 0
    PROVE  LET shares == [i \in 1..NumHosts |-> Share(asked, given, order, i)]
           IN  shares \in [1..NumHosts -> Nat] /\ Totals(shares)[NumHosts] = asked
<1> DEFINE N == NumHosts
           conf == Configured(given, order)
           c == Totals(conf)
           shares == [i \in 1..N |-> Share(asked, given, order, i)]
           s == Totals(shares)
           rest == Remaining(asked, given, order)
           auto == AutoConfig(given)
           per == rest \div auto
           rem == rest % auto
           A(i) == AutoBefore(given, order, i)
           Least(x, y) == IF x <= y THEN x ELSE y
<1>1. N \in Nat /\ order \in [1..N -> Hosts]
  BY HostsFinite, SMTT(30) DEF Orders, Bijection, Injection
<1>2. /\ conf \in [1..N -> Nat] /\ conf \in [1..N -> Int]
      /\ \A i \in 1..N : conf[i] = IF order[i] \in DOMAIN given THEN given[order[i]] ELSE 0
  BY SMTT(30) DEF Configured
<1>3. /\ c \in [0..N -> Int] /\ c[0] = 0
      /\ \A i \in 1..N : c[i] = c[i - 1] + conf[i]
  <2> HIDE DEF conf
  <2> QED
    BY <1>2, TotalsLoop, Zenon
<1>4. rest = asked - c[N] /\ rest >= 0
  BY Zenon DEF Remaining
<1>5. /\ A(1) = 0 /\ A(N + 1) = auto /\ auto \in Nat \ {0}
      /\ \A i \in 1..N : /\ A(i) \in Nat
                         /\ A(i + 1) = A(i) + IF order[i] \in DOMAIN given THEN 0 ELSE 1
  BY AutoCount, Zenon
<1>6. \A i \in 1..N : Share(asked, given, order, i) =
        IF order[i] \in DOMAIN given THEN given[order[i]]
        ELSE per + IF A(i) < rem THEN 1 ELSE 0
  BY Zenon DEF Share
<1> HIDE DEF N, conf, c, rest, auto, A
<1>7. rest \in Nat
  <2>1. c[N] \in Int
    BY <1>1, <1>3, SMTT(30)
  <2> QED
    BY <1>4, <2>1, SMTT(30)
<1>8. per \in Nat /\ rem \in Nat /\ rem < auto /\ rest = per * auto + rem
  BY <1>5, <1>7
<1> HIDE DEF per, rem
<1>9. /\ shares \in [1..N -> Nat] /\ shares \in [1..N -> Int]
      /\ \A i \in 1..N : shares[i] = IF order[i] \in DOMAIN given THEN conf[i]
                                     ELSE per + IF A(i) < rem THEN 1 ELSE 0
  <2>1. \A i \in 1..N : Share(asked, given, order, i) \in Nat
    BY <1>6, <1>8, SMTT(30)
  <2>2. shares \in [1..N -> Nat] /\ shares \in [1..N -> Int]
    BY <2>1, SMTT(30)
  <2> QED
    BY <1>2, <1>6, <2>2, Zenon
<1> HIDE DEF shares
<1>10. /\ s \in [0..N -> Int] /\ s[0] = 0
       /\ \A i \in 1..N : s[i] = s[i - 1] + shares[i]
  BY <1>9, TotalsLoop, Zenon DEF N
<1> HIDE DEF s
<1> DEFINE S == {i \in 0..N : A(i + 1) \in Nat /\ s[i] = c[i] + per * A(i + 1) + Least(A(i + 1), rem)}
<1>11. 0 \in S
  <2>1. 0 + 1 = 1 /\ per * 0 = 0 /\ Least(0, rem) = 0
    BY <1>8, SMTT(30)
  <2> HIDE DEF Least
  <2> QED
    BY <1>1, <1>3, <1>5, <1>10, <2>1, SMTT(30)
<1>12. ASSUME NEW k \in 0..(N - 1), k \in S PROVE k + 1 \in S
  <2> DEFINE i == k + 1
             a == A(i)
  <2>1. i \in 1..N /\ i \in 0..N /\ i - 1 = k
    BY <1>1, SMTT(30)
  <2>2. a \in Nat /\ A(i + 1) = a + IF order[i] \in DOMAIN given THEN 0 ELSE 1
    BY <1>5, <2>1, Zenon
  <2>3. /\ s[i] = s[k] + shares[i] /\ c[i] = c[k] + conf[i]
        /\ s[k] = c[k] + per * a + Least(a, rem)
    BY <1>3, <1>10, <1>12, <2>1, Zenon
  <2>4. shares[i] = (IF order[i] \in DOMAIN given THEN conf[i]
                    ELSE per + IF a < rem THEN 1 ELSE 0) /\ conf[i] \in Nat /\ c[k] \in Int
        /\ (order[i] \notin DOMAIN given => conf[i] = 0)
    BY <1>1, <1>2, <1>3, <1>9, <2>1
  <2>5. per * a \in Nat /\ per * (a + 1) = per * a + per
    BY <1>8, <2>2
  <2> HIDE DEF a, i
  <2>6. CASE order[i] \in DOMAIN given
    <3>1. A(i + 1) = a /\ s[i] = c[i] + per * a + Least(a, rem)
      BY <1>8, <2>2, <2>3, <2>4, <2>5, <2>6, SMTT(30)
    <3> QED
      BY <2>1, <2>2, <3>1, Zenon DEF i
  <2>7. CASE order[i] \notin DOMAIN given
    <3>1. A(i + 1) = a + 1
      BY <2>2, <2>7, Zenon
    <3>2. s[i] = c[i] + per * a + per + Least(a + 1, rem)
      <4> DEFINE pa == per * a
      <4>1. /\ shares[i] = per + (IF a < rem THEN 1 ELSE 0) /\ conf[i] = 0
            /\ s[i] = s[k] + shares[i] /\ c[i] = c[k] + conf[i]
            /\ s[k] = c[k] + pa + Least(a, rem) /\ c[k] \in Int /\ pa \in Nat
        BY <2>3, <2>4, <2>5, <2>7, ZenonT(40)
      <4>2. Least(a + 1, rem) = Least(a, rem) + IF a < rem THEN 1 ELSE 0
        BY <1>8, <2>2, SMTT(30)
      <4>3. Least(a, rem) \in Nat /\ Least(a + 1, rem) \in Nat
        BY <1>8, <2>2, SMTT(30)
      <4> HIDE DEF Least, pa
      <4>4. s[i] = c[i] + pa + per + Least(a + 1, rem)
        BY <1>8, <4>1, <4>2, <4>3, SMTT(30)
      <4> QED
        BY <4>4, Zenon DEF pa
    <3>3. s[i] = c[i] + per * (a + 1) + Least(a + 1, rem)
      <4>1. c[i] \in Int
        BY <1>3, <2>1, Zenon
      <4> HIDE DEF Least
      <4> QED
        BY <1>8, <2>5, <3>2, <4>1, SMTT(30)
    <3> HIDE DEF Least
    <3> QED
      BY <2>1, <2>2, <3>1, <3>3 DEF i
  <2> QED
    BY <2>6, <2>7, Zenon
<1>13. N \in S
  <2>1. \A k \in 0..(N - 1) : k \in S => k + 1 \in S
    BY <1>12, Zenon
  <2> HIDE DEF S
  <2>2. 0..N \subseteq S
    BY <1>1, <1>11, <2>1, BoundedInduction, Zenon
  <2> QED
    BY <1>1, <2>2, SMTT(30)
<1>14. s[N] = c[N] + per * auto + rem
  BY <1>5, <1>8, <1>13, SMTT(30)
<1>15. s[N] = asked
  <2>1. c[N] \in Int
    BY <1>1, <1>3
  <2>2. per * auto \in Nat
    BY <1>5, <1>8, SMTT(30)
  <2> QED
    BY <1>4, <1>8, <1>14, <2>1, <2>2, SMTT(30)
<1> QED
  BY <1>9, <1>15, Zenon DEF shares, s, N

\* The share of each host: what its configuration says, or nearly the same as
\* every other host without one.
LEMMA SharesEach ==
    ASSUME NEW asked \in Nat, NEW given, DOMAIN given \subseteq Hosts,
           \A h \in DOMAIN given : given[h] \in Nat,
           NEW order \in Orders, Remaining(asked, given, order) >= 0
    PROVE  /\ \A i \in 1..NumHosts :
                /\ Share(asked, given, order, i) \in Nat
                /\ order[i] \in DOMAIN given =>
                     Share(asked, given, order, i) = given[order[i]]
           /\ \A i, j \in 1..NumHosts :
                order[i] \notin DOMAIN given /\ order[j] \notin DOMAIN given =>
                  Share(asked, given, order, i) <= Share(asked, given, order, j) + 1
<1> DEFINE N == NumHosts
           rest == Remaining(asked, given, order)
           auto == AutoConfig(given)
           per == rest \div auto
           rem == rest % auto
           A(i) == AutoBefore(given, order, i)
<1>1. order \in [1..N -> Hosts]
  BY SMTT(30) DEF Orders, Bijection, Injection
<1>2. \A i \in 1..N : Share(asked, given, order, i) =
        IF order[i] \in DOMAIN given THEN given[order[i]]
        ELSE per + IF A(i) < rem THEN 1 ELSE 0
  BY Zenon DEF Share
<1>3. rest \in Nat
  <2> DEFINE conf == Configured(given, order)
  <2>1. N \in Nat
    BY HostsFinite, Zenon
  <2>2. conf \in [1..N -> Int]
    BY <1>1, SMTT(30) DEF Configured
  <2> HIDE DEF conf, N
  <2>3. Totals(conf) \in [0..N -> Int] /\ N \in 0..N
    BY <2>1, <2>2, TotalsLoop DEF N
  <2>4. Totals(conf)[N] \in Int
    BY <2>3, Zenon
  <2>5. rest = asked - Totals(conf)[N] /\ rest >= 0
    BY Zenon DEF Remaining, conf, N
  <2> HIDE DEF rest
  <2> QED
    BY <2>4, <2>5
<1>4. DOMAIN given # Hosts => auto \in Nat \ {0}
  BY AutoCount, Zenon
<1> HIDE DEF rest, auto, A, N
<1>5. DOMAIN given # Hosts => per \in Nat
  BY <1>3, <1>4
<1> HIDE DEF per, rem
<1>6. ASSUME NEW i \in 1..N, order[i] \notin DOMAIN given
      PROVE  /\ per \in Nat
             /\ Share(asked, given, order, i) \in {per, per + 1}
  <2>1. DOMAIN given # Hosts
    BY <1>1, <1>6, Zenon
  <2> QED
    BY <1>2, <1>5, <1>6, <2>1
<1>7. \A i \in 1..N : /\ Share(asked, given, order, i) \in Nat
                      /\ order[i] \in DOMAIN given =>
                           Share(asked, given, order, i) = given[order[i]]
  <2>1. ASSUME NEW i \in 1..N, order[i] \notin DOMAIN given
        PROVE  Share(asked, given, order, i) \in Nat
    BY <1>6, <2>1
  <2> QED
    BY <1>2, <2>1, Zenon
<1>8. ASSUME NEW i \in 1..N, NEW j \in 1..N,
             order[i] \notin DOMAIN given, order[j] \notin DOMAIN given
      PROVE  Share(asked, given, order, i) <= Share(asked, given, order, j) + 1
  <2> DEFINE x == Share(asked, given, order, i)
             y == Share(asked, given, order, j)
  <2>1. per \in Nat /\ x \in {per, per + 1} /\ y \in {per, per + 1}
    BY <1>6, <1>8, Zenon
  <2> HIDE DEF x, y
  <2>2. x <= y + 1
    BY <2>1
  <2> QED
    BY <2>2, Zenon DEF x, y
<1> QED
  BY <1>7, <1>8, Zenon DEF N

\* When every host has a configuration, not more is given than asked for.
LEMMA SharesAll ==
    ASSUME NEW asked \in Nat, NEW given, DOMAIN given = Hosts,
           \A h \in DOMAIN given : given[h] \in Nat,
           NEW order \in Orders, Remaining(asked, given, order) >= 0
    PROVE  LET shares == [i \in 1..NumHosts |-> Share(asked, given, order, i)]
           IN  Totals(shares)[NumHosts] \in 0..asked
<1> DEFINE N == NumHosts
           conf == Configured(given, order)
           shares == [i \in 1..N |-> Share(asked, given, order, i)]
<1>1. N \in Nat /\ order \in [1..N -> Hosts]
  BY HostsFinite, SMTT(30) DEF Orders, Bijection, Injection
<1>2. conf = [i \in 1..N |-> given[order[i]]]
  BY <1>1, Zenon DEF Configured
<1>3. shares = [i \in 1..N |-> given[order[i]]]
  BY <1>1, Zenon DEF Share
<1>4. conf \in [1..N -> Nat]
  BY <1>1, <1>2, Zenon
<1>5. shares = conf
  BY <1>2, <1>3, Zenon
<1> HIDE DEF conf, shares, N
<1>6. Totals(conf) \in [0..N -> Nat]
  BY <1>4, TotalsGrow, Zenon DEF N
<1>7. Totals(conf)[N] \in Nat
  <2>1. N \in 0..N
    BY <1>1
  <2> QED
    BY <1>6, <2>1, Zenon
<1>8. asked - Totals(conf)[N] >= 0
  BY Zenon DEF Remaining, conf, N
<1>9. Totals(conf)[N] \in 0..asked
  BY <1>7, <1>8
<1> QED
  BY <1>5, <1>9, Zenon DEF shares, N

\* What Spread gives the hosts is dealt out as it should be.
LEMMA SpreadSound ==
    ASSUME NEW asked \in Nat, NEW given, DOMAIN given \subseteq Hosts,
           \A h \in DOMAIN given : given[h] \in Nat,
           NEW order \in Orders, Remaining(asked, given, order) >= 0
    PROVE  Dealt(Spread(asked, given, order), asked, given)
<1> DEFINE N == NumHosts
           shares == [i \in 1..N |-> Share(asked, given, order, i)]
           place(h) == CHOOSE i \in 1..N : order[i] = h
           ids == Spread(asked, given, order)
           total == Totals(shares)[N]
<1>1. /\ order \in [1..N -> Hosts]
      /\ \A i, j \in 1..N : order[i] = order[j] => i = j
      /\ \A h \in Hosts : \E i \in 1..N : order[i] = h
  BY DEF Orders, Bijection, Injection, Surjection, IsInjective
<1>2. /\ shares \in [1..N -> Nat]
      /\ \A i \in 1..N : order[i] \in DOMAIN given => shares[i] = given[order[i]]
      /\ \A i, j \in 1..N : order[i] \notin DOMAIN given /\ order[j] \notin DOMAIN given =>
           shares[i] <= shares[j] + 1
  BY SharesEach, Zenon
<1>3. total \in 0..asked /\ (DOMAIN given # Hosts => total = asked)
  <2>1. CASE DOMAIN given = Hosts
    BY <2>1, SharesAll, Zenon
  <2>2. CASE DOMAIN given # Hosts
    <3>1. total = asked
      BY <2>2, SharesSum, Zenon
    <3> HIDE DEF total
    <3> QED
      BY <2>2, <3>1
  <2> QED
    BY <2>1, <2>2, Zenon
<1>4. \A h \in Hosts : ids[h] = Block(shares, place(h))
  BY Zenon DEF Spread
<1> HIDE DEF shares, ids
<1>5. /\ \A i, j \in 1..N : i # j => Block(shares, i) \cap Block(shares, j) = {}
      /\ \A id : id \in 1..total <=> \E i \in 1..N : id \in Block(shares, i)
  BY <1>2, BlocksApart, Zenon
<1>6. \A i \in 1..N : Cardinality(Block(shares, i)) = shares[i]
  BY <1>2, BlockSize, Zenon
<1>7. \A h \in Hosts : place(h) \in 1..N /\ order[place(h)] = h
  BY <1>1, Zenon
<1> HIDE DEF N, place, total
<1>8. \A g, h \in Hosts : g # h => ids[g] \cap ids[h] = {}
  BY <1>4, <1>5, <1>7, ZenonT(30)
<1>9. \A i \in 1..N : order[i] \in Hosts /\ place(order[i]) = i
  BY <1>1, <1>7, ZenonT(30)
<1>10. \A id : id \in UNION {ids[h] : h \in Hosts} <=> \E h \in Hosts : id \in ids[h]
  BY Zenon
<1>11. \A id : (\E h \in Hosts : id \in ids[h]) <=> \E i \in 1..N : id \in Block(shares, i)
  BY <1>4, <1>7, <1>9, SMTT(30)
<1>12. UNION {ids[h] : h \in Hosts} = 1..total
  <2> DEFINE U == UNION {ids[h] : h \in Hosts}
             V == 1..total
  <2>1. \A id : id \in U <=> id \in V
    BY <1>5, <1>10, <1>11, Zenon
  <2> HIDE DEF U, V
  <2>2. U = V
    BY <2>1, Zenon
  <2> QED
    BY <2>2, Zenon DEF U, V
<1>13. \A h \in Hosts : Cardinality(ids[h]) = shares[place(h)]
  BY <1>4, <1>6, <1>7, Zenon
<1>14. \A h \in DOMAIN given : Cardinality(ids[h]) = given[h]
  BY <1>2, <1>7, <1>13, Zenon
<1>15. \A g, h \in Hosts \ DOMAIN given : Cardinality(ids[g]) <= Cardinality(ids[h]) + 1
  <2>1. SUFFICES ASSUME NEW g \in Hosts, NEW h \in Hosts,
                        g \notin DOMAIN given, h \notin DOMAIN given
                 PROVE  Cardinality(ids[g]) <= Cardinality(ids[h]) + 1
    BY Zenon
  <2>2. shares[place(g)] <= shares[place(h)] + 1
    BY <1>2, <1>7, <2>1, Zenon
  <2> QED
    BY <1>13, <2>2, Zenon
<1> QED
  BY <1>3, <1>8, <1>12, <1>14, <1>15, Zenon DEF Dealt, ids

\* The first n IDs are IDs.
LEMMA IDsBelow ==
    ASSUME NEW n \in 0..NumReplicas
    PROVE  1..n \subseteq ReplicaIDs
<1>1. NumReplicas \in Nat
  BY AssignmentAssumption, Zenon
<1>2. \A id \in 1..n : id \in 1..NumReplicas
  BY <1>1
<1> QED
  BY <1>2, Zenon DEF ReplicaIDs

\* Not more numbers from 1 on than the greatest of them.
LEMMA CountBelow ==
    ASSUME NEW B \in Nat, NEW S, \A id \in S : id \in ReplicaIDs /\ B >= id
    PROVE  Cardinality(S) <= B
<1>1. S \subseteq 1..B
  BY DEF ReplicaIDs
<1>2. IsFiniteSet(1..B) /\ Cardinality(1..B) = B
  BY FS_Interval
<1> QED
  BY <1>1, <1>2, FS_Subset, ZenonT(40)

\* No strategy is given to more replicas than it was asked for, and the most
\* frequent one says how many replicas are byzantine.
LEMMA StrategiesSound ==
    ASSUME NEW n \in 0..NumReplicas, NEW f \in Strategies(1..n), NEW s \in DOMAIN Byzantine
    PROVE  /\ Cardinality({id \in 1..n : f[id] = s}) <= Byzantine[s]
           /\ (\A t \in DOMAIN Byzantine : Byzantine[t] <= Byzantine[s]) =>
                \/ Cardinality({id \in 1..n : f[id] # ""}) = Byzantine[s]
                \/ {id \in 1..n : f[id] # ""} = 1..n
<1>1. /\ NumReplicas \in Nat /\ s # "" /\ \A t \in DOMAIN Byzantine : t # "" /\ Byzantine[t] \in Nat
  BY AssignmentAssumption, Zenon
<1>2. \A id \in 1..n : IF StrategiesOf(id) = {} THEN f[id] = "" ELSE f[id] \in StrategiesOf(id)
  BY Zenon DEF Strategies
<1>3. Cardinality({id \in 1..n : f[id] = s}) <= Byzantine[s]
  <2> DEFINE S == {id \in 1..n : f[id] = s}
  <2>1. \A id \in S : Byzantine[s] >= id
    BY <1>1, <1>2, Zenon DEF StrategiesOf
  <2>2. S \subseteq 1..n /\ 1..n \subseteq ReplicaIDs
    BY IDsBelow, Zenon
  <2> HIDE DEF S
  <2>3. Cardinality(S) <= Byzantine[s]
    BY <1>1, <2>1, <2>2, CountBelow, Zenon
  <2> QED
    BY <2>3, Zenon DEF S
<1>4. ASSUME \A t \in DOMAIN Byzantine : Byzantine[t] <= Byzantine[s]
      PROVE  \/ Cardinality({id \in 1..n : f[id] # ""}) = Byzantine[s]
             \/ {id \in 1..n : f[id] # ""} = 1..n
  <2> DEFINE S == {id \in 1..n : f[id] # ""}
             B == Byzantine[s]
  <2>1. B \in Nat
    BY <1>1, Zenon
  <2>2. \A id \in 1..n : f[id] # "" <=> StrategiesOf(id) # {}
    BY <1>1, <1>2, Zenon DEF StrategiesOf
  <2>3. \A id \in 1..n : StrategiesOf(id) # {} <=> B >= id
    <3>1. SUFFICES ASSUME NEW id \in 1..n PROVE StrategiesOf(id) # {} <=> B >= id
      BY Zenon
    <3>2. B >= id => s \in StrategiesOf(id)
      BY Zenon DEF StrategiesOf
    <3>3. ASSUME NEW t \in StrategiesOf(id) PROVE B >= id
      <4>1. t \in DOMAIN Byzantine /\ Byzantine[t] >= id
        BY <3>3, Zenon DEF StrategiesOf
      <4>2. Byzantine[t] \in Nat /\ Byzantine[t] <= B
        BY <1>1, <1>4, <4>1, Zenon
      <4> HIDE DEF B
      <4> QED
        BY <2>1, <4>1, <4>2
    <3> QED
      BY <3>2, <3>3, Zenon
  <2>4. S = {id \in 1..n : B >= id}
    BY <2>2, <2>3, Zenon
  <2> HIDE DEF B, S
  <2>5. CASE B >= n
    <3>1. S = 1..n
      BY <2>1, <2>4, <2>5
    <3> QED
      BY <3>1, Zenon DEF S
  <2>6. CASE ~ (B >= n)
    <3>1. S = 1..B
      <4>1. NumReplicas \in Nat
        BY <1>1, Zenon
      <4>2. n \in Nat /\ B < n
        BY <2>1, <2>6, <4>1
      <4>3. \A id : id \in 1..n /\ B >= id <=> id \in 1..B
        BY <2>1, <4>2
      <4> QED
        BY <2>4, <4>3, Zenon
    <3>2. Cardinality(1..B) = B
      BY <2>1, FS_Interval
    <3> QED
      BY <3>1, <3>2, Zenon DEF S, B
  <2> QED
    BY <2>5, <2>6, Zenon
<1> QED
  BY <1>3, <1>4, Zenon

\* The plan of an experiment is sound from the beginning.
LEMMA AssignmentInit == Init => AssignmentSound
<1> SUFFICES ASSUME Init, plan # NoPlan PROVE AssignmentSound
  BY Zenon DEF AssignmentSound
<1>1. PICK c \in Configs, order \in Orders : Valid(c, order) /\ plan \in Plans(c, order)
  BY Zenon DEF Init
<1>2. /\ plan.given = c
      /\ plan.replicas = Spread(NumReplicas, ReplicasGiven(c), order)
      /\ plan.clients = Spread(NumClients, ClientsGiven(c), order)
      /\ plan.strategy \in Strategies(Assigned)
  <2> DEFINE reps == HostsToReplicas(c, order)
  <2>1. PICK strategy \in Strategies(UNION {reps[h] : h \in Hosts}) :
            plan = [given    |-> c,
                    replicas |-> reps,
                    clients  |-> HostsToClients(c, order),
                    strategy |-> strategy]
    BY <1>1, Zenon DEF Plans
  <2>2. /\ plan.given = c /\ plan.replicas = reps
        /\ plan.clients = HostsToClients(c, order) /\ plan.strategy = strategy
    BY <2>1, Zenon
  <2>3. Assigned = UNION {reps[h] : h \in Hosts}
    BY <2>2, Zenon DEF Assigned
  <2> QED
    BY <2>2, <2>3, Zenon DEF HostsToReplicas, HostsToClients
<1>3. /\ DOMAIN ReplicasGiven(c) = DOMAIN c /\ DOMAIN ClientsGiven(c) = DOMAIN c
      /\ \A h \in DOMAIN c : ReplicasGiven(c)[h] = c[h].replicas /\ ClientsGiven(c)[h] = c[h].clients
  BY Zenon DEF ReplicasGiven, ClientsGiven
<1>4. /\ DOMAIN c \subseteq Hosts
      /\ \A h \in DOMAIN c : c[h].replicas \in Nat /\ c[h].clients \in Nat
  BY <1>1, OrchestrationAssumption, Zenon
<1>5. NumReplicas \in Nat /\ NumClients \in Nat
  BY AssignmentAssumption, Zenon
<1>6. /\ Remaining(NumReplicas, ReplicasGiven(c), order) >= 0
      /\ Remaining(NumClients, ClientsGiven(c), order) >= 0
  BY <1>1, Zenon DEF Valid
<1>7. /\ DOMAIN ReplicasGiven(c) \subseteq Hosts /\ DOMAIN ClientsGiven(c) \subseteq Hosts
      /\ \A h \in DOMAIN ReplicasGiven(c) : ReplicasGiven(c)[h] \in Nat
      /\ \A h \in DOMAIN ClientsGiven(c) : ClientsGiven(c)[h] \in Nat
  BY <1>3, <1>4, Zenon
<1>8. Dealt(plan.replicas, NumReplicas, ReplicasGiven(plan.given))
  BY <1>2, <1>5, <1>6, <1>7, SpreadSound, Zenon
<1>9. Dealt(plan.clients, NumClients, ClientsGiven(plan.given))
  BY <1>2, <1>5, <1>6, <1>7, SpreadSound, Zenon
<1>10. PICK n \in 0..NumReplicas : Assigned = 1..n
  BY <1>8, Zenon DEF Dealt, Assigned
<1>11. \A s \in DOMAIN Byzantine :
         /\ Cardinality({id \in Assigned : plan.strategy[id] = s}) <= Byzantine[s]
         /\ (\A t \in DOMAIN Byzantine : Byzantine[t] <= Byzantine[s]) =>
              \/ Cardinality({id \in Assigned : plan.strategy[id] # ""}) = Byzantine[s]
              \/ {id \in Assigned : plan.strategy[id] # ""} = Assigned
  BY <1>2, <1>10, StrategiesSound, Zenon
<1> QED
  BY <1>8, <1>9, <1>11, Zenon DEF AssignmentSound

-----------------------------------------------------------------------------
(***************************************************************************)
(* The theorems.                                                           *)
(***************************************************************************)

\* The invariant holds at the start.
LEMMA OrchestrationInit ==
    ASSUME Init
    PROVE  OrchestrationInv
<1>1. phase \in {"create", "quit"} /\ failed \in BOOLEAN
  BY Zenon DEF Init
<1>2. /\ todo = Hosts /\ called = {} /\ cfg = {} /\ hashes = NoHashes
      /\ request = [h \in Hosts |-> None]
      /\ response = [h \in Hosts |-> None]
      /\ worker = [h \in Hosts |-> "running"]
      /\ replica = [id \in ReplicaIDs |-> "none"]
      /\ client = [id \in ClientIDs |-> "none"]
      /\ config = [id \in ReplicaIDs |-> {}]
      /\ executed = [id \in ReplicaIDs |-> 0]
      /\ taken = [h \in Hosts |-> NoHashes]
  BY Zenon DEF Init
<1>3. Types
  BY <1>1, <1>2, Zenon DEF Types, PhaseNames, ReplicaStates, ClientStates
<1>4. Within
  <2>1. CASE plan = NoPlan
    BY <2>1, Zenon DEF Within, NoPlan
  <2>2. CASE plan # NoPlan
    <3>1. PICK n \in 0..NumReplicas : UNION {plan.replicas[h] : h \in Hosts} = 1..n
      BY <2>2, AssignmentInit, Zenon DEF AssignmentSound, Dealt
    <3>2. 1..n \subseteq ReplicaIDs
      BY IDsBelow, Zenon
    <3> QED
      BY <3>1, <3>2, Zenon DEF Within
  <2> QED
    BY <2>1, <2>2, Zenon
<1>5. Calls
  BY <1>1, <1>2, Zenon DEF Calls
<1>6. Answers
  BY <1>2, Zenon DEF Answers
<1>7. Created /\ Started
  BY <1>1, <1>2, Zenon DEF Created, Started, Settled
<1>8. ClientsStopped /\ Hashed /\ Took
  <2>1. DOMAIN NoHashes = {}
    BY Zenon DEF NoHashes
  <2> QED
    BY <1>1, <1>2, <2>1, Zenon DEF ClientsStopped, Hashed, Took, Final
<1>9. ConfigComplete /\ ClientsInside
  BY <1>2, Zenon DEF ConfigComplete, ClientsInside
<1> QED
  BY <1>3, <1>4, <1>5, <1>6, <1>7, <1>8, <1>9, Zenon DEF OrchestrationInv

\* Every step keeps the invariant.
LEMMA OrchestrationStep ==
    ASSUME OrchestrationInv, [Next]_vars
    PROVE  OrchestrationInv'
<1>1. CASE UNCHANGED vars
  <2>1. UNCHANGED <<controller, streams, worker, nodes>>
    BY <1>1, Zenon DEF vars
  <2>2. UNCHANGED <<phase, failed, todo, called, request, response, worker, replica, client,
                    config, executed, taken>>
    BY <2>1, Zenon DEF controller, streams, nodes
  <2>3. Steady
    BY <2>1, <2>2, Zenon DEF Steady
  <2>4. Types'
    BY <2>2, Zenon DEF OrchestrationInv, Types
  <2> QED
    BY <2>1, <2>2, <2>3, <2>4, StreamsKept, Zenon
<1>2. ASSUME NEW h \in Hosts, ControllerStep(h)
      PROVE  OrchestrationInv'
  BY <1>2, CallStep, AnsweredStep, DisconnectedStep, QuitStep, Zenon DEF ControllerStep
<1>3. ASSUME NEW h \in Hosts, WorkerStep(h)
      PROVE  OrchestrationInv'
  BY <1>3, CreateStep, StartReplicasStep, StartClientsStep, StopClientsStep,
     ReplicaStep, TakeHashStep, StopReplicasStep, EndStep, Zenon DEF WorkerStep
<1>4. ASSUME NEW h \in Hosts, Crash(h)
      PROVE  OrchestrationInv'
  BY <1>4, EndStep, Zenon
<1> QED
  BY <1>1, <1>2, <1>3, <1>4, SleepStep, ExecuteStep, ReplicaStep, ClientEndsStep, Zenon
     DEF Next

\* No step changes the plan.
LEMMA PlanKept ==
    ASSUME [Next]_vars
    PROVE  plan' = plan
<1>1. ASSUME NEW h \in Hosts, ControllerStep(h)
      PROVE  plan' = plan
  BY <1>1, Zenon DEF ControllerStep, Call, Answered, Disconnected, Quit
<1>2. ASSUME NEW h \in Hosts, WorkerStep(h) \/ Crash(h)
      PROVE  UNCHANGED controller
  BY <1>2, Zenon DEF WorkerStep, CreateReplicas, StartReplicas, StartClients, StopClients,
     CancelReplica, TakeHash, StopReplicas, WorkerQuits, Crash, Connected, Through, Respond,
     End
<1>3. ASSUME \/ \E id \in ReplicaIDs : LeaveFirstView(id) \/ Execute(id) \/ ReplicaEnds(id)
             \/ \E c \in ClientIDs : ClientEnds(c)
      PROVE  UNCHANGED controller
  BY <1>3, Zenon DEF LeaveFirstView, Execute, ReplicaEnds, ClientEnds
<1>4. CASE Sleep
  BY <1>4, Zenon DEF Sleep
<1>5. CASE UNCHANGED vars
  BY <1>5, Zenon DEF vars, controller
<1> QED
  BY <1>1, <1>2, <1>3, <1>4, <1>5, Zenon DEF Next, controller

\* The assignment is sound, however many hosts there are, in whatever order the
\* loop of assignReplicasAndClients visits them and whatever is configured for
\* some or all of them: the IDs of the hosts are apart and without a gap, each
\* host has what its configuration says or an equal share of the rest, nothing
\* is left over unless every host is configured, and the strategies are given
\* as often as the loop over them allows.
THEOREM AssignmentIsSound == Spec => []AssignmentSound
<1>1. Init => AssignmentSound
  BY AssignmentInit, Zenon
<1>2. AssignmentSound /\ [Next]_vars => AssignmentSound'
  BY PlanKept, Zenon DEF AssignmentSound, Assigned
<1> QED
  BY <1>1, <1>2, PTL DEF Spec

\* Every replica that Worker.startReplicas starts has
\* the configuration of all replicas, which exist by then, however many hosts
\* there are and whatever fails: Run has the answers of all workers to
\* createReplicas before it calls startReplicas.
THEOREM ConfigIsComplete == Spec => []ConfigComplete
<1>1. Init => OrchestrationInv
  BY OrchestrationInit, Zenon
<1>2. OrchestrationInv /\ [Next]_vars => OrchestrationInv'
  BY OrchestrationStep, Zenon
<1>3. OrchestrationInv => ConfigComplete
  BY Zenon DEF OrchestrationInv
<1> QED
  BY <1>1, <1>2, <1>3, PTL DEF Spec

\* While there is a client that was not cancelled, all replicas run or are
\* gone with their worker: Experiment.Run starts the clients last, has them all
\* cancelled before it stops the first replica, and gives up only by ending the
\* workers.
THEOREM ClientsAreInside == Spec => []ClientsInside
<1>1. Init => OrchestrationInv
  BY OrchestrationInit, Zenon
<1>2. OrchestrationInv /\ [Next]_vars => OrchestrationInv'
  BY OrchestrationStep, Zenon
<1>3. OrchestrationInv => ClientsInside
  BY Zenon DEF OrchestrationInv
<1> QED
  BY <1>1, <1>2, <1>3, PTL DEF Spec

\* The hashes that Experiment.stopReplicas compares
\* are those of replicas that do not execute any more.
THEOREM HashesAreFinal == Spec => []HashesFinal
<1>1. Init => OrchestrationInv
  BY OrchestrationInit, Zenon
<1>2. OrchestrationInv /\ [Next]_vars => OrchestrationInv'
  BY OrchestrationStep, Zenon
<1>3. OrchestrationInv => HashesFinal
  BY Zenon DEF OrchestrationInv, Hashed, Final, HashesFinal
<1> QED
  BY <1>1, <1>2, <1>3, PTL DEF Spec
=============================================================================
