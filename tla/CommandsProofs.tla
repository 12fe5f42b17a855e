--------------------------- MODULE CommandsProofs ---------------------------
(***************************************************************************)
(* Proofs about the way of a command, for any number of replicas, clients  *)
(* and commands, any batch size and any number of lost blocks: the         *)
(* inductive invariant CommandsInv, the lemmas about the operators of      *)
(* Commands, the steps of the clients, of the client servers and of the    *)
(* replicas, and the theorems.                                             *)
(***************************************************************************)
EXTENDS Commands, TLAPS

\* The numbers of the commands of one client go up from x to y.
Before(x, y) == x[1] = y[1] => x[2] < y[2]

Ordered(s) == \A i, j \in DOMAIN s : i < j => Before(s[i], s[j])

Follows(s, t) == \A i \in DOMAIN s, j \in DOMAIN t : Before(s[i], t[j])

\* The client: what is sent and not answered, from h to n - 1, is in the hands of
\* handleCommands, which awaits a, in the channel, or in the hands of sendCommands,
\* which stands at at; in order.
Waiting(a) == IF a = 0 THEN 0 ELSE 1
Pushing(at) == IF at = "pushing" THEN 1 ELSE 0

InFlight(n, h, a, at, pending) ==
    /\ n = h + Waiting(a) + Len(pending) + Pushing(at)
    /\ a # 0 => a = h
    /\ \A i \in DOMAIN pending : pending[i] = h + Waiting(a) + i - 1

\* All before h is answered, and sendCommands only ended when all was.
Input(last, h, answered, at) ==
    /\ 1..(h - 1) \subseteq answered
    /\ at = "done" => last # 0 /\ last <= h

ClientInv ==
    \A c \in Client :
        /\ InFlight(num[c], highestCommitted[c], awaited[c], sender[c], pendingCmds[c])
        /\ lastCommand[c] # 0 => lastCommand[c] > NumData
        /\ ~cancelled[c] =>
             Input(lastCommand[c], highestCommitted[c], acked[c] \cup failed[c], sender[c])

\* A command is among those that were written to a hash.
Contains(s, cmd) == \E i \in 1..Len(s) : s[i] = cmd

\* The replies: who replied has executed, and enough did.
Replies ==
    /\ \A cmd \in Command : \A r \in replied[cmd] : Contains(hash[r], cmd)
    /\ \A c \in Client : \A n \in acked[c] : ExecCommandQF(replied[<<c, n>>])

\* The command cache holds the commands of a client in order.
Cached ==
    \A r \in Replica :
        /\ Ordered(cache[r])
        /\ \A i \in DOMAIN cache[r] :
             LET cmd == cache[r][i] IN
             /\ cmd[2] <= delivered[r][cmd[1]]
             /\ adding[r][cmd[1]] # 0 => cmd[2] < adding[r][cmd[1]]
        /\ \A c \in Client : adding[r][c] \in {0, delivered[r][c]}

\* A replica with these serial numbers counts the commands of a batch as proposed.
Knows(serials, batch) == \A i \in DOMAIN batch : serials[batch[i][1]] >= batch[i][2]

IsQuorum(Q) == Cardinality(Q) >= Cardinality(Replica) - NumFaulty

Serials == [Replica -> [Client -> 0..MaxNumber]]

\* Certified blocks follow one another, since a quorum that knew the commands of
\* each one accepted the next.
ChainOK(blocks, serials) ==
    \A k \in DOMAIN blocks :
        /\ blocks[k].below = k - 1
        /\ IsQuorum(blocks[k].stored)
        /\ Ordered(blocks[k].batch)
        /\ \A l \in DOMAIN blocks : k < l => Follows(blocks[k].batch, blocks[l].batch)
        /\ k > 1 => \A r \in blocks[k].stored : Knows(serials[r], blocks[k - 1].batch)

\* Who accepted a proposal found it after the blocks it had accepted itself.
ProposalOK(p, blocks, serials) ==
    /\ p.below = Len(blocks)
    /\ Ordered(p.batch)
    /\ \A r \in p.stored, k \in DOMAIN blocks :
         /\ k = Len(blocks) => Knows(serials[r], blocks[k].batch)
         /\ k = Len(blocks) \/ r \in blocks[k + 1].stored => Follows(blocks[k].batch, p.batch)

ChainInv ==
    /\ IsFiniteSet(lost) /\ IsFiniteSet(proposal)
    /\ ChainOK(chain, serialNumbers)
    /\ \A p \in proposal : ProposalOK(p, chain, serialNumbers)

\* No committed block leaves the chain.
CommittedInv ==
    \A r \in Replica : committed[r] > 0 =>
        /\ committed[r] + CommitDepth <= Len(chain)
        /\ committed[r] + CommitDepth = Len(chain) =>
             proposal # {} \/ \E b \in lost : b.below = Len(chain)

\* The command is in one of the first n blocks.
Committed(blocks, n, cmd) ==
    \E k \in 1..n : \E i \in DOMAIN blocks[k].batch : cmd = blocks[k].batch[i]

Execs(calls) == {i \in DOMAIN calls : calls[i].op = "Exec"}

\* What was executed and what the calls will execute is in order, and from the
\* committed blocks.
InOrder(done, calls) ==
    /\ Ordered(done)
    /\ \A i \in Execs(calls) :
         /\ Ordered(calls[i].cmds)
         /\ Follows(done, calls[i].cmds)
         /\ \A k \in Execs(calls) : i < k => Follows(calls[i].cmds, calls[k].cmds)

FromChain(done, calls, blocks, n) ==
    /\ \A i \in DOMAIN done : Committed(blocks, n, done[i])
    /\ \A i \in Execs(calls) : \A j \in DOMAIN calls[i].cmds :
         Committed(blocks, n, calls[i].cmds[j])

ExecInv ==
    \A r \in Replica :
        /\ InOrder(hash[r], todo[r])
        /\ FromChain(hash[r], todo[r], chain, committed[r])

\* The leader that proposes has no proposal yet.
ProposingInv == proposing => proposal = {}

\* The inductive invariant.
CommandsInv ==
    /\ TypeOK /\ ClientInv /\ Replies /\ Cached
    /\ ChainInv /\ CommittedInv /\ ExecInv /\ ProposingInv

-----------------------------------------------------------------------------
(***************************************************************************)
(* What the steps that leave its variables alone keep.                     *)
(***************************************************************************)

\* The conjuncts of TypeOK about consensus.
ConsensusTypeOK ==
    /\ leader \in Replica
    /\ proposing \in BOOLEAN
    /\ chain \in Seq(Blocks)
    /\ proposal \subseteq Blocks /\ Cardinality(proposal) <= 1
    /\ heard \subseteq Replica
    /\ lost \subseteq Blocks
    /\ committed \in [Replica -> 0..Len(chain)]

\* The types of the composition are those of its parts.
LEMMA TypeParts ==
    TypeOK <=> CallsTypeOK /\ ClientTypeOK /\ CacheTypeOK /\ ServerTypeOK /\ ConsensusTypeOK
BY Zenon DEF TypeOK, ConsensusTypeOK

\* Calls that are left alone keep their types.
LEMMA SameCalls ==
    ASSUME CallsTypeOK, UNCHANGED <<num, replyVars>>
    PROVE  CallsTypeOK'
BY Zenon DEF CallsTypeOK, replyVars

\* Clients that are left alone keep their part of the invariant.
LEMMA SameClient ==
    ASSUME ClientTypeOK, ClientInv,
           UNCHANGED <<num, senderVars, handlerVars, pendingCmds, cancelled>>
    PROVE  ClientTypeOK' /\ ClientInv'
<1>1. UNCHANGED <<num, lastCommand, sender, awaited, handling, highestCommitted, acked, failed,
                  pendingCmds, cancelled>>
  BY Zenon DEF senderVars, handlerVars
<1>2. ClientTypeOK'
  BY <1>1, Zenon DEF ClientTypeOK
<1>3. ClientInv'
  BY <1>1, Zenon DEF ClientInv
<1> QED
  BY <1>2, <1>3, Zenon

\* Client servers that are left alone keep their types.
LEMMA SameServer ==
    ASSUME ServerTypeOK, UNCHANGED serverVars
    PROVE  ServerTypeOK'
BY Zenon DEF ServerTypeOK, serverVars

\* Command caches that are left alone keep their types.
LEMMA SameCache ==
    ASSUME CacheTypeOK, UNCHANGED cacheVars
    PROVE  CacheTypeOK'
BY Zenon DEF CacheTypeOK, cacheVars

\* Caches without new commands hold only delivered ones.
LEMMA SameCached ==
    ASSUME Cached, UNCHANGED <<cache, delivered, adding>>
    PROVE  Cached'
BY Zenon DEF Cached, Ordered, Before

\* Without new replies those there are stay justified.
LEMMA SameReplies ==
    ASSUME Replies, UNCHANGED <<replied, hash, acked>>
    PROVE  Replies'
BY Zenon DEF Replies, Contains, ExecCommandQF

\* A chain that is left alone keeps its part of the invariant.
LEMMA SameConsensus ==
    ASSUME ConsensusTypeOK, ChainInv, CommittedInv, ProposingInv,
           UNCHANGED <<serialNumbers, consensusVars>>
    PROVE  ConsensusTypeOK' /\ ChainInv' /\ CommittedInv' /\ ProposingInv'
<1>1. UNCHANGED <<serialNumbers, leader, proposing, chain, proposal, heard, lost, committed>>
  BY Zenon DEF consensusVars
<1>2. ConsensusTypeOK'
  BY <1>1, Zenon DEF ConsensusTypeOK
<1>3. ChainInv'
  BY <1>1, Zenon DEF ChainInv
<1>4. CommittedInv' /\ ProposingInv'
  BY <1>1, Zenon DEF CommittedInv, ProposingInv
<1> QED
  BY <1>2, <1>3, <1>4, Zenon

\* Without new calls the executed commands stay in order.
LEMMA SameExec ==
    ASSUME ExecInv, UNCHANGED <<hash, todo, committed, chain>>
    PROVE  ExecInv'
BY Zenon DEF ExecInv

-----------------------------------------------------------------------------
(***************************************************************************)
(* The steps of the clients.                                               *)
(***************************************************************************)

\* What is in flight when sendCommands takes a number, and when it pushes it.
LEMMA InFlightSent ==
    ASSUME NEW n \in Nat, NEW h \in Nat, NEW a \in Nat, NEW pending \in Seq(Numbers),
           InFlight(n, h, a, "loop", pending)
    PROVE  InFlight(n + 1, h, a, "pushing", pending)
<1>1. Pushing("loop") = 0 /\ Pushing("pushing") = 1
  BY Zenon DEF Pushing
<1>2. Waiting(a) \in Nat /\ Len(pending) \in Nat
  BY DEF Waiting
<1> QED
  BY <1>1, <1>2 DEF InFlight

\* A number that sendCommands pushes stays in flight.
LEMMA InFlightPushed ==
    ASSUME NEW n \in Nat, NEW h \in Nat, NEW a \in Nat, NEW pending \in Seq(Numbers),
           InFlight(n, h, a, "pushing", pending), n - 1 \in Numbers
    PROVE  /\ Append(pending, n - 1) \in Seq(Numbers)
           /\ Len(Append(pending, n - 1)) = Len(pending) + 1
           /\ InFlight(n, h, a, "loop", Append(pending, n - 1))
<1> DEFINE more == Append(pending, n - 1)
           w == Waiting(a)
           l == Len(pending)
<1>1. Pushing("loop") = 0 /\ Pushing("pushing") = 1
  BY Zenon DEF Pushing
<1>2. w \in Nat /\ l \in Nat
  BY DEF Waiting
<1>3. /\ n = h + w + l + 1
      /\ a # 0 => a = h
      /\ \A i \in 1..l : pending[i] = h + w + i - 1
  BY <1>1, <1>2 DEF InFlight
<1>4. /\ more \in Seq(Numbers) /\ Len(more) = l + 1 /\ DOMAIN more = 1..(l + 1)
      /\ more[l + 1] = n - 1 /\ \A i \in 1..l : more[i] = pending[i]
  OBVIOUS
<1> HIDE DEF more, w, l
<1>5. ASSUME NEW i \in 1..(l + 1) PROVE more[i] = h + w + i - 1
  <2>1. CASE i \in 1..l
    BY <1>3, <1>4, <2>1, Zenon
  <2>2. CASE i = l + 1
    <3>1. more[i] = n - 1
      BY <1>4, <2>2, Zenon
    <3>2. n - 1 = h + w + i - 1
      BY <1>2, <1>3, <2>2
    <3> QED
      BY <3>1, <3>2, Zenon
  <2> QED
    BY <1>2, <2>1, <2>2
<1>6. InFlight(n, h, a, "loop", more)
  <2>1. n = h + w + Len(more) + 0
    BY <1>2, <1>3, <1>4
  <2> QED
    BY <1>1, <1>3, <1>4, <1>5, <2>1, Zenon DEF InFlight, w
<1> QED
  BY <1>4, <1>6, Zenon DEF more, l

\* What is in flight when handleCommands takes a command, and when it has the answer.
LEMMA InFlightTaken ==
    ASSUME NEW n \in Nat, NEW h \in Nat \ {0}, NEW at, NEW pending \in Seq(Numbers),
           pending # <<>>, InFlight(n, h, 0, at, pending)
    PROVE  /\ Head(pending) \in Numbers /\ Tail(pending) \in Seq(Numbers)
           /\ Len(Tail(pending)) <= Len(pending)
           /\ InFlight(n, h, Head(pending), at, Tail(pending))
<1> DEFINE rest == Tail(pending)
           head == Head(pending)
           l == Len(rest)
           p == Pushing(at)
<1>1. /\ head \in Numbers /\ rest \in Seq(Numbers) /\ l \in Nat
      /\ Len(pending) = l + 1 /\ DOMAIN rest = 1..l /\ DOMAIN pending = 1..(l + 1)
      /\ head = pending[1] /\ \A i \in 1..l : rest[i] = pending[i + 1]
  OBVIOUS
<1>2. Waiting(0) = 0 /\ p \in Nat
  BY Zenon DEF Waiting, Pushing
<1> HIDE DEF rest, head, l, p
<1>3. n = h + 0 + (l + 1) + p /\ \A i \in 1..(l + 1) : pending[i] = h + 0 + i - 1
  BY <1>1, <1>2, Zenon DEF InFlight, p
<1>4. 1 \in 1..(l + 1) /\ \A i \in 1..l : i + 1 \in 1..(l + 1)
  BY <1>1
<1>5. head = h /\ \A i \in 1..l : rest[i] = h + 1 + i - 1
  BY <1>1, <1>3, <1>4
<1>6. n = h + 1 + l + p
  BY <1>1, <1>2, <1>3
<1>7. Waiting(head) = 1
  BY <1>5, Zenon DEF Waiting
<1>8. InFlight(n, h, head, at, rest)
  BY <1>1, <1>5, <1>6, <1>7, Zenon DEF InFlight, p, l
<1> QED
  BY <1>1, <1>8 DEF rest, head, l

\* An answer takes the lowest number out of flight.
LEMMA InFlightAnswered ==
    ASSUME NEW n \in Nat, NEW h \in Nat, NEW a, NEW at, NEW pending \in Seq(Numbers),
           a # 0, InFlight(n, h, a, at, pending)
    PROVE  a = h /\ InFlight(n, h + 1, 0, at, pending)
<1>1. Waiting(a) = 1 /\ Waiting(0) = 0 /\ Pushing(at) \in Nat /\ Len(pending) \in Nat
  BY DEF Waiting, Pushing
<1>2. n = h + 1 + Len(pending) + Pushing(at) /\ a = h
  BY <1>1, Zenon DEF InFlight
<1>3. \A i \in DOMAIN pending : pending[i] = h + 1 + 0 + i - 1
  BY <1>1 DEF InFlight
<1>4. n = h + 1 + 0 + Len(pending) + Pushing(at)
  BY <1>1, <1>2
<1> QED
  BY <1>1, <1>2, <1>3, <1>4, Zenon DEF InFlight

\* The answer to h answers all before h + 1.
LEMMA InputMore ==
    ASSUME NEW last \in Nat, NEW h \in Nat, NEW S, NEW T, NEW at,
           Input(last, h, S, at), S \subseteq T, h \in T
    PROVE  Input(last, h + 1, T, at)
<1>1. 1..((h + 1) - 1) \subseteq (1..(h - 1)) \cup {h}
  OBVIOUS
<1>2. at = "done" => last # 0 /\ last <= h + 1
  BY DEF Input
<1> QED
  BY <1>1, <1>2, Zenon DEF Input

\* What a step of a client has to show.
ClientGoal == CallsTypeOK' /\ ClientTypeOK' /\ ClientInv' /\ Replies'

\* The numbers of the state of a client.
LEMMA ClientNumbers ==
    ASSUME CallsTypeOK, ClientTypeOK, NEW c \in Client
    PROVE  /\ MaxNumber \in Nat /\ MaxConcurrent \in Nat \ {0} /\ NumData \in Nat
           /\ num[c] \in Nat /\ num[c] >= 1 /\ num[c] <= MaxNumber + 1
           /\ highestCommitted[c] \in Nat \ {0} /\ highestCommitted[c] <= MaxNumber + 1
           /\ lastCommand[c] \in Nat /\ awaited[c] \in Nat /\ awaited[c] <= MaxNumber
           /\ pendingCmds[c] \in Seq(Numbers) /\ Len(pendingCmds[c]) \in Nat
           /\ Len(pendingCmds[c]) <= MaxConcurrent
           /\ DOMAIN pendingCmds[c] = 1..Len(pendingCmds[c])
<1>1. MaxNumber \in Nat /\ MaxConcurrent \in Nat \ {0} /\ NumData \in Nat
  BY CallsAssumption, ClientAssumption, Zenon
<1>2. /\ num[c] \in 1..(MaxNumber + 1) /\ highestCommitted[c] \in 1..(MaxNumber + 1)
      /\ lastCommand[c] \in 0..MaxNumber /\ awaited[c] \in 0..MaxNumber
      /\ pendingCmds[c] \in Seq(Numbers) /\ Len(pendingCmds[c]) <= MaxConcurrent
  BY Zenon DEF CallsTypeOK, ClientTypeOK
<1> QED
  BY <1>1, <1>2

\* sendCommands sends the next command.
LEMMA SendCommandStep ==
    ASSUME CommandsInv, NEW c \in Client, SendCommand(c), UNCHANGED hash
    PROVE  ClientGoal
<1>0. CallsTypeOK /\ ClientTypeOK /\ ClientInv /\ Replies
  BY TypeParts, Zenon DEF CommandsInv
<1>1. /\ UNCHANGED <<awaited, handling, highestCommitted, acked, failed, pendingCmds, cancelled,
                     replied, refused>>
      /\ sender[c] = "loop"
  BY Zenon DEF SendCommand, handlerVars, replyVars
<1>2. Replies'
  BY <1>0, <1>1, SameReplies, Zenon
<1>3. InFlight(num[c], highestCommitted[c], awaited[c], "loop", pendingCmds[c])
  BY <1>0, <1>1, Zenon DEF ClientInv
<1>4. CASE /\ cancelled[c] \/ ShouldStop(c)
           /\ sender' = [sender EXCEPT ![c] = "done"]
           /\ UNCHANGED <<num, lastCommand>>
  <2>1. CallsTypeOK' /\ ClientTypeOK'
    BY <1>0, <1>1, <1>4, Zenon DEF CallsTypeOK, ClientTypeOK
  <2>2. InFlight(num[c], highestCommitted[c], awaited[c], "done", pendingCmds[c])
    BY <1>3, Zenon DEF InFlight, Pushing
  <2>3. ~cancelled[c] =>
          Input(lastCommand[c], highestCommitted[c], acked[c] \cup failed[c], "done")
    BY <1>0, <1>4, Zenon DEF ClientInv, Input, ShouldStop
  <2>4. \A d \in Client : sender'[d] = IF d = c THEN "done" ELSE sender[d]
    BY <1>0, <1>4, Zenon DEF ClientTypeOK
  <2>5. ClientInv'
    BY <1>0, <1>1, <1>4, <2>2, <2>3, <2>4, Zenon DEF ClientInv
  <2> QED
    BY <1>2, <2>1, <2>5, Zenon DEF ClientGoal
<1>5. CASE /\ ~cancelled[c]
           /\ ~ShouldStop(c)
           /\ num[c] <= MaxNumber
           /\ lastCommand' = [lastCommand EXCEPT ![c] =
                                IF num[c] > NumData /\ @ = 0 THEN num[c] ELSE @]
           /\ num' = [num EXCEPT ![c] = @ + 1]
           /\ sender' = [sender EXCEPT ![c] = "pushing"]
  <2>1. num[c] + 1 \in 1..(MaxNumber + 1) /\ num[c] \in 0..MaxNumber
    BY <1>0, <1>5, ClientNumbers
  <2>2. CallsTypeOK' /\ ClientTypeOK'
    BY <1>0, <1>1, <1>5, <2>1, ZenonT(20) DEF CallsTypeOK, ClientTypeOK
  <2>3. InFlight(num[c] + 1, highestCommitted[c], awaited[c], "pushing", pendingCmds[c])
    BY <1>0, <1>3, ClientNumbers, InFlightSent, Zenon
  <2>4. /\ \A d \in Client : d # c => /\ num'[d] = num[d] /\ sender'[d] = sender[d]
                                      /\ lastCommand'[d] = lastCommand[d]
        /\ num'[c] = num[c] + 1 /\ sender'[c] = "pushing"
        /\ lastCommand'[c] = IF num[c] > NumData /\ lastCommand[c] = 0 THEN num[c]
                             ELSE lastCommand[c]
    BY <1>0, <1>5, Zenon DEF CallsTypeOK, ClientTypeOK
  <2>5. ~cancelled[c] =>
          \A last : Input(last, highestCommitted[c], acked[c] \cup failed[c], "pushing")
    BY <1>0, <1>1, Zenon DEF ClientInv, Input
  <2>6. ClientInv'
    BY <1>0, <1>1, <2>3, <2>4, <2>5, Zenon DEF ClientInv
  <2> QED
    BY <1>2, <2>2, <2>6, Zenon DEF ClientGoal
<1> QED
  BY <1>4, <1>5, Zenon DEF SendCommand

\* sendCommands pushes the promise into pendingCmds.
LEMMA PushPendingStep ==
    ASSUME CommandsInv, NEW c \in Client, PushPending(c), UNCHANGED hash
    PROVE  ClientGoal
<1>0. CallsTypeOK /\ ClientTypeOK /\ ClientInv /\ Replies
  BY TypeParts, Zenon DEF CommandsInv
<1> DEFINE more == Append(pendingCmds[c], num[c] - 1)
<1>1. /\ UNCHANGED <<num, lastCommand, awaited, handling, highestCommitted, acked, failed,
                     cancelled, replied, refused>>
      /\ sender[c] = "pushing" /\ Len(pendingCmds[c]) < MaxConcurrent
      /\ pendingCmds' = [pendingCmds EXCEPT ![c] = more]
      /\ sender' = [sender EXCEPT ![c] = "loop"]
  BY Zenon DEF PushPending, CanPush, handlerVars, replyVars
<1>2. Replies' /\ CallsTypeOK'
  BY <1>0, <1>1, SameReplies, SameCalls, Zenon DEF replyVars
<1>3. InFlight(num[c], highestCommitted[c], awaited[c], "pushing", pendingCmds[c])
  BY <1>0, <1>1, Zenon DEF ClientInv
<1>4. num[c] - 1 \in Numbers
  <2>1. num[c] = highestCommitted[c] + Waiting(awaited[c]) + Len(pendingCmds[c]) + 1
    BY <1>3, Zenon DEF InFlight, Pushing
  <2>2. Waiting(awaited[c]) \in Nat
    BY Zenon DEF Waiting
  <2> QED
    BY <1>0, <2>1, <2>2, ClientNumbers, SMTT(30) DEF Numbers
<1>5. /\ more \in Seq(Numbers) /\ Len(more) = Len(pendingCmds[c]) + 1
      /\ InFlight(num[c], highestCommitted[c], awaited[c], "loop", more)
  BY <1>0, <1>3, <1>4, ClientNumbers, InFlightPushed, ZenonT(20)
<1> HIDE DEF more
<1>6. \A d \in Client : /\ pendingCmds'[d] = (IF d = c THEN more ELSE pendingCmds[d])
                         /\ sender'[d] = (IF d = c THEN "loop" ELSE sender[d])
  BY <1>0, <1>1, Zenon DEF ClientTypeOK
<1>7. ClientTypeOK'
  <2>1. Len(more) <= MaxConcurrent
    BY <1>0, <1>1, <1>5, ClientNumbers
  <2>2. pendingCmds' \in [Client -> Seq(Numbers)] /\ sender' \in [Client -> {"loop", "pushing", "done"}]
    BY <1>0, <1>1, <1>5, Zenon DEF ClientTypeOK
  <2>3. \A d \in Client : Len(pendingCmds'[d]) <= MaxConcurrent
    BY <1>0, <1>6, <2>1, Zenon DEF ClientTypeOK
  <2> QED
    BY <1>0, <1>1, <2>2, <2>3, ZenonT(20) DEF ClientTypeOK
<1>8. ~cancelled[c] =>
        Input(lastCommand[c], highestCommitted[c], acked[c] \cup failed[c], "loop")
  BY <1>0, Zenon DEF ClientInv, Input
<1>9. ClientInv'
  BY <1>0, <1>1, <1>5, <1>6, <1>8, ZenonT(40) DEF ClientInv
<1> QED
  BY <1>2, <1>7, <1>9, Zenon DEF ClientGoal

\* handleCommands takes the next promise.
LEMMA TakePendingStep ==
    ASSUME CommandsInv, NEW c \in Client, TakePending(c), UNCHANGED hash
    PROVE  ClientGoal
<1>0. CallsTypeOK /\ ClientTypeOK /\ ClientInv /\ Replies
  BY TypeParts, Zenon DEF CommandsInv
<1>1. /\ UNCHANGED <<num, lastCommand, sender, highestCommitted, cancelled, acked, failed,
                     replied, refused>>
      /\ awaited[c] = 0
  BY Zenon DEF TakePending, senderVars, replyVars
<1>2. Replies' /\ CallsTypeOK'
  BY <1>0, <1>1, SameReplies, SameCalls, ZenonT(20) DEF replyVars
<1>3. CASE /\ handling' = [handling EXCEPT ![c] = FALSE]
           /\ UNCHANGED <<awaited, pendingCmds>>
  <2>1. ClientTypeOK'
    BY <1>0, <1>1, <1>3, ZenonT(20) DEF ClientTypeOK
  <2>2. ClientInv'
    BY <1>0, <1>1, <1>3, Zenon DEF ClientInv
  <2> QED
    BY <1>2, <2>1, <2>2, Zenon DEF ClientGoal
<1>4. CASE /\ pendingCmds[c] # <<>>
           /\ awaited' = [awaited EXCEPT ![c] = Head(pendingCmds[c])]
           /\ pendingCmds' = [pendingCmds EXCEPT ![c] = Tail(@)]
           /\ UNCHANGED handling
  <2> DEFINE rest == Tail(pendingCmds[c])
             head == Head(pendingCmds[c])
  <2>1. InFlight(num[c], highestCommitted[c], 0, sender[c], pendingCmds[c])
    BY <1>0, <1>1, Zenon DEF ClientInv
  <2>2. /\ head \in Numbers /\ rest \in Seq(Numbers) /\ Len(rest) <= Len(pendingCmds[c])
        /\ InFlight(num[c], highestCommitted[c], head, sender[c], rest)
    BY <1>0, <1>4, <2>1, ClientNumbers, InFlightTaken, ZenonT(20)
  <2>3. awaited' = [awaited EXCEPT ![c] = head] /\ pendingCmds' = [pendingCmds EXCEPT ![c] = rest]
    BY <1>4, Zenon
  <2> HIDE DEF rest, head
  <2>4. \A d \in Client : /\ pendingCmds'[d] = (IF d = c THEN rest ELSE pendingCmds[d])
                           /\ awaited'[d] = (IF d = c THEN head ELSE awaited[d])
    BY <1>0, <2>3, Zenon DEF ClientTypeOK
  <2>5. ClientTypeOK'
    <3>1. pendingCmds' \in [Client -> Seq(Numbers)]
      BY <1>0, <2>2, <2>3, ZenonT(20) DEF ClientTypeOK
    <3>2. Len(rest) \in Nat /\ Len(rest) <= MaxConcurrent
      BY <1>0, <2>2, ClientNumbers
    <3>3. \A d \in Client : Len(pendingCmds'[d]) <= MaxConcurrent
      BY <1>0, <2>4, <3>2, Zenon DEF ClientTypeOK
    <3>4. awaited' \in [Client -> 0..MaxNumber]
      BY <1>0, <2>2, <2>3 DEF ClientTypeOK, Numbers
    <3> QED
      BY <1>0, <1>1, <1>4, <3>1, <3>3, <3>4, ZenonT(20) DEF ClientTypeOK
  <2>6. ClientInv'
    BY <1>0, <1>1, <2>2, <2>4, Zenon DEF ClientInv
  <2> QED
    BY <1>2, <2>5, <2>6, Zenon DEF ClientGoal
<1> QED
  BY <1>3, <1>4, Zenon DEF TakePending

\* handleCommands gets the answer or an error.
LEMMA GetPromiseStep ==
    ASSUME CommandsInv, NEW c \in Client, GetPromise(c), UNCHANGED hash
    PROVE  ClientGoal
<1>0. CallsTypeOK /\ ClientTypeOK /\ ClientInv /\ Replies
  BY TypeParts, Zenon DEF CommandsInv
<1> DEFINE h == highestCommitted[c]
<1>1. /\ UNCHANGED <<num, lastCommand, sender, handling, pendingCmds, cancelled, replied, refused>>
      /\ awaited[c] # 0
      /\ awaited' = [awaited EXCEPT ![c] = 0]
      /\ highestCommitted' = [highestCommitted EXCEPT ![c] =
                                IF awaited[c] + 1 > h THEN awaited[c] + 1 ELSE h]
  BY Zenon DEF GetPromise, senderVars, replyVars
<1>2. \/ /\ ExecCommandQF(replied[<<c, awaited[c]>>])
         /\ acked' = [acked EXCEPT ![c] = @ \cup {awaited[c]}]
         /\ UNCHANGED failed
      \/ /\ failed' = [failed EXCEPT ![c] = @ \cup {awaited[c]}]
         /\ UNCHANGED acked
      \/ /\ cancelled[c]
         /\ UNCHANGED <<acked, failed>>
  BY ZenonT(20) DEF GetPromise
<1>3. awaited[c] = h /\ InFlight(num[c], h + 1, 0, sender[c], pendingCmds[c])
  <2>1. InFlight(num[c], h, awaited[c], sender[c], pendingCmds[c])
    BY <1>0, Zenon DEF ClientInv
  <2> QED
    BY <1>0, <1>1, <2>1, ClientNumbers, InFlightAnswered, ZenonT(20)
<1>4. h \in Nat /\ h \in Numbers /\ lastCommand[c] \in Nat
  BY <1>0, <1>3, ClientNumbers DEF Numbers
<1> HIDE DEF h
<1>5. highestCommitted' = [highestCommitted EXCEPT ![c] = h + 1]
  <2>1. (IF awaited[c] + 1 > h THEN awaited[c] + 1 ELSE h) = h + 1
    BY <1>3, <1>4, SMTT(30)
  <2> QED
    BY <1>1, <2>1, Zenon
<1>6. /\ acked' \in [Client -> SUBSET Numbers] /\ failed' \in [Client -> SUBSET Numbers]
      /\ \A d \in Client : d # c => acked'[d] = acked[d] /\ failed'[d] = failed[d]
      /\ acked[c] \cup failed[c] \subseteq acked'[c] \cup failed'[c]
      /\ acked'[c] # acked[c] => acked'[c] = acked[c] \cup {h} /\ ExecCommandQF(replied[<<c, h>>])
      /\ cancelled[c] \/ h \in acked'[c] \cup failed'[c]
  <2>1. acked \in [Client -> SUBSET Numbers] /\ failed \in [Client -> SUBSET Numbers]
    BY <1>0, Zenon DEF ClientTypeOK
  <2>2. CASE /\ ExecCommandQF(replied[<<c, awaited[c]>>])
             /\ acked' = [acked EXCEPT ![c] = @ \cup {awaited[c]}]
             /\ UNCHANGED failed
    BY <1>3, <1>4, <2>1, <2>2, ZenonT(20)
  <2>3. CASE /\ failed' = [failed EXCEPT ![c] = @ \cup {awaited[c]}]
             /\ UNCHANGED acked
    BY <1>3, <1>4, <2>1, <2>3, Zenon
  <2>4. CASE cancelled[c] /\ UNCHANGED <<acked, failed>>
    BY <2>1, <2>4, ZenonT(20)
  <2> QED
    BY <1>2, <2>2, <2>3, <2>4, Zenon
<1>7. Replies'
  <2>1. \A d \in Client : \A n \in acked'[d] : ExecCommandQF(replied[<<d, n>>])
    BY <1>0, <1>6, Zenon DEF Replies
  <2> QED
    BY <1>0, <1>1, <2>1, Zenon DEF Replies
<1>8. CallsTypeOK'
  BY <1>0, <1>1, SameCalls, ZenonT(20) DEF replyVars
<1>9. ClientTypeOK'
  <2>1. h + 1 \in 1..(MaxNumber + 1)
    BY <1>4, CallsAssumption DEF Numbers
  <2>2. highestCommitted' \in [Client -> 1..(MaxNumber + 1)] /\ awaited' \in [Client -> 0..MaxNumber]
    BY <1>0, <1>1, <1>5, <2>1, CallsAssumption, SMTT(30) DEF ClientTypeOK
  <2> QED
    BY <1>0, <1>1, <1>6, <2>2, Zenon DEF ClientTypeOK
<1>10. \A d \in Client : /\ awaited'[d] = (IF d = c THEN 0 ELSE awaited[d])
                          /\ highestCommitted'[d] = (IF d = c THEN h + 1 ELSE highestCommitted[d])
  BY <1>0, <1>1, <1>5, ZenonT(20) DEF ClientTypeOK
<1>11. ~cancelled[c] => Input(lastCommand[c], h + 1, acked'[c] \cup failed'[c], sender[c])
  <2>1. ~cancelled[c] => Input(lastCommand[c], h, acked[c] \cup failed[c], sender[c])
    BY <1>0, Zenon DEF ClientInv, h
  <2> QED
    BY <1>4, <1>6, <2>1, InputMore, ZenonT(20)
<1>12. ClientInv'
  <2>1. \A d \in Client : d # c => /\ acked'[d] \cup failed'[d] = acked[d] \cup failed[d]
                                   /\ awaited'[d] = awaited[d]
                                   /\ highestCommitted'[d] = highestCommitted[d]
    BY <1>6, <1>10, Zenon
  <2>2. awaited'[c] = 0 /\ highestCommitted'[c] = h + 1
    BY <1>10, Zenon
  <2> QED
    BY <1>0, <1>1, <1>3, <1>11, <2>1, <2>2, Zenon DEF ClientInv
<1> QED
  BY <1>7, <1>8, <1>9, <1>12, Zenon DEF ClientGoal

\* A client is stopped.
LEMMA StopClientStep ==
    ASSUME CommandsInv, NEW c \in Client, StopClient(c), UNCHANGED hash
    PROVE  ClientGoal
<1>0. CallsTypeOK /\ ClientTypeOK /\ ClientInv /\ Replies
  BY TypeParts, Zenon DEF CommandsInv
<1>1. /\ UNCHANGED <<num, lastCommand, sender, awaited, handling, highestCommitted, acked, failed,
                     pendingCmds, replied, refused>>
      /\ cancelled' = [cancelled EXCEPT ![c] = TRUE]
  BY Zenon DEF StopClient, senderVars, handlerVars, replyVars
<1>2. Replies' /\ CallsTypeOK'
  BY <1>0, <1>1, SameReplies, SameCalls, Zenon DEF replyVars
<1>3. ClientTypeOK'
  BY <1>0, <1>1, Zenon DEF ClientTypeOK
<1>4. \A d \in Client : ~cancelled'[d] => ~cancelled[d]
  BY <1>0, <1>1, ZenonT(20) DEF ClientTypeOK
<1>5. ClientInv'
  BY <1>0, <1>1, <1>4, Zenon DEF ClientInv
<1> QED
  BY <1>2, <1>3, <1>5, Zenon DEF ClientGoal

\* Every step of a client keeps the invariant.
LEMMA ClientStep ==
    ASSUME CommandsInv, NEW c \in Client, ClientSteps(c)
    PROVE  CommandsInv'
<1>0. /\ CacheTypeOK /\ ServerTypeOK /\ ConsensusTypeOK /\ Cached
      /\ ChainInv /\ CommittedInv /\ ExecInv /\ ProposingInv
  BY TypeParts, Zenon DEF CommandsInv
<1>1. UNCHANGED <<cacheVars, serverVars, consensusVars>>
  BY Zenon DEF ClientSteps
<1>2. UNCHANGED <<cache, serialNumbers, delivered, adding, hash, todo, committed, chain>>
  BY <1>1, Zenon DEF cacheVars, serverVars, consensusVars
<1>3. ClientGoal
  BY <1>2, SendCommandStep, PushPendingStep, TakePendingStep, GetPromiseStep, StopClientStep, Zenon
     DEF ClientSteps, SenderStep, HandlerStep
<1>4. CacheTypeOK' /\ ServerTypeOK'
  BY <1>0, <1>1, SameCache, SameServer, Zenon
<1>5. ConsensusTypeOK' /\ ChainInv' /\ CommittedInv' /\ ProposingInv'
  BY <1>0, <1>1, <1>2, SameConsensus, Zenon
<1>6. Cached' /\ ExecInv'
  BY <1>0, <1>2, SameCached, SameExec, Zenon
<1>7. TypeOK'
  BY <1>3, <1>4, <1>5, Zenon DEF TypeOK, ConsensusTypeOK, ClientGoal
<1> QED
  BY <1>3, <1>5, <1>6, <1>7, Zenon DEF CommandsInv, ClientGoal

-----------------------------------------------------------------------------
(***************************************************************************)
(* Induction and recursion over the natural numbers, stated with sets and  *)
(* functions: what the proofs about loops need.                            *)
(***************************************************************************)

\* The library of finite sets is brought in at the end of the module and defines
\* IsFiniteSet and Cardinality anew: these are those of Commands.
Finite(S) == IsFiniteSet(S)

Size(S) == Cardinality(S)

\* What the definitions of FiniteSets say.
LEMMA FiniteMeans ==
    \A S : Finite(S) <=> \E seq \in Seq(S) : \A s \in S : \E n \in 1..Len(seq) : seq[n] = s
BY Zenon DEF Finite, IsFiniteSet

\* The members are counted one at a time.
LEMMA SizeMeans ==
    \A S : Size(S) = LET CS[T \in SUBSET S] ==
                           IF T = {} THEN 0 ELSE 1 + CS[T \ {CHOOSE x : x \in T}]
                     IN  CS[S]
BY Zenon DEF Size, Cardinality

\* The sequence s lists the set S.
Lists(s, S) ==
    /\ \A x \in S : \E i \in DOMAIN s : s[i] = x
    /\ \A i, j \in DOMAIN s : s[i] = s[j] => i = j

\* What the proofs need of natural numbers and of finite sets, see SetFactsHold.
SetFacts ==
    /\ \A T \in SUBSET Nat : T # {} => \E n \in T : \A m \in T : n <= m
    /\ Finite({}) /\ Size({}) = 0
    /\ \A x : Finite({x}) /\ Size({x}) = 1
    /\ \A S : Finite(S) => Size(S) \in Nat /\ \E s \in [1..Size(S) -> S] : Lists(s, S)
    /\ \A S : Finite(S) => \A T \in SUBSET S : Finite(T) /\ Size(T) <= Size(S)
    /\ \A S, T : Finite(S) /\ Finite(T) => Finite(S \cup T)
    /\ \A U : Finite(U) => \A S, T \in SUBSET U : Size(S) + Size(T) > Size(U) => S \cap T # {}

\* Some number of a set of natural numbers is the least.
LEMMA LeastNatural ==
    ASSUME SetFacts, NEW T \in SUBSET Nat, T # {}
    PROVE  \E n \in T : \A m \in T : n <= m
BY Zenon DEF SetFacts

\* The empty set is finite.
LEMMA EmptySetSize ==
    ASSUME SetFacts
    PROVE  IsFiniteSet({}) /\ Cardinality({}) = 0
BY Zenon DEF SetFacts, Finite, Size

\* A set with one member is finite.
LEMMA SingletonSize ==
    ASSUME SetFacts
    PROVE  \A x : IsFiniteSet({x}) /\ Cardinality({x}) = 1
BY Zenon DEF SetFacts, Finite, Size

\* The members of a finite set can be counted.
LEMMA SetSize ==
    ASSUME SetFacts, NEW S, IsFiniteSet(S)
    PROVE  Cardinality(S) \in Nat
BY Zenon DEF SetFacts, Finite, Size

\* They can be put in an order.
LEMMA SetOrder ==
    ASSUME SetFacts, NEW S, IsFiniteSet(S)
    PROVE  ExistsBijection(1..Cardinality(S), S)
<1>1. PICK s \in [1..Cardinality(S) -> S] : Lists(s, S)
  BY Zenon DEF SetFacts, Finite, Size
<1>2. DOMAIN s = 1..Cardinality(S)
  BY Zenon
<1>3. s \in Injection(1..Cardinality(S), S)
  BY <1>1, Zenon DEF Lists, Injection, IsInjective
<1>4. s \in Surjection(1..Cardinality(S), S)
  BY <1>1, <1>2, Zenon DEF Lists, Surjection
<1> QED
  BY <1>3, <1>4, Zenon DEF ExistsBijection, Bijection

\* A subset of a finite set is finite and not larger.
LEMMA SubsetSize ==
    ASSUME SetFacts, NEW S, IsFiniteSet(S), NEW T \in SUBSET S
    PROVE  IsFiniteSet(T) /\ Cardinality(T) <= Cardinality(S)
BY Zenon DEF SetFacts, Finite, Size

\* The union of two finite sets is finite.
LEMMA UnionFinite ==
    ASSUME SetFacts, NEW S, IsFiniteSet(S), NEW T, IsFiniteSet(T)
    PROVE  IsFiniteSet(S \cup T)
BY Zenon DEF SetFacts, Finite, Size

\* Two sets that have more members than there are share one.
LEMMA MajoritiesMeet ==
    ASSUME SetFacts, NEW U, NEW S, NEW T, IsFiniteSet(U), S \subseteq U, T \subseteq U,
           Cardinality(S) + Cardinality(T) > Cardinality(U)
    PROVE  S \cap T # {}
<1>1. S \in SUBSET U /\ T \in SUBSET U
  BY Zenon
<1> QED
  BY <1>1, Zenon DEF SetFacts, Finite, Size

\* Some number of a set that is bounded is the greatest.
LEMMA GreatestNatural ==
    ASSUME SetFacts, NEW bound \in Nat, NEW T \in SUBSET (0..bound), T # {}
    PROVE  \E n \in T : \A m \in T : m <= n
<1> DEFINE U == {k \in Nat : \A m \in T : m <= k}
<1>1. U \in SUBSET Nat /\ bound \in U
  OBVIOUS
<1>2. PICK k \in U : \A j \in U : k <= j
  BY <1>1, LeastNatural, Zenon
<1>3. k \in T
  <2>1. SUFFICES ASSUME k \notin T PROVE FALSE
    BY Zenon
  <2>2. PICK m \in T : TRUE
    BY Zenon
  <2>3. m < k /\ k - 1 \in Nat
    BY <2>1, <2>2
  <2>4. \A j \in T : j <= k - 1
    BY <2>1
  <2>5. k - 1 \in U
    BY <2>3, <2>4, Zenon
  <2> QED
    BY <1>2, <2>5
<1> QED
  BY <1>3, Zenon

\* Induction: a set with 0 and the successors of its members is Nat.
LEMMA SetInduction ==
    ASSUME SetFacts, NEW S \in SUBSET Nat, 0 \in S, \A n \in S : n + 1 \in S
    PROVE  S = Nat
<1>1. SUFFICES ASSUME Nat \ S # {} PROVE FALSE
  BY Zenon
<1>2. PICK n \in Nat \ S : \A m \in Nat \ S : n <= m
  BY <1>1, LeastNatural, Zenon
<1>3. n # 0 /\ n - 1 \in Nat /\ n - 1 \in S
  BY <1>2
<1> QED
  BY <1>2, <1>3

\* The same up to a bound.
LEMMA BoundedInduction ==
    ASSUME SetFacts, NEW bound \in Nat, NEW S, 0 \in S,
           \A n \in 0..(bound - 1) : n \in S => n + 1 \in S
    PROVE  0..bound \subseteq S
<1> DEFINE T == {n \in Nat : n <= bound => n \in S}
<1>1. T \in SUBSET Nat /\ 0 \in T
  BY Zenon
<1>2. \A n \in T : n + 1 \in T
  OBVIOUS
<1>3. T = Nat
  BY <1>1, <1>2, SetInduction, Zenon
<1> QED
  BY <1>3

\* f is a run of a loop of N iterations.
IsRun(f, N, V, first, next) ==
    /\ f \in [0..N -> V] /\ f[0] = first
    /\ \A n \in 1..N : f[n] = next[<<f[n - 1], n>>]

\* A loop of N iterations over values of V has a run: the value after each
\* iteration is what next makes of the one before.
LEMMA LoopRuns ==
    ASSUME SetFacts, NEW N \in Nat, NEW V, NEW first \in V, NEW next \in [V \X (1..N) -> V]
    PROVE  \E f : IsRun(f, N, V, first, next)
<1> DEFINE Run(f, k) == /\ f \in [0..k -> V] /\ f[0] = first
                        /\ \A n \in 1..k : f[n] = next[<<f[n - 1], n>>]
           S == {k \in Nat : \E f : Run(f, k)}
<1>1. 0 \in S
  <2> DEFINE f == [n \in 0..0 |-> first]
  <2>1. f \in [0..0 -> V] /\ f[0] = first
    OBVIOUS
  <2>2. Run(f, 0)
    BY <2>1
  <2> QED
    BY <2>2, Zenon
<1>2. ASSUME NEW k \in 0..(N - 1), k \in S
      PROVE  k + 1 \in S
  <2>1. PICK f : Run(f, k)
    BY <1>2, Zenon
  <2>2. f[k] \in V /\ k + 1 \in 1..N
    BY <2>1
  <2> DEFINE v == next[<<f[k], k + 1>>]
             g == [n \in 0..(k + 1) |-> IF n = k + 1 THEN v ELSE f[n]]
  <2>3. v \in V
    BY <2>2, Zenon
  <2> HIDE DEF v
  <2>4. \A n \in 0..(k + 1) : g[n] = IF n = k + 1 THEN v ELSE f[n]
    BY Zenon
  <2>5. g \in [0..(k + 1) -> V]
    BY <2>1, <2>3
  <2> HIDE DEF g
  <2>6. g[0] = first
    BY <2>1, <2>4
  <2>7. \A n \in 1..(k + 1) : g[n] = next[<<g[n - 1], n>>]
    <3>1. SUFFICES ASSUME NEW n \in 1..(k + 1) PROVE g[n] = next[<<g[n - 1], n>>]
      BY Zenon
    <3>2. CASE n = k + 1
      <4>1. g[n] = v /\ g[n - 1] = f[k]
        BY <2>4, <3>2
      <4> QED
        BY <3>2, <4>1, Zenon DEF v
    <3>3. CASE n # k + 1
      <4>1. n \in 1..k /\ g[n] = f[n] /\ g[n - 1] = f[n - 1]
        BY <2>4, <3>3
      <4>2. f[n] = next[<<f[n - 1], n>>]
        BY <2>1, <4>1, Zenon
      <4> QED
        BY <4>1, <4>2, Zenon
    <3> QED
      BY <3>2, <3>3, Zenon
  <2>8. Run(g, k + 1)
    BY <2>5, <2>6, <2>7, ZenonT(30)
  <2> QED
    BY <2>8
<1>3. \A k \in 0..(N - 1) : k \in S => k + 1 \in S
  BY <1>2, ZenonT(20)
<1>4. N \in S
  <2> HIDE DEF S
  <2>1. 0..N \subseteq S
    BY <1>1, <1>3, BoundedInduction, Zenon
  <2> QED
    BY <2>1
<1> QED
  BY <1>4, Zenon DEF IsRun

-----------------------------------------------------------------------------
(***************************************************************************)
(* The operators.                                                          *)
(***************************************************************************)

\* The sequence that the loop of Get makes of one iteration.
NextBatch(serials, cmds, batch, n) ==
    IF TooOld(serials, cmds[n]) THEN batch ELSE Append(batch, cmds[n])

\* The loop of Get, iteration by iteration.
LEMMA FreshLoop ==
    ASSUME SetFacts, NEW serials, NEW cmds \in Seq(Command)
    PROVE  /\ Fresh(serials, cmds)[0] = <<>>
           /\ \A n \in 1..Len(cmds) : Fresh(serials, cmds)[n] =
                NextBatch(serials, cmds, Fresh(serials, cmds)[n - 1], n)
<1> DEFINE Eq(f) == f = [n \in 0..Len(cmds) |->
                           IF n = 0 THEN <<>>
                           ELSE IF TooOld(serials, cmds[n]) THEN f[n - 1]
                           ELSE Append(f[n - 1], cmds[n])]
<1>1. Fresh(serials, cmds) = CHOOSE f : Eq(f)
  BY Zenon DEF Fresh
<1>2. \E f : Eq(f)
  <2> DEFINE V == Seq(Command)
             N == Len(cmds)
             next == [p \in V \X (1..N) |-> NextBatch(serials, cmds, p[1], p[2])]
  <2>1. N \in Nat /\ <<>> \in V
    OBVIOUS
  <2>2. next \in [V \X (1..N) -> V]
    <3>1. ASSUME NEW v \in V, NEW n \in 1..N
          PROVE  NextBatch(serials, cmds, v, n) \in V
      <4>1. cmds[n] \in Command
        OBVIOUS
      <4> QED
        BY <4>1 DEF NextBatch
    <3> QED
      BY <3>1, Zenon
  <2>3. \A v \in V, n \in 1..N : next[<<v, n>>] = NextBatch(serials, cmds, v, n)
    BY Zenon
  <2> DEFINE none == <<>>
  <2> HIDE DEF next, V, N, none
  <2>4. none \in V
    BY <2>1, Zenon DEF none
  <2>5. PICK f : IsRun(f, N, V, none, next)
    BY <2>1, <2>2, <2>4, LoopRuns, Zenon
  <2>6. f \in [0..N -> V] /\ f[0] = none /\ \A n \in 1..N : f[n] = next[<<f[n - 1], n>>]
    BY <2>5, Zenon DEF IsRun
  <2>7. \A n \in 1..N : f[n] = NextBatch(serials, cmds, f[n - 1], n)
    <3>1. SUFFICES ASSUME NEW n \in 1..N PROVE f[n] = NextBatch(serials, cmds, f[n - 1], n)
      BY Zenon
    <3>2. f[n - 1] \in V
      BY <2>1, <2>6
    <3> QED
      BY <2>3, <2>6, <3>2, Zenon
  <2>8. Eq(f)
    <3>1. \A n \in 0..N : f[n] = IF n = 0 THEN <<>>
                                  ELSE IF TooOld(serials, cmds[n]) THEN f[n - 1]
                                  ELSE Append(f[n - 1], cmds[n])
      <4>1. SUFFICES ASSUME NEW n \in 0..N
                     PROVE  f[n] = IF n = 0 THEN <<>>
                                   ELSE IF TooOld(serials, cmds[n]) THEN f[n - 1]
                                   ELSE Append(f[n - 1], cmds[n])
        BY Zenon
      <4>2. CASE n = 0
        BY <2>6, <4>2, Zenon DEF none
      <4>3. CASE n # 0
        <5>1. n \in 1..N
          BY <2>1, <4>3
        <5>2. f[n] = NextBatch(serials, cmds, f[n - 1], n)
          BY <2>7, <5>1, Zenon
        <5> QED
          BY <4>3, <5>2, Zenon DEF NextBatch
      <4> QED
        BY <4>2, <4>3, Zenon
    <3> QED
      BY <2>6, <3>1, Zenon DEF N
  <2> QED
    BY <2>8, Zenon
<1>3. Eq(Fresh(serials, cmds))
  <2> HIDE DEF Eq
  <2> QED
    BY <1>1, <1>2, Zenon
<1>4. Len(cmds) \in Nat
  OBVIOUS
<1> DEFINE F == Fresh(serials, cmds)
<1>5. \A n \in 0..Len(cmds) : F[n] = IF n = 0 THEN <<>>
                                      ELSE IF TooOld(serials, cmds[n]) THEN F[n - 1]
                                      ELSE Append(F[n - 1], cmds[n])
  <2> HIDE DEF F
  <2>1. Eq(F)
    BY <1>3, Zenon DEF F
  <2> QED
    BY <2>1, Zenon
<1> HIDE DEF F
<1>6. F[0] = <<>> /\ \A n \in 1..Len(cmds) : F[n] = NextBatch(serials, cmds, F[n - 1], n)
  BY <1>4, <1>5 DEF NextBatch
<1> QED
  BY <1>6, Zenon DEF F

\* batch is made of some of the first n commands, in their order.
PartOf(batch, cmds, n) ==
    /\ batch \in Seq(Command) /\ Len(batch) <= n
    /\ \A i \in DOMAIN batch : \E a \in 1..n : batch[i] = cmds[a]
    /\ \A i, j \in DOMAIN batch : i < j =>
         \E a, b \in 1..n : a < b /\ batch[i] = cmds[a] /\ batch[j] = cmds[b]

\* Part of the first n commands is part of the first n + 1.
LEMMA PartExtends ==
    ASSUME NEW cmds \in Seq(Command), NEW n \in 0..(Len(cmds) - 1), NEW batch,
           PartOf(batch, cmds, n)
    PROVE  /\ PartOf(batch, cmds, n + 1)
           /\ PartOf(Append(batch, cmds[n + 1]), cmds, n + 1)
<1>1. Len(cmds) \in Nat /\ n \in Nat /\ n + 1 \in 1..Len(cmds) /\ cmds[n + 1] \in Command
  OBVIOUS
<1>2. batch \in Seq(Command) /\ Len(batch) \in Nat /\ Len(batch) <= n
  BY DEF PartOf
<1>3. PartOf(batch, cmds, n + 1)
  <2>1. 1..n \subseteq 1..(n + 1) /\ Len(batch) <= n + 1
    BY <1>1, <1>2
  <2>2. \A i \in DOMAIN batch : \E a \in 1..(n + 1) : batch[i] = cmds[a]
    BY <2>1, Zenon DEF PartOf
  <2>3. \A i, j \in DOMAIN batch : i < j =>
          \E a, b \in 1..(n + 1) : a < b /\ batch[i] = cmds[a] /\ batch[j] = cmds[b]
    <3>1. SUFFICES ASSUME NEW i \in DOMAIN batch, NEW j \in DOMAIN batch, i < j
                   PROVE  \E a, b \in 1..(n + 1) : a < b /\ batch[i] = cmds[a] /\ batch[j] = cmds[b]
      BY Zenon
    <3>2. PICK a \in 1..n, b \in 1..n : a < b /\ batch[i] = cmds[a] /\ batch[j] = cmds[b]
      BY <3>1, Zenon DEF PartOf
    <3> QED
      BY <2>1, <3>2, Zenon
  <2> QED
    BY <1>2, <2>1, <2>2, <2>3, Zenon DEF PartOf
<1> DEFINE more == Append(batch, cmds[n + 1])
<1>4. /\ more \in Seq(Command) /\ Len(more) = Len(batch) + 1
      /\ DOMAIN more = 1..(Len(batch) + 1) /\ DOMAIN batch = 1..Len(batch)
      /\ \A i \in DOMAIN batch : more[i] = batch[i]
      /\ more[Len(batch) + 1] = cmds[n + 1]
  BY <1>1, <1>2
<1> HIDE DEF more
<1>5. \A i \in DOMAIN more : \E a \in 1..(n + 1) : more[i] = cmds[a]
  <2>1. SUFFICES ASSUME NEW i \in DOMAIN more PROVE \E a \in 1..(n + 1) : more[i] = cmds[a]
    BY Zenon
  <2>2. CASE i \in DOMAIN batch
    BY <1>1, <1>4, <2>2 DEF PartOf
  <2>3. CASE i = Len(batch) + 1
    BY <1>1, <1>4, <2>3
  <2> QED
    BY <1>2, <1>4, <2>2, <2>3
<1>6. \A i, j \in DOMAIN more : i < j =>
        \E a, b \in 1..(n + 1) : a < b /\ more[i] = cmds[a] /\ more[j] = cmds[b]
  <2>1. SUFFICES ASSUME NEW i \in DOMAIN more, NEW j \in DOMAIN more, i < j
                 PROVE  \E a, b \in 1..(n + 1) : a < b /\ more[i] = cmds[a] /\ more[j] = cmds[b]
    BY Zenon
  <2>2. i \in DOMAIN batch
    BY <1>2, <1>4, <2>1
  <2>3. CASE j \in DOMAIN batch
    <3>1. PICK a \in 1..n, b \in 1..n : a < b /\ batch[i] = cmds[a] /\ batch[j] = cmds[b]
      BY <2>1, <2>2, <2>3, ZenonT(30) DEF PartOf
    <3> QED
      BY <1>1, <1>4, <2>2, <2>3, <3>1
  <2>4. CASE j = Len(batch) + 1
    <3>1. PICK a \in 1..n : batch[i] = cmds[a]
      BY <2>2, Zenon DEF PartOf
    <3>2. a < n + 1 /\ a \in 1..(n + 1) /\ n + 1 \in 1..(n + 1)
      BY <1>1, <3>1
    <3> QED
      BY <1>4, <2>2, <2>4, <3>1, <3>2, ZenonT(20)
  <2> QED
    BY <1>2, <1>4, <2>3, <2>4
<1>7. PartOf(more, cmds, n + 1)
  BY <1>1, <1>2, <1>4, <1>5, <1>6 DEF PartOf
<1> QED
  BY <1>3, <1>7, Zenon DEF more

\* What the loop of Get collects.
LEMMA FreshParts ==
    ASSUME SetFacts, NEW serials, NEW cmds \in Seq(Command)
    PROVE  \A n \in 0..Len(cmds) : PartOf(Fresh(serials, cmds)[n], cmds, n)
<1> DEFINE F == Fresh(serials, cmds)
           S == {n \in 0..Len(cmds) : PartOf(F[n], cmds, n)}
<1>1. /\ F[0] = <<>>
      /\ \A n \in 1..Len(cmds) : F[n] = NextBatch(serials, cmds, F[n - 1], n)
  BY FreshLoop, ZenonT(30)
<1>2. Len(cmds) \in Nat
  OBVIOUS
<1> HIDE DEF F
<1>3. 0 \in S
  <2>1. <<>> \in Seq(Command) /\ Len(<<>>) = 0 /\ DOMAIN <<>> = {}
    OBVIOUS
  <2>2. PartOf(<<>>, cmds, 0)
    BY <2>1 DEF PartOf
  <2> QED
    BY <1>1, <1>2, <2>2
<1>4. \A n \in 0..(Len(cmds) - 1) : n \in S => n + 1 \in S
  <2>1. SUFFICES ASSUME NEW n \in 0..(Len(cmds) - 1), PartOf(F[n], cmds, n)
                 PROVE  PartOf(F[n + 1], cmds, n + 1)
    BY <1>2
  <2>2. n + 1 \in 1..Len(cmds) /\ (n + 1) - 1 = n
    BY <1>2
  <2>3. F[n + 1] = NextBatch(serials, cmds, F[n], n + 1)
    BY <1>1, <2>2, Zenon
  <2>4. PartOf(F[n], cmds, n + 1) /\ PartOf(Append(F[n], cmds[n + 1]), cmds, n + 1)
    BY <2>1, PartExtends, Zenon
  <2> QED
    BY <2>3, <2>4, Zenon DEF NextBatch
<1> HIDE DEF S
<1>5. 0..Len(cmds) \subseteq S
  BY <1>2, <1>3, <1>4, BoundedInduction, ZenonT(30)
<1> QED
  BY <1>5, Zenon DEF S, F

\* No batch gets longer than BatchSize without having been full before.
LEMMA FreshFills ==
    ASSUME SetFacts, NEW serials, NEW cmds \in Seq(Command), NEW m \in 0..Len(cmds),
           \A k \in 0..m : Len(Fresh(serials, cmds)[k]) # BatchSize
    PROVE  Len(Fresh(serials, cmds)[m]) < BatchSize
<1> DEFINE F == Fresh(serials, cmds)
           S == {n \in 0..m : Len(F[n]) < BatchSize}
<1>1. /\ F[0] = <<>>
      /\ \A n \in 1..Len(cmds) : F[n] = NextBatch(serials, cmds, F[n - 1], n)
      /\ \A k \in 0..m : Len(F[k]) # BatchSize
  BY FreshLoop, Zenon
<1>2. Len(cmds) \in Nat /\ m \in Nat /\ m <= Len(cmds) /\ BatchSize \in Nat \ {0}
  BY CacheAssumption
<1>3. \A n \in 0..Len(cmds) : F[n] \in Seq(Command)
  BY FreshParts, Zenon DEF PartOf
<1> HIDE DEF F
<1>4. 0 \in S
  <2>1. Len(F[0]) = 0
    BY <1>1
  <2> QED
    BY <1>2, <2>1
<1>5. \A n \in 0..(m - 1) : n \in S => n + 1 \in S
  <2>1. SUFFICES ASSUME NEW n \in 0..(m - 1), Len(F[n]) < BatchSize
                 PROVE  Len(F[n + 1]) < BatchSize
    BY <1>2
  <2>2. /\ n + 1 \in 1..Len(cmds) /\ (n + 1) - 1 = n /\ n + 1 \in 0..m
        /\ n \in 0..Len(cmds) /\ n + 1 \in 0..Len(cmds)
    BY <1>2
  <2>3. F[n + 1] = NextBatch(serials, cmds, F[n], n + 1)
    BY <1>1, <2>2, Zenon
  <2>4. F[n] \in Seq(Command) /\ F[n + 1] \in Seq(Command) /\ cmds[n + 1] \in Command
    BY <1>3, <2>2
  <2>5. Len(F[n + 1]) \in {Len(F[n]), Len(F[n]) + 1}
    BY <2>3, <2>4 DEF NextBatch
  <2>6. Len(F[n + 1]) # BatchSize
    BY <1>1, <2>2, Zenon
  <2>7. Len(F[n]) \in Nat
    BY <2>4
  <2> QED
    BY <1>2, <2>1, <2>5, <2>6, <2>7
<1> HIDE DEF S
<1>6. 0..m \subseteq S
  BY <1>2, <1>4, <1>5, BoundedInduction, Zenon
<1> QED
  BY <1>2, <1>6 DEF S, F

\* The batch that Get returns.
LEMMA TakenFacts ==
    ASSUME SetFacts, NEW r \in Replica, cache[r] \in Seq(Command), Ordered(cache[r])
    PROVE  /\ TakenLength(r) \in 0..Len(cache[r])
           /\ Taken(r) \in Seq(Command) /\ Len(Taken(r)) <= BatchSize
           /\ Ordered(Taken(r))
<1> DEFINE cmds == cache[r]
           F == Fresh(serialNumbers[r], cmds)
           full == {n \in 0..Len(cmds) : Len(F[n]) = BatchSize}
           t == TakenLength(r)
<1>1. Len(cmds) \in Nat /\ cmds \in Seq(Command) /\ BatchSize \in Nat
  BY CacheAssumption
<1>2. t = IF full = {} THEN Len(cmds) ELSE CHOOSE n \in full : \A k \in full : n <= k
  BY Zenon DEF TakenLength
<1>3. \A n \in 0..Len(cmds) : PartOf(F[n], cmds, n)
  BY <1>1, FreshParts, Zenon
<1>4. Taken(r) = F[t]
  BY Zenon DEF Taken
<1>5. full \in SUBSET Nat
  BY <1>1
<1>6. full # {} => t \in full
  <2>1. SUFFICES ASSUME full # {} PROVE t \in full
    BY Zenon
  <2> HIDE DEF full
  <2>2. \E n \in full : \A k \in full : n <= k
    BY <1>5, <2>1, LeastNatural, ZenonT(30)
  <2>3. t = CHOOSE n \in full : \A k \in full : n <= k
    BY <1>2, <2>1, ZenonT(30)
  <2> QED
    BY <2>2, <2>3, Zenon
<1>7. t \in 0..Len(cmds)
  <2>1. full # {} => t \in 0..Len(cmds)
    BY <1>6, Zenon
  <2>2. full = {} => t = Len(cmds)
    BY <1>2, Zenon
  <2> QED
    BY <1>1, <2>1, <2>2
<1>8. PartOf(F[t], cmds, t)
  BY <1>3, <1>7, Zenon
<1>9. Len(F[t]) <= BatchSize
  <2>1. CASE full # {}
    BY <1>1, <1>6, <2>1
  <2>2. CASE full = {}
    <3>1. t = Len(cmds)
      BY <1>2, <2>2, Zenon
    <3>2. \A k \in 0..Len(cmds) : Len(F[k]) # BatchSize
      BY <2>2, Zenon
    <3>3. Len(F[Len(cmds)]) < BatchSize
      BY <1>1, <3>2, FreshFills, SMTT(30)
    <3>4. Len(F[t]) \in Nat
      BY <1>8 DEF PartOf
    <3> QED
      BY <1>1, <3>1, <3>3, <3>4
  <2> QED
    BY <2>1, <2>2, Zenon
<1> HIDE DEF F, t, full
<1>10. Ordered(F[t])
  <2>1. SUFFICES ASSUME NEW i \in DOMAIN F[t], NEW j \in DOMAIN F[t], i < j
                 PROVE  Before(F[t][i], F[t][j])
    BY Zenon DEF Ordered
  <2>2. PICK a \in 1..t, b \in 1..t : a < b /\ F[t][i] = cmds[a] /\ F[t][j] = cmds[b]
    BY <1>8, <2>1, Zenon DEF PartOf
  <2>3. a \in DOMAIN cmds /\ b \in DOMAIN cmds
    BY <1>1, <1>7
  <2> QED
    BY <2>2, <2>3, ZenonT(20) DEF Ordered
<1>11. F[t] \in Seq(Command)
  BY <1>8, Zenon DEF PartOf
<1> QED
  BY <1>4, <1>7, <1>9, <1>10, <1>11, ZenonT(30) DEF t

\* Proposed raises the serial numbers to those of the batch.
LEMMA ProposedFacts ==
    ASSUME SetFacts, NEW serials \in [Client -> 0..MaxNumber], NEW batch \in Seq(Command)
    PROVE  /\ Proposed(serials, batch) \in [Client -> 0..MaxNumber]
           /\ \A c \in Client : Proposed(serials, batch)[c] >= serials[c]
           /\ \A i \in DOMAIN batch : Proposed(serials, batch)[batch[i][1]] >= batch[i][2]
<1> DEFINE numbers(c) == {serials[c]} \cup
             {batch[i][2] : i \in {j \in DOMAIN batch : batch[j][1] = c}}
           top(c) == CHOOSE n \in numbers(c) : \A k \in numbers(c) : n >= k
<1>1. Proposed(serials, batch) = [c \in Client |-> top(c)]
  BY Zenon DEF Proposed
<1>2. MaxNumber \in Nat
  BY CallsAssumption, Zenon
<1>3. \A i \in DOMAIN batch : batch[i][1] \in Client /\ batch[i][2] \in 1..MaxNumber
  <2>1. \A i \in DOMAIN batch : batch[i] \in Client \X (1..MaxNumber)
    BY DEF Command, Numbers
  <2> QED
    BY <2>1, Zenon
<1>4. \A c \in Client : numbers(c) \in SUBSET (0..MaxNumber) /\ serials[c] \in numbers(c)
  BY <1>2, <1>3
<1>5. \A i \in DOMAIN batch : batch[i][2] \in numbers(batch[i][1])
  BY Zenon
<1>6. ASSUME NEW c \in Client
      PROVE  /\ top(c) \in numbers(c)
             /\ \A k \in numbers(c) : top(c) >= k
  <2> DEFINE T == numbers(c)
  <2>1. T \in SUBSET (0..MaxNumber) /\ T # {}
    BY <1>4, Zenon
  <2>2. top(c) = CHOOSE n \in T : \A k \in T : n >= k
    BY Zenon
  <2> HIDE DEF T, top
  <2>3. \E n \in T : \A m \in T : m <= n
    BY <1>2, <2>1, GreatestNatural, Zenon
  <2>4. \E n \in T : \A k \in T : n >= k
    BY <1>2, <2>1, <2>3, ZenonT(30)
  <2>5. top(c) \in T /\ \A k \in T : top(c) >= k
    BY <2>2, <2>4, Zenon
  <2> QED
    BY <2>5, Zenon DEF T
<1> HIDE DEF numbers, top
<1>7. \A c \in Client : top(c) \in 0..MaxNumber /\ top(c) >= serials[c]
  BY <1>4, <1>6, Zenon
<1>8. \A i \in DOMAIN batch : top(batch[i][1]) >= batch[i][2]
  BY <1>3, <1>5, <1>6, ZenonT(30)
<1> QED
  BY <1>1, <1>3, <1>7, <1>8, ZenonT(30)

\* Any two quorums share a replica.
LEMMA QuorumsMeet ==
    ASSUME SetFacts, NEW P \in SUBSET Replica, NEW Q \in SUBSET Replica, IsQuorum(P), IsQuorum(Q)
    PROVE  \E r \in P : r \in Q
<1> DEFINE n == Cardinality(Replica)
<1>1. IsFiniteSet(Replica) /\ n \in Nat /\ n > 0
  <2>1. IsFiniteSet(Replica) /\ n \in Nat
    BY CallsAssumption, SetSize, ZenonT(30)
  <2>2. {First} \in SUBSET Replica /\ Cardinality({First}) = 1
    BY CommandsAssumption, SingletonSize, Zenon
  <2>3. 1 <= n
    BY <2>1, <2>2, SubsetSize, Zenon
  <2> QED
    BY <2>1, <2>3
<1>2. Cardinality(P) \in Nat /\ Cardinality(Q) \in Nat
  BY <1>1, SubsetSize, SetSize, Zenon
<1>3. Cardinality(P) >= n - ((n - 1) \div 3) /\ Cardinality(Q) >= n - ((n - 1) \div 3)
  BY Zenon DEF IsQuorum, NumFaulty
<1> HIDE DEF n
<1>4. Cardinality(P) + Cardinality(Q) > n
  BY <1>1, <1>2, <1>3
<1>5. P \cap Q # {}
  BY <1>1, <1>4, MajoritiesMeet, Zenon DEF n
<1> QED
  BY <1>5, Zenon

\* A quorum has a member.
LEMMA QuorumMember ==
    ASSUME SetFacts, NEW Q \in SUBSET Replica, IsQuorum(Q)
    PROVE  \E r \in Q : TRUE
BY QuorumsMeet, Zenon

\* A finite set as a sequence.
LEMMA Listed ==
    ASSUME SetFacts, NEW S, IsFiniteSet(S)
    PROVE  InSomeOrder(S) \in Seq(S)
<1> DEFINE n == Cardinality(S)
<1>1. n \in Nat /\ ExistsBijection(1..n, S)
  BY SetSize, SetOrder, Zenon
<1>2. InSomeOrder(S) \in Bijection(1..n, S)
  BY <1>1, Zenon DEF InSomeOrder, ExistsBijection
<1>3. InSomeOrder(S) \in [1..n -> S]
  BY <1>2, Zenon DEF Bijection, Injection
<1> QED
  BY <1>1, <1>3

\* The batches of blocks.
LEMMA BatchTypes ==
    /\ \A batch \in Batches : batch \in Seq(Command) /\ batch # <<>>
    /\ \A batch \in Seq(Command) : batch # <<>> /\ Len(batch) <= BatchSize => batch \in Batches
<1>1. BatchSize \in Nat
  BY CacheAssumption, Zenon
<1>2. ASSUME NEW batch \in Batches
      PROVE  batch \in Seq(Command) /\ batch # <<>>
  <2>1. PICK n \in 1..BatchSize : batch \in [1..n -> Command]
    BY ZenonT(30) DEF Batches
  <2> QED
    BY <1>1, <2>1
<1>3. ASSUME NEW batch \in Seq(Command), batch # <<>>, Len(batch) <= BatchSize
      PROVE  batch \in Batches
  <2>1. Len(batch) \in 1..BatchSize /\ batch \in [1..Len(batch) -> Command]
    BY <1>1, <1>3
  <2> QED
    BY <2>1, Zenon DEF Batches
<1> QED
  BY <1>2, <1>3, ZenonT(30)

\* The calls that commit makes.
LEMMA CallsTyped ==
    ASSUME NEW blocks \in Seq(Blocks), NEW op \in {"Exec", "Fork"}
    PROVE  /\ CallsOf(op, blocks) \in Seq(Tasks)
           /\ Len(CallsOf(op, blocks)) = Len(blocks)
           /\ \A i \in DOMAIN blocks : CallsOf(op, blocks)[i] = [op |-> op, cmds |-> blocks[i].batch]
<1> DEFINE s == CallsOf(op, blocks)
<1>1. /\ DOMAIN s = 1..Len(blocks) /\ DOMAIN blocks = 1..Len(blocks) /\ Len(blocks) \in Nat
      /\ \A i \in 1..Len(blocks) : s[i] = [op |-> op, cmds |-> blocks[i].batch]
  BY DEF CallsOf
<1>2. \A i \in 1..Len(blocks) : s[i] \in Tasks
  <2>1. SUFFICES ASSUME NEW i \in 1..Len(blocks)
                 PROVE  [op |-> op, cmds |-> blocks[i].batch] \in Tasks
    BY <1>1, Zenon
  <2>2. blocks[i] \in Blocks
    OBVIOUS
  <2>3. blocks[i].batch \in Batches
    BY <2>2, Zenon DEF Blocks
  <2>4. blocks[i].batch \in Seq(Command) /\ blocks[i].batch # <<>>
    BY <2>3, BatchTypes, ZenonT(30)
  <2> QED
    BY <2>4, Zenon DEF Tasks
<1>3. s = [i \in 1..Len(blocks) |-> s[i]]
  BY DEF CallsOf
<1> HIDE DEF s
<1>4. s \in [1..Len(blocks) -> Tasks]
  BY <1>1, <1>2, <1>3, ZenonT(30)
<1>5. s \in Seq(Tasks) /\ Len(s) = Len(blocks)
  BY <1>1, <1>4
<1> QED
  BY <1>1, <1>5, ZenonT(30) DEF s

\* More replies than enough are enough.
LEMMA MoreReplies ==
    ASSUME SetFacts, NEW S, NEW T \in SUBSET Replica, S \subseteq T, ExecCommandQF(S)
    PROVE  ExecCommandQF(T)
<1>1. IsFiniteSet(T)
  BY CallsAssumption, SubsetSize, ZenonT(30)
<1>2. IsFiniteSet(S) /\ Cardinality(S) <= Cardinality(T)
  BY <1>1, SubsetSize, ZenonT(30)
<1>3. Cardinality(S) \in Nat /\ Cardinality(T) \in Nat
  BY <1>1, <1>2, SetSize, ZenonT(30)
<1>4. NumFaulty \in Int
  BY CallsAssumption, SetSize DEF NumFaulty
<1> QED
  BY <1>2, <1>3, <1>4 DEF ExecCommandQF

\* What is added to a sequence is in it, and what was in it stays.
LEMMA ContainsMore ==
    ASSUME NEW s \in Seq(Command), NEW cmd \in Command
    PROVE  /\ Append(s, cmd) \in Seq(Command)
           /\ Contains(Append(s, cmd), cmd)
           /\ \A x : Contains(s, x) => Contains(Append(s, cmd), x)
<1> DEFINE more == Append(s, cmd)
<1>1. /\ more \in Seq(Command) /\ Len(more) = Len(s) + 1 /\ Len(s) \in Nat
      /\ more[Len(s) + 1] = cmd /\ \A i \in 1..Len(s) : more[i] = s[i]
  OBVIOUS
<1> HIDE DEF more
<1>2. Len(s) + 1 \in 1..Len(more) /\ 1..Len(s) \subseteq 1..Len(more)
  BY <1>1
<1>3. Contains(more, cmd) /\ \A x : Contains(s, x) => Contains(more, x)
  BY <1>1, <1>2, ZenonT(30) DEF Contains
<1> QED
  BY <1>1, <1>3, ZenonT(30) DEF more

\* What is left of the calls after one command, in terms of the calls before:
\* Source(todo, i) is the call that the i-th one was, Skipped how many of its
\* commands have gone.
Rest(calls) ==
    IF Len(calls[1].cmds) = 1 THEN Tail(calls)
    ELSE [calls EXCEPT ![1].cmds = Tail(calls[1].cmds)]

Source(calls, i) == IF Len(calls[1].cmds) = 1 THEN i + 1 ELSE i

Skipped(calls, i) == IF Len(calls[1].cmds) # 1 /\ i = 1 THEN 1 ELSE 0

IsRest(calls, rest) ==
    \A i \in DOMAIN rest :
        /\ Source(calls, i) \in DOMAIN calls
        /\ rest[i].op = calls[Source(calls, i)].op
        /\ \A j \in DOMAIN rest[i].cmds :
             /\ j + Skipped(calls, i) \in DOMAIN calls[Source(calls, i)].cmds
             /\ rest[i].cmds[j] = calls[Source(calls, i)].cmds[j + Skipped(calls, i)]

\* The tail of a sequence of two or more.
LEMMA LongTail ==
    ASSUME NEW s \in Seq(Command), s # <<>>, Len(s) # 1
    PROVE  /\ Len(s) \in Nat /\ Len(s) >= 2
           /\ Tail(s) \in Seq(Command) /\ Tail(s) # <<>> /\ DOMAIN Tail(s) = 1..(Len(s) - 1)
           /\ \A j \in 1..(Len(s) - 1) : Tail(s)[j] = s[j + 1]
<1>1. Len(s) \in Nat /\ Len(s) # 0
  OBVIOUS
<1>2. Len(s) >= 2
  <2> DEFINE l == Len(s)
  <2>1. l \in Nat /\ l # 0 /\ l # 1
    BY <1>1, Zenon
  <2> HIDE DEF l
  <2>2. l >= 2
    BY <2>1
  <2> QED
    BY <2>2, Zenon DEF l
<1>3. /\ Tail(s) \in Seq(Command) /\ Len(Tail(s)) = Len(s) - 1
      /\ DOMAIN Tail(s) = 1..(Len(s) - 1)
      /\ \A j \in 1..(Len(s) - 1) : Tail(s)[j] = s[j + 1]
  OBVIOUS
<1>4. Tail(s) # <<>>
  <2>1. Len(Tail(s)) # 0
    BY <1>1, <1>2, <1>3
  <2>2. Len(<<>>) = 0
    BY Zenon
  <2> QED
    BY <2>1, <2>2, Zenon
<1> QED
  BY <1>1, <1>2, <1>3, <1>4, ZenonT(30)

\* The calls left when the first command of the first one is done.
LEMMA RestFacts ==
    ASSUME NEW calls \in Seq(Tasks), calls # <<>>
    PROVE  Rest(calls) \in Seq(Tasks) /\ IsRest(calls, Rest(calls))
<1> DEFINE task == calls[1]
           l == Len(calls)
<1>1. l \in Nat /\ l >= 1 /\ DOMAIN calls = 1..l /\ task \in Tasks
  OBVIOUS
<1>2. task.cmds \in Seq(Command) /\ task.cmds # <<>> /\ task.op \in {"Exec", "Fork"}
  BY <1>1, Zenon DEF Tasks
<1>3. CASE Len(task.cmds) = 1
  <2> DEFINE t == Tail(calls)
  <2>1. /\ t \in Seq(Tasks) /\ DOMAIN t = 1..(l - 1)
        /\ \A i \in 1..(l - 1) : t[i] = calls[i + 1] /\ t[i] \in Tasks
    BY <1>1
  <2>2. Rest(calls) = t
    BY <1>3, Zenon DEF Rest
  <2>3. \A i \in 1..(l - 1) : Source(calls, i) = i + 1 /\ Skipped(calls, i) = 0
    BY <1>3, Zenon DEF Source, Skipped
  <2>4. \A i \in 1..(l - 1) : i + 1 \in DOMAIN calls
    BY <1>1
  <2>5. \A i \in 1..(l - 1) : \A j \in DOMAIN t[i].cmds : j \in Nat
    BY <2>1 DEF Tasks
  <2> HIDE DEF t, l, task
  <2>6. IsRest(calls, t)
    <3>1. SUFFICES ASSUME NEW i \in 1..(l - 1)
                   PROVE  /\ i + 1 \in DOMAIN calls
                          /\ t[i].op = calls[i + 1].op
                          /\ \A j \in DOMAIN t[i].cmds :
                               /\ j + 0 \in DOMAIN calls[i + 1].cmds
                               /\ t[i].cmds[j] = calls[i + 1].cmds[j + 0]
      BY <2>1, <2>3 DEF IsRest
    <3>2. t[i] = calls[i + 1]
      BY <2>1, Zenon
    <3>3. \A j \in DOMAIN t[i].cmds : j + 0 = j
      BY <2>5
    <3> QED
      BY <2>4, <3>2, <3>3, ZenonT(20)
  <2> QED
    BY <2>1, <2>2, <2>6, ZenonT(30)
<1>4. CASE Len(task.cmds) # 1
  <2> DEFINE tl == Tail(task.cmds)
             m == Len(task.cmds)
             head == [op |-> task.op, cmds |-> tl]
             t == [calls EXCEPT ![1].cmds = tl]
  <2>1. m \in Nat /\ m >= 2
    BY <1>2, <1>4, LongTail, ZenonT(20)
  <2>2. /\ tl \in Seq(Command) /\ tl # <<>> /\ DOMAIN tl = 1..(m - 1)
        /\ \A j \in 1..(m - 1) : tl[j] = task.cmds[j + 1]
    BY <1>2, <1>4, LongTail, ZenonT(20)
  <2> HIDE DEF tl
  <2>3. head \in Tasks
    BY <1>2, <2>2, ZenonT(30) DEF Tasks
  <2>4. [task EXCEPT !.cmds = tl] = head
    BY <1>1 DEF Tasks
  <2>5. /\ DOMAIN t = 1..l /\ t[1] = head
        /\ \A i \in 2..l : t[i] = calls[i]
    BY <1>1, <2>4
  <2>6. Rest(calls) = t
    BY <1>4, Zenon DEF Rest, tl
  <2>7. t \in Seq(Tasks)
    <3>1. t \in [1..l -> Tasks]
      <4>1. t = [i \in 1..l |-> IF i = 1 THEN [task EXCEPT !.cmds = tl] ELSE calls[i]]
        BY <1>1, Zenon
      <4>2. \A i \in 1..l : (IF i = 1 THEN [task EXCEPT !.cmds = tl] ELSE calls[i]) \in Tasks
        BY <1>1, <2>3, <2>4
      <4> QED
        BY <4>1, <4>2, Zenon
    <3> QED
      BY <1>1, <3>1
  <2>8. /\ \A i \in 1..l : Source(calls, i) = i
        /\ Skipped(calls, 1) = 1
        /\ \A i \in 2..l : Skipped(calls, i) = 0
    BY <1>1, <1>4 DEF Source, Skipped
  <2>9. DOMAIN task.cmds = 1..m
    BY <1>2
  <2>10. \A i \in 2..l : \A j \in DOMAIN calls[i].cmds : j \in Nat
    <3>1. \A i \in 2..l : calls[i] \in Tasks
      BY <1>1
    <3> QED
      BY <3>1 DEF Tasks
  <2>11. head.op = task.op /\ head.cmds = tl
    BY ZenonT(20)
  <2> HIDE DEF t, head, l, m
  <2>12. IsRest(calls, t)
    <3>1. SUFFICES ASSUME NEW i \in 1..l
                   PROVE  /\ i \in DOMAIN calls
                          /\ t[i].op = calls[i].op
                          /\ \A j \in DOMAIN t[i].cmds :
                               /\ j + Skipped(calls, i) \in DOMAIN calls[i].cmds
                               /\ t[i].cmds[j] = calls[i].cmds[j + Skipped(calls, i)]
      BY <2>5, <2>8, ZenonT(30) DEF IsRest
    <3>2. CASE i = 1
      <4>1. \A j \in 1..(m - 1) : j + 1 \in 1..m
        BY <2>1
      <4> QED
        BY <1>1, <2>2, <2>5, <2>8, <2>9, <2>11, <3>2, <4>1, Zenon
    <3>3. CASE i # 1
      <4>1. i \in 2..l
        BY <1>1, <3>3
      <4>2. t[i] = calls[i] /\ Skipped(calls, i) = 0
        BY <2>5, <2>8, <4>1, ZenonT(20)
      <4>3. \A j \in DOMAIN calls[i].cmds : j + 0 = j
        BY <2>10, <4>1
      <4> QED
        BY <1>1, <4>2, <4>3, ZenonT(20)
    <3> QED
      BY <3>2, <3>3, ZenonT(20)
  <2> QED
    BY <2>6, <2>7, <2>12, ZenonT(20)
<1> QED
  BY <1>3, <1>4, Zenon

\* Calls in order after what was executed stay so when a command is executed.
LEMMA RestOrdered ==
    ASSUME NEW calls \in Seq(Tasks), calls # <<>>,
           NEW done \in Seq(Command), InOrder(done, calls)
    PROVE  /\ InOrder(done, Rest(calls))
           /\ calls[1].op = "Exec" => InOrder(Append(done, calls[1].cmds[1]), Rest(calls))
<1>0. /\ Ordered(done)
      /\ \A i \in DOMAIN calls : calls[i].op = "Exec" =>
           /\ Ordered(calls[i].cmds)
           /\ Follows(done, calls[i].cmds)
           /\ \A k \in DOMAIN calls : calls[k].op = "Exec" /\ i < k =>
                Follows(calls[i].cmds, calls[k].cmds)
  BY Zenon DEF InOrder, Execs
<1> DEFINE rest == Rest(calls)
           x == calls[1].cmds[1]
           more == Append(done, x)
           src(i) == Source(calls, i)
           sk(i) == Skipped(calls, i)
<1>1. rest \in Seq(Tasks) /\ IsRest(calls, rest)
  BY RestFacts, Zenon
<1>2. calls[1] \in Tasks /\ 1 \in DOMAIN calls
  OBVIOUS
<1>3. calls[1].cmds \in Seq(Command) /\ 1 \in DOMAIN calls[1].cmds /\ x \in Command
  BY <1>2 DEF Tasks
<1>4. /\ DOMAIN more = 1..(Len(done) + 1) /\ DOMAIN done = 1..Len(done) /\ Len(done) \in Nat
      /\ more[Len(done) + 1] = x /\ \A i \in 1..Len(done) : more[i] = done[i]
  BY <1>3
<1> HIDE DEF rest, x, more
<1>5. \A i \in DOMAIN rest : i \in Nat /\ i >= 1 /\ \A j \in DOMAIN rest[i].cmds : j \in Nat /\ j >= 1
  <2>1. \A i \in DOMAIN rest : i \in Nat /\ i >= 1 /\ rest[i] \in Tasks
    BY <1>1, SMTT(30)
  <2> QED
    BY <2>1 DEF Tasks
<1>6. \A i \in DOMAIN rest :
         /\ src(i) \in DOMAIN calls /\ src(i) >= 1 /\ sk(i) \in {0, 1}
         /\ rest[i].op = calls[src(i)].op
         /\ \A j \in DOMAIN rest[i].cmds :
              /\ j + sk(i) \in DOMAIN calls[src(i)].cmds
              /\ rest[i].cmds[j] = calls[src(i)].cmds[j + sk(i)]
  <2>1. \A i \in DOMAIN rest : src(i) >= 1 /\ sk(i) \in {0, 1}
    BY <1>5 DEF Source, Skipped
  <2> QED
    BY <1>1, <2>1, ZenonT(30) DEF IsRest
<1>7. \A i \in DOMAIN rest : src(i) = 1 => sk(i) = 1
  BY <1>5 DEF Source, Skipped
<1>8. \A i, k \in DOMAIN rest : i < k => src(i) < src(k)
  BY <1>5, SMTT(30) DEF Source
<1> HIDE DEF src, sk
<1>9. ASSUME NEW i \in DOMAIN rest, rest[i].op = "Exec"
      PROVE  /\ Ordered(rest[i].cmds)
             /\ Follows(done, rest[i].cmds)
             /\ calls[1].op = "Exec" => \A j \in DOMAIN rest[i].cmds : Before(x, rest[i].cmds[j])
             /\ \A k \in DOMAIN rest : rest[k].op = "Exec" /\ i < k =>
                  Follows(rest[i].cmds, rest[k].cmds)
  <2>1. /\ Ordered(calls[src(i)].cmds)
        /\ Follows(done, calls[src(i)].cmds)
    BY <1>0, <1>6, <1>9, ZenonT(20)
  <2>2. Ordered(rest[i].cmds)
    <3>1. SUFFICES ASSUME NEW a \in DOMAIN rest[i].cmds, NEW b \in DOMAIN rest[i].cmds, a < b
                   PROVE  Before(rest[i].cmds[a], rest[i].cmds[b])
      BY ZenonT(30) DEF Ordered
    <3>2. a + sk(i) < b + sk(i)
      <4>1. a \in Nat /\ b \in Nat /\ sk(i) \in {0, 1}
        BY <1>5, <1>6, ZenonT(20)
      <4> QED
        BY <3>1, <4>1, SMTT(30)
    <3> QED
      BY <1>6, <2>1, <3>2, ZenonT(20) DEF Ordered
  <2>3. Follows(done, rest[i].cmds)
    BY <1>6, <2>1, ZenonT(20) DEF Follows
  <2>4. ASSUME calls[1].op = "Exec", NEW j \in DOMAIN rest[i].cmds
        PROVE  Before(x, rest[i].cmds[j])
    <3>1. CASE src(i) = 1
      <4>1. 1 < j + sk(i)
        BY <1>5, <1>7, <3>1
      <4>2. Ordered(calls[1].cmds)
        BY <2>1, <3>1, ZenonT(20)
      <4>3. /\ j + sk(i) \in DOMAIN calls[1].cmds
            /\ rest[i].cmds[j] = calls[1].cmds[j + sk(i)]
        BY <1>6, <3>1, ZenonT(20)
      <4> QED
        BY <1>3, <4>1, <4>2, <4>3, ZenonT(20) DEF Ordered, x
    <3>2. CASE src(i) # 1
      <4>1. 1 < src(i)
        BY <1>6, <3>2, SMTT(30)
      <4>2. Follows(calls[1].cmds, calls[src(i)].cmds)
        BY <1>0, <1>2, <1>6, <1>9, <2>4, <4>1, ZenonT(20)
      <4> QED
        BY <1>3, <1>6, <4>2, ZenonT(20) DEF Follows, x
    <3> QED
      BY <3>1, <3>2, ZenonT(20)
  <2>5. ASSUME NEW k \in DOMAIN rest, rest[k].op = "Exec", i < k
        PROVE  Follows(rest[i].cmds, rest[k].cmds)
    <3>1. Follows(calls[src(i)].cmds, calls[src(k)].cmds)
      BY <1>0, <1>6, <1>8, <1>9, <2>5, Zenon
    <3> QED
      BY <1>6, <3>1, ZenonT(30) DEF Follows
  <2> QED
    BY <2>2, <2>3, <2>4, <2>5, ZenonT(20)
<1>10. ASSUME calls[1].op = "Exec", NEW i \in DOMAIN rest, rest[i].op = "Exec"
       PROVE  Follows(more, rest[i].cmds)
  <2>1. SUFFICES ASSUME NEW a \in DOMAIN more, NEW b \in DOMAIN rest[i].cmds
                 PROVE  Before(more[a], rest[i].cmds[b])
    BY Zenon DEF Follows
  <2>2. a = Len(done) + 1 \/ a \in 1..Len(done)
    BY <1>4, SMTT(30)
  <2>3. CASE a = Len(done) + 1
    BY <1>4, <1>9, <1>10, <2>3, ZenonT(20)
  <2>4. CASE a \in 1..Len(done)
    BY <1>4, <1>9, <1>10, <2>4, ZenonT(20) DEF Follows
  <2> QED
    BY <2>2, <2>3, <2>4, ZenonT(30)
<1>11. ASSUME calls[1].op = "Exec" PROVE Ordered(more)
  <2>1. SUFFICES ASSUME NEW a \in DOMAIN more, NEW b \in DOMAIN more, a < b
                 PROVE  Before(more[a], more[b])
    BY ZenonT(20) DEF Ordered
  <2>2. a \in 1..Len(done) /\ (b = Len(done) + 1 \/ b \in 1..Len(done))
    BY <1>4, <2>1
  <2>3. CASE b = Len(done) + 1
    <3>1. Follows(done, calls[1].cmds)
      BY <1>0, <1>2, <1>11, ZenonT(20)
    <3> QED
      BY <1>3, <1>4, <2>2, <2>3, <3>1, ZenonT(20) DEF Follows, x
  <2>4. CASE b \in 1..Len(done)
    BY <1>0, <1>4, <2>1, <2>2, <2>4, ZenonT(20) DEF Ordered
  <2> QED
    BY <2>2, <2>3, <2>4, ZenonT(30)
<1>12. InOrder(done, rest)
  BY <1>0, <1>9, ZenonT(20) DEF InOrder, Execs
<1>13. calls[1].op = "Exec" => InOrder(more, rest)
  BY <1>9, <1>10, <1>11, ZenonT(20) DEF InOrder, Execs
<1> QED
  BY <1>12, <1>13, ZenonT(30) DEF rest, x, more

\* The calls left still come from committed blocks.
LEMMA RestFromChain ==
    ASSUME NEW calls \in Seq(Tasks), calls # <<>>, NEW done \in Seq(Command),
           NEW blocks, NEW n, FromChain(done, calls, blocks, n)
    PROVE  /\ FromChain(done, Rest(calls), blocks, n)
           /\ calls[1].op = "Exec" =>
                FromChain(Append(done, calls[1].cmds[1]), Rest(calls), blocks, n)
<1> DEFINE rest == Rest(calls)
           x == calls[1].cmds[1]
           more == Append(done, x)
<1>1. rest \in Seq(Tasks) /\ IsRest(calls, rest)
  BY RestFacts, Zenon
<1>2. calls[1] \in Tasks /\ 1 \in DOMAIN calls
  OBVIOUS
<1>3. x \in Command /\ 1 \in DOMAIN calls[1].cmds
  BY <1>2 DEF Tasks
<1>4. /\ DOMAIN more = 1..(Len(done) + 1) /\ DOMAIN done = 1..Len(done) /\ Len(done) \in Nat
      /\ more[Len(done) + 1] = x /\ \A i \in 1..Len(done) : more[i] = done[i]
  BY <1>3, SMTT(30)
<1> HIDE DEF rest, x, more
<1>5. \A i \in Execs(rest) : \A j \in DOMAIN rest[i].cmds : Committed(blocks, n, rest[i].cmds[j])
  <2>1. SUFFICES ASSUME NEW i \in DOMAIN rest, rest[i].op = "Exec", NEW j \in DOMAIN rest[i].cmds
                 PROVE  Committed(blocks, n, rest[i].cmds[j])
    BY Zenon DEF Execs
  <2>2. /\ Source(calls, i) \in DOMAIN calls /\ calls[Source(calls, i)].op = "Exec"
        /\ j + Skipped(calls, i) \in DOMAIN calls[Source(calls, i)].cmds
        /\ rest[i].cmds[j] = calls[Source(calls, i)].cmds[j + Skipped(calls, i)]
    BY <1>1, <2>1, ZenonT(20) DEF IsRest
  <2> QED
    BY <2>2, ZenonT(30) DEF FromChain, Execs
<1>6. FromChain(done, rest, blocks, n)
  BY <1>5, ZenonT(20) DEF FromChain
<1>7. ASSUME calls[1].op = "Exec" PROVE FromChain(more, rest, blocks, n)
  <2>1. Committed(blocks, n, x)
    BY <1>2, <1>3, <1>7, ZenonT(20) DEF FromChain, Execs, x
  <2>2. ASSUME NEW i \in DOMAIN more PROVE Committed(blocks, n, more[i])
    <3>1. i = Len(done) + 1 \/ i \in 1..Len(done)
      BY <1>4
    <3> QED
      BY <1>4, <2>1, <3>1, ZenonT(20) DEF FromChain
  <2> QED
    BY <1>5, <2>2, ZenonT(20) DEF FromChain
<1> QED
  BY <1>6, <1>7, ZenonT(30) DEF rest, x, more

\* What SubSeq cuts out.
LEMMA Part ==
    ASSUME NEW S, NEW s \in Seq(S), NEW a \in Nat, NEW b \in Nat, a <= b, b <= Len(s)
    PROVE  /\ SubSeq(s, a + 1, b) \in Seq(S)
           /\ Len(SubSeq(s, a + 1, b)) = b - a
           /\ DOMAIN SubSeq(s, a + 1, b) = 1..(b - a)
           /\ \A i \in 1..(b - a) : a + i \in 1..Len(s) /\ SubSeq(s, a + 1, b)[i] = s[a + i]
<1>1. Len(s) \in Nat /\ DOMAIN s = 1..Len(s)
  OBVIOUS
<1>2. SubSeq(s, a + 1, b) = [i \in 1..(b - a) |-> s[a + i]]
  <2>1. SubSeq(s, a + 1, b) = [i \in 1..(1 + b - (a + 1)) |-> s[i + (a + 1) - 1]]
    BY DEF SubSeq
  <2>2. 1 + b - (a + 1) = b - a /\ \A i \in 1..(b - a) : i + (a + 1) - 1 = a + i
    OBVIOUS
  <2> QED
    BY <2>1, <2>2, ZenonT(30)
<1>3. \A i \in 1..(b - a) : a + i \in 1..Len(s)
  BY <1>1
<1>4. b - a \in Nat
  OBVIOUS
<1> DEFINE t == SubSeq(s, a + 1, b)
           n == b - a
<1>5. t \in [1..n -> S]
  <2>1. \A i \in 1..n : s[a + i] \in S
    <3>1. \A j \in 1..Len(s) : s[j] \in S
      OBVIOUS
    <3> QED
      BY <1>3, <3>1, ZenonT(30)
  <2>2. t = [i \in 1..n |-> s[a + i]]
    BY <1>2, ZenonT(30)
  <2> HIDE DEF t, n
  <2> QED
    BY <2>1, <2>2, ZenonT(30)
<1>6. t \in Seq(S) /\ Len(t) = n
  <2> HIDE DEF t, n
  <2> QED
    BY <1>4, <1>5, SMTT(30) DEF n
<1> QED
  BY <1>2, <1>3, <1>6, ZenonT(30)

\* What is proposed stays proposed when the serial numbers rise.
LEMMA KnowsGrows ==
    ASSUME NEW old \in [Client -> 0..MaxNumber], NEW new \in [Client -> 0..MaxNumber],
           \A c \in Client : new[c] >= old[c],
           NEW batch \in Batches, Knows(old, batch)
    PROVE  Knows(new, batch)
<1>1. SUFFICES ASSUME NEW i \in DOMAIN batch
               PROVE  new[batch[i][1]] >= batch[i][2]
  BY Zenon DEF Knows
<1>2. batch[i] \in Command
  BY BatchTypes
<1>3. batch[i][1] \in Client /\ batch[i][2] \in Nat
  BY <1>2 DEF Command, Numbers
<1>4. MaxNumber \in Nat
  BY CallsAssumption, ZenonT(20)
<1>5. new[batch[i][1]] >= old[batch[i][1]]
  BY <1>3, ZenonT(20)
<1>6. old[batch[i][1]] \in Nat /\ new[batch[i][1]] \in Nat
  BY <1>3, <1>4
<1>7. old[batch[i][1]] >= batch[i][2]
  BY Zenon DEF Knows
<1> QED
  BY <1>3, <1>5, <1>6, <1>7, SMTT(30)

\* The blocks of a chain and their batches.
LEMMA BlocksTyped ==
    ASSUME NEW blocks \in Seq(Blocks)
    PROVE  /\ Len(blocks) \in Nat /\ DOMAIN blocks = 1..Len(blocks)
           /\ \A k \in DOMAIN blocks : /\ blocks[k] \in Blocks
                                       /\ blocks[k].batch \in Batches
                                       /\ blocks[k].stored \in SUBSET Replica
<1>1. /\ Len(blocks) \in Nat /\ DOMAIN blocks = 1..Len(blocks)
      /\ \A k \in DOMAIN blocks : blocks[k] \in Blocks
  BY SMTT(30)
<1> QED
  BY <1>1, Zenon DEF Blocks

\* What the chain says of the serial numbers of replicas, which only grow, stays.
LEMMA GrowChain ==
    ASSUME NEW old \in Serials, NEW new \in Serials,
           \A r \in Replica, c \in Client : new[r][c] >= old[r][c],
           NEW blocks \in Seq(Blocks)
    PROVE  /\ ChainOK(blocks, old) => ChainOK(blocks, new)
           /\ \A p \in Blocks : ProposalOK(p, blocks, old) => ProposalOK(p, blocks, new)
<1>1. ASSUME NEW k \in DOMAIN blocks, NEW r \in Replica, Knows(old[r], blocks[k].batch)
      PROVE  Knows(new[r], blocks[k].batch)
  <2>1. blocks[k].batch \in Batches
    BY BlocksTyped, Zenon
  <2>2. old[r] \in [Client -> 0..MaxNumber] /\ new[r] \in [Client -> 0..MaxNumber]
    BY ZenonT(20) DEF Serials
  <2> QED
    BY <1>1, <2>1, <2>2, KnowsGrows, Zenon
<1>2. ASSUME ChainOK(blocks, old), NEW k \in DOMAIN blocks, k > 1, NEW r \in blocks[k].stored
      PROVE  Knows(new[r], blocks[k - 1].batch)
  <2>1. k - 1 \in DOMAIN blocks /\ r \in Replica
    BY <1>2, BlocksTyped, SMTT(30)
  <2>2. Knows(old[r], blocks[k - 1].batch)
    BY <1>2, ZenonT(20) DEF ChainOK
  <2> QED
    BY <1>1, <2>1, <2>2, ZenonT(20)
<1>3. ASSUME NEW p \in Blocks, ProposalOK(p, blocks, old), NEW r \in p.stored,
             NEW k \in DOMAIN blocks, k = Len(blocks)
      PROVE  Knows(new[r], blocks[k].batch)
  <2>1. r \in Replica
    BY <1>3, ZenonT(30) DEF Blocks
  <2> QED
    BY <1>1, <1>3, <2>1, ZenonT(20) DEF ProposalOK
<1>4. ASSUME ChainOK(blocks, old) PROVE ChainOK(blocks, new)
  BY <1>2, <1>4, ZenonT(40) DEF ChainOK
<1>5. ASSUME NEW p \in Blocks, ProposalOK(p, blocks, old) PROVE ProposalOK(p, blocks, new)
  BY <1>3, <1>5, Zenon DEF ProposalOK
<1> QED
  BY <1>4, <1>5, ZenonT(30)

\* A batch that is accepted comes after a block whose commands count as proposed.
LEMMA AcceptFollows ==
    ASSUME NEW serials \in [Client -> 0..MaxNumber], NEW old \in Batches, NEW new \in Batches,
           Knows(serials, old), Accept(serials, new)
    PROVE  Follows(old, new)
<1>1. SUFFICES ASSUME NEW i \in DOMAIN old, NEW j \in DOMAIN new
               PROVE  Before(old[i], new[j])
  BY ZenonT(30) DEF Follows
<1> DEFINE x == old[i]
           y == new[j]
<1>2. x \in Command /\ y \in Command
  <2>1. old \in Seq(Command) /\ new \in Seq(Command)
    BY BatchTypes, ZenonT(20)
  <2> QED
    BY <2>1
<1>3. x[1] \in Client /\ x[2] \in Nat /\ y[1] \in Client /\ y[2] \in Nat
  BY <1>2 DEF Command, Numbers
<1>4. serials[x[1]] >= x[2]
  BY Zenon DEF Knows
<1>5. ~(serials[y[1]] >= y[2])
  BY ZenonT(20) DEF Accept, TooOld
<1>6. serials[x[1]] \in Nat
  BY <1>3, CallsAssumption
<1> HIDE DEF x, y
<1>7. x[1] = y[1] => x[2] < y[2]
  BY <1>3, <1>4, <1>5, <1>6, SMTT(30)
<1> QED
  BY <1>7, Zenon DEF Before, x, y

\* A replica whose serial numbers include the top of the chain accepts a proposal.
LEMMA StoredProposal ==
    ASSUME NEW serials \in Serials, NEW blocks \in Seq(Blocks), NEW r \in Replica,
           ChainOK(blocks, serials),
           \A k \in DOMAIN blocks : k = Len(blocks) => Knows(serials[r], blocks[k].batch),
           NEW p \in Blocks, ProposalOK(p, blocks, serials), Accept(serials[r], p.batch),
           NEW q, q.batch = p.batch, q.below = p.below, q.stored = p.stored \cup {r}
    PROVE  ProposalOK(q, blocks, serials)
<1>1. /\ p.below = Len(blocks)
      /\ Ordered(p.batch)
      /\ \A s \in p.stored, k \in DOMAIN blocks :
           /\ k = Len(blocks) => Knows(serials[s], blocks[k].batch)
           /\ k = Len(blocks) \/ s \in blocks[k + 1].stored => Follows(blocks[k].batch, p.batch)
  BY ZenonT(40) DEF ProposalOK
<1>2. ASSUME NEW k \in DOMAIN blocks, k = Len(blocks) \/ r \in blocks[k + 1].stored
      PROVE  Follows(blocks[k].batch, p.batch)
  <2>1. Knows(serials[r], blocks[k].batch)
    <3>1. CASE k # Len(blocks)
      <4> DEFINE l == k + 1
      <4>1. l \in DOMAIN blocks /\ l > 1 /\ l - 1 = k /\ r \in blocks[l].stored
        BY <1>2, <3>1, BlocksTyped, SMTT(30)
      <4> HIDE DEF l
      <4>2. Knows(serials[r], blocks[l - 1].batch)
        BY <4>1, Zenon DEF ChainOK
      <4> QED
        BY <4>1, <4>2, ZenonT(20)
    <3> QED
      BY <3>1, ZenonT(20)
  <2>2. blocks[k].batch \in Batches /\ p.batch \in Batches
    BY BlocksTyped, ZenonT(40) DEF Blocks
  <2>3. serials[r] \in [Client -> 0..MaxNumber]
    BY Zenon DEF Serials
  <2> QED
    BY <2>1, <2>2, <2>3, AcceptFollows, ZenonT(40)
<1> QED
  BY <1>1, <1>2, ZenonT(40) DEF ProposalOK

\* A certified proposal continues the chain: any block below it and the proposal
\* were accepted by one replica.
LEMMA ChainAppended ==
    ASSUME SetFacts, NEW blocks \in Seq(Blocks), NEW serials, ChainOK(blocks, serials),
           NEW p \in Blocks, ProposalOK(p, blocks, serials), IsQuorum(p.stored)
    PROVE  ChainOK(Append(blocks, p), serials)
<1> DEFINE n == Len(blocks)
           more == Append(blocks, p)
<1>1. n \in Nat /\ DOMAIN blocks = 1..n /\ \A k \in 1..n : blocks[k].stored \in SUBSET Replica
  BY BlocksTyped, Zenon
<1>2. p.stored \in SUBSET Replica
  BY Zenon DEF Blocks
<1>3. /\ DOMAIN more = 1..(n + 1) /\ more[n + 1] = p
      /\ \A k \in 1..n : more[k] = blocks[k]
  OBVIOUS
<1> HIDE DEF n, more
<1>4. ASSUME NEW k \in 1..n PROVE Follows(blocks[k].batch, p.batch)
  <2>1. CASE k = n
    <3>1. PICK r \in p.stored : TRUE
      BY <1>2, QuorumMember, ZenonT(20)
    <3> QED
      BY <1>1, <2>1, <3>1, ZenonT(20) DEF ProposalOK, n
  <2>2. CASE k # n
    <3>1. k + 1 \in 1..n
      BY <1>1, <2>2, SMTT(30)
    <3>2. IsQuorum(blocks[k + 1].stored)
      BY <1>1, <3>1, ZenonT(20) DEF ChainOK
    <3>3. PICK r \in p.stored : r \in blocks[k + 1].stored
      BY <1>1, <1>2, <3>1, <3>2, QuorumsMeet, ZenonT(20)
    <3> QED
      BY <1>1, <3>3, ZenonT(20) DEF ProposalOK
  <2> QED
    BY <2>1, <2>2, ZenonT(20)
<1>5. \A k \in 1..(n + 1) : k = n + 1 \/ k \in 1..n
  BY <1>1, SMTT(30)
<1>6. ASSUME NEW k \in 1..(n + 1)
      PROVE  /\ more[k].below = k - 1
             /\ IsQuorum(more[k].stored)
             /\ Ordered(more[k].batch)
             /\ \A l \in 1..(n + 1) : k < l => Follows(more[k].batch, more[l].batch)
             /\ k > 1 => \A r \in more[k].stored : Knows(serials[r], more[k - 1].batch)
  <2>1. CASE k = n + 1
    <3>1. more[k] = p
      BY <1>3, <2>1, ZenonT(40)
    <3>2. /\ p.below = n /\ Ordered(p.batch)
          /\ n \in 1..n => \A r \in p.stored : Knows(serials[r], blocks[n].batch)
      BY <1>1, Zenon DEF ProposalOK, n
    <3>3. k - 1 = n /\ ~ \E l \in 1..(n + 1) : k < l
      BY <1>1, <2>1, SMTT(30)
    <3>4. k > 1 => n \in 1..n
      BY <1>1, <2>1, SMTT(30)
    <3> QED
      BY <1>3, <3>1, <3>2, <3>3, <3>4, ZenonT(40)
  <2>2. CASE k \in 1..n
    <3>1. /\ blocks[k].below = k - 1
          /\ IsQuorum(blocks[k].stored)
          /\ Ordered(blocks[k].batch)
          /\ \A l \in 1..n : k < l => Follows(blocks[k].batch, blocks[l].batch)
          /\ k > 1 => \A r \in blocks[k].stored : Knows(serials[r], blocks[k - 1].batch)
      BY <1>1, <2>2, ZenonT(40) DEF ChainOK
    <3>2. more[k] = blocks[k]
      BY <1>3, <2>2, Zenon
    <3>3. k > 1 => k - 1 \in 1..n
      BY <1>1, <2>2, SMTT(30)
    <3>4. \A l \in 1..(n + 1) : k < l => Follows(more[k].batch, more[l].batch)
      BY <1>3, <1>4, <1>5, <2>2, <3>1, <3>2, ZenonT(40)
    <3>5. k > 1 => \A r \in more[k].stored : Knows(serials[r], more[k - 1].batch)
      BY <1>3, <3>1, <3>2, <3>3, Zenon
    <3> QED
      BY <3>1, <3>2, <3>4, <3>5, ZenonT(30)
  <2> QED
    BY <1>5, <2>1, <2>2, ZenonT(40)
<1> QED
  BY <1>3, <1>6, ZenonT(40) DEF ChainOK, more

\* A chain whose top is given up.
LEMMA ChainCut ==
    ASSUME NEW blocks \in Seq(Blocks), NEW serials, ChainOK(blocks, serials),
           NEW low, NEW m \in Nat, m <= Len(blocks),
           DOMAIN low = 1..m, \A k \in 1..m : low[k] = blocks[k]
    PROVE  ChainOK(low, serials)
<1>1. 1..m \subseteq DOMAIN blocks /\ \A k \in 1..m : k > 1 => k - 1 \in 1..m
  BY BlocksTyped
<1> QED
  BY <1>1, Zenon DEF ChainOK

(***************************************************************************)
(* The steps of the client servers.                                        *)
(***************************************************************************)

\* A command reaches a client server.
LEMMA ExecCommandStep ==
    ASSUME CommandsInv, NEW r \in Replica, NEW c \in Client, ExecCommand(r, c)
    PROVE  ServerTypeOK' /\ Cached'
<1>0. CallsTypeOK /\ ServerTypeOK /\ CacheTypeOK /\ Cached
  BY TypeParts, ZenonT(20) DEF CommandsInv
<1> DEFINE n == delivered[r][c] + 1
<1>1. /\ UNCHANGED <<cache, todo, hash>>
      /\ adding[r][c] = 0 /\ n < num[c]
      /\ delivered' = [delivered EXCEPT ![r][c] = n]
      /\ adding' = [adding EXCEPT ![r][c] = n]
      /\ awaitingCmds' = [awaitingCmds EXCEPT ![r] = @ \cup {<<c, n>>}]
  BY ZenonT(20) DEF ExecCommand, Arrives, cacheVars
<1>2. delivered[r][c] \in Nat /\ n \in 1..MaxNumber /\ MaxNumber \in Nat
  <2>1. num[c] \in 1..(MaxNumber + 1) /\ delivered[r][c] \in 0..MaxNumber /\ MaxNumber \in Nat
    BY <1>0, CallsAssumption, ZenonT(20) DEF CallsTypeOK, ServerTypeOK
  <2> QED
    BY <1>1, <2>1
<1>3. n > delivered[r][c]
  BY <1>2, SMTT(30)
<1> HIDE DEF n
<1>4. ServerTypeOK'
  <2>1. <<c, n>> \in Command /\ n \in 0..MaxNumber
    BY <1>2, SMTT(30) DEF Command, Numbers
  <2>2. /\ delivered \in [Replica -> [Client -> 0..MaxNumber]]
        /\ adding \in [Replica -> [Client -> 0..MaxNumber]]
        /\ awaitingCmds \in [Replica -> SUBSET Command]
    BY <1>0, ZenonT(20) DEF ServerTypeOK
  <2>3. delivered' \in [Replica -> [Client -> 0..MaxNumber]]
    BY <1>1, <2>1, <2>2, ZenonT(20)
  <2>4. adding' \in [Replica -> [Client -> 0..MaxNumber]]
    BY <1>1, <2>1, <2>2, ZenonT(30)
  <2>5. awaitingCmds' \in [Replica -> SUBSET Command]
    BY <1>1, <2>1, <2>2, Zenon
  <2> QED
    BY <1>0, <1>1, <2>3, <2>4, <2>5, Zenon DEF ServerTypeOK
<1>5. \A s \in Replica, d \in Client :
         /\ delivered'[s][d] = (IF s = r /\ d = c THEN n ELSE delivered[s][d])
         /\ adding'[s][d] = (IF s = r /\ d = c THEN n ELSE adding[s][d])
  BY <1>0, <1>1, ZenonT(30) DEF ServerTypeOK
<1>6. ASSUME NEW s \in Replica
      PROVE  /\ Ordered(cache[s])'
             /\ \A i \in DOMAIN cache'[s] :
                  /\ cache'[s][i][2] <= delivered'[s][cache'[s][i][1]]
                  /\ adding'[s][cache'[s][i][1]] # 0 =>
                       cache'[s][i][2] < adding'[s][cache'[s][i][1]]
             /\ \A d \in Client : adding'[s][d] \in {0, delivered'[s][d]}
  <2>1. Ordered(cache[s])'
    BY <1>0, <1>1, Zenon DEF Cached, Ordered, Before
  <2>2. ASSUME NEW i \in DOMAIN cache[s]
        PROVE  /\ cache[s][i][2] <= delivered'[s][cache[s][i][1]]
               /\ adding'[s][cache[s][i][1]] # 0 => cache[s][i][2] < adding'[s][cache[s][i][1]]
    <3> DEFINE x == cache[s][i]
    <3>1. x \in Command
      BY <1>0, SMTT(30) DEF CacheTypeOK
    <3>2. x[1] \in Client /\ x[2] \in Nat
      BY <3>1 DEF Command, Numbers
    <3>3. /\ x[2] <= delivered[s][x[1]]
          /\ adding[s][x[1]] # 0 => x[2] < adding[s][x[1]]
      BY <1>0, ZenonT(40) DEF Cached
    <3> HIDE DEF x
    <3>4. CASE s = r /\ x[1] = c
      <4>1. delivered'[s][x[1]] = n /\ adding'[s][x[1]] = n /\ x[2] <= delivered[r][c]
        BY <1>5, <3>2, <3>3, <3>4, Zenon
      <4>2. x[2] <= n /\ x[2] < n
        BY <1>2, <1>3, <3>2, <4>1
      <4> QED
        BY <4>1, <4>2, Zenon DEF x
    <3>5. CASE ~(s = r /\ x[1] = c)
      BY <1>5, <3>2, <3>3, <3>5, ZenonT(40) DEF x
    <3> QED
      BY <3>4, <3>5, Zenon
  <2>3. \A d \in Client : adding'[s][d] \in {0, delivered'[s][d]}
    BY <1>0, <1>5, ZenonT(40) DEF Cached
  <2> QED
    BY <1>1, <2>1, <2>2, <2>3, ZenonT(40)
<1>7. Cached'
  BY <1>6, Zenon DEF Cached
<1> QED
  BY <1>4, <1>7, Zenon

\* A client server adds its command to the command cache.
LEMMA ExecCommandAddsStep ==
    ASSUME CommandsInv, NEW r \in Replica, NEW c \in Client, ExecCommandAdds(r, c)
    PROVE  ServerTypeOK' /\ CacheTypeOK' /\ Cached' /\ UNCHANGED serialNumbers
<1>0. ServerTypeOK /\ CacheTypeOK /\ Cached
  BY TypeParts, ZenonT(20) DEF CommandsInv
<1> DEFINE n == adding[r][c]
           cmd == <<c, n>>
<1>1. /\ UNCHANGED <<delivered, awaitingCmds, todo, hash>>
      /\ n # 0
      /\ adding' = [adding EXCEPT ![r][c] = 0]
      /\ AddCommand(r, cmd)
  BY ZenonT(20) DEF ExecCommandAdds
<1>2. n = delivered[r][c] /\ n \in 1..MaxNumber
  <2>1. n \in 0..MaxNumber /\ n \in {0, delivered[r][c]}
    BY <1>0, Zenon DEF ServerTypeOK, Cached
  <2> QED
    BY <1>1, <2>1, CallsAssumption, SMTT(30)
<1>3. cmd \in Command /\ cmd[1] = c /\ cmd[2] = n
  BY <1>2, ZenonT(20) DEF Command, Numbers
<1>4. ServerTypeOK'
  <2>1. adding' \in [Replica -> [Client -> 0..MaxNumber]]
    <3>1. 0 \in 0..MaxNumber
      BY CallsAssumption, SMTT(30)
    <3> QED
      BY <1>0, <1>1, <3>1, ZenonT(30) DEF ServerTypeOK
  <2> QED
    BY <1>0, <1>1, <2>1, ZenonT(20) DEF ServerTypeOK
<1>5. UNCHANGED serialNumbers
  BY <1>1, ZenonT(20) DEF AddCommand, cacheVars
<1>6. \/ UNCHANGED cache
      \/ cache' = [cache EXCEPT ![r] = Append(@, cmd)]
  BY <1>1, Zenon DEF AddCommand, cacheVars
<1>7. CacheTypeOK'
  <2>1. getter' \in [Replica -> {"none", "lock", "unlocked", "waiting"}]
    <3>1. CASE UNCHANGED getter
      BY <1>0, <3>1, ZenonT(30) DEF CacheTypeOK
    <3>2. CASE getter' = [getter EXCEPT ![r] =
                 IF @ = "waiting" /\ Len(cache'[r]) >= BatchSize THEN "lock" ELSE @]
      BY <1>0, <3>2, ZenonT(30) DEF CacheTypeOK
    <3> QED
      BY <1>1, <3>1, <3>2, ZenonT(30) DEF AddCommand, cacheVars
  <2>2. cache' \in [Replica -> Seq(Command)]
    <3>1. Append(cache[r], cmd) \in Seq(Command)
      <4>1. cache[r] \in Seq(Command)
        BY <1>0, ZenonT(20) DEF CacheTypeOK
      <4> HIDE DEF cmd
      <4> QED
        BY <1>3, <4>1
    <3> HIDE DEF cmd
    <3> QED
      BY <1>0, <1>6, <3>1, Zenon DEF CacheTypeOK
  <2> QED
    BY <1>0, <1>5, <2>1, <2>2, ZenonT(20) DEF CacheTypeOK
<1>8. \A s \in Replica, d \in Client :
         adding'[s][d] = (IF s = r /\ d = c THEN 0 ELSE adding[s][d])
  BY <1>0, <1>1, ZenonT(20) DEF ServerTypeOK
<1>9. ASSUME NEW s \in Replica, NEW i \in DOMAIN cache[s]
      PROVE  /\ cache[s][i] \in Command
             /\ cache[s][i][1] \in Client /\ cache[s][i][2] \in Nat
             /\ cache[s][i][2] <= delivered[s][cache[s][i][1]]
             /\ adding[s][cache[s][i][1]] # 0 => cache[s][i][2] < adding[s][cache[s][i][1]]
  <2>1. cache[s][i] \in Command
    BY <1>0, SMTT(30) DEF CacheTypeOK
  <2>2. cache[s][i][1] \in Client /\ cache[s][i][2] \in Nat
    BY <2>1, SMTT(30) DEF Command, Numbers
  <2> QED
    BY <1>0, <2>1, <2>2, Zenon DEF Cached
<1> HIDE DEF n, cmd
<1>10. ASSUME NEW s \in Replica
       PROVE  /\ Ordered(cache[s])'
              /\ \A i \in DOMAIN cache'[s] :
                   /\ cache'[s][i][2] <= delivered'[s][cache'[s][i][1]]
                   /\ adding'[s][cache'[s][i][1]] # 0 =>
                        cache'[s][i][2] < adding'[s][cache'[s][i][1]]
              /\ \A d \in Client : adding'[s][d] \in {0, delivered'[s][d]}
  <2>1. \A d \in Client : adding'[s][d] \in {0, delivered'[s][d]}
    BY <1>0, <1>1, <1>8, SMTT(30) DEF Cached
  <2>2. \A i \in DOMAIN cache[s] :
           /\ cache[s][i][2] <= delivered'[s][cache[s][i][1]]
           /\ adding'[s][cache[s][i][1]] # 0 => cache[s][i][2] < adding'[s][cache[s][i][1]]
    BY <1>1, <1>8, <1>9, SMTT(30)
  <2>3. CASE cache'[s] = cache[s]
    BY <1>0, <2>1, <2>2, <2>3, Zenon DEF Cached, Ordered
  <2>4. CASE s = r /\ cache'[r] = Append(cache[r], cmd)
    <3> DEFINE q == cache[r]
               l == Len(q)
               q2 == cache'[r]
    <3>1. q \in Seq(Command) /\ l \in Nat /\ DOMAIN q = 1..l
      BY <1>0, SMTT(30) DEF CacheTypeOK
    <3>2. /\ DOMAIN q2 = 1..(l + 1) /\ q2[l + 1] = cmd
          /\ \A i \in 1..l : q2[i] = q[i]
      BY <1>3, <2>4, <3>1
    <3>3. Ordered(q)
      BY <1>0, ZenonT(40) DEF Cached
    <3>4. \A i \in 1..l : Before(q[i], cmd)
      <4>1. SUFFICES ASSUME NEW i \in 1..l, q[i][1] = c PROVE q[i][2] < n
        BY <1>3, Zenon DEF Before
      <4> QED
        BY <1>1, <1>9, <3>1, <4>1, ZenonT(40) DEF n
    <3> HIDE DEF q, l, q2
    <3>5. Ordered(q2)
      <4>1. SUFFICES ASSUME NEW i \in 1..(l + 1), NEW j \in 1..(l + 1), i < j
                     PROVE  Before(q2[i], q2[j])
        BY <3>2, ZenonT(20) DEF Ordered
      <4>2. CASE j = l + 1
        <5>1. i \in 1..l
          BY <3>1, <4>1, <4>2, SMTT(30)
        <5> QED
          BY <3>2, <3>4, <4>2, <5>1, ZenonT(20)
      <4>3. CASE j # l + 1
        <5>1. i \in 1..l /\ j \in 1..l
          BY <3>1, <4>1, <4>3, SMTT(30)
        <5> QED
          BY <3>1, <3>2, <3>3, <4>1, <5>1, ZenonT(20) DEF Ordered
      <4> QED
        BY <4>2, <4>3, ZenonT(20)
    <3>6. /\ cmd[2] <= delivered'[r][cmd[1]]
          /\ adding'[r][cmd[1]] = 0
      BY <1>1, <1>2, <1>3, <1>8, SMTT(30)
    <3>7. ASSUME NEW i \in 1..(l + 1)
          PROVE  /\ q2[i][2] <= delivered'[r][q2[i][1]]
                 /\ adding'[r][q2[i][1]] # 0 => q2[i][2] < adding'[r][q2[i][1]]
      <4>1. CASE i = l + 1
        BY <3>2, <3>6, <4>1, ZenonT(40)
      <4>2. CASE i # l + 1
        <5>1. i \in 1..l
          BY <3>1, <4>2, SMTT(30)
        <5>2. q2[i] = q[i] /\ i \in DOMAIN q
          BY <3>1, <3>2, <5>1, ZenonT(20)
        <5> QED
          BY <2>2, <2>4, <5>2, Zenon DEF q
      <4> QED
        BY <4>1, <4>2, ZenonT(40)
    <3> QED
      BY <2>1, <2>4, <3>2, <3>5, <3>7, Zenon DEF q2, Ordered
  <2>5. cache'[s] = cache[s] \/ (s = r /\ cache'[r] = Append(cache[r], cmd))
    BY <1>0, <1>6, ZenonT(20) DEF CacheTypeOK
  <2> QED
    BY <2>3, <2>4, <2>5, ZenonT(40)
<1>11. Cached'
  BY <1>10, Zenon DEF Cached
<1> QED
  BY <1>4, <1>5, <1>7, <1>11, Zenon

\* Exec and Fork handle the next command.
LEMMA RunTaskStep ==
    ASSUME SetFacts, CommandsInv, NEW r \in Replica, RunTask(r), UNCHANGED <<acked, chain, committed>>
    PROVE  CallsTypeOK' /\ ServerTypeOK' /\ Replies' /\ ExecInv'
<1>0. CallsTypeOK /\ ClientTypeOK /\ ServerTypeOK /\ Replies /\ ExecInv
  BY TypeParts, ZenonT(30) DEF CommandsInv
<1> DEFINE calls == todo[r]
           op == calls[1].op
           cmd == calls[1].cmds[1]
           more == Append(hash[r], cmd)
<1>1. calls \in Seq(Tasks) /\ calls # <<>>
  BY <1>0, Zenon DEF RunTask, ServerTypeOK
<1>2. Head(calls) = calls[1] /\ calls[1] \in Tasks /\ 1 \in DOMAIN calls
  BY <1>1, SMTT(30)
<1>3. /\ Head(calls[1].cmds) = cmd /\ cmd \in Command /\ op \in {"Exec", "Fork"}
      /\ 1 \in DOMAIN calls[1].cmds
  BY <1>2 DEF Tasks
<1>4. /\ \/ /\ op = "Exec"
            /\ hash' = [hash EXCEPT ![r] = more]
            /\ replied' \in {replied, [replied EXCEPT ![cmd] = @ \cup {r}]}
            /\ UNCHANGED refused
         \/ /\ op = "Fork"
            /\ refused' \in {refused, [refused EXCEPT ![cmd] = @ \cup {r}]}
            /\ UNCHANGED <<hash, replied>>
      /\ awaitingCmds' = [awaitingCmds EXCEPT ![r] = @ \ {cmd}]
      /\ todo' = [todo EXCEPT ![r] = Rest(calls)]
      /\ UNCHANGED <<num, delivered, adding>>
  BY <1>2, <1>3, ZenonT(40) DEF RunTask, Rest, cacheVars
<1>5. Rest(calls) \in Seq(Tasks) /\ IsRest(calls, Rest(calls))
  BY <1>1, RestFacts, ZenonT(20)
<1>6. hash[r] \in Seq(Command)
  BY <1>0, ZenonT(20) DEF ServerTypeOK
<1> HIDE DEF cmd
<1>7. /\ more \in Seq(Command) /\ Contains(more, cmd)
      /\ \A x : Contains(hash[r], x) => Contains(more, x)
  BY <1>3, <1>6, ContainsMore, ZenonT(20)
<1> HIDE DEF calls, op, cmd, more
<1>8. CallsTypeOK'
  BY <1>0, <1>3, <1>4, SMTT(30) DEF CallsTypeOK
<1>9. ServerTypeOK'
  <2>1. hash' \in [Replica -> Seq(Command)]
    BY <1>0, <1>4, <1>7, Zenon DEF ServerTypeOK
  <2>2. todo' \in [Replica -> Seq(Tasks)] /\ awaitingCmds' \in [Replica -> SUBSET Command]
    BY <1>0, <1>4, <1>5, ZenonT(20) DEF ServerTypeOK
  <2> QED
    BY <1>0, <1>4, <2>1, <2>2, Zenon DEF ServerTypeOK
<1>10. /\ \A s \in Replica : s # r => hash'[s] = hash[s] /\ todo'[s] = todo[s]
       /\ todo'[r] = Rest(calls)
       /\ op = "Exec" => hash'[r] = more
       /\ op # "Exec" => hash'[r] = hash[r]
  BY <1>0, <1>4, ZenonT(30) DEF ServerTypeOK
<1>11. \A s \in Replica : \A x : Contains(hash[s], x) => Contains(hash'[s], x)
  BY <1>7, <1>10, Zenon
<1>12. Replies'
  <2>1. replied \in [Command -> SUBSET Replica] /\ replied' \in [Command -> SUBSET Replica]
    BY <1>0, <1>8, ZenonT(20) DEF CallsTypeOK
  <2>2. /\ \A x \in Command : replied[x] \subseteq replied'[x]
        /\ \A x \in Command : \A s \in replied'[x] :
             s \in replied[x] \/ (op = "Exec" /\ x = cmd /\ s = r)
    BY <1>3, <1>4, <2>1, SMTT(30)
  <2>3. ASSUME NEW x \in Command, NEW s \in replied'[x] PROVE Contains(hash'[s], x)
    <3>1. CASE s \in replied[x]
      BY <1>0, <1>11, <2>1, <3>1, ZenonT(20) DEF Replies
    <3>2. CASE op = "Exec" /\ x = cmd /\ s = r
      BY <1>7, <1>10, <3>2, Zenon
    <3> QED
      BY <2>2, <3>1, <3>2, ZenonT(20)
  <2>4. ASSUME NEW d \in Client, NEW n \in acked[d] PROVE ExecCommandQF(replied'[<<d, n>>])
    <3>1. <<d, n>> \in Command
      BY <1>0, ZenonT(20) DEF ClientTypeOK, Command
    <3>2. ExecCommandQF(replied[<<d, n>>])
      BY <1>0, ZenonT(20) DEF Replies
    <3> QED
      BY <2>1, <2>2, <3>1, <3>2, MoreReplies, ZenonT(20)
  <2> QED
    BY <2>3, <2>4, ZenonT(20) DEF Replies
<1>13. ExecInv'
  <2>1. /\ InOrder(hash'[r], Rest(calls))
        /\ FromChain(hash'[r], Rest(calls), chain, committed[r])
    <3>1. InOrder(hash[r], calls) /\ FromChain(hash[r], calls, chain, committed[r])
      BY <1>0, Zenon DEF ExecInv, calls
    <3>2. InOrder(hash[r], Rest(calls)) /\ (op = "Exec" => InOrder(more, Rest(calls)))
      BY <1>1, <1>6, <3>1, RestOrdered, ZenonT(20) DEF op, cmd, more
    <3>3. /\ FromChain(hash[r], Rest(calls), chain, committed[r])
          /\ op = "Exec" => FromChain(more, Rest(calls), chain, committed[r])
      BY <1>1, <1>6, <3>1, RestFromChain, ZenonT(20) DEF op, cmd, more
    <3> QED
      BY <1>10, <3>2, <3>3, ZenonT(20)
  <2> QED
    BY <1>0, <1>10, <2>1, ZenonT(20) DEF ExecInv
<1> QED
  BY <1>8, <1>9, <1>12, <1>13, ZenonT(20)

\* Every step of a client server keeps the invariant.
LEMMA ServerStep ==
    ASSUME SetFacts, CommandsInv, NEW r \in Replica, ServerSteps(r)
    PROVE  CommandsInv'
<1>0. /\ CallsTypeOK /\ ClientTypeOK /\ CacheTypeOK /\ ServerTypeOK /\ ConsensusTypeOK
      /\ ClientInv /\ Replies /\ Cached /\ ChainInv /\ CommittedInv /\ ExecInv /\ ProposingInv
  BY TypeParts, ZenonT(30) DEF CommandsInv
<1>1. UNCHANGED <<senderVars, handlerVars, pendingCmds, cancelled, consensusVars>>
  BY ZenonT(30) DEF ServerSteps
<1>2. UNCHANGED <<acked, chain, committed>>
  BY <1>1, ZenonT(20) DEF handlerVars, consensusVars
<1>3. /\ CallsTypeOK' /\ CacheTypeOK' /\ ServerTypeOK'
      /\ Replies' /\ Cached' /\ ExecInv' /\ UNCHANGED <<num, serialNumbers>>
  <2>1. CASE RunTask(r)
    <3>1. UNCHANGED <<cacheVars, num, delivered, adding>>
      BY <2>1, Zenon DEF RunTask
    <3>2. UNCHANGED <<cache, serialNumbers>>
      BY <3>1, ZenonT(20) DEF cacheVars
    <3> QED
      BY <1>0, <1>2, <2>1, <3>1, <3>2, RunTaskStep, SameCache, SameCached, ZenonT(20)
  <2>2. ASSUME NEW c \in Client, ExecCommand(r, c)
        PROVE  /\ CallsTypeOK' /\ CacheTypeOK' /\ ServerTypeOK'
               /\ Replies' /\ Cached' /\ ExecInv' /\ UNCHANGED <<num, serialNumbers>>
    <3>1. UNCHANGED <<cacheVars, num, replyVars, todo, hash>>
      BY <2>2, Zenon DEF ExecCommand
    <3>2. UNCHANGED <<serialNumbers, replied>>
      BY <3>1, ZenonT(20) DEF cacheVars, replyVars
    <3> QED
      BY <1>0, <1>2, <2>2, <3>1, <3>2, ExecCommandStep, SameCalls, SameCache, SameReplies, SameExec, ZenonT(20)
  <2>3. ASSUME NEW c \in Client, ExecCommandAdds(r, c)
        PROVE  /\ CallsTypeOK' /\ CacheTypeOK' /\ ServerTypeOK'
               /\ Replies' /\ Cached' /\ ExecInv' /\ UNCHANGED <<num, serialNumbers>>
    <3>1. UNCHANGED <<num, replyVars, todo, hash>>
      BY <2>3, ZenonT(30) DEF ExecCommandAdds
    <3>2. UNCHANGED replied
      BY <3>1, Zenon DEF replyVars
    <3> QED
      BY <1>0, <1>2, <2>3, <3>1, <3>2, ExecCommandAddsStep, SameCalls, SameReplies, SameExec, ZenonT(20)
  <2> QED
    BY <2>1, <2>2, <2>3, ZenonT(20) DEF ServerSteps
<1>4. ClientTypeOK' /\ ClientInv'
  BY <1>0, <1>1, <1>3, SameClient, ZenonT(20)
<1>5. ConsensusTypeOK' /\ ChainInv' /\ CommittedInv' /\ ProposingInv'
  BY <1>0, <1>1, <1>3, SameConsensus, ZenonT(20)
<1>6. TypeOK'
  BY <1>3, <1>4, <1>5, ZenonT(20) DEF TypeOK, ConsensusTypeOK
<1> QED
  BY <1>3, <1>4, <1>5, <1>6, ZenonT(20) DEF CommandsInv

-----------------------------------------------------------------------------
(***************************************************************************)
(* The steps of the leader.                                                *)
(***************************************************************************)

\* Consensus leaves the clients alone.
LEMMA SameOutside ==
    ASSUME CommandsInv, UNCHANGED <<clientVars, num>>
    PROVE  /\ CallsTypeOK' /\ ClientTypeOK' /\ ClientInv'
           /\ UNCHANGED hash => Replies'
<1>0. CallsTypeOK /\ ClientTypeOK /\ ClientInv /\ Replies
  BY TypeParts, Zenon DEF CommandsInv
<1>1. UNCHANGED <<num, senderVars, handlerVars, pendingCmds, cancelled, replyVars>>
  BY Zenon DEF clientVars
<1>2. UNCHANGED <<replied, acked>>
  BY <1>1, ZenonT(20) DEF handlerVars, replyVars
<1> QED
  BY <1>0, <1>1, <1>2, SameCalls, SameClient, SameReplies, ZenonT(20)

\* Proposed raises the serial numbers to those of the batch of the QC.
LEMMA QCFacts ==
    ASSUME SetFacts, CacheTypeOK, ConsensusTypeOK, NEW r \in Replica
    PROVE  /\ QCProposed(r) \in [Client -> 0..MaxNumber]
           /\ \A c \in Client : QCProposed(r)[c] >= serialNumbers[r][c]
           /\ chain # <<>> => \A i \in DOMAIN chain[Len(chain)].batch :
                QCProposed(r)[chain[Len(chain)].batch[i][1]] >= chain[Len(chain)].batch[i][2]
<1>1. serialNumbers[r] \in [Client -> 0..MaxNumber] /\ MaxNumber \in Nat
  BY CallsAssumption, ZenonT(20) DEF CacheTypeOK
<1>2. CASE chain = <<>>
  BY <1>1, <1>2, SMTT(30) DEF QCProposed
<1>3. CASE chain # <<>>
  <2> DEFINE top == chain[Len(chain)]
  <2>1. top \in Blocks
    BY <1>3 DEF ConsensusTypeOK
  <2>2. top.batch \in Seq(Command)
    BY <2>1, BatchTypes, Zenon DEF Blocks
  <2>3. QCProposed(r) = Proposed(serialNumbers[r], top.batch)
    BY <1>3, ZenonT(20) DEF QCProposed
  <2> HIDE DEF top
  <2>4. /\ Proposed(serialNumbers[r], top.batch) \in [Client -> 0..MaxNumber]
        /\ \A c \in Client : Proposed(serialNumbers[r], top.batch)[c] >= serialNumbers[r][c]
        /\ \A i \in DOMAIN top.batch :
             Proposed(serialNumbers[r], top.batch)[top.batch[i][1]] >= top.batch[i][2]
    BY <1>1, <2>2, ProposedFacts, ZenonT(20)
  <2> QED
    BY <2>3, <2>4, ZenonT(30) DEF top
<1> QED
  BY <1>2, <1>3, ZenonT(30)

\* Proposed lowers no serial number.
LEMMA QCGrows ==
    ASSUME SetFacts, CacheTypeOK, ConsensusTypeOK, NEW r \in Replica,
           serialNumbers' = [serialNumbers EXCEPT ![r] = QCProposed(r)]
    PROVE  /\ serialNumbers \in Serials /\ serialNumbers' \in Serials
           /\ \A s \in Replica, c \in Client : serialNumbers'[s][c] >= serialNumbers[s][c]
           /\ \A s \in Replica : s # r => serialNumbers'[s] = serialNumbers[s]
           /\ serialNumbers'[r] = QCProposed(r)
<1> DEFINE qc == QCProposed(r)
<1>1. qc \in [Client -> 0..MaxNumber] /\ \A c \in Client : qc[c] >= serialNumbers[r][c]
  BY QCFacts, ZenonT(30)
<1>2. serialNumbers \in [Replica -> [Client -> 0..MaxNumber]] /\ MaxNumber \in Nat
  BY CallsAssumption, Zenon DEF CacheTypeOK
<1> HIDE DEF qc
<1>3. serialNumbers' = [serialNumbers EXCEPT ![r] = qc]
  BY Zenon DEF qc
<1>4. \A s \in Replica : serialNumbers'[s] = IF s = r THEN qc ELSE serialNumbers[s]
  BY <1>2, <1>3, ZenonT(20)
<1>5. \A s \in Replica, c \in Client : serialNumbers[s][c] \in Nat
  BY <1>2
<1>6. \A s \in Replica, c \in Client : serialNumbers'[s][c] >= serialNumbers[s][c]
  BY <1>1, <1>4, <1>5
<1>7. serialNumbers \in Serials /\ serialNumbers' \in Serials
  BY <1>1, <1>2, <1>3, ZenonT(20) DEF Serials
<1> QED
  BY <1>4, <1>6, <1>7, ZenonT(20) DEF qc

\* The chain is a sequence of blocks.
LEMMA ChainBlocks ==
    ASSUME ConsensusTypeOK
    PROVE  /\ Len(chain) \in Nat /\ DOMAIN chain = 1..Len(chain)
           /\ \A k \in DOMAIN chain : /\ chain[k] \in Blocks
                                      /\ chain[k].batch \in Batches
                                      /\ chain[k].stored \in SUBSET Replica
BY BlocksTyped, ZenonT(20) DEF ConsensusTypeOK

\* What is left of CommandsInv when clients and client servers do nothing.
LEMMA LeaderSteps ==
    ASSUME CommandsInv, UNCHANGED <<clientVars, num, serverVars>>,
           CacheTypeOK', ConsensusTypeOK', Cached', ChainInv', CommittedInv', ProposingInv',
           UNCHANGED <<committed, chain>>
    PROVE  CommandsInv'
<1>0. ServerTypeOK /\ ExecInv
  BY TypeParts, ZenonT(30) DEF CommandsInv
<1>1. UNCHANGED <<hash, todo>>
  BY ZenonT(30) DEF serverVars
<1>2. CallsTypeOK' /\ ClientTypeOK' /\ ClientInv' /\ Replies' /\ ServerTypeOK' /\ ExecInv'
  BY <1>0, <1>1, SameOutside, SameServer, SameExec, ZenonT(20)
<1>3. TypeOK'
  BY <1>2, ZenonT(20) DEF TypeOK, ConsensusTypeOK
<1> QED
  BY <1>2, <1>3, ZenonT(30) DEF CommandsInv

\* Propose up to the request for a batch keeps the invariant.
LEMMA ProposeStep ==
    ASSUME SetFacts, CommandsInv, Propose
    PROVE  CommandsInv'
<1>0. CacheTypeOK /\ ConsensusTypeOK /\ Cached /\ ChainInv /\ CommittedInv
  BY TypeParts, ZenonT(20) DEF CommandsInv
<1>1. /\ UNCHANGED <<clientVars, num, cache, serverVars, leader, chain, proposal, heard, lost, committed>>
      /\ proposal = {} /\ proposing' = TRUE
      /\ serialNumbers' = [serialNumbers EXCEPT ![leader] = QCProposed(leader)]
      /\ getter' = [getter EXCEPT ![leader] = "lock"]
  BY Zenon DEF Propose
<1>2. leader \in Replica /\ chain \in Seq(Blocks)
  BY <1>0, ZenonT(30) DEF ConsensusTypeOK
<1>3. /\ serialNumbers \in Serials /\ serialNumbers' \in Serials
      /\ \A r \in Replica, c \in Client : serialNumbers'[r][c] >= serialNumbers[r][c]
  BY <1>0, <1>1, <1>2, QCGrows, Zenon
<1>4. CacheTypeOK'
  BY <1>0, <1>1, <1>3, ZenonT(20) DEF CacheTypeOK, Serials
<1>5. ConsensusTypeOK'
  BY <1>0, <1>1, ZenonT(20) DEF ConsensusTypeOK
<1>6. Cached'
  BY <1>0, <1>1, SameCached, ZenonT(20) DEF serverVars
<1>7. ChainInv'
  <2>1. ChainOK(chain, serialNumbers')
    BY <1>0, <1>2, <1>3, GrowChain, Zenon DEF ChainInv
  <2> QED
    BY <1>0, <1>1, <2>1, ZenonT(20) DEF ChainInv
<1>8. CommittedInv' /\ ProposingInv'
  BY <1>0, <1>1, ZenonT(20) DEF CommittedInv, ProposingInv
<1> QED
  BY <1>1, <1>4, <1>5, <1>6, <1>7, <1>8, LeaderSteps, ZenonT(20)

\* A part of a cache in order.
LEMMA CacheShrinks ==
    ASSUME CacheTypeOK, Cached, UNCHANGED <<delivered, adding>>, NEW r \in Replica,
           NEW n \in 0..Len(cache[r]),
           \/ UNCHANGED cache
           \/ cache' = [cache EXCEPT ![r] = SubSeq(@, n + 1, Len(@))]
           \/ cache' = [cache EXCEPT ![r] = <<>>]
    PROVE  cache' \in [Replica -> Seq(Command)] /\ Cached'
<1> DEFINE q == cache[r]
           part == SubSeq(q, n + 1, Len(q))
<1>1. cache \in [Replica -> Seq(Command)] /\ q \in Seq(Command) /\ Len(q) \in Nat
  BY DEF CacheTypeOK
<1>2. CASE UNCHANGED cache
  BY <1>1, <1>2, SameCached, ZenonT(20)
<1>3. ASSUME NEW s \in Seq(Command), cache' = [cache EXCEPT ![r] = s],
             NEW m \in Nat, \A i \in DOMAIN s : m + i \in DOMAIN q /\ s[i] = q[m + i]
      PROVE  cache' \in [Replica -> Seq(Command)] /\ Cached'
  <2>1. cache' \in [Replica -> Seq(Command)]
    BY <1>1, <1>3, ZenonT(20)
  <2>2. cache'[r] = s /\ \A t \in Replica : t # r => cache'[t] = cache[t]
    BY <1>1, <1>3, ZenonT(20)
  <2>3. \A i \in DOMAIN s : i \in Nat
    BY SMTT(30)
  <2> HIDE DEF q
  <2>4. Ordered(q) /\ \A i \in DOMAIN q : /\ q[i][2] <= delivered[r][q[i][1]]
                                          /\ adding[r][q[i][1]] # 0 => q[i][2] < adding[r][q[i][1]]
    BY Zenon DEF Cached, q
  <2>5. Ordered(s)
    <3>1. SUFFICES ASSUME NEW i \in DOMAIN s, NEW j \in DOMAIN s, i < j PROVE Before(s[i], s[j])
      BY Zenon DEF Ordered
    <3>2. m + i < m + j
      BY <2>3, <3>1, SMTT(30)
    <3> QED
      BY <1>3, <2>4, <3>2, ZenonT(20) DEF Ordered
  <2>6. \A i \in DOMAIN s : /\ s[i][2] <= delivered[r][s[i][1]]
                            /\ adding[r][s[i][1]] # 0 => s[i][2] < adding[r][s[i][1]]
    BY <1>3, <2>4, Zenon
  <2>7. ASSUME NEW t \in Replica
        PROVE  /\ Ordered(cache[t])'
               /\ \A i \in DOMAIN cache'[t] :
                    /\ cache'[t][i][2] <= delivered[t][cache'[t][i][1]]
                    /\ adding[t][cache'[t][i][1]] # 0 => cache'[t][i][2] < adding[t][cache'[t][i][1]]
               /\ \A c \in Client : adding[t][c] \in {0, delivered[t][c]}
    <3>1. CASE t = r
      <4>1. Ordered(cache[t])' /\ cache'[t] = s
        BY <2>2, <2>5, <3>1, Zenon DEF Ordered
      <4> QED
        BY <2>6, <3>1, <4>1, Zenon DEF Cached
    <3>2. CASE t # r
      <4>1. Ordered(cache[t])' <=> Ordered(cache[t])
        BY <2>2, <3>2, Zenon DEF Ordered
      <4> QED
        BY <2>2, <3>2, <4>1, Zenon DEF Cached
    <3> QED
      BY <3>1, <3>2, Zenon
  <2>8. Cached'
    BY <2>7, Zenon DEF Cached
  <2> QED
    BY <2>1, <2>8, ZenonT(20)
<1>4. CASE cache' = [cache EXCEPT ![r] = SubSeq(@, n + 1, Len(@))]
  <2>1. /\ part \in Seq(Command) /\ DOMAIN part = 1..(Len(q) - n)
        /\ \A i \in 1..(Len(q) - n) : n + i \in 1..Len(q) /\ part[i] = q[n + i]
    <3> DEFINE l == Len(q)
    <3>1. n \in Nat /\ l \in Nat /\ n <= l /\ l <= l
      BY <1>1
    <3>2. l <= Len(q) /\ q \in Seq(Command)
      BY <1>1, SMTT(30)
    <3> HIDE DEF q, l
    <3>3. /\ SubSeq(q, n + 1, l) \in Seq(Command) /\ DOMAIN SubSeq(q, n + 1, l) = 1..(l - n)
          /\ \A i \in 1..(l - n) : n + i \in 1..Len(q) /\ SubSeq(q, n + 1, l)[i] = q[n + i]
      BY <3>1, <3>2, Part
    <3> QED
      BY <3>3, Zenon DEF l
  <2>2. DOMAIN q = 1..Len(q)
    BY <1>1
  <2>3. cache' = [cache EXCEPT ![r] = part]
    BY <1>4, Zenon
  <2> HIDE DEF part, q
  <2>4. n \in Nat /\ \A i \in DOMAIN part : n + i \in DOMAIN q /\ part[i] = q[n + i]
    BY <1>1, <2>1, <2>2, SMTT(30)
  <2> QED
    BY <1>3, <2>1, <2>3, <2>4, Zenon
<1>5. CASE cache' = [cache EXCEPT ![r] = <<>>]
  <2> DEFINE none == <<>>
  <2>1. none \in Seq(Command) /\ DOMAIN none = {}
    OBVIOUS
  <2>2. cache' = [cache EXCEPT ![r] = none]
    BY <1>5, ZenonT(20)
  <2> HIDE DEF none
  <2>3. 0 \in Nat /\ \A i \in DOMAIN none : 0 + i \in DOMAIN q /\ none[i] = q[0 + i]
    BY <2>1, ZenonT(20)
  <2> QED
    BY <1>3, <2>1, <2>2, <2>3, Zenon
<1> QED
  BY <1>2, <1>4, <1>5, ZenonT(20)

\* A leader that waits for a batch, or gives up, keeps the invariant.
LEMMA WaitStep ==
    ASSUME CommandsInv, WaitForBatch \/ GiveUp
    PROVE  CommandsInv'
<1>0. CacheTypeOK /\ ConsensusTypeOK /\ Cached /\ ChainInv /\ CommittedInv /\ ProposingInv
  BY TypeParts, Zenon DEF CommandsInv
<1>1. /\ UNCHANGED <<clientVars, num, serverVars, serialNumbers, chain, proposal, heard, lost, committed>>
      /\ proposing' \in {proposing, FALSE} /\ leader' \in {leader, NextLeader[leader]}
      /\ cache' \in {cache, [cache EXCEPT ![leader] = <<>>]}
      /\ \E w \in {"none", "lock", "unlocked", "waiting"} : getter' = [getter EXCEPT ![leader] = w]
  <2>1. CASE WaitForBatch
    BY <2>1, Zenon DEF WaitForBatch, GetWaits, GetSelects, consensusVars
  <2>2. CASE GiveUp
    BY <2>2, Zenon DEF GiveUp, GetCancelled
  <2> QED
    BY <2>1, <2>2, Zenon
<1>2. leader \in Replica /\ cache \in [Replica -> Seq(Command)]
  BY <1>0, ZenonT(20) DEF ConsensusTypeOK, CacheTypeOK
<1>3. UNCHANGED <<delivered, adding>>
  BY <1>1, ZenonT(20) DEF serverVars
<1>4. cache' \in [Replica -> Seq(Command)] /\ Cached'
  <2>1. 0 \in 0..Len(cache[leader])
    BY <1>2, SMTT(30)
  <2>2. cache' = cache \/ cache' = [cache EXCEPT ![leader] = <<>>]
    BY <1>1, Zenon
  <2> QED
    BY <1>0, <1>2, <1>3, <2>1, <2>2, CacheShrinks, ZenonT(20)
<1>5. CacheTypeOK'
  BY <1>0, <1>1, <1>4, Zenon DEF CacheTypeOK
<1>6. ConsensusTypeOK'
  BY <1>0, <1>1, CommandsAssumption, ZenonT(40) DEF ConsensusTypeOK
<1>7. ChainInv'
  BY <1>0, <1>1, Zenon DEF ChainInv
<1>8. CommittedInv' /\ ProposingInv'
  <2>1. CommittedInv'
    BY <1>0, <1>1, Zenon DEF CommittedInv
  <2>2. ProposingInv'
    BY <1>0, <1>1, Zenon DEF ProposingInv
  <2> QED
    BY <2>1, <2>2, Zenon
<1> QED
  BY <1>1, <1>4, <1>5, <1>6, <1>7, <1>8, LeaderSteps, ZenonT(20)

\* A proposal with a batch keeps the invariant.
LEMMA SendProposalStep ==
    ASSUME SetFacts, CommandsInv, SendProposal
    PROVE  CommandsInv'
<1>0. CacheTypeOK /\ ConsensusTypeOK /\ Cached /\ ChainInv /\ CommittedInv /\ ProposingInv
  BY TypeParts, ZenonT(20) DEF CommandsInv
<1> DEFINE b == [batch |-> Taken(leader), stored |-> {}, below |-> Len(chain)]
<1>1. /\ UNCHANGED <<clientVars, num, serverVars, serialNumbers, leader, chain, heard, lost, committed>>
      /\ proposing' = FALSE /\ Taken(leader) # <<>>
      /\ cache' = [cache EXCEPT ![leader] = SubSeq(@, TakenLength(leader) + 1, Len(@))]
      /\ getter' = [getter EXCEPT ![leader] = "none"]
      /\ proposal' = {b}
  BY Zenon DEF SendProposal, GetReturns
<1>2. leader \in Replica /\ cache[leader] \in Seq(Command) /\ Ordered(cache[leader])
  BY <1>0, Zenon DEF ConsensusTypeOK, CacheTypeOK, Cached
<1>3. /\ TakenLength(leader) \in 0..Len(cache[leader])
      /\ Taken(leader) \in Seq(Command) /\ Len(Taken(leader)) <= BatchSize
      /\ Ordered(Taken(leader))
  BY <1>2, TakenFacts, ZenonT(20)
<1>4. Taken(leader) \in Batches
  BY <1>1, <1>3, BatchTypes, ZenonT(20)
<1>5. UNCHANGED <<delivered, adding>>
  BY <1>1, Zenon DEF serverVars
<1>6. cache' \in [Replica -> Seq(Command)] /\ Cached'
  BY <1>0, <1>1, <1>2, <1>3, <1>5, CacheShrinks, ZenonT(40)
<1>7. CacheTypeOK'
  BY <1>0, <1>1, <1>6, Zenon DEF CacheTypeOK
<1>8. b \in Blocks /\ b.batch = Taken(leader) /\ b.stored = {} /\ b.below = Len(chain)
  BY <1>0, <1>4, ChainBlocks, Zenon DEF Blocks
<1> HIDE DEF b
<1>9. ConsensusTypeOK'
  <2>a. Cardinality({b}) = 1
    BY SingletonSize, ZenonT(20)
  <2>1. proposal' \subseteq Blocks /\ Cardinality(proposal') <= 1
    BY <1>1, <1>8, <2>a
  <2> QED
    BY <1>0, <1>1, <2>1, Zenon DEF ConsensusTypeOK
<1>10. ChainInv'
  <2>a. IsFiniteSet({b})
    BY SingletonSize, Zenon
  <2>1. ChainOK(chain', serialNumbers') /\ IsFiniteSet(lost') /\ IsFiniteSet(proposal')
    BY <1>0, <1>1, <2>a, ZenonT(20) DEF ChainInv
  <2>2. ASSUME NEW p \in proposal' PROVE ProposalOK(p, chain', serialNumbers')
    <3>1. p.batch = Taken(leader) /\ p.stored = {} /\ p.below = Len(chain)
      BY <1>1, <1>8, Zenon
    <3>2. Ordered(p.batch)
      BY <1>3, <3>1, ZenonT(20)
    <3> QED
      BY <1>1, <3>1, <3>2, Zenon DEF ProposalOK
  <2> QED
    BY <2>1, <2>2, Zenon DEF ChainInv
<1>11. CommittedInv' /\ ProposingInv'
  BY <1>0, <1>1, Zenon DEF CommittedInv, ProposingInv
<1> QED
  BY <1>1, <1>6, <1>7, <1>9, <1>10, <1>11, LeaderSteps, ZenonT(20)

-----------------------------------------------------------------------------
(***************************************************************************)
(* OnPropose.                                                              *)
(***************************************************************************)

\* commit calls Exec for the blocks between the old and the new height.
LEMMA CommitCallsFacts ==
    ASSUME SetFacts, ConsensusTypeOK, IsFiniteSet(lost), NEW r \in Replica,
           NEW height \in Nat, committed[r] < height, height <= Len(chain)
    PROVE  /\ CommitCalls(r, height) \in Seq(Tasks)
           /\ \A i \in DOMAIN CommitCalls(r, height) : CommitCalls(r, height)[i].op = "Exec" =>
                /\ i \in 1..(height - committed[r])
                /\ committed[r] + i \in 1..Len(chain)
                /\ CommitCalls(r, height)[i].cmds = chain[committed[r] + i].batch
<1> DEFINE low == committed[r]
           part == SubSeq(chain, low + 1, height)
           left == {b \in lost : r \in b.stored /\ b.below >= low /\ b.below < height}
           list == InSomeOrder(left)
           execs == CallsOf("Exec", part)
           forks == CallsOf("Fork", list)
<1>1. /\ low \in Nat /\ chain \in Seq(Blocks) /\ Len(chain) \in Nat /\ lost \subseteq Blocks
      /\ low <= height
  BY SMTT(30) DEF ConsensusTypeOK
<1>2. /\ part \in Seq(Blocks) /\ Len(part) = height - low /\ DOMAIN part = 1..(height - low)
      /\ \A i \in 1..(height - low) : low + i \in 1..Len(chain) /\ part[i] = chain[low + i]
  <2> HIDE DEF low
  <2> QED
    BY <1>1, Part
<1>3. list \in Seq(Blocks)
  <2>1. left \subseteq lost
    BY ZenonT(20)
  <2>2. IsFiniteSet(left)
    BY <2>1, SubsetSize, ZenonT(20)
  <2>3. InSomeOrder(left) \in Seq(left)
    BY <2>2, Listed, ZenonT(20)
  <2>4. left \subseteq Blocks
    BY <1>1, <2>1, ZenonT(20)
  <2> HIDE DEF left
  <2> QED
    BY <2>3, <2>4
<1> HIDE DEF part, list
<1>4. /\ execs \in Seq(Tasks) /\ Len(execs) = height - low
      /\ \A i \in DOMAIN part : execs[i] = [op |-> "Exec", cmds |-> part[i].batch]
  BY <1>2, CallsTyped, ZenonT(20)
<1>5. /\ forks \in Seq(Tasks) /\ Len(forks) = Len(list) /\ Len(list) \in Nat
      /\ DOMAIN list = 1..Len(list)
      /\ \A i \in DOMAIN list : forks[i] = [op |-> "Fork", cmds |-> list[i].batch]
  <2>1. Len(list) \in Nat /\ DOMAIN list = 1..Len(list)
    BY <1>3
  <2> QED
    BY <1>3, <2>1, CallsTyped, ZenonT(20)
<1> DEFINE a == execs
           b == forks
           m == height - low
           n == Len(list)
<1>6. CommitCalls(r, height) = a \o b
  BY ZenonT(20) DEF CommitCalls, part, list
<1>7. m \in Nat /\ n \in Nat /\ a \in Seq(Tasks) /\ b \in Seq(Tasks) /\ Len(a) = m /\ Len(b) = n
  BY <1>1, <1>4, <1>5
<1>8. /\ \A i \in 1..m : a[i] = [op |-> "Exec", cmds |-> chain[low + i].batch]
      /\ \A i \in 1..n : b[i].op = "Fork"
  <2> HIDE DEF execs, forks, low
  <2>1. \A i \in 1..m : a[i] = [op |-> "Exec", cmds |-> chain[low + i].batch]
    BY <1>2, <1>4, ZenonT(20)
  <2>2. ASSUME NEW i \in 1..n PROVE b[i].op = "Fork"
    <3>1. b[i] = [op |-> "Fork", cmds |-> list[i].batch]
      BY <1>5, ZenonT(20)
    <3> QED
      BY <3>1
  <2> QED
    BY <2>1, <2>2, Zenon
<1> HIDE DEF a, b, m, n
<1>9. /\ a \o b \in Seq(Tasks) /\ DOMAIN (a \o b) = 1..(m + n)
      /\ \A i \in 1..m : (a \o b)[i] = a[i]
      /\ \A i \in 1..(m + n) : i \notin 1..m => i - m \in 1..n /\ (a \o b)[i] = b[i - m]
  BY <1>7, SMTT(30)
<1>10. ASSUME NEW i \in 1..(m + n), (a \o b)[i].op = "Exec"
       PROVE  i \in 1..m /\ (a \o b)[i].cmds = chain[low + i].batch
  <2>1. i \in 1..m
    BY <1>8, <1>9, <1>10, Zenon
  <2>2. (a \o b)[i] = [op |-> "Exec", cmds |-> chain[low + i].batch]
    BY <1>8, <1>9, <2>1, ZenonT(40)
  <2> QED
    BY <2>1, <2>2
<1>11. \A i \in 1..m : low + i \in 1..Len(chain)
  BY <1>2, Zenon DEF m
<1> QED
  BY <1>6, <1>9, <1>10, <1>11, Zenon DEF m

\* What these calls will execute follows what was executed.
LEMMA CommitInOrder ==
    ASSUME SetFacts, ConsensusTypeOK, ChainInv, NEW r \in Replica,
           NEW height \in Nat, committed[r] < height, height <= Len(chain),
           NEW done, Ordered(done), \A i \in DOMAIN done : Committed(chain, committed[r], done[i])
    PROVE  /\ InOrder(done, CommitCalls(r, height))
           /\ FromChain(done, CommitCalls(r, height), chain, height)
<1> DEFINE calls == CommitCalls(r, height)
           low == committed[r]
<1>1. Len(chain) \in Nat /\ DOMAIN chain = 1..Len(chain) /\ low \in Nat
  <2>1. low \in 0..Len(chain)
    BY Zenon DEF ConsensusTypeOK
  <2> QED
    BY <2>1, ChainBlocks
<1>2. \A i \in Execs(calls) : /\ i \in 1..(height - low) /\ low + i \in DOMAIN chain
                              /\ calls[i].cmds = chain[low + i].batch
  BY <1>1, CommitCallsFacts, ZenonT(40) DEF Execs, ChainInv
<1>3. ChainOK(chain, serialNumbers)
  BY Zenon DEF ChainInv
<1> HIDE DEF calls, low
<1>4. ASSUME NEW i \in Execs(calls) PROVE Ordered(calls[i].cmds)
  BY <1>2, <1>3, ZenonT(40) DEF ChainOK
<1>5. ASSUME NEW i \in Execs(calls) PROVE Follows(done, calls[i].cmds)
  <2>1. SUFFICES ASSUME NEW a \in DOMAIN done, NEW b \in DOMAIN chain[low + i].batch
                 PROVE  Before(done[a], chain[low + i].batch[b])
    BY <1>2, ZenonT(40) DEF Follows
  <2>2. PICK k \in 1..low : \E j \in DOMAIN chain[k].batch : done[a] = chain[k].batch[j]
    BY ZenonT(40) DEF Committed, low
  <2>3. i \in 1..(height - low) /\ low + i \in DOMAIN chain
    BY <1>2, Zenon
  <2>4. k \in DOMAIN chain /\ k < low + i
    BY <1>1, <2>3, SMTT(30)
  <2>5. Follows(chain[k].batch, chain[low + i].batch)
    BY <1>3, <2>3, <2>4, Zenon DEF ChainOK
  <2> QED
    BY <2>2, <2>5, Zenon DEF Follows
<1>6. ASSUME NEW i \in Execs(calls), NEW k \in Execs(calls), i < k
      PROVE  Follows(calls[i].cmds, calls[k].cmds)
  <2>1. i \in 1..(height - low) /\ k \in 1..(height - low)
    BY <1>2, Zenon
  <2>2. low + i < low + k
    BY <1>1, <1>6, <2>1, SMTT(30)
  <2> QED
    BY <1>2, <1>3, <2>2, Zenon DEF ChainOK
<1>7. ASSUME NEW i \in Execs(calls), NEW j \in DOMAIN calls[i].cmds
      PROVE  Committed(chain, height, calls[i].cmds[j])
  <2>1. low + i \in 1..height
    <3>1. i \in 1..(height - low)
      BY <1>2, ZenonT(20)
    <3> QED
      BY <1>1, <3>1, SMTT(30)
  <2> QED
    BY <1>2, <2>1, ZenonT(40) DEF Committed
<1>8. ASSUME NEW i \in DOMAIN done PROVE Committed(chain, height, done[i])
  <2>1. 1..low \subseteq 1..height
    BY <1>1, SMTT(30) DEF low
  <2> QED
    BY <2>1, ZenonT(20) DEF Committed, low
<1> QED
  BY <1>4, <1>5, <1>6, <1>7, <1>8, ZenonT(40) DEF InOrder, FromChain, calls

\* A replica commits blocks in OnPropose, while it holds the proposal.
LEMMA CommitStep ==
    ASSUME SetFacts, CommandsInv, NEW r \in Replica, NEW height, height = Len(chain) - CommitDepth,
           height > committed[r], todo[r] = <<>>, proposal' # {},
           committed' = [committed EXCEPT ![r] = height],
           todo' = [todo EXCEPT ![r] = CommitCalls(r, height)],
           UNCHANGED <<hash, adding, delivered, awaitingCmds, chain, lost>>
    PROVE  ServerTypeOK' /\ CommittedInv' /\ ExecInv' /\ committed' \in [Replica -> 0..Len(chain)]
<1>0. ServerTypeOK /\ ConsensusTypeOK /\ ChainInv /\ CommittedInv /\ ExecInv
  BY TypeParts, ZenonT(20) DEF CommandsInv
<1>1. Len(chain) \in Nat /\ CommitDepth \in Nat /\ committed[r] \in Nat
  BY <1>0, ChainBlocks, CommandsAssumption DEF ConsensusTypeOK
<1>2. height \in Nat /\ committed[r] < height /\ height <= Len(chain)
  BY <1>1, SMTT(30)
<1>3. /\ committed'[r] = height /\ todo'[r] = CommitCalls(r, height)
      /\ \A s \in Replica : s # r => committed'[s] = committed[s] /\ todo'[s] = todo[s]
  BY <1>0, ZenonT(40) DEF ConsensusTypeOK, ServerTypeOK
<1>4. ServerTypeOK'
  <2>1. CommitCalls(r, height) \in Seq(Tasks)
    BY <1>0, <1>2, CommitCallsFacts, ZenonT(40) DEF ChainInv
  <2> QED
    BY <1>0, <2>1, ZenonT(20) DEF ServerTypeOK
<1>5. CommittedInv'
  <2>1. SUFFICES ASSUME NEW s \in Replica, committed'[s] > 0
                 PROVE  committed'[s] + CommitDepth <= Len(chain)
    BY ZenonT(20) DEF CommittedInv
  <2>2. CASE s = r
    BY <1>1, <1>3, <2>2, SMTT(30)
  <2>3. CASE s # r
    BY <1>0, <1>3, <2>1, <2>3, ZenonT(20) DEF CommittedInv
  <2> QED
    BY <2>2, <2>3, ZenonT(20)
<1>6. ExecInv'
  <2>1. Ordered(hash[r]) /\ \A i \in DOMAIN hash[r] : Committed(chain, committed[r], hash[r][i])
    BY <1>0, ZenonT(40) DEF ExecInv, InOrder, FromChain
  <2>2. /\ InOrder(hash[r], CommitCalls(r, height))
        /\ FromChain(hash[r], CommitCalls(r, height), chain, height)
    BY <1>0, <1>2, <2>1, CommitInOrder, Zenon
  <2> QED
    BY <1>0, <1>3, <2>2, ZenonT(40) DEF ExecInv
<1>7. committed' \in [Replica -> 0..Len(chain)]
  <2>1. height \in 0..Len(chain)
    BY <1>1, <1>2
  <2> QED
    BY <1>0, <2>1, ZenonT(20) DEF ConsensusTypeOK
<1> QED
  BY <1>4, <1>5, <1>6, <1>7, ZenonT(20)

\* A proposal is stored by a replica that accepts it, after the replica has counted
\* the commands of the certified block as proposed.
LEMMA AcceptStep ==
    ASSUME SetFacts, CommandsInv, NEW r \in Replica, NEW p \in proposal,
           UNCHANGED <<chain, lost>>,
           serialNumbers' = [serialNumbers EXCEPT ![r] = QCProposed(r)],
           proposal' = IF Accept(QCProposed(r), p.batch) THEN {[p EXCEPT !.stored = @ \cup {r}]}
                       ELSE proposal
    PROVE  ChainInv' /\ proposal' \subseteq Blocks /\ Cardinality(proposal') <= 1
<1>0. CacheTypeOK /\ ConsensusTypeOK /\ ChainInv
  BY TypeParts, Zenon DEF CommandsInv
<1>1. /\ serialNumbers \in Serials /\ serialNumbers' \in Serials /\ serialNumbers'[r] = QCProposed(r)
      /\ \A s \in Replica, c \in Client : serialNumbers'[s][c] >= serialNumbers[s][c]
  BY <1>0, QCGrows, Zenon
<1>2. chain \in Seq(Blocks) /\ proposal \subseteq Blocks
  BY <1>0, Zenon DEF ConsensusTypeOK
<1>3. /\ ChainOK(chain, serialNumbers')
      /\ \A q \in proposal : ProposalOK(q, chain, serialNumbers')
  BY <1>0, <1>1, <1>2, GrowChain, Zenon DEF ChainInv
<1>4. CASE proposal' = proposal
  BY <1>0, <1>3, <1>4, Zenon DEF ChainInv, ConsensusTypeOK
<1>5. CASE Accept(QCProposed(r), p.batch)
  <2> DEFINE q == [p EXCEPT !.stored = @ \cup {r}]
  <2>1. /\ q \in Blocks /\ q.batch = p.batch /\ q.below = p.below
        /\ q.stored = p.stored \cup {r} /\ p \in Blocks
    BY <1>2, Zenon DEF Blocks
  <2>2. proposal' = {q}
    BY <1>5, Zenon
  <2> HIDE DEF q
  <2>3. ASSUME NEW k \in DOMAIN chain, k = Len(chain) PROVE Knows(serialNumbers'[r], chain[k].batch)
    <3>1. chain # <<>>
      BY <1>2, <2>3
    <3> QED
      BY <1>0, <1>1, <2>3, <3>1, QCFacts, ZenonT(20) DEF Knows
  <2>4. ProposalOK(q, chain, serialNumbers')
    BY <1>1, <1>2, <1>3, <1>5, <2>1, <2>3, StoredProposal, Zenon
  <2>5. IsFiniteSet({q}) /\ Cardinality({q}) = 1
    BY SingletonSize, Zenon
  <2>6. proposal' \subseteq Blocks /\ Cardinality(proposal') <= 1
    BY <2>1, <2>2, <2>5, SMTT(30)
  <2> QED
    BY <1>0, <1>3, <2>2, <2>4, <2>5, <2>6, Zenon DEF ChainInv
<1> QED
  BY <1>4, <1>5, Zenon

\* OnPropose keeps the invariant.
LEMMA OnProposeStep ==
    ASSUME SetFacts, CommandsInv, NEW r \in Replica, OnPropose(r)
    PROVE  CommandsInv'
<1>0. /\ CacheTypeOK /\ ServerTypeOK /\ ConsensusTypeOK /\ Cached /\ CommittedInv
      /\ ExecInv /\ ProposingInv
  BY TypeParts, Zenon DEF CommandsInv
<1> DEFINE height == Len(chain) - CommitDepth
<1>1. /\ UNCHANGED <<clientVars, num, cache, getter, delivered, adding, awaitingCmds, hash, leader,
                     proposing, chain, lost>>
      /\ heard' = heard \cup {r} /\ todo[r] = <<>>
  BY Zenon DEF OnPropose
<1>2. PICK p \in proposal :
        /\ serialNumbers' = [serialNumbers EXCEPT ![r] = QCProposed(r)]
        /\ proposal' = IF Accept(QCProposed(r), p.batch) THEN {[p EXCEPT !.stored = @ \cup {r}]}
                       ELSE proposal
        /\ \/ UNCHANGED <<committed, todo>>
           \/ /\ height > committed[r]
              /\ committed' = [committed EXCEPT ![r] = height]
              /\ todo' = [todo EXCEPT ![r] = CommitCalls(r, height)]
  BY Zenon DEF OnPropose
<1>3. ChainInv' /\ proposal' \subseteq Blocks /\ Cardinality(proposal') <= 1
  BY <1>1, <1>2, AcceptStep, ZenonT(40)
<1>4. CacheTypeOK' /\ Cached'
  <2>1. serialNumbers' \in Serials
    BY <1>0, <1>2, QCGrows, ZenonT(40)
  <2>2. CacheTypeOK'
    BY <1>0, <1>1, <2>1, Zenon DEF CacheTypeOK, Serials
  <2> QED
    BY <1>0, <1>1, <2>2, SameCached, Zenon
<1>5. proposal' # {}
  BY <1>2, Zenon
<1>6. ServerTypeOK' /\ CommittedInv' /\ ExecInv' /\ committed' \in [Replica -> 0..Len(chain)]
  <2>1. CASE UNCHANGED <<committed, todo>>
    <3>1. ServerTypeOK'
      BY <1>0, <1>1, <2>1, ZenonT(20) DEF ServerTypeOK
    <3>2. CommittedInv'
      BY <1>0, <1>1, <1>5, <2>1, ZenonT(20) DEF CommittedInv
    <3> QED
      BY <1>0, <1>1, <2>1, <3>1, <3>2, SameExec, ZenonT(20) DEF ConsensusTypeOK
  <2> HIDE DEF height
  <2>2. CASE /\ height > committed[r]
             /\ committed' = [committed EXCEPT ![r] = height]
             /\ todo' = [todo EXCEPT ![r] = CommitCalls(r, height)]
    <3>1. height = Len(chain) - CommitDepth
      BY Zenon DEF height
    <3> QED
      BY <1>1, <1>5, <2>2, <3>1, CommitStep, Zenon
  <2> QED
    BY <1>2, <2>1, <2>2, ZenonT(20)
<1>7. ConsensusTypeOK'
  BY <1>0, <1>1, <1>3, <1>6, Zenon DEF ConsensusTypeOK
<1>8. ProposingInv'
  BY <1>0, <1>1, <1>2, ZenonT(20) DEF ProposingInv
<1>9. CallsTypeOK' /\ ClientTypeOK' /\ ClientInv' /\ Replies'
  BY <1>1, SameOutside, ZenonT(40)
<1>10. TypeOK'
  BY <1>4, <1>6, <1>7, <1>9, ZenonT(20) DEF TypeOK, ConsensusTypeOK
<1> QED
  BY <1>3, <1>4, <1>6, <1>8, <1>9, <1>10, ZenonT(20) DEF CommandsInv

-----------------------------------------------------------------------------
(***************************************************************************)
(* The ends of a view.                                                     *)
(***************************************************************************)

\* The committed blocks stay where they are.
LEMMA CommittedStay ==
    ASSUME ExecInv, UNCHANGED <<hash, todo, committed>>,
           \A r \in Replica : \A k \in 1..committed[r] : chain'[k] = chain[k]
    PROVE  ExecInv'
<1>1. SUFFICES ASSUME NEW r \in Replica
               PROVE  FromChain(hash[r], todo[r], chain', committed[r])
  BY ZenonT(40) DEF ExecInv
<1>2. \A x : Committed(chain, committed[r], x) => Committed(chain', committed[r], x)
  BY Zenon DEF Committed
<1>3. FromChain(hash[r], todo[r], chain, committed[r])
  BY ZenonT(40) DEF ExecInv
<1> QED
  BY <1>2, <1>3, Zenon DEF FromChain

\* What is left to show when a view ends.
LEMMA NextViewSteps ==
    ASSUME SetFacts, CommandsInv, NextView,
           chain' \in Seq(Blocks), lost' \subseteq Blocks, IsFiniteSet(lost'),
           \A r \in Replica : committed[r] <= Len(chain'),
           \A r \in Replica : \A k \in 1..committed[r] : chain'[k] = chain[k],
           ChainOK(chain', serialNumbers'), CommittedInv'
    PROVE  CommandsInv'
<1>0. /\ CacheTypeOK /\ ServerTypeOK /\ ConsensusTypeOK /\ Cached /\ ExecInv
  BY TypeParts, Zenon DEF CommandsInv
<1>1. /\ UNCHANGED <<clientVars, num, cacheVars, serverVars, proposing, committed>>
      /\ proposal' = {} /\ heard' = {} /\ leader' = NextLeader[leader]
  BY Zenon DEF NextView
<1>2. UNCHANGED <<cache, delivered, adding, hash, todo, committed>>
  BY <1>1, Zenon DEF cacheVars, serverVars
<1>3. CallsTypeOK' /\ ClientTypeOK' /\ ClientInv' /\ Replies'
  BY <1>1, <1>2, SameOutside, ZenonT(40)
<1>4. CacheTypeOK' /\ ServerTypeOK' /\ Cached' /\ ExecInv'
  BY <1>0, <1>1, <1>2, SameCache, SameServer, SameCached, CommittedStay, Zenon
<1>5. ConsensusTypeOK'
  <2>1. Len(chain') \in Nat /\ Len(chain) \in Nat
    BY <1>0, ChainBlocks, SMTT(30)
  <2>2. \A r \in Replica : committed[r] \in 0..Len(chain')
    BY <1>0, <2>1, SMTT(30) DEF ConsensusTypeOK
  <2>3. Cardinality({}) = 0 /\ IsFiniteSet({})
    BY EmptySetSize, ZenonT(20)
  <2>4. leader' \in Replica
    BY <1>0, <1>1, CommandsAssumption, ZenonT(20) DEF ConsensusTypeOK
  <2>5. proposal' \subseteq Blocks /\ Cardinality(proposal') <= 1
    BY <1>1, <2>3, SMTT(30)
  <2>6. committed' \in [Replica -> 0..Len(chain')]
    BY <1>0, <1>1, <2>2, ZenonT(20) DEF ConsensusTypeOK
  <2> QED
    BY <1>0, <1>1, <2>4, <2>5, <2>6, ZenonT(20) DEF ConsensusTypeOK
<1>6. ChainInv' /\ ProposingInv'
  <2>1. IsFiniteSet({})
    BY EmptySetSize, ZenonT(20)
  <2> QED
    BY <1>1, <2>1, Zenon DEF ChainInv, ProposingInv
<1>7. TypeOK'
  BY <1>3, <1>4, <1>5, ZenonT(20) DEF TypeOK, ConsensusTypeOK
<1> QED
  BY <1>3, <1>4, <1>6, <1>7, ZenonT(20) DEF CommandsInv

\* A proposal that gets certified keeps the invariant.
LEMMA CertifyStep ==
    ASSUME SetFacts, CommandsInv, Certify
    PROVE  CommandsInv'
<1>0. ConsensusTypeOK /\ ChainInv /\ CommittedInv
  BY TypeParts, Zenon DEF CommandsInv
<1> DEFINE n == Len(chain)
<1>1. PICK p \in proposal : IsQuorum(p.stored) /\ chain' = Append(chain, p)
  BY ZenonT(20) DEF Certify, IsQuorum
<1>2. NextView /\ UNCHANGED <<lost, serialNumbers, committed>>
  BY Zenon DEF Certify, NextView, cacheVars
<1>3. p \in Blocks /\ ProposalOK(p, chain, serialNumbers) /\ chain \in Seq(Blocks)
  BY <1>0, ZenonT(20) DEF ConsensusTypeOK, ChainInv
<1>4. n \in Nat
  BY <1>0, ChainBlocks, ZenonT(20)
<1>5. /\ chain' \in Seq(Blocks) /\ Len(chain') = n + 1
      /\ \A k \in 1..n : chain'[k] = chain[k]
  BY <1>1, <1>3, SMTT(30)
<1> HIDE DEF n
<1>6. ChainOK(chain', serialNumbers')
  BY <1>0, <1>1, <1>2, <1>3, ChainAppended, ZenonT(20) DEF ChainInv
<1>7. CommittedInv'
  <2>1. SUFFICES ASSUME NEW r \in Replica, committed[r] > 0
                 PROVE  committed[r] + CommitDepth <= n + 1 /\ committed[r] + CommitDepth # n + 1
    BY <1>2, <1>5, ZenonT(20) DEF CommittedInv
  <2>2. committed[r] + CommitDepth <= n
    BY <1>0, <2>1, ZenonT(20) DEF CommittedInv, n
  <2>3. committed[r] \in Nat
    BY <1>0, <1>4 DEF ConsensusTypeOK, n
  <2> QED
    BY <1>4, <2>2, <2>3, CommandsAssumption, SMTT(30)
<1>8. \A r \in Replica : committed[r] <= Len(chain') /\ 1..committed[r] \subseteq 1..n
  <2>1. \A r \in Replica : committed[r] \in 0..n
    BY <1>0, ZenonT(20) DEF ConsensusTypeOK, n
  <2> QED
    BY <1>4, <1>5, <2>1
<1>9. \A r \in Replica : \A k \in 1..committed[r] : chain'[k] = chain[k]
  BY <1>5, <1>8, ZenonT(20)
<1>10. lost' \subseteq Blocks /\ IsFiniteSet(lost')
  BY <1>0, <1>2, ZenonT(20) DEF ConsensusTypeOK, ChainInv
<1> QED
  BY <1>2, <1>5, <1>6, <1>7, <1>8, <1>9, <1>10, NextViewSteps, ZenonT(20)

\* A proposal lost in a view change keeps the invariant.
LEMMA LoseProposalStep ==
    ASSUME SetFacts, CommandsInv, LoseProposal
    PROVE  CommandsInv'
<1>0. ConsensusTypeOK /\ ChainInv /\ CommittedInv
  BY TypeParts, Zenon DEF CommandsInv
<1>1. NextView /\ UNCHANGED <<chain, serialNumbers, committed>> /\ lost' = lost \cup proposal
  BY Zenon DEF LoseProposal, NextView, cacheVars
<1>2. ChainOK(chain', serialNumbers')
  BY <1>0, <1>1, ZenonT(20) DEF ChainInv
<1>3. lost' \subseteq Blocks /\ IsFiniteSet(lost')
  <2>1. IsFiniteSet(lost \cup proposal)
    BY <1>0, UnionFinite, Zenon DEF ChainInv
  <2> QED
    BY <1>0, <1>1, <2>1, Zenon DEF ConsensusTypeOK
<1>4. CommittedInv'
  <2>1. SUFFICES ASSUME NEW r \in Replica, committed[r] > 0
                 PROVE  /\ committed[r] + CommitDepth <= Len(chain)
                        /\ committed[r] + CommitDepth = Len(chain) =>
                             \E b \in lost' : b.below = Len(chain)
    BY <1>1, Zenon DEF CommittedInv
  <2>2. /\ committed[r] + CommitDepth <= Len(chain)
        /\ committed[r] + CommitDepth = Len(chain) =>
             proposal # {} \/ \E b \in lost : b.below = Len(chain)
    BY <1>0, <2>1, ZenonT(20) DEF CommittedInv
  <2>3. \A p \in proposal : p.below = Len(chain)
    BY <1>0, ZenonT(20) DEF ChainInv, ProposalOK
  <2> QED
    BY <1>1, <2>2, <2>3, ZenonT(20)
<1>5. \A r \in Replica : committed[r] <= Len(chain')
  <2>1. \A r \in Replica : committed[r] \in 0..Len(chain)
    BY <1>0, Zenon DEF ConsensusTypeOK
  <2> QED
    BY <1>0, <1>1, <2>1, ChainBlocks, SMTT(30)
<1>6. chain' \in Seq(Blocks)
  BY <1>0, <1>1, Zenon DEF ConsensusTypeOK
<1>7. \A r \in Replica : \A k \in 1..committed[r] : chain'[k] = chain[k]
  BY <1>1, Zenon
<1> QED
  BY <1>1, <1>2, <1>3, <1>4, <1>5, <1>6, <1>7, NextViewSteps, ZenonT(20)

\* A certified block that the next leader leaves behind keeps the invariant.
LEMMA LoseQCStep ==
    ASSUME SetFacts, CommandsInv, LoseQC
    PROVE  CommandsInv'
<1>0. ConsensusTypeOK /\ ChainInv /\ CommittedInv
  BY TypeParts, Zenon DEF CommandsInv
<1> DEFINE n == Len(chain)
           m == n - 1
<1>1. /\ NextView /\ UNCHANGED <<serialNumbers, committed>>
      /\ chain # <<>> /\ proposal = {} /\ \A b \in lost : b.below < n
      /\ lost' = lost \cup {chain[n]}
      /\ chain' = SubSeq(chain, 1, m)
  BY Zenon DEF LoseQC, NextView, cacheVars
<1>2. /\ n \in Nat /\ DOMAIN chain = 1..n
      /\ \A k \in 1..n : chain[k] \in Blocks
  BY <1>0, ChainBlocks, ZenonT(20)
<1>3. n > 0 /\ m \in Nat /\ m <= n /\ m + 1 = n /\ n \in 1..n
  <2>1. chain \in Seq(Blocks)
    BY <1>0, ZenonT(20) DEF ConsensusTypeOK
  <2>2. n # 0
    BY <1>1, <2>1, SMTT(30)
  <2> HIDE DEF n
  <2> QED
    BY <1>2, <2>2
<1>4. /\ chain' \in Seq(Blocks) /\ DOMAIN chain' = 1..m /\ Len(chain') = m
      /\ \A k \in 1..m : chain'[k] = chain[k]
  <2>1. chain \in Seq(Blocks) /\ 0 \in Nat /\ 0 <= m
    BY <1>0, <1>3 DEF ConsensusTypeOK
  <2>2. m \in Nat /\ m <= Len(chain)
    BY <1>3, ZenonT(20)
  <2> HIDE DEF m
  <2>3. /\ SubSeq(chain, 0 + 1, m) \in Seq(Blocks) /\ Len(SubSeq(chain, 0 + 1, m)) = m - 0
        /\ DOMAIN SubSeq(chain, 0 + 1, m) = 1..(m - 0)
        /\ \A i \in 1..(m - 0) : 0 + i \in 1..Len(chain) /\ SubSeq(chain, 0 + 1, m)[i] = chain[0 + i]
    BY <2>1, <2>2, Part
  <2>4. 0 + 1 = 1 /\ m - 0 = m /\ \A i \in 1..m : 0 + i = i
    BY <2>2
  <2> QED
    BY <1>1, <2>3, <2>4, ZenonT(20)
<1> HIDE DEF n, m
<1>5. ChainOK(chain', serialNumbers')
  <2>1. chain \in Seq(Blocks) /\ m <= Len(chain)
    BY <1>0, <1>3, ZenonT(20) DEF ConsensusTypeOK, n
  <2> QED
    BY <1>0, <1>1, <1>3, <1>4, <2>1, ChainCut, Zenon DEF ChainInv
<1>6. ASSUME NEW r \in Replica, committed[r] > 0
      PROVE  committed[r] + CommitDepth <= m
  <2>1. /\ committed[r] + CommitDepth <= n
        /\ committed[r] + CommitDepth = n => proposal # {} \/ \E b \in lost : b.below = n
    BY <1>0, <1>6, Zenon DEF CommittedInv, n
  <2>2. ~(n < n)
    BY <1>2
  <2>3. committed[r] + CommitDepth # n
    BY <1>1, <2>1, <2>2, ZenonT(20)
  <2>4. committed[r] \in Nat /\ CommitDepth \in Nat
    BY <1>0, <1>2, CommandsAssumption, SMTT(30) DEF ConsensusTypeOK, n
  <2> QED
    BY <1>2, <1>3, <2>1, <2>3, <2>4, SMTT(30)
<1>7. CommittedInv'
  <2>1. chain[n].below = m /\ chain[n] \in lost'
    BY <1>0, <1>1, <1>2, <1>3, Zenon DEF ChainInv, ChainOK, m
  <2> QED
    BY <1>1, <1>4, <1>6, <2>1, ZenonT(20) DEF CommittedInv
<1>8. \A r \in Replica : committed[r] <= m /\ 1..committed[r] \subseteq 1..m
  <2>1. SUFFICES ASSUME NEW r \in Replica PROVE committed[r] \in Nat /\ committed[r] <= m
    BY <1>3, SMTT(30)
  <2>2. committed[r] \in Nat /\ CommitDepth \in Nat
    BY <1>0, <1>2, CommandsAssumption DEF ConsensusTypeOK, n
  <2> QED
    BY <1>3, <1>6, <2>2
<1>9. \A r \in Replica : committed[r] <= Len(chain') /\ \A k \in 1..committed[r] : chain'[k] = chain[k]
  BY <1>4, <1>8, ZenonT(20)
<1>10. lost' \subseteq Blocks /\ IsFiniteSet(lost')
  <2>1. IsFiniteSet({chain[n]})
    BY SingletonSize, Zenon
  <2>2. IsFiniteSet(lost \cup {chain[n]})
    BY <1>0, <2>1, UnionFinite, Zenon DEF ChainInv
  <2> QED
    BY <1>0, <1>1, <1>2, <1>3, <2>2, ZenonT(20) DEF ConsensusTypeOK
<1> QED
  BY <1>1, <1>4, <1>5, <1>7, <1>9, <1>10, NextViewSteps, Zenon

-----------------------------------------------------------------------------
(* The invariant, and what follows from it *)

\* The invariant holds at the start.
LEMMA CommandsInit ==
    ASSUME SetFacts, Init
    PROVE  CommandsInv
<1> DEFINE none == <<>>
<1>1. /\ none \in Seq(Command) /\ none \in Seq(Numbers) /\ none \in Seq(Tasks) /\ none \in Seq(Blocks)
      /\ Len(none) = 0 /\ DOMAIN none = {}
  OBVIOUS
<1>2. /\ CallsInit /\ ClientInit /\ CacheInit /\ ServerInit
      /\ leader = First /\ proposing = FALSE /\ chain = none /\ proposal = {} /\ heard = {} /\ lost = {}
      /\ committed = [r \in Replica |-> 0]
  BY ZenonT(20) DEF Init
<1>3. /\ pendingCmds = [c \in Client |-> none]
      /\ cache = [r \in Replica |-> none] /\ todo = [r \in Replica |-> none]
      /\ hash = [r \in Replica |-> none]
  BY <1>2, Zenon DEF ClientInit, CacheInit, ServerInit
<1> HIDE DEF none
<1>4. MaxNumber \in Nat /\ MaxConcurrent \in Nat /\ First \in Replica
  BY CallsAssumption, ClientAssumption, CommandsAssumption, ZenonT(20)
<1>5. CallsTypeOK
  BY <1>2, <1>4, SMTT(30) DEF CallsInit, CallsTypeOK
<1>6. ClientTypeOK
  BY <1>1, <1>2, <1>3, <1>4, SMTT(30) DEF ClientInit, ClientTypeOK
<1>7. CacheTypeOK /\ ServerTypeOK
  BY <1>1, <1>2, <1>3, <1>4, SMTT(30) DEF CacheInit, CacheTypeOK, ServerInit, ServerTypeOK
<1>8. ConsensusTypeOK
  <2>1. Cardinality({}) = 0
    BY EmptySetSize, Zenon
  <2>2. proposal \subseteq Blocks /\ Cardinality(proposal) <= 1
    BY <1>2, <2>1
  <2>3. chain \in Seq(Blocks) /\ committed \in [Replica -> 0..Len(chain)]
    BY <1>1, <1>2
  <2>4. leader \in Replica /\ proposing \in BOOLEAN /\ heard \subseteq Replica /\ lost \subseteq Blocks
    BY <1>2, <1>4, Zenon
  <2> QED
    BY <2>2, <2>3, <2>4, ZenonT(20) DEF ConsensusTypeOK
<1>9. ClientInv
  <2>1. \A c \in Client :
          /\ num[c] = 1 /\ highestCommitted[c] = 1 /\ awaited[c] = 0 /\ sender[c] = "loop"
          /\ lastCommand[c] = 0 /\ pendingCmds[c] = none
    BY <1>2, <1>3, ZenonT(20) DEF CallsInit, ClientInit
  <2>2. InFlight(1, 1, 0, "loop", none)
    BY <1>1 DEF InFlight, Waiting, Pushing
  <2>3. \A S : Input(0, 1, S, "loop")
    <3>1. 1..(1 - 1) = {}
      OBVIOUS
    <3> QED
      BY <3>1, Zenon DEF Input
  <2> QED
    BY <2>1, <2>2, <2>3, ZenonT(20) DEF ClientInv
<1>10. Replies
  BY <1>2, Zenon DEF Replies, CallsInit, ClientInit
<1>11. Cached
  BY <1>1, <1>2, <1>3, Zenon DEF Cached, Ordered, CacheInit, ServerInit
<1>12. ChainInv /\ CommittedInv /\ ProposingInv
  <2>1. IsFiniteSet({})
    BY EmptySetSize, Zenon
  <2>2. ChainInv
    BY <1>1, <1>2, <2>1, Zenon DEF ChainInv, ChainOK
  <2>3. CommittedInv
    BY <1>2 DEF CommittedInv
  <2> QED
    BY <1>2, <2>2, <2>3, ZenonT(20) DEF ProposingInv
<1>13. ExecInv
  BY <1>1, <1>3, Zenon DEF ExecInv, InOrder, FromChain, Execs, Ordered
<1> QED
  BY <1>5, <1>6, <1>7, <1>8, <1>9, <1>10, <1>11, <1>12, <1>13, TypeParts, ZenonT(20) DEF CommandsInv

\* A step that changes nothing keeps the invariant.
LEMMA CommandsStutter ==
    ASSUME CommandsInv, UNCHANGED vars
    PROVE  CommandsInv'
<1>0. CacheTypeOK /\ ConsensusTypeOK /\ Cached /\ ChainInv /\ CommittedInv /\ ProposingInv
  BY TypeParts, Zenon DEF CommandsInv
<1>1. UNCHANGED <<clientVars, num, cacheVars, serverVars, consensusVars>>
  BY Zenon DEF vars
<1>2. UNCHANGED <<cache, serialNumbers, delivered, adding, committed, chain>>
  BY <1>1, Zenon DEF cacheVars, serverVars, consensusVars
<1> QED
  BY <1>0, <1>1, <1>2, SameCache, SameCached, SameConsensus, LeaderSteps, ZenonT(20)

\* Every step keeps the invariant.
LEMMA CommandsNext ==
    ASSUME SetFacts, CommandsInv, [Next]_vars
    PROVE  CommandsInv'
BY ClientStep, ServerStep, OnProposeStep, ProposeStep, WaitStep, SendProposalStep,
   CertifyStep, LoseProposalStep, LoseQCStep, CommandsStutter, ZenonT(20) DEF Next

\* Who replied to a command has executed it, and enough did.
LEMMA AckedReplied ==
    ASSUME SetFacts, CommandsInv
    PROVE  AckedExecuted
<1>1. SUFFICES ASSUME NEW c \in Client, NEW n \in acked[c]
               PROVE  Cardinality({r \in Replica : <<c, n>> \in Range(hash[r])}) > NumFaulty
  BY ZenonT(20) DEF AckedExecuted
<1> DEFINE who == {r \in Replica : <<c, n>> \in Range(hash[r])}
           said == replied[<<c, n>>]
<1>2. <<c, n>> \in Command
  BY <1>1, Zenon DEF CommandsInv, TypeOK, ClientTypeOK, Command
<1>3. said \subseteq who
  <2>1. said \subseteq Replica
    BY <1>1, <1>2, ZenonT(20) DEF CommandsInv, TypeOK, CallsTypeOK
  <2>2. \A r \in said : Contains(hash[r], <<c, n>>)
    BY <1>1, <1>2, ZenonT(20) DEF CommandsInv, Replies
  <2>3. \A r \in Replica : DOMAIN hash[r] = 1..Len(hash[r])
    BY <1>1, SMTT(30) DEF CommandsInv, TypeOK, ServerTypeOK
  <2> QED
    BY <2>1, <2>2, <2>3, ZenonT(40) DEF Contains, Range
<1>4. IsFiniteSet(who)
  BY CallsAssumption, SubsetSize, ZenonT(20)
<1>5. Cardinality(said) >= NumFaulty + 1
  BY <1>1, ZenonT(20) DEF CommandsInv, Replies, ExecCommandQF
<1> HIDE DEF who, said
<1>6. IsFiniteSet(said) /\ Cardinality(said) <= Cardinality(who)
  BY <1>3, <1>4, SubsetSize, ZenonT(20)
<1>7. Cardinality(said) \in Nat /\ Cardinality(who) \in Nat
  BY <1>4, <1>6, SetSize, ZenonT(20)
<1>8. NumFaulty \in Int
  BY CallsAssumption, SetSize, SMTT(30) DEF NumFaulty
<1>9. Cardinality(who) > NumFaulty
  BY <1>5, <1>6, <1>7, <1>8, SMTT(30)
<1> QED
  BY <1>9, ZenonT(20) DEF who

\* sendCommands ended when all of the input was answered.
LEMMA EndedAnswered ==
    ASSUME CommandsInv
    PROVE  InputAnswered
<1>1. SUFFICES ASSUME NEW c \in Client, sender[c] = "done", ~cancelled[c]
               PROVE  1..NumData \subseteq acked[c] \cup failed[c]
  BY Zenon DEF InputAnswered
<1>2. /\ lastCommand[c] # 0 => lastCommand[c] > NumData
      /\ 1..(highestCommitted[c] - 1) \subseteq acked[c] \cup failed[c]
      /\ lastCommand[c] # 0 /\ lastCommand[c] <= highestCommitted[c]
  BY <1>1, Zenon DEF CommandsInv, ClientInv, Input
<1>3. lastCommand[c] \in Nat /\ highestCommitted[c] \in Nat /\ NumData \in Nat
  BY <1>1, TypeParts, ClientNumbers, ZenonT(20) DEF CommandsInv
<1>4. NumData <= highestCommitted[c] - 1
  BY <1>2, <1>3, SMTT(30)
<1>5. 1..NumData \subseteq 1..(highestCommitted[c] - 1)
  BY <1>3, <1>4, SMTT(30)
<1> QED
  BY <1>2, <1>5, ZenonT(20)

\* In flight is what the two goroutines hold and the channel has room for.
LEMMA FlightCounted ==
    ASSUME CommandsInv
    PROVE  InFlightBounded
<1>1. SUFFICES ASSUME NEW c \in Client
               PROVE  num[c] - highestCommitted[c] <= MaxConcurrent + 2
  BY Zenon DEF InFlightBounded
<1> DEFINE w == Waiting(awaited[c])
           p == Pushing(sender[c])
           l == Len(pendingCmds[c])
           h == highestCommitted[c]
           n == num[c]
<1>2. n = h + w + l + p
  BY <1>1, Zenon DEF CommandsInv, ClientInv, InFlight
<1>3. l \in Nat /\ l <= MaxConcurrent /\ h \in Nat /\ MaxConcurrent \in Nat
  BY <1>1, TypeParts, ClientNumbers, ZenonT(20) DEF CommandsInv
<1>4. w \in {0, 1} /\ p \in {0, 1}
  BY Zenon DEF Waiting, Pushing
<1> HIDE DEF w, p, l, h, n
<1>5. n - h <= MaxConcurrent + 2
  BY <1>2, <1>3, <1>4
<1> QED
  BY <1>5, ZenonT(20) DEF n, h

-----------------------------------------------------------------------------
(***************************************************************************)
(* The facts about numbers and finite sets.  They come last, so that none  *)
(* of the proofs above has to carry the library along.                     *)
(***************************************************************************)
LOCAL INSTANCE FiniteSetTheorems

Below == {p \in Nat \X Nat : p[1] < p[2]}

\* Some number of a set of natural numbers is the least.
LEMMA NaturalsLeast ==
    ASSUME NEW T \in SUBSET Nat, T # {}
    PROVE  \E n \in T : \A m \in T : n <= m
<1>1. Below = OpToRel(<, Nat)
  BY Zenon DEF Below, OpToRel
<1>2. IsWellFoundedOn(Below, Nat)
  BY <1>1, NatLessThanWellFounded, Zenon
<1>3. PICK n \in T : \A m \in T : ~ (<<m, n>> \in Below)
  BY <1>2, WFMin, Zenon
<1>4. \A m \in T : n <= m
  <2>1. SUFFICES ASSUME NEW m \in T PROVE n <= m
    BY Zenon
  <2>2. n \in Nat /\ m \in Nat
    BY Zenon
  <2>3. <<m, n>> \in Below <=> m < n
    BY <2>2, Zenon DEF Below
  <2> QED
    BY <1>3, <2>2, <2>3
<1> QED
  BY <1>4, Zenon

\* The facts hold.
LEMMA SetFactsHold == SetFacts
<1>1. \A S : Finite(S) <=> IsFiniteSet(S)
  BY FiniteMeans, Zenon DEF IsFiniteSet
<1>2. \A S : Size(S) = Cardinality(S)
  BY SizeMeans, Zenon DEF Cardinality
<1>3. \A T \in SUBSET Nat : T # {} => \E n \in T : \A m \in T : n <= m
  BY NaturalsLeast, Zenon
<1>4. /\ Finite({}) /\ Size({}) = 0
      /\ \A x : Finite({x}) /\ Size({x}) = 1
  BY <1>1, <1>2, FS_EmptySet, FS_Singleton, Zenon
<1>5. ASSUME NEW S, Finite(S)
      PROVE  Size(S) \in Nat /\ \E s \in [1..Size(S) -> S] : Lists(s, S)
  <2> DEFINE n == Cardinality(S)
  <2>1. n \in Nat /\ ExistsBijection(1..n, S)
    BY <1>1, <1>5, FS_CardinalityType, Zenon
  <2>2. PICK s : s \in Injection(1..n, S) /\ s \in Surjection(1..n, S)
    BY <2>1, Zenon DEF ExistsBijection, Bijection
  <2>3. s \in [1..n -> S] /\ DOMAIN s = 1..n
    BY <2>2, Zenon DEF Injection
  <2>4. Lists(s, S)
    BY <2>2, <2>3, Zenon DEF Lists, Injection, Surjection, IsInjective
  <2> QED
    BY <1>2, <2>1, <2>3, <2>4, Zenon
<1>6. \A S : Finite(S) => \A T \in SUBSET S : Finite(T) /\ Size(T) <= Size(S)
  BY <1>1, <1>2, FS_Subset, Zenon
<1>7. \A S, T : Finite(S) /\ Finite(T) => Finite(S \cup T)
  BY <1>1, FS_Union, Zenon
<1>8. ASSUME NEW U, Finite(U), NEW S \in SUBSET U, NEW T \in SUBSET U,
             Size(S) + Size(T) > Size(U)
      PROVE  S \cap T # {}
  <2>1. IsFiniteSet(U) /\ S \subseteq U /\ T \subseteq U
    BY <1>1, <1>8, Zenon
  <2>2. Cardinality(S) + Cardinality(T) > Cardinality(U)
    BY <1>2, <1>8, Zenon
  <2> QED
    BY <2>1, <2>2, FS_MajoritiesIntersect, Zenon
<1> QED
  BY <1>3, <1>4, <1>5, <1>6, <1>7, <1>8, ZenonT(40) DEF SetFacts

-----------------------------------------------------------------------------
(* The theorems *)

\* The invariant always holds.
LEMMA CommandsInvariant == Spec => []CommandsInv
<1>1. Init => CommandsInv
  BY CommandsInit, SetFactsHold, Zenon
<1>2. CommandsInv /\ [Next]_vars => CommandsInv'
  BY CommandsNext, SetFactsHold, Zenon
<1> QED
  BY <1>1, <1>2, PTL DEF Spec

\* The clients, the client servers, the command caches and the chain keep their
\* types: no channel of a client is over capacity, no block is empty or larger
\* than BatchSize, and no replica has committed more than the chain holds.
THEOREM CommandTypesHold == Spec => []TypeOK
<1>1. CommandsInv => TypeOK
  BY Zenon DEF CommandsInv
<1> QED
  BY <1>1, CommandsInvariant, PTL

\* A command that handleCommands counts as executed was executed by more than
\* NumFaulty replicas.
THEOREM AckedAreExecuted == Spec => []AckedExecuted
<1>1. CommandsInv => AckedExecuted
  BY AckedReplied, SetFactsHold, ZenonT(40)
<1> QED
  BY <1>1, CommandsInvariant, PTL

\* Each replica executes the commands of a client in the order of their numbers
\* and none of them twice.
THEOREM ExecutedAreInOrder == Spec => []ExecutedInOrder
<1>1. CommandsInv => ExecutedInOrder
  BY Zenon DEF CommandsInv, ExecInv, InOrder, Ordered, Before, ExecutedInOrder
<1> QED
  BY <1>1, CommandsInvariant, PTL

\* sendCommands of a client that was not stopped ends only when its whole input
\* has been answered.
THEOREM InputIsAnswered == Spec => []InputAnswered
<1>1. CommandsInv => InputAnswered
  BY EndedAnswered, Zenon
<1> QED
  BY <1>1, CommandsInvariant, PTL

\* A client has at most MaxConcurrent + 2 commands in flight.
THEOREM InFlightIsBounded == Spec => []InFlightBounded
<1>1. CommandsInv => InFlightBounded
  BY FlightCounted, Zenon
<1> QED
  BY <1>1, CommandsInvariant, PTL

=============================================================================
