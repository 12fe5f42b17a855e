------------------------------ MODULE Commands ------------------------------
(***************************************************************************)
(* The way of a command from the client to the answer: the clients, the    *)
(* client servers and command caches of the replicas, and as much of       *)
(* consensusBase as calls them (Propose, OnPropose and commit).  Of        *)
(* consensus itself only this is kept: replicas take turns to propose, a   *)
(* quorum certifies a proposal, a proposal or the QC of the last certified *)
(* block may get lost in a view change, and a block is committed when      *)
(* a proposal comes after the third certified block from it.               *)
(***************************************************************************)
EXTENDS ClientServer, Client, Functions

CONSTANTS
    First,          \* the leader of the first view
    NextLeader,     \* NextLeader[r]: the leader of the view after one of r
    CommitDepth,    \* how many certified blocks follow a committed one
    MaxLost         \* bound: how many blocks get lost

ASSUME CommandsAssumption ==
    /\ First \in Replica /\ NextLeader \in [Replica -> Replica]
    /\ CommitDepth \in Nat /\ MaxLost \in Nat

VARIABLES
    leader,         \* the leader of the view
    proposing,      \* the leader is in Propose
    chain,          \* the certified blocks
    proposal,       \* the proposals of this view: none or one
    heard,          \* the replicas that have handled it
    lost,           \* the blocks that the chain has left behind
    committed       \* how much of chain a replica has committed

consensusVars == <<leader, proposing, chain, proposal, heard, lost,
                   committed>>

vars == <<clientVars, num, cacheVars, serverVars, consensusVars>>

Batches == UNION {[1..n -> Command] : n \in 1..BatchSize}

\* A block: its batch, who stored it, and what is below it in the chain.
Blocks == [batch : Batches, stored : SUBSET Replica, below : Nat]

TypeOK ==
    /\ CallsTypeOK /\ ClientTypeOK /\ CacheTypeOK /\ ServerTypeOK
    /\ leader \in Replica
    /\ proposing \in BOOLEAN
    /\ chain \in Seq(Blocks)
    /\ proposal \subseteq Blocks /\ Cardinality(proposal) <= 1
    /\ heard \subseteq Replica
    /\ lost \subseteq Blocks
    /\ committed \in [Replica -> 0..Len(chain)]

Init ==
    /\ CallsInit /\ ClientInit /\ CacheInit /\ ServerInit
    /\ leader = First
    /\ proposing = FALSE
    /\ chain = <<>>
    /\ proposal = {}
    /\ heard = {}
    /\ lost = {}
    /\ committed = [r \in Replica |-> 0]

-----------------------------------------------------------------------------
(* The replica between consensusBase and its command cache *)

\* Proposed with the batch of the block that the QC is for.
QCProposed(r) ==
    IF chain = <<>> THEN serialNumbers[r]
    ELSE Proposed(serialNumbers[r], chain[Len(chain)].batch)

\* Propose, up to CommandQueue.Get.  The event loop of the leader is not in
\* another handler.
Propose ==
    /\ ~proposing
    /\ proposal = {}
    /\ todo[leader] = <<>>
    /\ proposing' = TRUE
    /\ serialNumbers' = [serialNumbers EXCEPT ![leader] = QCProposed(leader)]
    /\ getter' = [getter EXCEPT ![leader] = "lock"]
    /\ UNCHANGED <<clientVars, num, cache, serverVars, leader, chain, proposal,
                   heard, lost, committed>>

\* Get goes on waiting.
WaitForBatch ==
    /\ GetWaits(leader) \/ GetSelects(leader)
    /\ UNCHANGED <<clientVars, num, serverVars, consensusVars>>

\* Propose, from Get on: the block is made and sent.
SendProposal ==
    /\ GetReturns(leader)
    /\ proposing' = FALSE
    /\ proposal' = {[batch |-> Taken(leader), stored |-> {}, below |-> Len(chain)]}
    /\ UNCHANGED <<clientVars, num, serverVars, leader, chain, heard, lost, committed>>

\* The view ends before there is a batch.
GiveUp ==
    /\ GetCancelled(leader)
    /\ proposing' = FALSE
    /\ leader' = NextLeader[leader]
    /\ UNCHANGED <<clientVars, num, serverVars, chain, proposal, heard,
                   lost, committed>>

\* Exec or Fork of the blocks, in the order given.
CallsOf(op, blocks) ==
    [i \in DOMAIN blocks |-> [op |-> op, cmds |-> blocks[i].batch]]

\* The forked blocks as PruneToHeight lists them; the order does not matter,
\* since every command is reported on its own.
InSomeOrder(S) == CHOOSE s \in Bijection(1..Cardinality(S), S) : TRUE

\* commit: the blocks up to the height are executed, then the blocks that were
\* left behind below it are reported.
CommitCalls(r, height) ==
    CallsOf("Exec", SubSeq(chain, committed[r] + 1, height)) \o
    CallsOf("Fork", InSomeOrder({b \in lost : /\ r \in b.stored
                                              /\ b.below >= committed[r]
                                              /\ b.below < height}))

\* OnPropose: the batch of the QC's block counts as proposed, the proposal is
\* accepted or not, and an accepted one commits.
OnPropose(r) ==
    /\ r \notin heard
    /\ todo[r] = <<>>
    /\ \E p \in proposal :
         LET serials == QCProposed(r)
             accepted == Accept(serials, p.batch)
             height == Len(chain) - CommitDepth
         IN  /\ serialNumbers' = [serialNumbers EXCEPT ![r] = serials]
             /\ proposal' = IF accepted THEN {[p EXCEPT !.stored = @ \cup {r}]}
                                        ELSE proposal
             /\ IF accepted /\ height > committed[r]
                THEN /\ committed' = [committed EXCEPT ![r] = height]
                     /\ todo' = [todo EXCEPT ![r] = CommitCalls(r, height)]
                ELSE UNCHANGED <<committed, todo>>
    /\ heard' = heard \cup {r}
    /\ UNCHANGED <<clientVars, num, cache, getter, delivered, adding,
                   awaitingCmds, hash, leader, proposing, chain, lost>>

-----------------------------------------------------------------------------
(* The rest of consensus *)

NextView ==
    /\ proposal' = {}
    /\ heard' = {}
    /\ leader' = NextLeader[leader]
    /\ UNCHANGED <<clientVars, num, cacheVars, serverVars, proposing, committed>>

\* A quorum has accepted the proposal.
Certify ==
    /\ \E p \in proposal :
         /\ Cardinality(p.stored) >= Cardinality(Replica) - NumFaulty
         /\ chain' = Append(chain, p)
    /\ UNCHANGED lost
    /\ NextView

\* The view ends without a QC.
LoseProposal ==
    /\ Cardinality(lost) < MaxLost
    /\ proposal # {}
    /\ lost' = lost \cup proposal
    /\ UNCHANGED chain
    /\ NextView

\* The next leader does not know the QC of the last block.
LoseQC ==
    /\ Cardinality(lost) < MaxLost
    /\ chain # <<>>
    /\ ~proposing
    /\ proposal = {}
    /\ \A b \in lost : b.below < Len(chain)
    /\ lost' = lost \cup {chain[Len(chain)]}
    /\ chain' = SubSeq(chain, 1, Len(chain) - 1)
    /\ NextView

-----------------------------------------------------------------------------
ClientSteps(c) ==
    /\ SenderStep(c) \/ HandlerStep(c) \/ StopClient(c)
    /\ UNCHANGED <<cacheVars, serverVars, consensusVars>>

ServerSteps(r) ==
    /\ RunTask(r) \/ \E c \in Client : ExecCommand(r, c) \/ ExecCommandAdds(r, c)
    /\ UNCHANGED <<senderVars, handlerVars, pendingCmds, cancelled, consensusVars>>

Next ==
    \/ \E c \in Client : ClientSteps(c)
    \/ \E r \in Replica : ServerSteps(r) \/ OnPropose(r)
    \/ Propose \/ WaitForBatch \/ SendProposal \/ GiveUp
    \/ Certify \/ LoseProposal \/ LoseQC

Spec == Init /\ [][Next]_vars

\* Goroutines run, streams deliver, and the view timer wakes a leader that has
\* waited long enough.
Fairness ==
    /\ \A c \in Client :
         /\ WF_vars(SenderStep(c) /\ ClientSteps(c))
         /\ WF_vars(HandlerStep(c) /\ ClientSteps(c))
    /\ \A r \in Replica :
         /\ WF_vars(RunTask(r) /\ ServerSteps(r))
         /\ WF_vars(OnPropose(r))
         /\ \A c \in Client :
              WF_vars((ExecCommand(r, c) \/ ExecCommandAdds(r, c)) /\ ServerSteps(r))
    /\ WF_vars(Propose \/ WaitForBatch \/ SendProposal \/ GiveUp)
    /\ WF_vars(Certify)

FairSpec == Spec /\ Fairness

-----------------------------------------------------------------------------
(* Properties *)

\* A command that the client counts as executed was executed by at least one
\* correct replica whatever NumFaulty replicas do: the replies that
\* ExecCommandQF counts are sent by Exec, never by Fork or for another command.
AckedExecuted ==
    \A c \in Client : \A n \in acked[c] :
        Cardinality({r \in Replica : <<c, n>> \in Range(hash[r])}) > NumFaulty

\* No replica executes a command twice or after a later one of its client,
\* though every replica has its own copy of it to propose: Proposed and Accept
\* keep the serial numbers of the chain.
ExecutedInOrder ==
    \A r \in Replica : \A i, j \in DOMAIN hash[r] :
        i < j /\ hash[r][i][1] = hash[r][j][1] => hash[r][i][2] < hash[r][j][2]

\* A client that was not stopped ends only after the answers to all commands of
\* its input: lastCommand, the number of the first empty command, and
\* highestCommitted, one more than the last answered number, fit together.
InputAnswered ==
    \A c \in Client :
        sender[c] = "done" /\ ~cancelled[c] => 1..NumData \subseteq acked[c] \cup failed[c]

\* The client has at most MaxConcurrent + 2 commands in flight: those in the
\* channel, the one that handleCommands waits for and the one that
\* sendCommands waits to push.
InFlightBounded ==
    \A c \in Client : num[c] - highestCommitted[c] <= MaxConcurrent + 2

\* When no block is lost and no client stopped, every client gets the answers
\* to its input, whatever batches the leaders wait for in vain: notifications
\* that addCommand drops are made good by the end of the view.
ClientsFinish ==
    [](lost = {} /\ \A c \in Client : ~cancelled[c])
        => <>(\A c \in Client : sender[c] = "done")
=============================================================================
