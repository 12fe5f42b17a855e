------------------------------ MODULE HotStuff ------------------------------
(***************************************************************************)
(* The replicas of chained HotStuff: consensusBase (consensus.go), its     *)
(* ChainedHotStuff rules, the view Synchronizer, the VotingMachine and the *)
(* blockChain of each replica, exchanging proposals, votes, new-view and   *)
(* timeout messages.                                                       *)
(*                                                                         *)
(* A block is named by its view and its proposer, which stands for its     *)
(* hash; a quorum certificate is the block it certifies and a timeout      *)
(* certificate is its view.  The handlers of a replica run to completion   *)
(* one after the other in its event loop.  A handler is a stack of pending *)
(* calls, the functions it has still to run in the order Go runs them      *)
(* (deferred calls last), and each step runs the function on top.  Handlers*)
(* of different replicas only share the network, so one handler at a time  *)
(* is on the stack.                                                        *)
(***************************************************************************)
EXTENDS Integers, FiniteSets, Sequences

CONSTANTS
    Replica,        \* the IDs of the replicas
    MaxView,        \* bound: the last view in which blocks are proposed
    MaxTimeouts,    \* bound: how often the replicas time out in a new view
    Leader,         \* Leader[v]: the replicas GetLeader(v) may return
    Impatient,      \* the replicas whose view timer may expire
    Resending,      \* those whose timer may expire again in the same view
    Forking,        \* the replicas that run the fork strategy
    CommandReady,   \* the answers CommandQueue.Get may give
    Accepts,        \* the answers Acceptor.Accept may give
    Rules           \* the rule sets the system may be set up with

\* The views that have blocks and certificates; 0 is that of genesis.
View == 0..MaxView

Genesis == <<0, 0>>

\* Hash{}: the parent and the certified block of the genesis block.
ZeroHash == <<0, -1>>

BlockId == ((1..MaxView) \X Replica) \cup {Genesis}

Hash == BlockId \cup {ZeroHash}

BView(b) == b[1]

Proposer(b) == b[2]

ASSUME ConstantsAssumption ==
    /\ IsFiniteSet(Replica)
    /\ Replica # {}
    /\ MaxView \in Nat \ {0}
    /\ MaxTimeouts \in Nat
    /\ Leader \in [1..(MaxView + 1) -> (SUBSET Replica) \ {{}}]
    /\ Impatient \subseteq Replica
    /\ Resending \subseteq Impatient
    /\ Forking \subseteq Replica
    /\ CommandReady \subseteq BOOLEAN
    /\ Accepts \subseteq BOOLEAN
    /\ Rules \subseteq {"chained", "simple"}

N == Cardinality(Replica)

NumFaulty == (N - 1) \div 3

QuorumSize == N - NumFaulty

\* What a replica knows of the certificates: a QC and, when tc # 0, a TC.
SyncInfos == [qc : BlockId, tc : View]

QCInfo(b) == [qc |-> b, tc |-> 0]

\* TimeoutMsg without its sender; NilTimeout is the nil pointer.
Timeouts == [view : View, si : SyncInfos]

NilTimeout == [view |-> 0, si |-> QCInfo(Genesis)]

Messages ==
         [type : {"propose"}, to : Replica, b : BlockId]
    \cup [type : {"vote"}, to : Replica, id : Replica, b : BlockId]
    \cup [type : {"newview"}, to : Replica, si : SyncInfos]
    \cup [type : {"timeout"}, to : Replica, id : Replica, t : Timeouts]

Calls ==
         [fn : {"OnPropose", "CommitRule", "commit"}, r : Replica, b : BlockId]
    \cup [fn : {"AdvanceView", "Propose"}, r : Replica, si : SyncInfos]
    \cup [fn : {"CollectTimeout"}, r : Replica, id : Replica, t : Timeouts]
    \cup [fn : {"CleanTimeouts"}, r : Replica]

VARIABLES
    rules,          \* consensusBase.impl: ChainedHotStuff or SimpleHotStuff,
                    \* chosen once, in Init
    blocks,         \* the blocks made so far
    parentOf,       \* Block.Parent()
    qcOf,           \* Block.QuorumCert()
    net,            \* the messages and local events on their way
    calls,          \* the running handler
    started,        \* the replicas whose event loop runs
    currentView,    \* Synchronizer.currentView
    highTC,         \* Synchronizer.highTC
    highQC,         \* Synchronizer.highQC; leafBlock is the block it certifies
    lastTimeout,    \* Synchronizer.lastTimeout
    timeouts,       \* Synchronizer.timeouts: who timed out, per view
    lastVote,       \* consensusBase.lastVote
    bExec,          \* consensusBase.bExec
    bLock,          \* ChainedHotStuff.bLock, SimpleHotStuff.locked
    stored,         \* blockChain.blocks
    blockAtHeight,  \* blockChain.blockAtHeight, ZeroHash where absent
    pruneHeight,    \* blockChain.pruneHeight
    verifying,      \* the verifyCert goroutines not yet run
    verifiedVotes,  \* VotingMachine.verifiedVotes: who voted, per block
    votes,          \* history: the votes signed
    timedOut,       \* history: the view timeouts signed
    executed,       \* history: the blocks given to Executor.Exec
    forked          \* history: the blocks given to ForkHandler.Fork

syncVars == <<currentView, highTC, highQC, lastTimeout, timeouts>>
ruleVars == <<lastVote, bExec, bLock>>
chainVars == <<stored, blockAtHeight, pruneHeight>>
voteVars == <<verifying, verifiedVotes>>
blockVars == <<blocks, parentOf, qcOf>>
logVars == <<votes, timedOut, executed, forked>>

vars == <<blockVars, net, calls, started, syncVars, ruleVars, chainVars,
          voteVars, logVars, rules>>

TypeOK ==
    /\ blocks \subseteq BlockId
    /\ parentOf \in [Hash -> Hash]
    /\ qcOf \in [Hash -> Hash]
    /\ net \subseteq Messages
    /\ calls \in Seq(Calls)
    /\ started \subseteq Replica
    /\ currentView \in [Replica -> 1..(MaxView + 1)]
    /\ highTC \in [Replica -> View]
    /\ highQC \in [Replica -> BlockId]
    /\ lastTimeout \in [Replica -> Timeouts]
    /\ timeouts \in [Replica -> [View -> SUBSET Replica]]
    /\ lastVote \in [Replica -> View]
    /\ bExec \in [Replica -> BlockId]
    /\ bLock \in [Replica -> BlockId]
    /\ stored \in [Replica -> SUBSET BlockId]
    /\ blockAtHeight \in [Replica -> [View -> Hash]]
    /\ pruneHeight \in [Replica -> View]
    /\ verifying \subseteq Replica \X Replica \X BlockId
    /\ verifiedVotes \in [Replica -> [BlockId -> SUBSET Replica]]
    /\ votes \subseteq Replica \X BlockId
    /\ timedOut \subseteq Replica \X View
    /\ executed \in [Replica -> SUBSET BlockId]
    /\ forked \in [Replica -> SUBSET BlockId]

Init ==
    /\ rules \in Rules
    /\ blocks = {Genesis}
    /\ parentOf = [h \in Hash |-> ZeroHash]
    /\ qcOf = [h \in Hash |-> ZeroHash]
    /\ net = {}
    /\ calls = <<>>
    /\ started = Replica \ Leader[1]
    /\ currentView = [r \in Replica |-> 1]
    /\ highTC = [r \in Replica |-> 0]
    /\ highQC = [r \in Replica |-> Genesis]
    /\ lastTimeout = [r \in Replica |-> NilTimeout]
    /\ timeouts = [r \in Replica |-> [v \in View |-> {}]]
    /\ lastVote = [r \in Replica |-> 0]
    /\ bExec = [r \in Replica |-> Genesis]
    /\ bLock = [r \in Replica |-> Genesis]
    /\ stored = [r \in Replica |-> {Genesis}]
    /\ blockAtHeight = [r \in Replica |->
                          [v \in View |-> IF v = 0 THEN Genesis ELSE ZeroHash]]
    /\ pruneHeight = [r \in Replica |-> 0]
    /\ verifying = {}
    /\ verifiedVotes = [r \in Replica |-> [b \in BlockId |-> {}]]
    /\ votes = {}
    /\ timedOut = {}
    /\ executed = [r \in Replica |-> {}]
    /\ forked = [r \in Replica |-> {}]

-----------------------------------------------------------------------------
(* The block chain *)

\* blockChain.Get finds a block that is stored locally and may or may not
\* fetch any other.  Known(r): the sets of blocks that the Get calls of one
\* function of r can find.
Known(r) == {stored[r] \cup fetched : fetched \in SUBSET (blocks \ stored[r])}

\* blockAtHeight after the blocks of S have been stored.
IndexBlocks(at, S) ==
    [v \in View |-> IF \E b \in S : BView(b) = v
                    THEN CHOOSE b \in S : BView(b) = v
                    ELSE at[v]]

\* The blocks asked for and found are kept, Store keeps those of new.
Keep(r, K, asked, new) ==
    LET kept == ((asked \cap K) \ stored[r]) \cup new
    IN  /\ stored' = [stored EXCEPT ![r] = @ \cup kept]
        /\ blockAtHeight' = [blockAtHeight EXCEPT ![r] = IndexBlocks(@, kept)]
        /\ UNCHANGED pruneHeight

\* Extends: the walk down the parents of b to the view of target, ZeroHash
\* when a parent cannot be found.
AncestorAt(b, target, K) ==
    LET walk[c \in BlockId] ==
            IF BView(c) <= BView(target) THEN c
            ELSE IF parentOf[c] \in K THEN walk[parentOf[c]]
            ELSE ZeroHash
    IN  walk[b]

Extends(b, target, K) == AncestorAt(b, target, K) = target

\* The parents that walk asks for.
ExtendsAsks(b, target, K) ==
    LET asks[c \in BlockId] ==
            IF BView(c) <= BView(target) THEN {}
            ELSE {parentOf[c]} \cup
                 (IF parentOf[c] \in K THEN asks[parentOf[c]] ELSE {})
    IN  asks[b]

CommittedViewOnly(h, at, K, pruned) == {h}

CommittedByHeight(h, at, K, pruned) == pruned..h

\* PruneToHeight, first loop: the views of the committed branch, walking down
\* from view h over the blocks of at to the last pruned height.
CommittedViews(h, at, K, pruned) ==
    LET walk[v \in View] ==
            LET parent == parentOf[at[v]]
            IN  {v} \cup (IF /\ v >= pruned
                             /\ at[v] # ZeroHash
                             /\ parent \in K
                             /\ BView(parent) >= pruned
                          THEN walk[BView(parent)]
                          ELSE {})
    IN  walk[h]

\* PruneToHeight, second loop: the views it removes from blockAtHeight.
PrunedViews(pruned, height) == (pruned + 1)..height

-----------------------------------------------------------------------------
(* Calls and messages *)

Running(fn) == calls # <<>> /\ calls[1].fn = fn

\* The running function returns, after the calls of next.
Return(next) == calls' = next \o Tail(calls)

Idle == calls = <<>>

CallOnPropose(r, b) == [fn |-> "OnPropose", r |-> r, b |-> b]
CallCommitRule(r, b) == [fn |-> "CommitRule", r |-> r, b |-> b]
CallCommit(r, b) == [fn |-> "commit", r |-> r, b |-> b]
CallAdvanceView(r, si) == [fn |-> "AdvanceView", r |-> r, si |-> si]
CallPropose(r, si) == [fn |-> "Propose", r |-> r, si |-> si]
CallCollectTimeout(r, id, t) ==
    [fn |-> "CollectTimeout", r |-> r, id |-> id, t |-> t]
CallCleanTimeouts(r) == [fn |-> "CleanTimeouts", r |-> r]

VoteMsg(to, id, b) == [type |-> "vote", to |-> to, id |-> id, b |-> b]
NewViewMsg(to, si) == [type |-> "newview", to |-> to, si |-> si]

ProposeMsgs(r, b) ==
    {[type |-> "propose", to |-> o, b |-> b] : o \in Replica \ {r}}

TimeoutMsgs(r, t) ==
    {[type |-> "timeout", to |-> o, id |-> r, t |-> t] : o \in Replica \ {r}}

Larger(x, y) == IF x > y THEN x ELSE y

EnoughButOne(signers) == Cardinality(signers) + 1 >= QuorumSize

\* The signatures make a certificate.
Enough(signers) == Cardinality(signers) >= QuorumSize

-----------------------------------------------------------------------------
(* Synchronizer *)

SyncInfo(r) ==
    IF BView(highQC[r]) >= highTC[r]
    THEN QCInfo(highQC[r])
    ELSE [qc |-> highQC[r], tc |-> highTC[r]]

UpdateHighQCAny(r, qc, K) ==
    highQC' = IF qc \in K THEN [highQC EXCEPT ![r] = qc] ELSE highQC

UpdateHighQC(r, qc, K) ==
    highQC' = IF qc \in K /\ BView(qc) > BView(highQC[r])
              THEN [highQC EXCEPT ![r] = qc]
              ELSE highQC

\* Run calls Start before the event loop handles anything.  The Start of a
\* replica that does not lead view 1 only sets the timer: it is over in Init.
Start(r) ==
    /\ Idle
    /\ r \notin started
    /\ started' = started \cup {r}
    /\ \E leader \in Leader[currentView[r]] :
         calls' = IF leader = r THEN <<CallPropose(r, SyncInfo(r))>> ELSE <<>>
    /\ UNCHANGED <<blockVars, net, syncVars, ruleVars, chainVars, voteVars,
                   logVars>>

OnRemoteTimeoutTrusting(r, id, t) ==
    <<CallAdvanceView(r, [t.si EXCEPT !.tc = t.view]),
      CallCollectTimeout(r, id, t), CallCleanTimeouts(r)>>

\* OnRemoteTimeout is AdvanceView with the SyncInfo of the message, then
\* CollectTimeout, then the deferred clean-up.
OnRemoteTimeout(r, id, t) ==
    <<CallAdvanceView(r, t.si), CallCollectTimeout(r, id, t),
      CallCleanTimeouts(r)>>

StopVoting(r, view) ==
    lastVote' = [lastVote EXCEPT ![r] = Larger(@, view)]

\* onLocalTimeout; the timer of the last view is left out.
OnLocalTimeout(r) ==
    /\ Idle
    /\ r \in started
    /\ r \in Impatient
    /\ currentView[r] <= MaxView
    /\ IF lastTimeout[r].view = currentView[r]
       THEN /\ r \in Resending
            /\ net' = net \cup TimeoutMsgs(r, lastTimeout[r])
            /\ UNCHANGED <<calls, lastTimeout, lastVote, timedOut>>
       ELSE LET t == [view |-> currentView[r], si |-> SyncInfo(r)]
            IN  /\ Cardinality(timedOut) < MaxTimeouts
                /\ lastTimeout' = [lastTimeout EXCEPT ![r] = t]
                /\ StopVoting(r, t.view)
                /\ timedOut' = timedOut \cup {<<r, t.view>>}
                /\ net' = net \cup TimeoutMsgs(r, t)
                /\ calls' = OnRemoteTimeout(r, r, t)
    /\ UNCHANGED <<blockVars, started, currentView, highTC, highQC, timeouts,
                   bExec, bLock, chainVars, voteVars, votes, executed, forked>>

\* OnRemoteTimeout records the timeout and makes a TC of a quorum of them.
CollectTimeout ==
    /\ Running("CollectTimeout")
    /\ LET c == calls[1]
           v == c.t.view
           collected == timeouts[c.r][v] \cup {c.id}
       IN  \/ /\ ~Enough(collected)
              /\ timeouts' = [timeouts EXCEPT ![c.r][v] = collected]
              /\ Return(<<>>)
           \/ /\ Enough(collected)
              /\ timeouts' = [timeouts EXCEPT ![c.r][v] = {}]
              /\ Return(<<CallAdvanceView(c.r,
                            [qc |-> SyncInfo(c.r).qc, tc |-> v])>>)
    /\ UNCHANGED <<blockVars, net, started, currentView, highTC, highQC,
                   lastTimeout, ruleVars, chainVars, voteVars, logVars>>

OutdatedEarly(r, v) == v <= currentView[r]

\* View v is over for r.
Outdated(r, v) == v < currentView[r]

\* The deferred clean-up of OnRemoteTimeout.
CleanTimeouts ==
    /\ Running("CleanTimeouts")
    /\ LET r == calls[1].r
       IN  timeouts' = [timeouts EXCEPT ![r] =
                          [v \in View |-> IF Outdated(r, v) THEN {} ELSE @[v]]]
    /\ Return(<<>>)
    /\ UNCHANGED <<blockVars, net, started, currentView, highTC, highQC,
                   lastTimeout, ruleVars, chainVars, voteVars, logVars>>

EndedViewEarly(si) == IF si.tc # 0 THEN si.tc ELSE BView(si.qc) - 1

\* The view that a SyncInfo ends.
EndedView(si) == IF si.tc # 0 THEN si.tc ELSE BView(si.qc)

StaleQC(r, si) == si.tc = 0 /\ Outdated(r, EndedView(si))

\* The certificate is for a view that is over.
Stale(r, si) == Outdated(r, EndedView(si))

\* AdvanceView, first half: take over the certificate.
TakeCertificate(r, si) ==
    \/ /\ si.tc # 0
       /\ highTC' = [highTC EXCEPT ![r] = Larger(@, si.tc)]
       /\ UNCHANGED <<highQC, chainVars>>
    \/ /\ si.tc = 0
       /\ \E K \in Known(r) :
            /\ UpdateHighQC(r, si.qc, K)
            /\ Keep(r, K, {si.qc}, {})
       /\ UNCHANGED highTC

AdvanceView ==
    /\ Running("AdvanceView")
    /\ LET r == calls[1].r
           si == calls[1].si
           v == EndedView(si)
       IN  /\ TakeCertificate(r, si)
           /\ \/ /\ Stale(r, si)
                 /\ Return(<<>>)
                 /\ UNCHANGED <<net, currentView, lastTimeout>>
              \/ /\ ~Stale(r, si)
                 /\ currentView' = [currentView EXCEPT ![r] = v + 1]
                 /\ lastTimeout' = [lastTimeout EXCEPT ![r] = NilTimeout]
                 /\ \E leader \in Leader[v + 1] :
                      \/ /\ leader = r
                         /\ Return(<<CallPropose(r, si)>>)
                         /\ UNCHANGED net
                      \/ /\ leader # r
                         /\ Return(<<>>)
                         /\ net' = net \cup {NewViewMsg(leader, si)}
    /\ UNCHANGED <<blockVars, started, timeouts, ruleVars, voteVars, logVars>>

-----------------------------------------------------------------------------
(* consensusBase and ChainedHotStuff *)

\* Propose returns without a proposal: the block of the QC is not found, or
\* there is no command (always, in the view after the last).
ProposeNothing ==
    /\ Running("Propose")
    /\ LET r == calls[1].r
           qc == calls[1].si.qc
       IN  \E K \in Known(r) :
             /\ \/ qc \notin K
                \/ FALSE \in CommandReady
                \/ currentView[r] > MaxView
             /\ Keep(r, K, {qc}, {})
    /\ Return(<<>>)
    /\ UNCHANGED <<blockVars, net, started, syncVars, ruleVars, voteVars,
                   logVars>>

\* Propose makes, stores and sends the block, then handles it as its own.
MakeBlock(r, K, asked, parent, qc) ==
    LET b == <<currentView[r], r>>
    IN  /\ blocks' = blocks \cup {b}
        /\ parentOf' = [parentOf EXCEPT ![b] = parent]
        /\ qcOf' = [qcOf EXCEPT ![b] = qc]
        /\ Keep(r, K, asked, {b})
        /\ net' = net \cup ProposeMsgs(r, b)
        /\ Return(<<CallOnPropose(r, b)>>)

ProposeBlock ==
    /\ Running("Propose")
    /\ TRUE \in CommandReady
    /\ LET r == calls[1].r
           qc == calls[1].si.qc
       IN  /\ currentView[r] <= MaxView
           /\ r \notin Forking
           /\ \E K \in Known(r) :
                /\ qc \in K
                /\ MakeBlock(r, K, {qc}, highQC[r], qc)
    /\ UNCHANGED <<started, syncVars, ruleVars, voteVars, logVars>>

\* ProposeRule of the fork strategy: the parent of the leaf, and the QC that
\* parent holds, instead of the leaf and its own QC.
ProposeFork ==
    /\ Running("Propose")
    /\ TRUE \in CommandReady
    /\ LET r == calls[1].r
           qc == calls[1].si.qc
           parent == parentOf[highQC[r]]
       IN  /\ currentView[r] <= MaxView
           /\ r \in Forking
           /\ \E K \in Known(r) :
                /\ qc \in K
                /\ \/ /\ parent \in K
                      /\ MakeBlock(r, K, {qc, parent}, parent, qcOf[parent])
                   \/ /\ parent \notin K
                      /\ Keep(r, K, {qc}, {})
                      /\ Return(<<>>)
                      /\ UNCHANGED <<blockVars, net>>
    /\ UNCHANGED <<started, syncVars, ruleVars, voteVars, logVars>>

\* VoteRule of ChainedHotStuff: the QC is newer than the lock, or the block
\* extends the lock.  K1 is what the first Get can find, K what it and the later ones find.
HasNewerQC(r, b, K1) == qcOf[b] \in K1 /\ BView(qcOf[b]) > BView(bLock[r])

ChainedVoteRule(r, b, K1, K) ==
    HasNewerQC(r, b, K1) \/ Extends(b, bLock[r], K)

\* VoteRule of SimpleHotStuff: a view not yet left, and a QC no older than the
\* lock.
SimpleVoteRule(r, b, K) ==
    /\ BView(b) >= currentView[r]
    /\ qcOf[b] \in K
    /\ BView(qcOf[b]) >= BView(bLock[r])

VoteRule(r, b, K1, K) ==
    IF rules = "chained" THEN ChainedVoteRule(r, b, K1, K)
                         ELSE SimpleVoteRule(r, b, K)

\* The blocks that VoteRule and OnPropose ask for.
VoteRuleAsks(r, b, K1, K) ==
    IF rules = "simple"
    THEN IF BView(b) < currentView[r] THEN {} ELSE {qcOf[b]}
    ELSE {qcOf[b]} \cup
         (IF HasNewerQC(r, b, K1) THEN {} ELSE ExtendsAsks(b, bLock[r], K))

\* OnPropose of a block whose QC does not verify; the only one is the QC of
\* the genesis block, which a forking replica may copy.
OnProposeInvalid ==
    /\ Running("OnPropose")
    /\ qcOf[calls[1].b] = ZeroHash
    /\ Return(<<>>)
    /\ UNCHANGED <<blockVars, net, started, syncVars, ruleVars, chainVars,
                   voteVars, logVars>>

\* OnPropose of a block that is not from the leader, not safe, or refused by
\* the acceptor: only the deferred AdvanceView is left.
OnProposeRefused ==
    /\ Running("OnPropose")
    /\ LET r == calls[1].r
           b == calls[1].b
       IN  /\ qcOf[b] # ZeroHash
           /\ \/ /\ Leader[BView(b)] # {Proposer(b)}
                 /\ UNCHANGED chainVars
              \/ /\ Proposer(b) \in Leader[BView(b)]
                 /\ \E K1, K \in Known(r) :
                      /\ K1 \subseteq K
                      /\ \/ ~VoteRule(r, b, K1, K)
                         \/ FALSE \in Accepts
                      /\ Keep(r, K, VoteRuleAsks(r, b, K1, K), {})
           /\ Return(<<CallAdvanceView(r, QCInfo(qcOf[b]))>>)
    /\ UNCHANGED <<blockVars, net, started, syncVars, ruleVars, voteVars,
                   logVars>>

\* The vote for b, sent to the leader of the same view.
Vote(r, b) ==
    /\ BView(b) > lastVote[r]
    /\ lastVote' = [lastVote EXCEPT ![r] = BView(b)]
    /\ votes' = votes \cup {<<r, b>>}
    /\ \E leader \in Leader[BView(b)] : net' = net \cup {VoteMsg(leader, r, b)}

\* OnPropose of an accepted block: it is stored and, unless its view is too
\* old, voted for; the deferred calls commit and advance the view.
OnProposeAccepted ==
    /\ Running("OnPropose")
    /\ TRUE \in Accepts
    /\ LET r == calls[1].r
           b == calls[1].b
       IN  /\ qcOf[b] # ZeroHash
           /\ Proposer(b) \in Leader[BView(b)]
           /\ \E K1, K \in Known(r) :
                /\ K1 \subseteq K
                /\ VoteRule(r, b, K1, K)
                /\ Keep(r, K, VoteRuleAsks(r, b, K1, K), {b})
           /\ \/ Vote(r, b)
              \/ /\ BView(b) <= lastVote[r]
                 /\ UNCHANGED <<lastVote, votes, net>>
           /\ Return(<<CallCommitRule(r, b),
                       CallAdvanceView(r, QCInfo(qcOf[b]))>>)
    /\ UNCHANGED <<blockVars, started, syncVars, bExec, bLock, voteVars,
                   timedOut, executed, forked>>

LinkedUnseen(b1, b2, b3, K) ==
    {b1, b2} \subseteq K /\ parentOf[b1] = b2 /\ parentOf[b2] = b3

\* The three blocks are found and linked by their parents.
Linked(b1, b2, b3, K) ==
    {b1, b2, b3} \subseteq K /\ parentOf[b1] = b2 /\ parentOf[b2] = b3

\* The three blocks are found and of consecutive views.
Consecutive(b1, b2, b3, K) ==
    {b1, b2, b3} \subseteq K /\ BView(b3) + 2 = BView(b1)

Commits(b1, b2, b3, K) ==
    IF rules = "chained" THEN Linked(b1, b2, b3, K)
                         ELSE Consecutive(b1, b2, b3, K)

\* CommitRule: ChainedHotStuff raises highQC; both lock the second block of the
\* chain of QCs, and commit the third when the three are linked by their
\* parents (ChainedHotStuff) or of consecutive views (SimpleHotStuff).
CommitRule ==
    /\ Running("CommitRule")
    /\ LET r == calls[1].r
           b1 == qcOf[calls[1].b]
           b2 == qcOf[b1]
           b3 == qcOf[b2]
       IN  \E K1 \in Known(r), K \in Known(r) :
             LET have2 == {b1, b2} \subseteq K
             IN  /\ K1 \subseteq K
                 /\ IF rules = "chained" THEN UpdateHighQC(r, b1, K1)
                                         ELSE UNCHANGED highQC
                 /\ Keep(r, K, {b1} \cup (IF b1 \in K THEN {b2} ELSE {})
                                    \cup (IF have2 THEN {b3} ELSE {}), {})
                 /\ bLock' = IF have2 /\ BView(b2) > BView(bLock[r])
                             THEN [bLock EXCEPT ![r] = b2]
                             ELSE bLock
                 /\ Return(IF Commits(b1, b2, b3, K) THEN <<CallCommit(r, b3)>>
                                                     ELSE <<>>)
    /\ UNCHANGED <<blockVars, net, started, currentView, highTC, lastTimeout,
                   timeouts, lastVote, bExec, voteVars, logVars>>

\* commitInner: the block and those of its ancestors that are newer than the
\* last executed one, as far down as they are found.
ToExecute(r, b, K) ==
    LET path[c \in BlockId] ==
            IF BView(c) <= BView(bExec[r]) THEN {}
            ELSE {c} \cup (IF parentOf[c] \in K THEN path[parentOf[c]] ELSE {})
    IN  path[b] \cap K

\* commit: execute, then prune the chain and report the forked blocks.
Commit ==
    /\ Running("commit")
    /\ LET r == calls[1].r
           b == calls[1].b
           height == BView(b)
           pruned == pruneHeight[r]
       IN  \E K \in Known(r) :
             LET run == ToExecute(r, b, K)
                 last == IF height > BView(bExec[r]) THEN b ELSE bExec[r]
                 got == (({parentOf[c] : c \in run} \cap K) \ stored[r])
                 at == IndexBlocks(blockAtHeight[r], got)
                 kept == CommittedViews(BView(last), at, stored[r] \cup got, pruned)
                 gone == PrunedViews(pruned, height)
             IN  /\ bExec' = [bExec EXCEPT ![r] = last]
                 /\ executed' = [executed EXCEPT ![r] = @ \cup run]
                 /\ stored' = [stored EXCEPT ![r] = @ \cup got]
                 /\ blockAtHeight' = [blockAtHeight EXCEPT ![r] =
                      [v \in View |-> IF v \in gone THEN ZeroHash ELSE at[v]]]
                 /\ pruneHeight' = [pruneHeight EXCEPT ![r] = height]
                 /\ forked' = [forked EXCEPT ![r] = @ \cup
                      ({at[v] : v \in gone \ kept} \ {ZeroHash})]
    /\ Return(<<>>)
    /\ UNCHANGED <<blockVars, net, started, syncVars, lastVote, bLock,
                   voteVars, votes, timedOut>>

-----------------------------------------------------------------------------
(* VotingMachine *)

\* OnVote.  A vote for a block that is not stored is handed to DelayUntil,
\* which never gives it back (module EventLoop).
OnVote(m) ==
    /\ Idle
    /\ m.type = "vote"
    /\ m.to \in started
    /\ net' = net \ {m}
    /\ verifying' = IF /\ m.b \in stored[m.to]
                       /\ BView(m.b) > BView(highQC[m.to])
                    THEN verifying \cup {<<m.to, m.id, m.b>>}
                    ELSE verifying
    /\ UNCHANGED <<blockVars, calls, started, syncVars, ruleVars, chainVars,
                   verifiedVotes, logVars>>

\* verifyCert, run by its own goroutine under the mutex: a quorum of votes
\* becomes a QC; votes for blocks no newer than the leaf are dropped.
VerifyCert(r, id, b) ==
    /\ Idle
    /\ <<r, id, b>> \in verifying
    /\ verifying' = verifying \ {<<r, id, b>>}
    /\ LET collected == verifiedVotes[r][b] \cup {id}
           full == Enough(collected)
       IN  /\ net' = IF full THEN net \cup {NewViewMsg(r, QCInfo(b))} ELSE net
           /\ verifiedVotes' = [verifiedVotes EXCEPT ![r] =
                [c \in BlockId |-> IF \/ BView(c) <= BView(highQC[r])
                                      \/ c = b /\ full
                                   THEN {}
                                   ELSE IF c = b THEN collected ELSE @[c]]]
    /\ UNCHANGED <<blockVars, calls, started, syncVars, ruleVars, chainVars,
                   logVars>>

-----------------------------------------------------------------------------
(* The event loop *)

\* The event loop takes any other message and calls its handler.
Receive(m) ==
    /\ Idle
    /\ m.to \in started
    /\ \/ /\ m.type = "propose"
          /\ calls' = <<CallOnPropose(m.to, m.b)>>
       \/ /\ m.type = "newview"
          /\ calls' = <<CallAdvanceView(m.to, m.si)>>
       \/ /\ m.type = "timeout"
          /\ calls' = OnRemoteTimeout(m.to, m.id, m.t)
    /\ net' = net \ {m}
    /\ UNCHANGED <<blockVars, started, syncVars, ruleVars, chainVars, voteVars,
                   logVars>>

\* The function on top of the running handler.
RunCall ==
    \/ CollectTimeout \/ CleanTimeouts \/ AdvanceView
    \/ ProposeNothing \/ ProposeBlock \/ ProposeFork
    \/ OnProposeInvalid \/ OnProposeRefused \/ OnProposeAccepted
    \/ CommitRule \/ Commit

Next ==
    /\ \/ \E r \in Replica : Start(r) \/ OnLocalTimeout(r)
       \/ \E m \in net : OnVote(m) \/ Receive(m)
       \/ \E r, id \in Replica, b \in BlockId : VerifyCert(r, id, b)
       \/ RunCall
    /\ UNCHANGED rules

Spec == Init /\ [][Next]_vars

\* Goroutines are scheduled and connections deliver: something that can be
\* done is done.
FairSpec == Spec /\ WF_vars(Next)

-----------------------------------------------------------------------------
(* Properties *)

Voters(b) == {r \in Replica : <<r, b>> \in votes}

\* A QC for b can exist: genesis, or a quorum signed votes for it.
Certified(b) == b = Genesis \/ Cardinality(Voters(b)) >= QuorumSize

TimedOutIn(v) == {r \in Replica : <<r, v>> \in timedOut}

\* A TC for v can exist: view 0, or a quorum signed timeouts for it.
Expired(v) == v = 0 \/ Cardinality(TimedOutIn(v)) >= QuorumSize

Backed(si) == Certified(si.qc) /\ Expired(si.tc)

\* At most one block of a view gathers a quorum of votes, whatever GetLeader
\* answers to different replicas: lastVote lets OnPropose sign one vote a view.
OneQCPerView ==
    \A b, c \in BlockId :
        Certified(b) /\ Certified(c) /\ BView(b) = BView(c) => b = c

\* Every certificate that a replica keeps, a block carries or a message brings
\* is backed by a quorum of signatures: verifyCert and OnRemoteTimeout make
\* certificates of what a quorum signed, and stale or cleaned-up votes and
\* timeouts never count for another block or view.
CertificatesBacked ==
    /\ \A r \in Replica :
         /\ Certified(highQC[r])
         /\ Expired(highTC[r])
         /\ Backed(lastTimeout[r].si)
    /\ \A b \in blocks : qcOf[b] = ZeroHash \/ Certified(qcOf[b])
    /\ \A m \in net :
         /\ m.type = "newview" => Backed(m.si)
         /\ m.type = "timeout" => Backed(m.t.si)

\* No replica is in a view before a quorum voted for a block of the view
\* before it or timed out in it: AdvanceView follows certificates only.
ViewsEarned ==
    \A r \in Replica :
        LET v == currentView[r] - 1
        IN  Expired(v) \/ \E b \in BlockId : BView(b) = v /\ Certified(b)

\* Between handlers a replica has left every view that its own certificates
\* end: neither CommitRule nor AdvanceView raises highQC or highTC without the
\* view following.
ViewAheadOfCertificates ==
    Idle => \A r \in Replica :
              /\ currentView[r] > BView(highQC[r])
              /\ currentView[r] > highTC[r]

\* The blocks that the replica refers to are in its chain: UpdateHighQC never
\* panics with "Block from the old highQC missing from chain", and the lock
\* and the last executed block can be compared with new ones.
ReferredBlocksStored ==
    \A r \in Replica : {highQC[r], bLock[r], bExec[r]} \subseteq stored[r]

\* The replicas execute the same blocks in the same order: up to the last
\* block that both have reached, they have executed the same ones (a replica
\* executes in the order of the views).
ExecutionAgreement ==
    \A r, o \in Replica :
        \A b \in executed[r] :
            BView(b) <= BView(bExec[o]) => b \in executed[o]

\* All the blocks executed by any replica lie on one branch of the chain.
OneBranch ==
    \A r, o \in Replica :
        \A b \in executed[r], c \in executed[o] :
            Extends(b, c, blocks) \/ Extends(c, b, blocks)

\* The stored blocks that a commit of r moves past.
Passed(r) ==
    {b \in stored'[r] : BView(bExec[r]) < BView(b) /\ BView(b) <= BView(bExec'[r])}

\* A commit settles the stored blocks between the last executed block and the
\* new one: each is given to the Executor or to the ForkHandler, which tells the
\* client that its command failed, and none to both.  PruneToHeight finds the
\* executed branch again by way of blockAtHeight, which holds one block of a
\* view; where two blocks of a view are stored nothing is claimed.
CommitSettles ==
    [][\A r \in Replica :
         (\A b, c \in Passed(r) : BView(b) = BView(c) => b = c) =>
            \A b \in Passed(r) : (b \in executed'[r]) # (b \in forked'[r])]_vars

\* A replica signs a vote only in a view later than those it voted or timed
\* out in before (StopVoting and lastVote).
VotesAscend ==
    [][\A r \in Replica, b \in BlockId :
         <<r, b>> \in votes' \ votes =>
            /\ \A c \in BlockId : <<r, c>> \in votes => BView(c) < BView(b)
            /\ \A v \in View : <<r, v>> \in timedOut => v < BView(b)]_vars

\* No replica makes two blocks for one view: once made, the block of a view
\* and proposer keeps its parent and its QC (AdvanceView calls Propose only
\* when the view has grown).
OneProposalPerView ==
    [][\A b \in blocks : parentOf'[b] = parentOf[b] /\ qcOf'[b] = qcOf[b]]_vars

\* The certificates, the lock and the last executed block of a replica are
\* never replaced by older ones, however late a message is handled.
NoRollback ==
    [][\A r \in Replica :
         /\ currentView'[r] >= currentView[r]
         /\ highTC'[r] >= highTC[r]
         /\ BView(highQC'[r]) >= BView(highQC[r])
         /\ BView(bLock'[r]) >= BView(bLock[r])
         /\ BView(bExec'[r]) >= BView(bExec[r])]_vars

Quorums == {S \in SUBSET Replica : Cardinality(S) >= QuorumSize}

Abstract ==
    INSTANCE Voting WITH Block <- BlockId, View <- 1..(MaxView + 1), Quorum <- Quorums,
                         view <- currentView

\* The replicas keep the promises of Voting, whatever handlers, messages and
\* certificates lie between: they sign one thing after the other, give up only
\* the view they are in, and enter only the view after one that has ended.
ImplementsVoting == Abstract!Promise

\* What a replica has signed, lastVote remembers: it voted once in a view, and
\* neither voted nor timed out in a view after lastVote.
SignaturesBounded ==
    /\ \A r \in Replica, b \in BlockId : <<r, b>> \in votes => BView(b) <= lastVote[r]
    /\ \A r \in Replica, v \in View : <<r, v>> \in timedOut => v <= lastVote[r]
    /\ \A r \in Replica, b, c \in BlockId :
         <<r, b>> \in votes /\ <<r, c>> \in votes /\ BView(b) = BView(c) => b = c

\* A message brings genuine signatures and backed certificates.
GoodMessage(m) ==
    /\ m.type = "vote" => <<m.id, m.b>> \in votes
    /\ m.type = "newview" => Backed(m.si)
    /\ m.type = "timeout" => <<m.id, m.t.view>> \in timedOut /\ Backed(m.t.si)

\* So does a call; a commit is called with a stored block.
GoodCalls ==
    {c \in Calls :
       /\ c.fn \in {"AdvanceView", "Propose"} => Backed(c.si)
       /\ c.fn = "CollectTimeout" =>
            <<c.id, c.t.view>> \in timedOut /\ Backed(c.t.si)
       /\ c.fn = "commit" => c.b \in stored[c.r]}

\* The votes being verified and collected are genuine.
GoodVotes ==
    /\ \A r, id \in Replica, b \in BlockId :
         <<r, id, b>> \in verifying => <<id, b>> \in votes
    /\ \A r \in Replica, b \in BlockId : verifiedVotes[r][b] \subseteq Voters(b)

\* So are the timeouts collected and the last one sent.
GoodTimeouts ==
    \A r \in Replica :
        /\ \A v \in View : timeouts[r][v] \subseteq TimedOutIn(v)
        /\ lastTimeout[r].view # 0 => <<r, lastTimeout[r].view>> \in timedOut
        /\ Backed(lastTimeout[r].si)

\* So is all that is on its way, called, kept or carried by a block.
GoodNet == \A m \in net : GoodMessage(m)

GoodStack == calls \in Seq(GoodCalls)

GoodCerts == \A r \in Replica : Certified(highQC[r]) /\ Expired(highTC[r])

GoodQCs == \A h \in Hash : qcOf[h] = ZeroHash \/ Certified(qcOf[h])

\* The inductive invariant behind the safety properties.
SafetyInv ==
    /\ TypeOK
    /\ SignaturesBounded
    /\ GoodNet
    /\ GoodStack
    /\ GoodVotes
    /\ GoodTimeouts
    /\ GoodCerts
    /\ GoodQCs
    /\ ViewsEarned
    /\ ReferredBlocksStored

\* Every replica leaves every view, whether or not commands come, proposals
\* are accepted and blocks can be fetched: the timers that keep expiring make a
\* TC where the votes make no QC.
ViewsAdvance == <>(\A r \in Replica : currentView[r] > MaxView)
=============================================================================
