--------------------------- MODULE HotStuffProofs ---------------------------
(***************************************************************************)
(* Proofs about HotStuff for any number of replicas, views and timeouts,   *)
(* any leader rotation and any set of forking replicas: its types, the     *)
(* order of the calls of a handler, one vote a view and no roll back.      *)
(* Last, what every step keeps of the certificates.                        *)
(***************************************************************************)
EXTENDS HotStuff, TLAPS

-----------------------------------------------------------------------------
(* Types *)

\* The view and, but for genesis, the proposer of a block.
LEMMA BlockTypes ==
    /\ Genesis \in BlockId
    /\ ZeroHash \in Hash
    /\ ZeroHash \notin BlockId
    /\ BlockId \subseteq Hash
    /\ Hash = BlockId \cup {ZeroHash}
    /\ BView(ZeroHash) = 0
    /\ BView(Genesis) = 0
    /\ \A b \in BlockId : BView(b) \in View
    /\ View \subseteq Nat
    /\ 0 \in View
BY ConstantsAssumption
   DEF Genesis, ZeroHash, BlockId, Hash, BView, View

\* The last view is a positive number.
LEMMA MaxViewType == MaxView \in Nat /\ MaxView > 0
BY ConstantsAssumption

\* A block made in a view that is not past the last is a BlockId.
LEMMA NewBlockType ==
    ASSUME NEW r \in Replica, NEW v \in 1..MaxView
    PROVE  <<v, r>> \in BlockId /\ BView(<<v, r>>) = v
BY Zenon DEF BlockId, BView

\* The running function is a well-formed call.
LEMMA CallTypes ==
    ASSUME TypeOK, calls # <<>>
    PROVE  /\ calls[1] \in Calls
           /\ calls[1].r \in Replica
           /\ calls[1].fn \in {"OnPropose", "CommitRule", "commit"} =>
                calls[1].b \in BlockId
           /\ calls[1].fn \in {"AdvanceView", "Propose"} =>
                calls[1].si \in SyncInfos
           /\ calls[1].fn = "CollectTimeout" =>
                calls[1].id \in Replica /\ calls[1].t \in Timeouts
<1>1. calls \in Seq(Calls)
  BY Zenon DEF TypeOK
<1>2. calls[1] \in Calls
  BY <1>1
<1> QED
  BY <1>2, Zenon DEF Calls

\* Return leaves a well-formed stack.
LEMMA ReturnType ==
    ASSUME NEW S, NEW next \in Seq(S), NEW s \in Seq(S), s # <<>>
    PROVE  next \o Tail(s) \in Seq(S)
  OBVIOUS

\* The leaders that a view may have.
LEMMA LeaderType ==
    ASSUME NEW v \in 1..(MaxView + 1)
    PROVE  Leader[v] \subseteq Replica
BY ConstantsAssumption, Zenon

\* SyncInfo makes a SyncInfo of highQC and highTC.
LEMMA SyncInfoType ==
    ASSUME TypeOK, NEW r \in Replica
    PROVE  SyncInfo(r) \in SyncInfos
BY BlockTypes, Zenon DEF TypeOK, SyncInfo, SyncInfos, QCInfo

\* What a function of r knows are blocks.
LEMMA KnownType ==
    ASSUME TypeOK, NEW r \in Replica, NEW K \in Known(r)
    PROVE  K \subseteq BlockId /\ stored[r] \subseteq K
BY Zenon DEF TypeOK, Known

\* blockAtHeight stays a map of views to blocks.
LEMMA IndexType ==
    ASSUME NEW at \in [View -> Hash], NEW S \in SUBSET BlockId
    PROVE  IndexBlocks(at, S) \in [View -> Hash]
<1>1. \A v \in View : (\E b \in S : BView(b) = v) => (CHOOSE b \in S : BView(b) = v) \in S
  BY Zenon
<1> QED
  BY <1>1, BlockTypes, Zenon DEF IndexBlocks

\* Storing blocks keeps the chain well-formed.
LEMMA KeepType ==
    ASSUME TypeOK, NEW r \in Replica, NEW K \in Known(r), NEW asked,
           NEW new \in SUBSET BlockId, Keep(r, K, asked, new)
    PROVE  /\ stored' \in [Replica -> SUBSET BlockId]
           /\ blockAtHeight' \in [Replica -> [View -> Hash]]
           /\ pruneHeight' \in [Replica -> View]
<1> DEFINE kept == ((asked \cap K) \ stored[r]) \cup new
<1>1. kept \subseteq BlockId
  BY KnownType, Zenon
<1>2. IndexBlocks(blockAtHeight[r], kept) \in [View -> Hash]
  BY <1>1, IndexType, Zenon DEF TypeOK
<1>3. stored' \in [Replica -> SUBSET BlockId]
  BY <1>1, Zenon DEF Keep, TypeOK
<1>4. blockAtHeight' \in [Replica -> [View -> Hash]]
  BY <1>2, Zenon DEF Keep, TypeOK
<1>5. pruneHeight' \in [Replica -> View]
  BY Zenon DEF Keep, TypeOK
<1> QED
  BY <1>3, <1>4, <1>5, Zenon

\* UpdateHighQC leaves a block in highQC.
LEMMA UpdateHighQCType ==
    ASSUME TypeOK, NEW r \in Replica, NEW qc, NEW K \in Known(r),
           UpdateHighQC(r, qc, K)
    PROVE  highQC' \in [Replica -> BlockId]
BY KnownType, Zenon DEF TypeOK, UpdateHighQC

\* Both rule sets commit only blocks they have found.
LEMMA CommitsFound ==
    ASSUME NEW b1, NEW b2, NEW b3, NEW K, Commits(b1, b2, b3, K)
    PROVE  {b1, b2, b3} \subseteq K
BY Zenon DEF Commits, Linked, Consecutive

\* The initial state is well-formed.
LEMMA InitType == Init => TypeOK
<1> SUFFICES ASSUME Init PROVE TypeOK
  BY Zenon
<1>1. NilTimeout \in Timeouts
  BY BlockTypes, Zenon DEF NilTimeout, Timeouts, QCInfo, SyncInfos
<1>2. 1 \in 1..(MaxView + 1)
  BY ConstantsAssumption
<1> QED
  BY <1>1, <1>2, BlockTypes, LeaderType DEF Init, TypeOK

\* A message type by its kind.
LEMMA MessageTypes ==
    ASSUME TypeOK, NEW m \in net
    PROVE  /\ m.to \in Replica
           /\ m.type = "propose" => m.b \in BlockId
           /\ m.type = "vote" => m.id \in Replica /\ m.b \in BlockId
           /\ m.type = "newview" => m.si \in SyncInfos
           /\ m.type = "timeout" => m.id \in Replica /\ m.t \in Timeouts
BY Zenon DEF TypeOK, Messages

\* The messages and calls that the actions make are well-formed.
LEMMA MadeTypes ==
    ASSUME NEW r \in Replica, NEW id \in Replica
    PROVE  /\ \A b \in BlockId :
                /\ CallOnPropose(r, b) \in Calls
                /\ CallCommitRule(r, b) \in Calls
                /\ CallCommit(r, b) \in Calls
                /\ VoteMsg(r, id, b) \in Messages
                /\ ProposeMsgs(r, b) \subseteq Messages
                /\ QCInfo(b) \in SyncInfos
           /\ \A si \in SyncInfos :
                /\ CallAdvanceView(r, si) \in Calls
                /\ CallPropose(r, si) \in Calls
                /\ NewViewMsg(r, si) \in Messages
           /\ \A t \in Timeouts :
                /\ OnRemoteTimeout(r, id, t) \in Seq(Calls)
                /\ TimeoutMsgs(r, t) \subseteq Messages
           /\ CallCleanTimeouts(r) \in Calls
<1>1. \A b \in BlockId :
        /\ CallOnPropose(r, b) \in Calls
        /\ CallCommitRule(r, b) \in Calls
        /\ CallCommit(r, b) \in Calls
        /\ VoteMsg(r, id, b) \in Messages
        /\ ProposeMsgs(r, b) \subseteq Messages
        /\ QCInfo(b) \in SyncInfos
  BY BlockTypes DEF CallOnPropose, CallCommitRule, CallCommit, VoteMsg, ProposeMsgs,
     QCInfo, Calls, Messages, SyncInfos
<1>2. \A si \in SyncInfos :
        /\ CallAdvanceView(r, si) \in Calls
        /\ CallPropose(r, si) \in Calls
        /\ NewViewMsg(r, si) \in Messages
  BY Zenon DEF CallAdvanceView, CallPropose, NewViewMsg, Calls, Messages
<1>3. CallCleanTimeouts(r) \in Calls
  BY Zenon DEF CallCleanTimeouts, Calls
<1>4. \A t \in Timeouts : CallCollectTimeout(r, id, t) \in Calls
  BY Zenon DEF CallCollectTimeout, Calls
<1>5. \A t \in Timeouts : t.si \in SyncInfos
  BY Zenon DEF Timeouts
<1>6. \A t \in Timeouts : OnRemoteTimeout(r, id, t) \in Seq(Calls)
  BY <1>2, <1>3, <1>4, <1>5 DEF OnRemoteTimeout
<1>7. \A t \in Timeouts : TimeoutMsgs(r, t) \subseteq Messages
  BY DEF TimeoutMsgs, Messages
<1> QED
  BY <1>1, <1>2, <1>3, <1>6, <1>7, Zenon

\* The running handler, after its function has returned without calls, or
\* after one or two.
LEMMA ReturnCalls ==
    ASSUME TypeOK, calls # <<>>
    PROVE  /\ Return(<<>>) => calls' \in Seq(Calls)
           /\ \A c \in Calls : Return(<<c>>) => calls' \in Seq(Calls)
           /\ \A c, d \in Calls : Return(<<c, d>>) => calls' \in Seq(Calls)
<1>1. calls \in Seq(Calls)
  BY Zenon DEF TypeOK
<1>2. <<>> \in Seq(Calls) /\ \A c, d \in Calls : <<c>> \in Seq(Calls) /\ <<c, d>> \in Seq(Calls)
  OBVIOUS
<1> QED
  BY <1>1, <1>2, ReturnType, Zenon DEF Return

\* Start keeps the types.
LEMMA StartType ==
    ASSUME TypeOK, NEW r \in Replica, Start(r), rules' = rules
    PROVE  TypeOK'
<1> USE DEF blockVars, syncVars, ruleVars, chainVars, voteVars, logVars
<1>1. calls' \in Seq(Calls)
  BY SyncInfoType, MadeTypes DEF Start
<1> QED
  BY <1>1, Zenon DEF Start, TypeOK

\* OnLocalTimeout keeps the types.
LEMMA LocalTimeoutType ==
    ASSUME TypeOK, NEW r \in Replica, OnLocalTimeout(r), rules' = rules
    PROVE  TypeOK'
<1> USE DEF blockVars, syncVars, ruleVars, chainVars, voteVars, logVars
<1> DEFINE t == [view |-> currentView[r], si |-> SyncInfo(r)]
<1>1. currentView[r] \in View /\ t \in Timeouts
  <2>1. currentView[r] \in 1..(MaxView + 1) /\ currentView[r] <= MaxView
    BY Zenon DEF OnLocalTimeout, TypeOK
  <2>2. currentView[r] \in View
    BY <2>1, ConstantsAssumption DEF View
  <2> QED
    BY <2>2, SyncInfoType, Zenon DEF Timeouts
<1>2. lastTimeout[r] \in Timeouts
  BY Zenon DEF TypeOK
<1>3. net' \subseteq Messages
  BY <1>1, <1>2, MadeTypes, ZenonT(30) DEF OnLocalTimeout, TypeOK
<1>4. calls' \in Seq(Calls)
  BY <1>1, MadeTypes DEF OnLocalTimeout, TypeOK
<1>5. lastTimeout' \in [Replica -> Timeouts]
  BY <1>1, ZenonT(40) DEF OnLocalTimeout, TypeOK
<1>6. lastVote' \in [Replica -> View] /\ timedOut' \subseteq Replica \X View
  <2>1. CASE lastTimeout[r].view = currentView[r]
    BY <2>1, Zenon DEF OnLocalTimeout, TypeOK
  <2>2. CASE lastTimeout[r].view # currentView[r]
    <3>1. /\ lastVote' = [lastVote EXCEPT ![r] = Larger(@, currentView[r])]
          /\ timedOut' = timedOut \cup {<<r, currentView[r]>>}
      BY <2>2, Zenon DEF OnLocalTimeout, StopVoting
    <3>2. Larger(lastVote[r], currentView[r]) \in View
      BY <1>1, Zenon DEF TypeOK, Larger
    <3> QED
      BY <1>1, <3>1, <3>2 DEF TypeOK
  <2> QED
    BY <2>1, <2>2, Zenon
<1> QED
  BY <1>3, <1>4, <1>5, <1>6, Zenon DEF OnLocalTimeout, TypeOK

\* The counting of timeouts in OnRemoteTimeout keeps the types.
LEMMA CollectType ==
    ASSUME TypeOK, CollectTimeout, rules' = rules
    PROVE  TypeOK'
<1> USE DEF blockVars, syncVars, ruleVars, chainVars, voteVars, logVars
<1> DEFINE c == calls[1]
           v == c.t.view
           collected == timeouts[c.r][v] \cup {c.id}
<1>1. /\ c.r \in Replica /\ c.id \in Replica /\ c.t \in Timeouts
      /\ v \in View /\ calls # <<>>
  BY CallTypes, Zenon DEF CollectTimeout, Running, Timeouts
<1>2. timeouts' \in [Replica -> [View -> SUBSET Replica]]
  <2>1. timeouts[c.r] \in [View -> SUBSET Replica] /\ collected \in SUBSET Replica
    BY <1>1 DEF TypeOK
  <2>2. \E S \in SUBSET Replica : timeouts' = [timeouts EXCEPT ![c.r][v] = S]
    BY <2>1, Zenon DEF CollectTimeout
  <2> QED
    BY <1>1, <2>1, <2>2 DEF TypeOK
<1>3. [qc |-> SyncInfo(c.r).qc, tc |-> v] \in SyncInfos
  BY <1>1, SyncInfoType, Zenon DEF SyncInfos
<1>4. calls' \in Seq(Calls)
  <2>1. CallAdvanceView(c.r, [qc |-> SyncInfo(c.r).qc, tc |-> v]) \in Calls
    BY <1>1, <1>3, MadeTypes, Zenon
  <2> QED
    BY <1>1, <2>1, ReturnCalls, Zenon DEF CollectTimeout
<1> QED
  BY <1>2, <1>4, Zenon DEF CollectTimeout, TypeOK

\* The deferred clean-up of OnRemoteTimeout keeps the types.
LEMMA CleanType ==
    ASSUME TypeOK, CleanTimeouts, rules' = rules
    PROVE  TypeOK'
<1> USE DEF blockVars, syncVars, ruleVars, chainVars, voteVars, logVars
<1>1. calls # <<>> /\ calls[1].r \in Replica
  BY CallTypes, Zenon DEF CleanTimeouts, Running
<1>2. timeouts' \in [Replica -> [View -> SUBSET Replica]]
  BY <1>1 DEF CleanTimeouts, TypeOK
<1>3. calls' \in Seq(Calls)
  BY <1>1, ReturnCalls, Zenon DEF CleanTimeouts
<1> QED
  BY <1>2, <1>3, Zenon DEF CleanTimeouts, TypeOK

\* AdvanceView keeps the types.
LEMMA AdvanceViewType ==
    ASSUME TypeOK, AdvanceView, rules' = rules
    PROVE  TypeOK'
<1> USE DEF blockVars, syncVars, ruleVars, chainVars, voteVars, logVars
<1> DEFINE r == calls[1].r
           si == calls[1].si
           v == EndedView(si)
<1>1. calls # <<>> /\ r \in Replica /\ si \in SyncInfos /\ v \in View
  BY CallTypes, BlockTypes, Zenon DEF AdvanceView, Running, SyncInfos, EndedView
<1>2. TakeCertificate(r, si)
  BY Zenon DEF AdvanceView
<1>3. /\ highTC' \in [Replica -> View]
      /\ highQC' \in [Replica -> BlockId]
      /\ stored' \in [Replica -> SUBSET BlockId]
      /\ blockAtHeight' \in [Replica -> [View -> Hash]]
      /\ pruneHeight' \in [Replica -> View]
  <2>1. CASE si.tc # 0
    <3>1. /\ highTC' = [highTC EXCEPT ![r] = Larger(@, si.tc)]
          /\ UNCHANGED <<highQC, chainVars>>
      BY <1>2, <2>1, Zenon DEF TakeCertificate
    <3>2. si.tc \in View /\ highTC[r] \in View
      BY <1>1, Zenon DEF SyncInfos, TypeOK
    <3>3. Larger(highTC[r], si.tc) \in View
      BY <3>2, Zenon DEF Larger
    <3>4. highTC' \in [Replica -> View]
      BY <3>1, <3>3, Zenon DEF TypeOK
    <3> QED
      BY <3>1, <3>4, Zenon DEF chainVars, TypeOK
  <2>2. CASE si.tc = 0
    <3>1. PICK K \in Known(r) : UpdateHighQC(r, si.qc, K) /\ Keep(r, K, {si.qc}, {})
      BY <1>2, <2>2, Zenon DEF TakeCertificate
    <3>2. highQC' \in [Replica -> BlockId]
      BY <1>1, <3>1, UpdateHighQCType, Zenon
    <3>3. /\ stored' \in [Replica -> SUBSET BlockId]
          /\ blockAtHeight' \in [Replica -> [View -> Hash]]
          /\ pruneHeight' \in [Replica -> View]
      BY <1>1, <3>1, KeepType
    <3>4. UNCHANGED highTC
      BY <1>2, <2>2, Zenon DEF TakeCertificate
    <3> QED
      BY <3>2, <3>3, <3>4, Zenon DEF TypeOK
  <2> QED
    BY <2>1, <2>2, Zenon
<1>4. v + 1 \in 1..(MaxView + 1)
  BY <1>1, ConstantsAssumption DEF View
<1>5. /\ currentView' \in [Replica -> 1..(MaxView + 1)]
      /\ lastTimeout' \in [Replica -> Timeouts]
  <2>1. NilTimeout \in Timeouts
    BY BlockTypes, Zenon DEF NilTimeout, Timeouts, QCInfo, SyncInfos
  <2>2. \/ UNCHANGED <<currentView, lastTimeout>>
        \/ /\ currentView' = [currentView EXCEPT ![r] = v + 1]
           /\ lastTimeout' = [lastTimeout EXCEPT ![r] = NilTimeout]
    BY Zenon DEF AdvanceView
  <2>3. CASE UNCHANGED <<currentView, lastTimeout>>
    BY <2>3, Zenon DEF TypeOK
  <2>4. CASE /\ currentView' = [currentView EXCEPT ![r] = v + 1]
             /\ lastTimeout' = [lastTimeout EXCEPT ![r] = NilTimeout]
    <3>1. currentView' \in [Replica -> 1..(MaxView + 1)]
      BY <1>4, <2>4, Zenon DEF TypeOK
    <3>2. lastTimeout' \in [Replica -> Timeouts]
      BY <2>1, <2>4, Zenon DEF TypeOK
    <3> QED
      BY <3>1, <3>2, Zenon
  <2> QED
    BY <2>2, <2>3, <2>4, Zenon
<1>6. net' \subseteq Messages
  <2>1. net \subseteq Messages
    BY Zenon DEF TypeOK
  <2>2. Leader[v + 1] \subseteq Replica
    BY <1>4, LeaderType, Zenon
  <2>3. \A leader \in Leader[v + 1] : NewViewMsg(leader, si) \in Messages
    BY <1>1, <2>2, MadeTypes, Zenon
  <2>4. \/ UNCHANGED net
        \/ \E leader \in Leader[v + 1] : net' = net \cup {NewViewMsg(leader, si)}
    BY Zenon DEF AdvanceView
  <2> QED
    BY <2>1, <2>3, <2>4
<1>7. calls' \in Seq(Calls)
  <2>1. Return(<<>>) \/ Return(<<CallPropose(r, si)>>)
    BY Zenon DEF AdvanceView
  <2>2. CallPropose(r, si) \in Calls
    BY <1>1, MadeTypes, Zenon
  <2> QED
    BY <1>1, <2>1, <2>2, ReturnCalls, Zenon
<1> QED
  BY <1>3, <1>5, <1>6, <1>7, Zenon DEF AdvanceView, TypeOK

\* Propose that gives up keeps the types.
LEMMA ProposeNothingType ==
    ASSUME TypeOK, ProposeNothing, rules' = rules
    PROVE  TypeOK'
<1> USE DEF blockVars, syncVars, ruleVars, chainVars, voteVars, logVars
<1>1. calls # <<>> /\ calls[1].r \in Replica
  BY CallTypes, Zenon DEF ProposeNothing, Running
<1>2. PICK K \in Known(calls[1].r) : Keep(calls[1].r, K, {calls[1].si.qc}, {})
  BY ZenonT(40) DEF ProposeNothing
<1>3. calls' \in Seq(Calls)
  BY <1>1, ReturnCalls, Zenon DEF ProposeNothing
<1>4. /\ stored' \in [Replica -> SUBSET BlockId]
      /\ blockAtHeight' \in [Replica -> [View -> Hash]]
      /\ pruneHeight' \in [Replica -> View]
  BY <1>1, <1>2, KeepType
<1> QED
  BY <1>3, <1>4, ZenonT(30) DEF ProposeNothing, TypeOK

\* The block that Propose makes, its messages and the call after it are well-formed.
LEMMA MakeBlockType ==
    ASSUME TypeOK, NEW r \in Replica, NEW K \in Known(r), NEW asked,
           NEW parent \in Hash, NEW qc \in Hash, calls # <<>>,
           currentView[r] <= MaxView, MakeBlock(r, K, asked, parent, qc)
    PROVE  /\ blocks' \subseteq BlockId
           /\ parentOf' \in [Hash -> Hash]
           /\ qcOf' \in [Hash -> Hash]
           /\ stored' \in [Replica -> SUBSET BlockId]
           /\ blockAtHeight' \in [Replica -> [View -> Hash]]
           /\ pruneHeight' \in [Replica -> View]
           /\ net' \subseteq Messages
           /\ calls' \in Seq(Calls)
<1> USE DEF blockVars, syncVars, ruleVars, chainVars, voteVars, logVars
<1> DEFINE b == <<currentView[r], r>>
<1>1. b \in BlockId
  BY NewBlockType, ConstantsAssumption DEF TypeOK
<1>2. Keep(r, K, asked, {b})
  BY Zenon DEF MakeBlock
<1>3. CallOnPropose(r, b) \in Calls
  BY <1>1, MadeTypes, Zenon
<1>4. calls' \in Seq(Calls)
  BY <1>3, ReturnCalls, Zenon DEF MakeBlock
<1>5. net' \subseteq Messages
  BY <1>1, MadeTypes, Zenon DEF MakeBlock, TypeOK
<1>6. /\ blocks' \subseteq BlockId
      /\ parentOf' \in [Hash -> Hash] /\ qcOf' \in [Hash -> Hash]
  BY <1>1, BlockTypes, Zenon DEF MakeBlock, TypeOK
<1> QED
  BY <1>1, <1>2, <1>4, <1>5, <1>6, KeepType

\* Propose keeps the types.
LEMMA ProposeBlockType ==
    ASSUME TypeOK, ProposeBlock, rules' = rules
    PROVE  TypeOK'
<1> USE DEF blockVars, syncVars, ruleVars, chainVars, voteVars, logVars
<1> DEFINE r == calls[1].r
           qc == calls[1].si.qc
<1>1. calls # <<>> /\ r \in Replica /\ qc \in Hash /\ highQC[r] \in Hash
  BY CallTypes, BlockTypes, Zenon DEF ProposeBlock, Running, SyncInfos, TypeOK
<1>2. PICK K \in Known(r) : MakeBlock(r, K, {qc}, highQC[r], qc)
  BY Zenon DEF ProposeBlock
<1>3. currentView[r] <= MaxView
  BY Zenon DEF ProposeBlock
<1> QED
  BY MakeBlockType, <1>1, <1>2, <1>3, Zenon DEF ProposeBlock, TypeOK

\* Propose of a forking replica keeps the types.
LEMMA ProposeForkType ==
    ASSUME TypeOK, ProposeFork, rules' = rules
    PROVE  TypeOK'
<1> USE DEF blockVars, syncVars, ruleVars, chainVars, voteVars, logVars
<1> DEFINE r == calls[1].r
           qc == calls[1].si.qc
           parent == parentOf[highQC[r]]
<1>1. /\ calls # <<>> /\ r \in Replica /\ parent \in Hash
      /\ qcOf[parent] \in Hash
  BY CallTypes, BlockTypes, ZenonT(30) DEF ProposeFork, Running, TypeOK
<1>2. currentView[r] <= MaxView
  BY Zenon DEF ProposeFork
<1>3. PICK K \in Known(r) :
        \/ MakeBlock(r, K, {qc, parent}, parent, qcOf[parent])
        \/ Keep(r, K, {qc}, {}) /\ Return(<<>>) /\ UNCHANGED <<blockVars, net>>
  BY Zenon DEF ProposeFork
<1>4. CASE MakeBlock(r, K, {qc, parent}, parent, qcOf[parent])
  BY MakeBlockType, <1>1, <1>2, <1>4, Zenon DEF ProposeFork, TypeOK
<1>5. CASE Keep(r, K, {qc}, {}) /\ Return(<<>>) /\ UNCHANGED <<blockVars, net>>
  <2>1. calls' \in Seq(Calls)
    BY <1>1, <1>5, ReturnCalls, ZenonT(40)
  <2>2. /\ stored' \in [Replica -> SUBSET BlockId]
        /\ blockAtHeight' \in [Replica -> [View -> Hash]]
        /\ pruneHeight' \in [Replica -> View]
    <3>1. {} \in SUBSET BlockId
      BY Zenon
    <3> QED
      BY <1>1, <1>3, <1>5, <3>1, KeepType, ZenonT(30)
  <2> QED
    BY <1>5, <2>1, <2>2, Zenon DEF ProposeFork, TypeOK
<1> QED
  BY <1>3, <1>4, <1>5, ZenonT(30)

\* OnPropose of a proposal that is not valid keeps the types.
LEMMA InvalidType ==
    ASSUME TypeOK, OnProposeInvalid, rules' = rules
    PROVE  TypeOK'
<1> USE DEF blockVars, syncVars, ruleVars, chainVars, voteVars, logVars
<1>1. calls' \in Seq(Calls)
  BY ReturnCalls, Zenon DEF OnProposeInvalid, Running
<1> QED
  BY <1>1, Zenon DEF OnProposeInvalid, TypeOK

\* What OnPropose leaves to be called is well-formed.
LEMMA OnProposeCalls ==
    ASSUME TypeOK, Running("OnPropose"), qcOf[calls[1].b] # ZeroHash
    PROVE  /\ calls # <<>>
           /\ calls[1].r \in Replica
           /\ calls[1].b \in BlockId
           /\ CallAdvanceView(calls[1].r, QCInfo(qcOf[calls[1].b])) \in Calls
<1> USE DEF blockVars, syncVars, ruleVars, chainVars, voteVars, logVars
<1>1. calls # <<>> /\ calls[1].r \in Replica /\ calls[1].b \in BlockId
  BY CallTypes, Zenon DEF Running
<1>2. qcOf[calls[1].b] \in BlockId
  BY <1>1, BlockTypes, ZenonT(30) DEF TypeOK
<1> QED
  BY <1>1, <1>2, MadeTypes, Zenon

\* OnPropose of a proposal that the rules refuse keeps the types.
LEMMA RefusedType ==
    ASSUME TypeOK, OnProposeRefused, rules' = rules
    PROVE  TypeOK'
<1> USE DEF blockVars, syncVars, ruleVars, chainVars, voteVars, logVars
<1> DEFINE r == calls[1].r
           b == calls[1].b
<1>1. /\ calls # <<>> /\ r \in Replica
      /\ CallAdvanceView(r, QCInfo(qcOf[b])) \in Calls
  BY OnProposeCalls, Zenon DEF OnProposeRefused
<1>2. \/ UNCHANGED chainVars
      \/ \E K1, K \in Known(r) : Keep(r, K, VoteRuleAsks(r, b, K1, K), {})
  BY Zenon DEF OnProposeRefused
<1>3. /\ stored' \in [Replica -> SUBSET BlockId]
      /\ blockAtHeight' \in [Replica -> [View -> Hash]]
      /\ pruneHeight' \in [Replica -> View]
  <2>1. CASE UNCHANGED chainVars
    BY <2>1, ZenonT(30) DEF TypeOK
  <2>2. ASSUME NEW K1 \in Known(r), NEW K \in Known(r),
               Keep(r, K, VoteRuleAsks(r, b, K1, K), {})
        PROVE  /\ stored' \in [Replica -> SUBSET BlockId]
               /\ blockAtHeight' \in [Replica -> [View -> Hash]]
               /\ pruneHeight' \in [Replica -> View]
    BY <1>1, <2>2, KeepType, SMTT(30)
  <2> QED
    BY <1>2, <2>1, <2>2, ZenonT(30)
<1>4. calls' \in Seq(Calls)
  BY <1>1, ReturnCalls, Zenon DEF OnProposeRefused
<1> QED
  BY <1>3, <1>4, ZenonT(40) DEF OnProposeRefused, TypeOK

\* OnPropose of an accepted proposal keeps the types.
LEMMA AcceptedType ==
    ASSUME TypeOK, OnProposeAccepted, rules' = rules
    PROVE  TypeOK'
<1> USE DEF blockVars, syncVars, ruleVars, chainVars, voteVars, logVars
<1> DEFINE r == calls[1].r
           b == calls[1].b
<1>1. /\ calls # <<>> /\ r \in Replica /\ b \in BlockId
      /\ CallAdvanceView(r, QCInfo(qcOf[b])) \in Calls
  BY OnProposeCalls, ZenonT(40) DEF OnProposeAccepted
<1>2. PICK K1, K \in Known(r) : Keep(r, K, VoteRuleAsks(r, b, K1, K), {b})
  BY Zenon DEF OnProposeAccepted
<1>3. /\ stored' \in [Replica -> SUBSET BlockId]
      /\ blockAtHeight' \in [Replica -> [View -> Hash]]
      /\ pruneHeight' \in [Replica -> View]
  BY <1>1, <1>2, KeepType, ZenonT(30)
<1>4. Vote(r, b) \/ UNCHANGED <<lastVote, votes, net>>
  BY Zenon DEF OnProposeAccepted
<1>5. ASSUME Vote(r, b)
      PROVE  /\ lastVote' \in [Replica -> View] /\ votes' \subseteq Replica \X BlockId
             /\ net' \subseteq Messages
  <2>1. BView(b) \in View /\ BView(b) \in 1..(MaxView + 1)
    <3>1. BView(b) \in View /\ lastVote[r] \in View
      BY <1>1, BlockTypes, ZenonT(30) DEF TypeOK
    <3>2. BView(b) > lastVote[r]
      BY <1>5, Zenon DEF Vote
    <3> QED
      BY <3>1, <3>2, MaxViewType, SMTT(30) DEF View
  <2>2. PICK leader \in Leader[BView(b)] : net' = net \cup {VoteMsg(leader, r, b)}
    BY <1>5, Zenon DEF Vote
  <2>3. leader \in Replica
    BY <2>1, LeaderType, Zenon
  <2>4. net' \subseteq Messages
    <3>1. VoteMsg(leader, r, b) \in Messages
      BY <1>1, <2>3, MadeTypes, ZenonT(30)
    <3>2. net \subseteq Messages
      BY ZenonT(30) DEF TypeOK
    <3> QED
      BY <2>2, <3>1, <3>2, ZenonT(30)
  <2>5. lastVote' \in [Replica -> View]
    BY <1>5, <2>1, Zenon DEF Vote, TypeOK
  <2>6. votes' \subseteq Replica \X BlockId
    BY <1>1, <1>5, SMTT(30) DEF Vote, TypeOK
  <2> QED
    BY <2>4, <2>5, <2>6, Zenon
<1>6. /\ lastVote' \in [Replica -> View] /\ votes' \subseteq Replica \X BlockId
      /\ net' \subseteq Messages
  BY <1>4, <1>5, Zenon DEF TypeOK
<1>7. CallCommitRule(r, b) \in Calls
  BY <1>1, MadeTypes, Zenon
<1>8. calls' \in Seq(Calls)
  BY <1>1, <1>7, ReturnCalls, ZenonT(30) DEF OnProposeAccepted
<1> QED
  BY <1>3, <1>6, <1>8, Zenon DEF OnProposeAccepted, TypeOK

\* CommitRule keeps the types.
LEMMA CommitRuleType ==
    ASSUME TypeOK, CommitRule, rules' = rules
    PROVE  TypeOK'
<1> USE DEF blockVars, syncVars, ruleVars, chainVars, voteVars, logVars
<1> DEFINE r == calls[1].r
           b1 == qcOf[calls[1].b]
           b2 == qcOf[b1]
           b3 == qcOf[b2]
<1>1. calls # <<>> /\ r \in Replica
  BY CallTypes, Zenon DEF CommitRule, Running
<1>2. PICK K1 \in Known(r), K \in Known(r) :
        /\ UpdateHighQC(r, b1, K1) \/ UNCHANGED highQC
        /\ \E asked : Keep(r, K, asked, {})
        /\ bLock' = IF {b1, b2} \subseteq K /\ BView(b2) > BView(bLock[r])
                    THEN [bLock EXCEPT ![r] = b2] ELSE bLock
        /\ Return(IF Commits(b1, b2, b3, K) THEN <<CallCommit(r, b3)>> ELSE <<>>)
  BY Zenon DEF CommitRule
<1>3. /\ stored' \in [Replica -> SUBSET BlockId]
      /\ blockAtHeight' \in [Replica -> [View -> Hash]]
      /\ pruneHeight' \in [Replica -> View]
  <2>1. PICK asked : Keep(r, K, asked, {})
    BY <1>2, Zenon
  <2>2. {} \in SUBSET BlockId
    BY ZenonT(30)
  <2> QED
    BY <1>1, <2>1, <2>2, KeepType, Zenon
<1>4. highQC' \in [Replica -> BlockId]
  BY <1>1, <1>2, UpdateHighQCType, Zenon DEF TypeOK
<1>5. bLock' \in [Replica -> BlockId]
  <2>1. {b1, b2} \subseteq K => b2 \in BlockId
    BY <1>1, KnownType, ZenonT(30)
  <2>2. bLock' = bLock \/ ({b1, b2} \subseteq K /\ bLock' = [bLock EXCEPT ![r] = b2])
    BY <1>2, Zenon
  <2> QED
    BY <2>1, <2>2, Zenon DEF TypeOK
<1>6. calls' \in Seq(Calls)
  <2>1. CASE Commits(b1, b2, b3, K)
    <3>1. b3 \in BlockId
      BY <1>1, <2>1, KnownType, CommitsFound, ZenonT(30)
    <3> QED
      BY <1>1, <1>2, <2>1, <3>1, MadeTypes, ReturnCalls, Zenon
  <2>2. CASE ~Commits(b1, b2, b3, K)
    BY <1>1, <1>2, <2>2, ReturnCalls, ZenonT(30)
  <2> QED
    BY <2>1, <2>2, ZenonT(30)
<1> QED
  BY <1>3, <1>4, <1>5, <1>6, Zenon DEF CommitRule, TypeOK

\* commit keeps the types.
LEMMA CommitType ==
    ASSUME TypeOK, Commit, rules' = rules
    PROVE  TypeOK'
<1> USE DEF blockVars, syncVars, ruleVars, chainVars, voteVars, logVars
<1> DEFINE r == calls[1].r
           b == calls[1].b
           height == BView(b)
           pruned == pruneHeight[r]
           last == IF height > BView(bExec[r]) THEN b ELSE bExec[r]
           got(K) == ({parentOf[c] : c \in ToExecute(r, b, K)} \cap K) \ stored[r]
           at(K) == IndexBlocks(blockAtHeight[r], got(K))
           gone == PrunedViews(pruned, height)
<1>1. calls # <<>> /\ r \in Replica /\ b \in BlockId
  BY CallTypes, Zenon DEF Commit, Running
<1>2. PICK K \in Known(r) :
        /\ bExec' = [bExec EXCEPT ![r] = last]
        /\ executed' = [executed EXCEPT ![r] = @ \cup ToExecute(r, b, K)]
        /\ stored' = [stored EXCEPT ![r] = @ \cup got(K)]
        /\ blockAtHeight' = [blockAtHeight EXCEPT ![r] =
             [v \in View |-> IF v \in gone THEN ZeroHash ELSE at(K)[v]]]
        /\ pruneHeight' = [pruneHeight EXCEPT ![r] = height]
        /\ \E kept : forked' = [forked EXCEPT ![r] = @ \cup
             ({at(K)[v] : v \in gone \ kept} \ {ZeroHash})]
  BY Zenon DEF Commit
<1>3. K \subseteq BlockId
  BY <1>1, KnownType, Zenon
<1>4. ToExecute(r, b, K) \subseteq BlockId /\ got(K) \subseteq BlockId
  BY <1>3, Zenon DEF ToExecute
<1>5. height \in View /\ pruned \in View /\ gone \subseteq View
  <2>1. height \in View /\ pruned \in View
    BY <1>1, BlockTypes, ZenonT(30) DEF TypeOK
  <2>2. \A h, p \in View : PrunedViews(p, h) \subseteq View
    BY MaxViewType DEF PrunedViews, View
  <2> QED
    BY <2>1, <2>2, Zenon
<1>6. \A v \in View : at(K)[v] \in Hash
  <2>1. blockAtHeight[r] \in [View -> Hash]
    BY <1>1, Zenon DEF TypeOK
  <2>2. IndexBlocks(blockAtHeight[r], got(K)) \in [View -> Hash]
    BY <1>4, <2>1, IndexType, ZenonT(30)
  <2> QED
    BY <2>2, Zenon
<1>7. bExec' \in [Replica -> BlockId] /\ pruneHeight' \in [Replica -> View]
  BY <1>1, <1>2, <1>5, Zenon DEF TypeOK
<1>8. /\ executed' \in [Replica -> SUBSET BlockId]
      /\ stored' \in [Replica -> SUBSET BlockId]
  BY <1>2, <1>4, Zenon DEF TypeOK
<1>9. blockAtHeight' \in [Replica -> [View -> Hash]]
  <2>1. [v \in View |-> IF v \in gone THEN ZeroHash ELSE at(K)[v]] \in [View -> Hash]
    BY <1>6, BlockTypes, Zenon
  <2> QED
    BY <1>2, <2>1, Zenon DEF TypeOK
<1>10. forked' \in [Replica -> SUBSET BlockId]
  <2>1. PICK kept : forked' = [forked EXCEPT ![r] = @ \cup
             ({at(K)[v] : v \in gone \ kept} \ {ZeroHash})]
    BY <1>2, Zenon
  <2>2. ({at(K)[v] : v \in gone \ kept} \ {ZeroHash}) \subseteq BlockId
    BY <1>5, <1>6, BlockTypes, Zenon
  <2> QED
    BY <2>1, <2>2, Zenon DEF TypeOK
<1>11. calls' \in Seq(Calls)
  BY <1>1, ReturnCalls, ZenonT(40) DEF Commit
<1> QED
  BY <1>7, <1>8, <1>9, <1>10, <1>11, Zenon DEF Commit, TypeOK

\* OnVote keeps the types.
LEMMA OnVoteType ==
    ASSUME TypeOK, NEW m \in net, OnVote(m), rules' = rules
    PROVE  TypeOK'
<1> USE DEF blockVars, syncVars, ruleVars, chainVars, voteVars, logVars
<1>1. verifying' \subseteq Replica \X Replica \X BlockId
  <2>1. /\ m.type = "vote"
        /\ verifying' \subseteq verifying \cup {<<m.to, m.id, m.b>>}
    BY Zenon DEF OnVote
  <2>2. m.to \in Replica /\ m.id \in Replica /\ m.b \in BlockId
    BY <2>1, MessageTypes, Zenon
  <2>3. verifying \subseteq Replica \X Replica \X BlockId
    BY ZenonT(30) DEF TypeOK
  <2> QED
    BY <2>1, <2>2, <2>3, SMTT(30)
<1> QED
  BY <1>1, ZenonT(30) DEF OnVote, TypeOK

\* verifyCert keeps the types.
LEMMA VerifyCertType ==
    ASSUME TypeOK, NEW r \in Replica, NEW id \in Replica, NEW b \in BlockId,
           VerifyCert(r, id, b), rules' = rules
    PROVE  TypeOK'
<1> USE DEF blockVars, syncVars, ruleVars, chainVars, voteVars, logVars
<1>1. net' \subseteq Messages
  <2>1. NewViewMsg(r, QCInfo(b)) \in Messages
    BY MadeTypes, Zenon
  <2>2. net \subseteq Messages
    BY Zenon DEF TypeOK
  <2>3. net' \subseteq net \cup {NewViewMsg(r, QCInfo(b))}
    BY Zenon DEF VerifyCert
  <2> QED
    BY <2>1, <2>2, <2>3, Zenon
<1>2. verifiedVotes' \in [Replica -> [BlockId -> SUBSET Replica]]
  <2> DEFINE collected == verifiedVotes[r][b] \cup {id}
             keep == [c \in BlockId |-> IF \/ BView(c) <= BView(highQC[r])
                                           \/ c = b /\ Enough(collected)
                                        THEN {}
                                        ELSE IF c = b THEN collected
                                                      ELSE verifiedVotes[r][c]]
  <2>1. verifiedVotes \in [Replica -> [BlockId -> SUBSET Replica]]
    BY Zenon DEF TypeOK
  <2>2. keep \in [BlockId -> SUBSET Replica]
    BY <2>1, ZenonT(30)
  <2>3. verifiedVotes' = [verifiedVotes EXCEPT ![r] = keep]
    BY Zenon DEF VerifyCert
  <2> HIDE DEF keep
  <2> QED
    BY <2>1, <2>2, <2>3, ZenonT(30)
<1> QED
  BY <1>1, <1>2, Zenon DEF VerifyCert, TypeOK

\* What the handler of a message calls first keeps the types.
LEMMA ReceiveType ==
    ASSUME TypeOK, NEW m \in net, Receive(m), rules' = rules
    PROVE  TypeOK'
<1> USE DEF blockVars, syncVars, ruleVars, chainVars, voteVars, logVars
<1>1. calls' \in Seq(Calls)
  <2>1. CASE m.type = "propose"
    <3>1. m.to \in Replica /\ m.b \in BlockId
      BY <2>1, MessageTypes, Zenon
    <3>2. <<CallOnPropose(m.to, m.b)>> \in Seq(Calls)
      BY <3>1, MadeTypes
    <3> QED
      BY <2>1, <3>2, Zenon DEF Receive
  <2>2. CASE m.type = "newview"
    <3>1. m.to \in Replica /\ m.si \in SyncInfos
      BY <2>2, MessageTypes, Zenon
    <3>2. <<CallAdvanceView(m.to, m.si)>> \in Seq(Calls)
      BY <3>1, MadeTypes
    <3> QED
      BY <2>2, <3>2, Zenon DEF Receive
  <2>3. CASE m.type = "timeout"
    <3>1. m.to \in Replica /\ m.id \in Replica /\ m.t \in Timeouts
      BY <2>3, MessageTypes, ZenonT(30)
    <3>2. OnRemoteTimeout(m.to, m.id, m.t) \in Seq(Calls)
      BY <3>1, MadeTypes, Zenon
    <3> QED
      BY <2>3, <3>2, Zenon DEF Receive
  <2> QED
    BY <2>1, <2>2, <2>3, Zenon DEF Receive
<1> QED
  BY <1>1, Zenon DEF Receive, TypeOK

\* Every step keeps the state well-formed.
LEMMA NextType == TypeOK /\ [Next]_vars => TypeOK'
<1> SUFFICES ASSUME TypeOK, [Next]_vars PROVE TypeOK'
  BY Zenon
<1>1. CASE RunCall
  <2>1. rules' = rules
    BY <1>1, Zenon DEF Next, vars
  <2>2. CASE CollectTimeout \/ CleanTimeouts \/ AdvanceView \/ CommitRule \/ Commit
    BY <2>1, <2>2, CollectType, CleanType, AdvanceViewType, CommitRuleType, CommitType, ZenonT(30)
  <2>3. CASE ProposeNothing \/ ProposeBlock \/ ProposeFork
    BY <2>1, <2>3, ProposeNothingType, ProposeBlockType, ProposeForkType, ZenonT(30)
  <2>4. CASE OnProposeInvalid \/ OnProposeRefused \/ OnProposeAccepted
    BY <2>1, <2>4, InvalidType, RefusedType, AcceptedType, Zenon
  <2> QED
    BY <1>1, <2>2, <2>3, <2>4, ZenonT(30) DEF RunCall
<1>2. CASE UNCHANGED vars
  BY <1>2, ZenonT(30) DEF vars, blockVars, syncVars, ruleVars, chainVars, voteVars, logVars, TypeOK
<1> QED
  BY <1>1, <1>2, StartType, LocalTimeoutType, OnVoteType, VerifyCertType, ReceiveType, ZenonT(30)
     DEF Next

\* Type correctness of the whole state, which every handler preserves.
THEOREM TypeCorrect == Spec => []TypeOK
<1>1. TypeOK /\ [Next]_vars => TypeOK'
  BY NextType, Zenon
<1> QED
  BY InitType, <1>1, PTL DEF Spec

-----------------------------------------------------------------------------
(* Handlers, views and proposals *)

\* Below the running function there are only calls of the Synchronizer.
LaterCalls(s) ==
    \A i \in 2..Len(s) : s[i].fn \in {"AdvanceView", "CollectTimeout", "CleanTimeouts"}

\* The handler s of a replica in on: a CommitRule is followed by the AdvanceView
\* that OnPropose deferred, and a Propose is called before the replica has made a
\* block in its view.
StackOK(s, on, views, made, qcs) ==
    /\ LaterCalls(s)
    /\ \A i \in 1..Len(s) : s[i].r \in on
    /\ s # <<>> =>
         /\ s[1].fn = "CommitRule" =>
              2 \in 1..Len(s) /\ s[2] = CallAdvanceView(s[1].r, QCInfo(qcs[s[1].b]))
         /\ s[1].fn = "Propose" => <<views[s[1].r], s[1].r>> \notin made

\* An AdvanceView of the handler s takes r out of view v.
WillLeave(s, r, v) ==
    \E i \in 1..Len(s) : /\ s[i].fn = "AdvanceView" /\ s[i].r = r
                         /\ s[i].si.tc = 0 /\ BView(s[i].si.qc) >= v

\* The views are ahead of the certificates, or about to be.
Ahead(s, views, tcs, qcs) ==
    \A r \in Replica :
        /\ views[r] > tcs[r]
        /\ views[r] > BView(qcs[r]) \/ WillLeave(s, r, BView(qcs[r]))

\* Only started replicas make blocks, and none in a view to come.
BlocksOK(made, on, views) ==
    \A b \in made : b # Genesis => Proposer(b) \in on /\ BView(b) <= views[Proposer(b)]

HandlerInv ==
    /\ StackOK(calls, started, currentView, blocks, qcOf)
    /\ Ahead(calls, currentView, highTC, highQC)
    /\ BlocksOK(blocks, started, currentView)

\* The calls left when the running function returns.
LEMMA TailCalls ==
    ASSUME NEW s \in Seq(Calls), s # <<>>, NEW next \in Seq(Calls)
    PROVE  /\ Len(s) \in Nat /\ Len(next) \in Nat
           /\ Len(next \o Tail(s)) = Len(next) + Len(s) - 1
           /\ \A i \in 1..Len(next) : (next \o Tail(s))[i] = next[i]
           /\ \A i \in 2..Len(s) : (next \o Tail(s))[Len(next) + i - 1] = s[i]
           /\ \A i \in 1..Len(next \o Tail(s)) :
                i \in 1..Len(next) \/
                  \E j \in 2..Len(s) : i = Len(next) + j - 1 /\ (next \o Tail(s))[i] = s[j]
<1>1. /\ Len(s) \in Nat /\ Len(next) \in Nat /\ Len(s) >= 1
      /\ Tail(s) \in Seq(Calls) /\ Len(Tail(s)) = Len(s) - 1
      /\ \A i \in 1..(Len(s) - 1) : Tail(s)[i] = s[i + 1]
  OBVIOUS
<1> DEFINE t == Tail(s)
<1>2. /\ Len(next \o t) = Len(next) + Len(t)
      /\ \A i \in 1..(Len(next) + Len(t)) :
           (next \o t)[i] = IF i <= Len(next) THEN next[i] ELSE t[i - Len(next)]
  <2> HIDE DEF t
  <2> QED
    BY <1>1 DEF t
<1>3. \A i \in 1..Len(next) : (next \o t)[i] = next[i]
  BY <1>1, <1>2
<1>4. ASSUME NEW i \in 2..Len(s) PROVE (next \o t)[Len(next) + i - 1] = s[i]
  <2> DEFINE k == Len(next) + i - 1
  <2>1. /\ k \in 1..(Len(next) + Len(t)) /\ ~(k <= Len(next)) /\ k - Len(next) = i - 1
        /\ i - 1 \in 1..(Len(s) - 1) /\ (i - 1) + 1 = i
    BY <1>1
  <2> HIDE DEF k, t
  <2>2. (next \o t)[k] = t[i - 1]
    BY <1>2, <2>1, ZenonT(30)
  <2>3. t[i - 1] = s[(i - 1) + 1]
    BY <1>1, <2>1, Zenon DEF t
  <2> QED
    BY <2>1, <2>2, <2>3, Zenon DEF k
<1>5. ASSUME NEW i \in 1..Len(next \o t), i \notin 1..Len(next)
      PROVE  \E j \in 2..Len(s) : i = Len(next) + j - 1 /\ (next \o t)[i] = s[j]
  <2> DEFINE j == i - Len(next) + 1
  <2>1. j \in 2..Len(s) /\ i = Len(next) + j - 1
    BY <1>1, <1>2, <1>5
  <2>2. (next \o t)[Len(next) + j - 1] = s[j]
    BY <1>4, <2>1, ZenonT(30)
  <2> QED
    BY <2>1, <2>2, ZenonT(30)
<1> QED
  BY <1>1, <1>2, <1>3, <1>4, <1>5, Zenon

\* The handler is well-formed after its running function has returned without
\* calls, after one, and after CommitRule and the deferred AdvanceView.
LEMMA StackReturns ==
    ASSUME NEW s \in Seq(Calls), s # <<>>, NEW on, LaterCalls(s),
           \A i \in 1..Len(s) : s[i].r \in on,
           NEW views, NEW made, NEW qcs
    PROVE  /\ StackOK(<<>> \o Tail(s), on, views, made, qcs)
           /\ \A c \in Calls :
                /\ c.r \in on /\ c.fn # "CommitRule"
                /\ c.fn = "Propose" => <<views[c.r], c.r>> \notin made
                => StackOK(<<c>> \o Tail(s), on, views, made, qcs)
           /\ \A c, d \in Calls :
                /\ c.fn = "CommitRule" /\ c.r \in on
                /\ d = CallAdvanceView(c.r, QCInfo(qcs[c.b]))
                => StackOK(<<c, d>> \o Tail(s), on, views, made, qcs)
<1> DEFINE later == {"AdvanceView", "CollectTimeout", "CleanTimeouts"}
<1>1. StackOK(<<>> \o Tail(s), on, views, made, qcs)
  <2> DEFINE t == <<>> \o Tail(s)
  <2>1. /\ Len(s) \in Nat /\ Len(t) = Len(s) - 1
        /\ \A i \in 1..Len(t) : \E j \in 2..Len(s) : t[i] = s[j]
        /\ t # <<>> => 1 \in 1..Len(t)
    <3>1. <<>> \in Seq(Calls) /\ Len(<<>>) = 0
      OBVIOUS
    <3>2. t \in Seq(Calls)
      OBVIOUS
    <3> HIDE DEF t
    <3>3. t # <<>> => 1 \in 1..Len(t)
      BY <3>2
    <3> QED
      BY <3>1, <3>3, TailCalls DEF t
  <2> HIDE DEF t
  <2>2. \A i \in 1..Len(t) : t[i].fn \in later /\ t[i].r \in on
    BY <2>1 DEF LaterCalls
  <2>3. LaterCalls(t)
    BY <2>1, <2>2 DEF LaterCalls
  <2> QED
    BY <2>1, <2>2, <2>3, Zenon DEF StackOK, t
<1>2. ASSUME NEW c \in Calls, c.r \in on, c.fn # "CommitRule",
             c.fn = "Propose" => <<views[c.r], c.r>> \notin made
      PROVE  StackOK(<<c>> \o Tail(s), on, views, made, qcs)
  <2> DEFINE t == <<c>> \o Tail(s)
  <2>1. /\ Len(s) \in Nat /\ Len(t) = Len(s) /\ t[1] = c
        /\ \A i \in 1..Len(t) : i = 1 \/ \E j \in 2..Len(s) : t[i] = s[j]
    <3>1. <<c>> \in Seq(Calls) /\ Len(<<c>>) = 1 /\ <<c>>[1] = c
      OBVIOUS
    <3>2. \A i \in 1..1 : i = 1
      OBVIOUS
    <3> QED
      BY <3>1, <3>2, TailCalls
  <2> HIDE DEF t
  <2>2. \A i \in 2..Len(t) : t[i].fn \in later /\ t[i].r \in on
    BY <2>1 DEF LaterCalls
  <2>3. LaterCalls(t)
    BY <2>2, Zenon DEF LaterCalls
  <2>4. \A i \in 1..Len(t) : t[i].r \in on
    BY <1>2, <2>1, <2>2, SMTT(30)
  <2> QED
    BY <1>2, <2>1, <2>3, <2>4, ZenonT(30) DEF StackOK, t
<1>3. ASSUME NEW c \in Calls, NEW d \in Calls, c.fn = "CommitRule", c.r \in on,
             d = CallAdvanceView(c.r, QCInfo(qcs[c.b]))
      PROVE  StackOK(<<c, d>> \o Tail(s), on, views, made, qcs)
  <2> DEFINE t == <<c, d>> \o Tail(s)
  <2>1. /\ Len(s) \in Nat /\ Len(t) = Len(s) + 1 /\ t[1] = c /\ t[2] = d
        /\ \A i \in 1..Len(t) : i = 1 \/ i = 2 \/ \E j \in 2..Len(s) : t[i] = s[j]
        /\ Len(s) >= 1
    <3>1. <<c, d>> \in Seq(Calls) /\ Len(<<c, d>>) = 2 /\ <<c, d>>[1] = c /\ <<c, d>>[2] = d
      OBVIOUS
    <3>2. \A i \in 1..2 : i = 1 \/ i = 2
      OBVIOUS
    <3> QED
      BY <3>1, <3>2, TailCalls
  <2> HIDE DEF t
  <2>2. d.fn = "AdvanceView" /\ d.r = c.r
    BY <1>3, Zenon DEF CallAdvanceView
  <2>3. \A i \in 2..Len(t) : t[i].fn \in later /\ t[i].r \in on
    BY <1>3, <2>1, <2>2 DEF LaterCalls
  <2>4. LaterCalls(t)
    BY <2>3, Zenon DEF LaterCalls
  <2>5. \A i \in 1..Len(t) : t[i].r \in on
    BY <1>3, <2>1, <2>3, SMTT(30)
  <2> QED
    BY <1>3, <2>1, <2>4, <2>5, SMTT(30) DEF StackOK, t
<1> QED
  BY <1>1, <1>2, <1>3, ZenonT(30)

\* What is not the running function stays to be called.
LEMMA LeaveReturns ==
    ASSUME NEW s \in Seq(Calls), s # <<>>, NEW next \in Seq(Calls), NEW r, NEW v,
           WillLeave(s, r, v)
    PROVE  \/ WillLeave(next \o Tail(s), r, v)
           \/ /\ s[1].fn = "AdvanceView" /\ s[1].r = r
              /\ s[1].si.tc = 0 /\ BView(s[1].si.qc) >= v
<1> DEFINE t == next \o Tail(s)
<1>1. PICK i \in 1..Len(s) : /\ s[i].fn = "AdvanceView" /\ s[i].r = r
                             /\ s[i].si.tc = 0 /\ BView(s[i].si.qc) >= v
  BY Zenon DEF WillLeave
<1>2. CASE i = 1
  BY <1>1, <1>2, ZenonT(30)
<1>3. CASE i # 1
  <2>1. i \in 2..Len(s) /\ Len(next) + i - 1 \in 1..Len(t) /\ t[Len(next) + i - 1] = s[i]
    BY <1>3, TailCalls
  <2> HIDE DEF t
  <2>2. WillLeave(t, r, v)
    BY <1>1, <2>1, Zenon DEF WillLeave
  <2> QED
    BY <2>2, Zenon DEF t
<1> QED
  BY <1>2, <1>3, Zenon

\* A function other than AdvanceView returns.
LEMMA AheadReturns ==
    ASSUME NEW s \in Seq(Calls), s # <<>>, NEW next \in Seq(Calls),
           s[1].fn # "AdvanceView", NEW views, NEW tcs, NEW qcs, Ahead(s, views, tcs, qcs)
    PROVE  Ahead(next \o Tail(s), views, tcs, qcs)
BY LeaveReturns, Zenon DEF Ahead

\* The handlers that the event loop, a timer or Start begin.
LEMMA StackBegins ==
    ASSUME NEW on, NEW views, NEW made, NEW qcs
    PROVE  /\ StackOK(<<>>, on, views, made, qcs)
           /\ \A c \in Calls :
                /\ c.r \in on /\ c.fn # "CommitRule"
                /\ c.fn = "Propose" => <<views[c.r], c.r>> \notin made
                => StackOK(<<c>>, on, views, made, qcs)
           /\ \A r \in on : \A id, t : StackOK(OnRemoteTimeout(r, id, t), on, views, made, qcs)
<1>1. StackOK(<<>>, on, views, made, qcs)
  BY DEF StackOK, LaterCalls
<1>2. ASSUME NEW c \in Calls, c.r \in on, c.fn # "CommitRule",
             c.fn = "Propose" => <<views[c.r], c.r>> \notin made
      PROVE  StackOK(<<c>>, on, views, made, qcs)
  BY <1>2, SMTT(30) DEF StackOK, LaterCalls
<1>3. ASSUME NEW r \in on, NEW id, NEW t
      PROVE  StackOK(OnRemoteTimeout(r, id, t), on, views, made, qcs)
  <2>1. /\ Len(OnRemoteTimeout(r, id, t)) = 3
        /\ OnRemoteTimeout(r, id, t)[1] = CallAdvanceView(r, t.si)
        /\ OnRemoteTimeout(r, id, t)[2] = CallCollectTimeout(r, id, t)
        /\ OnRemoteTimeout(r, id, t)[3] = CallCleanTimeouts(r)
    BY Zenon DEF OnRemoteTimeout
  <2>2. \A i \in 1..3 : i = 1 \/ i = 2 \/ i = 3
    OBVIOUS
  <2>3. \A i \in 2..3 : i = 2 \/ i = 3
    BY SMTT(30)
  <2> QED
    BY <2>1, <2>2, <2>3 DEF StackOK, LaterCalls, CallAdvanceView, CallCollectTimeout,
       CallCleanTimeouts
<1> QED
  BY <1>1, <1>2, <1>3, ZenonT(30)

\* When no handler runs the views are ahead, whatever is called next.
LEMMA AheadBegins ==
    ASSUME NEW s, NEW views, NEW tcs, NEW qcs, Ahead(<<>>, views, tcs, qcs)
    PROVE  /\ Ahead(s, views, tcs, qcs)
           /\ \A r \in Replica : views[r] > tcs[r] /\ views[r] > BView(qcs[r])
<1>1. \A r, v : ~WillLeave(<<>>, r, v)
  BY SMTT(30) DEF WillLeave
<1> QED
  BY <1>1, Zenon DEF Ahead

\* The running function is a well-formed call of a replica that has started.
LEMMA RunningCall ==
    ASSUME TypeOK, HandlerInv, calls # <<>>
    PROVE  /\ calls \in Seq(Calls) /\ LaterCalls(calls)
           /\ \A i \in 1..Len(calls) : calls[i].r \in started
           /\ calls[1].r \in started /\ calls[1].r \in Replica
           /\ calls[1].fn = "CommitRule" =>
                /\ 2 \in 1..Len(calls)
                /\ calls[2] = CallAdvanceView(calls[1].r, QCInfo(qcOf[calls[1].b]))
           /\ calls[1].fn = "Propose" => <<currentView[calls[1].r], calls[1].r>> \notin blocks
<1>1. calls \in Seq(Calls) /\ started \subseteq Replica
  BY ZenonT(30) DEF TypeOK
<1>2. 1 \in 1..Len(calls)
  BY <1>1
<1> QED
  BY <1>1, <1>2, Zenon DEF HandlerInv, StackOK

\* A function that leaves views, certificates and blocks alone returns.
LEMMA PlainReturns ==
    ASSUME TypeOK, HandlerInv, calls # <<>>, calls[1].fn # "AdvanceView",
           UNCHANGED <<started, currentView, highTC, highQC, blocks>>,
           \/ Return(<<>>)
           \/ \E c \in Calls : /\ Return(<<c>>) /\ c.r \in started
                              /\ c.fn \notin {"CommitRule", "Propose"}
           \/ \E c, d \in Calls : /\ Return(<<c, d>>) /\ c.r \in started /\ c.fn = "CommitRule"
                                 /\ d = CallAdvanceView(c.r, QCInfo(qcOf'[c.b]))
    PROVE  HandlerInv'
<1>1. /\ calls \in Seq(Calls) /\ LaterCalls(calls)
      /\ \A i \in 1..Len(calls) : calls[i].r \in started
  BY RunningCall, Zenon
<1>2. /\ StackOK(calls', started, currentView, blocks, qcOf')
      /\ \E next \in Seq(Calls) : calls' = next \o Tail(calls)
  <2>1. CASE Return(<<>>)
    <3>1. <<>> \in Seq(Calls)
      OBVIOUS
    <3> QED
      BY <1>1, <2>1, <3>1, StackReturns, Zenon DEF Return
  <2>2. ASSUME NEW c \in Calls, Return(<<c>>), c.r \in started,
               c.fn \notin {"CommitRule", "Propose"}
        PROVE  /\ StackOK(calls', started, currentView, blocks, qcOf')
               /\ \E next \in Seq(Calls) : calls' = next \o Tail(calls)
    <3>1. <<c>> \in Seq(Calls)
      OBVIOUS
    <3>2. StackOK(<<c>> \o Tail(calls), started, currentView, blocks, qcOf')
      BY <1>1, <2>2, StackReturns, Zenon
    <3> QED
      BY <2>2, <3>1, <3>2, Zenon DEF Return
  <2>3. ASSUME NEW c \in Calls, NEW d \in Calls, Return(<<c, d>>), c.r \in started,
               c.fn = "CommitRule", d = CallAdvanceView(c.r, QCInfo(qcOf'[c.b]))
        PROVE  /\ StackOK(calls', started, currentView, blocks, qcOf')
               /\ \E next \in Seq(Calls) : calls' = next \o Tail(calls)
    <3>1. <<c, d>> \in Seq(Calls)
      OBVIOUS
    <3>2. StackOK(<<c, d>> \o Tail(calls), started, currentView, blocks, qcOf')
      BY <1>1, <2>3, StackReturns, Zenon
    <3> QED
      BY <2>3, <3>1, <3>2, Zenon DEF Return
  <2> QED
    BY <2>1, <2>2, <2>3, Zenon
<1>3. Ahead(calls', currentView, highTC, highQC)
  BY <1>1, <1>2, AheadReturns, Zenon DEF HandlerInv
<1> QED
  BY <1>2, <1>3, Zenon DEF HandlerInv

\* Functions that leave the view and the blocks alone keep the invariant.
LEMMA CollectKeeps ==
    ASSUME TypeOK, HandlerInv, CollectTimeout
    PROVE  HandlerInv'
<1> DEFINE c == calls[1]
           next == CallAdvanceView(c.r, [qc |-> SyncInfo(c.r).qc, tc |-> c.t.view])
<1>1. /\ calls # <<>> /\ c.fn = "CollectTimeout"
      /\ UNCHANGED <<started, currentView, highTC, highQC, blocks>>
  BY Zenon DEF CollectTimeout, Running, blockVars
<1>2. c.r \in started /\ c.r \in Replica
  BY <1>1, RunningCall, Zenon
<1>3. next \in Calls /\ next.r = c.r /\ next.fn = "AdvanceView"
  <2>1. c.t \in Timeouts
    BY <1>1, CallTypes, ZenonT(30)
  <2>2. [qc |-> SyncInfo(c.r).qc, tc |-> c.t.view] \in SyncInfos
    BY <1>2, <2>1, SyncInfoType, Zenon DEF SyncInfos, Timeouts
  <2> QED
    BY <1>2, <2>2, MadeTypes, ZenonT(30) DEF CallAdvanceView
<1>4. Return(<<>>) \/ Return(<<next>>)
  BY Zenon DEF CollectTimeout
<1> HIDE DEF next
<1> QED
  BY <1>1, <1>2, <1>3, <1>4, PlainReturns, ZenonT(30)

\* The clean-up of timeouts, a Propose without a proposal, the refusal of an
\* invalid block and commit call nothing more.
LEMMA SimpleKeeps ==
    ASSUME TypeOK, HandlerInv,
           CleanTimeouts \/ ProposeNothing \/ OnProposeInvalid \/ Commit
    PROVE  HandlerInv'
<1>1. /\ calls # <<>> /\ calls[1].fn \in {"CleanTimeouts", "Propose", "OnPropose", "commit"}
      /\ Return(<<>>)
      /\ UNCHANGED <<started, currentView, highTC, highQC, blocks>>
  <2>1. CASE CleanTimeouts
    BY <2>1, Zenon DEF CleanTimeouts, Running, blockVars
  <2>2. CASE ProposeNothing
    BY <2>2, Zenon DEF ProposeNothing, Running, blockVars, syncVars
  <2>3. CASE OnProposeInvalid
    BY <2>3, Zenon DEF OnProposeInvalid, Running, blockVars, syncVars
  <2>4. CASE Commit
    BY <2>4, ZenonT(40) DEF Commit, Running, blockVars, syncVars
  <2> QED
    BY <2>1, <2>2, <2>3, <2>4, ZenonT(30)
<1> QED
  BY <1>1, PlainReturns, ZenonT(30)

\* OnPropose leaves CommitRule and AdvanceView, or only the latter, to be called.
LEMMA OnProposeKeeps ==
    ASSUME TypeOK, HandlerInv, OnProposeRefused \/ OnProposeAccepted
    PROVE  HandlerInv'
<1> DEFINE r == calls[1].r
           b == calls[1].b
           c == CallCommitRule(r, b)
           d == CallAdvanceView(r, QCInfo(qcOf[b]))
<1>1. /\ Running("OnPropose") /\ qcOf[b] # ZeroHash
      /\ UNCHANGED <<started, currentView, highTC, highQC, blocks, qcOf>>
  <2>1. CASE OnProposeRefused
    BY <2>1, Zenon DEF OnProposeRefused, blockVars, syncVars
  <2>2. CASE OnProposeAccepted
    BY <2>2, Zenon DEF OnProposeAccepted, blockVars, syncVars
  <2> QED
    BY <2>1, <2>2, ZenonT(30)
<1>2. Return(<<d>>) \/ Return(<<c, d>>)
  BY Zenon DEF OnProposeRefused, OnProposeAccepted
<1>3. calls # <<>> /\ calls[1].fn = "OnPropose"
  BY <1>1, Zenon DEF Running
<1>4. r \in started /\ r \in Replica
  BY <1>3, RunningCall, Zenon
<1>5. b \in BlockId /\ d \in Calls
  BY <1>1, OnProposeCalls, Zenon
<1>6. c \in Calls
  BY <1>4, <1>5, MadeTypes, ZenonT(40)
<1>7. /\ c.fn = "CommitRule" /\ c.r = r /\ c.b = b /\ d.fn = "AdvanceView" /\ d.r = r
      /\ d = CallAdvanceView(c.r, QCInfo(qcOf'[c.b]))
  BY <1>1, ZenonT(30) DEF CallCommitRule, CallAdvanceView
<1> HIDE DEF c, d
<1> QED
  BY <1>1, <1>2, <1>3, <1>4, <1>5, <1>6, <1>7, PlainReturns, Zenon

\* CommitRule may raise highQC before the view follows, in the AdvanceView that
\* is called next.
LEMMA CommitRuleKeeps ==
    ASSUME TypeOK, HandlerInv, CommitRule
    PROVE  HandlerInv'
<1> DEFINE r == calls[1].r
           b1 == qcOf[calls[1].b]
           b3 == qcOf[qcOf[b1]]
           d == CallAdvanceView(r, QCInfo(b1))
<1>1. /\ calls # <<>> /\ calls[1].fn = "CommitRule"
      /\ UNCHANGED <<started, currentView, highTC, blocks, qcOf>>
  BY Zenon DEF CommitRule, Running, blockVars
<1>2. PICK K1 \in Known(r), K \in Known(r) :
        /\ UpdateHighQC(r, b1, K1) \/ UNCHANGED highQC
        /\ Return(IF Commits(b1, qcOf[b1], b3, K) THEN <<CallCommit(r, b3)>> ELSE <<>>)
  BY Zenon DEF CommitRule
<1>3. /\ calls \in Seq(Calls) /\ LaterCalls(calls) /\ r \in started /\ r \in Replica
      /\ \A i \in 1..Len(calls) : calls[i].r \in started
      /\ 2 \in 1..Len(calls) /\ calls[2] = d
  BY <1>1, RunningCall, ZenonT(40)
<1>4. \E next \in Seq(Calls) :
        /\ calls' = next \o Tail(calls)
        /\ StackOK(next \o Tail(calls), started, currentView, blocks, qcOf)
  <2>1. CASE Commits(b1, qcOf[b1], b3, K)
    <3>1. b3 \in BlockId
      BY <1>3, <2>1, KnownType, CommitsFound, ZenonT(40)
    <3>2. CallCommit(r, b3) \in Calls
      BY <1>3, <3>1, MadeTypes, Zenon
    <3>3. CallCommit(r, b3).r = r /\ CallCommit(r, b3).fn = "commit"
      BY Zenon DEF CallCommit
    <3>4. <<CallCommit(r, b3)>> \in Seq(Calls)
      BY <3>2, SMTT(30)
    <3>5. StackOK(<<CallCommit(r, b3)>> \o Tail(calls), started, currentView, blocks, qcOf)
      BY <1>1, <1>3, <3>2, <3>3, StackReturns, Zenon
    <3>6. calls' = <<CallCommit(r, b3)>> \o Tail(calls)
      BY <1>2, <2>1, Zenon DEF Return
    <3> QED
      BY <3>4, <3>5, <3>6, ZenonT(40)
  <2>2. CASE ~Commits(b1, qcOf[b1], b3, K)
    <3>1. <<>> \in Seq(Calls)
      OBVIOUS
    <3>2. calls' = <<>> \o Tail(calls)
      BY <1>2, <2>2, Zenon DEF Return
    <3> QED
      BY <1>1, <1>3, <3>1, <3>2, StackReturns, Zenon
  <2> QED
    BY <2>1, <2>2, Zenon
<1>5. PICK next \in Seq(Calls) :
        /\ calls' = next \o Tail(calls)
        /\ StackOK(next \o Tail(calls), started, currentView, blocks, qcOf)
  BY <1>4, Zenon
<1>6. \A q \in Replica : /\ currentView[q] > highTC[q]
                         /\ \/ currentView[q] > BView(highQC[q])
                            \/ WillLeave(calls', q, BView(highQC[q]))
  <2>1. Ahead(calls, currentView, highTC, highQC)
    BY Zenon DEF HandlerInv
  <2>2. Ahead(calls', currentView, highTC, highQC)
    BY <1>1, <1>3, <1>5, <2>1, AheadReturns, ZenonT(30)
  <2> QED
    BY <2>2, Zenon DEF Ahead
<1>7. WillLeave(calls', r, BView(b1))
  <2>1. /\ Len(next) + 2 - 1 \in 1..Len(next \o Tail(calls))
        /\ (next \o Tail(calls))[Len(next) + 2 - 1] = calls[2]
    BY <1>1, <1>3, TailCalls
  <2>2. \E i \in 1..Len(calls') : calls'[i] = d
    BY <1>3, <1>5, <2>1, ZenonT(40)
  <2>3. /\ d.fn = "AdvanceView" /\ d.r = r /\ d.si.tc = 0 /\ d.si.qc = b1
    BY Zenon DEF CallAdvanceView, QCInfo
  <2>4. BView(b1) \in Nat
    <3>1. b1 \in Hash
      BY <1>1, CallTypes, BlockTypes, ZenonT(40) DEF TypeOK
    <3> QED
      BY <3>1, BlockTypes, Zenon
  <2>5. BView(d.si.qc) >= BView(b1)
    BY <2>3, <2>4
  <2> HIDE DEF d, b1
  <2> QED
    BY <2>2, <2>3, <2>5, ZenonT(40) DEF WillLeave
<1>8. highQC' = highQC \/ highQC' = [highQC EXCEPT ![r] = b1]
  BY <1>2, Zenon DEF UpdateHighQC
<1>9. Ahead(calls', currentView, highTC, highQC')
  <2>1. SUFFICES ASSUME NEW q \in Replica
                 PROVE  /\ currentView[q] > highTC[q]
                        /\ \/ currentView[q] > BView(highQC'[q])
                           \/ WillLeave(calls', q, BView(highQC'[q]))
    BY Zenon DEF Ahead
  <2>2. highQC \in [Replica -> BlockId]
    BY Zenon DEF TypeOK
  <2>3. highQC'[q] = highQC[q] \/ (q = r /\ highQC'[q] = b1)
    BY <1>8, <2>2, Zenon
  <2> HIDE DEF b1, r
  <2> QED
    BY <1>6, <1>7, <2>3, Zenon
<1> QED
  BY <1>1, <1>5, <1>9, Zenon DEF HandlerInv

\* Propose makes the only block of its replica for the view.
LEMMA MakeBlockKeeps ==
    ASSUME TypeOK, HandlerInv, Running("Propose"), NEW K, NEW asked, NEW parent, NEW qc,
           MakeBlock(calls[1].r, K, asked, parent, qc), currentView[calls[1].r] <= MaxView,
           UNCHANGED <<started, syncVars>>
    PROVE  /\ HandlerInv'
           /\ \A b \in blocks : parentOf'[b] = parentOf[b] /\ qcOf'[b] = qcOf[b]
<1> DEFINE r == calls[1].r
           new == <<currentView[r], r>>
           c == CallOnPropose(r, new)
<1>1. /\ calls # <<>> /\ calls[1].fn = "Propose"
      /\ UNCHANGED <<started, currentView, highTC, highQC>>
  BY Zenon DEF Running, syncVars
<1>2. /\ calls \in Seq(Calls) /\ LaterCalls(calls) /\ r \in started /\ r \in Replica
      /\ \A i \in 1..Len(calls) : calls[i].r \in started
      /\ new \notin blocks
  BY <1>1, RunningCall, Zenon
<1>3. /\ blocks' = blocks \cup {new} /\ calls' = <<c>> \o Tail(calls)
      /\ parentOf' = [parentOf EXCEPT ![new] = parent]
      /\ qcOf' = [qcOf EXCEPT ![new] = qc]
  BY Zenon DEF MakeBlock, Return
<1>4. \A b \in blocks : parentOf'[b] = parentOf[b] /\ qcOf'[b] = qcOf[b]
  <2>1. parentOf \in [Hash -> Hash] /\ qcOf \in [Hash -> Hash] /\ blocks \subseteq Hash
    BY BlockTypes, ZenonT(40) DEF TypeOK
  <2> HIDE DEF new
  <2> QED
    BY <1>2, <1>3, <2>1, Zenon
<1>5. new \in BlockId /\ BView(new) = currentView[r] /\ Proposer(new) = r /\ currentView[r] \in Nat
  <2>1. currentView[r] \in 1..MaxView
    BY <1>2, MaxViewType DEF TypeOK
  <2> QED
    BY <1>2, <2>1, NewBlockType, MaxViewType DEF Proposer
<1>6. c \in Calls /\ c.r = r /\ c.fn = "OnPropose"
  BY <1>2, <1>5, MadeTypes, ZenonT(40) DEF CallOnPropose
<1>7. StackOK(calls', started, currentView, blocks', qcOf')
  <2> HIDE DEF c
  <2> QED
    BY <1>1, <1>2, <1>3, <1>6, StackReturns, Zenon
<1>8. Ahead(calls', currentView, highTC, highQC)
  <2>1. <<c>> \in Seq(Calls)
    BY <1>6
  <2> QED
    BY <1>1, <1>2, <1>3, <2>1, AheadReturns, ZenonT(40) DEF HandlerInv
<1>9. BlocksOK(blocks', started, currentView)
  <2> HIDE DEF new
  <2>1. BlocksOK(blocks, started, currentView)
    BY Zenon DEF HandlerInv
  <2> QED
    BY <1>2, <1>3, <1>5, <2>1 DEF BlocksOK
<1> QED
  BY <1>1, <1>4, <1>7, <1>8, <1>9, Zenon DEF HandlerInv

\* Propose, with a block or without.
LEMMA ProposeKeeps ==
    ASSUME TypeOK, HandlerInv, ProposeBlock \/ ProposeFork
    PROVE  /\ HandlerInv'
           /\ \A b \in blocks : parentOf'[b] = parentOf[b] /\ qcOf'[b] = qcOf[b]
<1>1. /\ Running("Propose") /\ currentView[calls[1].r] <= MaxView
      /\ UNCHANGED <<started, syncVars>>
  BY Zenon DEF ProposeBlock, ProposeFork
<1>2. \/ \E K \in Known(calls[1].r) :
           MakeBlock(calls[1].r, K, {calls[1].si.qc}, highQC[calls[1].r], calls[1].si.qc)
      \/ LET parent == parentOf[highQC[calls[1].r]]
         IN  \E K \in Known(calls[1].r) :
               MakeBlock(calls[1].r, K, {calls[1].si.qc, parent}, parent, qcOf[parent])
      \/ Return(<<>>) /\ UNCHANGED blockVars
  BY ZenonT(40) DEF ProposeBlock, ProposeFork
<1>3. CASE Return(<<>>) /\ UNCHANGED blockVars
  <2>1. /\ calls # <<>> /\ calls[1].fn = "Propose"
        /\ UNCHANGED <<started, currentView, highTC, highQC, blocks, parentOf, qcOf>>
    BY <1>1, <1>3, Zenon DEF Running, blockVars, syncVars
  <2> QED
    BY <1>3, <2>1, PlainReturns, Zenon
<1> QED
  BY <1>1, <1>2, <1>3, MakeBlockKeeps, Zenon

\* AdvanceView takes the replica past the certificate it was called with, and
\* into a view in which it has made no block.
LEMMA AdvanceKeeps ==
    ASSUME TypeOK, HandlerInv, AdvanceView
    PROVE  HandlerInv'
<1> DEFINE r == calls[1].r
           si == calls[1].si
           v == EndedView(si)
           c == CallPropose(r, si)
<1>1. calls # <<>> /\ calls[1].fn = "AdvanceView" /\ UNCHANGED <<started, blocks, qcOf>>
  BY Zenon DEF AdvanceView, Running, blockVars
<1>2. /\ calls \in Seq(Calls) /\ LaterCalls(calls) /\ r \in started /\ r \in Replica
      /\ \A i \in 1..Len(calls) : calls[i].r \in started
  BY <1>1, RunningCall, Zenon
<1>3. si \in SyncInfos
  BY <1>1, CallTypes, Zenon
<1>4. /\ si.tc \in Nat /\ BView(si.qc) \in Nat /\ v \in Nat
      /\ si.tc # 0 => v = si.tc
      /\ si.tc = 0 => v = BView(si.qc)
  BY <1>3, BlockTypes, ZenonT(40) DEF SyncInfos, EndedView
<1>5. /\ \A q \in Replica : currentView[q] \in Nat /\ highTC[q] \in Nat /\ BView(highQC[q]) \in Nat
      /\ currentView \in [Replica -> 1..(MaxView + 1)] /\ highTC \in [Replica -> View]
      /\ highQC \in [Replica -> BlockId]
  <2>1. /\ currentView \in [Replica -> 1..(MaxView + 1)] /\ highTC \in [Replica -> View]
        /\ highQC \in [Replica -> BlockId]
    BY Zenon DEF TypeOK
  <2>2. \A q \in Replica : currentView[q] \in Nat /\ highTC[q] \in Nat
    <3>1. \A q \in Replica : currentView[q] \in Nat
      BY <2>1, MaxViewType
    <3>2. \A q \in Replica : highTC[q] \in Nat
      BY <2>1, BlockTypes, Zenon
    <3> QED
      BY <3>1, <3>2, ZenonT(30)
  <2>3. \A q \in Replica : BView(highQC[q]) \in Nat
    BY <2>1, BlockTypes, Zenon
  <2> QED
    BY <2>1, <2>2, <2>3, Zenon
<1>6. /\ TakeCertificate(r, si)
      /\ \/ v < currentView[r] /\ Return(<<>>) /\ currentView' = currentView
         \/ /\ ~(v < currentView[r])
            /\ currentView' = [currentView EXCEPT ![r] = v + 1]
            /\ Return(<<>>) \/ Return(<<c>>)
  BY ZenonT(40) DEF AdvanceView, Stale, Outdated
<1> HIDE DEF v, r
<1>7. /\ \A q \in Replica \ {r} : currentView'[q] = currentView[q]
      /\ currentView'[r] \in Nat /\ currentView'[r] > v /\ currentView'[r] >= currentView[r]
      /\ currentView'[r] = currentView[r] => Return(<<>>)
  BY <1>2, <1>4, <1>5, <1>6
<1>8. /\ highTC' = highTC \/ (v = si.tc /\ highTC' = [highTC EXCEPT ![r] = Larger(@, si.tc)])
      /\ highQC' = highQC \/ (v = BView(si.qc) /\ highQC' = [highQC EXCEPT ![r] = si.qc])
  BY <1>4, <1>6, Zenon DEF TakeCertificate, UpdateHighQC
<1>9. /\ \A q \in Replica \ {r} : highTC'[q] = highTC[q] /\ highQC'[q] = highQC[q]
      /\ highTC'[r] = highTC[r] \/ highTC'[r] = v
      /\ highQC'[r] = highQC[r] \/ BView(highQC'[r]) = v
  <2>1. Larger(highTC[r], si.tc) \in {highTC[r], si.tc}
    BY Zenon DEF Larger
  <2> QED
    BY <1>2, <1>5, <1>8, <2>1, Zenon
<1>10. \E next \in Seq(Calls) : /\ calls' = next \o Tail(calls)
                                /\ StackOK(calls', started, currentView', blocks, qcOf)
  <2>1. CASE Return(<<>>)
    <3>1. <<>> \in Seq(Calls)
      OBVIOUS
    <3> QED
      BY <1>1, <1>2, <2>1, <3>1, StackReturns, Zenon DEF Return
  <2>2. CASE Return(<<c>>) /\ currentView'[r] > currentView[r]
    <3>1. c \in Calls /\ c.r = r /\ c.fn = "Propose"
      BY <1>2, <1>3, MadeTypes, ZenonT(30) DEF CallPropose
    <3>2. <<currentView'[r], r>> \notin blocks
      <4>1. BlocksOK(blocks, started, currentView)
        BY ZenonT(40) DEF HandlerInv
      <4>2. <<currentView'[r], r>> # Genesis
        <5>1. currentView[r] >= 0 /\ currentView'[r] \in Nat /\ currentView'[r] > currentView[r]
          BY <1>2, <1>5, <1>7, <2>2
        <5>2. currentView[r] \in Nat
          BY <1>2, <1>5, Zenon
        <5>3. currentView'[r] # 0
          BY <5>1, <5>2
        <5>4. Genesis[1] = 0 /\ <<currentView'[r], r>>[1] = currentView'[r]
          BY Zenon DEF Genesis
        <5> QED
          BY <5>3, <5>4, Zenon
      <4>3. BView(<<currentView'[r], r>>) = currentView'[r] /\ Proposer(<<currentView'[r], r>>) = r
        BY Zenon DEF BView, Proposer
      <4>4. <<currentView'[r], r>> \in blocks => currentView'[r] <= currentView[r]
        BY <4>1, <4>2, <4>3, Zenon DEF BlocksOK
      <4> QED
        BY <1>2, <1>5, <1>7, <2>2, <4>4
    <3>3. <<c>> \in Seq(Calls)
      BY <3>1, SMTT(30)
    <3> HIDE DEF c
    <3>4. StackOK(<<c>> \o Tail(calls), started, currentView', blocks, qcOf)
      BY <1>1, <1>2, <3>1, <3>2, StackReturns, Zenon
    <3> QED
      BY <2>2, <3>3, <3>4, ZenonT(40) DEF Return
  <2> QED
    <3>1. currentView'[r] = currentView[r] \/ currentView'[r] > currentView[r]
      BY <1>2, <1>5, <1>7
    <3> QED
      BY <1>6, <1>7, <2>1, <2>2, <3>1, Zenon
<1>11. PICK next \in Seq(Calls) : /\ calls' = next \o Tail(calls)
                                 /\ StackOK(calls', started, currentView', blocks, qcOf)
  BY <1>10, ZenonT(40)
<1>12. Ahead(calls', currentView', highTC', highQC')
  <2>1. SUFFICES ASSUME NEW q \in Replica
                 PROVE  /\ currentView'[q] > highTC'[q]
                        /\ \/ currentView'[q] > BView(highQC'[q])
                           \/ WillLeave(calls', q, BView(highQC'[q]))
    BY Zenon DEF Ahead
  <2>2. /\ currentView[q] > highTC[q]
        /\ currentView[q] > BView(highQC[q]) \/ WillLeave(calls, q, BView(highQC[q]))
    BY Zenon DEF HandlerInv, Ahead
  <2>3. WillLeave(calls, q, BView(highQC[q])) =>
          \/ WillLeave(calls', q, BView(highQC[q]))
          \/ q = r /\ si.tc = 0 /\ BView(si.qc) >= BView(highQC[q])
    BY <1>1, <1>2, <1>11, LeaveReturns, ZenonT(30) DEF r
  <2>4. currentView'[q] >= currentView[q] /\ currentView'[q] \in Nat
    BY <1>5, <1>7
  <2>5. currentView'[q] > highTC'[q]
    <3>1. CASE q = r
      <4>1. /\ currentView'[r] > v /\ currentView'[r] >= currentView[r] /\ currentView[r] > highTC[r]
            /\ highTC'[r] = highTC[r] \/ highTC'[r] = v
            /\ currentView'[r] \in Nat /\ currentView[r] \in Nat /\ highTC[r] \in Nat /\ v \in Nat
        BY <1>2, <1>4, <1>5, <1>7, <1>9, <2>2, <3>1, Zenon
      <4> QED
        BY <3>1, <4>1
    <3>2. CASE q # r
      BY <1>7, <1>9, <2>2, <3>2, ZenonT(40)
    <3> QED
      BY <3>1, <3>2, ZenonT(30)
  <2>6. CASE highQC'[q] = highQC[q]
    <3>1. CASE currentView[q] > BView(highQC[q])
      <4>1. currentView'[q] > BView(highQC[q])
        <5>1. currentView[q] \in Nat /\ BView(highQC[q]) \in Nat
          BY <1>5, Zenon
        <5> QED
          BY <2>4, <3>1, <5>1
      <4> QED
        BY <2>5, <2>6, <4>1, Zenon
    <3>2. CASE q = r /\ si.tc = 0 /\ BView(si.qc) >= BView(highQC[q])
      <4>1. currentView'[r] > v /\ v \in Nat /\ v = BView(si.qc) /\ BView(highQC[q]) \in Nat
        BY <1>4, <1>5, <1>7, <3>2, Zenon
      <4>2. currentView'[q] > BView(highQC[q])
        BY <2>4, <3>2, <4>1
      <4> QED
        BY <2>5, <2>6, <4>2, Zenon
    <3> QED
      BY <2>2, <2>3, <2>5, <2>6, <3>1, <3>2, Zenon
  <2>7. CASE highQC'[q] # highQC[q]
    <3>1. q = r /\ BView(highQC'[q]) = v /\ currentView'[r] > v
      BY <1>7, <1>9, <2>7, Zenon
    <3> QED
      BY <2>5, <3>1, Zenon
  <2> QED
    BY <2>6, <2>7, ZenonT(30)
<1>13. BlocksOK(blocks, started, currentView')
  <2>1. BlocksOK(blocks, started, currentView) /\ started \subseteq Replica
    BY Zenon DEF HandlerInv, TypeOK
  <2>2. \A q \in Replica : currentView'[q] >= currentView[q] /\ currentView'[q] \in Nat
    BY <1>5, <1>7, SMTT(30)
  <2>3. \A b \in blocks : BView(b) \in Nat
    BY BlockTypes, Zenon DEF TypeOK
  <2> QED
    BY <1>5, <2>1, <2>2, <2>3, SMTT(30) DEF BlocksOK
<1> QED
  BY <1>1, <1>11, <1>12, <1>13, Zenon DEF HandlerInv

\* Start calls Propose of a replica that has made no block.
LEMMA StartKeeps ==
    ASSUME TypeOK, HandlerInv, NEW r \in Replica, Start(r)
    PROVE  HandlerInv'
<1> DEFINE c == CallPropose(r, SyncInfo(r))
<1>1. /\ calls = <<>> /\ r \notin started /\ started' = started \cup {r}
      /\ UNCHANGED <<currentView, highTC, highQC, blocks, qcOf>>
      /\ calls' = <<>> \/ calls' = <<c>>
  BY Zenon DEF Start, Idle, blockVars, syncVars
<1>2. Ahead(calls', currentView, highTC, highQC)
  BY <1>1, AheadBegins, Zenon DEF HandlerInv
<1>3. BlocksOK(blocks, started, currentView)
  BY Zenon DEF HandlerInv
<1>4. BlocksOK(blocks, started', currentView)
  BY <1>1, <1>3, ZenonT(30) DEF BlocksOK
<1>5. <<currentView[r], r>> \notin blocks
  <2>1. currentView[r] # 0
    BY MaxViewType, SMTT(30) DEF TypeOK
  <2>2. <<currentView[r], r>> # Genesis /\ Proposer(<<currentView[r], r>>) = r
    BY <2>1, Zenon DEF Genesis, Proposer
  <2> QED
    BY <1>1, <1>3, <2>2, ZenonT(30) DEF BlocksOK
<1>6. StackOK(calls', started', currentView, blocks, qcOf)
  <2>1. c \in Calls /\ c.r = r /\ c.fn = "Propose"
    BY SyncInfoType, MadeTypes, Zenon DEF CallPropose
  <2>2. r \in started'
    BY <1>1, Zenon
  <2> HIDE DEF c
  <2>3. StackOK(<<c>>, started', currentView, blocks, qcOf)
    BY <1>5, <2>1, <2>2, StackBegins, Zenon
  <2>4. StackOK(<<>>, started', currentView, blocks, qcOf)
    BY StackBegins, Zenon
  <2> QED
    BY <1>1, <2>3, <2>4, ZenonT(40)
<1> QED
  BY <1>1, <1>2, <1>4, <1>6, Zenon DEF HandlerInv

\* A handler begins with a call that is neither CommitRule nor Propose, or with
\* those of OnRemoteTimeout.
LEMMA HandlerBegins ==
    ASSUME TypeOK, HandlerInv, calls = <<>>,
           UNCHANGED <<started, currentView, highTC, highQC, blocks, qcOf>>,
           \/ calls' = <<>>
           \/ \E c \in Calls : /\ calls' = <<c>> /\ c.r \in started
                              /\ c.fn \notin {"CommitRule", "Propose"}
           \/ \E r \in started : \E id, t : calls' = OnRemoteTimeout(r, id, t)
    PROVE  HandlerInv'
<1>1. Ahead(calls', currentView, highTC, highQC)
  BY AheadBegins, ZenonT(40) DEF HandlerInv
<1>2. StackOK(calls', started, currentView, blocks, qcOf)
  BY StackBegins, Zenon
<1> QED
  BY <1>1, <1>2, Zenon DEF HandlerInv

\* The timer, the votes and the messages.
LEMMA IdleKeeps ==
    ASSUME TypeOK, HandlerInv,
           \/ \E r \in Replica : OnLocalTimeout(r)
           \/ \E m \in net : OnVote(m) \/ Receive(m)
           \/ \E r, id \in Replica, b \in BlockId : VerifyCert(r, id, b)
    PROVE  HandlerInv'
<1>1. ASSUME NEW r \in Replica, OnLocalTimeout(r) PROVE HandlerInv'
  <2>1. /\ calls = <<>> /\ r \in started
        /\ UNCHANGED <<started, currentView, highTC, highQC, blocks, qcOf>>
        /\ calls' = calls \/ \E id, t : calls' = OnRemoteTimeout(r, id, t)
    BY <1>1, Zenon DEF OnLocalTimeout, Idle, blockVars
  <2> QED
    BY <2>1, HandlerBegins, Zenon
<1>2. ASSUME NEW m \in net, OnVote(m) PROVE HandlerInv'
  <2>1. /\ calls = <<>> /\ calls' = calls
        /\ UNCHANGED <<started, currentView, highTC, highQC, blocks, qcOf>>
    BY <1>2, ZenonT(40) DEF OnVote, Idle, blockVars, syncVars
  <2> QED
    BY <2>1, HandlerBegins, Zenon
<1>3. ASSUME NEW m \in net, Receive(m) PROVE HandlerInv'
  <2>1. /\ calls = <<>> /\ m.to \in started
        /\ UNCHANGED <<started, currentView, highTC, highQC, blocks, qcOf>>
        /\ \/ m.type = "propose" /\ calls' = <<CallOnPropose(m.to, m.b)>>
           \/ m.type = "newview" /\ calls' = <<CallAdvanceView(m.to, m.si)>>
           \/ calls' = OnRemoteTimeout(m.to, m.id, m.t)
    BY <1>3, Zenon DEF Receive, Idle, blockVars, syncVars
  <2>2. /\ m.type = "propose" => CallOnPropose(m.to, m.b) \in Calls
        /\ m.type = "newview" => CallAdvanceView(m.to, m.si) \in Calls
    BY MessageTypes, MadeTypes, ZenonT(40)
  <2>3. /\ CallOnPropose(m.to, m.b).r = m.to /\ CallOnPropose(m.to, m.b).fn = "OnPropose"
        /\ CallAdvanceView(m.to, m.si).r = m.to /\ CallAdvanceView(m.to, m.si).fn = "AdvanceView"
    BY Zenon DEF CallOnPropose, CallAdvanceView
  <2> QED
    BY <2>1, <2>2, <2>3, HandlerBegins, Zenon
<1>4. ASSUME NEW r \in Replica, NEW id \in Replica, NEW b \in BlockId, VerifyCert(r, id, b)
      PROVE  HandlerInv'
  <2>1. /\ calls = <<>> /\ calls' = calls
        /\ UNCHANGED <<started, currentView, highTC, highQC, blocks, qcOf>>
    BY <1>4, Zenon DEF VerifyCert, Idle, blockVars, syncVars
  <2> QED
    BY <2>1, HandlerBegins, Zenon
<1> QED
  BY <1>1, <1>2, <1>3, <1>4, Zenon

\* At the beginning no handler runs, and there is only the genesis block.
LEMMA HandlerInit == Init => HandlerInv
<1> SUFFICES ASSUME Init PROVE HandlerInv
  BY Zenon
<1>1. /\ calls = <<>> /\ blocks = {Genesis} /\ currentView = [r \in Replica |-> 1]
      /\ highTC = [r \in Replica |-> 0] /\ highQC = [r \in Replica |-> Genesis]
  BY Zenon DEF Init
<1>2. StackOK(calls, started, currentView, blocks, qcOf)
  BY <1>1, StackBegins, Zenon
<1>3. BlocksOK(blocks, started, currentView)
  BY <1>1, Zenon DEF BlocksOK
<1>4. Ahead(calls, currentView, highTC, highQC)
  BY <1>1, BlockTypes DEF Ahead
<1> QED
  BY <1>2, <1>3, <1>4, Zenon DEF HandlerInv

\* Every step keeps the invariant, and every block its parent and its QC.
LEMMA HandlerStep ==
    ASSUME TypeOK, HandlerInv, [Next]_vars
    PROVE  /\ HandlerInv'
           /\ \A b \in blocks : parentOf'[b] = parentOf[b] /\ qcOf'[b] = qcOf[b]
<1>1. CASE ProposeBlock \/ ProposeFork
  BY <1>1, ProposeKeeps, Zenon
<1>2. ASSUME NEW r \in Replica, Start(r)
      PROVE  HandlerInv' /\ UNCHANGED <<parentOf, qcOf>>
  BY <1>2, StartKeeps, Zenon DEF Start, blockVars
<1>3. CASE \/ \E r \in Replica : OnLocalTimeout(r)
           \/ \E m \in net : OnVote(m) \/ Receive(m)
           \/ \E r, id \in Replica, b \in BlockId : VerifyCert(r, id, b)
  BY <1>3, IdleKeeps, Zenon DEF OnLocalTimeout, OnVote, Receive, VerifyCert, blockVars
<1>4. CASE CollectTimeout
  BY <1>4, CollectKeeps, Zenon DEF CollectTimeout, blockVars
<1>5. CASE CleanTimeouts \/ ProposeNothing \/ OnProposeInvalid \/ Commit
  BY <1>5, SimpleKeeps, Zenon
     DEF CleanTimeouts, ProposeNothing, OnProposeInvalid, Commit, blockVars
<1>6. CASE AdvanceView
  BY <1>6, AdvanceKeeps, Zenon DEF AdvanceView, blockVars
<1>7. CASE OnProposeRefused \/ OnProposeAccepted
  BY <1>7, OnProposeKeeps, Zenon DEF OnProposeRefused, OnProposeAccepted, blockVars
<1>8. CASE CommitRule
  BY <1>8, CommitRuleKeeps, Zenon DEF CommitRule, blockVars
<1>9. CASE UNCHANGED vars
  BY <1>9, Zenon DEF HandlerInv, vars, blockVars, syncVars
<1> QED
  BY <1>1, <1>2, <1>3, <1>4, <1>5, <1>6, <1>7, <1>8, <1>9, Zenon DEF Next, RunCall

\* Every reachable state satisfies the invariant.
LEMMA HandlerAlways == Spec => []HandlerInv
<1>1. Init => HandlerInv
  BY HandlerInit, Zenon
<1>2. TypeOK /\ HandlerInv /\ [Next]_vars => HandlerInv'
  BY HandlerStep, Zenon
<1> QED
  BY <1>1, <1>2, TypeCorrect, PTL DEF Spec

\* Between handlers a replica has left every view that its certificates end:
\* when CommitRule raises highQC, the AdvanceView that OnPropose deferred is
\* still to be called with a certificate for a view no smaller.
THEOREM ViewFollowsCertificates == Spec => []ViewAheadOfCertificates
<1>1. HandlerInv => ViewAheadOfCertificates
  BY AheadBegins, Zenon DEF HandlerInv, ViewAheadOfCertificates, Idle
<1> QED
  BY <1>1, HandlerAlways, PTL

\* A replica makes at most one block in a view, whatever messages arrive while
\* it leads: AdvanceView calls Propose only in a view that it has just entered.
THEOREM ProposesOnce == Spec => OneProposalPerView
<1>1. TypeOK /\ HandlerInv /\ [Next]_vars =>
        [\A b \in blocks : parentOf'[b] = parentOf[b] /\ qcOf'[b] = qcOf[b]]_vars
  BY HandlerStep, ZenonT(30)
<1> QED
  BY <1>1, HandlerAlways, TypeCorrect, PTL DEF Spec, OneProposalPerView

-----------------------------------------------------------------------------
(* Votes and quorums *)

\* Only a vote and a first timeout sign anything, and each raises lastVote.
LEMMA SigningSteps ==
    ASSUME TypeOK, [Next]_vars
    PROVE  \/ UNCHANGED <<votes, timedOut, lastVote>>
           \/ \E r \in Replica, b \in BlockId :
                /\ BView(b) > lastVote[r]
                /\ lastVote' = [lastVote EXCEPT ![r] = BView(b)]
                /\ votes' = votes \cup {<<r, b>>}
                /\ UNCHANGED timedOut
           \/ \E r \in Replica :
                /\ lastVote' = [lastVote EXCEPT ![r] = Larger(@, currentView[r])]
                /\ timedOut' = timedOut \cup {<<r, currentView[r]>>}
                /\ UNCHANGED votes
<1> USE DEF ruleVars, logVars
<1>1. ASSUME NEW r \in Replica, OnLocalTimeout(r)
      PROVE  \/ UNCHANGED <<votes, timedOut, lastVote>>
             \/ /\ lastVote' = [lastVote EXCEPT ![r] = Larger(@, currentView[r])]
                /\ timedOut' = timedOut \cup {<<r, currentView[r]>>}
                /\ UNCHANGED votes
  BY <1>1, Zenon DEF OnLocalTimeout, StopVoting
<1>2. ASSUME OnProposeAccepted
      PROVE  \/ UNCHANGED <<votes, timedOut, lastVote>>
             \/ \E r \in Replica, b \in BlockId :
                  /\ BView(b) > lastVote[r]
                  /\ lastVote' = [lastVote EXCEPT ![r] = BView(b)]
                  /\ votes' = votes \cup {<<r, b>>}
                  /\ UNCHANGED timedOut
  <2>1. calls[1].r \in Replica /\ calls[1].b \in BlockId
    BY <1>2, CallTypes, ZenonT(30) DEF OnProposeAccepted, Running
  <2> QED
    BY <1>2, <2>1, ZenonT(30) DEF OnProposeAccepted, Vote
<1>3. ASSUME NEW r \in Replica, Start(r) PROVE UNCHANGED <<votes, timedOut, lastVote>>
  BY <1>3, ZenonT(30) DEF Start
<1>4. ASSUME NEW m \in net, OnVote(m) \/ Receive(m)
      PROVE  UNCHANGED <<votes, timedOut, lastVote>>
  BY <1>4, ZenonT(30) DEF OnVote, Receive
<1>5. ASSUME NEW r \in Replica, NEW id \in Replica, NEW b \in BlockId, VerifyCert(r, id, b)
      PROVE  UNCHANGED <<votes, timedOut, lastVote>>
  BY <1>5, Zenon DEF VerifyCert
<1>6. ASSUME CollectTimeout \/ CleanTimeouts \/ AdvanceView \/ ProposeNothing
      PROVE  UNCHANGED <<votes, timedOut, lastVote>>
  BY <1>6, Zenon DEF CollectTimeout, CleanTimeouts, AdvanceView, ProposeNothing
<1>7. ASSUME ProposeBlock \/ ProposeFork \/ OnProposeInvalid \/ OnProposeRefused
      PROVE  UNCHANGED <<votes, timedOut, lastVote>>
  BY <1>7, Zenon DEF ProposeBlock, ProposeFork, OnProposeInvalid, OnProposeRefused
<1>8. ASSUME CommitRule \/ Commit PROVE UNCHANGED <<votes, timedOut, lastVote>>
  BY <1>8, Zenon DEF CommitRule, Commit
<1>9. CASE UNCHANGED vars
  BY <1>9, ZenonT(30) DEF vars
<1> QED
  BY <1>1, <1>2, <1>3, <1>4, <1>5, <1>6, <1>7, <1>8, <1>9, ZenonT(30) DEF Next, RunCall

\* lastVote bounds what a replica has signed, through every step.
LEMMA BoundedStep ==
    ASSUME TypeOK, SignaturesBounded, [Next]_vars
    PROVE  SignaturesBounded'
<1>1. /\ \A r \in Replica : lastVote[r] \in Nat /\ currentView[r] \in Nat
      /\ \A b \in BlockId : BView(b) \in Nat
      /\ \A v \in View : v \in Nat
      /\ lastVote \in [Replica -> View]
  <2>1. lastVote \in [Replica -> View] /\ currentView \in [Replica -> 1..(MaxView + 1)]
    BY ZenonT(30) DEF TypeOK
  <2>2. 1..(MaxView + 1) \subseteq Nat
    BY ConstantsAssumption
  <2> QED
    BY <2>1, <2>2, BlockTypes, Zenon
<1>2. CASE UNCHANGED <<votes, timedOut, lastVote>>
  BY <1>2, Zenon DEF SignaturesBounded
<1>3. ASSUME NEW r \in Replica, NEW b \in BlockId,
             BView(b) > lastVote[r],
             lastVote' = [lastVote EXCEPT ![r] = BView(b)],
             votes' = votes \cup {<<r, b>>},
             UNCHANGED timedOut
      PROVE  SignaturesBounded'
  <2>1. /\ lastVote'[r] = BView(b)
        /\ \A o \in Replica : lastVote'[o] \in Nat /\ lastVote'[o] >= lastVote[o]
    BY <1>1, <1>3
  <2>2. \A o \in Replica, c \in BlockId :
          <<o, c>> \in votes' => <<o, c>> \in votes \/ (o = r /\ c = b)
    BY <1>3, Zenon
  <2>3. \A o \in Replica, c \in BlockId : <<o, c>> \in votes' => BView(c) <= lastVote'[o]
    BY <1>1, <2>1, <2>2 DEF SignaturesBounded
  <2>4. \A o \in Replica, v \in View : <<o, v>> \in timedOut' => v <= lastVote'[o]
    BY <1>1, <1>3, <2>1 DEF SignaturesBounded
  <2>5. \A o \in Replica, c, d \in BlockId :
          <<o, c>> \in votes' /\ <<o, d>> \in votes' /\ BView(c) = BView(d) => c = d
    BY <1>1, <1>3, <2>2 DEF SignaturesBounded
  <2> QED
    BY <2>3, <2>4, <2>5, Zenon DEF SignaturesBounded
<1>4. ASSUME NEW r \in Replica,
             lastVote' = [lastVote EXCEPT ![r] = Larger(@, currentView[r])],
             timedOut' = timedOut \cup {<<r, currentView[r]>>},
             UNCHANGED votes
      PROVE  SignaturesBounded'
  <2>1. /\ lastVote'[r] >= currentView[r]
        /\ \A o \in Replica : lastVote'[o] >= lastVote[o]
    BY <1>1, <1>4 DEF TypeOK, Larger
  <2>2. \A o \in Replica, v \in View :
          <<o, v>> \in timedOut' => <<o, v>> \in timedOut \/ (o = r /\ v = currentView[r])
    BY <1>4, ZenonT(30)
  <2>3. \A o \in Replica : lastVote'[o] \in Nat
    BY <1>1, <1>4, ZenonT(30) DEF TypeOK, Larger
  <2>4. \A o \in Replica, v \in View : <<o, v>> \in timedOut' => v <= lastVote'[o]
    BY <1>1, <2>1, <2>2, <2>3 DEF SignaturesBounded
  <2>5. \A o \in Replica, c \in BlockId : <<o, c>> \in votes' => BView(c) <= lastVote'[o]
    BY <1>1, <1>4, <2>1, <2>3 DEF SignaturesBounded
  <2> QED
    BY <1>4, <2>4, <2>5, ZenonT(30) DEF SignaturesBounded
<1> QED
  BY <1>2, <1>3, <1>4, SigningSteps, ZenonT(30)

\* lastVote always bounds what a replica has signed.
LEMMA BoundedAlways == Spec => [](TypeOK /\ SignaturesBounded)
<1>1. Init => SignaturesBounded
  BY ZenonT(30) DEF Init, SignaturesBounded
<1>2. TypeOK /\ SignaturesBounded /\ [Next]_vars => SignaturesBounded'
  BY BoundedStep, ZenonT(30)
<1> QED
  BY InitType, NextType, <1>1, <1>2, PTL DEF Spec

\* A replica signs a vote only in a view after those of all its earlier votes
\* and timeouts.
THEOREM Ascending == Spec => VotesAscend
<1>1. ASSUME TypeOK, SignaturesBounded, [Next]_vars,
             NEW r \in Replica, NEW b \in BlockId, <<r, b>> \in votes' \ votes
      PROVE  /\ \A c \in BlockId : <<r, c>> \in votes => BView(c) < BView(b)
             /\ \A v \in View : <<r, v>> \in timedOut => v < BView(b)
  <2>1. BView(b) > lastVote[r]
    BY <1>1, SigningSteps
  <2>2. /\ lastVote[r] \in Nat /\ View \subseteq Nat
        /\ \A c \in BlockId : BView(c) \in Nat
    BY <1>1, BlockTypes, Zenon DEF TypeOK
  <2> QED
    BY <1>1, <2>1, <2>2 DEF SignaturesBounded
<1>2. TypeOK /\ SignaturesBounded /\ [Next]_vars =>
        [\A r \in Replica, b \in BlockId :
           <<r, b>> \in votes' \ votes =>
              /\ \A c \in BlockId : <<r, c>> \in votes => BView(c) < BView(b)
              /\ \A v \in View : <<r, v>> \in timedOut => v < BView(b)]_vars
  BY <1>1, Zenon
<1> QED
  BY <1>2, BoundedAlways, PTL DEF Spec, VotesAscend

-----------------------------------------------------------------------------
(* What a step may never do *)

\* No view, certificate, lock or last executed block of a replica is ever
\* replaced by an older one, whatever arrives late: UpdateHighQC, AdvanceView,
\* CommitRule and commitInner each compare before they assign.
THEOREM Forward == Spec => NoRollback
<1> DEFINE Forwards == \A r \in Replica :
                      /\ currentView'[r] >= currentView[r]
                      /\ highTC'[r] >= highTC[r]
                      /\ BView(highQC'[r]) >= BView(highQC[r])
                      /\ BView(bLock'[r]) >= BView(bLock[r])
                      /\ BView(bExec'[r]) >= BView(bExec[r])
<1>1. ASSUME TypeOK, [Next]_vars PROVE Forwards
  <2> USE DEF syncVars, ruleVars
  <2>t. /\ currentView \in [Replica -> 1..(MaxView + 1)]
        /\ highTC \in [Replica -> View]
        /\ highQC \in [Replica -> BlockId]
        /\ bLock \in [Replica -> BlockId]
        /\ bExec \in [Replica -> BlockId]
    BY <1>1, ZenonT(30) DEF TypeOK
  <2>0. /\ \A r \in Replica : /\ currentView[r] \in Nat /\ highTC[r] \in Nat
                              /\ BView(highQC[r]) \in Nat /\ BView(bLock[r]) \in Nat
                              /\ BView(bExec[r]) \in Nat
        /\ \A h \in Hash : BView(h) \in Nat
        /\ View \subseteq Nat
    <3>1. 1..(MaxView + 1) \subseteq Nat /\ View \subseteq Nat
      BY ConstantsAssumption DEF View
    <3>2. \A h \in Hash : BView(h) \in Nat
      BY BlockTypes, Zenon
    <3>3. BlockId \subseteq Hash
      BY BlockTypes, Zenon
    <3> QED
      BY <2>t, <3>1, <3>2, <3>3, Zenon
  <2>a. UNCHANGED currentView => \A r \in Replica : currentView'[r] >= currentView[r]
    BY <2>0
  <2>b. UNCHANGED highTC => \A r \in Replica : highTC'[r] >= highTC[r]
    BY <2>0
  <2>c. UNCHANGED highQC => \A r \in Replica : BView(highQC'[r]) >= BView(highQC[r])
    BY <2>0
  <2>d. UNCHANGED bLock => \A r \in Replica : BView(bLock'[r]) >= BView(bLock[r])
    BY <2>0
  <2>e. UNCHANGED bExec => \A r \in Replica : BView(bExec'[r]) >= BView(bExec[r])
    BY <2>0
  <2>f. ASSUME NEW r \in Replica, NEW qc \in Hash, NEW K, UpdateHighQC(r, qc, K)
        PROVE  \A o \in Replica : BView(highQC'[o]) >= BView(highQC[o])
    <3>1. \A o \in Replica : \/ highQC'[o] = highQC[o]
                             \/ highQC'[o] = qc /\ o = r /\ BView(qc) > BView(highQC[r])
      BY <2>t, <2>f, ZenonT(30) DEF UpdateHighQC
    <3> QED
      BY <2>0, <3>1
  <2>1. CASE UNCHANGED <<currentView, highTC, highQC, bLock, bExec>>
    BY <2>1, <2>a, <2>b, <2>c, <2>d, <2>e, ZenonT(30)
  <2>2. CASE AdvanceView
    <3>1. PICK r \in Replica, si \in SyncInfos : r = calls[1].r /\ si = calls[1].si
      BY <1>1, <2>2, CallTypes, Zenon DEF AdvanceView, Running
    <3>2. /\ UNCHANGED <<bLock, bExec>>
          /\ TakeCertificate(r, si)
          /\ \/ UNCHANGED currentView
             \/ /\ ~(EndedView(si) < currentView[r])
                /\ currentView' = [currentView EXCEPT ![r] = EndedView(si) + 1]
      BY <2>2, <3>1, ZenonT(30) DEF AdvanceView, Stale, Outdated
    <3>3. EndedView(si) \in Nat /\ si.tc \in Nat
      BY <2>0, BlockTypes, Zenon DEF EndedView, SyncInfos
    <3>4. \A o \in Replica : currentView'[o] >= currentView[o]
      <4>1. \A o \in Replica :
              \/ currentView'[o] = currentView[o]
              \/ /\ o = r /\ ~(EndedView(si) < currentView[r])
                 /\ currentView'[o] = EndedView(si) + 1
        BY <2>t, <3>2, ZenonT(30)
      <4> QED
        BY <2>0, <3>3, <4>1
    <3>5. \A o \in Replica : highTC'[o] >= highTC[o]
      <4>1. \A o \in Replica :
              highTC'[o] = highTC[o] \/ (o = r /\ highTC'[o] = Larger(highTC[r], si.tc))
        BY <2>t, <3>2, ZenonT(30) DEF TakeCertificate
      <4> QED
        BY <2>0, <3>3, <4>1 DEF Larger
    <3>6. \A o \in Replica : BView(highQC'[o]) >= BView(highQC[o])
      <4>1. si.qc \in Hash
        BY BlockTypes, ZenonT(30) DEF SyncInfos
      <4> QED
        BY <2>c, <2>f, <3>2, <4>1, ZenonT(30) DEF TakeCertificate
    <3> QED
      BY <2>d, <2>e, <3>2, <3>4, <3>5, <3>6, ZenonT(30)
  <2>3. CASE CommitRule
    <3>0. PICK r \in Replica, b \in BlockId : r = calls[1].r /\ b = calls[1].b
      BY <1>1, <2>3, CallTypes, Zenon DEF CommitRule, Running
    <3>a. qcOf[b] \in Hash /\ qcOf[qcOf[b]] \in Hash
      BY <1>1, BlockTypes, ZenonT(30) DEF TypeOK
    <3>b. PICK b1 \in Hash, b2 \in Hash : b1 = qcOf[b] /\ b2 = qcOf[b1]
      BY <3>a, ZenonT(30)
    <3>1. PICK K1, K :
            /\ UNCHANGED <<currentView, highTC, bExec>>
            /\ UpdateHighQC(r, b1, K1) \/ UNCHANGED highQC
            /\ bLock' = IF {b1, b2} \subseteq K /\ BView(b2) > BView(bLock[r])
                        THEN [bLock EXCEPT ![r] = b2]
                        ELSE bLock
      BY <2>3, <3>0, <3>b, Zenon DEF CommitRule
    <3>2. \A o \in Replica : \/ bLock'[o] = bLock[o]
                             \/ bLock'[o] = b2 /\ o = r /\ BView(b2) > BView(bLock[r])
      BY <2>t, <3>1, ZenonT(30)
    <3>4. \A o \in Replica : BView(bLock'[o]) >= BView(bLock[o])
      BY <2>0, <3>2
    <3>5. \A o \in Replica : BView(highQC'[o]) >= BView(highQC[o])
      BY <2>c, <2>f, <3>1, ZenonT(30)
    <3> QED
      BY <2>a, <2>b, <2>e, <3>1, <3>4, <3>5, ZenonT(30)
  <2>4. CASE Commit
    <3>1. PICK r \in Replica, b \in BlockId : r = calls[1].r /\ b = calls[1].b
      BY <1>1, <2>4, CallTypes, ZenonT(30) DEF Commit, Running
    <3>2. /\ UNCHANGED <<currentView, highTC, highQC, bLock>>
          /\ bExec' = [bExec EXCEPT ![r] = IF BView(b) > BView(bExec[r]) THEN b ELSE bExec[r]]
      BY <2>4, <3>1, ZenonT(30) DEF Commit
    <3>3. \A o \in Replica : \/ bExec'[o] = bExec[o]
                             \/ bExec'[o] = b /\ o = r /\ BView(b) > BView(bExec[r])
      BY <2>t, <3>2, ZenonT(30)
    <3>4. \A o \in Replica : BView(bExec'[o]) >= BView(bExec[o])
      BY <2>0, <3>3, BlockTypes
    <3> QED
      BY <2>a, <2>b, <2>c, <2>d, <3>2, <3>4, ZenonT(30)
  <2>5. ASSUME NEW r \in Replica, Start(r) \/ OnLocalTimeout(r) PROVE Forwards
    BY <2>1, <2>5, ZenonT(30) DEF Start, OnLocalTimeout
  <2>6. ASSUME NEW m \in net, OnVote(m) \/ Receive(m) PROVE Forwards
    BY <2>1, <2>6, ZenonT(30) DEF OnVote, Receive
  <2>7. ASSUME NEW r \in Replica, NEW id \in Replica, NEW b \in BlockId, VerifyCert(r, id, b)
        PROVE  Forwards
    BY <2>1, <2>7, ZenonT(30) DEF VerifyCert
  <2>8. CASE CollectTimeout \/ CleanTimeouts \/ ProposeNothing \/ ProposeBlock \/ ProposeFork
    BY <2>1, <2>8, Zenon DEF CollectTimeout, CleanTimeouts, ProposeNothing, ProposeBlock, ProposeFork
  <2>9. CASE OnProposeInvalid \/ OnProposeRefused \/ OnProposeAccepted
    BY <2>1, <2>9, Zenon DEF OnProposeInvalid, OnProposeRefused, OnProposeAccepted
  <2>10. CASE UNCHANGED vars
    BY <2>1, <2>10, Zenon DEF vars
  <2> QED
    BY <1>1, <2>2, <2>3, <2>4, <2>5, <2>6, <2>7, <2>8, <2>9, <2>10, ZenonT(30) DEF Next, RunCall
<1>2. TypeOK /\ [Next]_vars =>
        [\A r \in Replica :
           /\ currentView'[r] >= currentView[r]
           /\ highTC'[r] >= highTC[r]
           /\ BView(highQC'[r]) >= BView(highQC[r])
           /\ BView(bLock'[r]) >= BView(bLock[r])
           /\ BView(bExec'[r]) >= BView(bExec[r])]_vars
  BY <1>1, ZenonT(30)
<1> QED
  BY <1>2, TypeCorrect, PTL DEF Spec, NoRollback

-----------------------------------------------------------------------------

\* Nothing that a replica has signed or stored is lost.
Grows ==
    /\ votes \subseteq votes'
    /\ timedOut \subseteq timedOut'
    /\ \A r \in Replica : stored[r] \subseteq stored'[r]

\* Keep adds the blocks found to the stored ones, and removes none.
LEMMA KeepGrows ==
    ASSUME TypeOK, NEW r \in Replica, NEW K, NEW asked, NEW new, Keep(r, K, asked, new)
    PROVE  /\ \A o \in Replica : stored[o] \subseteq stored'[o]
           /\ (asked \cap K) \cup new \subseteq stored'[r]
BY ZenonT(30) DEF Keep, TypeOK

\* No step loses a block.
LEMMA StoredGrows ==
    ASSUME TypeOK, [Next]_vars
    PROVE  \A r \in Replica : stored[r] \subseteq stored'[r]
<1> USE DEF chainVars
<1> DEFINE Goal == \A r \in Replica : stored[r] \subseteq stored'[r]
<1>1. ASSUME calls # <<>>, NEW K, NEW asked, NEW new, Keep(calls[1].r, K, asked, new)
      PROVE  Goal
  BY <1>1, CallTypes, KeepGrows, ZenonT(30)
<1>2. CASE UNCHANGED stored
  BY <1>2, ZenonT(30)
<1>3. CASE AdvanceView
  <2>1. UNCHANGED stored \/ \E K, asked, new : Keep(calls[1].r, K, asked, new)
    BY <1>3, ZenonT(30) DEF AdvanceView, TakeCertificate
  <2> QED
    BY <1>1, <1>2, <1>3, <2>1, ZenonT(30) DEF AdvanceView, Running
<1>4. CASE ProposeNothing
  <2>1. \E K, asked, new : Keep(calls[1].r, K, asked, new)
    BY <1>4, ZenonT(30) DEF ProposeNothing
  <2> QED
    BY <1>1, <1>4, <2>1, ZenonT(30) DEF ProposeNothing, Running
<1>5. CASE ProposeBlock
  <2>1. \E K, asked, new : Keep(calls[1].r, K, asked, new)
    BY <1>5, Zenon DEF ProposeBlock, MakeBlock
  <2> QED
    BY <1>1, <1>5, <2>1, Zenon DEF ProposeBlock, Running
<1>6. CASE ProposeFork
  <2>1. \E K, asked, new : Keep(calls[1].r, K, asked, new)
    BY <1>6, Zenon DEF ProposeFork, MakeBlock
  <2> QED
    BY <1>1, <1>6, <2>1, Zenon DEF ProposeFork, Running
<1>7. CASE OnProposeRefused
  <2>1. UNCHANGED stored \/ \E K, asked, new : Keep(calls[1].r, K, asked, new)
    BY <1>7, Zenon DEF OnProposeRefused
  <2> QED
    BY <1>1, <1>2, <1>7, <2>1, Zenon DEF OnProposeRefused, Running
<1>8. CASE OnProposeAccepted
  <2>1. \E K, asked, new : Keep(calls[1].r, K, asked, new)
    BY <1>8, Zenon DEF OnProposeAccepted
  <2> QED
    BY <1>1, <1>8, <2>1, Zenon DEF OnProposeAccepted, Running
<1>9. CASE CommitRule
  <2>1. \E K, asked, new : Keep(calls[1].r, K, asked, new)
    BY <1>9, Zenon DEF CommitRule
  <2> QED
    BY <1>1, <1>9, <2>1, Zenon DEF CommitRule, Running
<1>10. CASE Commit
  <2>1. \E got : stored' = [stored EXCEPT ![calls[1].r] = @ \cup got]
    BY <1>10, Zenon DEF Commit
  <2> QED
    BY <2>1 DEF TypeOK
<1>11. ASSUME NEW r \in Replica, Start(r) \/ OnLocalTimeout(r) PROVE Goal
  BY <1>2, <1>11, Zenon DEF Start, OnLocalTimeout
<1>12. ASSUME NEW m \in net, OnVote(m) \/ Receive(m) PROVE Goal
  BY <1>2, <1>12, Zenon DEF OnVote, Receive
<1>13. ASSUME NEW r \in Replica, NEW id \in Replica, NEW b \in BlockId, VerifyCert(r, id, b)
       PROVE  Goal
  BY <1>2, <1>13, Zenon DEF VerifyCert
<1>14. CASE CollectTimeout \/ CleanTimeouts \/ OnProposeInvalid
  BY <1>2, <1>14, Zenon DEF CollectTimeout, CleanTimeouts, OnProposeInvalid
<1>15. CASE UNCHANGED vars
  BY <1>2, <1>15, Zenon DEF vars
<1> QED
  BY <1>3, <1>4, <1>5, <1>6, <1>7, <1>8, <1>9, <1>10, <1>11, <1>12, <1>13,
     <1>14, <1>15, ZenonT(30) DEF Next, RunCall

\* No step takes back a signature or a stored block.
LEMMA StepGrows == ASSUME TypeOK, [Next]_vars PROVE Grows
<1>1. votes \subseteq votes' /\ timedOut \subseteq timedOut'
  BY SigningSteps, Zenon
<1> QED
  BY <1>1, StoredGrows, Zenon DEF Grows

\* A set that includes a quorum is one, see QuorumsMeet.
QuorumsGrow ==
    \A S, T \in SUBSET Replica :
        S \subseteq T /\ Cardinality(S) >= QuorumSize => Cardinality(T) >= QuorumSize

\* A certificate stays backed.
LEMMA BackedGrows ==
    ASSUME QuorumsGrow, Grows
    PROVE  /\ \A b : Certified(b) => Certified(b)'
           /\ \A v : Expired(v) => Expired(v)'
           /\ \A si : Backed(si) => Backed(si)'
<1>1. \A b : Certified(b) => Certified(b)'
  <2>1. \A b : Voters(b) \subseteq Voters(b)' /\ Voters(b)' \subseteq Replica
    BY Zenon DEF Grows, Voters
  <2> QED
    BY <2>1, Zenon DEF Certified, QuorumsGrow
<1>2. \A v : Expired(v) => Expired(v)'
  <2>1. \A v : TimedOutIn(v) \subseteq TimedOutIn(v)' /\ TimedOutIn(v)' \subseteq Replica
    BY Zenon DEF Grows, TimedOutIn
  <2> QED
    BY <2>1, Zenon DEF Expired, QuorumsGrow
<1> QED
  BY <1>1, <1>2, Zenon DEF Backed

\* What a step leaves alone stays good.
LEMMA Unaffected ==
    ASSUME QuorumsGrow, SafetyInv, Grows
    PROVE  /\ (\A m \in net' \ net : GoodMessage(m)') => GoodNet'
           /\ UNCHANGED voteVars => GoodVotes'
           /\ UNCHANGED <<timeouts, lastTimeout>> => GoodTimeouts'
           /\ UNCHANGED <<highQC, highTC>> => GoodCerts'
           /\ UNCHANGED qcOf => GoodQCs'
           /\ UNCHANGED currentView => ViewsEarned'
           /\ UNCHANGED <<highQC, bLock, bExec>> => ReferredBlocksStored'
<1>1. (\A m \in net' \ net : GoodMessage(m)') => GoodNet'
  <2>1. ASSUME NEW m \in net PROVE GoodMessage(m)'
    <3>1. GoodMessage(m)
      BY Zenon DEF SafetyInv, GoodNet
    <3> QED
      BY <3>1, BackedGrows, Zenon DEF GoodMessage, Grows
  <2> QED
    BY <2>1, Zenon DEF GoodNet
<1>2. UNCHANGED voteVars => GoodVotes'
  BY Zenon DEF SafetyInv, GoodVotes, voteVars, Grows, Voters
<1>3. UNCHANGED <<timeouts, lastTimeout>> => GoodTimeouts'
  <2>1. GoodTimeouts
    BY Zenon DEF SafetyInv
  <2> QED
    BY <2>1, BackedGrows, Zenon DEF GoodTimeouts, Grows, TimedOutIn
<1>4. UNCHANGED <<highQC, highTC>> => GoodCerts'
  <2>1. \A r \in Replica : Certified(highQC[r]) /\ Expired(highTC[r])
    BY Zenon DEF SafetyInv, GoodCerts
  <2> QED
    BY <2>1, BackedGrows, Zenon DEF GoodCerts
<1>5. UNCHANGED qcOf => GoodQCs'
  <2>1. \A h \in Hash : qcOf[h] = ZeroHash \/ Certified(qcOf[h])
    BY Zenon DEF SafetyInv, GoodQCs
  <2> QED
    BY <2>1, BackedGrows, Zenon DEF GoodQCs
<1>6. UNCHANGED currentView => ViewsEarned'
  <2>1. ViewsEarned
    BY Zenon DEF SafetyInv
  <2> QED
    BY <2>1, BackedGrows, Zenon DEF ViewsEarned
<1>7. UNCHANGED <<highQC, bLock, bExec>> => ReferredBlocksStored'
  BY Zenon DEF SafetyInv, ReferredBlocksStored, Grows
<1> QED
  BY <1>1, <1>2, <1>3, <1>4, <1>5, <1>6, <1>7, Zenon

\* The calls that are left when a function returns are good.
LEMMA ReturnGood ==
    ASSUME QuorumsGrow, SafetyInv, Grows, TypeOK'
    PROVE  /\ UNCHANGED calls => calls' \in Seq(GoodCalls')
           /\ calls # <<>> =>
                /\ Return(<<>>) => calls' \in Seq(GoodCalls')
                /\ \A c \in GoodCalls' : Return(<<c>>) => calls' \in Seq(GoodCalls')
                /\ \A c, d \in GoodCalls' : Return(<<c, d>>) => calls' \in Seq(GoodCalls')
<1>1. GoodCalls \subseteq GoodCalls'
  <2> SUFFICES ASSUME NEW c \in GoodCalls PROVE c \in GoodCalls'
    BY Zenon
  <2>1. /\ c \in Calls
        /\ c.fn \in {"AdvanceView", "Propose"} => Backed(c.si)
        /\ c.fn = "CollectTimeout" =>
             <<c.id, c.t.view>> \in timedOut /\ Backed(c.t.si)
        /\ c.fn = "commit" => c.b \in stored[c.r]
    BY Zenon DEF GoodCalls
  <2>2. c.r \in Replica
    BY <2>1, Zenon DEF Calls
  <2> QED
    BY <2>1, <2>2, BackedGrows, Zenon DEF GoodCalls, Grows
<1>2. calls \in Seq(GoodCalls')
  <2>1. calls \in Seq(GoodCalls)
    BY Zenon DEF SafetyInv, GoodStack
  <2> HIDE DEF GoodCalls
  <2> QED
    BY <1>1, <2>1
<1>3. <<>> \in Seq(GoodCalls')
      /\ \A c, d \in GoodCalls' : <<c>> \in Seq(GoodCalls') /\ <<c, d>> \in Seq(GoodCalls')
  OBVIOUS
<1> QED
  BY <1>2, <1>3, ReturnType, Zenon DEF Return

\* The running function was called with genuine timeouts and backed
\* certificates.
LEMMA RunningGood ==
    ASSUME SafetyInv, calls # <<>>
    PROVE  calls[1] \in GoodCalls
<1>1. calls \in Seq(GoodCalls)
  BY Zenon DEF SafetyInv, GoodStack
<1> QED
  BY <1>1

\* The calls and messages that the actions make from genuine signatures and
\* backed certificates are good.
LEMMA GoodMade ==
    ASSUME NEW r \in Replica, NEW id \in Replica
    PROVE  /\ \A b \in BlockId :
                /\ CallOnPropose(r, b) \in GoodCalls'
                /\ CallCommitRule(r, b) \in GoodCalls'
                /\ b \in stored'[r] => CallCommit(r, b) \in GoodCalls'
                /\ <<id, b>> \in votes' => GoodMessage(VoteMsg(r, id, b))'
                /\ \A m \in ProposeMsgs(r, b) : GoodMessage(m)'
           /\ \A si \in SyncInfos : Backed(si)' =>
                /\ CallAdvanceView(r, si) \in GoodCalls'
                /\ CallPropose(r, si) \in GoodCalls'
                /\ GoodMessage(NewViewMsg(r, si))'
           /\ \A t \in Timeouts : <<id, t.view>> \in timedOut' /\ Backed(t.si)' =>
                /\ OnRemoteTimeout(r, id, t) \in Seq(GoodCalls')
                /\ \A m \in TimeoutMsgs(id, t) : GoodMessage(m)'
<1>1. \A b \in BlockId :
        /\ CallOnPropose(r, b) \in GoodCalls'
        /\ CallCommitRule(r, b) \in GoodCalls'
        /\ b \in stored'[r] => CallCommit(r, b) \in GoodCalls'
  BY MadeTypes, Zenon DEF CallOnPropose, CallCommitRule, CallCommit, GoodCalls
<1>2. \A b \in BlockId :
        /\ <<id, b>> \in votes' => GoodMessage(VoteMsg(r, id, b))'
        /\ \A m \in ProposeMsgs(r, b) : GoodMessage(m)'
  <2>1. \A b \in BlockId : <<id, b>> \in votes' => GoodMessage(VoteMsg(r, id, b))'
    BY Zenon DEF VoteMsg, GoodMessage
  <2>2. \A b \in BlockId : \A m \in ProposeMsgs(r, b) : GoodMessage(m)'
    BY DEF ProposeMsgs, GoodMessage
  <2> QED
    BY <2>1, <2>2, Zenon
<1>3. \A si \in SyncInfos : Backed(si)' =>
        /\ CallAdvanceView(r, si) \in GoodCalls'
        /\ CallPropose(r, si) \in GoodCalls'
        /\ GoodMessage(NewViewMsg(r, si))'
  BY MadeTypes, Zenon DEF CallAdvanceView, CallPropose, NewViewMsg, GoodCalls, GoodMessage
<1>4. ASSUME NEW t \in Timeouts, <<id, t.view>> \in timedOut', Backed(t.si)'
      PROVE  /\ OnRemoteTimeout(r, id, t) \in Seq(GoodCalls')
             /\ \A m \in TimeoutMsgs(id, t) : GoodMessage(m)'
  <2>1. CallAdvanceView(r, t.si) \in GoodCalls'
    BY <1>3, <1>4, Zenon DEF Timeouts
  <2>2. CallCollectTimeout(r, id, t) \in GoodCalls'
    BY <1>4, Zenon DEF CallCollectTimeout, GoodCalls, Calls
  <2>3. CallCleanTimeouts(r) \in GoodCalls'
    BY Zenon DEF CallCleanTimeouts, GoodCalls, Calls
  <2>4. OnRemoteTimeout(r, id, t) \in Seq(GoodCalls')
    BY <2>1, <2>2, <2>3 DEF OnRemoteTimeout
  <2>5. \A m \in TimeoutMsgs(id, t) : GoodMessage(m)'
    BY <1>4 DEF TimeoutMsgs, GoodMessage
  <2> QED
    BY <2>4, <2>5, Zenon
<1> QED
  BY <1>1, <1>2, <1>3, <1>4, Zenon

\* What a replica knows of the certificates is backed.
LEMMA SyncInfoBacked ==
    ASSUME SafetyInv, NEW r \in Replica
    PROVE  Backed(SyncInfo(r))
<1>1. Certified(highQC[r]) /\ Expired(highTC[r])
  BY Zenon DEF SafetyInv, GoodCerts
<1> QED
  BY <1>1, Zenon DEF SyncInfo, QCInfo, Backed, Expired

\* A raised highQC is the new QC, which UpdateHighQC found in the chain.
LEMMA UpdateHighQCGood ==
    ASSUME TypeOK, NEW r \in Replica, NEW qc, NEW K, UpdateHighQC(r, qc, K), NEW o \in Replica
    PROVE  highQC'[o] = highQC[o] \/ (o = r /\ highQC'[o] = qc /\ qc \in K)
BY Zenon DEF TypeOK, UpdateHighQC

\* The QC of a block, if it has one, is backed.
LEMMA QCsBacked ==
    ASSUME SafetyInv, NEW h \in Hash
    PROVE  qcOf[h] \in Hash /\ (qcOf[h] = ZeroHash \/ Certified(qcOf[h]))
BY BlockTypes, Zenon DEF SafetyInv, GoodQCs, TypeOK

\* The invariant holds at the start.
LEMMA SafetyInit == Init => SafetyInv
<1> SUFFICES ASSUME Init PROVE SafetyInv
  BY Zenon
<1>1. Certified(Genesis) /\ Expired(0)
  BY Zenon DEF Certified, Expired
<1>2. SignaturesBounded /\ GoodVotes
  BY Zenon DEF Init, SignaturesBounded, GoodVotes
<1>3. GoodTimeouts
  BY <1>1, Zenon DEF Init, GoodTimeouts, NilTimeout, QCInfo, Backed
<1>4. ViewsEarned /\ ReferredBlocksStored
  <2>1. ViewsEarned
    <3>1. \A r \in Replica : currentView[r] = 1
      BY Zenon DEF Init
    <3> QED
      BY <1>1, <3>1 DEF ViewsEarned
  <2>2. ReferredBlocksStored
    BY Zenon DEF Init, ReferredBlocksStored
  <2> QED
    BY <2>1, <2>2, Zenon
<1>5. GoodNet /\ GoodCerts /\ GoodQCs
  BY <1>1, Zenon DEF Init, GoodNet, GoodCerts, GoodQCs
<1>6. <<>> \in Seq(GoodCalls)
  OBVIOUS
<1>7. GoodStack
  BY <1>6, Zenon DEF Init, GoodStack
<1> QED
  BY <1>2, <1>3, <1>4, <1>5, <1>7, InitType, Zenon DEF SafetyInv

=============================================================================
