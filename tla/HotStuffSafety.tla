--------------------------- MODULE HotStuffSafety ---------------------------
(***************************************************************************)
(* The proof that SafetyInv is inductive, with a lemma for each action,    *)
(* hence that the certificates of HotStuff are signed by quorums, one a    *)
(* view, that replicas earn their views, and that the blocks they refer to *)
(* are stored.  Then the proof that HotStuff implements Voting, and that a *)
(* commit settles the blocks it passes.                                    *)
(***************************************************************************)
EXTENDS HotStuffProofs

USE DEF blockVars, syncVars, ruleVars, chainVars, voteVars, logVars

\* What every step keeps.
LEMMA StepFacts ==
    ASSUME SafetyInv, [Next]_vars
    PROVE  TypeOK /\ TypeOK' /\ SignaturesBounded' /\ Grows
BY NextType, BoundedStep, StepGrows, Zenon DEF SafetyInv

\* The parts make the invariant.
LEMMA Assembled ==
    ASSUME SafetyInv, [Next]_vars, GoodNet', GoodStack', GoodVotes', GoodTimeouts',
           GoodCerts', GoodQCs', ViewsEarned', ReferredBlocksStored'
    PROVE  SafetyInv'
BY StepFacts, Zenon DEF SafetyInv

\* A part that a step leaves alone stays good.
LEMMA Kept ==
    ASSUME QuorumsGrow, SafetyInv, [Next]_vars
    PROVE  /\ (\A m \in net' \ net : GoodMessage(m)') => GoodNet'
           /\ net' \subseteq net => GoodNet'
           /\ UNCHANGED calls => GoodStack'
           /\ UNCHANGED voteVars => GoodVotes'
           /\ UNCHANGED <<timeouts, lastTimeout>> => GoodTimeouts'
           /\ UNCHANGED <<highQC, highTC>> => GoodCerts'
           /\ UNCHANGED qcOf => GoodQCs'
           /\ UNCHANGED currentView => ViewsEarned'
           /\ UNCHANGED <<highQC, bLock, bExec>> => ReferredBlocksStored'
<1>1. Grows /\ TypeOK'
  BY StepFacts, Zenon
<1>2. UNCHANGED calls => GoodStack'
  BY <1>1, ReturnGood, Zenon DEF GoodStack
<1>3. net' \subseteq net => \A m \in net' \ net : GoodMessage(m)'
  BY Zenon
<1> QED
  BY <1>1, <1>2, <1>3, Unaffected, Zenon

\* The calls that a returning function leaves are good.
LEMMA Returned ==
    ASSUME QuorumsGrow, SafetyInv, [Next]_vars, calls # <<>>
    PROVE  /\ Return(<<>>) => GoodStack'
           /\ \A c \in GoodCalls' : Return(<<c>>) => GoodStack'
           /\ \A c, d \in GoodCalls' : Return(<<c, d>>) => GoodStack'
BY StepFacts, ReturnGood, Zenon DEF GoodStack

\* A step keeps a SyncInfo backed.
LEMMA StaysBacked ==
    ASSUME QuorumsGrow, SafetyInv, [Next]_vars
    PROVE  \A si : Backed(si) => Backed(si)'
BY StepFacts, BackedGrows, Zenon

\* The calls and messages that pass on a backed SyncInfo are good.
LEMMA BackedMade ==
    ASSUME QuorumsGrow, SafetyInv, [Next]_vars
    PROVE  \A r \in Replica, si \in SyncInfos : Backed(si) =>
             /\ CallAdvanceView(r, si) \in GoodCalls'
             /\ CallPropose(r, si) \in GoodCalls'
             /\ \A m : m = NewViewMsg(r, si) => GoodMessage(m)'
<1> SUFFICES ASSUME NEW r \in Replica, NEW si \in SyncInfos, Backed(si)
             PROVE  /\ CallAdvanceView(r, si) \in GoodCalls'
                    /\ CallPropose(r, si) \in GoodCalls'
                    /\ GoodMessage(NewViewMsg(r, si))'
  BY Zenon DEF GoodMessage
<1>1. Backed(si)'
  BY StaysBacked, Zenon
<1> QED
  BY <1>1, GoodMade, Zenon

\* The block that a replica makes carries the QC it was given.
LEMMA BlockMade ==
    ASSUME QuorumsGrow, SafetyInv, [Next]_vars,
           NEW r \in Replica, NEW K, NEW asked, NEW parent, NEW qc,
           currentView[r] <= MaxView, calls # <<>>,
           qc = ZeroHash \/ Certified(qc),
           MakeBlock(r, K, asked, parent, qc)
    PROVE  GoodNet' /\ GoodStack' /\ GoodQCs'
<1>1. PICK b : b = <<currentView[r], r>>
  BY Zenon
<1>2. b \in BlockId
  <2>1. currentView[r] \in 1..(MaxView + 1)
    BY StepFacts, Zenon DEF TypeOK
  <2>2. currentView[r] \in 1..MaxView
    BY <2>1, ConstantsAssumption
  <2> QED
    BY <1>1, <2>2, NewBlockType, Zenon
<1>3. /\ net' = net \cup ProposeMsgs(r, b)
      /\ Return(<<CallOnPropose(r, b)>>)
      /\ qcOf' = [qcOf EXCEPT ![b] = qc]
  BY <1>1, Zenon DEF MakeBlock
<1>4. /\ \A m \in ProposeMsgs(r, b) : GoodMessage(m)'
      /\ CallOnPropose(r, b) \in GoodCalls'
  BY <1>2, GoodMade, Zenon
<1>5. GoodQCs'
  <2>1. \A h \in Hash : qcOf'[h] \in {qcOf[h], qc}
    BY <1>3, StepFacts, ZenonT(30) DEF TypeOK
  <2>2. \A h \in Hash : \A c : c = qcOf'[h] => c = ZeroHash \/ Certified(c)
    BY <2>1, Zenon DEF SafetyInv, GoodQCs
  <2>3. \A h \in Hash : \A c : c = qcOf'[h] => c = ZeroHash \/ Certified(c)'
    BY <2>2, StepFacts, BackedGrows, Zenon
  <2> QED
    BY <2>3, Zenon DEF GoodQCs
<1>6. GoodNet'
  BY <1>3, <1>4, Kept, Zenon
<1>7. GoodStack'
  BY <1>3, <1>4, Returned, Zenon
<1> QED
  BY <1>5, <1>6, <1>7, Zenon

\* Start proposes with the certificates that the replica holds.
LEMMA StartSafe ==
    ASSUME QuorumsGrow, SafetyInv, [Next]_vars,
           NEW r \in Replica, Start(r)
    PROVE  SafetyInv'
<1>1. CallPropose(r, SyncInfo(r)) \in GoodCalls'
  BY StepFacts, BackedMade, SyncInfoType, SyncInfoBacked, Zenon
<1>2. calls' = <<CallPropose(r, SyncInfo(r))>> \/ calls' = <<>>
  BY Zenon DEF Start
<1>3. <<CallPropose(r, SyncInfo(r))>> \in Seq(GoodCalls') /\ <<>> \in Seq(GoodCalls')
  BY <1>1
<1>4. GoodStack'
  BY <1>2, <1>3, Zenon DEF GoodStack
<1> QED
  BY <1>4, Assembled, Kept, Zenon DEF Start

\* A timeout is signed before it is sent and handled.
LEMMA OnLocalTimeoutSafe ==
    ASSUME QuorumsGrow, SafetyInv, [Next]_vars,
           NEW r \in Replica, OnLocalTimeout(r)
    PROVE  SafetyInv'
<1>0. /\ UNCHANGED <<blockVars, highTC, highQC, currentView, timeouts, bExec, bLock, voteVars>>
      /\ currentView[r] <= MaxView
  BY Zenon DEF OnLocalTimeout
<1>1. GoodVotes' /\ GoodCerts' /\ GoodQCs' /\ ViewsEarned' /\ ReferredBlocksStored'
  BY <1>0, Kept, Zenon
<1>2. currentView[r] \in 1..MaxView /\ View \subseteq Nat /\ currentView[r] \in View
  <2>1. currentView[r] \in 1..(MaxView + 1)
    BY StepFacts, Zenon DEF TypeOK
  <2> QED
    BY <1>0, <2>1, ConstantsAssumption DEF View
<1>3. CASE lastTimeout[r].view = currentView[r]
  <2>1. /\ net' = net \cup TimeoutMsgs(r, lastTimeout[r])
        /\ UNCHANGED <<calls, lastTimeout, timeouts, timedOut>>
    BY <1>3, Zenon DEF OnLocalTimeout
  <2>2. /\ lastTimeout[r] \in Timeouts
        /\ <<r, lastTimeout[r].view>> \in timedOut'
        /\ Backed(lastTimeout[r].si)
    <3>1. lastTimeout[r] \in Timeouts
      BY StepFacts, Zenon DEF TypeOK
    <3>2. /\ lastTimeout[r].view # 0 => <<r, lastTimeout[r].view>> \in timedOut
          /\ Backed(lastTimeout[r].si)
      BY Zenon DEF SafetyInv, GoodTimeouts
    <3>3. lastTimeout[r].view # 0
      BY <1>2, <1>3
    <3> QED
      BY <2>1, <3>1, <3>2, <3>3, Zenon
  <2>3. PICK t \in Timeouts : t = lastTimeout[r]
    BY <2>2, Zenon
  <2>4. \A m \in TimeoutMsgs(r, t) : GoodMessage(m)'
    BY <2>2, <2>3, StaysBacked, GoodMade, Zenon
  <2>5. GoodNet'
    BY <2>1, <2>3, <2>4, Kept, Zenon
  <2> QED
    BY <1>1, <2>1, <2>5, Assembled, Kept, Zenon
<1>4. CASE lastTimeout[r].view # currentView[r]
  <2>1. PICK t : t = [view |-> currentView[r], si |-> SyncInfo(r)]
    BY Zenon
  <2>2. /\ lastTimeout' = [lastTimeout EXCEPT ![r] = t]
        /\ timedOut' = timedOut \cup {<<r, t.view>>}
        /\ net' = net \cup TimeoutMsgs(r, t)
        /\ calls' = OnRemoteTimeout(r, r, t)
        /\ UNCHANGED timeouts
    BY <1>4, <2>1, Zenon DEF OnLocalTimeout
  <2>3. t \in Timeouts /\ Backed(t.si)'
    <3>1. SyncInfo(r) \in SyncInfos /\ Backed(t.si)
      BY <2>1, StepFacts, SyncInfoType, SyncInfoBacked, Zenon
    <3> QED
      BY <1>2, <2>1, <3>1, StaysBacked, Zenon DEF Timeouts
  <2>4. <<r, t.view>> \in timedOut'
    BY <2>2, Zenon
  <2>5. /\ \A m \in TimeoutMsgs(r, t) : GoodMessage(m)'
        /\ OnRemoteTimeout(r, r, t) \in Seq(GoodCalls')
    BY <2>3, <2>4, GoodMade, Zenon
  <2>6. GoodNet' /\ GoodStack'
    BY <2>2, <2>5, Kept, Zenon DEF GoodStack
  <2>7. GoodTimeouts'
    <3>1. \A o \in Replica, v \in View : timeouts[o][v] \subseteq TimedOutIn(v)'
      BY <2>2, Zenon DEF SafetyInv, GoodTimeouts, TimedOutIn
    <3>2. \A o \in Replica :
            lastTimeout'[o] = lastTimeout[o] \/ (o = r /\ lastTimeout'[o] = t)
      BY <2>2, StepFacts, Zenon DEF TypeOK
    <3>3. \A o \in Replica :
            /\ lastTimeout[o].view # 0 => <<o, lastTimeout[o].view>> \in timedOut'
            /\ Backed(lastTimeout[o].si)
      BY <2>2, Zenon DEF SafetyInv, GoodTimeouts
    <3>4. \A o \in Replica : \A u : lastTimeout'[o] = u =>
            /\ u.view # 0 => <<o, u.view>> \in timedOut'
            /\ Backed(u.si)'
      BY <2>3, <2>4, <3>2, <3>3, StaysBacked, Zenon
    <3> QED
      BY <2>2, <3>1, <3>4, Zenon DEF GoodTimeouts
  <2> QED
    BY <1>1, <2>6, <2>7, Assembled, Zenon
<1> QED
  BY <1>3, <1>4, Zenon

\* A quorum of collected timeouts expires their view.
LEMMA CollectTimeoutSafe ==
    ASSUME QuorumsGrow, SafetyInv, [Next]_vars,
           CollectTimeout
    PROVE  SafetyInv'
<1>0. /\ calls # <<>> /\ calls[1].fn = "CollectTimeout"
      /\ UNCHANGED <<blockVars, net, currentView, highTC, highQC, lastTimeout,
                     bLock, bExec, voteVars, timedOut>>
  BY Zenon DEF CollectTimeout, Running
<1>1. PICK r \in Replica, id \in Replica, t \in Timeouts :
        r = calls[1].r /\ id = calls[1].id /\ t = calls[1].t
  BY <1>0, StepFacts, CallTypes, Zenon
<1>2. <<id, t.view>> \in timedOut /\ t.view \in View
  BY <1>0, <1>1, RunningGood, Zenon DEF GoodCalls, Timeouts
<1>3. PICK collected : collected = timeouts[r][t.view] \cup {id}
  BY Zenon
<1>4. collected \subseteq TimedOutIn(t.view)
  BY <1>1, <1>2, <1>3, Zenon DEF SafetyInv, GoodTimeouts, TimedOutIn
<1>5. GoodNet' /\ GoodVotes' /\ GoodCerts' /\ GoodQCs' /\ ViewsEarned' /\ ReferredBlocksStored'
  BY <1>0, Kept, Zenon
<1>6. ASSUME NEW S, S \subseteq TimedOutIn(t.view),
             timeouts' = [timeouts EXCEPT ![r][t.view] = S]
      PROVE  GoodTimeouts'
  <2>1. \A o \in Replica, v \in View : timeouts'[o][v] \subseteq TimedOutIn(v)
    <3>1. timeouts \in [Replica -> [View -> SUBSET Replica]]
      BY StepFacts, Zenon DEF TypeOK
    <3>2. \A o \in Replica, v \in View :
            timeouts'[o][v] = IF o = r /\ v = t.view THEN S ELSE timeouts[o][v]
      BY <1>6, <3>1, Zenon
    <3>3. \A o \in Replica, v \in View : timeouts[o][v] \subseteq TimedOutIn(v)
      BY Zenon DEF SafetyInv, GoodTimeouts
    <3> QED
      BY <1>6, <3>2, <3>3
  <2>2. \A o \in Replica :
          /\ lastTimeout'[o].view # 0 => <<o, lastTimeout'[o].view>> \in timedOut'
          /\ Backed(lastTimeout[o].si)'
    BY <1>0, StaysBacked, Zenon DEF SafetyInv, GoodTimeouts
  <2>3. \A v \in View : TimedOutIn(v)' = TimedOutIn(v)
    BY <1>0, Zenon DEF TimedOutIn
  <2> QED
    BY <2>1, <2>2, <2>3, Zenon DEF GoodTimeouts
<1>7. CASE ~Enough(collected)
  <2>1. timeouts' = [timeouts EXCEPT ![r][t.view] = collected] /\ Return(<<>>)
    BY <1>1, <1>3, <1>7, Zenon DEF CollectTimeout
  <2> QED
    BY <1>0, <1>4, <1>5, <1>6, <2>1, Assembled, Returned, Zenon
<1>8. CASE Enough(collected)
  <2>1. PICK si : si = [qc |-> SyncInfo(r).qc, tc |-> t.view]
    BY Zenon
  <2>2. /\ timeouts' = [timeouts EXCEPT ![r][t.view] = {}]
        /\ Return(<<CallAdvanceView(r, si)>>)
    BY <1>1, <1>3, <1>8, <2>1, Zenon DEF CollectTimeout
  <2>3. si \in SyncInfos /\ Certified(si.qc)
    <3>1. SyncInfo(r) \in SyncInfos /\ Backed(SyncInfo(r))
      BY StepFacts, SyncInfoType, SyncInfoBacked, Zenon
    <3> QED
      BY <1>2, <2>1, <3>1, Zenon DEF SyncInfos, Backed
  <2>4. Expired(si.tc)
    <3>1. /\ TimedOutIn(t.view) \in SUBSET Replica /\ collected \in SUBSET Replica
          /\ si.tc = t.view
      BY <1>4, <2>1, Zenon DEF TimedOutIn
    <3> QED
      BY <1>4, <1>8, <3>1, Zenon DEF Enough, Expired, QuorumsGrow
  <2>5. CallAdvanceView(r, si) \in GoodCalls'
    BY <2>3, <2>4, BackedMade, Zenon DEF Backed
  <2>6. GoodTimeouts'
    <3>1. PICK S : S = {}
      BY Zenon
    <3>2. /\ S \subseteq TimedOutIn(t.view)
          /\ timeouts' = [timeouts EXCEPT ![r][t.view] = S]
      BY <2>2, <3>1, Zenon
    <3> HIDE <3>1
    <3> QED
      BY <1>6, <3>2, Zenon
  <2>7. GoodStack'
    BY <1>0, <2>2, <2>5, Returned, Zenon
  <2> QED
    BY <1>5, <2>6, <2>7, Assembled, Zenon
<1> QED
  BY <1>7, <1>8, Zenon

\* The clean-up only drops timeouts.
LEMMA CleanTimeoutsSafe ==
    ASSUME QuorumsGrow, SafetyInv, [Next]_vars,
           CleanTimeouts
    PROVE  SafetyInv'
<1>0. /\ calls # <<>>
      /\ Return(<<>>)
      /\ UNCHANGED <<blockVars, net, currentView, highTC, highQC, lastTimeout,
                     bLock, bExec, voteVars, timedOut>>
  BY Zenon DEF CleanTimeouts, Running
<1>1. GoodTimeouts'
  <2>1. \A o \in Replica, v \in View : timeouts'[o][v] \subseteq timeouts[o][v]
    BY <1>0, StepFacts, CallTypes, Zenon DEF CleanTimeouts, TypeOK
  <2>2. \A o \in Replica :
          /\ \A v \in View : timeouts'[o][v] \subseteq TimedOutIn(v)'
          /\ lastTimeout'[o].view # 0 => <<o, lastTimeout'[o].view>> \in timedOut'
          /\ Backed(lastTimeout[o].si)'
    BY <1>0, <2>1, StaysBacked, Zenon DEF SafetyInv, GoodTimeouts, TimedOutIn
  <2> QED
    BY <2>2, Zenon DEF GoodTimeouts
<1> QED
  BY <1>0, <1>1, Assembled, Kept, Returned, Zenon

\* AdvanceView takes over, follows and passes on a backed certificate.
LEMMA AdvanceViewSafe ==
    ASSUME QuorumsGrow, SafetyInv, [Next]_vars,
           AdvanceView
    PROVE  SafetyInv'
<1>0. /\ calls # <<>> /\ calls[1].fn = "AdvanceView"
      /\ UNCHANGED <<blockVars, timeouts, bLock, bExec, voteVars, votes, timedOut>>
  BY Zenon DEF AdvanceView, Running
<1>1. PICK r \in Replica, si \in SyncInfos : r = calls[1].r /\ si = calls[1].si
  BY <1>0, StepFacts, CallTypes, Zenon
<1>2. Backed(si) /\ Backed(si)' /\ si.qc \in BlockId /\ si.tc \in View
  BY <1>0, <1>1, StaysBacked, RunningGood, Zenon DEF GoodCalls, SyncInfos
<1>3. PICK v : v = EndedView(si)
  BY Zenon
<1>4. TakeCertificate(r, si)
  BY <1>1, Zenon DEF AdvanceView
<1>5. \A o \in Replica :
        highQC'[o] = highQC[o] \/ (o = r /\ highQC'[o] = si.qc /\ si.qc \in stored'[r])
  <2>1. CASE UNCHANGED highQC
    BY <2>1, Zenon
  <2>2. ASSUME NEW K \in Known(r), UpdateHighQC(r, si.qc, K), Keep(r, K, {si.qc}, {})
        PROVE  \A o \in Replica :
                 highQC'[o] = highQC[o]
                   \/ (o = r /\ highQC'[o] = si.qc /\ si.qc \in stored'[r])
    <3>1. si.qc \in K => si.qc \in stored'[r]
      BY <2>2, StepFacts, KeepGrows, Zenon
    <3>2. TypeOK
      BY StepFacts, Zenon
    <3>3. ASSUME NEW o \in Replica
          PROVE  highQC'[o] = highQC[o] \/ (o = r /\ highQC'[o] = si.qc /\ si.qc \in K)
      BY <2>2, <3>2, UpdateHighQCGood, Zenon
    <3> QED
      BY <3>1, <3>3, Zenon
  <2> QED
    BY <1>4, <2>1, <2>2, Zenon DEF TakeCertificate
<1>6. \A o \in Replica : highTC'[o] \in {highTC[o], si.tc}
  BY <1>4, StepFacts, Zenon DEF TakeCertificate, Larger, TypeOK
<1>7. GoodCerts'
  <2>1. \A o \in Replica : \A b : b = highQC'[o] => Certified(b)'
    <3>1. \A o \in Replica : \A b : b = highQC'[o] => Certified(b)
      BY <1>2, <1>5, Zenon DEF SafetyInv, GoodCerts, Backed
    <3> QED
      BY <3>1, StepFacts, BackedGrows, Zenon
  <2>2. \A o \in Replica : \A w : w = highTC'[o] => Expired(w)'
    <3>1. \A o \in Replica : \A w : w = highTC'[o] => Expired(w)
      BY <1>2, <1>6, Zenon DEF SafetyInv, GoodCerts, Backed
    <3> QED
      BY <3>1, StepFacts, BackedGrows, Zenon
  <2> QED
    BY <2>1, <2>2, Zenon DEF GoodCerts
<1>8. ReferredBlocksStored'
  BY <1>0, <1>5, StepFacts, Zenon DEF SafetyInv, ReferredBlocksStored, Grows
<1>9. GoodVotes' /\ GoodQCs'
  BY <1>0, Kept, Zenon
<1>10. CASE Stale(r, si)
  <2>1. Return(<<>>) /\ UNCHANGED <<net, currentView, lastTimeout>>
    BY <1>1, <1>10, Zenon DEF AdvanceView
  <2> QED
    BY <1>0, <1>7, <1>8, <1>9, <2>1, Assembled, Kept, Returned, Zenon
<1>11. CASE ~Stale(r, si)
  <2>1. /\ currentView' = [currentView EXCEPT ![r] = v + 1]
        /\ lastTimeout' = [lastTimeout EXCEPT ![r] = NilTimeout]
        /\ \E leader \in Leader[v + 1] :
             \/ Return(<<CallPropose(r, si)>>) /\ UNCHANGED net
             \/ Return(<<>>) /\ net' = net \cup {NewViewMsg(leader, si)}
    BY <1>1, <1>3, <1>11, Zenon DEF AdvanceView
  <2>2. v \in View /\ v + 1 \in 1..(MaxView + 1) /\ (v + 1) - 1 = v
    BY <1>2, <1>3, BlockTypes, ConstantsAssumption DEF EndedView, View
  <2>3. GoodStack'
    BY <1>0, <1>2, <2>1, Returned, BackedMade, Zenon
  <2>4. GoodNet'
    <3>1. \A leader \in Leader[v + 1] : \A m : m = NewViewMsg(leader, si) => GoodMessage(m)'
      BY <1>2, <2>2, BackedMade, LeaderType, Zenon
    <3> QED
      BY <2>1, <3>1, Kept, Zenon
  <2>5. GoodTimeouts'
    <3>1. \A o \in Replica : lastTimeout'[o] \in {lastTimeout[o], NilTimeout}
      BY <2>1, StepFacts, Zenon DEF TypeOK
    <3>2. Backed(NilTimeout.si) /\ NilTimeout.view = 0
      BY Zenon DEF NilTimeout, QCInfo, Backed, Certified, Expired
    <3>3. \A o \in Replica :
            /\ \A w \in View : timeouts'[o][w] \subseteq TimedOutIn(w)'
            /\ lastTimeout[o].view # 0 => <<o, lastTimeout[o].view>> \in timedOut'
            /\ Backed(lastTimeout[o].si)
      BY <1>0, Zenon DEF SafetyInv, GoodTimeouts, TimedOutIn
    <3>4. \A o \in Replica : \A u : lastTimeout'[o] = u =>
            /\ u.view # 0 => <<o, u.view>> \in timedOut'
            /\ Backed(u.si)'
      BY <3>1, <3>2, <3>3, StaysBacked, Zenon
    <3> QED
      BY <3>3, <3>4, Zenon DEF GoodTimeouts
  <2>6. ViewsEarned'
    <3>1. Expired(v)' \/ \E b \in BlockId : BView(b) = v /\ Certified(b)'
      BY <1>2, <1>3, Zenon DEF EndedView, Backed
    <3>2. \A o \in Replica : currentView'[o] = currentView[o] \/ currentView'[o] = v + 1
      BY <2>1, StepFacts, Zenon DEF TypeOK
    <3>3. \A o \in Replica : \A w : w = currentView'[o] - 1 =>
            Expired(w)' \/ \E b \in BlockId : BView(b) = w /\ Certified(b)'
      <4> SUFFICES ASSUME NEW o \in Replica, NEW w, w = currentView'[o] - 1
                   PROVE  Expired(w)' \/ \E b \in BlockId : BView(b) = w /\ Certified(b)'
        BY Zenon
      <4>1. CASE currentView'[o] = v + 1
        <5>1. w = v
          BY <2>2, <4>1, Zenon
        <5> QED
          BY <3>1, <5>1, Zenon
      <4>2. CASE currentView'[o] = currentView[o]
        <5>1. Expired(w) \/ \E b \in BlockId : BView(b) = w /\ Certified(b)
          BY <4>2, Zenon DEF SafetyInv, ViewsEarned
        <5> QED
          BY <5>1, StepFacts, BackedGrows, Zenon
      <4> QED
        BY <3>2, <4>1, <4>2, Zenon
    <3> QED
      BY <3>3, Zenon DEF ViewsEarned
  <2> QED
    BY <1>7, <1>8, <1>9, <2>3, <2>4, <2>5, <2>6, Assembled, Zenon
<1> QED
  BY <1>10, <1>11, Zenon

-----------------------------------------------------------------------------
(* The steps of the proposers and the voters, and the theorems *)

\* A missed proposal changes nothing but the stored blocks.
LEMMA ProposeNothingSafe ==
    ASSUME QuorumsGrow, SafetyInv, [Next]_vars,
           ProposeNothing
    PROVE  SafetyInv'
BY Assembled, Kept, Returned, Zenon DEF ProposeNothing, Running

\* A proposal carries the QC of a backed certificate, or the QC of an older
\* block.
LEMMA ProposeSafe ==
    ASSUME QuorumsGrow, SafetyInv, [Next]_vars,
           ProposeBlock \/ ProposeFork
    PROVE  SafetyInv'
<1>0. /\ calls # <<>> /\ calls[1].fn = "Propose"
      /\ UNCHANGED <<syncVars, ruleVars, voteVars, logVars>>
  BY Zenon DEF ProposeBlock, ProposeFork, Running
<1>1. PICK r \in Replica, si \in SyncInfos : r = calls[1].r /\ si = calls[1].si
  BY <1>0, StepFacts, CallTypes, Zenon
<1>2. Certified(si.qc)
  BY <1>0, <1>1, RunningGood, Zenon DEF GoodCalls, Backed
<1>3. GoodVotes' /\ GoodTimeouts' /\ GoodCerts' /\ ViewsEarned' /\ ReferredBlocksStored'
  BY <1>0, Kept, Zenon
<1>4. currentView[r] <= MaxView
  BY <1>1, Zenon DEF ProposeBlock, ProposeFork
<1>5. CASE ProposeBlock
  <2>1. PICK K \in Known(r) : MakeBlock(r, K, {si.qc}, highQC[r], si.qc)
    BY <1>1, <1>5, Zenon DEF ProposeBlock
  <2> QED
    BY <1>0, <1>2, <1>3, <1>4, <2>1, Assembled, BlockMade, ZenonT(40)
<1>6. CASE ProposeFork
  <2>1. PICK K \in Known(r), parent \in {parentOf[highQC[r]]} :
          \/ /\ parent \in K
             /\ MakeBlock(r, K, {si.qc, parent}, parent, qcOf[parent])
          \/ Return(<<>>) /\ UNCHANGED <<blockVars, net>>
    BY <1>1, <1>6, Zenon DEF ProposeFork
  <2>2. CASE Return(<<>>) /\ UNCHANGED <<blockVars, net>>
    BY <1>0, <1>3, <2>2, Assembled, Kept, Returned, ZenonT(40)
  <2>3. CASE parent \in K /\ MakeBlock(r, K, {si.qc, parent}, parent, qcOf[parent])
    <3>1. parent \in Hash
      BY <2>3, StepFacts, KnownType, BlockTypes, Zenon
    <3>2. qcOf[parent] = ZeroHash \/ Certified(qcOf[parent])
      BY <3>1, Zenon DEF SafetyInv, GoodQCs
    <3> QED
      BY <1>0, <1>3, <1>4, <2>3, <3>2, Assembled, BlockMade, Zenon
  <2> QED
    BY <2>1, <2>2, <2>3, Zenon
<1> QED
  BY <1>5, <1>6, Zenon

\* An invalid proposal is dropped.
LEMMA OnProposeInvalidSafe ==
    ASSUME QuorumsGrow, SafetyInv, [Next]_vars,
           OnProposeInvalid
    PROVE  SafetyInv'
BY Assembled, Kept, Returned, Zenon DEF OnProposeInvalid, Running

\* The QC of a proposal that is not invalid is backed.
LEMMA ProposalCalls ==
    ASSUME QuorumsGrow, SafetyInv, [Next]_vars,
           calls # <<>>, calls[1].fn = "OnPropose", qcOf[calls[1].b] # ZeroHash
    PROVE  /\ calls[1].r \in Replica /\ calls[1].b \in BlockId
           /\ CallCommitRule(calls[1].r, calls[1].b) \in GoodCalls'
           /\ CallAdvanceView(calls[1].r, QCInfo(qcOf[calls[1].b])) \in GoodCalls'
<1>1. PICK r \in Replica, b \in BlockId : r = calls[1].r /\ b = calls[1].b
  BY StepFacts, CallTypes, Zenon
<1>2. qcOf[b] \in BlockId /\ Certified(qcOf[b])
  BY <1>1, QCsBacked, BlockTypes, Zenon
<1>3. QCInfo(qcOf[b]) \in SyncInfos /\ Backed(QCInfo(qcOf[b]))
  BY <1>2, BlockTypes, Zenon DEF QCInfo, SyncInfos, Backed, Expired
<1>4. CallCommitRule(r, b) \in GoodCalls'
  BY GoodMade, Zenon
<1> QED
  BY <1>1, <1>3, <1>4, BackedMade, Zenon

\* A refused proposal still advances the view, by a backed QC.
LEMMA OnProposeRefusedSafe ==
    ASSUME QuorumsGrow, SafetyInv, [Next]_vars,
           OnProposeRefused
    PROVE  SafetyInv'
<1>1. GoodStack'
  BY Returned, ProposalCalls, ZenonT(40) DEF OnProposeRefused, Running
<1> QED
  BY <1>1, Assembled, Kept, ZenonT(40) DEF OnProposeRefused

\* A vote is signed before it is sent.
LEMMA OnProposeAcceptedSafe ==
    ASSUME QuorumsGrow, SafetyInv, [Next]_vars,
           OnProposeAccepted
    PROVE  SafetyInv'
<1>0. /\ calls # <<>> /\ calls[1].fn = "OnPropose" /\ qcOf[calls[1].b] # ZeroHash
      /\ UNCHANGED <<blockVars, syncVars, bExec, bLock, voteVars>>
  BY ZenonT(40) DEF OnProposeAccepted, Running
<1>1. GoodStack'
  BY <1>0, Returned, ProposalCalls, ZenonT(40) DEF OnProposeAccepted
<1>2. PICK r \in Replica, b \in BlockId : r = calls[1].r /\ b = calls[1].b
  BY <1>0, ProposalCalls, Zenon
<1>3. GoodNet'
  <2>1. CASE UNCHANGED net
    BY <2>1, Kept, Zenon
  <2>2. CASE Vote(r, b)
    <3>1. BView(b) \in 1..(MaxView + 1) /\ <<r, b>> \in votes'
      <4>1. BView(b) > lastVote[r] /\ lastVote[r] \in View /\ BView(b) \in View
        BY <2>2, StepFacts, BlockTypes, ZenonT(40) DEF TypeOK, Vote
      <4>2. BView(b) \in 1..(MaxView + 1)
        BY <4>1, ConstantsAssumption DEF View
      <4> QED
        BY <2>2, <4>2, Zenon DEF Vote
    <3>2. PICK leader \in Leader[BView(b)] : net' = net \cup {VoteMsg(leader, r, b)}
      BY <2>2, Zenon DEF Vote
    <3>3. leader \in Replica
      BY <3>1, <3>2, LeaderType, Zenon
    <3>4. GoodMessage(VoteMsg(leader, r, b))'
      BY <3>1, <3>3, GoodMade, ZenonT(40)
    <3> QED
      BY <3>2, <3>4, Kept, Zenon
  <2> QED
    BY <1>2, <2>1, <2>2, ZenonT(40) DEF OnProposeAccepted
<1> QED
  BY <1>0, <1>1, <1>3, Assembled, Kept, ZenonT(40)

\* CommitRule raises highQC and the lock to blocks it found, by a backed QC.
LEMMA CommitRuleSafe ==
    ASSUME QuorumsGrow, SafetyInv, [Next]_vars,
           CommitRule
    PROVE  SafetyInv'
<1>0. /\ calls # <<>> /\ calls[1].fn = "CommitRule"
      /\ UNCHANGED <<blockVars, net, currentView, highTC, lastTimeout, timeouts,
                     lastVote, bExec, voteVars, logVars>>
  BY Zenon DEF CommitRule, Running
<1>1. PICK r \in Replica, b \in BlockId : r = calls[1].r /\ b = calls[1].b
  BY <1>0, StepFacts, CallTypes, ZenonT(40)
<1>2. PICK b1 \in Hash, b2 \in Hash, b3 \in Hash :
        b1 = qcOf[b] /\ b2 = qcOf[b1] /\ b3 = qcOf[b2]
  BY QCsBacked, BlockTypes, Zenon
<1>3. PICK K1 \in Known(r), K \in Known(r) :
        /\ K1 \subseteq K
        /\ UpdateHighQC(r, b1, K1) \/ UNCHANGED highQC
        /\ Keep(r, K, {b1} \cup (IF b1 \in K THEN {b2} ELSE {})
                           \cup (IF {b1, b2} \subseteq K THEN {b3} ELSE {}), {})
        /\ bLock' = IF {b1, b2} \subseteq K /\ BView(b2) > BView(bLock[r])
                    THEN [bLock EXCEPT ![r] = b2]
                    ELSE bLock
        /\ Return(IF Commits(b1, b2, b3, K) THEN <<CallCommit(r, b3)>> ELSE <<>>)
  BY <1>1, <1>2, Zenon DEF CommitRule
<1>4. /\ b1 \in K => b1 \in stored'[r]
      /\ {b1, b2} \subseteq K => b2 \in stored'[r]
      /\ {b1, b2, b3} \subseteq K => b3 \in stored'[r]
  <2>1. PICK asked : asked = {b1} \cup (IF b1 \in K THEN {b2} ELSE {})
                                 \cup (IF {b1, b2} \subseteq K THEN {b3} ELSE {})
    BY Zenon
  <2>2. asked \cap K \subseteq stored'[r]
    BY <1>3, <2>1, StepFacts, KeepGrows, ZenonT(40)
  <2> QED
    BY <2>1, <2>2, Zenon
<1>5. \A o \in Replica :
        highQC'[o] = highQC[o] \/ (o = r /\ highQC'[o] = b1 /\ b1 \in stored'[r])
  BY <1>3, <1>4, StepFacts, UpdateHighQCGood, ZenonT(40)
<1>6. \A o \in Replica :
        bLock'[o] = bLock[o] \/ (o = r /\ bLock'[o] = b2 /\ b2 \in stored'[r])
  BY <1>3, <1>4, StepFacts, ZenonT(40) DEF TypeOK
<1>7. ReferredBlocksStored'
  BY <1>0, <1>5, <1>6, StepFacts, ZenonT(40) DEF SafetyInv, ReferredBlocksStored, Grows
<1>8. GoodCerts'
  <2>1. b1 \in stored'[r] => Certified(b1)
    <3>1. b1 = ZeroHash \/ Certified(b1)
      BY <1>2, BlockTypes, Zenon DEF SafetyInv, GoodQCs
    <3>2. stored'[r] \subseteq BlockId
      BY StepFacts, Zenon DEF TypeOK
    <3> QED
      BY <3>1, <3>2, BlockTypes, Zenon
  <2>2. \A o \in Replica : \A c : c = highQC'[o] => Certified(c)
    BY <1>5, <2>1, ZenonT(40) DEF SafetyInv, GoodCerts
  <2>3. \A o \in Replica : \A c : c = highQC'[o] => Certified(c)'
    BY <2>2, StepFacts, BackedGrows, Zenon
  <2>4. \A o \in Replica : Expired(highTC[o])
    BY Zenon DEF SafetyInv, GoodCerts
  <2>5. \A o \in Replica : \A w : w = highTC'[o] => Expired(w)'
    BY <1>0, <2>4, StepFacts, BackedGrows, Zenon
  <2> QED
    BY <2>3, <2>5, Zenon DEF GoodCerts
<1>9. GoodStack'
  <2>1. CASE Commits(b1, b2, b3, K)
    <3>1. b3 \in stored'[r] /\ b3 \in BlockId
      BY <1>3, <1>4, <2>1, StepFacts, KnownType, CommitsFound, ZenonT(40)
    <3>2. CallCommit(r, b3) \in GoodCalls'
      BY <3>1, GoodMade, Zenon
    <3> QED
      BY <1>0, <1>3, <2>1, <3>2, Returned, ZenonT(40)
  <2>2. CASE ~Commits(b1, b2, b3, K)
    BY <1>0, <1>3, <2>2, Returned, ZenonT(40)
  <2> QED
    BY <2>1, <2>2, Zenon
<1> QED
  BY <1>0, <1>7, <1>8, <1>9, Assembled, Kept, ZenonT(40)

\* commit executes a stored block.
LEMMA CommitSafe ==
    ASSUME QuorumsGrow, SafetyInv, [Next]_vars,
           Commit
    PROVE  SafetyInv'
<1>0. /\ calls # <<>> /\ calls[1].fn = "commit" /\ Return(<<>>)
      /\ UNCHANGED <<blockVars, net, syncVars, lastVote, bLock, voteVars, votes, timedOut>>
  BY Zenon DEF Commit, Running
<1>1. PICK r \in Replica, b \in BlockId : r = calls[1].r /\ b = calls[1].b
  BY <1>0, StepFacts, CallTypes, ZenonT(40)
<1>2. b \in stored'[r]
  BY <1>0, <1>1, StepFacts, RunningGood, ZenonT(40) DEF GoodCalls, Grows
<1>3. PICK last : last \in {b, bExec[r]} /\ bExec' = [bExec EXCEPT ![r] = last]
  BY <1>1, Zenon DEF Commit
<1>4. \A o \in Replica : bExec'[o] = bExec[o] \/ (o = r /\ bExec'[o] = b)
  BY <1>3, StepFacts, ZenonT(40) DEF TypeOK
<1>5. ReferredBlocksStored'
  BY <1>0, <1>2, <1>4, StepFacts, Zenon DEF SafetyInv, ReferredBlocksStored, Grows
<1> QED
  BY <1>0, <1>5, Assembled, Kept, Returned, ZenonT(40)

\* OnVote hands on a signed vote.
LEMMA OnVoteSafe ==
    ASSUME QuorumsGrow, SafetyInv, [Next]_vars,
           NEW m \in net, OnVote(m)
    PROVE  SafetyInv'
<1>0. /\ m.type = "vote" /\ net' \subseteq net
      /\ UNCHANGED <<blockVars, calls, syncVars, ruleVars, chainVars, verifiedVotes, logVars>>
      /\ verifying' \subseteq verifying \cup {<<m.to, m.id, m.b>>}
  BY Zenon DEF OnVote
<1>1. GoodVotes'
  <2>1. <<m.id, m.b>> \in votes
    BY <1>0, Zenon DEF SafetyInv, GoodNet, GoodMessage
  <2> QED
    BY <1>0, <2>1, Zenon DEF SafetyInv, GoodVotes, Voters
<1> QED
  BY <1>0, <1>1, Assembled, Kept, Zenon

\* A quorum of verified votes certifies their block.
LEMMA VerifyCertSafe ==
    ASSUME QuorumsGrow, SafetyInv, [Next]_vars,
           NEW r \in Replica, NEW id \in Replica, NEW b \in BlockId, VerifyCert(r, id, b)
    PROVE  SafetyInv'
<1>0. /\ UNCHANGED <<blockVars, calls, syncVars, ruleVars, chainVars, logVars>>
      /\ verifying' \subseteq verifying
      /\ <<r, id, b>> \in verifying
  BY Zenon DEF VerifyCert
<1>1. PICK collected : collected = verifiedVotes[r][b] \cup {id}
  BY ZenonT(40)
<1>2. collected \subseteq Voters(b)
  BY <1>0, <1>1, Zenon DEF SafetyInv, GoodVotes, Voters
<1>3. GoodVotes'
  <2>1. \A o \in Replica, c \in BlockId :
          verifiedVotes'[o][c] \subseteq verifiedVotes[o][c]
            \/ (c = b /\ verifiedVotes'[o][c] = collected)
    BY <1>1, StepFacts, Zenon DEF VerifyCert, TypeOK
  <2>2. \A o \in Replica, c \in BlockId : verifiedVotes'[o][c] \subseteq Voters(c)
    <3>1. \A o \in Replica, c \in BlockId : verifiedVotes[o][c] \subseteq Voters(c)
      BY Zenon DEF SafetyInv, GoodVotes
    <3>2. ASSUME NEW o \in Replica, NEW c \in BlockId
          PROVE  verifiedVotes'[o][c] \subseteq Voters(c)
      <4>1. CASE verifiedVotes'[o][c] \subseteq verifiedVotes[o][c]
        BY <3>1, <4>1, Zenon
      <4>2. CASE c = b /\ verifiedVotes'[o][c] = collected
        BY <1>2, <4>2, Zenon
      <4> QED
        BY <2>1, <4>1, <4>2, Zenon
    <3> QED
      BY <3>2, Zenon
  <2> QED
    BY <1>0, <2>2, ZenonT(40) DEF SafetyInv, GoodVotes, Voters
<1>4. GoodNet'
  <2>1. CASE ~Enough(collected)
    BY <1>1, <2>1, Kept, ZenonT(40) DEF VerifyCert
  <2>2. CASE Enough(collected)
    <3>1. net' = net \cup {NewViewMsg(r, QCInfo(b))}
      BY <1>1, <2>2, Zenon DEF VerifyCert
    <3>2. Certified(b)
      <4>1. collected \in SUBSET Replica /\ Voters(b) \in SUBSET Replica
        BY <1>2, Zenon DEF Voters
      <4> QED
        BY <1>2, <2>2, <4>1, Zenon DEF Enough, Certified, QuorumsGrow
    <3>3. QCInfo(b) \in SyncInfos /\ Backed(QCInfo(b))
      BY <3>2, BlockTypes, Zenon DEF QCInfo, SyncInfos, Backed, Expired
    <3> QED
      BY <3>1, <3>3, Kept, BackedMade, Zenon
  <2> QED
    BY <2>1, <2>2, Zenon
<1> QED
  BY <1>0, <1>3, <1>4, Assembled, Kept, Zenon

\* The handlers start from what the message brought.
LEMMA ReceiveSafe ==
    ASSUME QuorumsGrow, SafetyInv, [Next]_vars,
           NEW m \in net, Receive(m)
    PROVE  SafetyInv'
<1>0. /\ net' \subseteq net
      /\ UNCHANGED <<blockVars, syncVars, ruleVars, chainVars, voteVars, logVars>>
  BY Zenon DEF Receive
<1>1. m.to \in Replica /\ GoodMessage(m)
  BY StepFacts, MessageTypes, ZenonT(40) DEF SafetyInv, GoodNet
<1>2. CASE m.type = "propose" /\ calls' = <<CallOnPropose(m.to, m.b)>>
  <2>1. CallOnPropose(m.to, m.b) \in GoodCalls'
    BY <1>1, <1>2, StepFacts, GoodMade, MessageTypes, Zenon
  <2>2. GoodStack'
    BY <1>2, <2>1, SMTT(30) DEF GoodStack
  <2> QED
    BY <1>0, <2>2, Assembled, Kept, Zenon
<1>3. CASE m.type = "newview" /\ calls' = <<CallAdvanceView(m.to, m.si)>>
  <2>1. CallAdvanceView(m.to, m.si) \in GoodCalls'
    BY <1>1, <1>3, StepFacts, BackedMade, MessageTypes, Zenon DEF GoodMessage
  <2>2. GoodStack'
    BY <1>3, <2>1, SMTT(30) DEF GoodStack
  <2> QED
    BY <1>0, <2>2, Assembled, Kept, Zenon
<1>4. CASE m.type = "timeout" /\ calls' = OnRemoteTimeout(m.to, m.id, m.t)
  <2>1. PICK to \in Replica, id \in Replica, t \in Timeouts :
          to = m.to /\ id = m.id /\ t = m.t
    BY <1>1, <1>4, StepFacts, MessageTypes, Zenon
  <2>2. <<id, t.view>> \in timedOut' /\ Backed(t.si)'
    BY <1>0, <1>1, <1>4, <2>1, StaysBacked, Zenon DEF GoodMessage
  <2>3. OnRemoteTimeout(to, id, t) \in Seq(GoodCalls')
    BY <2>2, GoodMade, Zenon
  <2>4. GoodStack'
    BY <1>4, <2>1, <2>3, Zenon DEF GoodStack
  <2> QED
    BY <1>0, <2>4, Assembled, Kept, Zenon
<1> QED
  BY <1>2, <1>3, <1>4, Zenon DEF Receive

\* Every step preserves the invariant.
LEMMA SafetyStep ==
    ASSUME QuorumsGrow, SafetyInv, [Next]_vars
    PROVE  SafetyInv'
<1>1. CASE UNCHANGED vars
  BY <1>1, Kept, Assembled, ZenonT(40) DEF vars
<1> QED
  BY <1>1, StartSafe, OnLocalTimeoutSafe, CollectTimeoutSafe, CleanTimeoutsSafe,
     AdvanceViewSafe, ProposeNothingSafe, ProposeSafe, OnProposeInvalidSafe,
     OnProposeRefusedSafe, OnProposeAcceptedSafe, CommitRuleSafe, CommitSafe,
     OnVoteSafe, VerifyCertSafe, ReceiveSafe, ZenonT(40) DEF Next, RunCall

-----------------------------------------------------------------------------
(***************************************************************************)
(* HotStuff implements Voting: every step of a handler is a vote, a        *)
(* timeout, the entering of a view, or changes nothing there.              *)
(***************************************************************************)

\* Only AdvanceView changes the view of a replica, and it signs nothing.
LEMMA ViewSteps ==
    ASSUME TypeOK, [Next]_vars
    PROVE  \/ UNCHANGED currentView
           \/ /\ UNCHANGED <<votes, timedOut>>
              /\ \E r \in Replica, v \in 1..(MaxView + 1) :
                   v > currentView[r] /\ currentView' = [currentView EXCEPT ![r] = v]
<1> DEFINE Goal ==
      \/ UNCHANGED currentView
      \/ /\ UNCHANGED <<votes, timedOut>>
         /\ \E r \in Replica, v \in 1..(MaxView + 1) :
              v > currentView[r] /\ currentView' = [currentView EXCEPT ![r] = v]
<1>1. CASE AdvanceView
  <2>1. PICK r \in Replica, si \in SyncInfos : r = calls[1].r /\ si = calls[1].si
    BY <1>1, CallTypes, ZenonT(40) DEF AdvanceView, Running
  <2>2. /\ UNCHANGED <<votes, timedOut>>
        /\ \/ UNCHANGED currentView
           \/ /\ ~(EndedView(si) < currentView[r])
              /\ currentView' = [currentView EXCEPT ![r] = EndedView(si) + 1]
    BY <1>1, <2>1, ZenonT(40) DEF AdvanceView, Stale, Outdated
  <2>3. EndedView(si) \in 0..MaxView /\ currentView[r] \in Nat
    <3>1. EndedView(si) \in View
      BY BlockTypes, Zenon DEF EndedView, SyncInfos
    <3>2. currentView \in [Replica -> 1..(MaxView + 1)]
      BY Zenon DEF TypeOK
    <3>3. currentView[r] \in Nat
      BY <3>2, ConstantsAssumption
    <3> QED
      BY <3>1, <3>3, Zenon DEF View
  <2>4. EndedView(si) + 1 \in 1..(MaxView + 1)
    BY <2>3, ConstantsAssumption
  <2>5. ~(EndedView(si) < currentView[r]) => EndedView(si) + 1 > currentView[r]
    BY <2>3
  <2> QED
    BY <2>2, <2>4, <2>5, Zenon
<1>2. ASSUME NEW r \in Replica, Start(r) \/ OnLocalTimeout(r) PROVE Goal
  BY <1>2, Zenon DEF Start, OnLocalTimeout
<1>3. ASSUME NEW m \in net, OnVote(m) \/ Receive(m) PROVE Goal
  BY <1>3, Zenon DEF OnVote, Receive
<1>4. ASSUME NEW r \in Replica, NEW id \in Replica, NEW b \in BlockId, VerifyCert(r, id, b)
      PROVE  Goal
  BY <1>4, Zenon DEF VerifyCert
<1>5. CASE CollectTimeout \/ CleanTimeouts \/ ProposeNothing \/ ProposeBlock \/ ProposeFork
  BY <1>5, Zenon DEF CollectTimeout, CleanTimeouts, ProposeNothing, ProposeBlock, ProposeFork
<1>6. CASE OnProposeInvalid \/ OnProposeRefused \/ OnProposeAccepted
  BY <1>6, Zenon DEF OnProposeInvalid, OnProposeRefused, OnProposeAccepted
<1>7. CASE CommitRule \/ Commit
  BY <1>7, Zenon DEF CommitRule, Commit
<1>8. CASE UNCHANGED vars
  BY <1>8, Zenon DEF vars
<1> QED
  BY <1>1, <1>2, <1>3, <1>4, <1>5, <1>6, <1>7, <1>8, ZenonT(30) DEF Next, RunCall

\* A view that a certificate can end has ended in Voting.
LEMMA EndedViews ==
    ASSUME NEW v,
           Expired(v) \/ \E b \in BlockId : BView(b) = v /\ Certified(b)
    PROVE  Abstract!Ended(v)
<1>1. CASE Expired(v)
  <2>1. CASE v = 0
    BY <2>1, Zenon DEF Abstract!Ended
  <2>2. CASE TimedOutIn(v) \in Quorums
    BY <2>2, Zenon DEF TimedOutIn, Abstract!Ended
  <2> QED
    BY <1>1, <2>1, <2>2, Zenon DEF Expired, TimedOutIn, Quorums
<1>2. ASSUME NEW b \in BlockId, BView(b) = v, Certified(b) PROVE Abstract!Ended(v)
  <2>1. CASE b = Genesis
    BY <1>2, <2>1, Zenon DEF BView, Genesis, Abstract!Ended
  <2>2. CASE b # Genesis
    <3>1. Voters(b) \in Quorums
      BY <1>2, <2>2, Zenon DEF Certified, Voters, Quorums
    <3> QED
      BY <1>2, <2>2, <3>1, Zenon DEF BView, Voters, Abstract!Ended, Abstract!BlockView
  <2> QED
    BY <2>1, <2>2, Zenon
<1> QED
  BY <1>1, <1>2, Zenon

\* Every step of HotStuff is a step of Voting or changes none of its variables.
LEMMA StepImplements ==
    ASSUME SafetyInv, SafetyInv', [Next]_vars
    PROVE  [Abstract!Step]_Abstract!abstractVars
<1>0. TypeOK /\ TypeOK' /\ SignaturesBounded /\ ViewsEarned'
  BY Zenon DEF SafetyInv
<1>1. CASE UNCHANGED <<currentView, votes, timedOut>>
  BY <1>1, Zenon DEF Abstract!abstractVars
<1>2. ASSUME NEW r \in Replica, NEW v \in 1..(MaxView + 1),
             v > currentView[r], currentView' = [currentView EXCEPT ![r] = v],
             UNCHANGED <<votes, timedOut>>
      PROVE  Abstract!Step
  <2>1. currentView'[r] = v
    BY <1>0, <1>2, Zenon DEF TypeOK
  <2>2. Expired(v - 1) \/ \E b \in BlockId : BView(b) = v - 1 /\ Certified(b)
    BY <1>0, <1>2, <2>1, SMTT(30) DEF ViewsEarned, Expired, Certified, TimedOutIn, Voters
  <2>3. Abstract!Ended(v - 1)
    BY <2>2, EndedViews, Zenon
  <2>4. Abstract!Enter(r, v)
    BY <1>2, <2>3, Zenon DEF Abstract!Enter
  <2> QED
    BY <2>4, Zenon DEF Abstract!Step
<1>3. ASSUME NEW r \in Replica, NEW b \in BlockId, BView(b) > lastVote[r],
             votes' = votes \cup {<<r, b>>}, UNCHANGED <<timedOut, currentView>>
      PROVE  Abstract!Step
  <2>1. lastVote[r] \in Nat /\ BView(b) \in Nat /\ (\A c \in BlockId : BView(c) \in Nat)
    BY <1>0, BlockTypes, ConstantsAssumption, ZenonT(40) DEF TypeOK, View
  <2>2. \A c \in BlockId : <<r, c>> \in votes => BView(c) < BView(b)
    BY <1>0, <1>3, <2>1, SMTT(30) DEF SignaturesBounded
  <2>3. \A v \in 1..(MaxView + 1) : <<r, v>> \in timedOut => v < BView(b)
    <3>1. SUFFICES ASSUME NEW v \in 1..(MaxView + 1), <<r, v>> \in timedOut
                   PROVE  v < BView(b)
      BY Zenon
    <3>2. v \in View
      BY <1>0, <3>1, SMTT(30) DEF TypeOK
    <3>3. v <= lastVote[r]
      BY <1>0, <3>1, <3>2, Zenon DEF SignaturesBounded
    <3> QED
      BY <1>3, <2>1, <3>3, SMTT(30)
  <2>4. Abstract!SignVote(r, b)
    BY <1>3, <2>2, <2>3, Zenon DEF BView, Abstract!SignVote, Abstract!BlockView
  <2> QED
    BY <2>4, Zenon DEF Abstract!Step
<1>4. ASSUME NEW r \in Replica, timedOut' = timedOut \cup {<<r, currentView[r]>>},
             UNCHANGED <<votes, currentView>>
      PROVE  Abstract!Step
  BY <1>4, Zenon DEF Abstract!Step, Abstract!SignTimeout
<1> QED
  BY <1>0, <1>1, <1>2, <1>3, <1>4, ViewSteps, SigningSteps, Zenon

-----------------------------------------------------------------------------
(* What follows from the invariants *)

\* Two quorums have more members together than there are replicas, and what is
\* larger than a quorum is one.
LEMMA QuorumNumbers ==
    ASSUME N \in Nat, N # 0, NEW x \in Nat, NEW y \in Nat, x >= QuorumSize
    PROVE  (y >= QuorumSize => x + y > N) /\ (y >= x => y >= QuorumSize)
BY DEF QuorumSize, NumFaulty

\* Any two quorums of replicas have a member in common, see QuorumsMeet.
QuorumsShare ==
    \A S, T \in SUBSET Replica :
        Cardinality(S) >= QuorumSize /\ Cardinality(T) >= QuorumSize => S \cap T # {}

\* A replica in two quorums voted once in the view.
LEMMA OneCertified ==
    ASSUME QuorumsShare, TypeOK, SignaturesBounded
    PROVE  OneQCPerView
<1> SUFFICES ASSUME NEW b \in BlockId, NEW c \in BlockId,
                    Certified(b), Certified(c), BView(b) = BView(c)
             PROVE  b = c
  BY Zenon DEF OneQCPerView
<1>1. ASSUME NEW d \in BlockId, BView(d) = 0 PROVE d = Genesis
  BY <1>1 DEF BlockId, BView, Genesis
<1>2. CASE b = Genesis \/ c = Genesis
  BY <1>1, <1>2, BlockTypes
<1>3. CASE b # Genesis /\ c # Genesis
  <2>1. Voters(b) \cap Voters(c) # {}
    BY <1>3, Zenon DEF QuorumsShare, Certified, Voters
  <2> QED
    BY <2>1, Zenon DEF SignaturesBounded, Voters
<1> QED
  BY <1>2, <1>3, Zenon

\* The certificates of SafetyInv are those of CertificatesBacked.
LEMMA SafetyBacked ==
    ASSUME SafetyInv
    PROVE  CertificatesBacked
<1>1. /\ \A r \in Replica : /\ Certified(highQC[r]) /\ Expired(highTC[r])
                            /\ Backed(lastTimeout[r].si)
      /\ \A m \in net : GoodMessage(m)
  BY ZenonT(40) DEF SafetyInv, GoodTimeouts, GoodCerts, GoodNet
<1>2. \A b \in blocks : qcOf[b] = ZeroHash \/ Certified(qcOf[b])
  BY BlockTypes, SMTT(30) DEF SafetyInv, GoodQCs, TypeOK
<1> QED
  BY <1>1, <1>2, Zenon DEF CertificatesBacked, GoodMessage

-----------------------------------------------------------------------------
(***************************************************************************)
(* Commits.  commitInner executes the path from a block down to the last   *)
(* executed one.  PruneToHeight finds the same blocks by a walk over       *)
(* blockAtHeight, and gives the others to the ForkHandler.  First the two  *)
(* walks, then the invariant that makes them agree.                        *)
(***************************************************************************)

\* Every non-empty set of numbers has a least one, see LeastNumbersHold.
LeastNumbers ==
    \A S \in SUBSET Nat : S # {} => \E n \in S : \A m \in S : n <= m

\* The walks over parents: f[x] is x, if it is in B, and f of the next one as
\* long as x is in G.
WalkOf(f, D, B, G, n) ==
    f = [x \in D |-> IF x \in B THEN {x} \cup (IF x \in G THEN f[n[x]] ELSE {}) ELSE {}]

\* Such an f exists, however the links go: f[x] is the least set that has x
\* and is closed under the links.
LEMMA WalkExists ==
    ASSUME NEW D, NEW B \in SUBSET D, NEW G \in SUBSET B, NEW n,
           \A x \in G : n[x] \in D
    PROVE  \E f : WalkOf(f, D, B, G, n)
<1> DEFINE Closed(S) == \A y \in S : y \in G /\ n[y] \in B => n[y] \in S
           From(x) == {d \in D : \A S \in SUBSET D :
                           Closed(S) /\ (x \in B => x \in S) => d \in S}
           f == [x \in D |-> From(x)]
<1>1. ASSUME NEW x \in D, x \notin B PROVE From(x) = {}
  <2>1. {} \in SUBSET D /\ Closed({})
    BY Zenon
  <2> QED
    BY <1>1, <2>1, Zenon
<1>2. ASSUME NEW x \in D, x \in B PROVE x \in From(x)
  BY <1>2, Zenon
<1>3. ASSUME NEW x \in D, x \in B, x \in G PROVE From(n[x]) \subseteq From(x)
  <2>1. SUFFICES ASSUME NEW d \in From(n[x]), NEW S \in SUBSET D, Closed(S), x \in S
                 PROVE  d \in S
    BY <1>3, Zenon
  <2>2. n[x] \in B => n[x] \in S
    BY <1>3, <2>1, Zenon
  <2> QED
    BY <2>1, <2>2, Zenon
<1>4. ASSUME NEW x \in D, x \in B, x \in G PROVE From(x) \subseteq {x} \cup From(n[x])
  <2> DEFINE S == {x} \cup From(n[x])
  <2>1. n[x] \in D /\ S \in SUBSET D
    BY <1>3, <1>4, Zenon
  <2>2. Closed(S)
    <3>1. SUFFICES ASSUME NEW y \in S, y \in G, n[y] \in B PROVE n[y] \in S
      BY Zenon
    <3>2. CASE y = x
      BY <1>2, <1>4, <2>1, <3>1, <3>2, Zenon
    <3>3. CASE y \in From(n[x])
      <4>1. SUFFICES ASSUME NEW U \in SUBSET D, Closed(U), n[x] \in B => n[x] \in U
                     PROVE  n[y] \in U
        BY <3>1, Zenon
      <4>2. y \in U
        BY <3>3, <4>1, Zenon
      <4> QED
        BY <3>1, <4>1, <4>2, Zenon
    <3> QED
      BY <3>1, <3>2, <3>3, Zenon
  <2>3. x \in S
    BY Zenon
  <2> HIDE DEF S
  <2> QED
    BY <2>1, <2>2, <2>3, Zenon DEF S
<1>5. ASSUME NEW x \in D, x \in B, x \notin G PROVE From(x) \subseteq {x}
  <2>1. {x} \in SUBSET D /\ Closed({x}) /\ x \in {x}
    BY <1>5, Zenon
  <2> QED
    BY <2>1, Zenon
<1> HIDE DEF From
<1>6. \A x \in D : f[x] = IF x \in B THEN {x} \cup (IF x \in G THEN f[n[x]] ELSE {}) ELSE {}
  <2>1. \A x \in D : f[x] = From(x)
    BY Zenon
  <2>2. \A x \in D : x \in G => n[x] \in D /\ x \in B
    BY Zenon
  <2> HIDE DEF f
  <2> SUFFICES ASSUME NEW x \in D
               PROVE f[x] = IF x \in B THEN {x} \cup (IF x \in G THEN f[n[x]] ELSE {}) ELSE {}
    BY Zenon
  <2>3. CASE x \notin B
    BY <1>1, <2>1, <2>3, Zenon
  <2>4. CASE x \in G
    <3>1. f[x] = From(x) /\ f[n[x]] = From(n[x]) /\ x \in B
      BY <2>1, <2>2, <2>4, Zenon
    <3>2. From(x) = {x} \cup From(n[x])
      <4>1. x \in From(x) /\ From(n[x]) \subseteq From(x) /\ From(x) \subseteq {x} \cup From(n[x])
        BY <1>2, <1>3, <1>4, <2>4, <3>1, Zenon
      <4> QED
        BY <4>1, SMT
    <3> QED
      BY <2>4, <3>1, <3>2, Zenon
  <2>5. CASE x \in B /\ x \notin G
    <3>1. From(x) = {x}
      BY <1>2, <1>5, <2>5, SMT
    <3>2. {x} \cup {} = {x}
      BY SMT
    <3> QED
      BY <2>1, <2>5, <3>1, <3>2, Zenon
  <2> QED
    BY <2>3, <2>4, <2>5, Zenon
<1>7. f = [x \in D |-> f[x]]
  BY Zenon
<1> QED
  BY <1>6, <1>7, Zenon DEF WalkOf

\* The walk of commitInner down to view e, that of PruneToHeight, and the index
\* of the blocks by their views.
IsPath(path, K, e) ==
    \A c \in BlockId : path[c] =
        IF BView(c) <= e THEN {}
        ELSE {c} \cup (IF parentOf[c] \in K THEN path[parentOf[c]] ELSE {})

IsWalk(walk, at, K, pruned) ==
    \A v \in View : walk[v] =
        {v} \cup (IF /\ v >= pruned
                     /\ at[v] # ZeroHash
                     /\ parentOf[at[v]] \in K
                     /\ BView(parentOf[at[v]]) >= pruned
                  THEN walk[BView(parentOf[at[v]])]
                  ELSE {})

IsIndex(at, S) ==
    \A v \in View : at[v] = ZeroHash \/ (at[v] \in S /\ BView(at[v]) = v)

\* The walk of commitInner.
LEMMA ExecutedPath ==
    ASSUME NEW r, NEW b \in BlockId, NEW K \in SUBSET BlockId
    PROVE  \E path :
             /\ ToExecute(r, b, K) = path[b] \cap K
             /\ IsPath(path, K, BView(bExec[r]))
<1> DEFINE B == {c \in BlockId : ~ (BView(c) <= BView(bExec[r]))}
           G == {c \in B : parentOf[c] \in K}
           Eq(f) == f = [c \in BlockId |->
              IF BView(c) <= BView(bExec[r]) THEN {}
              ELSE {c} \cup (IF parentOf[c] \in K THEN f[parentOf[c]] ELSE {})]
           path == CHOOSE f : Eq(f)
<1>1. ToExecute(r, b, K) = path[b] \cap K
  BY Zenon DEF ToExecute
<1>2. PICK f : WalkOf(f, BlockId, B, G, parentOf)
  <2>1. B \in SUBSET BlockId /\ G \in SUBSET B /\ \A x \in G : parentOf[x] \in BlockId
    BY Zenon
  <2> HIDE DEF B, G
  <2> QED
    BY <2>1, WalkExists, Zenon
<1>3. f = [x \in BlockId |-> IF x \in B
                              THEN {x} \cup (IF x \in G THEN f[parentOf[x]] ELSE {})
                              ELSE {}]
  BY <1>2, Zenon DEF WalkOf
<1>4. Eq(f)
  <2>1. \A x \in BlockId : f[x] = IF BView(x) <= BView(bExec[r]) THEN {}
              ELSE {x} \cup (IF parentOf[x] \in K THEN f[parentOf[x]] ELSE {})
    <3>1. SUFFICES ASSUME NEW x \in BlockId
                   PROVE f[x] = IF BView(x) <= BView(bExec[r]) THEN {}
              ELSE {x} \cup (IF parentOf[x] \in K THEN f[parentOf[x]] ELSE {})
      BY Zenon
    <3>2. f[x] = IF x \in B THEN {x} \cup (IF x \in G THEN f[parentOf[x]] ELSE {}) ELSE {}
      BY <1>3, Zenon
    <3>3. /\ x \in B <=> ~ (BView(x) <= BView(bExec[r]))
          /\ x \in G <=> x \in B /\ parentOf[x] \in K
      BY Zenon
    <3> HIDE DEF B, G
    <3> QED
      BY <3>2, <3>3, Zenon
  <2>2. f = [x \in BlockId |-> f[x]]
    BY <1>3, Zenon
  <2> QED
    BY <2>1, <2>2, Zenon
<1>5. Eq(path)
  BY <1>4, Zenon
<1> HIDE DEF path
<1> QED
  BY <1>1, <1>5, Zenon DEF IsPath

\* The walk of PruneToHeight.
LEMMA PrunedWalk ==
    ASSUME NEW h \in View, NEW at, NEW K \in SUBSET BlockId, NEW pruned
    PROVE  \E walk :
             /\ CommittedViews(h, at, K, pruned) = walk[h]
             /\ IsWalk(walk, at, K, pruned)
<1> DEFINE On(v) == /\ v >= pruned
                    /\ at[v] # ZeroHash
                    /\ parentOf[at[v]] \in K
                    /\ BView(parentOf[at[v]]) >= pruned
           G == {v \in View : On(v)}
           n == [v \in View |-> BView(parentOf[at[v]])]
           Eq(f) == f = [v \in View |->
              {v} \cup (IF On(v) THEN f[BView(parentOf[at[v]])] ELSE {})]
           walk == CHOOSE f : Eq(f)
<1>1. CommittedViews(h, at, K, pruned) = walk[h]
  BY Zenon DEF CommittedViews
<1>2. PICK f : WalkOf(f, View, View, G, n)
  <2>1. G \in SUBSET View /\ View \in SUBSET View /\ \A x \in G : n[x] \in View
    BY BlockTypes, Zenon
  <2> HIDE DEF G, n
  <2> QED
    BY <2>1, WalkExists, Zenon
<1>3. f = [x \in View |-> IF x \in View
                          THEN {x} \cup (IF x \in G THEN f[n[x]] ELSE {})
                          ELSE {}]
  BY <1>2, Zenon DEF WalkOf
<1>4. Eq(f)
  <2>1. \A x \in View : f[x] = {x} \cup (IF On(x) THEN f[BView(parentOf[at[x]])] ELSE {})
    <3>1. SUFFICES ASSUME NEW x \in View
                   PROVE f[x] = {x} \cup (IF On(x) THEN f[BView(parentOf[at[x]])] ELSE {})
      BY Zenon
    <3>2. f[x] = {x} \cup (IF x \in G THEN f[n[x]] ELSE {})
      BY <1>3, Zenon
    <3>3. (x \in G <=> On(x)) /\ n[x] = BView(parentOf[at[x]])
      BY Zenon
    <3> HIDE DEF On, G, n
    <3> QED
      BY <3>2, <3>3, Zenon
  <2>2. f = [x \in View |-> f[x]]
    BY <1>3, Zenon
  <2> QED
    BY <2>1, <2>2, Zenon
<1>5. Eq(walk)
  BY <1>4, Zenon
<1> HIDE DEF walk
<1> QED
  BY <1>1, <1>5, Zenon DEF IsWalk

\* The order of numbers.
LEMMA Order ==
    ASSUME NEW k \in Nat, NEW m \in Nat, NEW n \in Nat
    PROVE  /\ m < n => ~ (n <= m)
           /\ ~ (m <= n) => n < m
           /\ m <= m
           /\ k <= m /\ m < n => k <= n /\ k < n
           /\ k < m /\ m <= n => k < n
           /\ k <= m /\ m <= n => k <= n
           /\ n >= m <=> m <= n
           /\ m < n => m <= n /\ m # n
  OBVIOUS

\* A block is newer than its parent.
ParentsOlder ==
    \A c \in BlockId : parentOf[c] = ZeroHash \/ BView(parentOf[c]) < BView(c)

\* A path has known blocks newer than view e, with a block its parent, and but
\* for the first only parents.
OnPath(path, K, e) ==
    \A z \in BlockId : \A x \in path[z] :
        /\ x \in BlockId
        /\ x = z \/ (x \in K /\ \E y \in path[z] : x = parentOf[y])
        /\ e < BView(x) /\ BView(x) <= BView(z)
        /\ parentOf[x] \in K /\ ~ (BView(parentOf[x]) <= e) => parentOf[x] \in path[z]

\* So it is for the walk of commitInner.
LEMMA PathFacts ==
    ASSUME LeastNumbers, ParentsOlder, NEW K \in SUBSET BlockId, NEW e \in Nat, NEW path,
           IsPath(path, K, e)
    PROVE  OnPath(path, K, e)
<1> USE DEF IsPath, OnPath
<1> DEFINE Good(z, x) ==
             /\ x \in BlockId
             /\ x = z \/ (x \in K /\ \E y \in path[z] : x = parentOf[y])
             /\ e < BView(x) /\ BView(x) <= BView(z)
             /\ parentOf[x] \in K /\ ~ (BView(parentOf[x]) <= e) => parentOf[x] \in path[z]
           Bad == {n \in Nat : \E z \in BlockId : BView(z) = n /\ \E x \in path[z] : ~ Good(z, x)}
<1>0. \A c \in BlockId : BView(c) \in Nat
  BY BlockTypes, Zenon
<1>1. SUFFICES ASSUME Bad # {} PROVE FALSE
  BY <1>0, Zenon
<1>2. PICK n \in Bad : \A m \in Bad : n <= m
  BY <1>1, Zenon DEF LeastNumbers
<1>n. n \in Nat
  BY <1>2, Zenon
<1>3. PICK z \in BlockId : BView(z) = n /\ \E x \in path[z] : ~ Good(z, x)
  BY <1>2, Zenon
<1>4. PICK x \in path[z] : ~ Good(z, x)
  BY <1>3, Zenon
<1>5. ~ (BView(z) <= e)
  BY <1>4, Zenon
<1>6. path[z] = {z} \cup (IF parentOf[z] \in K THEN path[parentOf[z]] ELSE {})
  BY <1>5, Zenon
<1>7. CASE x = z
  <2>1. parentOf[x] \in K /\ ~ (BView(parentOf[x]) <= e) => parentOf[x] \in path[z]
    <3>1. SUFFICES ASSUME parentOf[z] \in K, ~ (BView(parentOf[z]) <= e)
                   PROVE parentOf[z] \in path[z]
      BY <1>7, Zenon
    <3>2. parentOf[z] \in path[parentOf[z]]
      <4>1. PICK p : p = parentOf[z]
        BY Zenon
      <4>2. p \in BlockId /\ ~ (BView(p) <= e)
        BY <3>1, <4>1, Zenon
      <4>3. path[p] = {p} \cup (IF parentOf[p] \in K THEN path[parentOf[p]] ELSE {})
        BY <4>2, Zenon
      <4> QED
        BY <4>1, <4>3, Zenon
    <3> QED
      BY <1>6, <3>1, <3>2, Zenon
  <2>2. e < BView(x) /\ BView(x) <= BView(z)
    BY <1>0, <1>5, <1>7, Order, Zenon
  <2> QED
    BY <1>4, <1>7, <2>1, <2>2, Zenon
<1>8. CASE parentOf[z] \in K /\ x \in path[parentOf[z]]
  <2> DEFINE p == parentOf[z]
  <2>1. p \in BlockId /\ BView(p) < BView(z) /\ BView(p) \in Nat
    BY <1>0, <1>8, BlockTypes, Zenon DEF ParentsOlder
  <2>2. Good(p, x)
    <3>1. BView(p) \notin Bad
      <4> HIDE DEF Bad, p
      <4> QED
        BY <1>2, <1>n, <1>3, <2>1, Order, Zenon
    <3> HIDE DEF Good
    <3> QED
      BY <1>8, <2>1, <3>1, Zenon
  <2>3. BView(x) <= BView(z)
    <3>1. x \in BlockId /\ BView(x) <= BView(p)
      BY <2>2, Zenon
    <3> HIDE DEF p
    <3> QED
      BY <1>0, <2>1, <3>1, Order, Zenon
  <2> QED
    BY <1>4, <1>6, <1>8, <2>2, <2>3, Zenon
<1> QED
  BY <1>4, <1>6, <1>7, <1>8, Zenon

\* The walk of PruneToHeight only goes down.
LEMMA WalkDown ==
    ASSUME LeastNumbers, ParentsOlder, NEW K \in SUBSET BlockId, NEW pruned \in Nat, NEW walk,
           NEW at, IsIndex(at, BlockId),
           IsWalk(walk, at, K, pruned)
    PROVE  \A v \in View : \A u \in walk[v] : u \in Nat /\ u <= v
<1> USE DEF IsWalk, IsIndex
<1> DEFINE Bad == {n \in Nat : n \in View /\ \E u \in walk[n] : ~ (u \in Nat /\ u <= n)}
<1>0. View \subseteq Nat /\ \A c \in BlockId : BView(c) \in View
  BY BlockTypes, Zenon
<1>1. SUFFICES ASSUME Bad # {} PROVE FALSE
  BY <1>0, Zenon
<1>2. PICK n \in Bad : \A m \in Bad : n <= m
  BY <1>1, Zenon DEF LeastNumbers
<1>3. PICK u \in walk[n] : ~ (u \in Nat /\ u <= n)
  BY <1>2, Zenon
<1>4. n \in Nat /\ n \in View /\ u # n
  BY <1>2, <1>3, Order, Zenon
<1>5. PICK p : p = parentOf[at[n]]
  BY Zenon
<1>6. at[n] # ZeroHash /\ p \in K /\ u \in walk[BView(p)]
  BY <1>3, <1>4, <1>5, Zenon
<1>7. p \in BlockId /\ BView(p) \in View /\ BView(p) \in Nat /\ BView(p) < n
  <2>1. at[n] \in BlockId /\ BView(at[n]) = n /\ p \in BlockId /\ p # ZeroHash
    BY <1>4, <1>6, BlockTypes, Zenon
  <2>2. BView(p) < BView(at[n])
    BY <1>5, <2>1, Zenon DEF ParentsOlder
  <2> QED
    BY <1>0, <2>1, <2>2, Zenon
<1>8. BView(p) \notin Bad
  <2> HIDE DEF Bad
  <2> QED
    BY <1>2, <1>4, <1>7, Order, Zenon
<1>9. u \in Nat /\ u <= BView(p)
  BY <1>0, <1>6, <1>7, <1>8, Zenon
<1> QED
  BY <1>3, <1>4, <1>7, <1>9, Order, Zenon

\* The walk over views that starts with a block of the path from b has the
\* views of the blocks of P on its path.
WalkAgrees(path, walk, b, P) ==
    \A x \in path[b] : \A c \in P : c \in path[x] <=> BView(c) \in walk[BView(x)]

\* PruneToHeight finds the executed branch again: among blocks P newer than
\* view e that blockAtHeight holds, one a view, the walk over the views goes by
\* those on the path.
LEMMA WalksAgree ==
    ASSUME LeastNumbers, ParentsOlder, NEW K \in SUBSET BlockId, NEW K2 \in SUBSET K,
           NEW e \in Nat, NEW pruned \in Nat, pruned <= e, NEW path, NEW walk, NEW at,
           NEW b \in BlockId, NEW P \in SUBSET BlockId,
           IsPath(path, K, e),
           IsIndex(at, BlockId),
           IsWalk(walk, at, K2, pruned),
           \A x \in path[b] : parentOf[x] \in K => parentOf[x] \in K2,
           path[b] \subseteq P,
           \A c \in P : e < BView(c) /\ at[BView(c)] = c
    PROVE  WalkAgrees(path, walk, b, P)
<1> DEFINE Agree(x) == \A c \in P : c \in path[x] <=> BView(c) \in walk[BView(x)]
           Bad == {n \in Nat : \E x \in path[b] : BView(x) = n /\ ~ Agree(x)}
<1>0. /\ View \subseteq Nat
      /\ \A c \in BlockId : BView(c) \in View /\ BView(c) \in Nat /\ c # ZeroHash
      /\ K2 \in SUBSET BlockId
  BY BlockTypes, Zenon
<1>1. SUFFICES ASSUME Bad # {} PROVE FALSE
  BY <1>0, Zenon DEF WalkAgrees
<1>2. PICK n \in Bad : \A m \in Bad : n <= m
  BY <1>1, Zenon DEF LeastNumbers
<1>3. n \in Nat /\ \E x \in path[b] : BView(x) = n /\ ~ Agree(x)
  BY <1>2, Zenon
<1>4. PICK x \in path[b] : BView(x) = n /\ ~ Agree(x)
  BY <1>3, Zenon
<1>5. x \in P /\ x \in BlockId /\ e < BView(x) /\ at[BView(x)] = x
  BY <1>4, Zenon
<1>6. PICK p : p = parentOf[x]
  BY Zenon
<1>7. path[x] = {x} \cup (IF p \in K THEN path[p] ELSE {})
  BY <1>0, <1>5, <1>6, Order, Zenon DEF IsPath
<1>8. BView(x) >= pruned
  BY <1>0, <1>5, Order, Zenon
<1>9. walk[BView(x)] = {BView(x)} \cup (IF p \in K2 /\ BView(p) >= pruned THEN walk[BView(p)] ELSE {})
  <2>1. PICK v \in View : v = BView(x)
    BY <1>0, <1>5, Zenon
  <2>2. at[v] = x /\ at[v] # ZeroHash /\ v >= pruned /\ p = parentOf[at[v]]
    BY <1>0, <1>5, <1>6, <1>8, <2>1, Zenon
  <2>3. walk[v] = {v} \cup (IF p \in K2 /\ BView(p) >= pruned THEN walk[BView(p)] ELSE {})
    BY <2>2, Zenon DEF IsWalk
  <2> QED
    BY <2>1, <2>3, Zenon
<1>10. \A c \in P : c = x <=> BView(c) = BView(x)
  BY <1>5, Zenon
<1>11. p \in K <=> p \in K2
  BY <1>4, <1>6, Zenon
<1>12. CASE p \notin K
  BY <1>4, <1>7, <1>9, <1>10, <1>11, <1>12, Zenon
<1>13. CASE p \in K /\ BView(p) <= e
  <2>1. p \in BlockId /\ BView(p) \in View /\ BView(p) \in Nat
    BY <1>0, <1>13, Zenon
  <2>2. path[p] = {}
    BY <1>13, <2>1, Zenon DEF IsPath
  <2>3. \A c \in P : BView(c) \notin walk[BView(p)]
    <3>1. \A u \in walk[BView(p)] : u \in Nat /\ u <= BView(p)
      BY <1>0, <2>1, WalkDown, Zenon
    <3>2. SUFFICES ASSUME NEW c \in P, BView(c) <= BView(p) PROVE FALSE
      BY <3>1, Zenon
    <3>3. BView(c) \in Nat /\ e < BView(c) /\ BView(c) <= e
      BY <1>0, <1>13, <2>1, <3>2, Order, Zenon
    <3> QED
      BY <3>3, Order, Zenon
  <2> QED
    BY <1>4, <1>7, <1>9, <1>10, <2>2, <2>3, Zenon
<1>14. CASE p \in K /\ ~ (BView(p) <= e)
  <2>1. p \in BlockId /\ BView(p) \in Nat /\ e < BView(p) /\ BView(p) >= pruned
    BY <1>0, <1>14, Order, Zenon
  <2>2. p \in path[b]
    BY <1>4, <1>6, <1>14, PathFacts, Zenon DEF OnPath
  <2>3. BView(p) < n
    BY <1>0, <1>4, <1>5, <1>6, <2>1, Zenon DEF ParentsOlder
  <2>4. BView(p) \notin Bad
    <3> HIDE DEF Bad
    <3> QED
      BY <1>2, <1>3, <2>1, <2>3, Order, Zenon
  <2>5. Agree(p)
    <3> HIDE DEF Agree
    <3> QED
      BY <2>1, <2>2, <2>4, Zenon
  <2> QED
    BY <1>4, <1>7, <1>9, <1>10, <1>11, <1>14, <2>1, <2>5, Zenon
<1> QED
  BY <1>12, <1>13, <1>14, Zenon

\* The handler s starts with an AdvanceView that takes r out of view v.
Leaving(s, r, v) ==
    /\ s # <<>>
    /\ s[1].fn = "AdvanceView" /\ s[1].r = r
    /\ s[1].si.tc = 0 /\ BView(s[1].si.qc) >= v

\* The handler without a running commit.
AfterCommit == IF Running("commit") THEN Tail(calls) ELSE calls

\* The views are ahead of the QCs but for the AdvanceView deferred by OnPropose,
\* which a commit may precede.
Catching ==
    \A r \in Replica :
        \/ currentView[r] > BView(highQC[r])
        \/ Leaving(AfterCommit, r, BView(highQC[r]))

\* The last executed block of r is as new as all it has pruned, executed or
\* given to the ForkHandler, and blockAtHeight has the stored blocks that are
\* newer, one of each view.
ChainOK(r) ==
    /\ pruneHeight[r] <= BView(bExec[r])
    /\ IsIndex(blockAtHeight[r], stored[r])
    /\ \A c \in stored[r] : BView(c) <= BView(bExec[r]) \/ blockAtHeight[r][BView(c)] # ZeroHash
    /\ \A c \in executed[r] \cup forked[r] : BView(c) <= BView(bExec[r])

CommitInv == ParentsOlder /\ Catching /\ \A r \in Replica : ChainOK(r)

\* Initially.
LEMMA CommitInit == Init => CommitInv
<1> SUFFICES ASSUME Init PROVE CommitInv
  OBVIOUS
<1>1. ParentsOlder
  BY BlockTypes, Zenon DEF Init, ParentsOlder
<1>2. Catching
  <2>1. \A r \in Replica : currentView[r] = 1 /\ BView(highQC[r]) = 0
    BY BlockTypes, Zenon DEF Init
  <2>2. 1 > 0
    OBVIOUS
  <2> QED
    BY <2>1, <2>2, Zenon DEF Catching
<1>3. ASSUME NEW r \in Replica PROVE ChainOK(r)
  <2>1. /\ pruneHeight[r] = 0 /\ BView(bExec[r]) = 0 /\ stored[r] = {Genesis}
        /\ BView(Genesis) = 0
        /\ executed[r] = {} /\ forked[r] = {}
        /\ \A v \in View : blockAtHeight[r][v] = IF v = 0 THEN Genesis ELSE ZeroHash
    BY <1>3, BlockTypes, Zenon DEF Init
  <2>2. 0 <= 0
    OBVIOUS
  <2> QED
    BY <2>1, <2>2, Zenon DEF ChainOK, IsIndex
<1> QED
  BY <1>1, <1>2, <1>3, Zenon DEF CommitInv

\* While neither AdvanceView nor commit runs the views are ahead.
LEMMA Caught ==
    ASSUME Catching, calls # <<>> => calls[1].fn \notin {"AdvanceView", "commit"}
    PROVE  \A r \in Replica : currentView[r] > BView(highQC[r])
BY Zenon DEF Catching, Leaving, Running, AfterCommit

\* What is left of a handler when the running function returns.
LEMMA SecondCall ==
    ASSUME NEW s \in Seq(Calls), s # <<>>
    PROVE  /\ Tail(s) \in Seq(Calls) /\ <<>> \o Tail(s) = Tail(s)
           /\ Tail(s) # <<>> <=> 2 \in 1..Len(s)
           /\ Tail(s) # <<>> => Tail(s)[1] = s[2]
<1>1. PICK t : t = Tail(s)
  OBVIOUS
<1>2. /\ t \in Seq(Calls) /\ Len(s) \in Nat /\ Len(t) = Len(s) - 1 /\ Len(s) >= 1
      /\ \A i \in 1..(Len(s) - 1) : t[i] = s[i + 1]
  BY <1>1
<1>3. <<>> \o t = t /\ (t # <<>> <=> Len(t) >= 1)
  BY <1>2
<1>4. Len(t) >= 1 => t[1] = s[2] /\ 2 \in 1..Len(s)
  BY <1>2
<1>5. 2 \in 1..Len(s) => Len(t) >= 1
  BY <1>2
<1> QED
  BY <1>1, <1>2, <1>3, <1>4, <1>5, Zenon

\* CommitRule raises highQC no further than the AdvanceView to come.
LEMMA CommitRuleCatches ==
    ASSUME TypeOK, HandlerInv, Catching, CommitRule
    PROVE  Catching'
<1> DEFINE r == calls[1].r
           b1 == qcOf[calls[1].b]
           d == CallAdvanceView(r, QCInfo(b1))
<1>1. /\ calls # <<>> /\ calls[1].fn = "CommitRule" /\ UNCHANGED currentView
      /\ \E K : UpdateHighQC(r, b1, K) \/ UNCHANGED highQC
      /\ \E c : Return(<<CallCommit(r, c)>>) \/ Return(<<>>)
  BY Zenon DEF CommitRule, Running
<1>2. /\ calls \in Seq(Calls) /\ 2 \in 1..Len(calls) /\ calls[2] = d /\ r \in Replica
  BY <1>1, RunningCall, ZenonT(40)
<1>3. Tail(calls) # <<>> /\ Tail(calls)[1] = d /\ Tail(calls) \in Seq(Calls)
  <2>1. PICK s \in Seq(Calls) : s = calls
    BY <1>2, Zenon
  <2>2. 2 \in 1..Len(s) /\ s[2] = d
    BY <1>2, <2>1, Zenon
  <2>3. Tail(s) # <<>> /\ Tail(s)[1] = s[2] /\ Tail(s) \in Seq(Calls)
    BY <1>1, <2>1, <2>2, SecondCall, Zenon
  <2> QED
    BY <2>1, <2>2, <2>3, Zenon
<1>4. Leaving(AfterCommit', r, BView(b1))
  <2>1. AfterCommit' = Tail(calls)
    <3>1. CASE Return(<<>>)
      <4>1. calls' = Tail(calls)
        BY <1>3, <3>1 DEF Return
      <4>2. d.fn # "commit"
        BY Zenon DEF CallAdvanceView
      <4> QED
        BY <1>3, <4>1, <4>2, Zenon DEF Running, AfterCommit
    <3>2. ASSUME NEW c, Return(<<CallCommit(r, c)>>)
          PROVE  AfterCommit' = Tail(calls)
      <4>1. PICK k : k = CallCommit(r, c)
        BY Zenon
      <4>2. k.fn = "commit" /\ calls' = <<k>> \o Tail(calls)
        BY <3>2, <4>1, Zenon DEF CallCommit, Return
      <4>3. PICK t : t = Tail(calls) /\ t \in Seq(Calls)
        BY <1>3, Zenon
      <4>4. <<k>> \o t # <<>> /\ (<<k>> \o t)[1] = k /\ Tail(<<k>> \o t) = t
        BY <4>3
      <4> QED
        BY <4>2, <4>3, <4>4, Zenon DEF Running, AfterCommit
    <3> QED
      BY <1>1, <3>1, <3>2, Zenon
  <2>2. d.fn = "AdvanceView" /\ d.r = r /\ d.si.tc = 0 /\ d.si.qc = b1
    BY Zenon DEF CallAdvanceView, QCInfo
  <2>3. BView(b1) \in Nat
    <3>1. b1 \in Hash
      BY <1>1, CallTypes, BlockTypes, ZenonT(40) DEF TypeOK
    <3> QED
      BY <3>1, BlockTypes, Zenon
  <2>4. BView(d.si.qc) >= BView(b1)
    BY <2>2, <2>3
  <2>5. Leaving(Tail(calls), r, BView(b1))
    <3> HIDE DEF d, b1, r
    <3> QED
      BY <1>3, <2>2, <2>4, Zenon DEF Leaving
  <2> QED
    BY <2>1, <2>5, Zenon
<1>5. \A q \in Replica : currentView'[q] > BView(highQC[q])
  BY <1>1, Caught, Zenon
<1>6. highQC' = highQC \/ highQC' = [highQC EXCEPT ![r] = b1]
  BY <1>1, Zenon DEF UpdateHighQC
<1>7. \A q \in Replica : highQC'[q] = highQC[q] \/ (q = r /\ highQC'[q] = b1)
  <2>1. highQC \in [Replica -> BlockId]
    BY Zenon DEF TypeOK
  <2> HIDE DEF r, b1
  <2> QED
    BY <1>6, <2>1, Zenon
<1> HIDE DEF r, b1
<1> QED
  BY <1>4, <1>5, <1>7, ZenonT(40) DEF Catching

\* A commit leaves the AdvanceView to come.
LEMMA CommitCatches ==
    ASSUME TypeOK, HandlerInv, Catching, Commit
    PROVE  Catching'
<1>1. /\ Running("commit") /\ calls # <<>> /\ calls[1].fn = "commit"
      /\ UNCHANGED <<currentView, highQC>> /\ calls' = <<>> \o Tail(calls)
  BY Zenon DEF Commit, Running, Return
<1>2. calls \in Seq(Calls) /\ LaterCalls(calls)
  BY <1>1, RunningCall, Zenon
<1>3. calls' = Tail(calls) /\ (calls' # <<>> => calls'[1].fn # "commit")
  <2>1. calls' = Tail(calls)
    BY <1>1, <1>2, SecondCall, Zenon
  <2>2. ASSUME calls' # <<>> PROVE calls'[1].fn # "commit"
    <3>1. calls'[1] = calls[2] /\ 2 \in 1..Len(calls)
      BY <1>1, <1>2, <2>1, <2>2, SecondCall, Zenon
    <3>2. 2 \in 2..Len(calls)
      <4>1. PICK n : n = Len(calls) /\ n \in Nat
        BY <1>2
      <4>2. 2 \in 1..n => 2 \in 2..n
        BY <4>1
      <4> QED
        BY <3>1, <4>1, <4>2, Zenon
    <3>3. calls[2].fn \in {"AdvanceView", "CollectTimeout", "CleanTimeouts"}
      BY <1>2, <3>2, Zenon DEF LaterCalls
    <3> QED
      BY <3>1, <3>3, Zenon
  <2> QED
    BY <2>1, <2>2, Zenon
<1>4. AfterCommit' = AfterCommit
  BY <1>1, <1>3, Zenon DEF AfterCommit, Running
<1> QED
  BY <1>1, <1>4, Zenon DEF Catching, Leaving

\* AdvanceView leaves the view that its certificate ends.
LEMMA AdvanceCatches ==
    ASSUME TypeOK, HandlerInv, Catching, AdvanceView
    PROVE  Catching'
<1> DEFINE r == calls[1].r
           si == calls[1].si
           v == EndedView(si)
<1>1. calls # <<>> /\ calls[1].fn = "AdvanceView" /\ AfterCommit = calls
  BY Zenon DEF AdvanceView, Running, AfterCommit
<1>2. r \in Replica /\ si \in SyncInfos
  BY <1>1, CallTypes, Zenon
<1>3. /\ si.tc \in Nat /\ BView(si.qc) \in Nat /\ v \in Nat
      /\ si.tc # 0 => v = si.tc
      /\ si.tc = 0 => v = BView(si.qc)
  BY <1>2, BlockTypes, ZenonT(40) DEF SyncInfos, EndedView
<1>4. /\ currentView \in [Replica -> 1..(MaxView + 1)] /\ highQC \in [Replica -> BlockId]
      /\ \A q \in Replica : currentView[q] \in Nat /\ BView(highQC[q]) \in Nat
  <2>1. currentView \in [Replica -> 1..(MaxView + 1)] /\ highQC \in [Replica -> BlockId]
    BY Zenon DEF TypeOK
  <2>2. \A q \in Replica : currentView[q] \in Nat
    BY <2>1, MaxViewType
  <2> QED
    BY <2>1, <2>2, BlockTypes, Zenon
<1>5. /\ TakeCertificate(r, si)
      /\ \/ v < currentView[r] /\ currentView' = currentView
         \/ ~(v < currentView[r]) /\ currentView' = [currentView EXCEPT ![r] = v + 1]
  BY ZenonT(40) DEF AdvanceView, Stale, Outdated
<1>6. \A q \in Replica :
        \/ currentView[q] > BView(highQC[q])
        \/ q = r /\ si.tc = 0 /\ BView(si.qc) >= BView(highQC[q])
  BY <1>1, Zenon DEF Catching, Leaving
<1>7. highQC' = highQC \/ (v = BView(si.qc) /\ highQC' = [highQC EXCEPT ![r] = si.qc])
  BY <1>3, <1>5, Zenon DEF TakeCertificate, UpdateHighQC
<1> HIDE DEF v, r, si
<1>8. \A q \in Replica : q # r => currentView'[q] = currentView[q] /\ highQC'[q] = highQC[q]
  BY <1>2, <1>4, <1>5, <1>7, Zenon
<1>9. currentView'[r] \in Nat /\ currentView'[r] > v /\ currentView'[r] >= currentView[r]
  <2>1. \/ v < currentView[r] /\ currentView'[r] = currentView[r]
        \/ ~(v < currentView[r]) /\ currentView'[r] = v + 1
    BY <1>2, <1>4, <1>5, Zenon
  <2>2. currentView[r] \in Nat
    BY <1>2, <1>4, Zenon
  <2> QED
    BY <1>3, <2>1, <2>2
<1>10. highQC'[r] = highQC[r] \/ BView(highQC'[r]) = v
  BY <1>2, <1>4, <1>7, Zenon
<1>11. currentView'[r] > BView(highQC'[r])
  <2>1. currentView[r] > BView(highQC[r]) \/ v >= BView(highQC[r])
    BY <1>2, <1>3, <1>6, Zenon
  <2>2. currentView[r] \in Nat /\ BView(highQC[r]) \in Nat
    BY <1>2, <1>4, Zenon
  <2>3. currentView'[r] > BView(highQC[r])
    BY <1>3, <1>9, <2>1, <2>2
  <2> QED
    BY <1>9, <1>10, <2>3, Zenon
<1> QED
  BY <1>6, <1>8, <1>11, Zenon DEF Catching

\* Every step keeps the views ahead.
LEMMA CatchingStep ==
    ASSUME TypeOK, HandlerInv, Catching, [Next]_vars
    PROVE  Catching'
<1>1. CASE UNCHANGED <<currentView, highQC>> /\
           (calls # <<>> => calls[1].fn \notin {"AdvanceView", "commit"})
  BY <1>1, Caught, Zenon DEF Catching
<1>2. CASE UNCHANGED vars
  BY <1>2, Zenon DEF vars, Catching, AfterCommit, Leaving, Running
<1>3. ASSUME NEW r \in Replica, Start(r) \/ OnLocalTimeout(r) PROVE Catching'
  BY <1>1, <1>3, Zenon DEF Start, OnLocalTimeout, Idle
<1>4. ASSUME NEW m \in net, OnVote(m) \/ Receive(m) PROVE Catching'
  BY <1>1, <1>4, Zenon DEF OnVote, Receive, Idle
<1>5. ASSUME NEW r \in Replica, NEW id \in Replica, NEW b \in BlockId, VerifyCert(r, id, b)
      PROVE  Catching'
  BY <1>1, <1>5, Zenon DEF VerifyCert, Idle
<1>6. CASE CollectTimeout \/ CleanTimeouts \/ ProposeNothing
  BY <1>1, <1>6, Zenon DEF CollectTimeout, CleanTimeouts, ProposeNothing, Running
<1>7. CASE ProposeBlock \/ ProposeFork
  BY <1>1, <1>7, Zenon DEF ProposeBlock, ProposeFork, Running
<1>8. CASE OnProposeInvalid \/ OnProposeRefused \/ OnProposeAccepted
  BY <1>1, <1>8, Zenon DEF OnProposeInvalid, OnProposeRefused, OnProposeAccepted, Running
<1> QED
  BY <1>2, <1>3, <1>4, <1>5, <1>6, <1>7, <1>8, CommitRuleCatches, CommitCatches,
     AdvanceCatches, Zenon DEF Next, RunCall

\* A new block is newer than its parent.
LEMMA OlderStep ==
    ASSUME TypeOK, Catching, ParentsOlder, [Next]_vars
    PROVE  ParentsOlder'
<1>1. CASE UNCHANGED parentOf
  BY <1>1, Zenon DEF ParentsOlder
<1>2. CASE ProposeBlock \/ ProposeFork
  <2>1. /\ calls # <<>> /\ calls[1].fn = "Propose" /\ currentView[calls[1].r] <= MaxView
    BY <1>2, Zenon DEF ProposeBlock, ProposeFork, Running
  <2>2. PICK r \in Replica : r = calls[1].r
    BY <2>1, CallTypes, Zenon
  <2>3. CASE UNCHANGED parentOf
    BY <1>1, <2>3, Zenon
  <2>4. CASE ~ UNCHANGED parentOf
    <3>1. PICK p : /\ parentOf' = [parentOf EXCEPT ![<<currentView[r], r>>] = p]
                   /\ p = highQC[r] \/ (p = parentOf[highQC[r]] /\ p # ZeroHash)
      <4>1. \A K \in Known(r) : ZeroHash \notin K
        BY KnownType, BlockTypes, Zenon
      <4> QED
        BY <1>2, <2>2, <2>4, <4>1, Zenon DEF ProposeBlock, ProposeFork, MakeBlock
    <3>2. /\ highQC[r] \in BlockId /\ BView(highQC[r]) \in Nat /\ currentView[r] \in 1..MaxView
          /\ currentView[r] > BView(highQC[r])
      <4>1. highQC[r] \in BlockId /\ currentView[r] \in 1..(MaxView + 1) /\ currentView[r] <= MaxView
        BY <2>1, <2>2, Zenon DEF TypeOK
      <4>2. currentView[r] \in 1..MaxView
        BY <4>1, MaxViewType
      <4>3. currentView[r] > BView(highQC[r])
        BY <2>1, Caught, Zenon
      <4> QED
        BY <4>1, <4>2, <4>3, BlockTypes, Zenon
    <3>3. BView(p) < currentView[r]
      <4>1. p = highQC[r] \/ BView(p) < BView(highQC[r])
        BY <3>1, <3>2, Zenon DEF ParentsOlder
      <4>2. BView(p) \in Nat
        <5>1. p \in Hash
          BY <3>1, <3>2, BlockTypes, ZenonT(40) DEF TypeOK
        <5> QED
          BY <5>1, BlockTypes, Zenon
      <4>3. currentView[r] \in Nat
        BY <3>2
      <4> QED
        BY <3>2, <4>1, <4>2, <4>3
    <3>4. PICK new \in BlockId : new = <<currentView[r], r>> /\ BView(new) = currentView[r]
      BY <3>2, NewBlockType, Zenon
    <3>5. \A c \in BlockId : parentOf'[c] = parentOf[c] \/ (c = new /\ parentOf'[c] = p)
      <4>1. parentOf \in [Hash -> Hash] /\ BlockId \subseteq Hash
        BY BlockTypes, Zenon DEF TypeOK
      <4> QED
        BY <3>1, <3>4, <4>1, Zenon
    <3> QED
      BY <3>3, <3>4, <3>5, Zenon DEF ParentsOlder
  <2> QED
    BY <2>3, <2>4, Zenon
<1>3. ASSUME NEW r \in Replica, Start(r) \/ OnLocalTimeout(r) PROVE UNCHANGED parentOf
  BY <1>3, Zenon DEF Start, OnLocalTimeout
<1>4. ASSUME NEW m \in net, OnVote(m) \/ Receive(m) PROVE UNCHANGED parentOf
  BY <1>4, Zenon DEF OnVote, Receive
<1>5. ASSUME NEW r \in Replica, NEW id \in Replica, NEW b \in BlockId, VerifyCert(r, id, b)
      PROVE  UNCHANGED parentOf
  BY <1>5, Zenon DEF VerifyCert
<1>6. CASE CollectTimeout \/ CleanTimeouts \/ ProposeNothing \/ AdvanceView
  BY <1>1, <1>6, Zenon DEF CollectTimeout, CleanTimeouts, ProposeNothing, AdvanceView
<1>7. CASE OnProposeInvalid \/ OnProposeRefused \/ OnProposeAccepted
  BY <1>1, <1>7, Zenon DEF OnProposeInvalid, OnProposeRefused, OnProposeAccepted
<1>8. CASE CommitRule \/ Commit
  BY <1>1, <1>8, Zenon DEF CommitRule, Commit
<1>9. CASE UNCHANGED vars
  BY <1>1, <1>9, Zenon DEF vars
<1> QED
  BY <1>1, <1>2, <1>3, <1>4, <1>5, <1>6, <1>7, <1>8, <1>9, Zenon DEF Next, RunCall

\* Storing blocks adds them to the index, under their views.
LEMMA IndexFacts ==
    ASSUME NEW at, NEW T, NEW S \in SUBSET BlockId,
           IsIndex(at, T)
    PROVE  /\ IsIndex(IndexBlocks(at, S), T \cup S)
           /\ \A v \in View : at[v] # ZeroHash => IndexBlocks(at, S)[v] # ZeroHash
           /\ \A c \in S : IndexBlocks(at, S)[BView(c)] # ZeroHash
<1> DEFINE new(v) == CHOOSE c \in S : BView(c) = v
<1>1. \A v \in View : (\E c \in S : BView(c) = v) =>
                         new(v) \in S /\ BView(new(v)) = v /\ new(v) # ZeroHash
  BY BlockTypes, Zenon
<1>2. \A v \in View : IndexBlocks(at, S)[v] = IF \E c \in S : BView(c) = v THEN new(v) ELSE at[v]
  BY Zenon DEF IndexBlocks
<1>3. \A c \in S : BView(c) \in View
  BY BlockTypes, Zenon
<1> HIDE DEF new
<1> QED
  BY <1>1, <1>2, <1>3, Zenon DEF IsIndex

\* Storing blocks leaves the chain in order.
LEMMA KeepChain ==
    ASSUME TypeOK, \A o \in Replica : ChainOK(o),
           NEW r \in Replica, NEW K \in Known(r), NEW asked, NEW new \in SUBSET BlockId,
           Keep(r, K, asked, new), UNCHANGED <<bExec, executed, forked>>
    PROVE  \A o \in Replica : ChainOK(o)'
<1> DEFINE kept == ((asked \cap K) \ stored[r]) \cup new
           at == blockAtHeight[r]
<1>1. kept \in SUBSET BlockId
  BY KnownType, Zenon
<1>2. /\ stored' = [stored EXCEPT ![r] = @ \cup kept]
      /\ blockAtHeight' = [blockAtHeight EXCEPT ![r] = IndexBlocks(@, kept)]
      /\ pruneHeight' = pruneHeight
  BY Zenon DEF Keep
<1>3. stored \in [Replica -> SUBSET BlockId] /\ blockAtHeight \in [Replica -> [View -> Hash]]
  BY Zenon DEF TypeOK
<1> HIDE DEF kept
<1>4. /\ stored'[r] = stored[r] \cup kept /\ blockAtHeight'[r] = IndexBlocks(at, kept)
      /\ \A o \in Replica : o # r => /\ stored'[o] = stored[o]
                                     /\ blockAtHeight'[o] = blockAtHeight[o]
  BY <1>2, <1>3, Zenon
<1>5. ASSUME NEW o \in Replica, o # r PROVE ChainOK(o)'
  <2>1. ChainOK(o)
    BY Zenon
  <2> QED
    BY <1>2, <1>4, <1>5, <2>1, Zenon DEF ChainOK
<1>6. ChainOK(r)'
  <2>1. /\ IsIndex(at, stored[r])
        /\ \A c \in stored[r] : BView(c) <= BView(bExec[r]) \/ at[BView(c)] # ZeroHash
        /\ pruneHeight[r] <= BView(bExec[r])
        /\ \A c \in executed[r] \cup forked[r] : BView(c) <= BView(bExec[r])
    BY Zenon DEF ChainOK
  <2>2. \A c \in stored[r] : BView(c) \in View
    BY <1>3, BlockTypes, Zenon
  <2> HIDE DEF at
  <2>3. /\ IsIndex(IndexBlocks(at, kept), stored[r] \cup kept)
        /\ \A v \in View : at[v] # ZeroHash => IndexBlocks(at, kept)[v] # ZeroHash
        /\ \A c \in kept : IndexBlocks(at, kept)[BView(c)] # ZeroHash
    BY <1>1, <2>1, IndexFacts, Zenon
  <2> QED
    BY <1>2, <1>4, <2>1, <2>2, <2>3, Zenon DEF ChainOK
<1> QED
  BY <1>5, <1>6, Zenon

\* What the steps do to the chain.
LEMMA ChainSteps ==
    ASSUME TypeOK, [Next]_vars
    PROVE  \/ Commit
           \/ /\ UNCHANGED <<bExec, executed, forked>>
              /\ \/ UNCHANGED chainVars
                 \/ \E r \in Replica : \E K \in Known(r), new \in SUBSET BlockId : \E asked :
                      Keep(r, K, asked, new)
<1> DEFINE Stores == \E r \in Replica : \E K \in Known(r), new \in SUBSET BlockId : \E asked :
                       Keep(r, K, asked, new)
           Goal == \/ Commit
                   \/ /\ UNCHANGED <<bExec, executed, forked>>
                      /\ UNCHANGED chainVars \/ Stores
<1>0. {} \in SUBSET BlockId
  BY Zenon
<1>1. CASE AdvanceView
  <2>1. calls[1].r \in Replica /\ UNCHANGED <<bExec, executed, forked>>
    BY <1>1, CallTypes, Zenon DEF AdvanceView, Running
  <2>2. UNCHANGED chainVars \/ \E K \in Known(calls[1].r) : Keep(calls[1].r, K, {calls[1].si.qc}, {})
    BY <1>1, Zenon DEF AdvanceView, TakeCertificate
  <2> QED
    BY <1>0, <2>1, <2>2, Zenon
<1>2. CASE ProposeNothing
  <2>1. calls[1].r \in Replica /\ UNCHANGED <<bExec, executed, forked>>
    BY <1>2, CallTypes, Zenon DEF ProposeNothing, Running
  <2>2. \E K \in Known(calls[1].r) : Keep(calls[1].r, K, {calls[1].si.qc}, {})
    BY <1>2, Zenon DEF ProposeNothing
  <2> QED
    BY <1>0, <2>1, <2>2, Zenon
<1>3. CASE ProposeBlock \/ ProposeFork
  <2>1. /\ calls # <<>> /\ UNCHANGED <<bExec, executed, forked>> /\ currentView[calls[1].r] <= MaxView
    BY <1>3, Zenon DEF ProposeBlock, ProposeFork, Running
  <2>2. PICK r \in Replica : r = calls[1].r
    BY <2>1, CallTypes, Zenon
  <2>3. {<<currentView[r], r>>} \in SUBSET BlockId
    <3>1. currentView[r] \in 1..(MaxView + 1) /\ currentView[r] <= MaxView
      BY <2>1, <2>2, Zenon DEF TypeOK
    <3>2. currentView[r] \in 1..MaxView
      BY <3>1, MaxViewType
    <3> QED
      BY <3>2, NewBlockType, Zenon
  <2>4. \E K \in Known(r) : \E asked : Keep(r, K, asked, {<<currentView[r], r>>}) \/ Keep(r, K, asked, {})
    BY <1>3, <2>2, Zenon DEF ProposeBlock, ProposeFork, MakeBlock
  <2> QED
    BY <1>0, <2>1, <2>3, <2>4, Zenon
<1>4. CASE OnProposeRefused \/ OnProposeAccepted
  <2>1. /\ calls[1].r \in Replica /\ UNCHANGED <<bExec, executed, forked>>
        /\ {calls[1].b} \in SUBSET BlockId
    BY <1>4, CallTypes, Zenon DEF OnProposeRefused, OnProposeAccepted, Running
  <2>2. \/ UNCHANGED chainVars
        \/ \E K \in Known(calls[1].r) : \E asked :
             Keep(calls[1].r, K, asked, {calls[1].b}) \/ Keep(calls[1].r, K, asked, {})
    BY <1>4, Zenon DEF OnProposeRefused, OnProposeAccepted
  <2> QED
    BY <1>0, <2>1, <2>2, Zenon
<1>5. CASE CommitRule
  <2>1. calls[1].r \in Replica /\ UNCHANGED <<bExec, executed, forked>>
    BY <1>5, CallTypes, Zenon DEF CommitRule, Running
  <2>2. \E K \in Known(calls[1].r) : \E asked : Keep(calls[1].r, K, asked, {})
    BY <1>5, Zenon DEF CommitRule
  <2> QED
    BY <1>0, <2>1, <2>2, Zenon
<1>6. CASE UNCHANGED <<chainVars, bExec, executed, forked>>
  BY <1>6, Zenon
<1>7. ASSUME NEW r \in Replica, Start(r) \/ OnLocalTimeout(r) PROVE Goal
  BY <1>6, <1>7, Zenon DEF Start, OnLocalTimeout
<1>8. ASSUME NEW m \in net, OnVote(m) \/ Receive(m) PROVE Goal
  BY <1>6, <1>8, Zenon DEF OnVote, Receive
<1>9. ASSUME NEW r \in Replica, NEW id \in Replica, NEW b \in BlockId, VerifyCert(r, id, b)
      PROVE  Goal
  BY <1>6, <1>9, Zenon DEF VerifyCert
<1>10. CASE CollectTimeout \/ CleanTimeouts \/ OnProposeInvalid
  BY <1>6, <1>10, Zenon DEF CollectTimeout, CleanTimeouts, OnProposeInvalid
<1>11. CASE UNCHANGED vars
  BY <1>6, <1>11, Zenon DEF vars
<1> QED
  BY <1>1, <1>2, <1>3, <1>4, <1>5, <1>7, <1>8, <1>9, <1>10, <1>11, Zenon DEF Next, RunCall

\* The numbers of a commit.
LEMMA PrunedNumbers ==
    ASSUME NEW p \in View, NEW h \in View, NEW v \in View
    PROVE  v \in PrunedViews(p, h) <=> ~ (v <= p) /\ v <= h
BY MaxViewType DEF PrunedViews, View

\* What the commit of b by r does: it runs the blocks of run, after which the
\* last one executed is last, fetches those of got, which makes the index at, and
\* gives the ForkHandler the pruned blocks of at whose views are not in kept.
CommitDoes(r, b, K, run, got, at, kept, last) ==
    /\ run = ToExecute(r, b, K)
    /\ got = ({parentOf[c] : c \in run} \cap K) \ stored[r]
    /\ at = IndexBlocks(blockAtHeight[r], got)
    /\ last = IF BView(b) > BView(bExec[r]) THEN b ELSE bExec[r]
    /\ kept = CommittedViews(BView(last), at, stored[r] \cup got, pruneHeight[r])
    /\ bExec' = [bExec EXCEPT ![r] = last]
    /\ executed' = [executed EXCEPT ![r] = @ \cup run]
    /\ stored' = [stored EXCEPT ![r] = @ \cup got]
    /\ blockAtHeight' = [blockAtHeight EXCEPT ![r] =
         [v \in View |-> IF v \in PrunedViews(pruneHeight[r], BView(b)) THEN ZeroHash ELSE at[v]]]
    /\ pruneHeight' = [pruneHeight EXCEPT ![r] = BView(b)]
    /\ forked' = [forked EXCEPT ![r] = @ \cup
         ({at[v] : v \in PrunedViews(pruneHeight[r], BView(b)) \ kept} \ {ZeroHash})]

\* That is what commit does.
LEMMA CommitSteps ==
    ASSUME TypeOK, Commit
    PROVE  \E r \in Replica, b \in BlockId :
             /\ r = calls[1].r /\ b = calls[1].b
             /\ \E K \in Known(r) : \E run, got, at, kept, last :
                  CommitDoes(r, b, K, run, got, at, kept, last)
<1> DEFINE r == calls[1].r
           b == calls[1].b
           last == IF BView(b) > BView(bExec[r]) THEN b ELSE bExec[r]
           Got(K) == ({parentOf[c] : c \in ToExecute(r, b, K)} \cap K) \ stored[r]
           At(K) == IndexBlocks(blockAtHeight[r], Got(K))
           Seen(K) == CommittedViews(BView(last), At(K), stored[r] \cup Got(K), pruneHeight[r])
           gone == PrunedViews(pruneHeight[r], BView(b))
<1>1. r \in Replica /\ b \in BlockId
  BY CallTypes, Zenon DEF Commit, Running
<1>2. PICK K \in Known(r) :
        /\ bExec' = [bExec EXCEPT ![r] = last]
        /\ executed' = [executed EXCEPT ![r] = @ \cup ToExecute(r, b, K)]
        /\ stored' = [stored EXCEPT ![r] = @ \cup Got(K)]
        /\ blockAtHeight' = [blockAtHeight EXCEPT ![r] =
             [v \in View |-> IF v \in gone THEN ZeroHash ELSE At(K)[v]]]
        /\ pruneHeight' = [pruneHeight EXCEPT ![r] = BView(b)]
        /\ forked' = [forked EXCEPT ![r] = @ \cup ({At(K)[v] : v \in gone \ Seen(K)} \ {ZeroHash})]
  BY Zenon DEF Commit
<1>3. CommitDoes(r, b, K, ToExecute(r, b, K), Got(K), At(K), Seen(K), last)
  BY <1>2, Zenon DEF CommitDoes
<1> HIDE DEF r, b, last, Got, At, Seen
<1>4. r = calls[1].r /\ b = calls[1].b
  BY Zenon DEF r, b
<1> QED
  BY <1>1, <1>3, <1>4, Zenon

\* A commit leaves the chain in order, and settles the blocks that it passes.
LEMMA CommitChain ==
    ASSUME LeastNumbers, TypeOK, CommitInv, Commit, calls[1].b \in stored[calls[1].r]
    PROVE  \A o \in Replica :
             /\ ChainOK(o)'
             /\ (\A c, d \in Passed(o) : BView(c) = BView(d) => c = d) =>
                  \A c \in Passed(o) : (c \in executed'[o]) # (c \in forked'[o])
<1>0. PICK r \in Replica, b \in BlockId :
        /\ r = calls[1].r /\ b = calls[1].b
        /\ \E K \in Known(r) : \E run, got, at, kept, last :
             CommitDoes(r, b, K, run, got, at, kept, last)
  BY CommitSteps, Zenon
<1>1. r \in Replica /\ b \in BlockId /\ b \in stored[r]
  BY <1>0, Zenon
<1>k. PICK K \in Known(r) : \E run, got, at, kept, last :
             CommitDoes(r, b, K, run, got, at, kept, last)
  BY <1>0, Zenon
<1>2. PICK run, got, at, kept, last : CommitDoes(r, b, K, run, got, at, kept, last)
  BY <1>k, Zenon
<1>e. PICK e, pruned, height, gone :
        /\ e = BView(bExec[r]) /\ pruned = pruneHeight[r] /\ height = BView(b)
        /\ gone = PrunedViews(pruned, height)
  BY Zenon
<1>3. /\ run = ToExecute(r, b, K)
      /\ e = BView(bExec[r]) /\ height = BView(b) /\ pruned = pruneHeight[r]
      /\ gone = PrunedViews(pruned, height)
      /\ last = IF height > e THEN b ELSE bExec[r]
      /\ got = ({parentOf[c] : c \in run} \cap K) \ stored[r]
      /\ at = IndexBlocks(blockAtHeight[r], got)
      /\ kept = CommittedViews(BView(last), at, stored[r] \cup got, pruned)
  BY <1>2, <1>e, Zenon DEF CommitDoes
<1>u. /\ bExec' = [bExec EXCEPT ![r] = last]
      /\ executed' = [executed EXCEPT ![r] = @ \cup run]
      /\ stored' = [stored EXCEPT ![r] = @ \cup got]
      /\ blockAtHeight' = [blockAtHeight EXCEPT ![r] =
           [v \in View |-> IF v \in gone THEN ZeroHash ELSE at[v]]]
      /\ pruneHeight' = [pruneHeight EXCEPT ![r] = height]
      /\ forked' = [forked EXCEPT ![r] = @ \cup ({at[v] : v \in gone \ kept} \ {ZeroHash})]
  BY <1>2, <1>e, Zenon DEF CommitDoes
<1>4. /\ e \in Nat /\ pruned \in Nat /\ height \in Nat
      /\ e \in View /\ pruned \in View /\ height \in View
      /\ \A c \in BlockId : BView(c) \in View /\ BView(c) \in Nat /\ c # ZeroHash
      /\ View \subseteq Nat
  <2>1. bExec[r] \in BlockId /\ pruneHeight[r] \in View
    BY <1>1, Zenon DEF TypeOK
  <2> QED
    BY <1>1, <1>3, <2>1, BlockTypes, Zenon
<1>5. /\ stored[r] \in SUBSET BlockId /\ K \in SUBSET BlockId /\ stored[r] \subseteq K
      /\ bExec[r] \in BlockId
  BY <1>1, KnownType, Zenon DEF TypeOK
<1>6. /\ bExec'[r] = last /\ executed'[r] = executed[r] \cup run
      /\ stored'[r] = stored[r] \cup got /\ pruneHeight'[r] = height
      /\ \A v \in View : blockAtHeight'[r][v] = IF v \in gone THEN ZeroHash ELSE at[v]
      /\ forked'[r] = forked[r] \cup ({at[v] : v \in gone \ kept} \ {ZeroHash})
      /\ \A o \in Replica : o # r =>
           /\ bExec'[o] = bExec[o] /\ executed'[o] = executed[o] /\ stored'[o] = stored[o]
           /\ pruneHeight'[o] = pruneHeight[o] /\ blockAtHeight'[o] = blockAtHeight[o]
           /\ forked'[o] = forked[o]
  BY <1>1, <1>u, Zenon DEF TypeOK
<1>7. ASSUME NEW o \in Replica, o # r PROVE ChainOK(o)' /\ Passed(o) = {}
  <2>1. ChainOK(o) /\ bExec[o] \in BlockId /\ stored'[o] \in SUBSET BlockId
    BY <1>6, <1>7, Zenon DEF CommitInv, TypeOK
  <2>2. ChainOK(o)'
    BY <1>6, <1>7, <2>1, Zenon DEF ChainOK
  <2>3. Passed(o) = {}
    <3>1. SUFFICES ASSUME NEW c \in Passed(o) PROVE FALSE
      BY Zenon
    <3>2. c \in BlockId /\ BView(bExec[o]) < BView(c) /\ BView(c) <= BView(bExec[o])
      BY <1>6, <1>7, <2>1, <3>1, Zenon DEF Passed
    <3> QED
      BY <1>4, <2>1, <3>2, Order, Zenon
  <2> QED
    BY <2>2, <2>3, Zenon
<1>8. /\ pruned <= e
      /\ IsIndex(blockAtHeight[r], stored[r])
      /\ \A c \in stored[r] : BView(c) <= e \/ blockAtHeight[r][BView(c)] # ZeroHash
      /\ \A c \in executed[r] \cup forked[r] : BView(c) <= e
      /\ ParentsOlder
  BY <1>1, <1>3, Zenon DEF CommitInv, ChainOK
<1>9. PICK path : run = path[b] \cap K /\ IsPath(path, K, e)
  BY <1>1, <1>3, <1>5, ExecutedPath, Zenon
<1>10. \A x \in path[b] :
         /\ x \in BlockId
         /\ x = b \/ (x \in K /\ \E y \in path[b] : x = parentOf[y])
         /\ e < BView(x) /\ BView(x) <= height
  <2>1. K \in SUBSET BlockId /\ e \in Nat /\ ParentsOlder
    BY <1>4, <1>5, <1>8, Zenon
  <2>2. OnPath(path, K, e)
    BY <1>9, <2>1, PathFacts, Zenon
  <2> QED
    BY <1>1, <1>3, <2>2, Zenon DEF OnPath
<1>11. run = path[b]
  <2>1. path[b] \subseteq K
    BY <1>1, <1>5, <1>10, Zenon
  <2> QED
    BY <1>9, <2>1, SMT
<1>12. /\ got \in SUBSET BlockId /\ stored[r] \cup got \in SUBSET K
       /\ \A x \in path[b] : /\ x \in stored[r] \cup got
                             /\ parentOf[x] \in K => parentOf[x] \in stored[r] \cup got
  BY <1>1, <1>3, <1>5, <1>10, <1>11, Zenon
<1>13. /\ IsIndex(at, stored[r] \cup got)
       /\ \A c \in stored[r] \cup got : BView(c) <= e \/ at[BView(c)] # ZeroHash
  <2>1. /\ IsIndex(IndexBlocks(blockAtHeight[r], got), stored[r] \cup got)
        /\ \A v \in View : blockAtHeight[r][v] # ZeroHash =>
                             IndexBlocks(blockAtHeight[r], got)[v] # ZeroHash
        /\ \A c \in got : IndexBlocks(blockAtHeight[r], got)[BView(c)] # ZeroHash
    BY <1>8, <1>12, IndexFacts, Zenon
  <2> QED
    BY <1>3, <1>4, <1>5, <1>8, <2>1, Zenon
<1>14. \A v \in View : v \in gone <=> ~ (v <= pruned) /\ v <= height
  BY <1>3, <1>4, PrunedNumbers, Zenon
<1>15. /\ BView(last) \in Nat /\ height <= BView(last) /\ e <= BView(last)
       /\ ~ (height <= e) => last = b
       /\ height <= e => last = bExec[r]
  <2>1. height > e <=> ~ (height <= e)
    BY <1>4
  <2>2. height <= e \/ e <= height
    BY <1>4
  <2> QED
    BY <1>1, <1>3, <1>4, <1>5, <2>1, <2>2, Order, Zenon
<1>16. \A v \in gone : v \in View /\ v \in Nat
  <2>1. gone \subseteq View
    BY <1>3, <1>4, MaxViewType DEF PrunedViews, View
  <2> QED
    BY <1>4, <2>1, Zenon
<1>17. ChainOK(r)'
  <2>1. pruneHeight'[r] <= BView(bExec'[r])
    BY <1>6, <1>15, Zenon
  <2>2. IsIndex(blockAtHeight'[r], stored'[r])
    BY <1>6, <1>13, Zenon DEF IsIndex
  <2>3. ASSUME NEW c \in stored'[r]
        PROVE  BView(c) <= BView(bExec'[r]) \/ blockAtHeight'[r][BView(c)] # ZeroHash
    <3>1. c \in stored[r] \cup got /\ c \in BlockId
      BY <1>5, <1>6, <1>12, <2>3, Zenon
    <3>2. SUFFICES ASSUME ~ (BView(c) <= BView(last))
                   PROVE  blockAtHeight'[r][BView(c)] # ZeroHash
      BY <1>6, Zenon
    <3>3. ~ (BView(c) <= e) /\ ~ (BView(c) <= height)
      BY <1>4, <1>15, <3>1, <3>2, Order, Zenon
    <3> QED
      BY <1>4, <1>6, <1>13, <1>14, <3>1, <3>3, Zenon
  <2>4. ASSUME NEW c \in executed'[r] \cup forked'[r]
        PROVE  BView(c) <= BView(bExec'[r])
    <3>1. CASE c \in executed[r] \cup forked[r]
      <4>1. BView(c) <= e /\ BView(c) \in Nat
        <5>1. executed[r] \cup forked[r] \subseteq BlockId
          BY <1>1, Zenon DEF TypeOK
        <5> QED
          BY <1>4, <1>8, <3>1, <5>1, Zenon
      <4> QED
        BY <1>4, <1>6, <1>15, <4>1, Order, Zenon
    <3>2. CASE c \in run
      BY <1>4, <1>6, <1>10, <1>11, <1>15, <3>2, Order, Zenon
    <3>3. ASSUME NEW v \in gone, c = at[v], c # ZeroHash
          PROVE  BView(c) <= BView(bExec'[r])
      <4>1. v \in View /\ v \in Nat /\ v <= height /\ BView(c) = v
        BY <1>13, <1>14, <1>16, <3>3, Zenon DEF IsIndex
      <4> QED
        BY <1>4, <1>6, <1>15, <4>1, Order, Zenon
    <3> QED
      BY <1>6, <2>4, <3>1, <3>2, <3>3, Zenon
  <2> QED
    BY <2>1, <2>2, <2>3, <2>4, Zenon DEF ChainOK
<1>18. ASSUME \A c, d \in Passed(r) : BView(c) = BView(d) => c = d,
              NEW c \in Passed(r)
       PROVE  (c \in executed'[r]) # (c \in forked'[r])
  <2>1. \A d : d \in Passed(r) <=> d \in stored[r] \cup got /\ e < BView(d) /\ BView(d) <= BView(last)
    BY <1>3, <1>6, Zenon DEF Passed
  <2>2. PICK P \in SUBSET BlockId : P = Passed(r)
    BY <1>5, <1>12, <2>1, Zenon
  <2>3. c \in P /\ c \in BlockId /\ BView(c) \in Nat
    BY <1>4, <1>18, <2>2, Zenon
  <2>4. ~ (height <= e) /\ last = b
    BY <1>3, <1>4, <1>15, <2>1, <2>2, <2>3, Order, Zenon
  <2>5. \A d \in P : d \in stored[r] \cup got /\ e < BView(d) /\ BView(d) <= height /\ d \in BlockId
    BY <1>3, <2>1, <2>2, <2>4, Zenon
  <2>6. \A d \in P : at[BView(d)] = d
    <3>1. SUFFICES ASSUME NEW d \in P PROVE at[BView(d)] = d
      BY Zenon
    <3>2. PICK f : f = at[BView(d)]
      BY Zenon
    <3>3. f # ZeroHash /\ f \in stored[r] \cup got /\ BView(f) = BView(d)
      <4>1. ~ (BView(d) <= e)
        BY <1>4, <2>5, Order, Zenon
      <4> QED
        BY <1>4, <1>13, <2>5, <3>2, <4>1, Zenon DEF IsIndex
    <3>4. f \in Passed(r)
      BY <1>3, <2>1, <2>4, <2>5, <3>3, Zenon
    <3> QED
      BY <1>18, <2>2, <3>2, <3>3, <3>4, Zenon
  <2>7. path[b] \subseteq P /\ b \in path[b]
    <3>1. path[b] \subseteq P
      BY <1>3, <1>10, <1>12, <2>1, <2>2, <2>4, Zenon
    <3>2. b \in path[b]
      BY <1>1, <1>3, <1>9, <2>4, Zenon DEF IsPath
    <3> QED
      BY <3>1, <3>2, Zenon
  <2>8. PICK walk : kept = walk[height] /\ IsWalk(walk, at, stored[r] \cup got, pruned)
    <3>1. kept = CommittedViews(height, at, stored[r] \cup got, pruned)
      BY <1>3, <2>4, Zenon
    <3>2. height \in View /\ stored[r] \cup got \in SUBSET BlockId
      BY <1>4, <1>5, <1>12, Zenon
    <3> QED
      BY <3>1, <3>2, PrunedWalk, Zenon
  <2>9. c \in path[b] <=> BView(c) \in walk[BView(b)]
    <3>1. IsIndex(at, BlockId)
      BY <1>5, <1>12, <1>13, Zenon DEF IsIndex
    <3>2. \A d \in P : e < BView(d) /\ at[BView(d)] = d
      BY <2>5, <2>6, Zenon
    <3>3. \A x \in path[b] : parentOf[x] \in K => parentOf[x] \in stored[r] \cup got
      BY <1>12, Zenon
    <3>4. PICK K2 : K2 = stored[r] \cup got
      BY Zenon
    <3>5. K2 \in SUBSET K /\ IsWalk(walk, at, K2, pruned)
          /\ \A x \in path[b] : parentOf[x] \in K => parentOf[x] \in K2
      BY <1>12, <2>8, <3>3, <3>4, Zenon
    <3>6. /\ K \in SUBSET BlockId /\ e \in Nat /\ pruned \in Nat /\ pruned <= e
          /\ ParentsOlder /\ IsPath(path, K, e) /\ path[b] \subseteq P /\ b \in BlockId
          /\ P \in SUBSET BlockId /\ LeastNumbers
      BY <1>1, <1>4, <1>5, <1>8, <1>9, <2>7, Zenon
    <3>7. WalkAgrees(path, walk, b, P)
      BY <3>1, <3>2, <3>5, <3>6, WalksAgree, ZenonT(60)
    <3> QED
      BY <2>3, <2>7, <3>7, Zenon DEF WalkAgrees
  <2>10. c \notin executed[r] /\ c \notin forked[r]
    BY <1>4, <1>8, <2>3, <2>5, Order, Zenon
  <2>11. c \in executed'[r] <=> BView(c) \in kept
    BY <1>3, <1>6, <1>11, <2>8, <2>9, <2>10, Zenon
  <2>12. c \in forked'[r] <=> BView(c) \notin kept
    <3>1. BView(c) \in gone
      BY <1>4, <1>8, <1>14, <2>3, <2>5, Order, Zenon
    <3>2. \A v \in gone : c = at[v] => v = BView(c)
      BY <1>4, <1>13, <1>16, <2>3, Zenon DEF IsIndex
    <3>3. c = at[BView(c)] /\ c # ZeroHash
      BY <1>4, <2>3, <2>6, Zenon
    <3> QED
      BY <1>6, <2>10, <3>1, <3>2, <3>3, Zenon
  <2> QED
    BY <2>11, <2>12, Zenon
<1> QED
  BY <1>7, <1>17, <1>18, Zenon

\* The invariant of the commits is inductive, and every step settles the blocks
\* that it passes.
LEMMA CommitStep ==
    ASSUME LeastNumbers, SafetyInv, HandlerInv, CommitInv, [Next]_vars
    PROVE  /\ CommitInv'
           /\ \A r \in Replica :
                (\A b, c \in Passed(r) : BView(b) = BView(c) => b = c) =>
                   \A b \in Passed(r) : (b \in executed'[r]) # (b \in forked'[r])
<1>1. TypeOK /\ Catching /\ ParentsOlder /\ \A o \in Replica : ChainOK(o)
  BY Zenon DEF SafetyInv, CommitInv
<1>2. Catching' /\ ParentsOlder'
  BY <1>1, CatchingStep, OlderStep, Zenon
<1>3. CASE Commit
  <2>1. calls[1].b \in stored[calls[1].r]
    <3>1. calls # <<>> /\ calls[1].fn = "commit"
      BY <1>3, Zenon DEF Commit, Running
    <3> QED
      BY <1>1, <3>1, RunningGood, Zenon DEF GoodCalls
  <2> QED
    BY <1>1, <1>2, <1>3, <2>1, CommitChain, Zenon DEF CommitInv
<1>4. CASE UNCHANGED <<bExec, executed, forked>> /\ ~ Commit
  <2>1. \A o \in Replica : ChainOK(o)'
    <3>1. CASE UNCHANGED chainVars
      BY <1>1, <1>4, <3>1, Zenon DEF ChainOK
    <3>2. ASSUME NEW r \in Replica, NEW K \in Known(r), NEW new \in SUBSET BlockId, NEW asked,
                 Keep(r, K, asked, new)
          PROVE  \A o \in Replica : ChainOK(o)'
      BY <1>1, <1>4, <3>2, KeepChain, Zenon
    <3> QED
      BY <1>1, <1>4, <3>1, <3>2, ChainSteps, Zenon
  <2>2. \A r \in Replica : Passed(r) = {}
    <3>1. SUFFICES ASSUME NEW r \in Replica, NEW c \in Passed(r) PROVE FALSE
      BY Zenon
    <3>2. /\ bExec[r] \in BlockId /\ c \in BlockId
          /\ BView(bExec[r]) < BView(c) /\ BView(c) <= BView(bExec[r])
      <4>1. TypeOK'
        BY StepFacts, Zenon
      <4> QED
        BY <1>1, <1>4, <3>1, <4>1, Zenon DEF Passed, TypeOK
    <3> QED
      BY <3>2, BlockTypes, Order, Zenon
  <2> QED
    BY <1>2, <2>1, <2>2, Zenon DEF CommitInv
<1> QED
  BY <1>1, <1>3, <1>4, ChainSteps, Zenon

-----------------------------------------------------------------------------
(***************************************************************************)
(* Quorums.  The library of finite sets is brought in after all that can   *)
(* do without it.  It defines IsFiniteSet and Cardinality anew: Finite and *)
(* Size are those of HotStuff.                                             *)
(***************************************************************************)

Finite(S) == IsFiniteSet(S)

Size(S) == Cardinality(S)

\* What the definitions of FiniteSets say.
LEMMA FiniteMeans ==
    \A S : Finite(S) <=> \E seq \in Seq(S) : \A s \in S : \E n \in 1..Len(seq) : seq[n] = s
BY Zenon DEF Finite, IsFiniteSet

\* The members are counted one at a time.
LEMMA SizeMeans ==
    \A S : Size(S) = LET CS[T \in SUBSET S] ==
                           IF T = {} THEN 0 ELSE 1 + CS[T \ {CHOOSE x : x \in T}]
                     IN  CS[S]
BY Zenon DEF Size, Cardinality

\* What quorums need of finite sets, see SetFactsHold.
SetFacts ==
    \A U : Finite(U) =>
        /\ Size(U) \in Nat
        /\ Size(U) = 0 => U = {}
        /\ \A S \in SUBSET U : Finite(S) /\ Size(S) <= Size(U)
        /\ \A S, T \in SUBSET U : Size(S) + Size(T) > Size(U) => S \cap T # {}

\* Any two quorums of replicas have a member in common, and a set that includes
\* a quorum is one.
LEMMA QuorumsMeet ==
    ASSUME SetFacts
    PROVE  QuorumsShare /\ QuorumsGrow
<1>1. Finite(Replica) /\ Replica # {}
  BY ConstantsAssumption, Zenon DEF Finite
<1>2. N \in Nat /\ N # 0
  BY <1>1, Zenon DEF SetFacts, Size, N
<1>3. ASSUME NEW S \in SUBSET Replica
      PROVE  Finite(S) /\ Cardinality(S) \in Nat
  BY <1>1, Zenon DEF SetFacts, Size
<1>4. ASSUME NEW S \in SUBSET Replica, NEW T \in SUBSET Replica,
             Cardinality(S) >= QuorumSize, Cardinality(T) >= QuorumSize
      PROVE  S \cap T # {}
  <2>1. Cardinality(S) + Cardinality(T) > N
    BY <1>2, <1>3, <1>4, QuorumNumbers, Zenon
  <2> QED
    BY <1>1, <2>1, Zenon DEF SetFacts, Size, N
<1>5. ASSUME NEW S \in SUBSET Replica, NEW T \in SUBSET Replica, S \subseteq T,
             Cardinality(S) >= QuorumSize
      PROVE  Cardinality(T) >= QuorumSize
  <2>1. S \in SUBSET T
    BY <1>5, Zenon
  <2>2. Cardinality(S) <= Cardinality(T)
    BY <1>3, <2>1, Zenon DEF SetFacts, Size
  <2>3. Cardinality(S) \in Nat /\ Cardinality(T) \in Nat
    BY <1>3, Zenon
  <2> QED
    BY <1>2, <1>5, <2>2, <2>3, QuorumNumbers, Zenon
<1> QED
  BY <1>4, <1>5, Zenon DEF QuorumsShare, QuorumsGrow

LOCAL INSTANCE FiniteSetTheorems

\* The facts hold.
LEMMA SetFactsHold == SetFacts
<1>1. \A S : Finite(S) <=> IsFiniteSet(S)
  BY FiniteMeans, Zenon DEF IsFiniteSet
<1>2. \A S : Size(S) = Cardinality(S)
  BY SizeMeans, Zenon DEF Cardinality
<1>3. SUFFICES ASSUME NEW U, IsFiniteSet(U)
               PROVE  /\ Cardinality(U) \in Nat
                      /\ Cardinality(U) = 0 => U = {}
                      /\ \A S \in SUBSET U : IsFiniteSet(S) /\ Cardinality(S) <= Cardinality(U)
                      /\ \A S, T \in SUBSET U :
                           Cardinality(S) + Cardinality(T) > Cardinality(U) => S \cap T # {}
  BY <1>1, <1>2, Zenon DEF SetFacts
<1>4. Cardinality(U) \in Nat
  BY <1>3, FS_CardinalityType, Zenon
<1>5. Cardinality(U) = 0 => U = {}
  BY <1>3, FS_EmptySet, Zenon
<1>6. \A S \in SUBSET U : IsFiniteSet(S) /\ Cardinality(S) <= Cardinality(U)
  BY <1>3, FS_Subset, Zenon
<1>7. ASSUME NEW S \in SUBSET U, NEW T \in SUBSET U,
             Cardinality(S) + Cardinality(T) > Cardinality(U)
      PROVE  S \cap T # {}
  <2>1. S \subseteq U /\ T \subseteq U
    BY Zenon
  <2> QED
    BY <1>3, <1>7, <2>1, FS_MajoritiesIntersect, ZenonT(40)
<1> QED
  BY <1>4, <1>5, <1>6, <1>7, Zenon

\* Every non-empty set of numbers has a least one.
LEMMA LeastNumbersHold == LeastNumbers
<1> SUFFICES ASSUME NEW S \in SUBSET Nat, S # {} PROVE \E n \in S : \A m \in S : n <= m
  BY Zenon DEF LeastNumbers
<1>1. PICK n \in S : \A m \in S : <<m, n>> \notin OpToRel(<, Nat)
  BY NatLessThanWellFounded, WFMin, Zenon
<1>2. \A m \in S : ~ (m < n)
  BY <1>1, Zenon DEF OpToRel
<1> QED
  BY <1>2

-----------------------------------------------------------------------------
(* The theorems *)

\* At most one block of a view gathers a quorum of votes, for any rotation of
\* the leaders: two quorums share a replica, and OnPropose lets it vote once.
THEOREM OneQC == Spec => []OneQCPerView
<1>1. TypeOK /\ SignaturesBounded => OneQCPerView
  BY OneCertified, QuorumsMeet, SetFactsHold, Zenon
<1> QED
  BY <1>1, BoundedAlways, PTL

\* The invariant is inductive.
LEMMA SafetyAlways == Spec => []SafetyInv
<1>1. SafetyInv /\ [Next]_vars => SafetyInv'
  BY SafetyStep, QuorumsMeet, SetFactsHold, Zenon
<1> QED
  BY SafetyInit, <1>1, PTL DEF Spec

\* Every certificate kept by a replica, carried by a block or brought by a
\* message was signed by a quorum, for any number of replicas and views, any
\* rotation and any loss of order: verifyCert and OnRemoteTimeout count only
\* genuine votes and timeouts of one block or view.
THEOREM Backing == Spec => []CertificatesBacked
<1>1. SafetyInv => CertificatesBacked
  BY SafetyBacked, ZenonT(40)
<1> QED
  BY <1>1, SafetyAlways, PTL

\* A replica is in no view before a quorum voted for a block of the view before
\* it or timed out in it: AdvanceView follows backed certificates only.
THEOREM Earned == Spec => []ViewsEarned
<1>1. SafetyInv => ViewsEarned
  BY Zenon DEF SafetyInv
<1> QED
  BY <1>1, SafetyAlways, PTL

\* The block of highQC, the lock and the last executed block stay in the
\* replica's chain, so that UpdateHighQC never panics over a missing block.
THEOREM ReferredStored == Spec => []ReferredBlocksStored
<1>1. SafetyInv => ReferredBlocksStored
  BY Zenon DEF SafetyInv
<1> QED
  BY <1>1, SafetyAlways, PTL

\* A commit settles the stored blocks that it passes, for any number of
\* replicas, views and blocks, whatever the Get calls find: the path that
\* commitInner executes and the views that PruneToHeight finds by way of
\* blockAtHeight agree where a view has one stored block.
THEOREM CommitsSettle == Spec => CommitSettles
<1>1. SafetyInv /\ HandlerInv /\ CommitInv /\ [Next]_vars =>
        /\ CommitInv'
        /\ [\A r \in Replica :
              (\A b, c \in Passed(r) : BView(b) = BView(c) => b = c) =>
                 \A b \in Passed(r) : (b \in executed'[r]) # (b \in forked'[r])]_vars
  BY CommitStep, LeastNumbersHold, Zenon
<1>2. Init => CommitInv
  BY CommitInit, Zenon
<1> QED
  BY <1>1, <1>2, SafetyAlways, HandlerAlways, PTL DEF Spec, CommitSettles

\* The replicas implement Voting, for any number of replicas and views, any
\* rotation and either rule set: the handlers of the Synchronizer and of
\* consensusBase sign and enter views only as it allows.
THEOREM Implements == Spec => ImplementsVoting
<1>1. Init => Abstract!Start
  BY Zenon DEF Init, Abstract!Start
<1>2. SafetyInv /\ SafetyInv' /\ [Next]_vars => [Abstract!Step]_Abstract!abstractVars
  BY StepImplements, Zenon
<1> QED
  BY <1>1, <1>2, SafetyAlways, PTL DEF Spec, ImplementsVoting, Abstract!Promise

=============================================================================
