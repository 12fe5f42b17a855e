---------------------------- MODULE Certificates ----------------------------
(***************************************************************************)
(* The certificates of crypto/base.go, their conversion to protocol        *)
(* buffers, and the messages that carry them.  A block is named by its     *)
(* view, 0 is the genesis block.  Verification is given as what the        *)
(* schemes answer; module CryptoCache adds the cache.                      *)
(***************************************************************************)
EXTENDS Signatures

BlockHash(b) == <<"block", b>>

ViewHash(v) == <<"view", v>>

QC(sig, view, hash) == [sig |-> sig, view |-> view, hash |-> hash]

GenesisQC == QC(Nil, 0, BlockHash(0))

\* CreateQuorumCert of the threshold signature made of the partial ones.
CreateQuorumCert(b, sig) == IF b = 0 THEN GenesisQC ELSE QC(sig, b, BlockHash(b))

VerifyQuorumCert(qc) ==
    qc.hash = BlockHash(0) \/ VerifyThreshold(qc.sig, qc.hash)

QCBytes(qc) ==
    <<qc.view, qc.hash, IF qc.sig = Nil THEN {} ELSE ThresholdBytes(qc.sig)>>

\* A vote: the signature of a block.
PartialCert(sig, hash) == [sig |-> sig, hash |-> hash]

CreatePartialCert(scheme, id, b) ==
    PartialCert(Sign(scheme, id, BlockHash(b)), BlockHash(b))

TC(sig, view) == [sig |-> sig, view |-> view]

VerifyTimeoutCert(tc) ==
    tc.view = 0 \/ VerifyThreshold(tc.sig, ViewHash(tc.view))

\* SyncInfo: of each kind of certificate at most one.
NewSyncInfo == [qc |-> {}, tc |-> {}, agg |-> {}]

WithQC(si, qc) == [si EXCEPT !.qc = {qc}]

WithTC(si, tc) == [si EXCEPT !.tc = {tc}]

WithAggQC(si, agg) == [si EXCEPT !.agg = {agg}]

\* Synchronizer.SyncInfo: a TC no newer than the QC is left out.
SyncInfo(qc, tc) ==
    IF qc.view >= tc.view THEN WithQC(NewSyncInfo, qc)
    ELSE WithTC(WithQC(NewSyncInfo, qc), tc)

\* TimeoutMsg.Hash: the view, the block of the QC and the ID.
TimeoutHash(id, view, qcs) == <<"timeout", view, {qc.hash : qc \in qcs}, id>>

\* The timeout of a replica, with both signatures.
Timeout(scheme, id, view, si) ==
    [id |-> id, view |-> view, si |-> si,
     viewSig |-> Sign(scheme, id, ViewHash(view)),
     msgSig |-> Sign(scheme, id, TimeoutHash(id, view, si.qc))]

AggQC(qcs, sig, view) == [qcs |-> qcs, sig |-> sig, view |-> view]

\* The map from the IDs of the timeouts that have a QC to the QC.
QCsByID(timeouts) ==
    [id \in {t.id : t \in {u \in timeouts : u.si.qc # {}}} |->
        CHOOSE qc \in UNION {t.si.qc : t \in {u \in timeouts : u.id = id}} : TRUE]

\* CreateAggregateQC of the threshold signature of the message signatures.
CreateAggregateQC(view, timeouts, sig) == AggQC(QCsByID(timeouts), sig, view)

\* VerifyAggregateQC: the hashes of the timeouts, made again from the QCs.
AggregateHashes(agg) ==
    [id \in DOMAIN agg.qcs |-> TimeoutHash(id, agg.view, {agg.qcs[id]})]

\* Which QC of the highest view is found depends on the order of the map.
HighestQCs(qcs) == {qc \in ValuesOf(qcs) : \A o \in ValuesOf(qcs) : qc.view >= o.view}

VerifyAggregateQC(agg) == VerifyMessageSet(agg.sig, AggregateHashes(agg))

-----------------------------------------------------------------------------
(* Blocks and proposals *)

BlockBytes(parent, qc, view, proposer) == <<parent, proposer, view, QCBytes(qc)>>

\* The hash of a block is made of the bytes of all its fields.
NewBlock(parent, qc, view, proposer) ==
    [parent |-> parent, qc |-> qc, view |-> view, proposer |-> proposer,
     hash |-> <<"block", BlockBytes(parent, qc, view, proposer)>>]

\* ProposeMsg; the aggregate QC is there for Fast-HotStuff only.
Proposal(block, agg) == [block |-> block, agg |-> agg]

-----------------------------------------------------------------------------
(* Protocol buffers *)

PartialCertToProto(pc) == [sig |-> SignatureToProto(pc.sig), hash |-> pc.hash]

PartialCertFromProto(m) == PartialCert(SignatureFromProto(m.sig), m.hash)

QCToProto(qc) == [sig |-> ThresholdToProto(qc.sig), view |-> qc.view, hash |-> qc.hash]

QCFromProto(m) == QC(ThresholdFromProto(m.sig), m.view, m.hash)

TCToProto(tc) == [sig |-> ThresholdToProto(tc.sig), view |-> tc.view]

TCFromProto(m) == TC(ThresholdFromProto(m.sig), m.view)

AggQCToProto(agg) ==
    [qcs |-> [id \in DOMAIN agg.qcs |-> QCToProto(agg.qcs[id])],
     sig |-> ThresholdToProto(agg.sig), view |-> agg.view]

AggQCFromProto(m) ==
    AggQC([id \in DOMAIN m.qcs |-> QCFromProto(m.qcs[id])],
          ThresholdFromProto(m.sig), m.view)

SyncInfoToProto(si) ==
    [qc |-> {QCToProto(qc) : qc \in si.qc},
     tc |-> {TCToProto(tc) : tc \in si.tc},
     agg |-> {AggQCToProto(agg) : agg \in si.agg}]

SyncInfoFromProto(m) ==
    [qc |-> {QCFromProto(qc) : qc \in m.qc},
     tc |-> {TCFromProto(tc) : tc \in m.tc},
     agg |-> {AggQCFromProto(agg) : agg \in m.agg}]

\* The hash is not sent: the receiver makes it again.
BlockToProto(block) ==
    [parent |-> block.parent, qc |-> QCToProto(block.qc),
     view |-> block.view, proposer |-> block.proposer]

BlockFromProto(m) == NewBlock(m.parent, QCFromProto(m.qc), m.view, m.proposer)

ProposalToProto(p) ==
    [block |-> BlockToProto(p.block), agg |-> {AggQCToProto(agg) : agg \in p.agg}]

ProposalFromProto(m) ==
    Proposal(BlockFromProto(m.block), {AggQCFromProto(agg) : agg \in m.agg})

\* A timeout on the wire has no ID: the server takes that of the connection.
TimeoutToProto(t) ==
    [view |-> t.view, si |-> SyncInfoToProto(t.si),
     viewSig |-> SignatureToProto(t.viewSig), msgSig |-> SignatureToProto(t.msgSig)]

TimeoutFromProto(id, m) ==
    [id |-> id, view |-> m.view, si |-> SyncInfoFromProto(m.si),
     viewSig |-> SignatureFromProto(m.viewSig), msgSig |-> SignatureFromProto(m.msgSig)]
=============================================================================
