---------------------------- MODULE CryptoCache -----------------------------
(***************************************************************************)
(* The cached crypto of the replica Self (crypto/cache.go over ecdsa or    *)
(* bls12): an LRU cache of the signatures that were found valid, shared by *)
(* the goroutines that verify votes, by the event loop, and by the         *)
(* goroutines that ecdsa starts for the parts of a threshold signature.    *)
(* Self collects the votes for block 1, or the timeouts of view 2, makes   *)
(* certificates of them, and verifies its own and those of other replicas. *)
(* Every message and certificate passes the conversions of the wire.       *)
(***************************************************************************)
EXTENDS Certificates

CONSTANTS
    Self,
    Capacity,       \* of the cache
    QuorumFor,      \* the voters of the QC for block 1 that a replica has, if any
    LateSets,       \* the sets of replicas that may still have the genesis QC
    PeerQuorums,    \* the quorums that other replicas make certificates of
    LeftOut,        \* the replicas that a certificate may be sent without
    Senders,        \* bound: the replicas whose messages arrive
    MaxVerifies,    \* bound: the verifications of certificates
    MaxRunning      \* bound: the votes that are verified at the same time

ASSUME CacheAssumption ==
    /\ Self \in Replica
    /\ Capacity \in Nat \ {0}
    /\ MaxVerifies \in Nat
    /\ MaxRunning \in Nat
    /\ LateSets \subseteq SUBSET Replica
    /\ \A q \in PeerQuorums : q \subseteq Replica /\ Cardinality(q) = QuorumSize
    /\ LeftOut \subseteq Replica
    /\ Senders \subseteq Replica
    /\ \A id \in Replica : QuorumFor[id] \subseteq Replica

VARIABLES
    setting,        \* the scheme, and what Self collects: it never changes
    entries,        \* cache.entries
    accessOrder,    \* cache.accessOrder, the front first
    signed,         \* how many of its own hashes Self has signed
    seen,           \* the replicas whose messages are taken
    running,        \* the calls of Verify that run
    verified,       \* the replicas whose messages are verified
    job,            \* the certificate that is made or verified, or NoJob
    made,           \* the certificates that Self made, as others get them
    verdicts        \* the certificates that Self verified, and the answers

vars == <<setting, entries, accessOrder, signed, seen, running,
          verified, job, made, verdicts>>

View == 2

-----------------------------------------------------------------------------
(* The cache *)

Key(hash, bytes) == <<hash, bytes>>

\* insert, check and evict run under the mutex.
MoveToFront(key) ==
    LET at == CHOOSE i \in DOMAIN accessOrder : accessOrder[i] = key
    IN  <<key>> \o SubSeq(accessOrder, 1, at - 1)
                \o SubSeq(accessOrder, at + 1, Len(accessOrder))

\* evict returns without effect as long as there is room.
IsFull == ~(Cardinality(entries) < Capacity)

PushFront(key) ==
    /\ accessOrder' = <<key>> \o
           SubSeq(accessOrder, 1, Len(accessOrder) - (IF IsFull THEN 1 ELSE 0))
    /\ entries' = {key} \cup
           (entries \ (IF IsFull THEN {accessOrder[Len(accessOrder)]} ELSE {}))

InsertAlways(key) == PushFront(key)

Insert(key) ==
    IF key \in entries
    THEN /\ accessOrder' = MoveToFront(key)
         /\ UNCHANGED entries
    ELSE PushFront(key)

\* check, if it finds the key and if it does not.
Hit(key) ==
    /\ key \in entries
    /\ accessOrder' = MoveToFront(key)
    /\ UNCHANGED entries

Miss(key) ==
    /\ key \notin entries
    /\ UNCHANGED <<entries, accessOrder>>

-----------------------------------------------------------------------------
(* Messages *)

\* The schemes, what is collected, and who still has the genesis QC.
Settings ==
    [scheme : Schemes, kind : {"vote"}, late : {{}}] \cup
    [scheme : Schemes, kind : {"timeout"}, late : LateSets]

\* The QC for block 1 that a replica has.
VotedQC ==
    [scheme \in Schemes, id \in Replica |->
        LET sigs == {Sign(scheme, v, BlockHash(1)) : v \in QuorumFor[id]}
        IN  CreateQuorumCert(1, CreateThreshold(scheme, sigs, sigs))]

HighQC(x, id) == IF id \in x.late THEN GenesisQC ELSE VotedQC[x.scheme, id]

Quorums == {q \in SUBSET Replica : Cardinality(q) = QuorumSize}

\* The TC of view 1, by which a replica without the QC came to view 2.
HighTC ==
    [scheme \in Schemes |->
        LET sigs == {Sign(scheme, v, ViewHash(1)) : v \in CHOOSE q \in Quorums : TRUE}
        IN  TC(CreateThreshold(scheme, sigs, sigs), 1)]

\* The timeout of a replica, as it arrives.
TimeoutOf ==
    [x \in Settings, id \in Replica |->
        TimeoutFromProto(id, TimeoutToProto(Timeout(x.scheme, id, View,
            SyncInfo(HighQC(x, id), HighTC[x.scheme]))))]

\* The signature that is verified when the message of a replica arrives.
Signature ==
    [x \in Settings, id \in Replica |->
        IF x.kind = "vote"
        THEN PartialCertFromProto(PartialCertToProto(CreatePartialCert(x.scheme, id, 1))).sig
        ELSE TimeoutOf[x, id].viewSig]

\* The hashes that Self signs, in order.
OwnHashes ==
    IF setting.kind = "vote" THEN <<BlockHash(1)>>
    ELSE <<ViewHash(View), TimeoutHash(Self, View, TimeoutOf[setting, Self].si.qc)>>

MessageHash == IF setting.kind = "vote" THEN BlockHash(1) ELSE ViewHash(View)

-----------------------------------------------------------------------------
(* Certificates *)

Cert(type, c) == [type |-> type, c |-> c]

\* The threshold signature of signatures that all are valid.
Threshold(x, sigs) == CreateThreshold(x.scheme, sigs, sigs)

\* The certificates that a replica makes of the messages of a quorum.  The
\* aggregate QC gets the replica's own view, which a timeout can be ahead of.
CertsOf ==
    [x \in Settings, ids \in Quorums |->
        LET timeouts == {TimeoutOf[x, id] : id \in ids}
        IN  IF x.kind = "vote"
            THEN {Cert("qc", CreateQuorumCert(1, Threshold(x, {Signature[x, id] : id \in ids})))}
            ELSE {Cert("tc", TC(Threshold(x, {t.viewSig : t \in timeouts}), View))} \cup
                 {Cert("agg", CreateAggregateQC(v, timeouts,
                                  Threshold(x, {t.msgSig : t \in timeouts}))) :
                      v \in {View - 1, View}}]

\* A threshold signature that nobody has checked.
Unchecked(x, sigs) == IF x.scheme = "ecdsa" THEN EcdsaThreshold(sigs) ELSE Aggregate(sigs)

\* The certificates of a quorum that a replica is left out of: its signature,
\* and, of an aggregate QC, its QC, its signature or both.
IncompleteCerts ==
    [x \in Settings, q \in Quorums, id \in Replica |->
        LET rest == q \ {id}
            T(ids) == {TimeoutOf[x, i] : i \in ids}
        IN  IF x.kind = "vote"
            THEN {Cert("qc", CreateQuorumCert(1, Unchecked(x, {Signature[x, i] : i \in rest})))}
            ELSE {Cert("tc", TC(Unchecked(x, {t.viewSig : t \in T(rest)}), View))} \cup
                 {Cert("agg", CreateAggregateQC(View, T(parts[1]),
                                  Unchecked(x, {t.msgSig : t \in T(parts[2])}))) :
                      parts \in {<<q, rest>>, <<rest, q>>, <<rest, rest>>}}]

\* The block that a leader proposes with a QC.
BlockWith(qc) == NewBlock(qc.hash, qc, View, Self)

SendSyncInfo(si) == SyncInfoFromProto(SyncInfoToProto(si))

SendProposal(p) == ProposalFromProto(ProposalToProto(p))

\* A QC is sent in a block, a TC in a SyncInfo, and an aggregate QC first in a
\* SyncInfo to the leader and then in its proposal (next to the QC of a block,
\* here that of genesis).
OverWire(cert) ==
    CASE cert.type = "qc" -> Cert("qc", SendProposal(Proposal(BlockWith(cert.c), {})).block.qc)
      [] cert.type = "tc" ->
           Cert("tc", CHOOSE tc \in SendSyncInfo(WithTC(NewSyncInfo, cert.c)).tc : TRUE)
      [] cert.type = "agg" ->
           LET si == SendSyncInfo(WithAggQC(NewSyncInfo, cert.c))
               p == SendProposal(Proposal(BlockWith(GenesisQC), si.agg))
           IN  Cert("agg", CHOOSE agg \in p.agg : TRUE)

\* The hash, or the hashes, that the signature of the certificate is over.
CertHash(cert) ==
    CASE cert.type = "qc" -> cert.c.hash
      [] cert.type = "tc" -> ViewHash(cert.c.view)
      [] cert.type = "agg" -> AggregateHashes(cert.c)

\* The key of a message set depends on the order of the map: 1 is one order
\* and 2 is any other.
CertKeys(cert) ==
    IF cert.type = "agg"
    THEN {Key(<<"set", CertHash(cert), order>>, ThresholdBytes(cert.c.sig)) : order \in 1..2}
    ELSE {Key(CertHash(cert), ThresholdBytes(cert.c.sig))}

\* The genesis QC is valid without a signature.
AlwaysValid(cert) == cert.type = "qc" /\ cert.c.hash = BlockHash(0)

\* What the scheme answers for the certificate.
ImplAnswer(cert) ==
    IF cert.type = "agg" THEN VerifyMessageSet(cert.c.sig, CertHash(cert))
    ELSE AlwaysValid(cert) \/ VerifyThreshold(cert.c.sig, CertHash(cert))

\* The calls of Verify that ecdsa makes for the parts of a threshold signature.
Parts(cert) ==
    IF cert.c.sig.type # "ecdsa" THEN {}
    ELSE IF cert.type = "agg"
    THEN {[sig |-> SignatureOf(cert.c.sig, id), hash |-> CertHash(cert)[id]] :
              id \in DOMAIN CertHash(cert) \cap Participants(cert.c.sig)}
    ELSE {[sig |-> s, hash |-> CertHash(cert)] : s \in cert.c.sig.sigs}

IsEcdsa == setting.scheme = "ecdsa"

NoJob == [step |-> "none"]

Verify(sig, hash, of) == [sig |-> sig, hash |-> hash, of |-> of, step |-> "check"]

\* A call whose result is still waited for.
Waited == {call \in running : call.of # "lost"}

CallKey(call) == Key(call.hash, SigBytes(call.sig))

-----------------------------------------------------------------------------
Init ==
    /\ setting \in Settings
    /\ entries = {} /\ accessOrder = <<>>
    /\ signed = 0
    /\ seen = {} /\ running = {} /\ verified = {}
    /\ job = NoJob
    /\ made = {} /\ verdicts = {}

\* Sign: the signature that Self made is in the cache.
SignOwn ==
    /\ signed < Len(OwnHashes)
    /\ setting.kind = "timeout" => job = NoJob /\ Waited = {}
    /\ signed' = signed + 1
    /\ LET hash == OwnHashes[signed + 1]
       IN  Insert(Key(hash, SigBytes(Sign(setting.scheme, Self, hash))))
    /\ UNCHANGED <<setting, seen, running, verified, job, made, verdicts>>

\* onLocalTimeout is between its two signatures.
Signing == signed \notin {0, Len(OwnHashes)}

\* Timeouts and certificates are verified by the event loop, each vote by a
\* goroutine of its own.  Timeouts after the first quorum are too late.
CanVerifyMessage ==
    IF setting.kind = "vote" THEN Cardinality({c \in running : c.of = "message"}) < MaxRunning
    ELSE job = NoJob /\ Waited = {} /\ ~Signing /\ Cardinality(verified) < QuorumSize

CanStartJob == job = NoJob /\ ~Signing /\ (setting.kind = "timeout" => Waited = {})

\* A message arrives and a call of Verify starts.
Arrive(id) ==
    /\ CanVerifyMessage
    /\ id \notin seen
    /\ id = Self => signed = Len(OwnHashes)
    /\ seen' = seen \cup {id}
    /\ running' = running \cup {Verify(Signature[setting, id], MessageHash, "message")}
    /\ UNCHANGED <<setting, entries, accessOrder, signed, verified, job,
                   made, verdicts>>

\* A call of Verify returns its answer.
Return(call, ok) ==
    /\ running' = running \ {call}
    /\ verified' = IF call.of = "message" /\ ok THEN verified \cup {call.sig.signer} ELSE verified
    /\ job' = IF call.of = "job"
              THEN [job EXCEPT !.results = @ + 1,
                               !.valid = IF ok THEN @ \cup {call.sig} ELSE @]
              ELSE job

VerifyHit(call) ==
    /\ call.step = "check"
    /\ Hit(CallKey(call))
    /\ Return(call, TRUE)
    /\ UNCHANGED <<setting, signed, seen, made, verdicts>>

VerifyMiss(call) ==
    /\ call.step = "check"
    /\ Miss(CallKey(call))
    /\ running' = (running \ {call}) \cup {[call EXCEPT !.step = "miss"]}
    /\ UNCHANGED <<setting, signed, seen, verified, job, made, verdicts>>


VerifyReturns(call) ==
    /\ call.step = "miss"
    /\ IF ImplVerify(call.sig, call.hash)
       THEN Insert(CallKey(call)) /\ Return(call, TRUE)
       ELSE Return(call, FALSE) /\ UNCHANGED <<entries, accessOrder>>
    /\ UNCHANGED <<setting, signed, seen, made, verdicts>>

-----------------------------------------------------------------------------
(* Making certificates *)

Job(op, cert, todo) ==
    [step |-> op, cert |-> cert, of |-> cert, key |-> <<>>,
     todo |-> todo, results |-> 0, valid |-> {}]

\* The signatures in an aggregate QC are over the view of the timeouts.
AsSigned(cert) == IF cert.type = "agg" THEN [cert EXCEPT !.c.view = View] ELSE cert

\* With a quorum of messages Self makes a certificate, an aggregate QC after a
\* TC.  ecdsa verifies the parts once more, one after the other, through the
\* cache.
StartCreate ==
    /\ CanStartJob
    /\ \E q \in Quorums \cap SUBSET verified : \E cert \in CertsOf[setting, q] :
         /\ \A c \in made : c.type # cert.type
         /\ cert.type = "agg" => made # {}
         /\ job' = Job("create", cert, Parts(AsSigned(cert)))
    /\ UNCHANGED <<setting, entries, accessOrder, signed, seen, running,
                   verified, made, verdicts>>

StartPartAgain(part) ==
    /\ job # NoJob
    /\ part \in job.todo
    /\ job.step = "create" => \A call \in running : call.of # "job"
    /\ job.step \in {"create", "parts"}
    /\ running' = running \cup {Verify(part.sig, part.hash, "job")}
    /\ UNCHANGED job
    /\ UNCHANGED <<setting, entries, accessOrder, signed, seen, verified,
                   made, verdicts>>

\* A call for the next part, or, when a certificate is verified, for any part.
StartPart(part) ==
    /\ job # NoJob
    /\ part \in job.todo
    /\ job.step = "create" => \A call \in running : call.of # "job"
    /\ job.step \in {"create", "parts"}
    /\ running' = running \cup {Verify(part.sig, part.hash, "job")}
    /\ job' = [job EXCEPT !.todo = @ \ {part}]
    /\ UNCHANGED <<setting, entries, accessOrder, signed, seen, verified,
                   made, verdicts>>

\* The signature is put in the cache; without a quorum there is an error.
EndCreate ==
    /\ job # NoJob
    /\ job.step = "create"
    /\ job.todo = {}
    /\ \A call \in running : call.of # "job"
    /\ LET sig == IF IsEcdsa THEN Threshold(setting, job.valid)
                  ELSE job.cert.c.sig
           cert == [job.cert EXCEPT !.c.sig = sig]
       IN  IF sig = Nil
           THEN UNCHANGED <<entries, accessOrder, made>>
           ELSE /\ made' = made \cup {OverWire(cert)}
                /\ \E key \in CertKeys(AsSigned(cert)) : Insert(key)
    /\ job' = NoJob
    /\ UNCHANGED <<setting, signed, seen, running, verified, verdicts>>

-----------------------------------------------------------------------------
(* Verifying certificates *)

\* The certificates that arrive from other replicas, and those of Self.
PeerCerts ==
    [x \in Settings |->
        {OverWire(c) : c \in UNION
            {CertsOf[x, q] \cup UNION {IncompleteCerts[x, q, id] : id \in LeftOut \cap q} :
                q \in PeerQuorums}}]

Arriving == PeerCerts[setting] \cup made

\* ecdsa answers without a result: too few signatures, two equal hashes, or a
\* hash whose signature is missing.
Refused(cert) ==
    /\ cert.c.sig.type = "ecdsa"
    /\ IF cert.type = "agg"
       THEN \/ Cardinality(ValuesOf(CertHash(cert))) < Cardinality(DOMAIN CertHash(cert))
            \/ ~(DOMAIN CertHash(cert) \subseteq Participants(cert.c.sig))
       ELSE ~EnoughSigners(Cardinality(cert.c.sig.sigs))

\* cert is verified for the certificate "of".  Of a message set calls start until
\* the refusal; too few signatures are refused before any call.
Verification(cert, of) ==
    [Job("lookup", cert, IF cert.type # "agg" /\ Refused(cert) THEN {} ELSE Parts(cert))
        EXCEPT !.of = of]

StartVerify ==
    /\ CanStartJob
    /\ Cardinality(verdicts) < MaxVerifies
    /\ \E cert \in Arriving \ {v.cert : v \in verdicts} : job' = Verification(cert, cert)
    /\ UNCHANGED <<setting, entries, accessOrder, signed, seen, running,
                   verified, made, verdicts>>

\* The answer for job.cert is known: an aggregate QC goes on with a highest QC.
Answer(ok) ==
    IF ok /\ job.cert.type = "agg"
    THEN /\ \E qc \in HighestQCs(job.cert.c.qcs) :
              job' = Verification(Cert("qc", qc), job.of)
         /\ UNCHANGED verdicts
    ELSE /\ job' = NoJob
         /\ verdicts' = verdicts \cup {[cert |-> job.of, ok |-> ok, last |-> job.cert]}

\* A signature that is nil, or found in the cache, needs no more work.
Lookup ==
    /\ job # NoJob
    /\ job.step = "lookup"
    /\ \/ /\ AlwaysValid(job.cert)
          /\ Answer(TRUE)
          /\ UNCHANGED <<entries, accessOrder>>
       \/ /\ ~AlwaysValid(job.cert)
          /\ \E key \in CertKeys(job.cert) :
               \/ Hit(key) /\ Answer(TRUE)
               \/ /\ Miss(key)
                  /\ job' = [job EXCEPT !.step = "parts", !.key = key]
                  /\ UNCHANGED verdicts
    /\ UNCHANGED <<setting, signed, seen, running, verified, made>>

AwaitedQuorum(cert) == IF IsEcdsa THEN QuorumSize ELSE 0

\* ecdsa waits for one result for each signature in the threshold signature.
Awaited(cert) == IF IsEcdsa THEN Cardinality(cert.c.sig.sigs) ELSE 0

\* What the scheme answers: ecdsa counts the parts found valid.
JobAnswer ==
    IF IsEcdsa THEN ~Refused(job.cert) /\ EnoughSigners(Cardinality(job.valid))
    ELSE ImplAnswer(job.cert)

\* After a refusal the calls that have started go on, and nobody gets their
\* results.
EndVerify ==
    /\ job # NoJob
    /\ job.step = "parts"
    /\ Refused(job.cert) \/ job.results = Awaited(job.cert)
    /\ Answer(JobAnswer)
    /\ IF JobAnswer THEN Insert(job.key)
       ELSE UNCHANGED <<entries, accessOrder>>
    /\ running' = {IF call.of = "job" THEN [call EXCEPT !.of = "lost"] ELSE call :
                       call \in running}
    /\ UNCHANGED <<setting, signed, seen, verified, made>>

Next ==
    \/ SignOwn
    \/ \E id \in Senders : Arrive(id)
    \/ \E call \in running : VerifyHit(call) \/ VerifyMiss(call) \/ VerifyReturns(call)
    \/ StartCreate
    \/ \E part \in IF job = NoJob THEN {} ELSE job.todo : StartPart(part)
    \/ EndCreate
    \/ StartVerify
    \/ Lookup
    \/ EndVerify

Spec == Init /\ [][Next]_vars
-----------------------------------------------------------------------------
(* Properties *)

Answered(cert) == IF cert.type = "agg" THEN VerifyAggregateQC(cert.c)
                  ELSE IF cert.type = "qc" THEN VerifyQuorumCert(cert.c)
                  ELSE VerifyTimeoutCert(cert.c)

\* The state keeps its types; a call waits for the cache or for the scheme, and
\* a job gets no more results than it started calls.
TypeOK ==
    /\ setting \in Settings
    /\ seen \subseteq Replica /\ verified \subseteq seen
    /\ signed \in 0..Len(OwnHashes)
    /\ \A call \in running : call.step \in {"check", "miss"} /\ call.of \in {"message", "job", "lost"}
    /\ job # NoJob => /\ job.step \in {"create", "lookup", "parts"}
                      /\ job.results + Cardinality(job.todo) +
                           Cardinality({call \in running : call.of = "job"}) <=
                         Cardinality(Replica)
    /\ \A c \in made : c.type \in {"qc", "tc", "agg"}

\* The map and the list of the cache (cache.go, insert, check and evict) hold
\* the same keys, each once, and no more than the capacity, whatever goroutines
\* insert the same key after both missed it.
CacheConsistent ==
    /\ entries = {accessOrder[i] : i \in 1..Len(accessOrder)}
    /\ Cardinality(entries) = Len(accessOrder)
    /\ Len(accessOrder) <= Capacity


\* The certificates that Self makes are accepted by every replica that gets
\* them over the wire, with either scheme.  An aggregate QC is, if the replica
\* was in the view of the timeouts (OnRemoteTimeout gives it its own view).
\* The block that a QC is sent on in has the same hash after every Fetch.
CertificatesTransfer ==
    \A c \in made :
        /\ (c.type = "agg" => c.c.view = View) => Answered(c)
        /\ c.type = "qc" => BlockFromProto(BlockToProto(BlockWith(c.c))) = BlockWith(c.c)

\* What a replica of a quorum has to have signed for the certificate.
Meant(cert, id) ==
    CASE cert.type = "qc" -> BlockHash(1)
      [] cert.type = "tc" -> ViewHash(View)
      [] cert.type = "agg" -> TimeoutHash(id, View, {HighQC(setting, id)})

\* The replicas whose keys made a signature of the certificate over it.
Signers(cert) == {id \in Replica : <<id, Meant(cert, id)>> \in ThresholdBytes(cert.c.sig)}


\* The verification of a certificate ends, unless an aggregate QC has a signature
\* of a replica and not its QC: when all the goroutines of ecdsa have answered,
\* there is a result for each one it waits for, though
\* VerifyThresholdSignatureForMessageSet starts one goroutine per hash and waits
\* for one result per signature.
VerificationEnds ==
    /\ job # NoJob
    /\ job.step = "parts" /\ job.todo = {}
    /\ \A call \in running : call.of # "job"
    /\ job.cert.type = "agg" => Participants(job.cert.c.sig) \subseteq DOMAIN job.cert.c.qcs
    => Refused(job.cert) \/ job.results = Awaited(job.cert)
=============================================================================
