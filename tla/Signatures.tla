----------------------------- MODULE Signatures -----------------------------
(***************************************************************************)
(* The signature schemes: ecdsa, whose threshold signature is a map of     *)
(* signatures, and bls12, whose threshold signature is one point and a bit *)
(* field of the participants; and their conversion to protocol buffers.    *)
(* Of the arithmetic only this is kept: a signature is the key that made   *)
(* it and the hash that was signed, and an aggregate is the set of the     *)
(* signatures in it.                                                       *)
(***************************************************************************)
EXTENDS Integers, FiniteSets, Bitfield

CONSTANT Replica    \* the IDs of the configuration

LOCAL INSTANCE FiniteSetsExt

NumFaulty == (Cardinality(Replica) - 1) \div 3

QuorumSize == Cardinality(Replica) - NumFaulty

Schemes == {"ecdsa", "bls12"}

Nil == [type |-> "nil"]

\* Signature: by and over are the key and the hash of the curve points.
RestoreSignature(by, over, signer) ==
    [type |-> "ecdsa", signer |-> signer, by |-> by, over |-> over]

EcdsaSign(id, hash) == RestoreSignature(id, hash, id)

BlsSign(id, hash) == [type |-> "bls12", signer |-> id, by |-> id, over |-> hash]

Sign(scheme, id, hash) ==
    IF scheme = "ecdsa" THEN EcdsaSign(id, hash) ELSE BlsSign(id, hash)

\* ToBytes: an ECDSA signature leaves out the signer, which the key that made
\* it stands for: every signature here is under the ID of its key.  The bytes of a threshold
\* signature are those of its signatures, in order: bytes are sets of points.
EcdsaBytes(sig) == {<<sig.by, sig.over>>}

BlsBytes(sig) == {<<sig.signer, sig.by, sig.over>>}

SigBytes(sig) == IF sig.type = "ecdsa" THEN EcdsaBytes(sig) ELSE BlsBytes(sig)

EcdsaVerify(sig, hash) ==
    /\ sig.signer \in Replica
    /\ sig.by = sig.signer
    /\ sig.over = hash

\* With a signer outside the configuration bls12 panics; there is none here.
BlsVerify(sig, hash) == <<sig.by, sig.over>> = <<sig.signer, hash>>

ImplVerify(sig, hash) ==
    /\ sig # Nil
    /\ IF sig.type = "ecdsa" THEN EcdsaVerify(sig, hash) ELSE BlsVerify(sig, hash)

-----------------------------------------------------------------------------
(* Threshold signatures *)

EcdsaThreshold(sigs) == [type |-> "ecdsa", sigs |-> sigs]

RestoreAggregate(sig, participants) ==
    [type |-> "bls12", sig |-> sig, participants |-> participants]

\* aggregateSignatures: the points are added, the signers are participants.
Aggregate(sigs) ==
    RestoreAggregate({<<s.by, s.over>> : s \in sigs},
                     FoldSet(LAMBDA id, bm : Add(bm, id), <<>>, {s.signer : s \in sigs}))


EnoughSigners(n) == n >= QuorumSize

\* CreateThresholdSignature, and CreateThresholdSignatureForMessageSet, of
\* signatures from different signers: ecdsa leaves out those that do not verify.
EcdsaCreate(sigs, valid) ==
    IF EnoughSigners(Cardinality(sigs \cap valid)) THEN EcdsaThreshold(sigs \cap valid)
    ELSE Nil

BlsCreate(sigs) == IF EnoughSigners(Cardinality(sigs)) THEN Aggregate(sigs) ELSE Nil

CreateThreshold(scheme, sigs, valid) ==
    IF scheme = "ecdsa" THEN EcdsaCreate(sigs, valid) ELSE BlsCreate(sigs)

EcdsaThresholdBytes(sig) == UNION {EcdsaBytes(s) : s \in sig.sigs}

BlsThresholdBytes(sig) == sig.sig

ThresholdBytes(sig) ==
    IF sig.type = "ecdsa" THEN EcdsaThresholdBytes(sig) ELSE BlsThresholdBytes(sig)

\* The IDs that ForEach gives for the participants.
EcdsaParticipants(sig) == {s.signer : s \in sig.sigs}

BlsParticipants(sig) == Members(sig.participants)

Participants(sig) ==
    IF sig.type = "ecdsa" THEN EcdsaParticipants(sig) ELSE BlsParticipants(sig)

\* VerifyThresholdSignature.
EcdsaVerifyThreshold(sig, hash) ==
    EnoughSigners(Cardinality({s \in sig.sigs : EcdsaVerify(s, hash)}))

BlsVerifyThreshold(sig, hash) ==
    LET known == BlsParticipants(sig) \cap Replica
    IN  /\ EnoughSigners(Cardinality(known))
        /\ sig.sig = {<<id, hash>> : id \in known}

VerifyThreshold(sig, hash) ==
    \/ sig.type = "ecdsa" /\ EcdsaVerifyThreshold(sig, hash)
    \/ sig.type = "bls12" /\ BlsVerifyThreshold(sig, hash)

\* The values of a map.
ValuesOf(hashes) == {hashes[id] : id \in DOMAIN hashes}

\* The signature of a signer in an ecdsa threshold signature.
SignatureOf(sig, id) == CHOOSE s \in sig.sigs : s.signer = id

\* VerifyThresholdSignatureForMessageSet, if it returns.
EcdsaVerifyMessageSet(sig, hashes) ==
    /\ Cardinality(ValuesOf(hashes)) = Cardinality(DOMAIN hashes)
    /\ DOMAIN hashes \subseteq EcdsaParticipants(sig)
    /\ EnoughSigners(Cardinality({id \in DOMAIN hashes :
                         EcdsaVerify(SignatureOf(sig, id), hashes[id])}))

\* As bls12 skips a hash that it has seen, it may take any of equal ones.
BlsVerifyMessageSet(sig, hashes) ==
    /\ DOMAIN hashes \subseteq Replica
    /\ EnoughSigners(Cardinality(ValuesOf(hashes)))
    /\ \E ids \in SUBSET DOMAIN hashes :
         /\ {hashes[id] : id \in ids} = ValuesOf(hashes)
         /\ Cardinality(ids) = Cardinality(ValuesOf(hashes))
         /\ sig.sig = {<<id, hashes[id]>> : id \in ids}

VerifyMessageSet(sig, hashes) ==
    \/ sig.type = "ecdsa" /\ EcdsaVerifyMessageSet(sig, hashes)
    \/ sig.type = "bls12" /\ BlsVerifyMessageSet(sig, hashes)

-----------------------------------------------------------------------------
(* Protocol buffers *)

EmptyProto == [msg |-> "empty"]

SignatureToProto(sig) ==
    CASE sig.type = "ecdsa" ->
           [msg |-> "ECDSASig", signer |-> sig.signer, rs |-> <<sig.by, sig.over>>]
      [] sig.type = "bls12" -> [msg |-> "BLS12Sig", sig |-> SigBytes(sig)]
      [] OTHER -> EmptyProto

\* FromBytes: the signer and the point.
SignatureFromBytes(bytes) ==
    LET b == CHOOSE x \in bytes : TRUE
    IN  [type |-> "bls12", signer |-> b[1], by |-> b[2], over |-> b[3]]

SignatureFromProto(m) ==
    CASE m.msg = "ECDSASig" -> RestoreSignature(m.rs[1], m.rs[2], m.signer)
      [] m.msg = "BLS12Sig" -> SignatureFromBytes(m.sig)
      [] OTHER -> Nil

ThresholdToProto(sig) ==
    CASE sig.type = "ecdsa" ->
           [msg |-> "ECDSASigs", sigs |-> {SignatureToProto(s) : s \in sig.sigs}]
      [] sig.type = "bls12" ->
           [msg |-> "BLS12Agg", sig |-> sig.sig, participants |-> sig.participants]
      [] OTHER -> EmptyProto

ThresholdFromProto(m) ==
    CASE m.msg = "ECDSASigs" -> EcdsaThreshold({SignatureFromProto(s) : s \in m.sigs})
      [] m.msg = "BLS12Agg" -> RestoreAggregate(m.sig, m.participants)
      [] OTHER -> Nil
=============================================================================
