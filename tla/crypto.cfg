SPECIFICATION Spec
CONSTANTS
    Replica <- MCReplica
    QuorumFor <- MCQuorumFor
    Self = 8
    Capacity = 2
    MaxVerifies = 2
    MaxRunning = 2
    LateSets <- MCLateSets
    PeerQuorums <- MCPeerQuorums
    Senders <- MCSenders
    LeftOut <- MCLeftOut
CHECK_DEADLOCK FALSE
INVARIANT TypeOK
INVARIANT CacheConsistent
 
INVARIANT CertificatesTransfer
 
INVARIANT VerificationEnds
