------------------------------ MODULE MCCrypto ------------------------------
(* IDs in the first, the last and the next byte's first bit; two different *)
(* QCs for block 1.                                                        *)
EXTENDS CryptoCache

MCReplica == {1, 8, 9, 16}

MCQuorumFor == [id \in MCReplica |-> IF id = 9 THEN {1, 8, 9} ELSE MCReplica \ {1}]

MCLateSets == {{1, 8}, {1, 9, 16}}

MCPeerQuorums == {MCReplica \ {8}}

MCSenders == MCReplica \ {1}

MCLeftOut == {16}
=============================================================================
