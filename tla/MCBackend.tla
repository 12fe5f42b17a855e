------------------------------ MODULE MCBackend -----------------------------
EXTENDS Backend

MCReplica == {1, 2}

\* Replica 1 leads, replica 2 follows.
MCMaxViews == [r \in MCReplica |-> IF r = 1 THEN 2 ELSE 0]

MCMaxExpire == [r \in MCReplica |-> IF r = 1 THEN 0 ELSE 2]
=============================================================================
