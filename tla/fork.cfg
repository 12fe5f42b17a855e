\* Replica 1 leads view 3 and forks the chain in it; it repeats
\* its timeouts.
SPECIFICATION Spec
CONSTANTS
    Replica = {1, 2}
    MaxView = 6
    MaxTimeouts = 2
    Leader <- ForkerLeadsOnce
    Impatient = {1, 2}
    Resending = {1}
    Forking = {1}
    CommandReady = {TRUE}
    Accepts = {TRUE}
    Rules = {"chained", "simple"}
INVARIANT TypeOK
INVARIANT ViewAheadOfCertificates
PROPERTY CommitSettles
PROPERTY NoRollback
\* After the last view the bounded system stops.
CHECK_DEADLOCK FALSE
