\* Replica r4 gets only the last proposal and fetches the blocks before it.
SPECIFICATION Spec
CONSTANTS
    r1 = r1
    r2 = r2
    r3 = r3
    r4 = r4
    Replica = {r1, r2, r3, r4}
    MaxView = 5
    MaxTimeouts = 0
    Leader <- Fixed
    Impatient = {}
    Resending = {}
    Forking = {}
    CommandReady = {TRUE}
    Accepts = {TRUE}
    Rules = {"chained"}
ACTION_CONSTRAINT LateReplica
INVARIANT ExecutionAgreement
\* After the last view the bounded system stops.
CHECK_DEADLOCK FALSE
