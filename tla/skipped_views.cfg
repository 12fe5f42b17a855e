\* Messages are lost around the view changes of views 1, 2 and 5.
SPECIFICATION Spec
CONSTANTS
    Replica = {1, 2, 3, 4}
    MaxView = 8
    MaxTimeouts = 9
    Leader <- RoundRobin
    Impatient = {1, 2, 3, 4}
    Resending = {}
    Forking = {}
    CommandReady = {TRUE}
    Accepts = {TRUE}
    Rules = {"chained"}
ACTION_CONSTRAINT Schedule
INVARIANT OneBranch
\* After the last view the bounded system stops.
CHECK_DEADLOCK FALSE
