\* Two workers, one of which may crash; one operation of a worker may fail.
SPECIFICATION FairSpec
CONSTANTS
    h1 = h1
    h2 = h2
    Hosts = {h1, h2}
    NumReplicas = 3
    NumClients = 2
    Byzantine <- MCByzantine
    Configs <- MCConfigs
    MaxErrors = 1
    MaxCrashes = 1
    MaxExecuted = 1
INVARIANT AssignmentSound
INVARIANT ConfigComplete
INVARIANT ClientsInside
INVARIANT HashesFinal
PROPERTY WorkersEnd
\* The experiment ends.
CHECK_DEADLOCK FALSE
