\* One client with one command of input and a channel of two, so that four are
\* in flight.
CONSTANTS
    Client = {c1}
    Replica <- MCReplica
    First = 1
    NextLeader <- RoundRobin
    BatchSize = 1
    MaxConcurrent = 2
    NumData = 1
    MaxNumber = 5
    CommitDepth = 1
    MaxLost = 1
SPECIFICATION FairSpec
INVARIANTS TypeOK AckedExecuted ExecutedInOrder InputAnswered InFlightBounded
PROPERTY ClientsFinish
ACTION_CONSTRAINT StopWhenFull
CHECK_DEADLOCK FALSE
