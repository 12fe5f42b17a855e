\* The start-up of the code, ten views.
SPECIFICATION Spec
CONSTANTS
    N = 4
    CarouselStartup = 10
    RepStartup = 14
    Limit = 3
    StartTimeout = 1
    Multiplier = 2
    Scale = 1
    MaxMeasured = 0
    MaxView = 11
    MaxFailed = 10
    Rotation = {"carousel"}
    Quorums <- MCQuorums
    Elapsed <- MCElapsed
    Authors = {1, 3}
INVARIANT NoPanic
\* After the last view the bounded system stops.
CHECK_DEADLOCK FALSE
