\* Start-ups of five views instead of 10 and 14, so that the rotations leave them.
SPECIFICATION Spec
CONSTANTS
    N = 4
    CarouselStartup = 5
    RepStartup = 5
    Limit = 3
    StartTimeout = 1
    Multiplier = 2
    Scale = 4374
    MaxMeasured = 6
    MaxView = 8
    MaxFailed = 1
    Rotation <- Rotations
    Quorums <- MCQuorums
    Elapsed <- MCElapsed
    Authors = {1, 3}
INVARIANT TypeOK
INVARIANT EstimateBounded
INVARIANT MeanOfSamples
PROPERTY VotersLead
\* After the last view the bounded system stops.
CHECK_DEADLOCK FALSE
