\* A queue of two places, a proposal and two votes, no ticker.
SPECIFICATION FairSpec
CONSTANTS
    Event <- MCEvent
    Types <- MCTypes
    TypeOf <- MCTypeOf
    Awaits <- MCAwaits
    BufferSize = 2
    MaxTickers = 0
PROPERTY DelayedEventsHandled
\* Once Run has returned, nothing is left to do.
CHECK_DEADLOCK FALSE
