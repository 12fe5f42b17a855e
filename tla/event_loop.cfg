\* A queue of two places and one ticker; on the protocol's loop a proposal and
\* two votes, on that of the metrics two
\* or three events; means are in sixths.
SPECIFICATION MetricsFairSpec
CONSTANTS
    Event <- MCEvent
    Types <- MCTypes
    TypeOf <- MCTypeOf
    Awaits <- MCAwaits
    Value <- MCValue
    BufferSize = 2
    MaxTickers = 1
    Scale = 6
INVARIANT TypeOK
INVARIANT EventsKept
INVARIANT QueueDrained
INVARIANT MeasurementsExact
PROPERTY RemovedTickersStop
\* Once Run has returned, nothing is left to do.
CHECK_DEADLOCK FALSE
