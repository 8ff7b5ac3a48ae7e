CONSTANTS
    NumLines = 3
    Producers = {p1, p2}
    InputSize = 1
    WorkerSize = 2
    OutputSize = 1
    LowThreshold = 50
    HighThreshold = 60
    MaxConsumers = 3
SPECIFICATION Spec
INVARIANTS Conservation VectorInv OneConsumerStays NothingInFlight
PROPERTIES AllWritten ScaledDown
