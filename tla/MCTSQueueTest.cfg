CONSTANTS
    Enqueuers = {p1, p2}
    Dequeuers = {c1, c2, c3}
    Items <- TestItems
    NoItem = NoItem
    Nobody = Nobody
    BufferSize = 2
    MaxSpurious = 1
SPECIFICATION TestSpec
INVARIANTS ExactlyOnce ProducerOrderKept
PROPERTIES AllJoined
