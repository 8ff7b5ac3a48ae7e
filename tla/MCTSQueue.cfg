CONSTANTS
    Enqueuers = {p1, p2, p3}
    Dequeuers = {c1, c2, c3}
    Items = {a, b}
    NoItem = NoItem
    Nobody = Nobody
    BufferSize = 2
SPECIFICATION Spec
SYMMETRY Symmetry
INVARIANTS MutexInv RingInv NoLostWakeup
PROPERTIES ImplementsBoundedBuffer
