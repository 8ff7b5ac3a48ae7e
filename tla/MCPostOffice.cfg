CONSTANTS
    t1 = t1
    t2 = t2
    Threads = {t1, t2}
    DevicesOf <- MCDevicesOf
    Nobody = Nobody
    Ticks <- MCTicks
    ConsoleTime = 1
    NetworkTime = 1
    Latencies <- MCLatencies
    MaxText = 2
    Boxes = {b1}
    Letters = {m1, m2}
SPECIFICATION Spec
INVARIANTS MailInv Contiguous
PROPERTIES ImplementsMailDelivery OperationsEnd
