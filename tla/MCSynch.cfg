CONSTANTS
    Threads = {t1, t2, t3, t4}
    TheLock = TheLock
    Nobody = Nobody
SPECIFICATION Spec
SYMMETRY Symmetry
CHECK_DEADLOCK FALSE
INVARIANTS TypeOK LockInv WaiterInv QueueInv NoLostWakeup
PROPERTIES ImplementsMonitor
