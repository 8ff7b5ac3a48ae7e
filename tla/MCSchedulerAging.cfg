CONSTANTS
    Threads = {0, 1, 2}
    None = None
    TimerTicks = 2
    TickParts = 2
    Quantum = 2
    AgingTicks = 3
    AgingStep = 1
    L1Floor = 3
    L2Floor = 1
    MaxPriority = 3
    Priorities = {0, 2, 3}
    MaxBurst = 1
    MaxElapsed = 4
SPECIFICATION Spec
CHECK_DEADLOCK FALSE
PROPERTIES LeavesLevel2
