CONSTANTS
    Appenders = {a1, a2}
    Removers = {r1, r2}
    Threads = {a1, a2, r1, r2}
    TheLock = TheLock
    Nobody = Nobody
    Items = {x, y}
    NoItem = NoItem
    MaxCalls = 5
SPECIFICATION ListSpec
CHECK_DEADLOCK FALSE
INVARIANTS NoItemStranded
PROPERTIES ImplementsQueue CallsReturn
