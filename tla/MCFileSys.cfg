CONSTANTS
    NumSectors = 9
    NumDirect = 1
    NumEntries = 2
    Names = {a, b}
    MaxDepth = 2
    Sizes = {1, 2}
    Values = {v}
    NoEntry = NoEntry
SPECIFICATION Spec
SYMMETRY Symmetry
INVARIANTS SectorsInv DescriptorCurrent
PROPERTIES ImplementsNamespace
CHECK_DEADLOCK FALSE
