CONSTANTS
    NumPrograms = 3
    NumPhysPages = 3
    Images <- MCImages
    FileData = FileData
SPECIFICATION Spec
INVARIANTS FramesInv Consecutive DestroyedOnce
PROPERTIES ImplementsPrivateMemory Rescheduled
