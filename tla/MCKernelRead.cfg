CONSTANTS
    NumPrograms = 2
    NumPhysPages = 2
    Images <- MCTwoImages
    FileData = FileData
SPECIFICATION Spec
PROPERTIES ReadFillsBuffer
