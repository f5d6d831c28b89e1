SPECIFICATION MachineSpec
CONSTANTS
    Sources <- MCSources
    Link <- MCLink
    MishapBound = 2
    PageSize = 2
    MinHeapSize = 4
    MaxHeapSize = 6
    U64Top = 100
    HHDM = 30
    ExecutableVirtual = 90
    ExecutablePhysical = 5
    MemoryMaps <- MCMemoryMaps
    Buffers = {b1, b2}
    Contents = {zero, data}
    Blank = zero
    PromptTimeout = 2
    AnswerTimeout = 2
    UseBound = 0
    Mounts <- MCMounts
    Layout <- MCLayout
    Marker <- MCMarker
    InitialFiles <- MCInitialFiles
    Arguments <- MCArguments
    Data = {1, 2}
    AttemptBound = 2
    DepthBound = 4
    OperationBound = 3
    Trees = Trees
    NoTree <- MCNoTree
INVARIANTS
    WellFormed
    FilesDurable
    RenameMovesSubtree
    ImageIsSource
    TransfersIntact
PROPERTIES
    BootCompletesLayout
    DataDiskPreserved
    SmokeEnds
