CONSTANTS
    Radix = 5
    NotText = 4
    U32Width = 1
    U64Width = 1
    MaxPathLen = 2
    MaxEntryCount = 2
    BlockSize = 4
    BlockCount = 7
    Blocks <- MCBlocks
    Zero <- MCZero
    Trees <- MCTrees
    Encode <- MCEncode
    Checksum <- MCChecksum
    MaxGeneration = 4
    SaveBound = 4
    NoTree = NoTree
    NoSlot = NoSlot
SPECIFICATION Spec
INVARIANTS
    RecoverySafe
    AlwaysRecoverable
    NeverUndecodable
    IInv
PROPERTIES
    ForeignUntouched
    ImplementsRegister
