CONSTANTS
    Mounts <- MCMounts
    Layout <- MCLayout
    Marker <- MCMarker
    InitialFiles <- MCInitialFiles
    Arguments <- MCArguments
    Data = {1, 2}
    AttemptBound = 2
    DepthBound = 4
    OperationBound = 3
    Trees = Trees
    NoTree <- MCNoTree
SPECIFICATION Spec
INVARIANT ChangesSurviveReboot
