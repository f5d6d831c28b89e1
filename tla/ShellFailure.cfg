SPECIFICATION Spec
CONSTANTS
    SystemFiles <- MCSystemFiles
    Rhai <- MCRhai
    Sources <- MCSources
    Arguments <- MCArguments
    Directories <- MCDirectories
    Commands <- MCCommands
    Data = {"edit"}
    Hosts = {"h"}
    HandleBound = 2
    DepthBound = 3
PROPERTY
    FailuresAreResults
