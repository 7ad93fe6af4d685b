CONSTANTS
    Fds <- MCFds
    InitClosed = {}
    MaxGen = 2
    MayFail = TRUE
SPECIFICATION Spec
INVARIANTS
    TypeOK
    NoLeakedLogDescriptor
    DescriptorsFollowReopen
