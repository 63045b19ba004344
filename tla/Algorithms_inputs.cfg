SPECIFICATION MCSpec
CONSTANTS
    UserTypes <- MCUserTypes
    MaxFailures = 1
    Chars <- MCChars
    Buffer = 10
    Literal <- MCLiteral
    Processes <- MCProcesses
    Cwd <- MCCwd
INVARIANTS
    GridsAreConsistent
    LikeItsPredecessor
    VariablesHaveTheirAttributes
    GoodFileDescribed
    ReadsWhatWasSelected
    GridReadIsComplete
    HandlesAccounted
    BaseOfContextSent
    PartsComeBack
    DirectoryInPlace
CHECK_DEADLOCK FALSE
