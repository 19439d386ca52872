CONSTANTS
    c1 = c1
    c2 = c2
    NoClient = NoClient
    Clients = {c1, c2}
    Handles = {1, 2}
    Paths <- MCPaths
    Calls <- MCCalls
    StartRows <- MCRows
    StartBlobs <- MCBlobs
    StartFile <- DF
    Zero = "z"
    Threshold = 2
    MaxOps = 3
    MaxFaults = 1
    MetaIds = {1, 2, 3, 4, 5, 6, 7, 8, 9, 10, 11, 12, 13}
    BufIds = {1, 2, 3, 4, 5, 6, 7, 8}
SPECIFICATION Spec
SYMMETRY MCSymmetry
INVARIANT CleanPathDurable
INVARIANT FileReadsItsOwn
INVARIANT RenameKeepsContent
INVARIANT CacheCoherent
CHECK_DEADLOCK FALSE
