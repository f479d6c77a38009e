SPECIFICATION SSpec
CONSTANTS
    Root <- MCRoot
    DirectoryIndex <- MCDirectoryIndex
    NondisclosureName <- MCNondisclosureName
    Entries <- MCEntries
    PathInfos <- MCPathInfos
    MaxChanges = 3
    Escape8bitURI = TRUE
    ServerName <- MCServerName
    ConfigPort = 80
    Handled <- MCHandled
    Others <- MCOthers
    Requests <- MCRequests
    Disturbed <- MCDisturbed
INVARIANTS
    TypeOK
    GrowingTreeIsRead
    ShrinkingTreeIsRead
    OnlyTheWayMatters
    ConcealedIsAbsent
    AnswerAccountsForPath
    FileArrives
\* A request that has been answered, or went to another servlet, is done.
CHECK_DEADLOCK FALSE
