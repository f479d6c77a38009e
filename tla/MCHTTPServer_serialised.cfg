SPECIFICATION Spec
CONSTANTS
    web = web
    api = api
    Workers = {1, 2}
    Names <- MCNames
    Procs <- MCProcs
    Handled <- MCHandled
    Methods <- MCMethods
    Upper <- MCUpper
    Dirs <- SharedDirs
    Requests <- SharedRequests
    Serialised = TRUE
    MaxWrites = 2
INVARIANTS
    GetSucceeds
    AllowIsKept
PROPERTIES
    ImplementsRouting
