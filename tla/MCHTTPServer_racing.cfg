SPECIFICATION Spec
CONSTANTS
    web = web
    api = api
    Workers = {1}
    Names <- MCNames
    Procs <- MCProcs
    Handled = {}
    Methods <- MCMethods
    Upper <- MCUpper
    Dirs <- RacingDirs
    Requests <- RacingRequests
    Serialised = FALSE
    MaxWrites = 3
INVARIANTS
    TypeOK
    UntouchedSearchIsExact
    OnlyUnmountHides
\* The process may be killed by the runtime.
CHECK_DEADLOCK FALSE
