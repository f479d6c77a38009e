SPECIFICATION Spec
CONSTANTS
    FieldNames <- MCFieldNames
    Methods <- MCMethods
    VersionOf <- MCVersionOf
    NumberOf <- MCNumberOf
    Requests <- MCRequests
    After <- MCAfter
    MaxInt = 63
    MaxURILength = 6
    MaxLineLength = 4
    MaxHeaderLength = 17
INVARIANTS
    NeverPanics
\* A call that has returned is over.
CHECK_DEADLOCK FALSE
