SPECIFICATION Spec
CONSTANTS
    FieldNames <- MCFieldNames
    Methods <- MCMethods
    VersionOf <- MCVersionOf
    NumberOf <- MCNumberOf
    Requests <- MCRequests
    After <- MCAfter
    MaxInt = 63
    MaxURILength = 6
    MaxLineLength = 4
    MaxHeaderLength = 17
INVARIANTS
    TypeOK
    VerdictIsDeserved
    AcceptedIsWhole
    KeptAliveIsDrained
    FieldsArrive
    HeaderReadIsBounded
\* A call that has returned is over.
CHECK_DEADLOCK FALSE
