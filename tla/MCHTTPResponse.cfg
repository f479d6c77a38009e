SPECIFICATION Spec
CONSTANTS
    FieldNames <- MCFieldNames
    Texts <- MCTexts
    Methods <- MCMethods
    ConfigVersion <- MCConfigVersion
    ErrorPage <- MCErrorPage
    RedirectPage <- MCRedirectPage
    Requests <- MCRequests
    AppFields <- MCAppFields
    Deletable <- MCDeletable
    Codes <- MCCodes
    Errors <- MCErrors
    Bodies <- MCBodies
    Urls <- MCUrls
    MaxCalls = 3
INVARIANTS
    TypeOK
    HeaderOrdered
    ConnectionAgrees
    KeptAliveIsDelimited
    FailureCloses
    FramingExact
    OldClientsGetPlainBytes
PROPERTIES
    RenderingIsStable
\* The panicked response is never used again, and a new one is abandoned after
\* MaxCalls calls: both are ends, not hangs.
CHECK_DEADLOCK FALSE
