SPECIFICATION Spec
CONSTANTS
    FieldNames <- MCFieldNames
    Texts <- MCTexts
    Methods <- MCMethods
    ConfigVersion <- MCConfigVersion
    ErrorPage <- MCErrorPage
    RedirectPage <- MCRedirectPage
    Requests <- MCRequests
    AppFields <- MCAppFields
    Deletable <- MCDeletable
    Codes <- MCCodes
    Errors <- MCErrors
    Bodies <- MCBodies
    Urls <- MCUrls
    MaxCalls = 3
INVARIANTS
    BodylessSendsNothing
CHECK_DEADLOCK FALSE
