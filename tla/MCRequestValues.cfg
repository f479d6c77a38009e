SPECIFICATION VSpec
CONSTANTS
    MaxElements = 3
    MaxLength = 4
    MaxFields = 2
    BodyLength = 4
    Elements <- MCElements
    Entries <- MCEntries
    ByteRanges <- MCByteRanges
    CookieItems <- MCCookieItems
    Patterns <- MCPatterns
    NameCharacters <- MCNameCharacters
    Authorities <- MCAuthorities
    PathPieces <- MCPathPieces
    RawPaths <- MCRawPaths
    FormNames <- MCNames
    FormValues <- MCValues
    Separators <- MCSeparators
    MaxPairs = 3
    Escape8bitURI = TRUE
    ServerName <- MCServerName
    ConfigPort = 80
INVARIANTS
    RewritingKeepsMeaning
    ElementsArrive
    PreferencesArrive
    RangesSelectTheirBytes
    CookiesArrive
    FormsAgree
    EncodedPathArrives
    PatternsCover
    FormArrives
    QueryIsTheFirst
PROPERTIES
    ImplementsMeaning
    Returns
\* A value of the greatest length does not grow, and a path that has been
\* normalised is done.
CHECK_DEADLOCK FALSE
