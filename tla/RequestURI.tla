---------------------------- MODULE RequestURI ------------------------------
(***************************************************************************)
(* parseURI (uri.go): from the request target and the Host field to path,  *)
(* query, host and port.  An optional text is a sequence of at most one.   *)
(***************************************************************************)
EXTENDS Escapes, PathMeaning

CONSTANTS
    Escape8bitURI,   \* of the configuration
    ServerName,
    ConfigPort

Https == <<104, 116, 116, 112, 115>>
Separator == <<Colon, Slash, Slash>>
Unauthorised == [host |-> <<>>, port |-> 0, ok |-> FALSE]

CollapseLeadingSlashes(s) ==
    IF ~Absolute(s) THEN s ELSE <<Slash>> \o From(s, Next(s, 1, 0..255 \ {Slash}))

\* schemeEnd: the length of the scheme, 0 without one.
SchemeEnd(s) ==
    LET end == Next(s, 1, 0..255 \ (Letters \cup Digits \cup {Plus, Dash, Dot}))
    IN IF s # <<>> /\ s[1] \in Letters /\ end <= Len(s) /\ s[end] = Colon
       THEN end - 1 ELSE 0

HasScheme(s) == SchemeEnd(s) > 0 /\ IsPrefix(Separator, From(s, SchemeEnd(s) + 1))

\* splitAuthority's port: none is 0.
WithPort(host, port) ==
    IF port # <<>> /\ ~AllDigits(port) THEN Unauthorised
    ELSE [host |-> host, port |-> Decimal(port), ok |-> TRUE]

Bracketed(text) == text # <<>> /\ text[1] = 91
BracketEnd(text) == Next(text, 1, {93})

SplitAuthority(auth) ==
    LET end == BracketEnd(auth)
        colon == LastOf(auth, Colon)
    IN CASE Bracketed(auth) /\ end > Len(auth) -> Unauthorised
         [] Bracketed(auth) /\ end = Len(auth) -> WithPort(auth, <<>>)
         [] Bracketed(auth) /\ end < Len(auth) ->
                IF auth[end + 1] = Colon THEN WithPort(Before(auth, end + 1), From(auth, end + 2))
                ELSE Unauthorised
         [] ~Bracketed(auth) /\ colon > 0 -> WithPort(Before(auth, colon), From(auth, colon + 1))
         [] OTHER -> WithPort(auth, <<>>)

\* Mutant of ParseHostHeader: the first colon ends the host, brackets or not.
ParseHostHeader_FirstColon(text) ==
    LET colon == Next(text, 1, {Colon})
        port == From(text, colon + 1)
    IN IF AllDigits(port) THEN [host |-> Before(text, colon), port |-> Decimal(port)]
       ELSE [host |-> text, port |-> 80]

\* parseHostHeader; the text is trimmed of space.
ParseHostHeader(text) ==
    LET bracketed == Bracketed(text) /\ BracketEnd(text) <= Len(text)
        colon == IF bracketed THEN BracketEnd(text) + 1 ELSE LastOf(text, Colon)
        port == From(text, colon + 1)
        ported == colon \in DOMAIN text /\ text[colon] = Colon /\ AllDigits(port)
        bare == IF bracketed THEN Before(text, colon) ELSE text
    IN IF ported THEN [host |-> Before(text, colon), port |-> Decimal(port)]
       ELSE [host |-> bare, port |-> 80]

\* splitPathQuery
PathOf(s) == Before(s, Next(s, 1, {Question}))
QueryOf(s) == From(s, Next(s, 1, {Question}) + 1)

\* splitURI: an absolute target, or one that begins with a slash.
SplitURI(s) ==
    IF HasScheme(s) THEN
        LET rest == From(s, SchemeEnd(s) + 4)
            cut == Next(rest, 1, {Slash, Question})
            path == PathOf(From(rest, cut))
            authority == SplitAuthority(Before(rest, cut))
        IN [scheme |-> Lower(Before(s, SchemeEnd(s) + 1)),
            host |-> authority.host, port |-> authority.port, ok |-> authority.ok,
            path |-> IF path = <<>> THEN <<Slash>> ELSE path,
            query |-> QueryOf(From(rest, cut))]
    ELSE [scheme |-> <<>>, host |-> <<>>, port |-> 0, ok |-> Absolute(s),
          path |-> PathOf(s), query |-> QueryOf(s)]

BadRequest == [ok |-> FALSE]
Ported(scheme, port) ==
    IF port # 0 THEN port ELSE IF scheme = Https THEN 443 ELSE 80

\* Mutant of Decoded: what was decoded is decoded again.
Decoded_Twice(path) == Meaning(Unescape(Unescape(path)))

\* The path is decoded once, then normalised (PathMeaning).
Decoded(path) == Meaning(Unescape(path))

\* parseURI
ParseURI(target, host_field) ==
    LET str == CollapseLeadingSlashes(IF Escape8bitURI THEN Escape8bit(target) ELSE target)
        uri == SplitURI(str)
        at == IF uri.scheme # <<>> THEN uri
              ELSE IF host_field # <<>> THEN ParseHostHeader(host_field[1])
              ELSE [host |-> ServerName, port |-> ConfigPort]
        path == Decoded(uri.path)
    IN IF ~uri.ok \/ path = Abnormal THEN BadRequest
       ELSE [ok |-> TRUE, path |-> path, path_info |-> path, script_name |-> <<>>,
             query |-> uri.query, host |-> at.host, port |-> Ported(uri.scheme, at.port)]
=============================================================================
