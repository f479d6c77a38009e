------------------------------ MODULE Cookies -------------------------------
(***************************************************************************)
(* ParseCookies (cookie.go) and its calls in ParseRequest, one per Cookie  *)
(* field.                                                                  *)
(***************************************************************************)
EXTENDS HeaderValues

White == {9, 10, 11, 12, 13, Space}
DollarVersion == <<36, 86, 101, 114, 115, 105, 111, 110>>
DollarPath == <<36, 80, 97, 116, 104>>
DollarDomain == <<36, 68, 111, 109, 97, 105, 110>>
DollarPort == <<36, 80, 111, 114, 116>>

\* splitSemiWS: a semicolon and the white space after it separate two pieces.
SplitSemiWS(s) ==
    LET cuts == Ordered({0, Len(s) + 1} \cup
                        {i \in 1..(Len(s) - 1) : s[i] = Semicolon /\ s[i + 1] \in White})
        piece(k) == SubSeq(s, cuts[k] + 1, cuts[k + 1] - 1)
        start(k) == IF k = 1 THEN 1 ELSE Next(piece(k), 1, 0..255 \ White)
    IN [k \in 1..(Len(cuts) - 1) |-> From(piece(k), start(k))]

\* splitCookiePair
Key(x) == Before(x, Next(x, 1, {Equals}))
Val(x) == Dequote(From(x, Next(x, 1, {Equals}) + 1))

AtoiSafe(s) == Decimal(Before(s, Next(s, 1, 0..255 \ Digits)))

NewCookie(name, value, version) ==
    [name |-> name, value |-> value, version |-> version,
     path |-> <<>>, domain |-> <<>>, port |-> <<>>]

\* The cookie that $Path, $Domain and $Port set a field of: the one being read.
Amended(cookies, attribute, val) ==
    IF cookies = <<>> THEN cookies
    ELSE Append(Front(cookies), [Last(cookies) EXCEPT ![attribute] = val])

\* Mutant of Begun: $Version is for one cookie.
Begun_OneVersion(state, x) ==
    [ver |-> 0, cookies |-> Append(state.cookies, NewCookie(Key(x), Val(x), state.ver))]

Begun(state, x) ==
    [state EXCEPT !.cookies = Append(@, NewCookie(Key(x), Val(x), state.ver))]

\* One round of the loop of ParseCookies; the last cookie is the one being read.
Read(state, x) ==
    LET val == Val(x)
    IN CASE Key(x) = DollarVersion -> [state EXCEPT !.ver = AtoiSafe(val)]
         [] Key(x) = DollarPath -> [state EXCEPT !.cookies = Amended(@, "path", val)]
         [] Key(x) = DollarDomain -> [state EXCEPT !.cookies = Amended(@, "domain", val)]
         [] Key(x) = DollarPort -> [state EXCEPT !.cookies = Amended(@, "port", val)]
         [] OTHER -> Begun(state, x)

ParseCookies(s) ==
    LET pieces == SplitSemiWS(s)
        upto[n \in 0..Len(pieces)] ==
            IF n = 0 THEN [ver |-> 0, cookies |-> <<>>]
            ELSE LET before == upto[n - 1] IN Read(before, pieces[n])
    IN upto[Len(pieces)].cookies

\* ParseRequest: each Cookie field by itself.
RequestCookies(fields) == FlattenSeq([k \in DOMAIN fields |-> ParseCookies(fields[k])])
=============================================================================
