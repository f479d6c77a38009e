--------------------------- MODULE MCRequestValues --------------------------
(* RequestValues for TLC: texts over the characters that the readers tell apart. *)
EXTENDS RequestValues

A == <<97>>
B == <<98>>
One == <<49>>
S == <<Slash>>
InQuotes(s) == <<Quotation>> \o s \o <<Quotation>>

\* a, what Quote makes of a comma and a quote, and "\"" and "\\"
Units == {A, Quote(<<Comma, Quotation>>), InQuotes(<<Backslash, Quotation>>),
          InQuotes(<<Backslash, Backslash>>)}
MCElements == {FlattenSeq(units) : units \in BoundedSeq(Units, 2) \ {<<>>}}

\* Entries of an Accept field: a weight of -1 is not sent; -2 is something else
\* than a q-value after the semicolon, which drops the entry.
Parameter(symbols) == <<Semicolon>> \o symbols
Weights == {[q |-> -1, text |-> <<>>], [q |-> 0, text |-> Parameter(Q \o <<48>>)],
            [q |-> 250, text |-> Parameter(<<Space>> \o Q \o <<48, Dot, 50, 53>>)],
            [q |-> 500, text |-> Parameter(Q \o <<48, Dot, 53>>)],
            [q |-> 1000, text |-> Parameter(Q \o <<49>>)],
            [q |-> -2, text |-> Parameter(Q \o <<Dot, 53>>)],
            [q |-> -2, text |-> Parameter(<<108, Equals, 49>>)]}
Entry(val, weight) ==
    [val |-> val, q |-> IF weight.q = -1 THEN 1000 ELSE weight.q, text |-> val \o weight.text]

MCEntries == {Entry(val, weight) : val \in {A, B, B \o A}, weight \in Weights}

\* Ranges: a first and a last position, a first position, the last n bytes.
Digit(n) == <<48 + n>>
MCByteRanges ==
    {[bytes |-> a..b, zero |-> FALSE, text |-> Digit(a) \o <<Dash>> \o Digit(b)] :
        a \in {0, 2}, b \in {0, 3, BodyLength}}
    \cup {[bytes |-> a..BodyLength, zero |-> FALSE, text |-> Digit(a) \o <<Dash>>] : a \in {0, 2}}
    \cup {[bytes |-> (BodyLength - n)..BodyLength, zero |-> n = 0,
           text |-> <<Dash>> \o Digit(n)] : n \in {0, 1, 2}}

Item(name, written, value) ==
    [name |-> name, value |-> value,
     text |-> IF name = <<>> THEN <<>> ELSE name \o <<Equals>> \o written]

\* A semicolon inside a value is no separator; an empty item is a cookie too.
MCCookieItems == {Item(A, A, A), Item(B, InQuotes(<<Backslash, Quotation>>), <<Quotation>>), Item(<<>>, <<>>, <<>>),
          Item(A, A \o <<Semicolon, Equals>>, A \o <<Semicolon, Equals>>),
          Item(DollarVersion, One, One), Item(DollarVersion, InQuotes(<<50>>), <<50>>),
          Item(DollarPath, A, A), Item(DollarPath, InQuotes(B), B),
          Item(DollarDomain, B, B), Item(DollarPort, InQuotes(One), One)}


MCPatterns == BoundedSeq({97, 98, Star}, 5) \cup BoundedSeq({97, Star, Question}, 4)
MCNameCharacters == {97, 98, Star}

MCServerName == <<115>>
Host == <<104>>
V6 == <<91, Colon, 93>>
MCAuthorities ==
    {host \o port : host \in {<<>>, Host, Host \o <<Colon>> \o Host, V6, <<91, Colon>>},
                    port \in {<<>>, <<Colon>>, <<Colon, 56, 48>>, <<Colon, 48>>, <<Colon, 56>>,
                              <<Colon, 97>>, <<97>>}}

\* "/", ".", "%2e", "%2F", "%", "a", "?", a byte beyond ASCII
MCPathPieces ==
    [authority |-> {S, A, <<Dot, Dot>>, <<Question>>},
     target |-> {S, <<Dot>>, <<Percent, 50, 101>>, <<Percent, 50, 70>>, <<Percent>>, A,
                 <<Question>>, <<233>>}]

\* Every text put together from up to five of these pieces, and every text of up
\* to seven characters.
RawPieces == {A, S, S \o A, S \o <<Dot>>, S \o <<Dot, Dot>>, S \o <<Dot, Dot, Dot>>,
              S \o A \o <<Dot>>}
MCRawPaths == {FlattenSeq(pieces) : pieces \in BoundedSeq(RawPieces, 5)}
                 \cup BoundedSeq({Slash, Dot, 97}, 7)

MCNames == {A, A \o <<Equals>>}
MCValues == {<<>>, A, <<Equals, Plus, Space, Semicolon, Percent>>}
MCSeparators == {<<Ampersand>>, <<Semicolon, Ampersand>>}
=============================================================================
