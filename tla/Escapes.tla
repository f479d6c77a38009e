------------------------------ MODULE Escapes -------------------------------
(***************************************************************************)
(* The escaping tables of httputils.go.  A text is a sequence of bytes.    *)
(***************************************************************************)
EXTENDS Characters

Mark == {33, 39, 40, 41, 42, 45, 46, 95, 126}                     \* - _ . ! ~ * ' ( )
Unreserved == Digits \cup Letters \cup Mark
Reserved == {36, 38, 43, 44, 47, 58, 59, 61, 63, 64}              \* ; / ? : @ & = + $ ,
DelimsAndUnwise == {34, 35, 37, 60, 62} \cup {91, 92, 93, 94, 96, 123, 124, 125}
Control == 0..31 \cup {127}
NonAsc == 128..255

UnescapedSet == Control \cup {Space} \cup DelimsAndUnwise \cup NonAsc
UnescapedFormSet == Reserved \cup Control \cup DelimsAndUnwise \cup NonAsc
\* The complement of the characters that may stand in a path segment.
UnescapedPChar == 0..255 \ (Unreserved \cup {36, 38, 43, 44, 58, 61, 64})

HexDigits == Digits \cup 65..70 \cup 97..102
HexVal(c) == IF c \in Digits THEN c - 48 ELSE IF c >= 97 THEN c - 87 ELSE c - 55
UpperHex(n) == IF n < 10 THEN n + 48 ELSE n + 55

EscapeBy(s, set) ==
    Mapped(s, LAMBDA i : IF s[i] \notin set THEN <<s[i]>>
                         ELSE <<Percent, UpperHex(s[i] \div 16), UpperHex(s[i] % 16)>>)

EscapeAt(s, i) ==
    /\ i \in 1..(Len(s) - 2) /\ s[i] = Percent
    /\ s[i + 1] \in HexDigits /\ s[i + 2] \in HexDigits

\* unescapeAll: the percent sign becomes the byte, its two digits go.
Unescape(s) ==
    Mapped(s, LAMBDA i : IF EscapeAt(s, i) THEN <<16 * HexVal(s[i + 1]) + HexVal(s[i + 2])>>
                         ELSE IF EscapeAt(s, i - 1) \/ EscapeAt(s, i - 2) THEN <<>>
                         ELSE <<s[i]>>)

Escape(s) == EscapeBy(s, UnescapedSet)
EscapeForm(s) == ReplaceAll(EscapeBy(s, UnescapedFormSet), Space, Plus)

UnescapeForm(s) == Unescape(ReplaceAll(s, Plus, Space))

\* Every segment by itself; what comes before the first slash is dropped.
EscapePath(s) ==
    LET segments == ScanSegments(s)
    IN FlattenSeq([k \in DOMAIN segments |->
                      <<Slash>> \o EscapeBy(Tail(segments[k]), UnescapedPChar)])

Escape8bit(s) == EscapeBy(s, NonAsc)
=============================================================================
