----------------------------- MODULE Characters -----------------------------
(***************************************************************************)
(* Texts are sequences of character codes.  What the modules about paths,  *)
(* names and header values share: the characters the code tells apart, and *)
(* the splitting of a text.                                                *)
(***************************************************************************)
EXTENDS Integers, SequencesExt

Space == 32
Quotation == 34
Percent == 37
Ampersand == 38
Star == 42
Plus == 43
Comma == 44
Dash == 45
Dot == 46
Slash == 47
Colon == 58
Semicolon == 59
Equals == 61
Question == 63
Backslash == 92

Digits == 48..57
Letters == 65..90 \cup 97..122

\* unicode.ToLower on the characters of ASCII.
Lower(text) == [i \in DOMAIN text |->
                   IF text[i] \in 65..90 THEN text[i] + 32 ELSE text[i]]

\* The place of the first character of a set at or after i; past the end if none.
Next(text, i, set) == Min({j \in i..Len(text) : text[j] \in set} \cup {Len(text) + 1})
LastOf(text, c) == Max({0} \cup {i \in DOMAIN text : text[i] = c})
Before(text, i) == SubSeq(text, 1, i - 1)
From(text, i) == SubSeq(text, i, Len(text))

Mapped(text, Image(_)) == FlattenSeq([i \in DOMAIN text |-> Image(i)])

AllDigits(text) == text # <<>> /\ Range(text) \subseteq Digits
Decimal(digits) ==
    LET value[n \in 0..Len(digits)] ==
            IF n = 0 THEN 0 ELSE 10 * value[n - 1] + digits[n] - 48
    IN value[Len(digits)]

\* A finite set of numbers in their order.
Ordered(numbers) ==
    [k \in 1..Cardinality(numbers) |->
        CHOOSE i \in numbers : Cardinality({j \in numbers : j < i}) = k - 1]

\* What is before, between and after some places of a text, nothing included.
PartedAt(text, places) ==
    LET cuts == Ordered({0, Len(text) + 1} \cup places)
    IN [k \in 1..(Len(cuts) - 1) |-> SubSeq(text, cuts[k] + 1, cuts[k + 1] - 1)]

\* Everything between one separator and the next, empty pieces included.
Pieces(text, set) == PartedAt(text, {i \in DOMAIN text : text[i] \in set})

\* The scan %r|/[^/]*|: a slash and what follows it up to the next one.
ScanSegments(path) ==
    LET starts == Ordered({i \in DOMAIN path : path[i] = Slash})
    IN [k \in DOMAIN starts |->
           SubSeq(path, starts[k], Next(path, starts[k] + 1, {Slash}) - 1)]

\* The pieces that are not empty.
NonEmpty(pieces) ==
    Mapped(pieces, LAMBDA k : IF pieces[k] = <<>> THEN <<>> ELSE <<pieces[k]>>)

Joined(pieces, separator) ==
    FlattenSeq([k \in DOMAIN pieces |->
                   IF k = 1 THEN pieces[k] ELSE separator \o pieces[k]])
=============================================================================
