---------------------------- MODULE HeaderValues ----------------------------
(***************************************************************************)
(* The readers of structured header values in httputils.go: quoting, lists *)
(* of elements, Accept-style lists with q-values, byte ranges.             *)
(***************************************************************************)
EXTENDS Characters

Blank == {Space, 9}
Trimmed(s) == From(s, Next(s, 1, 0..255 \ Blank))

-----------------------------------------------------------------------------
(* Quoting. *)

\* A backslash that is not itself escaped, with a character to escape.
EscapesNext(s, i) ==
    /\ s[i] = Backslash /\ i < Len(s)
    /\ (i - Max({0} \cup {j \in 1..(i - 1) : s[j] # Backslash})) % 2 = 1

Unquoted(s) ==
    IF Len(s) >= 2 /\ s[1] = Quotation /\ Last(s) = Quotation THEN Tail(Front(s)) ELSE s

Dequote(s) ==
    LET ret == Unquoted(s)
    IN Mapped(ret, LAMBDA i : IF EscapesNext(ret, i) THEN <<>> ELSE <<ret[i]>>)

\* Quote, with the quirk its comment states: an escaped character becomes 1.
Quote(s) ==
    <<Quotation>>
    \o Mapped(s, LAMBDA i : IF s[i] \in {Quotation, Backslash} THEN <<Backslash, 1>>
                            ELSE <<s[i]>>)
    \o <<Quotation>>

-----------------------------------------------------------------------------
(* Lists. *)

\* Where SplitHeaderValue is after n characters: in a quoted run or not.
Mode(s) ==
    LET mode[n \in 0..Len(s)] ==
            IF n = 0 THEN "bare"
            ELSE LET before == mode[n - 1]
                 IN CASE before = "quoted" /\ s[n] = Backslash /\ n < Len(s) -> "escaped"
                      [] before # "escaped" /\ s[n] = Quotation ->
                             IF before = "quoted" THEN "bare" ELSE "quoted"
                      [] before = "bare" /\ s[n] # Quotation -> "bare"
                      [] OTHER -> "quoted"
    IN mode

\* The pieces between separators; blanks after a separator belong to it.
CutAt(s, separators) ==
    LET pieces == PartedAt(s, separators)
    IN [k \in DOMAIN pieces |-> IF k = 1 THEN pieces[k] ELSE Trimmed(pieces[k])]

Commas(s) == {i \in DOMAIN s : s[i] = Comma}

\* Mutant of SplitHeaderValue: quotes are not looked at.
SplitHeaderValue_Commas(s) == NonEmpty(CutAt(s, Commas(s)))

\* An empty element is passed over and ends nothing; the scan in the comment of
\* SplitHeaderValue would end there (httputils.go:441, 475).
SplitHeaderValue(s) ==
    LET mode == Mode(s) IN NonEmpty(CutAt(s, {i \in Commas(s) : mode[i - 1] = "bare"}))

-----------------------------------------------------------------------------
(* q-values, in thousandths. *)

Thousandths(digits) == Decimal(SubSeq(digits \o <<48, 48, 48>>, 1, 3))
Whole(num) == Before(num, Next(num, 1, {Dot}))
Fraction(num) == From(num, Next(num, 1, {Dot}) + 1)
ValidQNumber(num) ==
    AllDigits(Whole(num)) /\ (Contains(num, Dot) => AllDigits(Fraction(num)))
QNumber(num) == 1000 * Decimal(Whole(num)) + Thousandths(Fraction(num))

Q == <<113, Equals>>

\* matchQValue: what comes after the first semicolon must be a q-value.
MatchQValue(part) ==
    LET semi == Next(part, 1, {Semicolon})
        head == Before(part, semi)
        tail == Trimmed(From(part, semi + 1))
        num == From(tail, 3)
    IN [ok |-> /\ semi <= Len(part) => IsPrefix(Q, tail) /\ ValidQNumber(num)
               /\ head # <<>> /\ Range(head) \cap (Blank \cup {Comma}) = {},
        val |-> head,
        q |-> IF semi > Len(part) THEN 1000 ELSE QNumber(num)]

\* Mutant of Ahead: of two equals the later comes first, as in a sort that is not stable.
Ahead_Unstable(pairs, i, j) ==
    pairs[i].q > pairs[j].q \/ (pairs[i].q = pairs[j].q /\ i > j)

\* sort.SliceStable by descending q.
Ahead(pairs, i, j) == pairs[i].q > pairs[j].q \/ (pairs[i].q = pairs[j].q /\ i < j)

\* tmp: the places of the entries that are kept, sorted by how many are ahead.
ParseQValues(value) ==
    LET parts == CutAt(value, Commas(value))
        pairs == [k \in DOMAIN parts |-> MatchQValue(parts[k])]
        tmp == {k \in DOMAIN pairs : pairs[k].ok}
    IN [n \in 1..Cardinality(tmp) |->
           pairs[CHOOSE i \in tmp :
                    Cardinality({j \in tmp : Ahead(pairs, j, i)}) = n - 1].val]

-----------------------------------------------------------------------------
(* Byte ranges. *)

NoRange == <<>>
ByteRange(first, last) == <<[first |-> first, last |-> last]>>

\* Mutant of ParseOneRange: an empty last position is 0.
ParseOneRange_EmptyIsZero(spec) ==
    LET dash == Next(spec, 1, {Dash})
        a == Before(spec, dash)
        b == From(spec, dash + 1)
    IN CASE dash <= Len(spec) /\ AllDigits(a) -> ByteRange(Decimal(a), Decimal(b))
         [] dash = 1 /\ AllDigits(b) -> ByteRange(-Decimal(b), -1)
         [] OTHER -> NoRange

ParseOneRange(spec) ==
    LET dash == Next(spec, 1, {Dash})
        a == Before(spec, dash)
        b == From(spec, dash + 1)
    IN CASE dash <= Len(spec) /\ AllDigits(a) ->
                ByteRange(Decimal(a), IF AllDigits(b) THEN Decimal(b) ELSE -1)
         [] dash = 1 /\ AllDigits(b) -> ByteRange(-Decimal(b), -1)
         [] OTHER -> NoRange

Bytes == <<98, 121, 116, 101, 115, Equals>>

\* ParseRangeHeader: one bad range spoils the header.
ParseRangeHeader(ranges) ==
    LET specs == SplitHeaderValue(From(ranges, Len(Bytes) + 1))
        out == [k \in DOMAIN specs |-> ParseOneRange(specs[k])]
        ok == IsPrefix(Bytes, ranges) /\ NoRange \notin Range(out)
    IN [ok |-> ok, ranges |-> IF ok THEN FlattenSeq(out) ELSE <<>>]
=============================================================================
