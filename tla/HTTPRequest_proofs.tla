------------------------- MODULE HTTPRequest_proofs -------------------------
(***************************************************************************)
(* Theorems about HTTPRequest, for all requests, inputs, caps and widths:  *)
(* the type invariant, how far a header block is read, that numbers small  *)
(* enough for the input never make readN panic, and what a verdict says of *)
(* the request that was sent: that a refusal and an acceptance are both    *)
(* deserved, that nothing of an accepted request is missing or changed,    *)
(* and that a connection is kept alive only past all of its bytes.         *)
(***************************************************************************)
EXTENDS HTTPRequest, SequenceTheorems, TLAPS

\* For the least-element principle.
Texts == INSTANCE Characters_proofs

-----------------------------------------------------------------------------
(* Texts within texts.                                                     *)

\* A part of a text is a text, of the length its bounds give.
LEMMA Part ==
    ASSUME NEW s \in Seq(STRING), NEW i \in 1..(Len(s) + 1), NEW j \in (i - 1)..Len(s)
    PROVE  SubSeq(s, i, j) \in Seq(STRING) /\ Len(SubSeq(s, i, j)) = j - i + 1
<1>1. \A k \in i..j : s[k] \in STRING
  BY ElementOfSeq
<1>2. i \in Int /\ j \in Int
  OBVIOUS
<1>3. /\ SubSeq(s, i, j) \in Seq(STRING)
      /\ Len(SubSeq(s, i, j)) = IF i <= j THEN j - i + 1 ELSE 0
  BY <1>1, <1>2, SubSeqProperties
<1> QED BY <1>3

\* The sequences of Characters are those of this module.
LEMMA SameFlatten == \A s : Texts!FlattenSeq(s) = FlattenSeq(s)
  BY Zenon DEF Texts!FlattenSeq, FlattenSeq

\* Flattening keeps the elements, and takes appending to concatenation.
LEMMA FlattenFacts ==
    ASSUME NEW S, NEW s \in Seq(Seq(S))
    PROVE  /\ FlattenSeq(s) \in Seq(S)
           /\ \A x \in Seq(S) : FlattenSeq(Append(s, x)) = FlattenSeq(s) \o x
           /\ \A t \in Seq(Seq(S)) : FlattenSeq(s \o t) = FlattenSeq(s) \o FlattenSeq(t)
  BY SameFlatten, Texts!FlattenType, Texts!FlattenAppend, Texts!FlattenConcat

\* Flattening no text and one text.
LEMMA FlattenFew ==
    /\ FlattenSeq(<<>>) = <<>>
    /\ \A S : \A x \in Seq(S) : FlattenSeq(<<x>>) = x
  BY SameFlatten, Texts!FlattenFew

\* A text t stands in s after its first b symbols.
At(s, b, t) ==
    b + Len(t) <= Len(s) /\ \A i \in 1..Len(t) : s[b + i] = t[i]

\* Two texts put together, and three.
LEMMA AtConcat ==
    ASSUME NEW S, NEW s \in Seq(S), NEW t \in Seq(S)
    PROVE  /\ s \o t \in Seq(S) /\ Len(s \o t) = Len(s) + Len(t)
           /\ At(s \o t, 0, s) /\ At(s \o t, Len(s), t)
  BY DEF At

\* What stands at a place of a part stands at the shifted place of the whole.
LEMMA AtWithin ==
    ASSUME NEW S, NEW s \in Seq(S), NEW t \in Seq(S), NEW u \in Seq(S),
           NEW b \in Nat, NEW c \in Nat, At(s, b, t), At(t, c, u)
    PROVE  At(s, b + c, u)
<1>1. ASSUME NEW i \in 1..Len(u) PROVE s[(b + c) + i] = u[i]
  <2>1. c + i \in 1..Len(t) /\ b + (c + i) = (b + c) + i
    BY DEF At
  <2>2. s[b + (c + i)] = t[c + i] /\ t[c + i] = u[i]
    BY <2>1 DEF At
  <2> QED BY <2>1, <2>2
<1>2. (b + c) + Len(u) <= Len(s)
  BY DEF At
<1> QED BY <1>1, <1>2 DEF At

\* What stands there is what is cut out there.
LEMMA AtCutOut ==
    ASSUME NEW s \in Seq(STRING), NEW t \in Seq(STRING), NEW b \in Nat, At(s, b, t)
    PROVE  SubSeq(s, b + 1, b + Len(t)) = t
<1> DEFINE u == SubSeq(s, b + 1, b + Len(t))
<1>1. b + 1 \in 1..(Len(s) + 1) /\ b + Len(t) \in ((b + 1) - 1)..Len(s)
  BY DEF At
<1>2. u \in Seq(STRING) /\ Len(u) = Len(t)
  BY <1>1, Part
<1>3. ASSUME NEW i \in 1..Len(t) PROVE u[i] = t[i]
  <2>1. u[i] = s[b + i]
    BY <1>1
  <2> QED BY <2>1 DEF At
<1> HIDE DEF u
<1>4. u = t
  BY <1>2, <1>3
<1> QED BY <1>4 DEF u

\* The first n texts of a sequence, put together.
Upto(lines, n) == FlattenSeq(SubSeq(lines, 1, n))

\* The lines up to n: their length, and where the n-th one stands.
LEMMA UptoFacts ==
    ASSUME NEW S, NEW lines \in Seq(Seq(S))
    PROVE  /\ Upto(lines, 0) = <<>>
           /\ Upto(lines, Len(lines)) = FlattenSeq(lines)
           /\ \A n \in 0..Len(lines) : Upto(lines, n) \in Seq(S)
           /\ \A n \in 0..Len(lines) : Len(Upto(lines, n)) <= Len(FlattenSeq(lines))
           /\ \A n \in 0..Len(lines) : At(FlattenSeq(lines), 0, Upto(lines, n))
           /\ \A n \in 1..Len(lines) :
                 /\ Upto(lines, n) = Upto(lines, n - 1) \o lines[n]
                 /\ Len(Upto(lines, n)) = Len(Upto(lines, n - 1)) + Len(lines[n])
                 /\ At(FlattenSeq(lines), Len(Upto(lines, n - 1)), lines[n])
<1>1. SubSeq(lines, 1, 0) = <<>> /\ SubSeq(lines, 1, Len(lines)) = lines
  BY SMTT(40)
<1>2. ASSUME NEW n \in 0..Len(lines)
      PROVE  /\ SubSeq(lines, 1, n) \in Seq(Seq(S))
             /\ SubSeq(lines, n + 1, Len(lines)) \in Seq(Seq(S))
             /\ lines = SubSeq(lines, 1, n) \o SubSeq(lines, n + 1, Len(lines))
  <2>1. /\ SubSeq(lines, 1, n) \in Seq(Seq(S))
        /\ SubSeq(lines, n + 1, Len(lines)) \in Seq(Seq(S))
    OBVIOUS
  <2>2. 1 \in 1..(Len(lines) + 1) /\ n \in (1 - 1)..Len(lines) /\ Len(lines) \in n..Len(lines)
    OBVIOUS
  <2>3. SubSeq(lines, 1, n) \o SubSeq(lines, n + 1, Len(lines)) = SubSeq(lines, 1, Len(lines))
    BY <2>2, ConcatAdjacentSubSeq
  <2> QED BY <1>1, <2>1, <2>3
<1>3. ASSUME NEW n \in 0..Len(lines)
      PROVE  /\ Upto(lines, n) \in Seq(S)
             /\ Len(Upto(lines, n)) <= Len(FlattenSeq(lines))
             /\ At(FlattenSeq(lines), 0, Upto(lines, n))
  <2> DEFINE a == SubSeq(lines, 1, n)
             b == SubSeq(lines, n + 1, Len(lines))
  <2>1. a \in Seq(Seq(S)) /\ b \in Seq(Seq(S)) /\ lines = a \o b
    BY <1>2
  <2> HIDE DEF a, b
  <2>2. /\ FlattenSeq(a) \in Seq(S) /\ FlattenSeq(b) \in Seq(S)
        /\ FlattenSeq(lines) = FlattenSeq(a) \o FlattenSeq(b)
    BY <2>1, FlattenFacts
  <2>3. At(FlattenSeq(lines), 0, FlattenSeq(a)) /\ Len(FlattenSeq(a)) <= Len(FlattenSeq(lines))
    BY <2>2, AtConcat DEF At
  <2> QED BY <2>2, <2>3 DEF Upto, a
<1>4. ASSUME NEW n \in 1..Len(lines)
      PROVE  /\ Upto(lines, n) = Upto(lines, n - 1) \o lines[n]
             /\ Len(Upto(lines, n)) = Len(Upto(lines, n - 1)) + Len(lines[n])
             /\ At(FlattenSeq(lines), Len(Upto(lines, n - 1)), lines[n])
  <2> DEFINE a == SubSeq(lines, 1, n - 1)
  <2>1. a \in Seq(Seq(S)) /\ SubSeq(lines, 1, n) = Append(a, lines[n]) /\ lines[n] \in Seq(S)
    <3>1. SubSeq(lines, 1, n) = [i \in 1..n |-> lines[i]] /\ a = [i \in 1..(n - 1) |-> lines[i]]
      OBVIOUS
    <3>2. a \in Seq(Seq(S)) /\ lines[n] \in Seq(S) /\ Len(a) = n - 1
      OBVIOUS
    <3> HIDE DEF a
    <3> QED BY <3>1, <3>2
  <2> HIDE DEF a
  <2>2. FlattenSeq(Append(a, lines[n])) = FlattenSeq(a) \o lines[n] /\ FlattenSeq(a) \in Seq(S)
    BY <2>1, FlattenFacts
  <2>3. Upto(lines, n) = Upto(lines, n - 1) \o lines[n] /\ Upto(lines, n - 1) \in Seq(S)
    BY <2>1, <2>2 DEF Upto, a
  <2>4. /\ Len(Upto(lines, n)) = Len(Upto(lines, n - 1)) + Len(lines[n])
        /\ At(Upto(lines, n), Len(Upto(lines, n - 1)), lines[n])
    BY <2>1, <2>3, AtConcat
  <2>5. n \in 0..Len(lines) /\ FlattenSeq(lines) \in Seq(S)
    BY FlattenFacts
  <2>6. At(FlattenSeq(lines), 0, Upto(lines, n)) /\ Upto(lines, n) \in Seq(S)
    BY <1>3, <2>5
  <2>7. Len(Upto(lines, n - 1)) \in Nat /\ 0 + Len(Upto(lines, n - 1)) = Len(Upto(lines, n - 1))
    BY <2>3
  <2>8. At(FlattenSeq(lines), 0 + Len(Upto(lines, n - 1)), lines[n])
    BY <2>1, <2>4, <2>5, <2>6, <2>7, AtWithin
  <2> QED BY <2>3, <2>4, <2>7, <2>8
<1>5. Upto(lines, 0) = <<>> /\ Upto(lines, Len(lines)) = FlattenSeq(lines)
  BY <1>1, FlattenFew DEF Upto
<1> QED BY <1>3, <1>4, <1>5

-----------------------------------------------------------------------------
(* Facts about the cursor.                                                 *)

\* readLine's line: it ends within the data and within the cap.
LEMMA LineFacts ==
    ASSUME NEW data \in Seq(STRING), NEW p \in 0..Len(data), NEW cap \in Nat
    PROVE  /\ Line(data, p, cap) \in Seq(STRING)
           /\ Len(Line(data, p, cap)) \in 0..cap
           /\ p + Len(Line(data, p, cap)) \in 0..Len(data)
<1> DEFINE ends == {i \in p + 1 .. Len(data) : data[i] = LF} \cup {Len(data), p + cap}
<1>1. ends \subseteq Nat /\ ends # {}
  OBVIOUS
<1>2. \E m \in ends : \A n \in ends : m <= n
  <2> HIDE DEF ends
  <2> QED BY <1>1, Texts!LeastNatural
<1>3. /\ LineEnd(data, p, cap) \in ends
      /\ \A n \in ends : LineEnd(data, p, cap) <= n
  <2>1. LineEnd(data, p, cap) = Min(ends)
    BY DEF LineEnd
  <2> HIDE DEF ends
  <2> QED BY <1>2, <2>1 DEF Min
<1>4. LineEnd(data, p, cap) \in p..Len(data) /\ LineEnd(data, p, cap) <= p + cap
  BY <1>1, <1>3
<1> HIDE DEF ends
<1>5. /\ SubSeq(data, p + 1, LineEnd(data, p, cap)) \in Seq(STRING)
      /\ Len(SubSeq(data, p + 1, LineEnd(data, p, cap)))
            = LineEnd(data, p, cap) - (p + 1) + 1
  BY <1>4, Part
<1> QED BY <1>4, <1>5 DEF Line

\* readN's: with enough data and no overrun, the text taken is a text and the
\* cursor stays within the data.
LEMMA TakenFacts ==
    ASSUME NEW data \in Seq(STRING), NEW p \in 0..Len(data), NEW n \in Nat,
           Enough(data, p, n), ~Overruns(data, p, n)
    PROVE  Taken(data, p, n) \in Seq(STRING) /\ p + n \in 0..Len(data)
<1>1. p + n \in 0..Len(data)
  BY DEF Overruns
<1>2. SubSeq(data, p + 1, p + n) \in Seq(STRING)
  BY <1>1, Part
<1> QED BY <1>1, <1>2 DEF Taken

\* An addition that fits the machine's integers is exact.
LEMMA WrappedNarrow ==
    ASSUME NEW n \in Nat, n <= MaxInt
    PROVE  Wrapped(n) = n
<1> DEFINE a == n + MaxInt + 1
           b == 2 * (MaxInt + 1)
<1>1. a \in Nat /\ b \in Nat \ {0} /\ a < b
  BY MaxIntAssumption
<1>2. a % b = a
  <2> HIDE DEF a, b
  <2>1. \A x, y \in Int : y > 0 => x % y \in 0..(y - 1) /\ x = y * (x \div y) + (x % y)
    OBVIOUS
  <2>2. a = b * (a \div b) + (a % b) /\ a % b \in 0..(b - 1) /\ a \div b \in Int
    BY <1>1, <2>1
  <2>3. a \div b >= 1 => b * (a \div b) >= b
    BY <1>1, <2>2
  <2>4. a \div b <= -1 => b * (a \div b) <= -b
    BY <1>1, <2>2
  <2>5. a \div b = 0
    BY <1>1, <2>2, <2>3, <2>4
  <2>6. b * 0 = 0
    BY <1>1
  <2> QED BY <1>1, <2>2, <2>5, <2>6
<1> QED BY <1>2, MaxIntAssumption DEF Wrapped

\* readN does not overrun for a length that leaves room for the cursor.
LEMMA NarrowFits ==
    ASSUME NEW data \in Seq(STRING), NEW p \in 0..Len(data), NEW n \in Nat,
           n + Len(data) <= MaxInt
    PROVE  ~Overruns(data, p, n)
<1>1. p + n \in Nat /\ p + n <= MaxInt
  BY MaxIntAssumption
<1>2. Wrapped(p + n) = p + n
  BY <1>1, WrappedNarrow
<1> QED BY <1>1, <1>2 DEF Overruns, Enough

\* The larger of two caps.
LEMMA ReachFacts ==
    Reach \in Nat /\ MaxURILength <= Reach /\ MaxHeaderLength <= Reach
<1> DEFINE caps == {MaxURILength, MaxHeaderLength}
<1>1. \E x \in caps : \A y \in caps : x >= y
  BY CapsAssumption
<1>2. Reach \in caps /\ \A y \in caps : Reach >= y
  <2> HIDE DEF caps
  <2>1. Reach = Max(caps)
    BY DEF Reach, caps
  <2> QED BY <1>1, <2>1 DEF Max
<1> QED BY <1>2, CapsAssumption

\* A request line's target is a text and its version a version.
LEMMA RequestLineFacts ==
    ASSUME NEW text \in Seq(STRING), IsRequestLine(text)
    PROVE  /\ text[1] \in Methods
           /\ TargetIn(text) \in Seq(STRING)
           /\ Versioned(text) => VersionOf[Last(WithoutEnd(text))] \in Versions
<1>1. Len(text) - 2 \in 2..Len(text)
  BY DEF IsRequestLine, EndsLine
<1>2. /\ WithoutEnd(text) \in Seq(STRING)
      /\ Len(WithoutEnd(text)) = Len(text) - 2
  BY <1>1, Part DEF WithoutEnd
<1>3. TargetIn(text) \in Seq(STRING)
  BY <1>1, <1>2, Part DEF TargetIn
<1>4. Versioned(text) => VersionOf[Last(WithoutEnd(text))] \in Versions
  BY SymbolsAssumption DEF Versioned
<1> QED BY <1>3, <1>4 DEF IsRequestLine

\* A text of one symbol.
LEMMA One ==
    ASSUME NEW S, NEW x \in S
    PROVE  <<x>> \in Seq(S) /\ Len(<<x>>) = 1 /\ <<x>>[1] = x
  OBVIOUS

\* A function on the first n numbers is a sequence.
LEMMA Listed ==
    ASSUME NEW S, NEW n \in Nat, NEW f, f = [i \in 1..n |-> f[i]], \A i \in 1..n : f[i] \in S
    PROVE  f \in Seq(S) /\ Len(f) = n /\ DOMAIN f = 1..n
<1>1. f \in [1..n -> S]
  OBVIOUS
<1> QED BY <1>1

\* A sequence that goes on by one element.
LEMMA OneMore ==
    ASSUME NEW S, NEW a \in Seq(S), NEW x \in S, NEW b,
           b = [i \in 1..(Len(a) + 1) |-> b[i]],
           \A i \in 1..Len(a) : b[i] = a[i], b[Len(a) + 1] = x
    PROVE  b = Append(a, x)
<1>1. Append(a, x) \in Seq(S) /\ Len(Append(a, x)) = Len(a) + 1 /\ Len(a) + 1 \in Nat
  OBVIOUS
<1>2. \A i \in 1..Len(a) : Append(a, x)[i] = a[i]
  OBVIOUS
<1>3. Append(a, x)[Len(a) + 1] = x
  OBVIOUS
<1>4. \A i \in 1..(Len(a) + 1) : i \in 1..Len(a) \/ i = Len(a) + 1
  OBVIOUS
<1>5. \A i \in 1..(Len(a) + 1) : b[i] = Append(a, x)[i] /\ b[i] \in S
  BY <1>2, <1>3, <1>4
<1>6. b \in Seq(S) /\ Len(b) = Len(a) + 1
  BY <1>1, <1>5, Listed
<1> HIDE DEF Append
<1>7. \A i \in 1..Len(b) : b[i] = Append(a, x)[i]
  BY <1>5, <1>6
<1> QED BY <1>1, <1>6, <1>7, SeqEqual

-----------------------------------------------------------------------------
(* What clients send.                                                      *)

\* Lines with something in them.
BlockLines ==
    {t \in Seq(STRING) : /\ Len(t) >= 3 /\ t[Len(t) - 1] = CR /\ t[Len(t)] = LF
                         /\ \A i \in 1..(Len(t) - 2) : t[i] \notin {CR, LF}}

\* The symbols that lines are made of.
LEMMA SymbolFacts ==
    /\ Symbols \subseteq STRING /\ {SP, "0", CR, LF} \subseteq STRING
    /\ CR # LF /\ SP \in Symbols /\ "0" \in Symbols
    /\ EndOfLine \in Seq(STRING) /\ Len(EndOfLine) = 2
    /\ EndOfLine[1] = CR /\ EndOfLine[2] = LF
<1>1. Symbols \subseteq STRING /\ {SP, "0", CR, LF} \subseteq STRING
  BY MarksAssumption, SymbolsAssumption DEF Symbols
<1>2. CR # LF /\ SP \in Symbols /\ "0" \in Symbols
  <2>1. CR # LF /\ SP # CR /\ SP # LF
    BY DEF SP, CR, LF
  <2> QED BY <1>1, <2>1, SymbolsAssumption DEF Symbols
<1>3. EndOfLine = <<CR, LF>>
  BY DEF EndOfLine
<1>4. Len(<<CR, LF>>) = 2 /\ <<CR, LF>>[1] = CR /\ <<CR, LF>>[2] = LF
  OBVIOUS
<1>5. <<CR, LF>> \in Seq(STRING)
  BY <1>1
<1> QED BY <1>1, <1>2, <1>3, <1>4, <1>5

\* A symbol and more, ended as a line is.
LEMMA LineMade ==
    ASSUME NEW x \in Symbols, NEW t \in Seq(Symbols)
    PROVE  LET y == <<x>> \o t \o EndOfLine
           IN  /\ y \in BlockLines /\ Len(y) = Len(t) + 3 /\ y[1] = x
               /\ \A i \in 1..Len(t) : y[i + 1] = t[i]
               /\ WithoutEnd(y) = <<x>> \o t /\ EndsLine(y)
<1> DEFINE a == <<x>> \o t
           y == a \o EndOfLine
<1>1. t \in Seq(STRING) /\ x \in STRING /\ <<x>> \in Seq(STRING)
  <2>1. Symbols \subseteq STRING
    BY SymbolFacts
  <2>2. t \in Seq(STRING)
    BY <2>1, SeqMonotonic
  <2>3. x \in STRING
    BY <2>1
  <2> HIDE DEF a, y
  <2>4. <<x>> \in Seq(STRING)
    BY <2>3, One
  <2> QED BY <2>2, <2>3, <2>4
<1>2. /\ a \in Seq(STRING) /\ Len(a) = Len(t) + 1 /\ a[1] = x
      /\ \A i \in 1..Len(t) : a[i + 1] = t[i]
  <2>1. Len(<<x>>) = 1 /\ <<x>>[1] = x
    OBVIOUS
  <2>2. a \in Seq(STRING) /\ Len(a) = 1 + Len(t)
        /\ \A i \in 1..(1 + Len(t)) : a[i] = IF i <= 1 THEN <<x>>[i] ELSE t[i - 1]
    BY <1>1, <2>1, ConcatProperties
  <2> HIDE DEF a, y
  <2>3. Len(t) \in Nat
    BY <1>1
  <2>4. a[1] = x
    BY <2>1, <2>2, <2>3
  <2>5. ASSUME NEW i \in 1..Len(t) PROVE a[i + 1] = t[i]
    <3>1. i + 1 \in 1..(1 + Len(t)) /\ ~(i + 1 <= 1) /\ (i + 1) - 1 = i
      BY <2>3
    <3> QED BY <2>2, <3>1
  <2> QED BY <2>2, <2>3, <2>4, <2>5
<1>3. ASSUME NEW i \in 1..Len(a) PROVE a[i] \in Symbols
  <2>1. CASE i = 1
    BY <1>2, <2>1
  <2>2. CASE i # 1
    <3>1. i - 1 \in 1..Len(t) /\ (i - 1) + 1 = i
      BY <1>2, <2>2
    <3>2. a[i] = t[i - 1] /\ t[i - 1] \in Symbols
      BY <1>2, <3>1
    <3> QED BY <3>2
  <2> QED BY <2>1, <2>2
<1> HIDE DEF a
<1>4. /\ y \in Seq(STRING) /\ Len(y) = Len(a) + 2
      /\ \A i \in 1..Len(a) : y[i] = a[i]
      /\ y[Len(a) + 1] = CR /\ y[Len(a) + 2] = LF
  <2>1. EndOfLine \in Seq(STRING) /\ Len(EndOfLine) = 2 /\ EndOfLine[1] = CR /\ EndOfLine[2] = LF
    BY SymbolFacts
  <2>2. y \in Seq(STRING) /\ Len(y) = Len(a) + Len(EndOfLine)
    BY <1>2, <2>1, ConcatProperties
  <2>6. Len(a) \in Nat
    BY <1>2
  <2>3. At(y, 0, a) /\ At(y, Len(a), EndOfLine)
    BY <1>2, <2>1, AtConcat
  <2> HIDE DEF y
  <2>4. \A i \in 1..Len(a) : y[i] = a[i]
    BY <2>3, <2>6 DEF At
  <2>5. y[Len(a) + 1] = EndOfLine[1] /\ y[Len(a) + 2] = EndOfLine[2]
    BY <2>1, <2>3, <2>6 DEF At
  <2> QED BY <2>1, <2>2, <2>4, <2>5
<1>5. At(y, 0, a) /\ At(y, Len(a), EndOfLine)
  BY <1>2, SymbolFacts, AtConcat
<1> HIDE DEF y
<1>6. SubSeq(y, 0 + 1, 0 + Len(a)) = a /\ SubSeq(y, Len(a) + 1, Len(a) + Len(EndOfLine)) = EndOfLine
  <2>1. Len(a) \in Nat /\ 0 \in Nat
    BY <1>2
  <2> QED BY <1>2, <1>4, <1>5, <2>1, AtCutOut, SymbolFacts
<1>7. Len(y) - 1 = Len(a) + 1 /\ Len(y) - 2 = Len(a)
  BY <1>2, <1>4
<1>8. WithoutEnd(y) = a /\ EndsLine(y)
  BY <1>2, <1>4, <1>6, <1>7, SymbolFacts DEF WithoutEnd, EndsLine
<1>9. \A i \in 1..(Len(y) - 2) : y[i] \notin {CR, LF}
  <2>1. \A i \in 1..Len(a) : y[i] \notin {CR, LF}
    BY <1>3, <1>4 DEF Symbols
  <2> QED BY <1>7, <2>1
<1>10. y \in BlockLines
  BY <1>2, <1>4, <1>7, <1>9 DEF BlockLines
<1>11. \A i \in 1..Len(t) : y[i + 1] = t[i]
  BY <1>2, <1>4
<1>12. y[1] = x /\ Len(y) = Len(t) + 3
  BY <1>2, <1>4
<1> QED BY <1>8, <1>10, <1>11, <1>12 DEF y, a

\* A field and the lines it is sent in.
Field1 == [name : Symbols \ {SP}, parts : Seq(Seq(Symbols)) \ {<<>>}]

\* The lines of a field.
LEMMA FieldLinesFacts ==
    ASSUME NEW f \in Field1
    PROVE  /\ FieldLines(f) \in Seq(BlockLines) /\ Len(FieldLines(f)) = Len(f.parts)
           /\ DOMAIN FieldLines(f) = DOMAIN f.parts
           /\ FieldLines(f) # <<>>
<1>1. f.parts \in Seq(Seq(Symbols)) /\ f.name \in Symbols /\ f.parts # <<>>
  BY DEF Field1
<1>2. ASSUME NEW i \in 1..Len(f.parts) PROVE FieldLines(f)[i] \in BlockLines
  <2>1. f.parts[i] \in Seq(Symbols)
    BY <1>1
  <2>2. /\ <<f.name>> \o f.parts[i] \o EndOfLine \in BlockLines
        /\ <<SP>> \o f.parts[i] \o EndOfLine \in BlockLines
    BY <1>1, <2>1, LineMade, SymbolFacts
  <2>3. DOMAIN f.parts = 1..Len(f.parts)
    BY <1>1
  <2>4. FieldLines(f)[i] = (IF i = 1 THEN <<f.name>> ELSE <<SP>>) \o f.parts[i] \o EndOfLine
    BY <2>3 DEF FieldLines
  <2> QED BY <2>2, <2>4
<1>3. DOMAIN FieldLines(f) = DOMAIN f.parts /\ DOMAIN f.parts = 1..Len(f.parts)
  BY <1>1 DEF FieldLines
<1>4. FieldLines(f) = [i \in 1..Len(f.parts) |-> FieldLines(f)[i]]
  BY <1>3 DEF FieldLines
<1>5. FieldLines(f) \in Seq(BlockLines) /\ Len(FieldLines(f)) = Len(f.parts)
  <2>1. Len(f.parts) \in Nat
    BY <1>1
  <2> QED BY <1>2, <1>4, <2>1, Listed
<1>6. Len(f.parts) # 0
  BY <1>1
<1> QED BY <1>3, <1>5, <1>6

\* All lines of a block.
LinesOf(fields) == FlattenSeq([i \in DOMAIN fields |-> FieldLines(fields[i])])

\* Lines are texts.
LEMMA LinesAreTexts == BlockLines \subseteq Seq(STRING) /\ Seq(BlockLines) \subseteq Seq(Seq(STRING))
<1>1. BlockLines \subseteq Seq(STRING)
  BY DEF BlockLines
<1> QED BY <1>1, SeqMonotonic

\* One more field, and its lines.
LEMMA LinesOfGrows ==
    ASSUME NEW fs \in Seq(Field1), NEW f \in Field1
    PROVE  /\ LinesOf(Append(fs, f)) = LinesOf(fs) \o FieldLines(f)
           /\ LinesOf(fs) \in Seq(BlockLines)
           /\ Block(Append(fs, f)) = Block(fs) \o FlattenSeq(FieldLines(f))
<1> DEFINE gs == Append(fs, f)
           a == [i \in DOMAIN fs |-> FieldLines(fs[i])]
           b == [i \in DOMAIN gs |-> FieldLines(gs[i])]
           c == [i \in DOMAIN fs |-> FlattenSeq(FieldLines(fs[i]))]
           d == [i \in DOMAIN gs |-> FlattenSeq(FieldLines(gs[i]))]
<1>1. /\ DOMAIN fs = 1..Len(fs) /\ DOMAIN gs = 1..(Len(fs) + 1) /\ Len(fs) \in Nat
      /\ gs[Len(fs) + 1] = f /\ \A i \in 1..Len(fs) : gs[i] = fs[i] /\ fs[i] \in Field1
  OBVIOUS
<1> HIDE DEF gs
<1>2. /\ \A i \in 1..Len(fs) : a[i] = FieldLines(fs[i]) /\ b[i] = a[i]
      /\ \A i \in 1..Len(fs) : c[i] = FlattenSeq(FieldLines(fs[i])) /\ d[i] = c[i]
      /\ b[Len(fs) + 1] = FieldLines(f) /\ d[Len(fs) + 1] = FlattenSeq(FieldLines(f))
      /\ DOMAIN a = 1..Len(fs) /\ DOMAIN c = 1..Len(fs)
      /\ DOMAIN b = 1..(Len(fs) + 1) /\ DOMAIN d = 1..(Len(fs) + 1)
      /\ a = [i \in 1..Len(fs) |-> a[i]] /\ c = [i \in 1..Len(fs) |-> c[i]]
      /\ b = [i \in 1..(Len(fs) + 1) |-> b[i]] /\ d = [i \in 1..(Len(fs) + 1) |-> d[i]]
  BY <1>1
<1> HIDE DEF a, b, c, d
<1>3. FieldLines(f) \in Seq(BlockLines) /\ FlattenSeq(FieldLines(f)) \in Seq(STRING)
  BY FieldLinesFacts, LinesAreTexts, FlattenFacts
<1>4. \A i \in 1..Len(fs) : a[i] \in Seq(BlockLines) /\ c[i] \in Seq(STRING)
  BY <1>1, <1>2, FieldLinesFacts, LinesAreTexts, FlattenFacts
<1>5. a \in Seq(Seq(BlockLines)) /\ c \in Seq(Seq(STRING))
  <2>1. Len(fs) \in Nat
    BY <1>1
  <2> QED BY <1>2, <1>4, <2>1, Listed
<1>10. Len(a) = Len(fs) /\ Len(c) = Len(fs)
  <2>1. Len(fs) \in Nat
    BY <1>1
  <2> QED BY <1>2, <1>4, <2>1, Listed
<1>6. b = Append(a, FieldLines(f))
  <2> DEFINE x == FieldLines(f)
  <2>1. x \in Seq(BlockLines) /\ b[Len(a) + 1] = x /\ b = [i \in 1..(Len(a) + 1) |-> b[i]]
        /\ \A i \in 1..Len(a) : b[i] = a[i]
    BY <1>2, <1>3, <1>10
  <2> HIDE DEF x
  <2> QED BY <1>5, <2>1, OneMore DEF x
<1>7. d = Append(c, FlattenSeq(FieldLines(f)))
  <2> DEFINE x == FlattenSeq(FieldLines(f))
  <2>1. x \in Seq(STRING) /\ d[Len(c) + 1] = x /\ d = [i \in 1..(Len(c) + 1) |-> d[i]]
        /\ \A i \in 1..Len(c) : d[i] = c[i]
    BY <1>2, <1>3, <1>10
  <2> HIDE DEF x
  <2> QED BY <1>5, <2>1, OneMore DEF x
<1>8. FlattenSeq(b) = FlattenSeq(a) \o FieldLines(f) /\ FlattenSeq(a) \in Seq(BlockLines)
  BY <1>3, <1>5, <1>6, FlattenFacts
<1>9. FlattenSeq(d) = FlattenSeq(c) \o FlattenSeq(FieldLines(f))
  BY <1>3, <1>5, <1>7, FlattenFacts
<1> QED BY <1>8, <1>9 DEF LinesOf, Block, a, b, c, d, gs

\* A block is its lines put together; what is cut in it is one of them.
LEMMA LinesOfFacts ==
    ASSUME NEW fields \in Seq(Field1)
    PROVE  /\ LinesOf(fields) \in Seq(BlockLines)
           /\ Block(fields) = FlattenSeq(LinesOf(fields)) /\ Block(fields) \in Seq(STRING)
           /\ CutFields(fields) <=> \E n \in 1..Len(LinesOf(fields)) : CutToBlank(LinesOf(fields)[n])
<1> DEFINE P == {fs \in Seq(Field1) :
                   /\ LinesOf(fs) \in Seq(BlockLines)
                   /\ Block(fs) = FlattenSeq(LinesOf(fs)) /\ Block(fs) \in Seq(STRING)
                   /\ CutFields(fs) <=> \E n \in 1..Len(LinesOf(fs)) : CutToBlank(LinesOf(fs)[n])}
<1>1. <<>> \in P
  <2> DEFINE e == <<>>
  <2>1. e \in Seq(Field1) /\ DOMAIN e = {} /\ Len(e) = 0 /\ e \in Seq(BlockLines)
        /\ e \in Seq(STRING)
    OBVIOUS
  <2>2. [i \in DOMAIN e |-> FieldLines(e[i])] = e /\ [i \in DOMAIN e |-> FlattenSeq(FieldLines(e[i]))] = e
    OBVIOUS
  <2>3. FlattenSeq(e) = e
    BY FlattenFew
  <2> HIDE DEF e
  <2>4. LinesOf(e) = e /\ Block(e) = e /\ ~CutFields(e)
    BY <2>1, <2>2, <2>3 DEF LinesOf, Block, CutFields
  <2>5. ~\E n \in 1..Len(LinesOf(e)) : CutToBlank(LinesOf(e)[n])
    BY <2>1, <2>4
  <2>6. Block(e) = FlattenSeq(LinesOf(e)) /\ LinesOf(e) \in Seq(BlockLines) /\ Block(e) \in Seq(STRING)
    BY <2>1, <2>3, <2>4
  <2>7. e \in P
    BY <2>1, <2>4, <2>5, <2>6
  <2> QED BY <2>7 DEF e
<1>2. ASSUME NEW fs \in Seq(Field1), NEW f \in Field1, fs \in P
      PROVE  Append(fs, f) \in P
  <2> DEFINE gs == Append(fs, f)
             a == LinesOf(fs)
             b == FieldLines(f)
  <2>1. /\ LinesOf(gs) = a \o b /\ Block(gs) = Block(fs) \o FlattenSeq(b)
        /\ a \in Seq(BlockLines) /\ b \in Seq(BlockLines) /\ DOMAIN b = DOMAIN f.parts
        /\ Block(fs) = FlattenSeq(a) /\ gs \in Seq(Field1)
        /\ CutFields(fs) <=> \E n \in 1..Len(a) : CutToBlank(a[n])
    BY <1>2, LinesOfGrows, FieldLinesFacts
  <2>2. CutFields(gs) <=> CutFields(fs) \/ \E j \in DOMAIN b : CutToBlank(b[j])
    <3>1. /\ DOMAIN fs = 1..Len(fs) /\ DOMAIN gs = 1..(Len(fs) + 1) /\ Len(fs) \in Nat
          /\ gs[Len(fs) + 1] = f /\ \A i \in 1..Len(fs) : gs[i] = fs[i]
      OBVIOUS
    <3>2. \A i \in DOMAIN gs : i \in DOMAIN fs \/ i = Len(fs) + 1
      BY <3>1
    <3> HIDE DEF gs
    <3>3. CutFields(gs) <=> \E i \in DOMAIN gs : \E j \in DOMAIN gs[i].parts :
                                CutToBlank(FieldLines(gs[i])[j])
      BY Zenon DEF CutFields
    <3>4. CutFields(fs) <=> \E i \in DOMAIN fs : \E j \in DOMAIN fs[i].parts :
                                CutToBlank(FieldLines(fs[i])[j])
      BY Zenon DEF CutFields
    <3>5. \A i \in DOMAIN fs : i \in DOMAIN gs /\ gs[i] = fs[i]
      BY <3>1
    <3>6. Len(fs) + 1 \in DOMAIN gs
      BY <3>1
    <3>7. (\E j \in DOMAIN b : CutToBlank(b[j]))
             <=> \E j \in DOMAIN f.parts : CutToBlank(FieldLines(f)[j])
      BY <2>1
    <3> HIDE DEF b
    <3> QED BY <3>1, <3>2, <3>3, <3>4, <3>5, <3>6, <3>7, Zenon
  <2> HIDE DEF gs, a, b
  <2>3. a \in Seq(Seq(STRING)) /\ b \in Seq(Seq(STRING))
    BY <2>1, LinesAreTexts
  <2>4. FlattenSeq(a \o b) = FlattenSeq(a) \o FlattenSeq(b) /\ FlattenSeq(a \o b) \in Seq(STRING)
    <3>1. a \o b \in Seq(Seq(STRING))
      BY <2>3
    <3> QED BY <2>3, <3>1, FlattenFacts
  <2>5. (\E n \in 1..Len(a \o b) : CutToBlank((a \o b)[n]))
           <=> (\E n \in 1..Len(a) : CutToBlank(a[n])) \/ (\E j \in DOMAIN b : CutToBlank(b[j]))
    <3> DEFINE c == a \o b
    <3>1. /\ Len(c) = Len(a) + Len(b) /\ Len(a) \in Nat /\ Len(b) \in Nat /\ DOMAIN b = 1..Len(b)
          /\ \A n \in 1..Len(a) : c[n] = a[n] /\ n \in 1..Len(c)
          /\ \A n \in 1..Len(b) : c[Len(a) + n] = b[n] /\ Len(a) + n \in 1..Len(c)
      BY <2>3
    <3>2. \A n \in 1..Len(c) : n \in 1..Len(a) \/ (n - Len(a) \in 1..Len(b) /\ Len(a) + (n - Len(a)) = n)
      BY <3>1
    <3> HIDE DEF c
    <3>3. ASSUME NEW n \in 1..Len(c), CutToBlank(c[n])
          PROVE  (\E k \in 1..Len(a) : CutToBlank(a[k])) \/ (\E j \in DOMAIN b : CutToBlank(b[j]))
      <4>1. CASE n \in 1..Len(a)
        BY <3>1, <3>3, <4>1
      <4>2. CASE n - Len(a) \in 1..Len(b) /\ Len(a) + (n - Len(a)) = n
        <5>1. c[n] = b[n - Len(a)]
          BY <3>1, <4>2
        <5> QED BY <3>1, <3>3, <4>2, <5>1
      <4> QED BY <3>2, <4>1, <4>2
    <3>4. ASSUME NEW n \in 1..Len(a), CutToBlank(a[n]) PROVE \E k \in 1..Len(c) : CutToBlank(c[k])
      BY <3>1, <3>4
    <3>5. ASSUME NEW n \in DOMAIN b, CutToBlank(b[n]) PROVE \E k \in 1..Len(c) : CutToBlank(c[k])
      BY <3>1, <3>5
    <3> QED BY <3>3, <3>4, <3>5 DEF c
  <2>6. a \o b \in Seq(BlockLines)
    BY <2>1
  <2>7. gs \in P
    BY <2>1, <2>2, <2>4, <2>5, <2>6
  <2> QED BY <2>7 DEF gs
<1> HIDE DEF P
<1>3. Seq(Field1) \subseteq P
  BY <1>1, <1>2, Texts!SeqInduction
<1> QED BY <1>3 DEF P

\* What the grammar says of a request's parts.
LEMMA GrammarFacts ==
    ASSUME NEW m, Grammar(m)
    PROVE  /\ m.method \in Symbols /\ m.target \in Seq(Symbols) /\ m.target # <<>>
           /\ \A i \in 1..Len(m.target) : m.target[i] \notin DOMAIN VersionOf
           /\ m.version \in DOMAIN VersionOf \cup {"none"}
           /\ m.fields \in Seq(Field1) /\ m.trailer \in Seq(Field1)
           /\ m.chunks \in Chunks /\ m.data \in Seq(STRING) /\ m.chunked \in BOOLEAN
<1> DEFINE R == [method : Symbols, target : Seq(Symbols \ DOMAIN VersionOf) \ {<<>>},
                 version : DOMAIN VersionOf \cup {"none"}, fields : Fields, trailer : Fields,
                 chunked : BOOLEAN, chunks : Chunks, data : Seq(STRING)]
<1>1. m \in R
  BY Zenon DEF Grammar
<1>2. /\ m.method \in Symbols /\ m.target \in Seq(Symbols \ DOMAIN VersionOf) \ {<<>>}
      /\ m.version \in DOMAIN VersionOf \cup {"none"}
      /\ m.fields \in Fields /\ m.trailer \in Fields
      /\ m.chunks \in Chunks /\ m.data \in Seq(STRING) /\ m.chunked \in BOOLEAN
  BY <1>1
<1>3. Fields = Seq(Field1)
  BY DEF Fields, Field1
<1>4. m.target \in Seq(Symbols \ DOMAIN VersionOf)
  BY <1>2
<1>5. Symbols \ DOMAIN VersionOf \subseteq Symbols
  OBVIOUS
<1>6. m.target \in Seq(Symbols)
  BY <1>4, <1>5, SeqMonotonic
<1>7. \A i \in 1..Len(m.target) : m.target[i] \in Symbols \ DOMAIN VersionOf
  BY <1>4, ElementOfSeq
<1> QED BY <1>2, <1>3, <1>6, <1>7

\* The request line.
LEMMA LineOfFacts ==
    ASSUME NEW m, Grammar(m)
    PROVE  LET y == LineOf(m)
               v == IF m.version = "none" THEN <<>> ELSE <<m.version>>
           IN  /\ y \in BlockLines /\ y[1] = m.method
               /\ Len(y) = Len(m.target) + Len(v) + 3
               /\ WithoutEnd(y) = <<m.method>> \o (m.target \o v) /\ EndsLine(y)
<1> DEFINE v == IF m.version = "none" THEN <<>> ELSE <<m.version>>
           t == m.target \o v
<1>1. m.method \in Symbols /\ m.target \in Seq(Symbols)
  BY GrammarFacts
<1>2. v \in Seq(Symbols)
  <2>1. m.version # "none" => m.version \in Symbols
    BY GrammarFacts, SymbolsAssumption
  <2> QED BY <2>1
<1> HIDE DEF v
<1>3. t \in Seq(Symbols) /\ Len(t) = Len(m.target) + Len(v)
  BY <1>1, <1>2, ConcatProperties
<1>4. (<<m.method>> \o m.target) \o v = <<m.method>> \o (m.target \o v)
  <2> DEFINE w == <<m.method>>
             g == m.target
  <2>1. w \in Seq(Symbols) /\ g \in Seq(Symbols)
    BY <1>1, One
  <2> HIDE DEF w, g
  <2>2. (w \o g) \o v = w \o (g \o v)
    BY <1>2, <2>1, ConcatAssociative
  <2> QED BY <2>2 DEF w, g
<1>5. LineOf(m) = <<m.method>> \o t \o EndOfLine
  <2>1. LineOf(m) = ((<<m.method>> \o m.target) \o v) \o EndOfLine
    BY DEF LineOf, v
  <2> QED BY <1>4, <2>1
<1> HIDE DEF t
<1>6. LET y == <<m.method>> \o t \o EndOfLine
      IN  /\ y \in BlockLines /\ Len(y) = Len(t) + 3 /\ y[1] = m.method
          /\ WithoutEnd(y) = <<m.method>> \o t /\ EndsLine(y)
  BY <1>1, <1>3, LineMade
<1> QED BY <1>3, <1>5, <1>6 DEF t, v

\* A chunk's bytes.
LEMMA ChunkFacts ==
    ASSUME NEW c \in [size : Symbols, ext : Seq(Symbols), data : Seq(STRING)]
    PROVE  /\ SizeLine(c) \in BlockLines /\ Len(SizeLine(c)) = Len(c.ext) + 3
           /\ SizeLine(c)[1] = c.size /\ EndsLine(SizeLine(c))
           /\ WithoutEnd(SizeLine(c)) = <<c.size>> \o c.ext
           /\ ChunkBytes(c) \in Seq(STRING) /\ c.data \in Seq(STRING)
           /\ At(ChunkBytes(c), 0, SizeLine(c))
           /\ At(ChunkBytes(c), Len(SizeLine(c)), c.data)
           /\ At(ChunkBytes(c), Len(SizeLine(c)) + Len(c.data), EndOfLine)
           /\ Len(ChunkBytes(c)) = Len(SizeLine(c)) + Len(c.data) + 2
<1> DEFINE s == SizeLine(c)
           d == c.data
           a == s \o d
<1>1. c.size \in Symbols /\ c.ext \in Seq(Symbols) /\ d \in Seq(STRING)
  OBVIOUS
<1>2. LET y == <<c.size>> \o c.ext \o EndOfLine
      IN  /\ y \in BlockLines /\ Len(y) = Len(c.ext) + 3 /\ y[1] = c.size
          /\ WithoutEnd(y) = <<c.size>> \o c.ext /\ EndsLine(y)
  BY <1>1, LineMade
<1>3. /\ s \in BlockLines /\ Len(s) = Len(c.ext) + 3
      /\ s[1] = c.size /\ EndsLine(s) /\ WithoutEnd(s) = <<c.size>> \o c.ext
  BY <1>2, Zenon DEF SizeLine
<1>4. s \in Seq(STRING)
  BY <1>3 DEF BlockLines
<1> HIDE DEF s, d
<1>5. a \in Seq(STRING) /\ Len(a) = Len(s) + Len(d) /\ At(a, 0, s) /\ At(a, Len(s), d)
  BY <1>1, <1>4, AtConcat
<1> HIDE DEF a
<1>6. ChunkBytes(c) = a \o EndOfLine
  BY DEF ChunkBytes, a, s, d
<1>7. /\ ChunkBytes(c) \in Seq(STRING) /\ Len(ChunkBytes(c)) = Len(a) + 2
      /\ At(ChunkBytes(c), 0, a) /\ At(ChunkBytes(c), Len(a), EndOfLine)
  <2>1. EndOfLine \in Seq(STRING) /\ Len(EndOfLine) = 2
    BY SymbolFacts
  <2>2. /\ a \o EndOfLine \in Seq(STRING) /\ Len(a \o EndOfLine) = Len(a) + Len(EndOfLine)
        /\ At(a \o EndOfLine, 0, a) /\ At(a \o EndOfLine, Len(a), EndOfLine)
    BY <1>5, <2>1, AtConcat
  <2> QED BY <1>6, <2>1, <2>2
<1>8. Len(s) \in Nat /\ Len(d) \in Nat /\ 0 \in Nat /\ 0 + 0 = 0 /\ 0 + Len(s) = Len(s)
  BY <1>1, <1>4
<1>9. At(ChunkBytes(c), 0 + 0, s) /\ At(ChunkBytes(c), 0 + Len(s), d)
  BY <1>1, <1>4, <1>5, <1>7, <1>8, AtWithin
<1>10. At(ChunkBytes(c), 0, s) /\ At(ChunkBytes(c), Len(s), d)
  BY <1>8, <1>9
<1>11. At(ChunkBytes(c), Len(s) + Len(d), EndOfLine) /\ Len(ChunkBytes(c)) = Len(s) + Len(d) + 2
  BY <1>5, <1>7
<1> QED BY <1>1, <1>3, <1>7, <1>10, <1>11 DEF s, d

\* The bytes of the chunks, one by one.
ChunksOf(m) == [i \in DOMAIN m.chunks |-> ChunkBytes(m.chunks[i])]
DataOf(m) == [i \in DOMAIN m.chunks |-> m.chunks[i].data]

\* The chunks as they are sent.
LEMMA ChunksOfFacts ==
    ASSUME NEW m, Grammar(m)
    PROVE  /\ m.chunks \in Seq([size : Symbols, ext : Seq(Symbols), data : Seq(STRING)])
           /\ DOMAIN m.chunks = 1..Len(m.chunks)
           /\ ChunksOf(m) \in Seq(Seq(STRING)) /\ Len(ChunksOf(m)) = Len(m.chunks)
           /\ DataOf(m) \in Seq(Seq(STRING)) /\ Len(DataOf(m)) = Len(m.chunks)
           /\ \A i \in 1..Len(m.chunks) :
                 /\ m.chunks[i] \in [size : Symbols, ext : Seq(Symbols), data : Seq(STRING)]
                 /\ ChunksOf(m)[i] = ChunkBytes(m.chunks[i])
                 /\ DataOf(m)[i] = m.chunks[i].data
<1> DEFINE C == [size : Symbols, ext : Seq(Symbols), data : Seq(STRING)]
           n == Len(m.chunks)
<1>1. m.chunks \in Seq(C)
  BY GrammarFacts DEF Chunks
<1> HIDE DEF C
<1>2. n \in Nat /\ DOMAIN m.chunks = 1..n /\ \A i \in 1..n : m.chunks[i] \in C
  BY <1>1
<1>3. ASSUME NEW i \in 1..n PROVE ChunkBytes(m.chunks[i]) \in Seq(STRING) /\ m.chunks[i].data \in Seq(STRING)
  BY <1>2, ChunkFacts DEF C
<1> HIDE DEF n
<1>4. /\ ChunksOf(m) = [i \in 1..n |-> ChunksOf(m)[i]] /\ DataOf(m) = [i \in 1..n |-> DataOf(m)[i]]
      /\ \A i \in 1..n : ChunksOf(m)[i] = ChunkBytes(m.chunks[i]) /\ DataOf(m)[i] = m.chunks[i].data
  BY <1>2 DEF ChunksOf, DataOf
<1>5. ChunksOf(m) \in Seq(Seq(STRING)) /\ Len(ChunksOf(m)) = n
  BY <1>2, <1>3, <1>4, Listed
<1>6. DataOf(m) \in Seq(Seq(STRING)) /\ Len(DataOf(m)) = n
  <2> DEFINE g == DataOf(m)
  <2>1. g = [i \in 1..n |-> g[i]] /\ \A i \in 1..n : g[i] \in Seq(STRING)
    BY <1>3, <1>4
  <2> HIDE DEF g
  <2>2. g \in Seq(Seq(STRING)) /\ Len(g) = n
    BY <1>2, <2>1, Listed
  <2> QED BY <2>2 DEF g
<1> QED BY <1>1, <1>2, <1>4, <1>5, <1>6 DEF n, C

\* Where the parts of a request stand on the wire.
PayloadStart(m) == Len(HeadOf(m)) + (IF HasHead(m) THEN 2 ELSE 0)
TrailerStart(m) == Len(UpToTrailer(m))
ChunksEnd(m) == PayloadStart(m) + Len(FlattenSeq(ChunksOf(m)))

\* Where the request line and the header block stand in the head.
LEMMA HeadFacts ==
    ASSUME NEW m, Grammar(m)
    PROVE  /\ LineOf(m) \in Seq(STRING) /\ Block(m.fields) \in Seq(STRING)
           /\ HeadOf(m) \in Seq(STRING)
           /\ At(HeadOf(m), 0, LineOf(m))
           /\ HasHead(m) => /\ Len(HeadOf(m)) = Len(LineOf(m)) + Len(Block(m.fields))
                            /\ At(HeadOf(m), Len(LineOf(m)), Block(m.fields))
           /\ ~HasHead(m) => HeadOf(m) = LineOf(m)
<1>1. LineOf(m) \in Seq(STRING) /\ Block(m.fields) \in Seq(STRING)
  <2>1. LineOf(m) \in BlockLines
    BY LineOfFacts
  <2>2. Block(m.fields) \in Seq(STRING)
    BY GrammarFacts, LinesOfFacts
  <2> QED BY <2>1, <2>2 DEF BlockLines
<1>2. CASE HasHead(m)
  <2>1. HeadOf(m) = LineOf(m) \o Block(m.fields)
    BY <1>2, Zenon DEF HeadOf
  <2>2. /\ LineOf(m) \o Block(m.fields) \in Seq(STRING)
        /\ Len(LineOf(m) \o Block(m.fields)) = Len(LineOf(m)) + Len(Block(m.fields))
        /\ At(LineOf(m) \o Block(m.fields), 0, LineOf(m))
        /\ At(LineOf(m) \o Block(m.fields), Len(LineOf(m)), Block(m.fields))
    BY <1>1, AtConcat
  <2> QED BY <1>1, <1>2, <2>1, <2>2
<1>3. CASE ~HasHead(m)
  <2>1. HeadOf(m) = LineOf(m) \o <<>>
    BY <1>3, Zenon DEF HeadOf
  <2>2. HeadOf(m) = LineOf(m)
    BY <1>1, <2>1, ConcatEmptySeq
  <2>3. At(LineOf(m), 0, LineOf(m))
    BY <1>1 DEF At
  <2> QED BY <1>1, <1>3, <2>2, <2>3
<1> QED BY <1>2, <1>3

\* Where the payload stands.
LEMMA UpToTrailerFacts ==
    ASSUME NEW m, Grammar(m)
    PROVE  /\ UpToTrailer(m) \in Seq(STRING) /\ PayloadStart(m) \in Nat
           /\ FlattenSeq(ChunksOf(m)) \in Seq(STRING) /\ ChunksEnd(m) \in Nat
           /\ At(UpToTrailer(m), 0, HeadOf(m))
           /\ HasHead(m) => At(UpToTrailer(m), Len(HeadOf(m)), EndOfLine)
           /\ ~m.chunked => /\ At(UpToTrailer(m), PayloadStart(m), m.data)
                            /\ TrailerStart(m) = PayloadStart(m) + Len(m.data)
           /\ m.chunked => /\ At(UpToTrailer(m), PayloadStart(m), FlattenSeq(ChunksOf(m)))
                           /\ At(UpToTrailer(m), ChunksEnd(m), LastChunk)
                           /\ TrailerStart(m) = ChunksEnd(m) + 3
<1> DEFINE h == HeadOf(m)
           x == IF HasHead(m) THEN EndOfLine ELSE <<>>
           hx == h \o x
           c == FlattenSeq(ChunksOf(m))
           y == IF m.chunked THEN c \o LastChunk ELSE m.data
           u == hx \o y
<1>1. h \in Seq(STRING) /\ x \in Seq(STRING) /\ Len(x) = (IF HasHead(m) THEN 2 ELSE 0)
  <2>1. h \in Seq(STRING)
    BY HeadFacts
  <2>2. EndOfLine \in Seq(STRING) /\ Len(EndOfLine) = 2
    BY SymbolFacts
  <2> HIDE DEF h, hx, y, u
  <2>3. <<>> \in Seq(STRING) /\ Len(<<>>) = 0
    BY EmptySeq
  <2>4. x \in Seq(STRING) /\ Len(x) = (IF HasHead(m) THEN 2 ELSE 0)
    <3>1. CASE HasHead(m)
      BY <2>2, <3>1
    <3>2. CASE ~HasHead(m)
      BY <2>3, <3>2
    <3> QED BY <3>1, <3>2
  <2> QED BY <2>1, <2>4
<1>2. c \in Seq(STRING) /\ m.data \in Seq(STRING)
  BY GrammarFacts, ChunksOfFacts, FlattenFacts
<1>3. LastChunk \in Seq(STRING) /\ Len(LastChunk) = 3
  <2> DEFINE e == <<>>
  <2>1. e \in Seq(Symbols) /\ e \in Seq(STRING) /\ Len(e) = 0
    OBVIOUS
  <2> HIDE DEF e
  <2>2. "0" \in Symbols /\ "0" \in STRING
    BY SymbolFacts
  <2>3. <<"0">> \o e = <<"0">>
    BY <2>1, <2>2, One, ConcatEmptySeq DEF e
  <2>4. LET z == <<"0">> \o e \o EndOfLine IN z \in BlockLines /\ Len(z) = Len(e) + 3
    BY <2>1, <2>2, LineMade
  <2>5. LastChunk = <<"0">> \o EndOfLine
    BY DEF LastChunk
  <2>6. LastChunk \in BlockLines /\ Len(LastChunk) = Len(e) + 3
    BY <2>3, <2>4, <2>5, Zenon
  <2> QED BY <2>1, <2>6 DEF BlockLines
<1> HIDE DEF h, x, c
<1>4. hx \in Seq(STRING) /\ Len(hx) = Len(h) + Len(x) /\ At(hx, 0, h) /\ At(hx, Len(h), x)
  BY <1>1, AtConcat
<1>5. /\ c \o LastChunk \in Seq(STRING) /\ Len(c \o LastChunk) = Len(c) + Len(LastChunk)
      /\ At(c \o LastChunk, 0, c) /\ At(c \o LastChunk, Len(c), LastChunk)
  BY <1>2, <1>3, AtConcat
<1>6. /\ y \in Seq(STRING)
      /\ ~m.chunked => y = m.data
      /\ m.chunked => y = c \o LastChunk
  BY <1>2, <1>5
<1> HIDE DEF hx, y
<1>7. u \in Seq(STRING) /\ Len(u) = Len(hx) + Len(y) /\ At(u, 0, hx) /\ At(u, Len(hx), y)
  BY <1>4, <1>6, AtConcat
<1> HIDE DEF u
<1>8. /\ Len(h) \in Nat /\ Len(x) \in Nat /\ Len(c) \in Nat /\ Len(hx) \in Nat
      /\ 0 + 0 = 0 /\ 0 + Len(h) = Len(h) /\ Len(hx) + 0 = Len(hx)
  BY <1>1, <1>2, <1>4
<1>9. At(u, 0, h) /\ At(u, Len(h), x)
  <2>1. At(u, 0 + 0, h) /\ At(u, 0 + Len(h), x)
    BY <1>1, <1>4, <1>7, <1>8, AtWithin, ZenonT(40)
  <2> QED BY <1>8, <2>1
<1>10. m.chunked => At(u, Len(hx), c) /\ At(u, Len(hx) + Len(c), LastChunk)
  <2>1. m.chunked => At(u, Len(hx) + 0, c) /\ At(u, Len(hx) + Len(c), LastChunk)
    BY <1>2, <1>3, <1>4, <1>5, <1>6, <1>7, <1>8, AtWithin, ZenonT(40)
  <2> QED BY <1>8, <2>1
<1>11. UpToTrailer(m) = u
  BY Zenon DEF UpToTrailer, u, hx, h, x, y, c, ChunksOf
<1>12. Len(hx) = PayloadStart(m) /\ PayloadStart(m) \in Nat
  BY <1>1, <1>4, <1>8 DEF PayloadStart, h
<1>13. ChunksEnd(m) = Len(hx) + Len(c)
  BY <1>12 DEF ChunksEnd, c
<1>14. HasHead(m) => At(u, Len(h), EndOfLine)
  BY <1>9 DEF x
<1>15. ~m.chunked => Len(u) = Len(hx) + Len(m.data) /\ At(u, Len(hx), m.data)
  BY <1>6, <1>7
<1>16. ASSUME m.chunked PROVE Len(u) = (Len(hx) + Len(c)) + 3
  <2>1. Len(y) = Len(c) + 3
    BY <1>3, <1>5, <1>6, <1>16
  <2> QED BY <1>7, <1>8, <2>1
<1>17. TrailerStart(m) = Len(u) /\ ChunksEnd(m) \in Nat
  BY <1>8, <1>11, <1>13 DEF TrailerStart
<1> QED BY <1>2, <1>7, <1>9, <1>10, <1>11, <1>12, <1>13, <1>14, <1>15, <1>16, <1>17 DEF h, c

\* Where everything stands in the bytes sent.
LEMMA WireFacts ==
    ASSUME NEW m, Grammar(m)
    PROVE  /\ Wire(m) \in Seq(STRING) /\ At(Wire(m), 0, UpToTrailer(m))
           /\ At(Wire(m), 0, LineOf(m))
           /\ HasHead(m) => /\ At(Wire(m), Len(LineOf(m)), Block(m.fields))
                            /\ At(Wire(m), Len(HeadOf(m)), EndOfLine)
           /\ ~m.chunked => /\ At(Wire(m), PayloadStart(m), m.data)
                            /\ Len(Wire(m)) = PayloadStart(m) + Len(m.data)
           /\ m.chunked => /\ HasHead(m)
                           /\ At(Wire(m), PayloadStart(m), FlattenSeq(ChunksOf(m)))
                           /\ At(Wire(m), ChunksEnd(m), LastChunk)
                           /\ TrailerStart(m) \in Nat /\ TrailerStart(m) = ChunksEnd(m) + 3
                           /\ At(Wire(m), TrailerStart(m), Block(m.trailer))
                           /\ At(Wire(m), TrailerStart(m) + Len(Block(m.trailer)), EndOfLine)
                           /\ Len(Wire(m)) = TrailerStart(m) + Len(Block(m.trailer)) + 2
<1> DEFINE u == UpToTrailer(m)
           b == Block(m.trailer)
           z == IF m.chunked THEN b \o EndOfLine ELSE <<>>
           w == u \o z
<1>1. u \in Seq(STRING) /\ b \in Seq(STRING)
  <2>1. b \in Seq(STRING)
    BY GrammarFacts, LinesOfFacts
  <2>2. u \in Seq(STRING)
    BY UpToTrailerFacts
  <2> QED BY <2>1, <2>2
<1> HIDE DEF u, b
<1>2. EndOfLine \in Seq(STRING) /\ Len(EndOfLine) = 2
  BY SymbolFacts
<1>3. /\ b \o EndOfLine \in Seq(STRING) /\ Len(b \o EndOfLine) = Len(b) + Len(EndOfLine)
      /\ At(b \o EndOfLine, 0, b) /\ At(b \o EndOfLine, Len(b), EndOfLine)
  BY <1>1, <1>2, AtConcat
<1>4. /\ z \in Seq(STRING)
      /\ m.chunked => z = b \o EndOfLine
      /\ ~m.chunked => z = <<>>
  <2>1. <<>> \in Seq(STRING)
    BY EmptySeq
  <2> QED BY <1>3, <2>1
<1> HIDE DEF z
<1>5. w \in Seq(STRING) /\ Len(w) = Len(u) + Len(z) /\ At(w, 0, u) /\ At(w, Len(u), z)
  BY <1>1, <1>4, AtConcat
<1> HIDE DEF w
<1>6. Wire(m) = w
  BY Zenon DEF Wire, w, u, z, b
<1>7. \A t \in Seq(STRING), i \in Nat : At(u, i, t) => At(w, i, t)
  <2>1. ASSUME NEW t \in Seq(STRING), NEW i \in Nat, At(u, i, t) PROVE At(w, 0 + i, t)
    BY <1>1, <1>5, <2>1, AtWithin
  <2>2. \A i \in Nat : 0 + i = i
    OBVIOUS
  <2> QED BY <2>1, <2>2
<1>8. Len(u) \in Nat /\ Len(b) \in Nat /\ Len(u) + 0 = Len(u)
  BY <1>1
<1>9. ASSUME m.chunked
      PROVE  /\ At(w, Len(u), b) /\ At(w, Len(u) + Len(b), EndOfLine)
             /\ Len(w) = Len(u) + Len(b) + 2
  <2>1. At(z, 0, b) /\ At(z, Len(b), EndOfLine) /\ Len(z) = Len(b) + 2
    BY <1>2, <1>3, <1>4, <1>9
  <2>2. At(w, Len(u) + 0, b) /\ At(w, Len(u) + Len(b), EndOfLine)
    BY <1>1, <1>2, <1>4, <1>5, <1>8, <2>1, AtWithin, SMTT(40)
  <2>3. Len(w) = Len(u) + Len(b) + 2
    BY <1>5, <1>8, <2>1
  <2> QED BY <1>8, <2>2, <2>3, SMTT(40)
<1>10. ~m.chunked => Len(w) = Len(u)
  <2>1. Len(<<>>) = 0
    OBVIOUS
  <2> QED BY <1>4, <1>5, <1>8, <2>1
<1>11. TrailerStart(m) = Len(u)
  BY DEF TrailerStart, u
<1>12. m.chunked => HasHead(m)
  BY Zenon DEF Grammar
<1> DEFINE h == HeadOf(m)
           l == LineOf(m)
           f == Block(m.fields)
           c == FlattenSeq(ChunksOf(m))
<1>13. /\ h \in Seq(STRING) /\ l \in Seq(STRING) /\ f \in Seq(STRING) /\ At(h, 0, l)
       /\ HasHead(m) => At(h, Len(l), f)
  BY HeadFacts
<1>14. /\ c \in Seq(STRING) /\ At(u, 0, h)
       /\ HasHead(m) => At(u, Len(h), EndOfLine)
       /\ ~m.chunked => /\ At(u, PayloadStart(m), m.data)
                        /\ TrailerStart(m) = PayloadStart(m) + Len(m.data)
       /\ m.chunked => /\ At(u, PayloadStart(m), c) /\ At(u, ChunksEnd(m), LastChunk)
                       /\ TrailerStart(m) = ChunksEnd(m) + 3
       /\ PayloadStart(m) \in Nat /\ ChunksEnd(m) \in Nat
  BY UpToTrailerFacts DEF u
<1>15. m.data \in Seq(STRING)
  BY GrammarFacts
<1>16. LastChunk \in Seq(STRING)
  <2>1. "0" \in STRING
    BY SymbolFacts
  <2>2. <<"0">> \in Seq(STRING)
    BY <2>1, One
  <2> QED BY <1>2, <2>2, ConcatProperties DEF LastChunk
<1> HIDE DEF h, l, f, c
<1>17. /\ Len(h) \in Nat /\ Len(l) \in Nat /\ 0 \in Nat /\ 0 + 0 = 0 /\ 0 + Len(l) = Len(l)
  BY <1>13
<1>18. At(w, 0, h)
  BY <1>7, <1>13, <1>14, <1>17
<1>19. At(w, 0, l)
  <2>1. At(w, 0 + 0, l)
    BY <1>5, <1>13, <1>17, <1>18, AtWithin
  <2> QED BY <1>17, <2>1
<1>20. HasHead(m) => At(w, Len(l), f)
  <2>1. HasHead(m) => At(w, 0 + Len(l), f)
    BY <1>5, <1>13, <1>17, <1>18, AtWithin
  <2> QED BY <1>17, <2>1
<1>21. HasHead(m) => At(w, Len(h), EndOfLine)
  BY <1>2, <1>7, <1>14, <1>17
<1>22. ~m.chunked => At(w, PayloadStart(m), m.data) /\ Len(w) = PayloadStart(m) + Len(m.data)
  BY <1>7, <1>10, <1>11, <1>14, <1>15
<1>23. m.chunked => At(w, PayloadStart(m), c) /\ At(w, ChunksEnd(m), LastChunk)
  BY <1>7, <1>14, <1>16
<1>24. m.chunked => TrailerStart(m) \in Nat /\ TrailerStart(m) = ChunksEnd(m) + 3
  BY <1>8, <1>11, <1>14
<1>25. m.chunked => /\ At(w, TrailerStart(m), b) /\ At(w, TrailerStart(m) + Len(b), EndOfLine)
                    /\ Len(w) = TrailerStart(m) + Len(b) + 2
  BY <1>9, <1>11
<1> QED BY <1>5, <1>6, <1>12, <1>19, <1>20, <1>21, <1>22, <1>23, <1>24, <1>25
         DEF u, b, h, l, f, c

-----------------------------------------------------------------------------
(* Reading what was sent.                                                  *)

\* The bytes read are the client's, as far as both go.
Agrees(bytes, wire) ==
    \A i \in 1..Len(bytes) : i <= Len(wire) => bytes[i] = wire[i]

\* The bytes that arrive are those sent, as far as both go.
LEMMA ArrivalFacts ==
    ASSUME NEW wire \in Seq(STRING), NEW bytes \in Arrivals(wire)
    PROVE  bytes \in Seq(STRING) /\ Agrees(bytes, wire)
<1>1. CASE \E more \in After : bytes = wire \o more
  <2>1. PICK more \in After : bytes = wire \o more
    BY <1>1
  <2>2. more \in Seq(STRING)
    BY ClientsAssumption
  <2>3. /\ wire \o more \in Seq(STRING)
        /\ \A i \in 1..(Len(wire) + Len(more)) :
              (wire \o more)[i] = IF i <= Len(wire) THEN wire[i] ELSE more[i - Len(wire)]
        /\ Len(wire \o more) = Len(wire) + Len(more)
    BY <2>2, ConcatProperties
  <2> QED BY <2>1, <2>3 DEF Agrees
<1>2. CASE \E n \in 0..(Len(wire) - 1) : bytes = SubSeq(wire, 1, n)
  <2>1. PICK n \in 0..(Len(wire) - 1) : bytes = SubSeq(wire, 1, n)
    BY <1>2
  <2>2. 1 \in 1..(Len(wire) + 1) /\ n \in (1 - 1)..Len(wire) /\ (n - 1) + 1 = n
    BY <2>1
  <2>3. SubSeq(wire, 1, n) \in Seq(STRING) /\ Len(SubSeq(wire, 1, n)) = n
    BY <2>2, Part
  <2>4. \A i \in 1..n : SubSeq(wire, 1, n)[i] = wire[i]
    BY <2>2
  <2> QED BY <2>1, <2>3, <2>4 DEF Agrees
<1> QED BY <1>1, <1>2 DEF Arrivals

\* What stands at the start of the wire is a prefix of the input when the input
\* is long enough.
LEMMA PrefixIs ==
    ASSUME NEW wire \in Seq(STRING), NEW bytes \in Seq(STRING), Agrees(bytes, wire),
           NEW t \in Seq(STRING), At(wire, 0, t)
    PROVE  IsPrefix(t, bytes) <=> Len(t) <= Len(bytes)
<1>1. ASSUME Len(t) <= Len(bytes) PROVE SubSeq(t, 1, Len(t)) = SubSeq(bytes, 1, Len(t))
  <2>1. At(bytes, 0, t)
    <3>1. ASSUME NEW i \in 1..Len(t) PROVE bytes[i] = t[i]
      <4>1. i \in 1..Len(bytes) /\ i <= Len(wire) /\ wire[0 + i] = t[i] /\ 0 + i = i
        BY <1>1 DEF At
      <4> QED BY <4>1 DEF Agrees
    <3> QED BY <1>1, <3>1 DEF At
  <2>2. SubSeq(bytes, 0 + 1, 0 + Len(t)) = t
    BY <2>1, AtCutOut
  <2>3. SubSeq(t, 1, Len(t)) = t
    BY SubSeqFull
  <2> QED BY <2>2, <2>3
<1> QED BY <1>1 DEF IsPrefix

\* readLine, on any data.
LEMMA LineReads ==
    ASSUME NEW data \in Seq(STRING), NEW p \in 0..Len(data), NEW cap \in Nat \ {0}
    PROVE  LET text == Line(data, p, cap)
               e == p + Len(text)
           IN  /\ text \in Seq(STRING) /\ e \in p..Len(data) /\ e <= p + cap
               /\ p < Len(data) => p < e
               /\ \A i \in 1..Len(text) : text[i] = data[p + i]
               /\ \A i \in p + 1..e - 1 : data[i] # LF
               /\ p < e => e = Len(data) \/ e = p + cap \/ data[e] = LF
<1> DEFINE ends == {i \in p + 1 .. Len(data) : data[i] = LF} \cup {Len(data), p + cap}
           e == LineEnd(data, p, cap)
           text == Line(data, p, cap)
<1>1. ends \subseteq Nat /\ ends # {}
  OBVIOUS
<1>2. \E m \in ends : \A n \in ends : m <= n
  <2> HIDE DEF ends
  <2> QED BY <1>1, Texts!LeastNatural
<1>3. e \in ends /\ \A n \in ends : e <= n
  <2>1. e = Min(ends)
    BY DEF LineEnd
  <2> HIDE DEF ends, e
  <2> QED BY <1>2, <2>1 DEF Min
<1> HIDE DEF e
<1>4. e \in p..Len(data) /\ e <= p + cap /\ (p < Len(data) => p < e)
  BY <1>1, <1>3
<1>5. ASSUME NEW i \in p + 1..e - 1 PROVE data[i] # LF
  <2>1. i \in p + 1..Len(data)
    BY <1>4
  <2>2. data[i] = LF => i \in ends
    BY <2>1
  <2>3. i < e
    BY <1>4
  <2>4. i \in ends => e <= i
    BY <1>3
  <2> QED BY <1>4, <2>2, <2>3, <2>4
<1>6. p < e => e = Len(data) \/ e = p + cap \/ data[e] = LF
  BY <1>3
<1> HIDE DEF ends
<1>7. text = SubSeq(data, p + 1, e)
  BY DEF Line, e
<1>8. /\ SubSeq(data, p + 1, e) \in Seq(STRING)
      /\ Len(SubSeq(data, p + 1, e)) = e - (p + 1) + 1
  BY <1>4, Part
<1>9. text \in Seq(STRING) /\ Len(text) = e - p
  BY <1>4, <1>7, <1>8
<1>10. ASSUME NEW i \in 1..Len(text) PROVE text[i] = data[p + i]
  <2>1. i \in 1..(e - p)
    BY <1>9
  <2>2. SubSeq(data, p + 1, e)[i] = data[p + i]
    BY <1>4, <2>1
  <2> QED BY <1>7, <2>2
<1>11. p + Len(text) = e
  BY <1>4, <1>9
<1> HIDE DEF text
<1> QED BY <1>4, <1>5, <1>6, <1>9, <1>10, <1>11 DEF text

\* readLine inside a line that was sent: it ends where the line does, or the
\* data, or at the cap.
LEMMA LineRead ==
    ASSUME NEW wire \in Seq(STRING), NEW data \in Seq(STRING), Agrees(data, wire),
           NEW y \in BlockLines, NEW a \in Nat, At(wire, a, y),
           NEW p \in a..(a + Len(y) - 1), p <= Len(data), NEW cap \in Nat \ {0}
    PROVE  LET text == Line(data, p, cap)
               e == p + Len(text)
           IN  /\ text \in Seq(STRING) /\ e \in p..Len(data) /\ e <= p + cap /\ e <= a + Len(y)
               /\ p < Len(data) => p < e
               /\ e = a + Len(y) \/ e = Len(data) \/ e = p + cap
               /\ \A i \in 1..Len(text) : text[i] = y[(p - a) + i]
<1> DEFINE text == Line(data, p, cap)
           e == p + Len(text)
           b == a + Len(y)
<1>1. y \in Seq(STRING) /\ Len(y) >= 3 /\ y[Len(y)] = LF /\ y[Len(y) - 1] # LF
      /\ \A i \in 1..(Len(y) - 2) : y[i] # LF
  BY SymbolFacts DEF BlockLines
<1>2. \A i \in 1..(Len(y) - 1) : y[i] # LF
  BY <1>1
<1>3. b <= Len(wire) /\ \A i \in 1..Len(y) : wire[a + i] = y[i]
  BY DEF At
<1>4. p \in 0..Len(data)
  OBVIOUS
<1>5. /\ text \in Seq(STRING) /\ e \in p..Len(data) /\ e <= p + cap
      /\ p < Len(data) => p < e
      /\ \A i \in 1..Len(text) : text[i] = data[p + i]
      /\ \A i \in p + 1..e - 1 : data[i] # LF
      /\ p < e => e = Len(data) \/ e = p + cap \/ data[e] = LF
  BY <1>4, LineReads
<1> HIDE DEF text
<1>6. ASSUME NEW i \in 1..Len(data), i > a, i <= b PROVE data[i] = y[i - a]
  <2>1. i - a \in 1..Len(y) /\ a + (i - a) = i /\ i <= Len(wire)
    BY <1>1, <1>3, <1>6
  <2> QED BY <1>3, <2>1 DEF Agrees
<1>7. e <= b
  <2>1. SUFFICES ASSUME e > b PROVE FALSE
    BY <1>1, <1>5
  <2>2. b \in 1..Len(data) /\ b > a /\ b <= b /\ b - a = Len(y) /\ b \in p + 1..e - 1
    BY <1>1, <1>5, <2>1
  <2>3. data[b] = y[b - a]
    BY <1>6, <2>2
  <2> QED BY <1>1, <1>5, <2>2, <2>3
<1>8. ASSUME p < e, data[e] = LF PROVE e = b
  <2>1. e \in 1..Len(data) /\ e > a /\ e - a \in 1..Len(y)
    BY <1>1, <1>5, <1>7, <1>8
  <2>2. data[e] = y[e - a]
    BY <1>6, <1>7, <2>1
  <2>3. e - a \notin 1..(Len(y) - 1)
    BY <1>2, <1>8, <2>2
  <2>4. e \in Nat /\ Len(y) \in Nat
    BY <1>1, <1>5
  <2> HIDE DEF e
  <2>5. e - a = Len(y)
    BY <2>1, <2>3, <2>4
  <2>6. e = a + Len(y)
    BY <2>4, <2>5
  <2> QED BY <2>6
<1>9. e = b \/ e = Len(data) \/ e = p + cap
  <2>1. CASE p < e
    BY <1>5, <1>8, <2>1
  <2>2. CASE ~(p < e)
    BY <1>5, <2>2
  <2> QED BY <2>1, <2>2
<1>10. ASSUME NEW i \in 1..Len(text) PROVE text[i] = y[(p - a) + i]
  <2>1. p + i \in 1..Len(data) /\ p + i > a /\ p + i <= b /\ (p + i) - a = (p - a) + i
    BY <1>1, <1>5, <1>7
  <2>2. data[p + i] = y[(p + i) - a]
    BY <1>6, <2>1
  <2> QED BY <1>5, <2>1, <2>2
<1> HIDE DEF e, b
<1> QED BY <1>5, <1>7, <1>9, <1>10 DEF e, b, text

\* A whole line, read from its start: text that ends a line is the line.
LEMMA WholeLine ==
    ASSUME NEW wire \in Seq(STRING), NEW data \in Seq(STRING), Agrees(data, wire),
           NEW y \in BlockLines, NEW a \in Nat, At(wire, a, y), a <= Len(data),
           NEW cap \in Nat \ {0}
    PROVE  LET text == Line(data, a, cap)
           IN  /\ text # <<>> /\ text[Len(text)] = LF => text = y
               /\ EndsLine(text) => text = y
               /\ Len(y) <= cap /\ a + Len(y) <= Len(data) => text = y
               /\ Len(text) <= Len(y)
               /\ \A i \in 1..Len(text) : text[i] = y[i]
               /\ a + Len(y) <= Len(data) /\ Len(y) > cap => Len(text) = cap /\ text # y
<1> DEFINE text == Line(data, a, cap)
           e == a + Len(text)
<1>1. y \in Seq(STRING) /\ Len(y) >= 3 /\ y[Len(y)] = LF /\ y[Len(y) - 1] # LF
      /\ \A i \in 1..(Len(y) - 2) : y[i] # LF
  BY SymbolFacts DEF BlockLines
<1>2. \A i \in 1..(Len(y) - 1) : y[i] # LF
  BY <1>1
<1>3. a \in a..(a + Len(y) - 1)
  BY <1>1
<1>4. /\ text \in Seq(STRING) /\ e \in a..Len(data) /\ e <= a + cap /\ e <= a + Len(y)
      /\ a < Len(data) => a < e
      /\ e = a + Len(y) \/ e = Len(data) \/ e = a + cap
      /\ \A i \in 1..Len(text) : text[i] = y[(a - a) + i]
  BY <1>3, LineRead
<1> HIDE DEF text
<1>5. Len(text) \in Nat /\ Len(text) <= Len(y) /\ \A i \in 1..Len(text) : text[i] = y[i]
  <2>1. Len(text) \in Nat /\ Len(y) \in Nat
    BY <1>1, <1>4
  <2>2. Len(text) <= Len(y)
    BY <1>4, <2>1
  <2>3. ASSUME NEW i \in 1..Len(text) PROVE text[i] = y[i]
    <3>1. (a - a) + i = i
      BY <2>1
    <3>2. text[i] = y[(a - a) + i]
      BY <1>4
    <3> QED BY <3>1, <3>2
  <2> QED BY <2>1, <2>2, <2>3
<1>6. Len(text) = Len(y) => text = y
  BY <1>1, <1>4, <1>5, SeqEqual
<1>7. ASSUME text # <<>>, text[Len(text)] = LF PROVE text = y
  <2>1. Len(text) >= 1
    BY <1>4, <1>7
  <2>2. Len(text) \notin 1..(Len(y) - 1)
    BY <1>2, <1>5, <1>7, <2>1
  <2>3. Len(text) = Len(y)
    BY <1>1, <1>5, <2>1, <2>2
  <2> QED BY <1>6, <2>3
<1>8. ASSUME EndsLine(text) PROVE text = y
  <2>1. Len(text) >= 2 /\ SubSeq(text, Len(text) - 1, Len(text)) = EndOfLine
    BY <1>8 DEF EndsLine
  <2>2. SubSeq(text, Len(text) - 1, Len(text))[2] = text[Len(text)]
    BY <1>4, <2>1
  <2>3. text[Len(text)] = LF /\ text # <<>>
    BY <2>1, <2>2, SymbolFacts
  <2> QED BY <1>7, <2>3
<1>9. ASSUME Len(y) <= cap, a + Len(y) <= Len(data) PROVE text = y
  <2>1. Len(text) = Len(y)
    BY <1>1, <1>4, <1>5, <1>9
  <2> QED BY <1>6, <2>1
<1>10. ASSUME Len(y) > cap, a + Len(y) <= Len(data) PROVE Len(text) = cap /\ text # y
  <2>1. Len(text) = cap
    BY <1>1, <1>4, <1>5, <1>10
  <2> QED BY <1>10, <2>1
<1> QED BY <1>5, <1>7, <1>8, <1>9, <1>10 DEF text

\* A piece of a line that is read as an end of line is the last two symbols of it.
LEMMA BlankPiece ==
    ASSUME NEW wire \in Seq(STRING), NEW data \in Seq(STRING), Agrees(data, wire),
           NEW y \in BlockLines, NEW a \in Nat, At(wire, a, y),
           NEW p \in a..(a + Len(y) - 1), p <= Len(data), NEW cap \in Nat, cap >= 2
    PROVE  /\ Line(data, p, cap) = EndOfLine => p + 2 = a + Len(y) /\ a + Len(y) <= Len(data)
           /\ p + 2 = a + Len(y) /\ a + Len(y) <= Len(data) => Line(data, p, cap) = EndOfLine
<1> DEFINE text == Line(data, p, cap)
           e == p + Len(text)
           n == Len(y)
<1>1. y \in Seq(STRING) /\ n \in Nat /\ n >= 3 /\ y[n] = LF /\ y[n - 1] = CR /\ CR # LF
      /\ \A i \in 1..(n - 2) : y[i] # LF
  BY SymbolFacts DEF BlockLines
<1>2. /\ text \in Seq(STRING) /\ e \in p..Len(data) /\ e <= p + cap /\ e <= a + n
      /\ p < Len(data) => p < e
      /\ e = a + n \/ e = Len(data) \/ e = p + cap
      /\ \A i \in 1..Len(text) : text[i] = y[(p - a) + i]
  BY LineRead
<1> HIDE DEF text, n
<1>3. ASSUME text = EndOfLine PROVE p + 2 = a + n /\ a + n <= Len(data)
  <2>1. Len(text) = 2 /\ text[2] = LF
    BY <1>3, SymbolFacts
  <2>2. y[(p - a) + 2] = LF /\ (p - a) + 2 \in 1..n
    BY <1>1, <1>2, <2>1
  <2>3. (p - a) + 2 \notin 1..(n - 2) /\ (p - a) + 2 # n - 1
    BY <1>1, <2>2
  <2>4. (p - a) + 2 = n
    BY <1>1, <2>2, <2>3
  <2> QED BY <1>1, <1>2, <2>1, <2>4
<1>4. ASSUME p + 2 = a + n, a + n <= Len(data) PROVE text = EndOfLine
  <2>0. Len(text) \in Nat /\ Len(data) \in Nat /\ p \in Nat
    BY <1>2
  <2>5. e \in Nat /\ e <= p + 2 /\ e >= p + 2
    BY <1>1, <1>2, <1>4, <2>0
  <2> HIDE DEF e
  <2>6. e = p + 2
    BY <2>0, <2>5
  <2>7. p + Len(text) = p + 2
    BY <2>6, Zenon DEF e
  <2>8. \A i, j \in Nat : i + j = i + 2 => j = 2
    OBVIOUS
  <2>9. Len(text) = 2
    BY <2>0, <2>7, <2>8, Zenon
  <2>1. e = p + 2 /\ Len(text) = 2
    BY <2>6, <2>9
  <2>2. (p - a) + 1 = n - 1 /\ (p - a) + 2 = n
    BY <1>1, <1>4
  <2>3. text[1] = CR /\ text[2] = LF
    BY <1>1, <1>2, <2>1, <2>2
  <2> QED
    <3>1. EndOfLine \in Seq(STRING) /\ Len(EndOfLine) = 2 /\ EndOfLine[1] = CR /\ EndOfLine[2] = LF
      BY SymbolFacts
    <3>2. \A i \in 1..Len(text) : text[i] = EndOfLine[i]
      BY <2>1, <2>3, <3>1
    <3> QED BY <1>2, <2>1, <3>1, <3>2, SeqEqual
<1> QED BY <1>3, <1>4 DEF text, n

\* Remainders.
LEMMA Remainder ==
    ASSUME NEW c \in Nat \ {0}, NEW q \in Nat, q % c = 0
    PROVE  /\ \A r \in 0..(c - 1) : (q + r) % c = r
           /\ (q + c) % c = 0
<1> DEFINE k == q \div c
<1>1. \A x \in Nat : x % c \in 0..(c - 1) /\ x \div c \in Int /\ x = c * (x \div c) + (x % c)
  OBVIOUS
<1>2. k \in Int /\ q = c * k
  BY <1>1
<1> HIDE DEF k
<1>3. ASSUME NEW r \in 0..(c - 1), NEW j \in Int, NEW x \in Nat, x = c * j + r
      PROVE  x % c = r
  <2> DEFINE h == x \div c
             s == x % c
  <2>1. h \in Int /\ s \in 0..(c - 1) /\ x = c * h + s
    BY <1>1
  <2> HIDE DEF h, s
  <2>2. c * h - c * j = r - s
    BY <1>3, <2>1
  <2>3. c * h - c * j = c * (h - j) /\ h - j \in Int
    BY <2>1
  <2>4. h - j >= 1 => c * (h - j) >= c
    BY <2>1
  <2>5. h - j <= -1 => c * (h - j) <= -c
    BY <2>1
  <2>6. r - s < c /\ r - s > -c
    BY <2>1
  <2>7. h - j = 0
    BY <2>2, <2>3, <2>4, <2>5, <2>6
  <2>8. c * 0 = 0
    OBVIOUS
  <2>9. r = s
    BY <2>1, <2>2, <2>3, <2>7, <2>8
  <2> QED BY <2>9 DEF s
<1>4. ASSUME NEW r \in 0..(c - 1) PROVE (q + r) % c = r
  <2>1. q + r \in Nat /\ q + r = c * k + r
    BY <1>2
  <2> QED BY <1>2, <1>3, <2>1
<1>5. (q + c) % c = 0
  <2>1. q + c \in Nat /\ c * (k + 1) = c * k + c /\ k + 1 \in Int
    BY <1>2
  <2>2. q + c = c * (k + 1) + 0 /\ 0 \in 0..(c - 1)
    BY <1>2, <2>1
  <2> QED BY <1>3, <2>1, <2>2
<1> QED BY <1>4, <1>5

\* readLine where an end of line was sent.
LEMMA EndRead ==
    ASSUME NEW wire \in Seq(STRING), NEW data \in Seq(STRING), Agrees(data, wire),
           NEW p \in 0..Len(data), At(wire, p, EndOfLine), NEW cap \in Nat, cap >= 2
    PROVE  LET text == Line(data, p, cap)
               e == p + Len(text)
           IN  /\ text \in Seq(STRING) /\ e \in p..Len(data)
               /\ text = EndOfLine <=> p + 2 <= Len(data)
               /\ p + 2 > Len(data) => e = Len(data)
               /\ e <= p + 2
               /\ \A i \in 1..Len(text) : text[i] \in {CR, LF}
<1> DEFINE text == Line(data, p, cap)
           e == p + Len(text)
<1>1. /\ EndOfLine \in Seq(STRING) /\ Len(EndOfLine) = 2
      /\ EndOfLine[1] = CR /\ EndOfLine[2] = LF /\ CR # LF
  BY SymbolFacts
<1>2. p + 2 <= Len(wire) /\ wire[p + 1] = CR /\ wire[p + 2] = LF
  BY <1>1 DEF At
<1>3. /\ p + 1 <= Len(data) => data[p + 1] = CR
      /\ p + 2 <= Len(data) => data[p + 2] = LF
  BY <1>2 DEF Agrees
<1>4. /\ text \in Seq(STRING) /\ e \in p..Len(data) /\ e <= p + cap
      /\ p < Len(data) => p < e
      /\ \A i \in 1..Len(text) : text[i] = data[p + i]
      /\ \A i \in p + 1..e - 1 : data[i] # LF
      /\ p < e => e = Len(data) \/ e = p + cap \/ data[e] = LF
  <2>1. cap \in Nat \ {0}
    OBVIOUS
  <2> QED BY <2>1, LineReads
<1> HIDE DEF text
<1>5. p \in Nat /\ Len(data) \in Nat /\ Len(text) \in Nat /\ e \in Nat /\ e >= p
  BY <1>4
<1>6. e <= p + 2
  <2>1. ASSUME e > p + 2 PROVE FALSE
    <3>1. p + 2 \in p + 1..e - 1 /\ p + 2 <= Len(data)
      BY <1>4, <1>5, <2>1
    <3> QED BY <1>3, <1>4, <3>1
  <2> QED BY <1>5, <2>1
<1>7. ASSUME p + 2 <= Len(data) PROVE text = EndOfLine
  <2>1. p < e
    BY <1>4, <1>5, <1>7
  <2>2. e # p + 1
    <3>1. e = p + 1 => data[e] # LF
      BY <1>1, <1>3, <1>5, <1>7
    <3> QED BY <1>4, <1>5, <1>7, <2>1, <3>1
  <2>3. e = p + 2
    BY <1>5, <1>6, <2>1, <2>2
  <2>4. p + Len(text) = p + 2
    BY <2>3, Zenon DEF e
  <2>5. \A i, j \in Nat : i + j = i + 2 => j = 2
    OBVIOUS
  <2>6. Len(text) = 2
    BY <1>5, <2>4, <2>5, Zenon
  <2>7. text[1] = CR /\ text[2] = LF
    BY <1>3, <1>4, <1>5, <1>7, <2>6
  <2>8. \A i \in 1..Len(text) : text[i] = EndOfLine[i]
    BY <1>1, <2>6, <2>7
  <2> QED BY <1>1, <1>4, <2>6, <2>8, SeqEqual
<1>8. ASSUME p + 2 > Len(data) PROVE text # EndOfLine /\ e = Len(data)
  <2>1. text # EndOfLine
    <3>1. text = EndOfLine => Len(text) = 2
      BY <1>1
    <3>2. e <= Len(data) /\ e # p + 2
      BY <1>4, <1>5, <1>8
    <3>3. Len(text) = 2 => p + Len(text) = p + 2
      OBVIOUS
    <3>4. Len(text) = 2 => e = p + 2
      BY <3>3, Zenon DEF e
    <3> QED BY <3>1, <3>2, <3>4, Zenon
  <2>2. CASE Len(data) = p
    BY <1>4, <1>5, <2>1, <2>2
  <2>3. CASE Len(data) = p + 1
    BY <1>4, <1>5, <2>1, <2>3
  <2> QED BY <1>5, <1>8, <2>2, <2>3
<1>9. ASSUME NEW i \in 1..Len(text) PROVE text[i] \in {CR, LF}
  <2>1. i \in {1, 2} /\ p + i <= Len(data)
    BY <1>4, <1>5, <1>6
  <2> QED BY <1>3, <1>4, <2>1
<1> QED BY <1>4, <1>6, <1>7, <1>8, <1>9 DEF text

\* The lines of a block that starts after base symbols are read up to p: n of
\* them whole, and q symbols of the next.
Inside(base, lines, p) ==
    \E n \in 0..Len(lines) : \E q \in Nat :
        /\ p = base + Len(Upto(lines, n)) + q
        /\ q % MaxLineLength = 0
        /\ IF n < Len(lines) THEN q < Len(lines[n + 1]) ELSE q = 0
        /\ \A i \in 1..n : ~CutToBlank(lines[i])

\* Before its first line the cursor is in a block.
LEMMA InsideStarts ==
    ASSUME NEW base \in Nat, NEW lines \in Seq(BlockLines)
    PROVE  Inside(base, lines, base)
<1>1. lines \in Seq(Seq(STRING)) /\ Upto(lines, 0) = <<>>
  BY LinesAreTexts, UptoFacts
<1>2. base = base + Len(Upto(lines, 0)) + 0
  BY <1>1
<1>3. 0 % MaxLineLength = 0
  BY CapsAssumption
<1>4. 0 < Len(lines) => 0 < Len(lines[0 + 1])
  <2>1. 0 < Len(lines) => lines[0 + 1] \in BlockLines
    OBVIOUS
  <2>2. \A y \in BlockLines : 0 < Len(y)
    BY DEF BlockLines
  <2> QED BY <2>1, <2>2
<1>5. 0 \in 0..Len(lines) /\ 1..0 = {}
  OBVIOUS
<1>6. IF 0 < Len(lines) THEN 0 < Len(lines[0 + 1]) ELSE 0 = 0
  BY <1>4
<1> QED BY <1>2, <1>3, <1>5, <1>6 DEF Inside

\* Where a line of a block stands on the wire.
LEMMA LineOfBlock ==
    ASSUME NEW wire \in Seq(STRING), NEW base \in Nat, NEW lines \in Seq(BlockLines),
           At(wire, base, FlattenSeq(lines)), NEW n \in 1..Len(lines)
    PROVE  /\ lines[n] \in BlockLines /\ lines[n] \in Seq(STRING) /\ Len(lines[n]) >= 3
           /\ Len(Upto(lines, n - 1)) \in Nat /\ Len(FlattenSeq(lines)) \in Nat
           /\ Len(Upto(lines, n)) = Len(Upto(lines, n - 1)) + Len(lines[n])
           /\ Len(Upto(lines, n)) <= Len(FlattenSeq(lines))
           /\ At(wire, base + Len(Upto(lines, n - 1)), lines[n])
<1>1. lines[n] \in BlockLines /\ lines \in Seq(Seq(STRING))
  BY LinesAreTexts
<1>2. lines[n] \in Seq(STRING) /\ Len(lines[n]) >= 3
  BY <1>1 DEF BlockLines
<1>3. /\ Upto(lines, n - 1) \in Seq(STRING)
      /\ Len(Upto(lines, n)) <= Len(FlattenSeq(lines))
      /\ Len(Upto(lines, n)) = Len(Upto(lines, n - 1)) + Len(lines[n])
      /\ At(FlattenSeq(lines), Len(Upto(lines, n - 1)), lines[n])
  <2>1. n - 1 \in 0..Len(lines) /\ n \in 0..Len(lines)
    OBVIOUS
  <2> QED BY <1>1, <2>1, UptoFacts
<1>4. FlattenSeq(lines) \in Seq(STRING)
  BY <1>1, FlattenFacts
<1>5. Len(Upto(lines, n - 1)) \in Nat /\ Len(FlattenSeq(lines)) \in Nat
  BY <1>3, <1>4
<1>6. At(wire, base + Len(Upto(lines, n - 1)), lines[n])
  BY <1>2, <1>3, <1>4, <1>5, AtWithin
<1> QED BY <1>1, <1>2, <1>3, <1>5, <1>6

\* A piece of a line in a block.
LEMMA PieceRead ==
    ASSUME NEW wire \in Seq(STRING), NEW data \in Seq(STRING), Agrees(data, wire),
           NEW a \in Nat, NEW y \in BlockLines, At(wire, a, y),
           NEW q \in 0..(Len(y) - 1), q % MaxLineLength = 0, a + q <= Len(data)
    PROVE  LET text == Line(data, a + q, MaxLineLength)
               e == a + q + Len(text)
           IN  /\ text \in Seq(STRING) /\ e \in (a + q)..Len(data) /\ e <= a + Len(y)
               /\ a + q < Len(data) => a + q < e
               /\ \A i \in 1..Len(text) : q + i \in 1..Len(y) /\ text[i] = y[q + i]
               /\ text = EndOfLine => CutToBlank(y) /\ q > 0
               /\ text # EndOfLine => \/ e = a + Len(y) /\ ~CutToBlank(y)
                                      \/ e = Len(data) /\ e < a + Len(y)
                                      \/ e = a + (q + MaxLineLength) /\ q + MaxLineLength < Len(y)
<1> DEFINE p == a + q
           n == Len(y)
           cap == MaxLineLength
           text == Line(data, p, cap)
           e == p + Len(text)
<1>1. y \in Seq(STRING) /\ n \in Nat /\ n >= 3
  BY DEF BlockLines
<1>2. cap \in Nat /\ cap > 2 /\ cap >= 2 /\ cap \in Nat \ {0}
  BY CapsAssumption
<1> HIDE DEF cap
<1>3. p \in a..(a + Len(y) - 1) /\ p <= Len(data) /\ p \in Nat /\ p - a = q /\ q \in Nat
  BY <1>1
<1> HIDE DEF p
<1>4. /\ text \in Seq(STRING) /\ e \in p..Len(data) /\ e <= p + cap /\ e <= a + Len(y)
      /\ p < Len(data) => p < e
      /\ e = a + Len(y) \/ e = Len(data) \/ e = p + cap
      /\ \A i \in 1..Len(text) : text[i] = y[(p - a) + i]
  <2>1. p \in a..(a + Len(y) - 1) /\ p <= Len(data) /\ cap \in Nat \ {0}
    BY <1>2, <1>3
  <2>2. /\ Line(data, p, cap) \in Seq(STRING)
        /\ p + Len(Line(data, p, cap)) \in p..Len(data)
        /\ p + Len(Line(data, p, cap)) <= p + cap
        /\ p + Len(Line(data, p, cap)) <= a + Len(y)
    BY <2>1, LineRead
  <2>3. /\ p < Len(data) => p < p + Len(Line(data, p, cap))
        /\ \/ p + Len(Line(data, p, cap)) = a + Len(y)
           \/ p + Len(Line(data, p, cap)) = Len(data)
           \/ p + Len(Line(data, p, cap)) = p + cap
    BY <2>1, LineRead
  <2>4. \A i \in 1..Len(Line(data, p, cap)) : Line(data, p, cap)[i] = y[(p - a) + i]
    BY <2>1, LineRead
  <2> QED BY <2>2, <2>3, <2>4, Zenon DEF text, e
<1>5. /\ text = EndOfLine => p + 2 = a + Len(y) /\ a + Len(y) <= Len(data)
      /\ p + 2 = a + Len(y) /\ a + Len(y) <= Len(data) => text = EndOfLine
  BY <1>2, <1>3, BlankPiece
<1>6. Len(text) \in Nat /\ Len(data) \in Nat
  BY <1>4
<1> HIDE DEF text, n
<1>7. e = a + q + Len(text)
  BY Zenon DEF e, p
<1>8. ASSUME NEW i \in 1..Len(text) PROVE q + i \in 1..Len(y) /\ text[i] = y[q + i]
  <2>1. text[i] = y[q + i]
    BY <1>3, <1>4
  <2>2. i <= Len(text) /\ i \in Nat /\ i >= 1 /\ a + q + Len(text) <= a + n
    BY <1>4, <1>6, <1>7 DEF n
  <2>3. q + i <= n
    BY <1>1, <1>3, <1>6, <2>2
  <2>4. q + i \in 1..n
    BY <1>1, <1>3, <2>2, <2>3
  <2> QED BY <2>1, <2>4 DEF n
<1> HIDE DEF e
<1>9. q % cap = 0
  BY DEF cap
<1>10. /\ \A r \in 0..(cap - 1) : (q + r) % cap = r
       /\ (q + cap) % cap = 0
  BY <1>2, <1>3, <1>9, Remainder
<1>11. CutToBlank(y) <=> n > cap /\ n % cap = 2
  BY DEF CutToBlank, n, cap
<1>12. ASSUME text = EndOfLine PROVE CutToBlank(y) /\ q > 0
  <2>1. q + 2 = n
    BY <1>1, <1>3, <1>5, <1>12 DEF p, n
  <2>2. q > 0
    BY <1>1, <1>3, <2>1
  <2>3. q >= cap
    <3>1. ASSUME q < cap PROVE FALSE
      <4>1. q % cap = q
        BY <1>2, <1>3, <3>1
      <4> QED BY <1>9, <2>2, <4>1
    <3> QED BY <1>2, <1>3, <3>1
  <2>4. 2 \in 0..(cap - 1)
    BY <1>2
  <2>5. n % cap = 2 /\ n > cap
    BY <1>2, <1>3, <1>10, <2>1, <2>3, <2>4
  <2> QED BY <1>11, <2>2, <2>5
<1>13. ASSUME text # EndOfLine, e = a + n PROVE ~CutToBlank(y)
  <2> DEFINE r == n - q
  <2>1. n = q + r /\ r \in Nat /\ r <= cap
    BY <1>1, <1>2, <1>3, <1>4, <1>13 DEF p, n
  <2>2. r # 2
    <3>1. r = 2 => p + 2 = a + n /\ a + n <= Len(data)
      BY <1>1, <1>3, <1>4, <1>6, <1>13, <2>1 DEF p
    <3> QED BY <1>5, <1>13, <3>1 DEF n
  <2> HIDE DEF r
  <2>3. CASE r < cap
    <3>1. r \in 0..(cap - 1)
      BY <1>2, <2>1, <2>3
    <3>2. n % cap = r
      BY <1>10, <2>1, <3>1
    <3> QED BY <1>11, <2>2, <3>2
  <2>4. CASE r = cap
    BY <1>10, <1>11, <2>1, <2>4
  <2> QED BY <1>2, <2>1, <2>3, <2>4
<1>14. ASSUME text # EndOfLine
       PROVE  \/ e = a + Len(y) /\ ~CutToBlank(y)
              \/ e = Len(data) /\ e < a + Len(y)
              \/ e = a + (q + cap) /\ q + cap < Len(y)
  <2>1. CASE e = a + n
    BY <1>13, <1>14, <2>1 DEF n
  <2>2. CASE e < a + n
    <3>1. CASE e = Len(data)
      BY <2>2, <3>1 DEF n
    <3>2. CASE e = p + cap
      <4>1. a + q + cap = a + (q + cap)
        BY <1>2, <1>3
      <4>2. e = a + (q + cap)
        BY <3>2, <4>1, Zenon DEF p
      <4>3. q + cap < n
        BY <1>1, <1>2, <1>3, <2>2, <4>2
      <4> QED BY <4>2, <4>3 DEF n
    <3>3. e # a + n
      BY <1>1, <1>4, <2>2
    <3> QED BY <1>4, <3>1, <3>2, <3>3 DEF n
  <2>3. e \in Nat /\ e <= a + n /\ a + n \in Nat
    BY <1>1, <1>3, <1>4, <1>6 DEF n
  <2> QED BY <2>1, <2>2, <2>3
<1>15. /\ text \in Seq(STRING) /\ e \in (a + q)..Len(data) /\ e <= a + Len(y)
       /\ a + q < Len(data) => a + q < e
  BY <1>4 DEF p
<1> QED BY <1>8, <1>12, <1>14, <1>15 DEF text, e, p, cap

\* A symbol of one of the lines.
Occurs(x, lines) == \E n \in 1..Len(lines) : \E k \in 1..Len(lines[n]) : lines[n][k] = x

\* A line of a block, or what stands for one, is read where the lines before it
\* have been.
LEMMA ReadWithin ==
    ASSUME NEW wire \in Seq(STRING), NEW data \in Seq(STRING), Agrees(data, wire),
           NEW base \in Nat, NEW lines \in Seq(BlockLines),
           At(wire, base, FlattenSeq(lines)),
           At(wire, base + Len(FlattenSeq(lines)), EndOfLine),
           NEW p \in 0..Len(data), Inside(base, lines, p)
    PROVE  LET text == Line(data, p, MaxLineLength)
               e == p + Len(text)
               end == base + Len(FlattenSeq(lines))
           IN  /\ text \in Seq(STRING) /\ e \in p..Len(data) /\ p \in base..end
               /\ text = <<>> => p = Len(data)
               /\ text = EndOfLine =>
                     \/ p = end /\ \A n \in 1..Len(lines) : ~CutToBlank(lines[n])
                     \/ \E n \in 1..Len(lines) :
                           /\ CutToBlank(lines[n])
                           /\ base + Len(Upto(lines, n - 1)) < p
                           /\ p < base + Len(Upto(lines, n))
               /\ text # EndOfLine =>
                     \/ Inside(base, lines, e) /\ e <= end
                     \/ e = Len(data) /\ Len(data) < end + 2
               /\ \A i \in 1..Len(text) : text[i] \in {CR, LF} \/ Occurs(text[i], lines)
<1> DEFINE text == Line(data, p, MaxLineLength)
           e == p + Len(text)
           f == FlattenSeq(lines)
           end == base + Len(f)
<1>1. PICK n \in 0..Len(lines), q \in Nat :
          /\ p = base + Len(Upto(lines, n)) + q
          /\ q % MaxLineLength = 0
          /\ IF n < Len(lines) THEN q < Len(lines[n + 1]) ELSE q = 0
          /\ \A i \in 1..n : ~CutToBlank(lines[i])
  BY Zenon DEF Inside
<1>2. lines \in Seq(Seq(STRING)) /\ Len(lines) \in Nat
  BY LinesAreTexts
<1>3. /\ f \in Seq(STRING) /\ Upto(lines, Len(lines)) = f
      /\ Upto(lines, n) \in Seq(STRING) /\ Len(Upto(lines, n)) <= Len(f)
  BY <1>2, UptoFacts, FlattenFacts
<1>4. Len(f) \in Nat /\ Len(Upto(lines, n)) \in Nat /\ end \in Nat /\ Len(data) \in Nat /\ p \in Nat
  BY <1>3
<1>5. MaxLineLength \in Nat /\ MaxLineLength >= 2
  BY CapsAssumption
<1> HIDE DEF f
<1>6. CASE n = Len(lines)
  <2>1. p = base + Len(f) + q /\ q = 0
    BY <1>1, <1>2, <1>3, <1>6
  <2>2. p = end
    BY <1>4, <2>1
  <2>3. At(wire, p, EndOfLine)
    BY <2>2 DEF end, f
  <2>4. /\ text \in Seq(STRING) /\ e \in p..Len(data)
        /\ text = EndOfLine <=> p + 2 <= Len(data)
        /\ p + 2 > Len(data) => e = Len(data)
        /\ \A i \in 1..Len(text) : text[i] \in {CR, LF}
    BY <1>5, <2>3, EndRead
  <2> HIDE DEF text
  <2>5. Len(text) \in Nat
    BY <2>4
  <2>6. text = <<>> => p = Len(data)
    <3>1. ASSUME text = <<>> PROVE p = Len(data)
      <4>1. Len(text) = 0
        BY <3>1
      <4>2. e = p
        BY <1>4, <4>1
      <4>3. text # EndOfLine
        <5>1. Len(EndOfLine) = 2
          BY SymbolFacts
        <5>2. Len(text) # 2
          BY <4>1
        <5> QED BY <5>1, <5>2, Zenon
      <4> QED BY <1>4, <2>4, <4>2, <4>3
    <3> QED BY <3>1
  <2>7. text # EndOfLine => e = Len(data) /\ Len(data) < end + 2
    BY <1>4, <2>2, <2>4
  <2>8. \A i \in 1..Len(lines) : ~CutToBlank(lines[i])
    BY <1>1, <1>6
  <2>9. p \in base..end
    BY <1>4, <2>1, <2>2
  <2> HIDE DEF e, end
  <2> QED BY <2>2, <2>4, <2>6, <2>7, <2>8, <2>9 DEF text, e, end, f
<1>7. CASE n < Len(lines)
  <2> DEFINE y == lines[n + 1]
             a == base + Len(Upto(lines, n))
             cap == MaxLineLength
  <2>1. n + 1 \in 1..Len(lines) /\ (n + 1) - 1 = n /\ n \in Nat
    BY <1>2, <1>7
  <2>2. At(wire, base, FlattenSeq(lines))
    OBVIOUS
  <2>3. /\ y \in BlockLines /\ y \in Seq(STRING) /\ Len(y) >= 3
        /\ Len(Upto(lines, n + 1)) = Len(Upto(lines, n)) + Len(y)
        /\ Len(Upto(lines, n + 1)) <= Len(f)
        /\ At(wire, a, y)
    <3>1. /\ lines[n + 1] \in BlockLines /\ lines[n + 1] \in Seq(STRING) /\ Len(lines[n + 1]) >= 3
          /\ Len(Upto(lines, n + 1)) = Len(Upto(lines, (n + 1) - 1)) + Len(lines[n + 1])
          /\ Len(Upto(lines, n + 1)) <= Len(FlattenSeq(lines))
          /\ At(wire, base + Len(Upto(lines, (n + 1) - 1)), lines[n + 1])
      BY <2>1, LineOfBlock, ZenonT(40)
    <3> QED BY <2>1, <3>1 DEF f
  <2>4. q < Len(y) /\ q % cap = 0
    BY <1>1, <1>7
  <2>5. a \in Nat /\ p = a + q /\ Len(y) \in Nat
    BY <1>1, <1>4, <2>3, SMTT(40)
  <2>6. a + Len(y) <= end /\ a + Len(y) = base + Len(Upto(lines, n + 1))
    <3> DEFINE u == Len(Upto(lines, n))
               v == Len(Upto(lines, n + 1))
               l == Len(y)
               g == Len(f)
    <3>1. /\ u \in Nat /\ l \in Nat /\ g \in Nat /\ v = u + l /\ v <= g
          /\ a = base + u /\ end = base + g
      BY <1>4, <2>3, <2>5
    <3> HIDE DEF u, v, l, g, a, end
    <3>2. a + l <= end /\ a + l = base + v
      BY <3>1
    <3> QED BY <3>2 DEF l, v
  <2> HIDE DEF y, a, end
  <2>7. q \in 0..(Len(y) - 1) /\ a + q <= Len(data)
    BY <2>4, <2>5
  <2>8. /\ text \in Seq(STRING) /\ e \in p..Len(data) /\ e <= a + Len(y)
        /\ p < Len(data) => p < e
        /\ \A i \in 1..Len(text) : q + i \in 1..Len(y) /\ text[i] = y[q + i]
        /\ text = EndOfLine => CutToBlank(y) /\ q > 0
        /\ text # EndOfLine => \/ e = a + Len(y) /\ ~CutToBlank(y)
                               \/ e = Len(data) /\ e < a + Len(y)
                               \/ e = a + (q + cap) /\ q + cap < Len(y)
    <3>1. LET t == Line(data, a + q, MaxLineLength)
              d == a + q + Len(t)
          IN  /\ t \in Seq(STRING) /\ d \in (a + q)..Len(data) /\ d <= a + Len(y)
              /\ a + q < Len(data) => a + q < d
              /\ \A i \in 1..Len(t) : q + i \in 1..Len(y) /\ t[i] = y[q + i]
              /\ t = EndOfLine => CutToBlank(y) /\ q > 0
              /\ t # EndOfLine => \/ d = a + Len(y) /\ ~CutToBlank(y)
                                  \/ d = Len(data) /\ d < a + Len(y)
                                  \/ d = a + (q + MaxLineLength) /\ q + MaxLineLength < Len(y)
      BY <2>3, <2>4, <2>5, <2>7, PieceRead
    <3> QED BY <2>5, <3>1
  <2> HIDE DEF text
  <2>9. p \in base..end
    <3>1. a >= base /\ a \in Nat
      BY <1>4 DEF a
    <3> QED BY <1>4, <2>4, <2>5, <2>6, <3>1
  <2>10. text = <<>> => p = Len(data)
    <3>1. text = <<>> => e = p
      <4>1. Len(<<>>) = 0
        OBVIOUS
      <4> QED BY <1>4, <4>1
    <3> QED BY <1>4, <2>8, <3>1
  <2>11. ASSUME text = EndOfLine
         PROVE  \E i \in 1..Len(lines) :
                           /\ CutToBlank(lines[i])
                           /\ base + Len(Upto(lines, i - 1)) < p
                           /\ p < base + Len(Upto(lines, i))
    <3>1. CutToBlank(y) /\ q > 0
      BY <2>8, <2>11
    <3>2. a < p /\ p < a + Len(y)
      BY <2>4, <2>5, <3>1
    <3>3. a = base + Len(Upto(lines, (n + 1) - 1))
      BY <2>1 DEF a
    <3>4. a + Len(y) = base + Len(Upto(lines, n + 1))
      BY <2>6
    <3> QED BY <2>1, <3>1, <3>2, <3>3, <3>4 DEF y
  <2>12. ASSUME text # EndOfLine
         PROVE  (Inside(base, lines, e) /\ e <= end) \/ (e = Len(data) /\ Len(data) < end + 2)
    <3>1. CASE e = a + Len(y) /\ ~CutToBlank(y)
      <4>1. e = base + Len(Upto(lines, n + 1)) + 0
        <5>1. e = base + Len(Upto(lines, n + 1))
          BY <2>6, <3>1, Zenon
        <5>2. a + Len(y) \in Nat
          BY <2>5
        <5>3. e \in Nat
          BY <3>1, <5>2
        <5> HIDE DEF e
        <5>4. e + 0 = e /\ base + Len(Upto(lines, n + 1)) \in Nat
          BY <5>1, <5>3
        <5> QED BY <5>1, <5>4
      <4>2. 0 % MaxLineLength = 0
        BY CapsAssumption
      <4>3. IF n + 1 < Len(lines) THEN 0 < Len(lines[(n + 1) + 1]) ELSE 0 = 0
        <5>1. ASSUME n + 1 < Len(lines) PROVE 0 < Len(lines[(n + 1) + 1])
          <6>1. (n + 1) + 1 \in 1..Len(lines)
            BY <2>1, <5>1
          <6>2. Len(lines[(n + 1) + 1]) >= 3
            BY <6>1, LineOfBlock
          <6>3. lines[(n + 1) + 1] \in Seq(STRING)
            BY <6>1, LineOfBlock
          <6> QED BY <6>2, <6>3
        <5> QED BY <5>1
      <4>4. \A i \in 1..(n + 1) : ~CutToBlank(lines[i])
        <5>1. \A i \in 1..(n + 1) : i \in 1..n \/ i = n + 1
          BY <2>1
        <5> QED BY <1>1, <3>1, <5>1 DEF y
      <4>5. n + 1 \in 0..Len(lines) /\ 0 \in Nat
        BY <2>1
      <4> HIDE DEF e
      <4>6. Inside(base, lines, e)
        BY <4>1, <4>2, <4>3, <4>4, <4>5 DEF Inside
      <4> QED BY <2>6, <3>1, <4>6
    <3>2. CASE e = Len(data) /\ e < a + Len(y)
      BY <1>4, <2>5, <2>6, <3>2
    <3>3. CASE e = a + (q + cap) /\ q + cap < Len(y)
      <4>1. e = base + Len(Upto(lines, n)) + (q + cap)
        BY <3>3 DEF a
      <4>2. cap \in Nat \ {0} /\ q + cap \in Nat
        BY CapsAssumption
      <4>3. (q + cap) % cap = 0
        BY <2>4, <4>2, Remainder
      <4>4. IF n < Len(lines) THEN q + cap < Len(lines[n + 1]) ELSE q + cap = 0
        BY <1>7, <3>3 DEF y
      <4>5. e <= end
        BY <1>4, <2>5, <2>6, <3>3, <4>2
      <4> HIDE DEF e
      <4>6. Inside(base, lines, e)
        BY <1>1, <4>1, <4>2, <4>3, <4>4 DEF Inside
      <4> QED BY <4>5, <4>6
    <3> QED BY <2>8, <2>12, <3>1, <3>2, <3>3
  <2>13. \A i \in 1..Len(text) : Occurs(text[i], lines)
    BY <2>1, <2>8 DEF y, Occurs
  <2> HIDE DEF e
  <2> QED BY <2>8, <2>9, <2>10, <2>11, <2>12, <2>13 DEF text, e, end, f
<1>8. n = Len(lines) \/ n < Len(lines)
  BY <1>2
<1> QED BY <1>6, <1>7, <1>8

\* What was sent and has arrived stands in the input where it was sent.
LEMMA AtData ==
    ASSUME NEW wire, NEW data, Agrees(data, wire), NEW S, NEW t \in Seq(S), NEW b \in Nat,
           Len(data) \in Nat, Len(wire) \in Nat, At(wire, b, t), b + Len(t) <= Len(data)
    PROVE  At(data, b, t)
<1>1. ASSUME NEW i \in 1..Len(t) PROVE data[b + i] = t[i]
  <2>1. b + i \in 1..Len(data) /\ b + i <= Len(wire) /\ wire[b + i] = t[i]
    BY DEF At
  <2> QED BY <2>1 DEF Agrees
<1> QED BY <1>1 DEF At

\* The symbols read of a block: all of it, or whole lines and a piece of the next.
LEMMA BlockCutOut ==
    ASSUME NEW wire \in Seq(STRING), NEW data \in Seq(STRING), Agrees(data, wire),
           NEW base \in Nat, NEW lines \in Seq(BlockLines),
           At(wire, base, FlattenSeq(lines)), NEW p \in 0..Len(data)
    PROVE  /\ p = base + Len(FlattenSeq(lines)) => SubSeq(data, base + 1, p) = FlattenSeq(lines)
           /\ \A n \in 1..Len(lines) :
                 /\ base + Len(Upto(lines, n - 1)) < p
                 /\ p < base + Len(Upto(lines, n))
                 => \E t \in Seq(STRING) :
                       /\ t # <<>> /\ \A i \in 1..Len(t) : t[i] # LF
                       /\ SubSeq(data, base + 1, p) = Upto(lines, n - 1) \o t
<1> DEFINE f == FlattenSeq(lines)
<1>1. lines \in Seq(Seq(STRING)) /\ f \in Seq(STRING) /\ Len(f) \in Nat /\ Len(lines) \in Nat
  BY LinesAreTexts, FlattenFacts
<1>2. Len(data) \in Nat /\ Len(wire) \in Nat
  OBVIOUS
<1>3. ASSUME p = base + Len(f) PROVE SubSeq(data, base + 1, p) = f
  <2> HIDE DEF f
  <2>1. At(wire, base, f) /\ base + Len(f) <= Len(data)
    BY <1>3 DEF f
  <2>2. At(data, base, f)
    BY <1>1, <1>2, <2>1, AtData
  <2>3. SubSeq(data, base + 1, base + Len(f)) = f
    BY <1>1, <2>2, AtCutOut
  <2> QED BY <1>3, <2>3
<1>4. ASSUME NEW n \in 1..Len(lines),
             base + Len(Upto(lines, n - 1)) < p, p < base + Len(Upto(lines, n))
      PROVE  \E t \in Seq(STRING) :
                       /\ t # <<>> /\ \A i \in 1..Len(t) : t[i] # LF
                       /\ SubSeq(data, base + 1, p) = Upto(lines, n - 1) \o t
  <2> DEFINE u == Upto(lines, n - 1)
             y == lines[n]
             a == base + Len(u)
             t == SubSeq(data, a + 1, p)
  <2>1. /\ y \in BlockLines /\ Len(y) >= 3 /\ At(wire, a, y)
        /\ Len(Upto(lines, n)) = Len(u) + Len(y)
    BY LineOfBlock
  <2>2. u \in Seq(STRING) /\ At(f, 0, u)
    <3>1. n - 1 \in 0..Len(lines)
      BY <1>1
    <3> QED BY <1>1, <3>1, UptoFacts
  <2> HIDE DEF u, y, f
  <2>3. y \in Seq(STRING) /\ \A i \in 1..(Len(y) - 1) : y[i] # LF
    <3>1. /\ y \in Seq(STRING) /\ y[Len(y) - 1] = CR /\ \A i \in 1..(Len(y) - 2) : y[i] \notin {CR, LF}
      BY <2>1 DEF BlockLines
    <3>2. Len(y) \in Nat /\ CR # LF
      BY <3>1, SymbolFacts
    <3>3. \A i \in 1..(Len(y) - 1) : i \in 1..(Len(y) - 2) \/ i = Len(y) - 1
      BY <3>2
    <3> QED BY <3>1, <3>2, <3>3
  <2>4. Len(u) \in Nat /\ Len(y) \in Nat /\ a \in Nat /\ p \in Nat /\ a < p
    BY <1>4, <2>2, <2>3 DEF u
  <2>5. p < a + Len(y)
    <3> DEFINE l == Len(u)
               k == Len(y)
               v == Len(Upto(lines, n))
    <3>1. v = l + k /\ l \in Nat /\ k \in Nat /\ p < base + v /\ a = base + l
      BY <1>4, <2>1, <2>4
    <3> HIDE DEF l, k, v, a
    <3>2. p < a + k
      BY <2>4, <3>1
    <3> QED BY <3>2 DEF k
  <2>6. At(wire, base, f)
    BY DEF f
  <2>7. At(wire, base, u)
    <3>1. At(wire, base + 0, u)
      BY <1>1, <2>2, <2>6, AtWithin DEF f
    <3> QED BY <3>1
  <2>8. At(data, base, u)
    <3>1. base + Len(u) <= Len(data)
      BY <2>4
    <3> QED BY <1>2, <2>2, <2>7, <3>1, AtData
  <2>9. SubSeq(data, base + 1, a) = u
    BY <2>2, <2>8, AtCutOut
  <2>10. a + 1 \in 1..(Len(data) + 1) /\ p \in ((a + 1) - 1)..Len(data) /\ (a + 1) - 1 = a
    BY <2>4
  <2>11. t \in Seq(STRING) /\ Len(t) = p - a
    <3>1. t \in Seq(STRING) /\ Len(t) = p - (a + 1) + 1
      BY <2>10, Part
    <3> QED BY <2>4, <3>1
  <2>12. ASSUME NEW i \in 1..Len(t) PROVE t[i] # LF
    <3>1. i \in 1..(p - a) /\ a + i \in 1..Len(data) /\ i \in 1..(Len(y) - 1) /\ i \in 1..Len(y)
      BY <2>4, <2>5, <2>11
    <3>2. t[i] = data[a + i]
      <4> HIDE DEF a
      <4>1. i \in 1..(p - (a + 1) + 1)
        BY <2>4, <3>1
      <4>2. SubSeq(data, a + 1, p)[i] = data[(a + 1) + i - 1]
        BY <2>4, <4>1
      <4>3. (a + 1) + i - 1 = a + i
        BY <2>4, <3>1
      <4> QED BY <4>2, <4>3
    <3>3. wire[a + i] = y[i] /\ a + i <= Len(wire)
      BY <2>1, <2>4, <3>1, <2>3 DEF At
    <3>4. data[a + i] = wire[a + i]
      BY <3>1, <3>3 DEF Agrees
    <3> QED BY <2>3, <3>1, <3>2, <3>3, <3>4
  <2>13. base + 1 \in 1..(Len(data) + 1) /\ a \in ((base + 1) - 1)..Len(data) /\ p \in a..Len(data)
    BY <2>4
  <2>14. SubSeq(data, base + 1, a) \o SubSeq(data, a + 1, p) = SubSeq(data, base + 1, p)
    <3> HIDE DEF a
    <3> QED BY <2>13, ConcatAdjacentSubSeq
  <2>15. t # <<>>
    <3>1. Len(t) # 0
      BY <2>4, <2>11
    <3> HIDE DEF t, a
    <3>2. Len(<<>>) = 0
      OBVIOUS
    <3> QED BY <3>1, <3>2, Zenon
  <2> HIDE DEF a, t
  <2>16. SubSeq(data, base + 1, p) = u \o t
    BY <2>9, <2>14 DEF t
  <2> QED BY <2>11, <2>12, <2>15, <2>16 DEF u
<1> QED BY <1>3, <1>4

\* f is the function that Gathered's recursion defines on the places of s.
Gathers(f, s) ==
    f = [n \in 0..Len(s) |-> IF n = 0 THEN Begun ELSE WithLine(f[n - 1], s[n])]

\* What the recursion says, place by place.
LEMMA GathersValues ==
    ASSUME NEW f, NEW s \in Seq(Seq(STRING)), Gathers(f, s)
    PROVE  /\ f = [n \in 0..Len(s) |-> f[n]]
           /\ f[0] = Begun
           /\ \A n \in 1..Len(s) : f[n] = WithLine(f[n - 1], s[n])
<1> DEFINE g == [n \in 0..Len(s) |-> IF n = 0 THEN Begun ELSE WithLine(f[n - 1], s[n])]
<1>1. f = g
  BY DEF Gathers
<1>2. 0 \in 0..Len(s) /\ \A n \in 1..Len(s) : n \in 0..Len(s) /\ n # 0
  OBVIOUS
<1>3. /\ g = [n \in 0..Len(s) |-> g[n]]
      /\ g[0] = Begun
      /\ \A n \in 1..Len(s) : g[n] = WithLine(f[n - 1], s[n])
  BY <1>2
<1> HIDE DEF g
<1> QED
  BY <1>1, <1>3, Zenon

\* And the other way round.
LEMMA GathersIs ==
    ASSUME NEW f, NEW s \in Seq(Seq(STRING)),
           f = [n \in 0..Len(s) |-> f[n]], f[0] = Begun,
           \A n \in 1..Len(s) : f[n] = WithLine(f[n - 1], s[n])
    PROVE  Gathers(f, s)
<1>1. \A n \in 0..Len(s) : f[n] = IF n = 0 THEN Begun ELSE WithLine(f[n - 1], s[n])
  <2> TAKE n \in 0..Len(s)
  <2>1. n = 0 \/ (n # 0 /\ n \in 1..Len(s))
    OBVIOUS
  <2> QED
    BY <2>1
<1>2. f = [n \in 0..Len(s) |-> IF n = 0 THEN Begun ELSE WithLine(f[n - 1], s[n])]
  BY <1>1
<1> QED
  BY <1>2, Zenon DEF Gathers

\* A solution goes on by one step.
LEMMA GathersExtends ==
    ASSUME NEW s \in Seq(Seq(STRING)), NEW x \in Seq(STRING), NEW f, Gathers(f, s)
    PROVE  \E g : /\ Gathers(g, Append(s, x))
                  /\ g[Len(s) + 1] = WithLine(f[Len(s)], x)
<1> DEFINE l == Len(s)
           t == Append(s, x)
           g == [n \in 0..(l + 1) |-> IF n = l + 1 THEN WithLine(f[l], x) ELSE f[n]]
<1>1. /\ l \in Nat /\ t \in Seq(Seq(STRING)) /\ Len(t) = l + 1 /\ t[l + 1] = x
      /\ \A n \in 1..l : t[n] = s[n]
  OBVIOUS
<1>2. f[0] = Begun /\ \A n \in 1..l : f[n] = WithLine(f[n - 1], s[n])
  BY GathersValues
<1> HIDE DEF l, t
<1>3. /\ g = [n \in 0..(l + 1) |-> g[n]]
      /\ g[l + 1] = WithLine(f[l], x)
      /\ \A n \in 0..l : g[n] = f[n]
  <2>1. l + 1 \in 0..(l + 1) /\ \A n \in 0..l : n \in 0..(l + 1) /\ n # l + 1
    BY <1>1
  <2> QED
    BY <2>1
<1> HIDE DEF g
<1>4. g[0] = Begun
  <2>1. 0 \in 0..l
    BY <1>1
  <2> QED
    BY <1>2, <1>3, <2>1
<1>5. ASSUME NEW n \in 1..(l + 1) PROVE g[n] = WithLine(g[n - 1], t[n])
  <2>1. n = l + 1 \/ n \in 1..l
    BY <1>1
  <2>2. CASE n = l + 1
    <3>1. n - 1 = l /\ l \in 0..l
      BY <1>1, <2>2
    <3>2. g[n - 1] = f[l] /\ g[n] = WithLine(f[l], x) /\ t[n] = x
      BY <1>1, <1>3, <2>2, <3>1
    <3> QED
      BY <3>2
  <2>3. CASE n \in 1..l
    <3>1. n \in 0..l /\ n - 1 \in 0..l
      BY <1>1, <2>3
    <3>2. g[n - 1] = f[n - 1] /\ g[n] = f[n] /\ t[n] = s[n]
      BY <1>1, <1>3, <2>3, <3>1
    <3> QED
      BY <1>2, <2>3, <3>2
  <2> QED
    BY <2>1, <2>2, <2>3
<1>6. Gathers(g, t)
  BY <1>1, <1>3, <1>4, <1>5, GathersIs
<1> QED
  BY <1>3, <1>6 DEF l, t

\* There is a solution for every sequence of lines.
LEMMA GathersExists ==
    ASSUME NEW s \in Seq(Seq(STRING))
    PROVE  \E f : Gathers(f, s)
<1> DEFINE P == {t \in Seq(Seq(STRING)) : \E f : Gathers(f, t)}
<1>1. <<>> \in P
  <2> DEFINE e == [n \in {0} |-> Begun]
             t == <<>>
  <2>1. t \in Seq(Seq(STRING)) /\ 0..Len(t) = {0} /\ 1..Len(t) = {}
    OBVIOUS
  <2>2. e[0] = Begun /\ e = [n \in {0} |-> e[n]]
    OBVIOUS
  <2> HIDE DEF e, t
  <2>3. Gathers(e, t)
    BY <2>1, <2>2, GathersIs
  <2> QED
    BY <2>1, <2>3 DEF t
<1>2. \A t \in Seq(Seq(STRING)) : \A x \in Seq(STRING) : t \in P => Append(t, x) \in P
  BY GathersExtends
<1> HIDE DEF P
<1>3. Seq(Seq(STRING)) \subseteq P
  BY <1>1, <1>2, Texts!SeqInduction
<1> QED
  BY <1>3 DEF P

\* There is one only.
LEMMA GathersUnique ==
    ASSUME NEW s \in Seq(Seq(STRING)), NEW f, NEW g, Gathers(f, s), Gathers(g, s)
    PROVE  f = g
<1> DEFINE N == {n \in Nat : n \in 0..Len(s) => f[n] = g[n]}
<1>1. /\ f = [n \in 0..Len(s) |-> f[n]] /\ g = [n \in 0..Len(s) |-> g[n]]
      /\ f[0] = Begun /\ g[0] = Begun
      /\ \A n \in 1..Len(s) : f[n] = WithLine(f[n - 1], s[n])
      /\ \A n \in 1..Len(s) : g[n] = WithLine(g[n - 1], s[n])
  BY GathersValues
<1>2. 0 \in N
  BY <1>1
<1>3. ASSUME NEW n \in Nat, n \in N PROVE n + 1 \in N
  <2> SUFFICES ASSUME n + 1 \in 0..Len(s) PROVE f[n + 1] = g[n + 1]
    OBVIOUS
  <2>1. n + 1 \in 1..Len(s) /\ n \in 0..Len(s) /\ (n + 1) - 1 = n
    OBVIOUS
  <2>2. f[n] = g[n]
    BY <1>3, <2>1
  <2>3. /\ f[n + 1] = WithLine(f[(n + 1) - 1], s[n + 1])
        /\ g[n + 1] = WithLine(g[(n + 1) - 1], s[n + 1])
    BY <1>1, <2>1
  <2> QED
    BY <2>1, <2>2, <2>3
<1> HIDE DEF N
<1>4. Nat \subseteq N
  BY <1>2, <1>3, Texts!Induction
<1>5. \A n \in 0..Len(s) : f[n] = g[n]
  BY <1>4 DEF N
<1> QED
  BY <1>1, <1>5, Zenon

\* Gathered is the last value of the one solution.
LEMMA GatheredIs ==
    ASSUME NEW s \in Seq(Seq(STRING)), NEW f, Gathers(f, s)
    PROVE  Gathered(s) = f[Len(s)]
<1> DEFINE c == CHOOSE g : Gathers(g, s)
<1>1. Gathered(s) = c[Len(s)]
  BY DEF Gathered, Gathers
<1>2. Gathers(c, s)
  OBVIOUS
<1> HIDE DEF c
<1>3. c = f
  BY <1>2, GathersUnique
<1> QED
  BY <1>1, <1>3

\* The loop begins with nothing and goes on line by line.
LEMMA GatheredAppend ==
    /\ Gathered(<<>>) = Begun
    /\ \A s \in Seq(Seq(STRING)), x \in Seq(STRING) : Gathered(Append(s, x)) = WithLine(Gathered(s), x)
<1>1. Gathered(<<>>) = Begun
  <2> DEFINE e == <<>>
  <2>1. e \in Seq(Seq(STRING)) /\ Len(e) = 0
    OBVIOUS
  <2> HIDE DEF e
  <2>2. PICK f : Gathers(f, e)
    BY <2>1, GathersExists
  <2>3. Gathered(e) = f[0] /\ f[0] = Begun
    BY <2>1, <2>2, GatheredIs, GathersValues
  <2> QED
    BY <2>3 DEF e
<1>2. ASSUME NEW s \in Seq(Seq(STRING)), NEW x \in Seq(STRING)
      PROVE  Gathered(Append(s, x)) = WithLine(Gathered(s), x)
  <2>1. PICK f : Gathers(f, s)
    BY GathersExists
  <2>2. PICK g : Gathers(g, Append(s, x)) /\ g[Len(s) + 1] = WithLine(f[Len(s)], x)
    BY <2>1, GathersExtends
  <2>3. Append(s, x) \in Seq(Seq(STRING)) /\ Len(Append(s, x)) = Len(s) + 1
    OBVIOUS
  <2>4. Gathered(Append(s, x)) = g[Len(s) + 1] /\ Gathered(s) = f[Len(s)]
    BY <2>1, <2>2, <2>3, GatheredIs
  <2> QED
    BY <2>2, <2>4
<1> QED
  BY <1>1, <1>2

-----------------------------------------------------------------------------
(* The lines of a block.                                                   *)

\* The largest of numbers that have a bound.
LEMMA MaxFacts ==
    ASSUME NEW n \in Nat, NEW S, S \subseteq 0..n, S # {}
    PROVE  Max(S) \in S /\ \A x \in S : x <= Max(S)
<1> DEFINE T == {n - x : x \in S}
<1>1. T \subseteq Nat /\ T # {}
  <2>1. \A x \in S : n - x \in Nat
    <3>1. \A x \in S : x \in Int /\ x <= n
      OBVIOUS
    <3> QED BY <3>1
  <2> QED BY <2>1
<1>2. PICK m \in T : \A k \in T : m <= k
  <2> HIDE DEF T
  <2> QED BY <1>1, Texts!LeastNatural
<1>3. PICK z \in S : m = n - z
  BY <1>2
<1>4. \A x \in S : z >= x
  <2>1. ASSUME NEW x \in S PROVE z >= x
    <3>1. n - z <= n - x /\ x \in Nat /\ z \in Nat
      BY <1>2, <1>3
    <3> QED BY <3>1
  <2> QED BY <2>1
<1> HIDE DEF T
<1>5. \E x \in S : \A y \in S : x >= y
  BY <1>4
<1>6. Max(S) \in S /\ \A y \in S : Max(S) >= y
  BY <1>5 DEF Max
<1>7. \A y \in S : y \in Nat
  OBVIOUS
<1> QED BY <1>6, <1>7

\* Where the line of a symbol starts.
LEMMA LineStartFacts ==
    ASSUME NEW text, NEW i \in Nat, i >= 1
    PROVE  /\ LineStart(text, i) \in 1..i
           /\ \A k \in 0..(i - 1) :
                 /\ \A j \in (k + 1)..(i - 1) : text[j] # LF
                 /\ k = 0 \/ text[k] = LF
                 => LineStart(text, i) = k + 1
<1> DEFINE S == {0} \cup {j \in 1..(i - 1) : text[j] = LF}
<1>1. S \subseteq 0..(i - 1) /\ S # {} /\ i - 1 \in Nat
  OBVIOUS
<1>2. LineStart(text, i) = Max(S) + 1
  BY DEF LineStart
<1> DEFINE m == Max(S)
<1>3. m \in S /\ \A x \in S : x <= m
  <2> HIDE DEF S
  <2> QED BY <1>1, MaxFacts
<1> HIDE DEF m
<1>4. m \in 0..(i - 1)
  BY <1>1, <1>3
<1>5. ASSUME NEW k \in 0..(i - 1), \A j \in (k + 1)..(i - 1) : text[j] # LF, k = 0 \/ text[k] = LF
      PROVE  m = k
  <2>1. k \in S
    BY <1>5
  <2>2. k <= m
    BY <1>3, <2>1
  <2>3. m \notin (k + 1)..(i - 1)
    BY <1>3, <1>5
  <2> QED BY <1>4, <2>2, <2>3
<1> QED BY <1>2, <1>4, <1>5 DEF m

\* Empty texts put together are empty.
LEMMA NothingFlattens ==
    \A s \in Seq({<<>>}) : FlattenSeq(s) = <<>>
<1> DEFINE P == {s \in Seq({<<>>}) : FlattenSeq(s) = <<>>}
           E == {<<>>}
<1>1. <<>> \in P
  BY FlattenFew
<1>2. ASSUME NEW s \in Seq(E), NEW x \in E, s \in P PROVE Append(s, x) \in P
  <2>1. E \subseteq Seq(STRING) /\ x \in Seq(STRING) /\ x = <<>>
    OBVIOUS
  <2>2. s \in Seq(Seq(STRING))
    BY <2>1, SeqMonotonic
  <2>3. FlattenSeq(Append(s, x)) = FlattenSeq(s) \o x
    BY <2>1, <2>2, FlattenFacts
  <2>4. <<>> \o <<>> = <<>>
    OBVIOUS
  <2>5. FlattenSeq(Append(s, x)) = <<>>
    BY <1>2, <2>1, <2>3, <2>4
  <2>6. Append(s, x) \in Seq(E)
    OBVIOUS
  <2> QED BY <2>5, <2>6
<1> HIDE DEF P
<1>3. Seq(E) \subseteq P
  BY <1>1, <1>2, Texts!SeqInduction
<1> QED BY <1>3 DEF P

\* What EachLine gives at each place of a text.
LineAt(text) ==
    [i \in DOMAIN text |->
        IF text[i] = LF \/ i = Len(text)
        THEN <<SubSeq(text, LineStart(text, i), i)>> ELSE <<>>]

\* The line that ends at a symbol, if one does.
LEMMA LineAtFacts ==
    ASSUME NEW text \in Seq(STRING)
    PROVE  /\ LineAt(text) \in Seq(Seq(Seq(STRING))) /\ Len(LineAt(text)) = Len(text)
           /\ EachLine(text) = FlattenSeq(LineAt(text)) /\ EachLine(text) \in Seq(Seq(STRING))
           /\ \A i \in 1..Len(text) :
                 LineAt(text)[i] = IF text[i] = LF \/ i = Len(text)
                                   THEN <<SubSeq(text, LineStart(text, i), i)>> ELSE <<>>
<1> DEFINE g == LineAt(text)
<1>1. DOMAIN text = 1..Len(text) /\ Len(text) \in Nat
  OBVIOUS
<1>2. /\ g = [i \in 1..Len(text) |-> g[i]]
      /\ \A i \in 1..Len(text) : g[i] = IF text[i] = LF \/ i = Len(text)
                                        THEN <<SubSeq(text, LineStart(text, i), i)>> ELSE <<>>
  BY <1>1 DEF LineAt
<1> HIDE DEF g
<1>3. ASSUME NEW i \in 1..Len(text) PROVE g[i] \in Seq(Seq(STRING))
  <2> DEFINE k == LineStart(text, i)
             t == SubSeq(text, k, i)
  <2>1. k \in 1..i
    BY LineStartFacts
  <2> HIDE DEF k
  <2>2. k \in 1..(Len(text) + 1) /\ i \in (k - 1)..Len(text)
    BY <2>1
  <2>3. t \in Seq(STRING)
    BY <2>2, Part
  <2>4. g[i] = <<t>> \/ g[i] = <<>>
    BY <1>2 DEF k
  <2> HIDE DEF t
  <2>5. <<t>> \in Seq(Seq(STRING)) /\ <<>> \in Seq(Seq(STRING))
    BY <2>3
  <2> QED BY <2>4, <2>5
<1>4. g \in Seq(Seq(Seq(STRING))) /\ Len(g) = Len(text)
  BY <1>1, <1>2, <1>3, Listed
<1>5. EachLine(text) = FlattenSeq(g)
  BY Zenon DEF EachLine, LineAt, g
<1>6. FlattenSeq(g) \in Seq(Seq(STRING))
  BY <1>4, FlattenFacts
<1> QED BY <1>2, <1>4, <1>5, <1>6 DEF g

\* A text that ends with a line, or is empty, and what follows up to the next LF.
LEMMA EachLineGrows ==
    ASSUME NEW a \in Seq(STRING), a = <<>> \/ a[Len(a)] = LF,
           NEW y \in Seq(STRING), y # <<>>, \A i \in 1..(Len(y) - 1) : y[i] # LF
    PROVE  EachLine(a \o y) = Append(EachLine(a), y)
<1> DEFINE t == a \o y
           l == Len(a)
           k == Len(y)
           g == LineAt(t)
           h == LineAt(a)
           e == [i \in 1..(k - 1) |-> <<>>]
<1>1. /\ t \in Seq(STRING) /\ Len(t) = l + k /\ l \in Nat /\ k \in Nat /\ k >= 1
      /\ \A i \in 1..l : t[i] = a[i]
      /\ \A i \in 1..k : t[l + i] = y[i]
  <2>1. l \in Nat /\ k \in Nat /\ k >= 1
    OBVIOUS
  <2>2. /\ t \in Seq(STRING) /\ Len(t) = l + k
        /\ \A i \in 1..(l + k) : t[i] = IF i <= l THEN a[i] ELSE y[i - l]
    BY ConcatProperties
  <2> HIDE DEF t, l, k
  <2>3. \A i \in 1..l : t[i] = a[i]
    BY <2>1, <2>2
  <2>4. ASSUME NEW i \in 1..k PROVE t[l + i] = y[i]
    <3>1. l + i \in 1..(l + k) /\ ~(l + i <= l) /\ (l + i) - l = i
      BY <2>1
    <3> QED BY <2>2, <3>1
  <2> QED BY <2>1, <2>2, <2>3, <2>4
<1>2. At(t, l, y)
  BY AtConcat
<1>3. SubSeq(t, l + 1, l + k) = y
  <2> HIDE DEF t
  <2> QED BY <1>1, <1>2, AtCutOut
<1>4. l = 0 \/ t[l] = LF
  <2>1. CASE a = <<>>
    BY <2>1
  <2>2. CASE a[Len(a)] = LF
    <3>1. l = 0 \/ l \in 1..l
      BY <1>1
    <3> QED BY <1>1, <2>2, <3>1
  <2> QED BY <2>1, <2>2
<1> HIDE DEF t
<1>5. /\ g \in Seq(Seq(Seq(STRING))) /\ Len(g) = l + k
      /\ EachLine(t) = FlattenSeq(g)
      /\ \A i \in 1..(l + k) : g[i] = IF t[i] = LF \/ i = l + k
                                      THEN <<SubSeq(t, LineStart(t, i), i)>> ELSE <<>>
  <2>1. t \in Seq(STRING)
    BY <1>1
  <2>2. /\ LineAt(t) \in Seq(Seq(Seq(STRING))) /\ Len(LineAt(t)) = Len(t)
        /\ EachLine(t) = FlattenSeq(LineAt(t))
        /\ \A i \in 1..Len(t) :
              LineAt(t)[i] = IF t[i] = LF \/ i = Len(t)
                             THEN <<SubSeq(t, LineStart(t, i), i)>> ELSE <<>>
    BY <2>1, LineAtFacts, ZenonT(40)
  <2>3. Len(t) = l + k
    BY <1>1
  <2> QED BY <2>2, <2>3, Zenon DEF g
<1>6. /\ h \in Seq(Seq(Seq(STRING))) /\ Len(h) = l
      /\ EachLine(a) = FlattenSeq(h) /\ EachLine(a) \in Seq(Seq(STRING))
      /\ \A i \in 1..l : h[i] = IF a[i] = LF \/ i = l
                                THEN <<SubSeq(a, LineStart(a, i), i)>> ELSE <<>>
  BY LineAtFacts
<1> HIDE DEF g, h
<1>7. ASSUME NEW i \in 1..l PROVE g[i] = h[i]
  <2>1. i \in 1..(l + k) /\ i # l + k /\ i \in Nat /\ i >= 1
    BY <1>1
  <2>2. (t[i] = LF \/ i = l + k) <=> (a[i] = LF \/ i = l)
    <3>1. i = l => t[i] = LF
      BY <1>1, <1>4
    <3> QED BY <1>1, <2>1, <3>1
  <2>3. LineStart(t, i) = LineStart(a, i)
    <3>1. \A j \in 1..(i - 1) : t[j] = a[j]
      BY <1>1, <2>1
    <3>2. {j \in 1..(i - 1) : t[j] = LF} = {j \in 1..(i - 1) : a[j] = LF}
      BY <3>1
    <3> QED BY <3>2 DEF LineStart
  <2> DEFINE s == LineStart(a, i)
  <2>4. s \in 1..i
    BY <2>1, LineStartFacts
  <2> HIDE DEF s
  <2>5. SubSeq(t, s, i) = SubSeq(a, s, i)
    <3> DEFINE x == SubSeq(t, s, i)
               z == SubSeq(a, s, i)
    <3>1. i \in (s - 1)..l /\ i \in (s - 1)..(l + k) /\ s \in 1..(l + 1) /\ s \in 1..(l + k + 1)
      BY <1>1, <2>4
    <3>2. x \in Seq(STRING) /\ z \in Seq(STRING) /\ Len(x) = i - s + 1 /\ Len(z) = i - s + 1
      BY <1>1, <3>1, Part
    <3>3. ASSUME NEW j \in 1..(i - s + 1) PROVE x[j] = z[j]
      <4>1. x[j] = t[s + j - 1] /\ z[j] = a[s + j - 1]
        BY <2>4
      <4>2. s + j - 1 \in 1..l
        BY <2>4, <1>1
      <4> QED BY <1>1, <4>1, <4>2
    <3> HIDE DEF x, z
    <3>4. x = z
      BY <3>2, <3>3, SeqEqual
    <3> QED BY <3>4 DEF x, z
  <2> QED BY <1>5, <1>6, <2>1, <2>2, <2>3, <2>5 DEF s
<1>8. ASSUME NEW i \in 1..(k - 1) PROVE g[l + i] = <<>>
  <2>1. l + i \in 1..(l + k) /\ l + i # l + k /\ i \in 1..k
    BY <1>1
  <2>2. t[l + i] # LF
    BY <1>1, <2>1
  <2> QED BY <1>5, <2>1, <2>2
<1>9. g[l + k] = <<y>>
  <2>1. LineStart(t, l + k) = l + 1
    <3>1. l \in 0..((l + k) - 1) /\ l + k \in Nat /\ l + k >= 1
      BY <1>1
    <3>2. ASSUME NEW j \in (l + 1)..((l + k) - 1) PROVE t[j] # LF
      <4>1. j - l \in 1..(k - 1) /\ j - l \in 1..k /\ l + (j - l) = j
        BY <1>1
      <4> QED BY <1>1, <4>1
    <3> QED BY <1>4, <3>1, <3>2, LineStartFacts
  <2>2. l + k \in 1..(l + k)
    BY <1>1
  <2> QED BY <1>3, <1>5, <2>1, <2>2
<1>10. e \in Seq({<<>>}) /\ Len(e) = k - 1
  <2>1. k - 1 \in Nat /\ e = [i \in 1..(k - 1) |-> e[i]] /\ \A i \in 1..(k - 1) : e[i] \in {<<>>} /\ e[i] = <<>>
    BY <1>1
  <2> HIDE DEF e
  <2> QED BY <2>1, Listed
<1>11. \A i \in 1..(k - 1) : e[i] = <<>>
  OBVIOUS
<1>12. e \in Seq(Seq(Seq(STRING))) /\ FlattenSeq(e) = <<>>
  <2>1. {<<>>} \subseteq Seq(Seq(STRING))
    OBVIOUS
  <2> HIDE DEF e
  <2> QED BY <1>10, <2>1, SeqMonotonic, NothingFlattens
<1> HIDE DEF e, l, k
<1> DEFINE v == <<y>>
           u == <<v>>
<1>13. v \in Seq(Seq(STRING)) /\ u \in Seq(Seq(Seq(STRING))) /\ Len(u) = 1 /\ u[1] = v
  <2>1. v \in Seq(Seq(STRING))
    BY One
  <2> HIDE DEF v
  <2> QED BY <2>1, One
<1>14. FlattenSeq(u) = v
  <2> HIDE DEF v
  <2> QED BY <1>13, FlattenFew DEF u
<1> HIDE DEF v, u
<1> DEFINE X == Seq(Seq(STRING))
           b == h \o (e \o u)
<1>21. h \in Seq(X) /\ e \in Seq(X) /\ u \in Seq(X)
  BY <1>6, <1>12, <1>13
<1> HIDE DEF X
<1>15. e \o u \in Seq(X) /\ Len(e \o u) = k
       /\ (\A i \in 1..(k - 1) : (e \o u)[i] = <<>>) /\ (e \o u)[k] = v
  <2>1. /\ e \o u \in Seq(X) /\ Len(e \o u) = (k - 1) + 1
        /\ \A i \in 1..((k - 1) + 1) : (e \o u)[i] = IF i <= k - 1 THEN e[i] ELSE u[i - (k - 1)]
    <3>1. Len(e) = k - 1 /\ Len(u) = 1
      BY <1>10, <1>13
    <3>2. e \o u \in Seq(X)
      BY <1>21, ConcatProperties
    <3>3. Len(e \o u) = Len(e) + Len(u)
      BY <1>21, ConcatProperties
    <3>4. \A i \in 1..(Len(e) + Len(u)) : (e \o u)[i] = IF i <= Len(e) THEN e[i] ELSE u[i - Len(e)]
      BY <1>21, ConcatProperties
    <3> QED BY <3>1, <3>2, <3>3, <3>4
  <2>2. (k - 1) + 1 = k /\ k \in 1..k /\ ~(k <= k - 1) /\ k - (k - 1) = 1
    BY <1>1
  <2>3. \A i \in 1..(k - 1) : i \in 1..k /\ i <= k - 1
    BY <1>1
  <2> QED BY <1>11, <1>13, <2>1, <2>2, <2>3
<1>16. /\ b \in Seq(X) /\ Len(b) = l + k
       /\ \A i \in 1..(l + k) : b[i] = IF i <= l THEN h[i] ELSE (e \o u)[i - l]
  <2>1. Len(h) = l /\ Len(e \o u) = k /\ e \o u \in Seq(X)
    BY <1>6, <1>15
  <2> DEFINE z == e \o u
  <2>2. h \in Seq(X) /\ z \in Seq(X) /\ Len(h) = l /\ Len(z) = k
    BY <1>21, <2>1
  <2> HIDE DEF z
  <2>3. /\ h \o z \in Seq(X) /\ Len(h \o z) = Len(h) + Len(z)
        /\ \A i \in 1..(Len(h) + Len(z)) : (h \o z)[i] = IF i <= Len(h) THEN h[i] ELSE z[i - Len(h)]
    BY <2>2, ConcatProperties
  <2> QED BY <2>2, <2>3 DEF z
<1>17. g = b
  <2> HIDE DEF b
  <2>1. ASSUME NEW i \in 1..(l + k) PROVE g[i] = b[i]
    <3>1. CASE i \in 1..l
      BY <1>1, <1>7, <1>16, <3>1
    <3>2. CASE i - l \in 1..(k - 1)
      <4>1. l + (i - l) = i /\ ~(i <= l)
        BY <1>1, <3>2
      <4> QED BY <1>8, <1>15, <1>16, <3>2, <4>1
    <3>3. CASE i = l + k
      <4>1. i - l = k /\ ~(i <= l)
        BY <1>1, <3>3
      <4> QED BY <1>9, <1>15, <1>16, <3>3, <4>1 DEF v
    <3>4. i \in 1..l \/ i - l \in 1..(k - 1) \/ i = l + k
      BY <1>1
    <3> QED BY <3>1, <3>2, <3>3, <3>4
  <2> QED BY <1>5, <1>16, <2>1, SeqEqual
<1>18. FlattenSeq(b) = FlattenSeq(h) \o (FlattenSeq(e) \o FlattenSeq(u))
  <2>1. e \o u \in Seq(Seq(Seq(STRING)))
    BY <1>15 DEF X
  <2>2. FlattenSeq(h \o (e \o u)) = FlattenSeq(h) \o FlattenSeq(e \o u)
    BY <1>6, <2>1, FlattenFacts
  <2>3. FlattenSeq(e \o u) = FlattenSeq(e) \o FlattenSeq(u)
    BY <1>12, <1>13, FlattenFacts
  <2> QED BY <2>2, <2>3
<1>19. FlattenSeq(e) \o FlattenSeq(u) = v
  BY <1>12, <1>13, <1>14, ConcatEmptySeq
<1> DEFINE E == EachLine(a)
<1>20. E \o v = Append(E, y)
  <2>1. E \in Seq(Seq(STRING))
    BY <1>6
  <2> HIDE DEF E
  <2>2. E \o <<y>> = Append(E, y)
    BY <2>1
  <2> QED BY <2>2 DEF v
<1> QED BY <1>5, <1>6, <1>17, <1>18, <1>19, <1>20 DEF t

\* Each line of a block is a line of its own.
LEMMA EachLineOfBlock ==
    ASSUME NEW lines \in Seq(BlockLines)
    PROVE  /\ EachLine(FlattenSeq(lines)) = lines
           /\ FlattenSeq(lines) = <<>> \/ FlattenSeq(lines)[Len(FlattenSeq(lines))] = LF
<1> DEFINE P == {ls \in Seq(BlockLines) :
                   /\ EachLine(FlattenSeq(ls)) = ls
                   /\ FlattenSeq(ls) = <<>> \/ FlattenSeq(ls)[Len(FlattenSeq(ls))] = LF}
<1>1. <<>> \in P
  <2> DEFINE e == <<>>
  <2>1. e \in Seq(BlockLines) /\ FlattenSeq(e) = e /\ e \in Seq(STRING) /\ Len(e) = 0
    BY FlattenFew
  <2> HIDE DEF e
  <2>2. EachLine(e) = FlattenSeq(LineAt(e)) /\ Len(LineAt(e)) = 0 /\ LineAt(e) \in Seq(Seq(Seq(STRING)))
    BY <2>1, LineAtFacts
  <2>3. LineAt(e) = <<>> /\ e = <<>>
    <3> DEFINE g == LineAt(e)
    <3>1. g \in Seq(Seq(Seq(STRING))) /\ Len(g) = 0
      BY <2>2
    <3> HIDE DEF g
    <3>2. g = <<>>
      BY <3>1
    <3> QED BY <3>2 DEF g, e
  <2>4. EachLine(e) = e
    BY <2>1, <2>2, <2>3
  <2>5. e \in P
    BY <2>1, <2>3, <2>4
  <2> QED BY <2>5 DEF e
<1>2. ASSUME NEW ls \in Seq(BlockLines), NEW y \in BlockLines, ls \in P
      PROVE  Append(ls, y) \in P
  <2> DEFINE a == FlattenSeq(ls)
             n == Len(y)
  <2>1. ls \in Seq(Seq(STRING)) /\ y \in Seq(STRING)
    BY LinesAreTexts
  <2>2. FlattenSeq(Append(ls, y)) = a \o y /\ a \in Seq(STRING)
    BY <2>1, FlattenFacts
  <2>3. EachLine(a) = ls /\ (a = <<>> \/ a[Len(a)] = LF)
    BY <1>2
  <2>4. n >= 3 /\ n \in Nat /\ y[n] = LF /\ \A i \in 1..(n - 1) : y[i] # LF
    <3>1. n >= 3 /\ n \in Nat /\ y[n] = LF /\ y[n - 1] = CR /\ CR # LF
          /\ \A i \in 1..(n - 2) : y[i] # LF
      BY <2>1, SymbolFacts DEF BlockLines
    <3> HIDE DEF n
    <3>2. \A i \in 1..(n - 1) : i \in 1..(n - 2) \/ i = n - 1
      BY <3>1
    <3> QED BY <3>1, <3>2
  <2> HIDE DEF a
  <2>5. y # <<>>
    BY <2>4
  <2>6. EachLine(a \o y) = Append(ls, y)
    BY <2>1, <2>2, <2>3, <2>4, <2>5, EachLineGrows
  <2>7. (a \o y)[Len(a \o y)] = LF
    <3>1. Len(a \o y) = Len(a) + n /\ At(a \o y, Len(a), y)
      BY <2>1, <2>2, AtConcat
    <3>2. n \in 1..Len(y)
      BY <2>4
    <3>3. (a \o y)[Len(a) + n] = y[n]
      BY <3>1, <3>2 DEF At
    <3> QED BY <2>4, <3>1, <3>3
  <2>8. Append(ls, y) \in Seq(BlockLines)
    OBVIOUS
  <2> QED BY <2>2, <2>6, <2>7, <2>8
<1> HIDE DEF P
<1>3. Seq(BlockLines) \subseteq P
  BY <1>1, <1>2, Texts!SeqInduction
<1> QED BY <1>3 DEF P

-----------------------------------------------------------------------------
(* Texts without their spaces.                                             *)

InkAt(t) == [i \in DOMAIN t |-> IF t[i] = SP THEN <<>> ELSE <<t[i]>>]

\* A text of one symbol, without its white space.
LEMMA InkAtFacts ==
    ASSUME NEW S, NEW t \in Seq(S)
    PROVE  /\ InkAt(t) \in Seq(Seq(S)) /\ Len(InkAt(t)) = Len(t)
           /\ Ink(t) = FlattenSeq(InkAt(t)) /\ Ink(t) \in Seq(S)
           /\ \A i \in 1..Len(t) : InkAt(t)[i] = IF t[i] = SP THEN <<>> ELSE <<t[i]>>
<1> DEFINE g == InkAt(t)
<1>1. DOMAIN t = 1..Len(t) /\ Len(t) \in Nat /\ \A i \in 1..Len(t) : t[i] \in S
  OBVIOUS
<1>2. /\ g = [i \in 1..Len(t) |-> g[i]]
      /\ \A i \in 1..Len(t) : g[i] = IF t[i] = SP THEN <<>> ELSE <<t[i]>>
  BY <1>1 DEF InkAt
<1> HIDE DEF g
<1>3. ASSUME NEW i \in 1..Len(t) PROVE g[i] \in Seq(S)
  <2>1. <<t[i]>> \in Seq(S) /\ <<>> \in Seq(S)
    BY <1>1, One
  <2> QED BY <1>2, <2>1
<1>4. g \in Seq(Seq(S)) /\ Len(g) = Len(t)
  BY <1>1, <1>2, <1>3, Listed
<1>5. Ink(t) = FlattenSeq(g)
  BY Zenon DEF Ink, InkAt, g
<1>6. FlattenSeq(g) \in Seq(S)
  BY <1>4, FlattenFacts
<1> QED BY <1>2, <1>4, <1>5, <1>6 DEF g

\* The ink of two texts is that of both.
LEMMA InkConcat ==
    ASSUME NEW S, NEW s \in Seq(S), NEW t \in Seq(S)
    PROVE  Ink(s \o t) = Ink(s) \o Ink(t)
<1> DEFINE w == s \o t
           X == Seq(S)
           a == InkAt(s)
           b == InkAt(t)
           c == InkAt(w)
           d == a \o b
           l == Len(s)
           k == Len(t)
<1>1. w \in Seq(S) /\ Len(w) = l + k /\ l \in Nat /\ k \in Nat
      /\ \A i \in 1..(l + k) : w[i] = IF i <= l THEN s[i] ELSE t[i - l]
  BY ConcatProperties
<1> HIDE DEF w
<1>2. /\ a \in Seq(X) /\ Len(a) = l /\ Ink(s) = FlattenSeq(a)
      /\ \A i \in 1..l : a[i] = IF s[i] = SP THEN <<>> ELSE <<s[i]>>
  BY InkAtFacts
<1>3. /\ b \in Seq(X) /\ Len(b) = k /\ Ink(t) = FlattenSeq(b)
      /\ \A i \in 1..k : b[i] = IF t[i] = SP THEN <<>> ELSE <<t[i]>>
  BY InkAtFacts
<1>4. /\ c \in Seq(X) /\ Len(c) = l + k /\ Ink(w) = FlattenSeq(c)
      /\ \A i \in 1..(l + k) : c[i] = IF w[i] = SP THEN <<>> ELSE <<w[i]>>
  BY <1>1, InkAtFacts
<1> HIDE DEF a, b, c, l, k
<1>5. FlattenSeq(d) = FlattenSeq(a) \o FlattenSeq(b)
  BY <1>2, <1>3, FlattenFacts
<1> HIDE DEF X
<1>6. d \in Seq(X) /\ Len(d) = Len(a) + Len(b)
      /\ \A i \in 1..(Len(a) + Len(b)) : d[i] = IF i <= Len(a) THEN a[i] ELSE b[i - Len(a)]
  BY <1>2, <1>3, ConcatProperties
<1> HIDE DEF d
<1>7. ASSUME NEW i \in 1..(l + k) PROVE c[i] = d[i]
  <2>1. CASE i <= l
    <3>1. i \in 1..l
      BY <1>1, <2>1
    <3>2. w[i] = s[i] /\ d[i] = a[i]
      BY <1>1, <1>2, <1>3, <1>6, <2>1
    <3> QED BY <1>2, <1>4, <3>1, <3>2
  <2>2. CASE ~(i <= l)
    <3>1. i - l \in 1..k
      BY <1>1, <2>2
    <3>2. w[i] = t[i - l] /\ d[i] = b[i - l]
      BY <1>1, <1>2, <1>3, <1>6, <2>2
    <3> QED BY <1>3, <1>4, <3>1, <3>2
  <2> QED BY <2>1, <2>2
<1>8. Len(c) = Len(d) /\ \A i \in 1..Len(c) : c[i] = d[i]
  BY <1>2, <1>3, <1>4, <1>6, <1>7
<1>9. c = d
  BY <1>4, <1>6, <1>8, SeqEqual
<1> QED BY <1>2, <1>3, <1>4, <1>5, <1>9 DEF w

\* The ink of no symbol and of one.
LEMMA InkFew ==
    /\ Ink(<<>>) = <<>>
    /\ Ink(<<SP>>) = <<>>
    /\ \A x : x # SP => Ink(<<x>>) = <<x>>
<1>1. Ink(<<>>) = <<>>
  <2> DEFINE e == <<>>
  <2>1. e \in Seq(STRING) /\ Len(e) = 0
    OBVIOUS
  <2> HIDE DEF e
  <2>2. Ink(e) = FlattenSeq(InkAt(e)) /\ InkAt(e) \in Seq(Seq(STRING)) /\ Len(InkAt(e)) = 0
    BY <2>1, InkAtFacts
  <2> DEFINE g == InkAt(e)
  <2>3. Ink(e) = FlattenSeq(g) /\ g \in Seq(Seq(STRING)) /\ Len(g) = 0
    BY <2>2
  <2> HIDE DEF g
  <2>4. g = <<>>
    BY <2>3
  <2>5. Ink(e) = <<>>
    BY <2>3, <2>4, FlattenFew
  <2> QED BY <2>5 DEF e
<1>2. ASSUME NEW x PROVE Ink(<<x>>) = IF x = SP THEN <<>> ELSE <<x>>
  <2> DEFINE S == {x}
             t == <<x>>
             g == InkAt(t)
             v == IF x = SP THEN <<>> ELSE <<x>>
  <2>1. t \in Seq(S) /\ Len(t) = 1 /\ t[1] = x
    OBVIOUS
  <2> HIDE DEF t
  <2>2. /\ g \in Seq(Seq(S)) /\ Len(g) = Len(t) /\ Ink(t) = FlattenSeq(g)
        /\ \A i \in 1..Len(t) : g[i] = IF t[i] = SP THEN <<>> ELSE <<t[i]>>
    BY <2>1, InkAtFacts
  <2>3. v \in Seq(S)
    <3>1. x \in S
      OBVIOUS
    <3> HIDE DEF S
    <3>2. <<x>> \in Seq(S) /\ <<>> \in Seq(S)
      BY <3>1, One, EmptySeq
    <3> QED BY <3>2
  <2>4. g[1] = v
    BY <2>1, <2>2
  <2> HIDE DEF g, v
  <2>5. g = <<v>>
    BY <2>1, <2>2, <2>4
  <2>6. FlattenSeq(<<v>>) = v
    BY <2>3, FlattenFew
  <2> QED BY <2>2, <2>5, <2>6 DEF v, t
<1> QED BY <1>1, <1>2

\* Spaces leave nothing.
LEMMA InkOfSpaces ==
    ASSUME NEW t \in Seq(STRING), \A i \in 1..Len(t) : t[i] = SP
    PROVE  Ink(t) = <<>>
<1> DEFINE g == InkAt(t)
<1>1. /\ g \in Seq(Seq(STRING)) /\ Len(g) = Len(t) /\ Ink(t) = FlattenSeq(g)
      /\ \A i \in 1..Len(t) : g[i] = <<>>
  BY InkAtFacts
<1> HIDE DEF g
<1>2. Len(t) \in Nat /\ g = [i \in 1..Len(t) |-> g[i]] /\ \A i \in 1..Len(t) : g[i] \in {<<>>}
  BY <1>1
<1>3. g \in Seq({<<>>})
  BY <1>2, Listed
<1> QED BY <1>1, <1>3, NothingFlattens

\* A sequence of one.
LEMMA OneIs ==
    ASSUME NEW S, NEW s \in Seq(S), Len(s) = 1
    PROVE  s = <<s[1]>>
  OBVIOUS

\* The smallest of some numbers.
LEMMA MinFacts ==
    ASSUME NEW S, S \subseteq Nat, S # {}
    PROVE  Min(S) \in S /\ \A x \in S : Min(S) <= x
<1>1. \E m \in S : \A n \in S : m <= n
  BY Texts!LeastNatural
<1> QED BY <1>1 DEF Min

\* A text is its middle when both ends are spaces.
LEMMA InkOfMiddle ==
    ASSUME NEW t \in Seq(STRING), NEW m \in 1..Len(t), NEW k \in m..Len(t),
           \A i \in 1..(m - 1) : t[i] = SP, \A i \in (k + 1)..Len(t) : t[i] = SP
    PROVE  Ink(SubSeq(t, m, k)) = Ink(t)
<1> DEFINE a == SubSeq(t, 1, m - 1)
           b == SubSeq(t, m, k)
           c == SubSeq(t, k + 1, Len(t))
<1>1. /\ 1 \in 1..(Len(t) + 1) /\ m - 1 \in (1 - 1)..Len(t)
      /\ m \in 1..(Len(t) + 1) /\ k \in (m - 1)..Len(t) /\ m - 1 + 1 = m
      /\ k + 1 \in 1..(Len(t) + 1) /\ Len(t) \in (k + 1 - 1)..Len(t) /\ k + 1 - 1 = k
      /\ k \in (1 - 1)..Len(t) /\ Len(t) \in k..Len(t) /\ k \in (m - 1)..Len(t)
  OBVIOUS
<1>2. /\ a \in Seq(STRING) /\ Len(a) = m - 1
      /\ b \in Seq(STRING)
      /\ c \in Seq(STRING) /\ Len(c) = Len(t) - k
  <2>1. a \in Seq(STRING) /\ Len(a) = (m - 1) - 1 + 1
    BY <1>1, Part
  <2>2. b \in Seq(STRING)
    BY <1>1, Part
  <2>3. c \in Seq(STRING) /\ Len(c) = Len(t) - (k + 1) + 1
    BY <1>1, Part
  <2> HIDE DEF a, b, c
  <2> QED BY <2>1, <2>2, <2>3
<1>3. Ink(a) = <<>>
  <2>1. \A i \in 1..(m - 1) : a[i] = t[i]
    OBVIOUS
  <2> HIDE DEF a
  <2>2. \A i \in 1..Len(a) : a[i] = SP
    BY <1>2, <2>1
  <2> QED BY <1>2, <2>2, InkOfSpaces
<1>4. Ink(c) = <<>>
  <2>1. ASSUME NEW i \in 1..(Len(t) - k) PROVE c[i] = SP
    <3>1. c[i] = t[k + 1 + i - 1] /\ k + 1 + i - 1 \in (k + 1)..Len(t)
      OBVIOUS
    <3> QED BY <3>1
  <2> HIDE DEF c
  <2>2. \A i \in 1..Len(c) : c[i] = SP
    BY <1>2, <2>1
  <2> QED BY <1>2, <2>2, InkOfSpaces
<1>5. a \o b = SubSeq(t, 1, k)
  <2>1. SubSeq(t, 1, m - 1) \o SubSeq(t, (m - 1) + 1, k) = SubSeq(t, 1, k)
    <3>1. m - 1 \in (1 - 1)..Len(t) /\ k \in (m - 1)..Len(t)
      BY <1>1
    <3> QED BY <1>1, <3>1, ConcatAdjacentSubSeq, SMTT(40)
  <2>2. (m - 1) + 1 = m
    OBVIOUS
  <2> QED BY <2>1, <2>2, SMTT(40)
<1>6. SubSeq(t, 1, k) \o c = t
  <2>1. SubSeq(t, 1, k) \o SubSeq(t, k + 1, Len(t)) = SubSeq(t, 1, Len(t))
    BY <1>1, ConcatAdjacentSubSeq
  <2>2. SubSeq(t, 1, Len(t)) = t
    BY SubSeqFull
  <2> QED BY <2>1, <2>2
<1> HIDE DEF a, b, c
<1>7. a \o b \in Seq(STRING) /\ (a \o b) \o c = t
  BY <1>2, <1>5, <1>6
<1>8. Ink(t) = Ink(a \o b) \o Ink(c) /\ Ink(a \o b) = Ink(a) \o Ink(b)
  BY <1>2, <1>7, InkConcat
<1>9. Ink(b) \in Seq(STRING)
  BY <1>2, InkAtFacts
<1>10. Ink(t) = Ink(b)
  BY <1>3, <1>4, <1>8, <1>9, ConcatEmptySeq
<1> QED BY <1>10 DEF b

\* Trimming takes spaces away and nothing else.
LEMMA TrimFacts ==
    ASSUME NEW t \in Seq(STRING)
    PROVE  /\ TrimLeft(t) \in Seq(STRING) /\ Ink(TrimLeft(t)) = Ink(t)
           /\ Trim(t) \in Seq(STRING) /\ Ink(Trim(t)) = Ink(t)
           /\ Trim(t) # <<>> => SP \notin {Trim(t)[1], Last(Trim(t))}
<1> DEFINE S == InkOf(t)
           m == Min(S)
           k == Max(S)
<1>1. S = {i \in 1..Len(t) : t[i] # SP} /\ Len(t) \in Nat
  BY DEF InkOf
<1>2. CASE S = {}
  <2>1. \A i \in 1..Len(t) : t[i] = SP
    BY <1>1, <1>2
  <2>2. Ink(t) = <<>> /\ Ink(<<>>) = <<>>
    BY <2>1, InkOfSpaces, InkFew
  <2>3. TrimLeft(t) = <<>> /\ Trim(t) = <<>>
    BY <1>2 DEF TrimLeft, Trim
  <2> QED BY <2>2, <2>3, EmptySeq
<1>3. CASE S # {}
  <2>1. S \subseteq Nat /\ S \subseteq 0..Len(t)
    BY <1>1
  <2>2. m \in S /\ (\A x \in S : m <= x) /\ k \in S /\ \A x \in S : x <= k
    <3> HIDE DEF S
    <3> QED BY <1>1, <1>3, <2>1, MinFacts, MaxFacts
  <2> HIDE DEF m, k
  <2>3. /\ m \in 1..Len(t) /\ k \in m..Len(t) /\ Len(t) \in m..Len(t)
        /\ t[m] # SP /\ t[k] # SP
        /\ \A i \in 1..(m - 1) : t[i] = SP
        /\ \A i \in (k + 1)..Len(t) : t[i] = SP
    <3>1. m \in 1..Len(t) /\ k \in 1..Len(t) /\ t[m] # SP /\ t[k] # SP /\ m <= k
      BY <1>1, <2>2
    <3>2. ASSUME NEW i \in 1..Len(t), t[i] # SP PROVE m <= i /\ i <= k
      BY <1>1, <2>2, <3>2
    <3>3. \A i \in 1..(m - 1) : t[i] = SP
      BY <3>1, <3>2
    <3>4. \A i \in (k + 1)..Len(t) : t[i] = SP
      BY <3>1, <3>2
    <3> QED BY <3>1, <3>3, <3>4
  <2>4. TrimLeft(t) = SubSeq(t, m, Len(t)) /\ Trim(t) = SubSeq(t, m, k)
    BY <1>3 DEF TrimLeft, Trim, m, k
  <2>5. SubSeq(t, m, Len(t)) \in Seq(STRING)
    BY <2>3, Part
  <2>6. SubSeq(t, m, k) \in Seq(STRING) /\ Len(SubSeq(t, m, k)) = k - m + 1
    BY <2>3, Part
  <2>7. Ink(SubSeq(t, m, Len(t))) = Ink(t)
    <3>1. \A i \in (Len(t) + 1)..Len(t) : t[i] = SP
      BY <1>1
    <3> QED BY <2>3, <3>1, InkOfMiddle
  <2>8. Ink(SubSeq(t, m, k)) = Ink(t)
    BY <2>3, InkOfMiddle
  <2>9. SubSeq(t, m, k)[1] = t[m] /\ SubSeq(t, m, k)[k - m + 1] = t[k]
    <3>1. /\ 1 \in 1..(k - m + 1) /\ k - m + 1 \in 1..(k - m + 1)
          /\ m + 1 - 1 = m /\ m + (k - m + 1) - 1 = k
      BY <2>3
    <3>2. \A i \in 1..(k - m + 1) : SubSeq(t, m, k)[i] = t[m + i - 1]
      BY <2>3
    <3> QED BY <3>1, <3>2
  <2>10. SubSeq(t, m, k)[1] # SP /\ Last(SubSeq(t, m, k)) # SP
    BY <2>3, <2>6, <2>9 DEF Last
  <2> QED BY <2>4, <2>5, <2>6, <2>7, <2>8, <2>10
<1> QED BY <1>2, <1>3

\* What a trimmed text holds.
LEMMA TrimmedIs ==
    ASSUME NEW t \in Seq(STRING), t # <<>> => SP \notin {t[1], Last(t)}
    PROVE  /\ Ink(t) = <<>> => t = <<>>
           /\ \A x : Ink(t) = <<x>> => t = <<x>>
           /\ \A x : x # SP /\ t = <<x>> => Ink(t) = <<x>>
<1> DEFINE k == Len(t)
<1>1. k \in Nat /\ (t # <<>> => k >= 1 /\ t[1] # SP /\ t[k] # SP)
  BY DEF Last
<1>2. CASE t = <<>>
  <2>1. Ink(t) = <<>>
    BY <1>2, InkFew
  <2> QED BY <1>2, <2>1
<1>3. CASE k = 1
  <2>1. t = <<t[1]>> /\ t[1] # SP
    BY <1>1, <1>3
  <2>2. Ink(t) = <<t[1]>>
    <3> DEFINE y == t[1]
    <3>1. t = <<y>> /\ y # SP
      BY <2>1
    <3> HIDE DEF y
    <3>2. Ink(t) = <<y>>
      BY <3>1, InkFew
    <3> QED BY <3>2 DEF y
  <2> QED BY <2>1, <2>2
<1>4. CASE k >= 2
  <2> DEFINE a == SubSeq(t, 1, 1)
             b == SubSeq(t, 2, k - 1)
             c == SubSeq(t, k, k)
  <2>1. /\ a \in Seq(STRING) /\ b \in Seq(STRING) /\ c \in Seq(STRING)
        /\ a = <<t[1]>> /\ c = <<t[k]>>
    <3>1. /\ 1 \in 1..(Len(t) + 1) /\ 1 \in (1 - 1)..Len(t)
          /\ 2 \in 1..(Len(t) + 1) /\ k - 1 \in (2 - 1)..Len(t)
          /\ k \in 1..(Len(t) + 1) /\ k \in (k - 1)..Len(t)
      BY <1>1, <1>4
    <3>2. a \in Seq(STRING) /\ Len(a) = 1 - 1 + 1 /\ b \in Seq(STRING)
      BY <3>1, Part
    <3>3. c \in Seq(STRING) /\ Len(c) = k - k + 1
      BY <3>1, Part
    <3>4. a[1] = t[1]
      BY <1>1, <1>4
    <3>5. c[1] = t[k]
      <4>1. 1 \in 1..(k - k + 1) /\ k + 1 - 1 = k
        BY <1>1
      <4>2. \A i \in 1..(k - k + 1) : c[i] = t[k + i - 1]
        BY <1>1, <1>4
      <4> QED BY <4>1, <4>2
    <3>6. Len(a) = 1 /\ Len(c) = 1
      BY <1>1, <3>2, <3>3
    <3> HIDE DEF a, b, c, k
    <3>7. a = <<a[1]>> /\ c = <<c[1]>>
      BY <3>2, <3>3, <3>6, OneIs
    <3> QED BY <3>2, <3>3, <3>4, <3>5, <3>7
  <2>2. a \o b = SubSeq(t, 1, k - 1) /\ SubSeq(t, 1, k - 1) \o c = t
    <3>1. /\ 1 \in 1..(Len(t) + 1) /\ 1 \in (1 - 1)..Len(t) /\ k - 1 \in 1..Len(t)
          /\ k - 1 \in (1 - 1)..Len(t) /\ Len(t) \in (k - 1)..Len(t)
      BY <1>1, <1>4
    <3>2. SubSeq(t, 1, 1) \o SubSeq(t, 1 + 1, k - 1) = SubSeq(t, 1, k - 1)
      BY <3>1, ConcatAdjacentSubSeq
    <3>3. SubSeq(t, 1, k - 1) \o SubSeq(t, (k - 1) + 1, Len(t)) = SubSeq(t, 1, Len(t))
      BY <3>1, ConcatAdjacentSubSeq
    <3>4. SubSeq(t, 1, Len(t)) = t /\ (k - 1) + 1 = k /\ 1 + 1 = 2
      BY <1>1, SubSeqFull
    <3> QED BY <3>2, <3>3, <3>4
  <2> HIDE DEF a, b, c
  <2>3. a \o b \in Seq(STRING) /\ (a \o b) \o c = t
    <3>1. a \o b \in Seq(STRING)
      BY <2>1, ConcatProperties
    <3> QED BY <2>2, <3>1
  <2>4. Ink(t) = (Ink(a) \o Ink(b)) \o Ink(c)
    <3>1. Ink(a \o b) = Ink(a) \o Ink(b)
      BY <2>1, InkConcat
    <3> DEFINE d == a \o b
    <3>2. d \in Seq(STRING) /\ d \o c = t
      BY <2>3
    <3> HIDE DEF d
    <3>3. Ink(d \o c) = Ink(d) \o Ink(c)
      BY <2>1, <3>2, InkConcat
    <3> QED BY <3>1, <3>2, <3>3 DEF d
  <2>5. Ink(a) = a /\ Ink(c) = c
    <3> DEFINE y == t[1]
               z == t[k]
    <3>1. a = <<y>> /\ c = <<z>> /\ y # SP /\ z # SP
      BY <1>1, <1>4, <2>1
    <3> HIDE DEF y, z
    <3> QED BY <3>1, InkFew
  <2>6. Ink(b) \in Seq(STRING)
    BY <2>1, InkAtFacts
  <2>7. Len(a) = 1 /\ Len(c) = 1
    BY <2>1
  <2>8. Len(Ink(t)) >= 2
    <3> DEFINE i == Ink(b)
    <3>1. a \o i \in Seq(STRING) /\ Len(a \o i) = Len(a) + Len(i) /\ Len(i) \in Nat
      BY <2>1, <2>6, ConcatProperties
    <3>2. Len((a \o i) \o c) = Len(a \o i) + Len(c)
      BY <2>1, <3>1, ConcatProperties
    <3> QED BY <2>4, <2>5, <2>7, <3>1, <3>2
  <2>9. Ink(t) # <<>> /\ \A x : Ink(t) # <<x>>
    <3> DEFINE i == Ink(t)
    <3>1. Len(i) >= 2
      BY <2>8
    <3> HIDE DEF i
    <3>5. i \in Seq(STRING)
      BY InkAtFacts DEF i
    <3>2. Len(i) # 0 /\ Len(i) # 1
      BY <3>1, <3>5
    <3>3. Len(<<>>) = 0 /\ \A x : Len(<<x>>) = 1
      OBVIOUS
    <3>4. i # <<>> /\ \A x : i # <<x>>
      BY <3>2, <3>3, Zenon
    <3> QED BY <3>4 DEF i
  <2>10. \A x : t # <<x>>
    <3>1. Len(t) # 1
      BY <1>1, <1>4
    <3>2. \A x : Len(<<x>>) = 1
      OBVIOUS
    <3> QED BY <3>1, <3>2, Zenon
  <2> QED BY <2>9, <2>10
<1>5. t = <<>> \/ k = 1 \/ k >= 2
  <2> HIDE DEF k
  <2> QED BY <1>1
<1> QED BY <1>2, <1>3, <1>4, <1>5

-----------------------------------------------------------------------------
(* ParseHeader's loop over a block.                                        *)

\* How a line that was sent is classified.
LEMMA SentLine ==
    ASSUME NEW x \in Symbols, NEW p \in Seq(Symbols)
    PROVE  LET y == <<x>> \o p \o EndOfLine
           IN  /\ y \in BlockLines /\ y \in Seq(STRING) /\ y[1] = x /\ Rest(y) = p
               /\ Sound(y) <=> x # NUL /\ ~Contains(p, NUL)
<1> DEFINE y == <<x>> \o p \o EndOfLine
           w == <<x>>
           z == w \o p
<1>1. /\ y \in BlockLines /\ Len(y) = Len(p) + 3 /\ y[1] = x
      /\ \A i \in 1..Len(p) : y[i + 1] = p[i]
      /\ WithoutEnd(y) = <<x>> \o p /\ EndsLine(y)
  BY LineMade
<1>2. w \in Seq(Symbols) /\ Len(w) = 1 /\ w[1] = x /\ w # <<>>
  OBVIOUS
<1>3. p \in Seq(Symbols) /\ Len(p) \in Nat
  OBVIOUS
<1> HIDE DEF y, w
<1>4. z \in Seq(Symbols) /\ Len(z) = 1 + Len(p)
      /\ \A i \in 1..(1 + Len(p)) : z[i] = IF i <= 1 THEN w[i] ELSE p[i - 1]
  <2>1. z \in Seq(Symbols)
    BY <1>2, <1>3, ConcatProperties
  <2>2. Len(z) = Len(w) + Len(p)
    BY <1>2, <1>3, ConcatProperties
  <2>3. \A i \in 1..(Len(w) + Len(p)) : z[i] = IF i <= Len(w) THEN w[i] ELSE p[i - Len(w)]
    BY <1>2, <1>3, ConcatProperties
  <2> HIDE DEF z
  <2> QED BY <1>2, <2>1, <2>2, <2>3
<1> HIDE DEF z
<1>5. WithoutEnd(y) = z
  BY <1>1 DEF z, w
<1>6. Tail(z) = p
  <2>1. Tail(z) \in Seq(Symbols) /\ Len(Tail(z)) = Len(p)
    BY <1>3, <1>4
  <2>2. ASSUME NEW i \in 1..Len(p) PROVE Tail(z)[i] = p[i]
    <3>1. Tail(z)[i] = z[i + 1]
      BY <1>3, <1>4
    <3>2. i + 1 \in 1..(1 + Len(p)) /\ ~(i + 1 <= 1) /\ (i + 1) - 1 = i
      BY <1>3
    <3> QED BY <1>4, <3>1, <3>2
  <2> QED BY <1>3, <2>1, <2>2, SeqEqual
<1>7. Rest(y) = p
  BY <1>5, <1>6 DEF Rest
<1>8. DOMAIN z = 1..(1 + Len(p)) /\ Len(y) > 2
  BY <1>1, <1>3, <1>4
<1>9. (\A i \in 1..(1 + Len(p)) : y[i] \notin {CR, LF, NUL}) <=> x # NUL /\ ~Contains(p, NUL)
  <2>1. x \notin {CR, LF} /\ \A i \in 1..Len(p) : p[i] \notin {CR, LF}
    <3>1. \A i \in 1..Len(p) : p[i] \in Symbols
      OBVIOUS
    <3> QED BY <3>1 DEF Symbols
  <2>2. \A i \in 1..(1 + Len(p)) : i = 1 \/ (i - 1 \in 1..Len(p) /\ (i - 1) + 1 = i)
    BY <1>3
  <2>3. 1 \in 1..(1 + Len(p)) /\ \A i \in 1..Len(p) : i + 1 \in 1..(1 + Len(p))
    BY <1>3
  <2>4. ASSUME x # NUL, ~Contains(p, NUL), NEW i \in 1..(1 + Len(p))
        PROVE  y[i] \notin {CR, LF, NUL}
    <3>1. CASE i = 1
      BY <1>1, <2>1, <2>4, <3>1
    <3>2. CASE i - 1 \in 1..Len(p) /\ (i - 1) + 1 = i
      <4>1. y[i] = p[i - 1]
        BY <1>1, <3>2
      <4>2. p[i - 1] # NUL
        BY <2>4, <3>2 DEF Contains
      <4> QED BY <2>1, <3>2, <4>1, <4>2
    <3> QED BY <2>2, <3>1, <3>2
  <2>5. ASSUME \A i \in 1..(1 + Len(p)) : y[i] \notin {CR, LF, NUL}
        PROVE  x # NUL /\ ~Contains(p, NUL)
    <3>1. x # NUL
      BY <1>1, <2>3, <2>5
    <3>2. \A i \in 1..Len(p) : p[i] # NUL
      BY <1>1, <2>3, <2>5
    <3> QED BY <3>1, <3>2 DEF Contains
  <2> QED BY <2>4, <2>5
<1>10. Sound(y) <=> x # NUL /\ ~Contains(p, NUL)
  <2>1. Sound(y) <=> \A i \in 1..(1 + Len(p)) : y[i] \notin {CR, LF, NUL}
    BY <1>1, <1>5, <1>8 DEF Sound
  <2> QED BY <1>9, <2>1
<1>11. y \in Seq(STRING)
  BY <1>1 DEF BlockLines
<1> QED BY <1>1, <1>7, <1>10, <1>11 DEF y

\* What the loop keeps, whatever the lines.
Stores == [ok : BOOLEAN, order : Seq(FieldNames), values : [FieldNames -> Seq(Seq(STRING))]]
Accs == {a \in [h : Stores, last : FieldNames \cup {SP}] :
           a.last # SP => a.h.values[a.last] # <<>>}

\* What a field line adds.
LEMMA FieldStep ==
    ASSUME NEW h \in Stores, NEW name \in FieldNames, NEW v \in Seq(STRING)
    PROVE  /\ WithField(h, name, v) \in Stores
           /\ WithField(h, name, v).ok = h.ok
           /\ WithField(h, name, v).order =
                 IF h.values[name] = <<>> THEN Append(h.order, name) ELSE h.order
           /\ WithField(h, name, v).values = [h.values EXCEPT ![name] = Append(@, v)]
<1>1. h.values[name] \in Seq(Seq(STRING)) /\ h.order \in Seq(FieldNames)
  BY DEF Stores
<1>2. Append(h.values[name], v) \in Seq(Seq(STRING)) /\ Append(h.order, name) \in Seq(FieldNames)
  BY <1>1
<1> QED BY <1>2 DEF WithField, Stores

\* What a continuation line adds.
LEMMA FoldStep ==
    ASSUME NEW h \in Stores, NEW name \in FieldNames, NEW v \in Seq(STRING),
           h.values[name] # <<>>
    PROVE  LET vs == h.values[name]
               w == vs[Len(vs)] \o <<SP>> \o TrimLeft(v)
           IN  /\ WithFold(h, name, v) \in Stores
               /\ WithFold(h, name, v).ok = h.ok
               /\ WithFold(h, name, v).order = h.order
               /\ WithFold(h, name, v).values =
                     [h.values EXCEPT ![name] = [vs EXCEPT ![Len(vs)] = w]]
               /\ w \in Seq(STRING)
<1> DEFINE vs == h.values[name]
           n == Len(vs)
           t == TrimLeft(v)
           w == vs[n] \o <<SP>> \o t
           us == [vs EXCEPT ![n] = w]
<1>1. vs \in Seq(Seq(STRING)) /\ vs # <<>>
  BY DEF Stores
<1>2. n \in 1..n /\ vs[n] \in Seq(STRING)
  <2> HIDE DEF vs
  <2> QED BY <1>1
<1>3. t \in Seq(STRING) /\ <<SP>> \in Seq(STRING)
  BY TrimFacts, SymbolFacts
<1>4. w \in Seq(STRING)
  <2> HIDE DEF t, vs, n
  <2>1. vs[n] \o <<SP>> \in Seq(STRING)
    BY <1>2, <1>3, ConcatProperties
  <2> QED BY <1>3, <2>1, ConcatProperties
<1> HIDE DEF w
<1>5. us \in Seq(Seq(STRING))
  <2> HIDE DEF vs
  <2> QED BY <1>1, <1>4
<1>6. WithFold(h, name, v) = [h EXCEPT !.values = [h.values EXCEPT ![name] = us]]
  BY DEF WithFold, Stores, us, w, t, n, vs
<1> HIDE DEF us
<1>7. [h.values EXCEPT ![name] = us] \in [FieldNames -> Seq(Seq(STRING))]
  BY <1>5 DEF Stores
<1> DEFINE nv == [h.values EXCEPT ![name] = us]
<1> HIDE DEF nv
<1>8. /\ [h EXCEPT !.values = nv] \in Stores /\ [h EXCEPT !.values = nv].ok = h.ok
      /\ [h EXCEPT !.values = nv].order = h.order /\ [h EXCEPT !.values = nv].values = nv
  BY <1>7 DEF Stores, nv
<1> QED BY <1>4, <1>6, <1>8 DEF nv, us, w, t, n, vs

\* A line of neither kind makes the header bad, and no line makes it good again.
LEMMA LineStep ==
    ASSUME NEW a \in Accs, NEW y \in Seq(STRING)
    PROVE  /\ WithLine(a, y) \in Accs
           /\ ~a.h.ok => ~WithLine(a, y).h.ok
           /\ ~IsField(y) /\ (~IsFold(y) \/ a.last = SP) => ~WithLine(a, y).h.ok
<1>1. a \in [h : Stores, last : FieldNames \cup {SP}] /\ (a.last # SP => a.h.values[a.last] # <<>>)
  BY DEF Accs
<1>2. a.h \in Stores /\ a.last \in FieldNames \cup {SP}
  BY <1>1
<1>3. Sound(y) => Rest(y) \in Seq(STRING)
  <2>1. ASSUME Sound(y) PROVE Rest(y) \in Seq(STRING)
    <3>1. Len(y) > 2 /\ Len(y) \in Nat
      BY <2>1 DEF Sound
    <3>2. 1 \in 1..(Len(y) + 1) /\ Len(y) - 2 \in (1 - 1)..Len(y)
      BY <3>1
    <3>3. WithoutEnd(y) \in Seq(STRING) /\ Len(WithoutEnd(y)) = (Len(y) - 2) - 1 + 1
      BY <3>2, Part DEF WithoutEnd
    <3>4. WithoutEnd(y) # <<>>
      BY <3>1, <3>3
    <3> DEFINE z == WithoutEnd(y)
    <3>5. z \in Seq(STRING) /\ z # <<>>
      BY <3>3, <3>4
    <3> HIDE DEF z
    <3>6. Tail(z) \in Seq(STRING)
      BY <3>5
    <3> QED BY <3>6 DEF Rest, z
  <2> QED BY <2>1
<1>4. CASE IsField(y)
  <2> DEFINE name == y[1]
             h == WithField(a.h, name, Rest(y))
  <2>1. name \in FieldNames /\ Rest(y) \in Seq(STRING)
    BY <1>3, <1>4 DEF IsField
  <2>2. /\ h \in Stores /\ h.ok = a.h.ok
        /\ h.values = [a.h.values EXCEPT ![name] = Append(@, Rest(y))]
    <3> DEFINE g == a.h
               v == Rest(y)
               w == WithField(g, name, v)
    <3>1. g \in Stores /\ v \in Seq(STRING)
      BY <1>2, <2>1
    <3>0. h = w
      OBVIOUS
    <3> HIDE DEF name, g, v, h
    <3>2. w \in Stores /\ w.ok = g.ok /\ w.values = [g.values EXCEPT ![name] = Append(@, v)]
      <4> HIDE DEF w
      <4>0. name \in FieldNames
        BY <2>1
      <4>1. /\ WithField(g, name, v) \in Stores
            /\ WithField(g, name, v).ok = g.ok
            /\ WithField(g, name, v).values = [g.values EXCEPT ![name] = Append(@, v)]
        BY <3>1, <4>0, FieldStep, ZenonT(40)
      <4> QED BY <4>1 DEF w
    <3> HIDE DEF w
    <3> QED BY <3>0, <3>2 DEF g, v
  <2>3. WithLine(a, y) = [h |-> h, last |-> name]
    BY <1>4, Zenon DEF WithLine
  <2> HIDE DEF name, h
  <2>4. h.values[name] # <<>>
    <3>1. h.values[name] = Append(a.h.values[name], Rest(y))
      BY <1>2, <2>1, <2>2 DEF Stores
    <3> DEFINE ws == a.h.values[name]
               v == Rest(y)
    <3>2. ws \in Seq(Seq(STRING))
      BY <1>2, <2>1 DEF Stores
    <3> HIDE DEF ws, v
    <3>3. Len(Append(ws, v)) # 0 /\ Len(<<>>) = 0
      BY <3>2
    <3>4. Append(ws, v) # <<>>
      BY <3>3, Zenon
    <3> QED BY <3>1, <3>4 DEF ws, v
  <2>5. [h |-> h, last |-> name] \in Accs
    BY <2>1, <2>2, <2>4 DEF Accs
  <2>6. [h |-> h, last |-> name].h = h
    OBVIOUS
  <2> QED BY <1>4, <2>2, <2>3, <2>5, <2>6
<1>5. CASE ~IsField(y) /\ IsFold(y) /\ a.last # SP
  <2> DEFINE h == WithFold(a.h, a.last, Rest(y))
             name == a.last
             vs == a.h.values[name]
             us == [vs EXCEPT ![Len(vs)] = vs[Len(vs)] \o <<SP>> \o TrimLeft(Rest(y))]
  <2>1. Rest(y) \in Seq(STRING) /\ name \in FieldNames /\ vs # <<>>
    BY <1>1, <1>2, <1>3, <1>5 DEF IsFold
  <2>2. h \in Stores /\ h.ok = a.h.ok /\ h.values = [a.h.values EXCEPT ![name] = us]
    <3> DEFINE g == a.h
               v == Rest(y)
               m == name
    <3>1. g \in Stores /\ v \in Seq(STRING) /\ m \in FieldNames /\ g.values[m] # <<>>
      BY <1>2, <2>1
    <3> HIDE DEF g, v, m
    <3>2. LET ts == g.values[m]
              w == ts[Len(ts)] \o <<SP>> \o TrimLeft(v)
          IN  /\ WithFold(g, m, v) \in Stores /\ WithFold(g, m, v).ok = g.ok
              /\ WithFold(g, m, v).values = [g.values EXCEPT ![m] = [ts EXCEPT ![Len(ts)] = w]]
      BY <3>1, FoldStep, ZenonT(40)
    <3> QED BY <3>2, ZenonT(40) DEF g, v, m
  <2>3. WithLine(a, y) = [a EXCEPT !.h = h]
    BY <1>5, Zenon DEF WithLine
  <2>8. vs \in Seq(Seq(STRING))
    BY <1>2, <2>1 DEF Stores
  <2> HIDE DEF vs
  <2>9. us # <<>>
    <3>1. Len(us) = Len(vs) /\ Len(vs) # 0
      BY <2>1, <2>8
    <3> HIDE DEF us
    <3>2. Len(<<>>) = 0
      OBVIOUS
    <3> QED BY <3>1, <3>2, Zenon
  <2> HIDE DEF h, us
  <2>4. [a EXCEPT !.h = h] \in [h : Stores, last : FieldNames \cup {SP}]
        /\ [a EXCEPT !.h = h].h = h /\ [a EXCEPT !.h = h].last = a.last
    BY <1>1, <2>2
  <2>5. h.values[name] = us
    BY <1>2, <2>1, <2>2 DEF Stores
  <2>6. h.values[a.last] # <<>>
    BY <2>5, <2>9
  <2>7. [a EXCEPT !.h = h] \in Accs
    BY <2>4, <2>6 DEF Accs
  <2> QED BY <1>5, <2>2, <2>3, <2>4, <2>7
<1>6. CASE ~IsField(y) /\ ~(IsFold(y) /\ a.last # SP)
  <2> DEFINE h == [a.h EXCEPT !.ok = FALSE]
  <2>1. WithLine(a, y) = [a EXCEPT !.h.ok = FALSE]
    BY <1>6, Zenon DEF WithLine
  <2>2. [a EXCEPT !.h.ok = FALSE] = [a EXCEPT !.h = h]
    BY <1>1
  <2>3. h \in Stores /\ h.ok = FALSE /\ h.values = a.h.values
    BY <1>2 DEF Stores
  <2> HIDE DEF h
  <2>4. [a EXCEPT !.h = h] \in [h : Stores, last : FieldNames \cup {SP}]
        /\ [a EXCEPT !.h = h].h = h /\ [a EXCEPT !.h = h].last = a.last
    BY <1>1, <2>3
  <2>5. [a EXCEPT !.h = h] \in Accs
    BY <1>1, <2>3, <2>4 DEF Accs
  <2> QED BY <2>1, <2>2, <2>3, <2>4, <2>5
<1> QED BY <1>4, <1>5, <1>6

\* Whatever the lines, the loop keeps its shape.
LEMMA GatheredAccs ==
    \A s \in Seq(Seq(STRING)) : Gathered(s) \in Accs
<1> DEFINE X == Seq(STRING)
           P == {s \in Seq(X) : Gathered(s) \in Accs}
<1>1. <<>> \in P
  <2>1. NoHeader \in Stores /\ SP \notin FieldNames
    BY FieldNamesAssumption DEF NoHeader, Stores
  <2>2. Begun \in Accs
    BY <2>1 DEF Begun, Accs
  <2> QED BY <2>2, GatheredAppend
<1>2. ASSUME NEW s \in Seq(X), NEW x \in X, s \in P PROVE Append(s, x) \in P
  <2>1. Append(s, x) \in Seq(X)
    <3> HIDE DEF X
    <3> QED OBVIOUS
  <2>2. Gathered(Append(s, x)) = WithLine(Gathered(s), x)
    BY GatheredAppend
  <2>3. Gathered(s) \in Accs /\ x \in Seq(STRING)
    BY <1>2
  <2>4. WithLine(Gathered(s), x) \in Accs
    BY <2>3, LineStep
  <2> QED BY <2>1, <2>2, <2>4
<1> HIDE DEF P, X
<1>3. Seq(X) \subseteq P
  BY <1>1, <1>2, Texts!SeqInduction
<1> QED BY <1>3 DEF P, X

\* What a field makes of the loop's state: a value more, or a bad line.
Took(a, f, b) ==
    IF a.h.ok /\ ~BadField(f)
    THEN /\ b.h.ok /\ b.last = f.name
         /\ b.h.order = IF a.h.values[f.name] = <<>> THEN Append(a.h.order, f.name)
                                                     ELSE a.h.order
         /\ \E w \in Seq(STRING) :
               /\ Ink(w) = Ink(FlattenSeq(f.parts))
               /\ b.h.values = [a.h.values EXCEPT ![f.name] = Append(@, w)]
    ELSE ~b.h.ok

\* The first line of a field.
LEMMA FirstLine ==
    ASSUME NEW a \in Accs, NEW name \in Symbols \ {SP}, NEW p \in Seq(Symbols)
    PROVE  Took(a, [name |-> name, parts |-> <<p>>],
                WithLine(a, <<name>> \o p \o EndOfLine))
<1> DEFINE f == [name |-> name, parts |-> <<p>>]
           y == <<name>> \o p \o EndOfLine
           b == WithLine(a, y)
<1>1. /\ y \in Seq(STRING) /\ y[1] = name /\ Rest(y) = p
      /\ Sound(y) <=> name # NUL /\ ~Contains(p, NUL)
  BY SentLine
<1>2. f.name = name /\ f.parts = <<p>> /\ DOMAIN f.parts = {1} /\ f.parts[1] = p
  OBVIOUS
<1>3. FlattenSeq(f.parts) = p
  BY <1>2, FlattenFew
<1>4. BadField(f) <=> name \notin FieldNames \/ Contains(p, NUL)
  BY <1>2 DEF BadField
<1>5. a.h \in Stores /\ p \in Seq(STRING)
  <2>1. p \in Seq(STRING)
    BY SymbolFacts, SeqMonotonic
  <2> QED BY <2>1 DEF Accs
<1> HIDE DEF y, f
<1>6. ASSUME a.h.ok, ~BadField(f) PROVE Took(a, f, b)
  <2>1. name \in FieldNames /\ ~Contains(p, NUL) /\ name # NUL
    BY <1>4, <1>6, FieldNamesAssumption
  <2>2. IsField(y)
    BY <1>1, <2>1 DEF IsField
  <2>3. b = [h |-> WithField(a.h, name, p), last |-> name]
    BY <1>1, <2>2, Zenon DEF WithLine
  <2> DEFINE g == a.h
             h == WithField(g, name, p)
  <2>4. g \in Stores
    BY <1>5
  <2>5. b.h = h /\ b.last = name
    BY <2>3
  <2> HIDE DEF g, b
  <2>6. /\ h \in Stores
        /\ h.ok = g.ok
        /\ h.order = IF g.values[name] = <<>> THEN Append(g.order, name) ELSE g.order
        /\ h.values = [g.values EXCEPT ![name] = Append(@, p)]
    <3> HIDE DEF h
    <3>1. name \in FieldNames /\ p \in Seq(STRING)
      BY <1>5, <2>1
    <3>2. /\ WithField(g, name, p) \in Stores
          /\ WithField(g, name, p).ok = g.ok
          /\ WithField(g, name, p).order =
               IF g.values[name] = <<>> THEN Append(g.order, name) ELSE g.order
          /\ WithField(g, name, p).values = [g.values EXCEPT ![name] = Append(@, p)]
      BY <2>4, <3>1, FieldStep, ZenonT(40)
    <3> QED BY <3>2, ZenonT(40) DEF h
  <2> HIDE DEF h
  <2>7. Ink(p) = Ink(FlattenSeq(f.parts))
    BY <1>3
  <2>8. b.h.ok
    BY <1>6, <2>5, <2>6 DEF g
  <2>9. b.h.order = IF a.h.values[f.name] = <<>> THEN Append(a.h.order, f.name) ELSE a.h.order
    BY <1>2, <2>5, <2>6 DEF g
  <2>10. b.h.values = [a.h.values EXCEPT ![f.name] = Append(@, p)]
    BY <1>2, <2>5, <2>6 DEF g
  <2> QED BY <1>2, <1>5, <1>6, <2>5, <2>7, <2>8, <2>9, <2>10 DEF Took
<1>7. ASSUME ~(a.h.ok /\ ~BadField(f)) PROVE ~b.h.ok
  <2>1. CASE ~a.h.ok
    BY <1>1, <2>1, LineStep
  <2>2. CASE BadField(f)
    <3>1. ~IsField(y)
      BY <1>1, <1>4, <2>2 DEF IsField
    <3>2. ~IsFold(y)
      BY <1>1 DEF IsFold
    <3> QED BY <1>1, <3>1, <3>2, LineStep
  <2> QED BY <1>7, <2>1, <2>2
<1>8. Took(a, f, b)
  BY <1>6, <1>7 DEF Took
<1> QED BY <1>8 DEF f, y

\* The last value of a field, replaced.
LEMMA LastReplaced ==
    ASSUME NEW S, NEW s \in Seq(S), NEW x \in S, NEW y \in S
    PROVE  [Append(s, x) EXCEPT ![Len(s) + 1] = y] = Append(s, y)
<1> DEFINE t == [Append(s, x) EXCEPT ![Len(s) + 1] = y]
           u == Append(s, y)
<1>1. t \in Seq(S) /\ Len(t) = Len(s) + 1 /\ t[Len(s) + 1] = y /\ \A i \in 1..Len(s) : t[i] = s[i]
  <2> DEFINE a == Append(s, x)
             n == Len(s) + 1
             b == [a EXCEPT ![n] = y]
  <2>1. a \in Seq(S) /\ Len(a) = n /\ n \in Nat /\ n \in 1..n /\ \A i \in 1..Len(s) : a[i] = s[i]
    OBVIOUS
  <2>2. \A i \in 1..Len(s) : i # n /\ i \in 1..n
    OBVIOUS
  <2> HIDE DEF a, n
  <2>3. DOMAIN a = 1..n /\ \A i \in 1..n : a[i] \in S
    BY <2>1
  <2>4. DOMAIN b = 1..n /\ b[n] = y /\ \A i \in 1..n : i # n => b[i] = a[i]
    BY <2>1, <2>3
  <2>5. b = [i \in 1..n |-> b[i]]
    BY <2>3
  <2> HIDE DEF b
  <2>6. \A i \in 1..n : b[i] \in S
    BY <2>3, <2>4
  <2>7. b \in Seq(S) /\ Len(b) = n
    BY <2>1, <2>5, <2>6, Listed
  <2> QED BY <2>1, <2>2, <2>4, <2>7 DEF b, n, a
<1>2. u \in Seq(S) /\ Len(u) = Len(s) + 1 /\ u[Len(s) + 1] = y /\ \A i \in 1..Len(s) : u[i] = s[i]
  OBVIOUS
<1>3. Len(s) \in Nat
  OBVIOUS
<1> HIDE DEF t, u
<1>4. \A i \in 1..Len(t) : t[i] = u[i]
  BY <1>1, <1>2, <1>3
<1>5. t = u
  BY <1>1, <1>2, <1>4, SeqEqual
<1> QED BY <1>5 DEF t, u

\* A continuation line.
LEMMA NextLine ==
    ASSUME NEW a \in Accs, NEW b \in Accs, NEW name \in Symbols \ {SP},
           NEW ps \in Seq(Seq(Symbols)), NEW p \in Seq(Symbols),
           Took(a, [name |-> name, parts |-> ps], b)
    PROVE  Took(a, [name |-> name, parts |-> Append(ps, p)],
                WithLine(b, <<SP>> \o p \o EndOfLine))
<1> DEFINE f == [name |-> name, parts |-> ps]
           g == [name |-> name, parts |-> Append(ps, p)]
           y == <<SP>> \o p \o EndOfLine
           c == WithLine(b, y)
<1>1. /\ y \in Seq(STRING) /\ y[1] = SP /\ Rest(y) = p
      /\ Sound(y) <=> SP # NUL /\ ~Contains(p, NUL)
  BY SentLine, SymbolFacts
<1>2. f.name = name /\ f.parts = ps /\ g.name = name /\ g.parts = Append(ps, p)
  OBVIOUS
<1>3. BadField(g) <=> BadField(f) \/ Contains(p, NUL)
  <2> DEFINE qs == Append(ps, p)
             n == Len(ps)
  <2>1. DOMAIN qs = 1..(n + 1) /\ DOMAIN ps = 1..n /\ n \in Nat
    OBVIOUS
  <2>2. qs[n + 1] = p /\ \A i \in 1..n : qs[i] = ps[i]
    OBVIOUS
  <2> HIDE DEF qs, n
  <2>3. n + 1 \in 1..(n + 1) /\ 1..n \subseteq 1..(n + 1)
        /\ \A i \in 1..(n + 1) : i \in 1..n \/ i = n + 1
    BY <2>1
  <2>4. (\E i \in DOMAIN qs : Contains(qs[i], NUL))
          <=> (\E i \in DOMAIN ps : Contains(ps[i], NUL)) \/ Contains(p, NUL)
    <3>1. ASSUME NEW i \in DOMAIN qs, Contains(qs[i], NUL)
          PROVE  (\E j \in DOMAIN ps : Contains(ps[j], NUL)) \/ Contains(p, NUL)
      BY <2>1, <2>2, <2>3, <3>1
    <3>2. ASSUME NEW i \in DOMAIN ps, Contains(ps[i], NUL)
          PROVE  \E j \in DOMAIN qs : Contains(qs[j], NUL)
      <4>1. i \in DOMAIN qs /\ qs[i] = ps[i]
        BY <2>1, <2>2, <2>3
      <4> QED BY <3>2, <4>1
    <3>3. ASSUME Contains(p, NUL) PROVE \E j \in DOMAIN qs : Contains(qs[j], NUL)
      <4>1. n + 1 \in DOMAIN qs /\ qs[n + 1] = p
        BY <2>1, <2>2, <2>3
      <4> QED BY <3>3, <4>1
    <3> QED BY <3>1, <3>2, <3>3
  <2> QED BY <1>2, <2>4 DEF BadField, qs
<1>4. FlattenSeq(g.parts) = FlattenSeq(f.parts) \o p /\ FlattenSeq(f.parts) \in Seq(Symbols)
  BY <1>2, FlattenFacts
<1>5. /\ a.h \in Stores /\ b.h \in Stores /\ p \in Seq(STRING) /\ a.last \in FieldNames \cup {SP}
      /\ b.last \in FieldNames \cup {SP}
      /\ (b.last # SP => b.h.values[b.last] # <<>>)
      /\ b \in [h : Stores, last : FieldNames \cup {SP}]
  <2>1. p \in Seq(STRING)
    BY SymbolFacts, SeqMonotonic
  <2> QED BY <2>1 DEF Accs
<1>6. Took(a, f, b)
  OBVIOUS
<1> HIDE DEF y, f, g, c
<1>7. ASSUME a.h.ok, ~BadField(g) PROVE Took(a, g, c)
  <2>1. ~BadField(f) /\ ~Contains(p, NUL)
    BY <1>3, <1>7
  <2>2. name \in FieldNames /\ name # SP
    BY <1>2, <2>1 DEF BadField
  <2>3. /\ b.h.ok /\ b.last = name
        /\ b.h.order = IF a.h.values[name] = <<>> THEN Append(a.h.order, name) ELSE a.h.order
        /\ \E w \in Seq(STRING) :
              /\ Ink(w) = Ink(FlattenSeq(f.parts))
              /\ b.h.values = [a.h.values EXCEPT ![name] = Append(@, w)]
    BY <1>2, <1>6, <1>7, <2>1 DEF Took
  <2>4. PICK w \in Seq(STRING) :
              /\ Ink(w) = Ink(FlattenSeq(f.parts))
              /\ b.h.values = [a.h.values EXCEPT ![name] = Append(@, w)]
    BY <2>3
  <2>5. Sound(y) /\ ~IsField(y) /\ IsFold(y)
    <3>1. SP # NUL /\ SP \notin FieldNames
      BY FieldNamesAssumption DEF SP, NUL
    <3> QED BY <1>1, <2>1, <3>1 DEF IsField, IsFold
  <2> DEFINE h == b.h
             vs == h.values[name]
             n == Len(vs)
             t == TrimLeft(p)
             x == vs[n] \o <<SP>> \o t
             us == a.h.values[name]
             k == WithFold(h, name, p)
  <2>6. c = [b EXCEPT !.h = k]
    BY <1>1, <2>2, <2>3, <2>5, Zenon DEF WithLine, c
  <2>7. h \in Stores /\ vs # <<>> /\ h.values[name] # <<>>
    BY <1>5, <2>2, <2>3
  <2>8. /\ k \in Stores /\ k.ok = h.ok /\ k.order = h.order
        /\ k.values = [h.values EXCEPT ![name] = [vs EXCEPT ![n] = x]]
        /\ x \in Seq(STRING)
    <3>0. h \in Stores /\ name \in FieldNames /\ p \in Seq(STRING) /\ h.values[name] # <<>>
      BY <1>5, <2>2, <2>7
    <3> HIDE DEF h, vs, n, x, k, t
    <3>1. LET ts == h.values[name]
              u == ts[Len(ts)] \o <<SP>> \o TrimLeft(p)
          IN  /\ WithFold(h, name, p) \in Stores
              /\ WithFold(h, name, p).ok = h.ok
              /\ WithFold(h, name, p).order = h.order
              /\ WithFold(h, name, p).values = [h.values EXCEPT ![name] = [ts EXCEPT ![Len(ts)] = u]]
              /\ u \in Seq(STRING)
      BY <3>0, FoldStep
    <3> QED BY <3>1, Zenon DEF vs, n, x, k, t
  <2>9. us \in Seq(Seq(STRING)) /\ vs = Append(us, w)
    <3>1. a.h.values \in [FieldNames -> Seq(Seq(STRING))]
      BY <1>5 DEF Stores
    <3> QED BY <2>2, <2>4, <3>1
  <2>10. n = Len(us) + 1 /\ vs[n] = w
    <3> HIDE DEF us
    <3> QED BY <2>9
  <2>11. c.h = k /\ c.last = name
    BY <1>5, <2>3, <2>6
  <2> HIDE DEF k, x
  <2>12. [vs EXCEPT ![n] = x] = Append(us, x)
    <3> DEFINE X == Seq(STRING)
    <3>1. us \in Seq(X) /\ x \in X /\ w \in X /\ vs = Append(us, w) /\ n = Len(us) + 1
      BY <2>8, <2>9, <2>10
    <3> HIDE DEF X, us, vs, n
    <3>2. [Append(us, w) EXCEPT ![Len(us) + 1] = x] = Append(us, x)
      BY <3>1, LastReplaced
    <3> QED BY <3>1, <3>2
  <2>13. k.values = [a.h.values EXCEPT ![name] = Append(@, x)]
    <3> DEFINE av == a.h.values
               ux == Append(us, x)
    <3>1. av \in [FieldNames -> Seq(Seq(STRING))]
      BY <1>5 DEF Stores
    <3>2. k.values = [[av EXCEPT ![name] = Append(@, w)] EXCEPT ![name] = ux]
      BY <2>4, <2>8, <2>12
    <3>3. ux = Append(av[name], x)
      OBVIOUS
    <3> HIDE DEF av, ux
    <3> QED BY <2>2, <3>1, <3>2, <3>3 DEF av
  <2>14. Ink(x) = Ink(FlattenSeq(g.parts))
    <3> DEFINE q == FlattenSeq(f.parts)
               s == <<SP>>
               ws == w \o s
    <3>1. t \in Seq(STRING) /\ Ink(t) = Ink(p)
      BY <1>5, TrimFacts
    <3>2. s \in Seq(STRING) /\ Ink(s) = <<>>
      BY SymbolFacts, InkFew
    <3>3. q \in Seq(STRING)
      BY <1>4, SymbolFacts, SeqMonotonic
    <3>0. x = ws \o t
      BY <2>10 DEF x
    <3> HIDE DEF t, s, q
    <3>4. ws \in Seq(STRING) /\ Ink(ws) = Ink(w) \o Ink(s)
      BY <3>2, InkConcat, ConcatProperties
    <3>5. Ink(ws) = Ink(w)
      <4>1. Ink(w) \in Seq(STRING)
        BY InkAtFacts
      <4> DEFINE i == Ink(w)
      <4>2. Ink(ws) = i \o <<>> /\ i \in Seq(STRING)
        BY <3>2, <3>4, <4>1
      <4> HIDE DEF i
      <4>3. i \o <<>> = i
        BY <4>2
      <4> QED BY <4>2, <4>3 DEF i
    <3> HIDE DEF ws
    <3>6. Ink(ws \o t) = Ink(ws) \o Ink(t)
      BY <3>1, <3>4, InkConcat
    <3>7. Ink(q \o p) = Ink(q) \o Ink(p)
      BY <1>5, <3>3, InkConcat
    <3>8. Ink(FlattenSeq(g.parts)) = Ink(q \o p)
      BY <1>4 DEF q
    <3>9. Ink(w) = Ink(q)
      BY <2>4 DEF q
    <3> QED BY <3>0, <3>1, <3>5, <3>6, <3>7, <3>8, <3>9
  <2>15. c.h.ok /\ c.h.order = IF a.h.values[name] = <<>> THEN Append(a.h.order, name) ELSE a.h.order
    BY <2>3, <2>8, <2>11
  <2>16. c.h.values = [a.h.values EXCEPT ![name] = Append(@, x)]
    BY <2>11, <2>13
  <2> HIDE DEF h, vs, n, t, us
  <2> QED BY <1>2, <1>7, <2>8, <2>11, <2>14, <2>15, <2>16 DEF Took
<1>8. ASSUME ~(a.h.ok /\ ~BadField(g)) PROVE ~c.h.ok
  <2>1. CASE ~(a.h.ok /\ ~BadField(f))
    <3>1. ~b.h.ok
      BY <1>6, <2>1 DEF Took
    <3> QED BY <1>1, <3>1, LineStep DEF c
  <2>2. CASE Contains(p, NUL)
    <3>1. ~IsField(y) /\ ~IsFold(y)
      BY <1>1, <2>2 DEF IsField, IsFold
    <3> QED BY <1>1, <3>1, LineStep DEF c
  <2> QED BY <1>3, <1>8, <2>1, <2>2
<1>9. Took(a, g, c)
  BY <1>7, <1>8 DEF Took
<1> QED BY <1>9 DEF f, g, c, y

\* A sequence that agrees with another and has one element more.
LEMMA AppendIs ==
    ASSUME NEW S, NEW a \in Seq(S), NEW x \in S, NEW b \in Seq(S), Len(b) = Len(a) + 1,
           \A i \in 1..Len(a) : b[i] = a[i], b[Len(a) + 1] = x
    PROVE  b = Append(a, x)
<1> DEFINE u == Append(a, x)
           n == Len(a)
<1>1. u \in Seq(S) /\ Len(u) = n + 1 /\ u[n + 1] = x /\ n \in Nat /\ \A i \in 1..n : u[i] = a[i]
  OBVIOUS
<1>2. \A i \in 1..(n + 1) : i \in 1..n \/ i = n + 1
  BY <1>1
<1>3. \A i \in 1..Len(u) : u[i] = b[i]
  <2> HIDE DEF u
  <2> QED BY <1>1, <1>2
<1> HIDE DEF u
<1>4. u = b
  BY <1>1, <1>3, SeqEqual
<1> QED BY <1>4 DEF u

\* The loop over the lines of one field.
LEMMA FieldGathered ==
    ASSUME NEW s \in Seq(BlockLines), NEW f \in Field1
    PROVE  Took(Gathered(s), f, Gathered(s \o FieldLines(f)))
<1> DEFINE T == Seq(Symbols)
           a == Gathered(s)
           P == {ps \in Seq(T) : ps = <<>> \/
                   Took(a, [name |-> f.name, parts |-> ps],
                        Gathered(s \o FieldLines([name |-> f.name, parts |-> ps])))}
<1>1. <<>> \in P
  OBVIOUS
<1>2. f.name \in Symbols \ {SP} /\ f.parts \in Seq(T) /\ f.parts # <<>>
      /\ f = [name |-> f.name, parts |-> f.parts]
  BY DEF Field1
<1>3. s \in Seq(Seq(STRING)) /\ a \in Accs
  <2>1. s \in Seq(Seq(STRING))
    BY LinesAreTexts
  <2> QED BY <2>1, GatheredAccs
<1> HIDE DEF a
<1>4. ASSUME NEW ps \in Seq(T), NEW p \in T, ps \in P PROVE Append(ps, p) \in P
  <2> DEFINE qs == Append(ps, p)
             old == [name |-> f.name, parts |-> ps]
             new == [name |-> f.name, parts |-> qs]
  <2>0. qs \in Seq(T) /\ Len(ps) \in Nat /\ Len(qs) = Len(ps) + 1 /\ qs # <<>>
        /\ DOMAIN qs = 1..(Len(ps) + 1) /\ qs[Len(ps) + 1] = p
        /\ \A i \in 1..Len(ps) : qs[i] = ps[i]
    <3> HIDE DEF T
    <3>1. qs \in Seq(T) /\ Len(qs) = Len(ps) + 1 /\ Len(ps) \in Nat /\ qs[Len(ps) + 1] = p
          /\ \A i \in 1..Len(ps) : qs[i] = ps[i]
      OBVIOUS
    <3> HIDE DEF qs
    <3>2. qs # <<>> /\ DOMAIN qs = 1..(Len(ps) + 1)
      BY <3>1
    <3> QED BY <3>1, <3>2
  <2>1. CASE ps = <<>>
    <3> DEFINE y == <<f.name>> \o p \o EndOfLine
    <3>1. FieldLines(new) = <<y>>
      <4>1. qs = <<p>>
        BY <2>1
      <4>2. new.name = f.name /\ new.parts = <<p>>
        BY <4>1
      <4> HIDE DEF new
      <4>3. FieldLines(new) = [i \in {1} |-> y]
        BY <4>2 DEF FieldLines
      <4> HIDE DEF y
      <4>4. <<y>> = [i \in {1} |-> y]
        OBVIOUS
      <4> QED BY <4>3, <4>4
    <3>2. y \in Seq(STRING)
      BY <1>2, SentLine
    <3> HIDE DEF y, new, old
    <3>3. s \o FieldLines(new) = Append(s, y)
      <4> DEFINE X == Seq(STRING)
      <4>1. s \in Seq(X) /\ y \in X
        BY <1>3, <3>2
      <4> HIDE DEF X
      <4>2. s \o <<y>> = Append(s, y)
        BY <4>1
      <4> QED BY <3>1, <4>2
    <3>4. Gathered(s \o FieldLines(new)) = WithLine(a, y)
      BY <1>3, <3>2, <3>3, GatheredAppend DEF a
    <3>5. Took(a, [name |-> f.name, parts |-> <<p>>], WithLine(a, <<f.name>> \o p \o EndOfLine))
      BY <1>2, <1>3, FirstLine
    <3>6. new = [name |-> f.name, parts |-> <<p>>]
      BY <2>1 DEF new
    <3>7. Took(a, new, Gathered(s \o FieldLines(new)))
      BY <3>4, <3>5, <3>6 DEF y
    <3> QED BY <2>0, <3>7 DEF new
  <2>2. CASE ps # <<>>
    <3> DEFINE y == <<SP>> \o p \o EndOfLine
    <3>1. Took(a, old, Gathered(s \o FieldLines(old)))
      BY <1>4, <2>2
    <3>2. y \in Seq(STRING)
      BY SentLine, SymbolFacts
    <3>3. FieldLines(old) \in Seq(Seq(STRING)) /\ Len(FieldLines(old)) = Len(ps)
          /\ DOMAIN FieldLines(old) = DOMAIN ps
      <4>1. old \in Field1 /\ old.parts = ps
        BY <1>2, <2>2 DEF Field1
      <4> HIDE DEF old
      <4> QED BY <4>1, FieldLinesFacts, LinesAreTexts
    <3>4. FieldLines(new) = Append(FieldLines(old), y)
      <4> DEFINE u == FieldLines(old)
                 v == FieldLines(new)
                 X == Seq(STRING)
                 n == Len(ps)
      <4>0. DOMAIN ps = 1..n /\ n \in Nat /\ n # 0
        BY <2>2
      <4>1. new.name = f.name /\ new.parts = qs /\ old.name = f.name /\ old.parts = ps
        OBVIOUS
      <4>7. DOMAIN qs = 1..(n + 1) /\ qs[n + 1] = p /\ \A i \in 1..n : qs[i] = ps[i]
        BY <2>0
      <4>8. u \in Seq(X) /\ y \in X /\ Len(u) = n
        BY <3>2, <3>3
      <4> HIDE DEF new, old, qs, X, n, y
      <4>9. \A i \in 1..n : i \in 1..(n + 1)
        BY <4>0
      <4>2. v = [i \in 1..(n + 1) |-> v[i]]
        BY <4>1, <4>7 DEF FieldLines
      <4>3. \A i \in 1..(n + 1) :
               v[i] = (IF i = 1 THEN <<f.name>> ELSE <<SP>>) \o qs[i] \o EndOfLine
        BY <4>1, <4>7 DEF FieldLines
      <4>4. \A i \in 1..n :
               u[i] = (IF i = 1 THEN <<f.name>> ELSE <<SP>>) \o ps[i] \o EndOfLine
        BY <4>0, <4>1 DEF FieldLines
      <4>5. v[n + 1] = y
        <5>1. n + 1 # 1 /\ n + 1 \in 1..(n + 1)
          BY <4>0
        <5> QED BY <4>3, <4>7, <5>1 DEF y
      <4>6. \A i \in 1..n : v[i] = u[i]
        BY <4>3, <4>4, <4>7, <4>9
      <4> HIDE DEF u, v
      <4>10. v = Append(u, y)
        <5>1. n + 1 \in Nat /\ \A i \in 1..(n + 1) : i \in 1..n \/ i = n + 1
          BY <4>0
        <5>2. \A i \in 1..n : u[i] \in X
          BY <4>0, <4>8
        <5>3. \A i \in 1..(n + 1) : v[i] \in X
          BY <4>5, <4>6, <4>8, <5>1, <5>2
        <5>4. v \in Seq(X) /\ Len(v) = n + 1
          BY <4>2, <5>1, <5>3, Listed
        <5> QED BY <4>5, <4>6, <4>8, <5>4, AppendIs
      <4> QED BY <4>10 DEF u, v
    <3> DEFINE g == FieldLines(old)
    <3>5. g \in Seq(Seq(STRING))
      BY <3>3
    <3> HIDE DEF y, new, old, qs, g
    <3>6. s \o Append(g, y) = Append(s \o g, y) /\ s \o g \in Seq(Seq(STRING))
      <4> DEFINE X == Seq(STRING)
      <4>1. s \in Seq(X) /\ y \in X /\ g \in Seq(X)
        BY <1>3, <3>2, <3>5
      <4> HIDE DEF X
      <4>2. Append(g, y) = g \o <<y>> /\ <<y>> \in Seq(X)
        BY <4>1
      <4>3. s \o g \in Seq(X)
        BY <4>1
      <4> DEFINE z == <<y>>
                 sg == s \o g
      <4> HIDE DEF z
      <4>4. s \o (g \o z) = sg \o z
        BY <4>1, <4>2, ConcatAssociative DEF z
      <4> HIDE DEF sg
      <4>5. Append(sg, y) = sg \o z
        BY <4>1, <4>3 DEF z, sg
      <4> QED BY <4>2, <4>3, <4>4, <4>5 DEF z, sg, X
    <3> DEFINE sg == s \o g
    <3>7. Gathered(s \o FieldLines(new)) = WithLine(Gathered(sg), y) /\ Gathered(sg) \in Accs
      <4>1. s \o FieldLines(new) = Append(sg, y)
        BY <3>4, <3>6 DEF g
      <4>2. sg \in Seq(Seq(STRING))
        BY <3>6
      <4> HIDE DEF sg
      <4> QED BY <3>2, <4>1, <4>2, GatheredAppend, GatheredAccs
    <3>8. Took(a, old, Gathered(sg))
      BY <3>1 DEF g
    <3> DEFINE b == Gathered(sg)
    <3>9. b \in Accs
      BY <3>7
    <3> HIDE DEF b
    <3>10. Took(a, [name |-> f.name, parts |-> Append(ps, p)], WithLine(b, <<SP>> \o p \o EndOfLine))
      BY <1>2, <1>3, <3>8, <3>9, NextLine DEF old, b
    <3>11. Took(a, new, Gathered(s \o FieldLines(new)))
      BY <3>7, <3>10 DEF new, qs, y, b
    <3> QED BY <2>0, <3>11 DEF new, qs
  <2> QED BY <2>1, <2>2
<1> HIDE DEF P, T
<1>5. Seq(T) \subseteq P
  BY <1>1, <1>4, Texts!SeqInduction
<1>6. f.parts \in P
  BY <1>2, <1>5
<1> QED BY <1>2, <1>6 DEF P, a

-----------------------------------------------------------------------------
Inks(vs) == [i \in DOMAIN vs |-> Ink(vs[i])]

\* The values without their white space.
LEMMA InksFacts ==
    ASSUME NEW vs \in Seq(Seq(STRING))
    PROVE  /\ Inks(vs) \in Seq(Seq(STRING)) /\ Len(Inks(vs)) = Len(vs)
           /\ \A w \in Seq(STRING) : Inks(Append(vs, w)) = Append(Inks(vs), Ink(w))
<1> DEFINE X == Seq(STRING)
           n == Len(vs)
           a == Inks(vs)
<1>1. n \in Nat /\ DOMAIN vs = 1..n /\ \A i \in 1..n : vs[i] \in X
  OBVIOUS
<1>2. \A w \in X : Ink(w) \in X
  BY InkAtFacts
<1>3. a = [i \in 1..n |-> a[i]] /\ \A i \in 1..n : a[i] = Ink(vs[i])
  BY <1>1 DEF Inks
<1>8. vs \in Seq(X)
  OBVIOUS
<1> HIDE DEF X, n, a
<1>4. a \in Seq(X) /\ Len(a) = n
  <2>1. \A i \in 1..n : a[i] \in X
    BY <1>1, <1>2, <1>3
  <2> QED BY <1>1, <1>3, <2>1, Listed
<1>5. ASSUME NEW w \in X PROVE Inks(Append(vs, w)) = Append(a, Ink(w))
  <2> DEFINE u == Append(vs, w)
             b == Inks(u)
  <2>1. DOMAIN u = 1..(n + 1) /\ u[n + 1] = w /\ \A i \in 1..n : u[i] = vs[i]
    BY <1>8 DEF n
  <2> HIDE DEF u
  <2>2. b = [i \in 1..(n + 1) |-> b[i]] /\ \A i \in 1..(n + 1) : b[i] = Ink(u[i])
    BY <2>1 DEF Inks
  <2>3. n + 1 \in 1..(n + 1) /\ \A i \in 1..n : i \in 1..(n + 1)
    BY <1>1
  <2> HIDE DEF b
  <2>4. b[n + 1] = Ink(w) /\ \A i \in 1..n : b[i] = a[i]
    BY <1>3, <2>1, <2>2, <2>3
  <2> DEFINE x == Ink(w)
  <2>5. x \in X
    BY <1>2
  <2> HIDE DEF x
  <2>6. b = Append(a, x)
    <3>1. b[n + 1] = x
      BY <2>4 DEF x
    <3>2. n + 1 \in Nat /\ \A i \in 1..(n + 1) : i \in 1..n \/ i = n + 1
      BY <1>1
    <3>3. \A i \in 1..(n + 1) : b[i] \in X
      BY <1>2, <1>3, <1>1, <2>4, <2>5, <3>1, <3>2
    <3>4. b \in Seq(X) /\ Len(b) = n + 1
      BY <2>2, <3>2, <3>3, Listed
    <3> QED BY <1>4, <2>4, <2>5, <3>1, <3>4, AppendIs
  <2> QED BY <2>6 DEF b, u, x
<1> QED BY <1>4, <1>5 DEF X, n, a

\* What the client means, one field more.
LEMMA SentInGrows ==
    ASSUME NEW fs \in Seq(Field1), NEW f \in Field1, NEW n
    PROVE  /\ SentIn(<<>>, n) = <<>>
           /\ SentIn(fs, n) \in Seq(Seq(STRING))
           /\ SentIn(Append(fs, f), n) =
                 IF f.name = n THEN Append(SentIn(fs, n), Ink(FlattenSeq(f.parts)))
                               ELSE SentIn(fs, n)
<1> DEFINE gs == Append(fs, f)
           X == Seq(Seq(STRING))
           V(g) == IF g.name = n THEN <<Ink(FlattenSeq(g.parts))>> ELSE <<>>
           a == [i \in DOMAIN fs |-> V(fs[i])]
           b == [i \in DOMAIN gs |-> V(gs[i])]
           k == Len(fs)
<1>1. DOMAIN fs = 1..k /\ DOMAIN gs = 1..(k + 1) /\ k \in Nat /\ gs[k + 1] = f
      /\ \A i \in 1..k : gs[i] = fs[i] /\ fs[i] \in Field1
  OBVIOUS
<1>2. \A g \in Field1 : Ink(FlattenSeq(g.parts)) \in Seq(STRING)
  <2>1. ASSUME NEW g \in Field1 PROVE Ink(FlattenSeq(g.parts)) \in Seq(STRING)
    <3>1. FlattenSeq(g.parts) \in Seq(Symbols)
      BY FlattenFacts DEF Field1
    <3>2. FlattenSeq(g.parts) \in Seq(STRING)
      BY <3>1, SymbolFacts, SeqMonotonic
    <3> QED BY <3>2, InkAtFacts
  <2> QED BY <2>1
<1>3. \A g \in Field1 : V(g) \in X
  <2>1. ASSUME NEW g \in Field1 PROVE V(g) \in X
    <3> DEFINE w == Ink(FlattenSeq(g.parts))
    <3>1. w \in Seq(STRING)
      BY <1>2
    <3> HIDE DEF w
    <3>2. <<w>> \in X /\ <<>> \in X
      BY <3>1
    <3> QED BY <3>2 DEF w
  <2> QED BY <2>1
<1>4. /\ a = [i \in 1..k |-> a[i]] /\ \A i \in 1..k : a[i] = V(fs[i])
      /\ b = [i \in 1..(k + 1) |-> b[i]] /\ \A i \in 1..(k + 1) : b[i] = V(gs[i])
  BY <1>1
<1>5. SentIn(fs, n) = FlattenSeq(a) /\ SentIn(gs, n) = FlattenSeq(b)
  BY DEF SentIn
<1> DEFINE v == V(f)
<1>6. v \in X /\ \A i \in 1..k : a[i] \in X /\ a[i] = b[i]
  BY <1>1, <1>3, <1>4
<1>7. b[k + 1] = v
  <2>1. k + 1 \in 1..(k + 1)
    BY <1>1
  <2> QED BY <1>1, <1>4, <2>1
<1>10. v = IF f.name = n THEN <<Ink(FlattenSeq(f.parts))>> ELSE <<>>
  OBVIOUS
<1> HIDE DEF gs, X, V, a, b, k, v
<1>8. a \in Seq(X) /\ Len(a) = k
  BY <1>1, <1>4, <1>6, Listed
<1>9. b = Append(a, v)
  <2>1. k \in Nat /\ v \in X /\ b[k + 1] = v /\ b = [i \in 1..(k + 1) |-> b[i]]
        /\ \A i \in 1..k : b[i] = a[i]
    BY <1>1, <1>4, <1>6, <1>7
  <2>2. b \in Seq(X) /\ Len(b) = k + 1
    <3>1. k + 1 \in Nat /\ \A i \in 1..(k + 1) : i \in 1..k \/ i = k + 1
      BY <1>1
    <3>2. \A i \in 1..(k + 1) : b[i] \in X
      BY <1>6, <1>7, <3>1
    <3> QED BY <1>4, <3>1, <3>2, Listed
  <2> QED BY <1>8, <2>1, <2>2, AppendIs
<1>11. FlattenSeq(b) = FlattenSeq(a) \o v /\ FlattenSeq(a) \in X
  BY <1>6, <1>8, <1>9, FlattenFacts DEF X
<1>12. SentIn(<<>>, n) = <<>>
  <2>1. SentIn(<<>>, n) = FlattenSeq(<<>>)
    BY DEF SentIn
  <2> QED BY <2>1, FlattenFew
<1> DEFINE s == SentIn(fs, n)
           Y == Seq(STRING)
<1>13. s \in Seq(Y)
  BY <1>5, <1>11 DEF X
<1>14. f.name = n => FlattenSeq(b) = Append(s, Ink(FlattenSeq(f.parts)))
  <2> DEFINE w == Ink(FlattenSeq(f.parts))
  <2>1. w \in Y
    BY <1>2
  <2> HIDE DEF s, Y, w
  <2>2. s \o <<w>> = Append(s, w)
    BY <1>13, <2>1
  <2> QED BY <1>5, <1>10, <1>11, <2>2 DEF s, w
<1>15. f.name # n => FlattenSeq(b) = s
  <2> HIDE DEF s, Y
  <2>1. s \o <<>> = s
    BY <1>13
  <2> QED BY <1>5, <1>10, <1>11, <2>1 DEF s
<1> QED BY <1>5, <1>12, <1>13, <1>14, <1>15 DEF gs

\* The loop's state after a block: every field's values as they were sent, or
\* a bad line.
NoneBad(fields) == \A i \in 1..Len(fields) : ~BadField(fields[i])
Holds(h, fields, n) ==
    /\ Inks(h.values[n]) = SentIn(fields, n)
    /\ Contains(h.order, n) <=> h.values[n] # <<>>
Arrived(h, fields) ==
    IF NoneBad(fields) THEN h.ok /\ \A n \in FieldNames : Holds(h, fields, n) ELSE ~h.ok

\* One more field read.
LEMMA ArrivedGrows ==
    ASSUME NEW a \in Accs, NEW b \in Accs, NEW fs \in Seq(Field1), NEW f \in Field1,
           Arrived(a.h, fs), Took(a, f, b)
    PROVE  Arrived(b.h, Append(fs, f))
<1> DEFINE gs == Append(fs, f)
           k == Len(fs)
<1>1. k \in Nat /\ Len(gs) = k + 1 /\ gs[k + 1] = f /\ \A i \in 1..k : gs[i] = fs[i]
  OBVIOUS
<1>2. NoneBad(gs) <=> NoneBad(fs) /\ ~BadField(f)
  <2> HIDE DEF gs
  <2>1. k + 1 \in 1..(k + 1) /\ (\A i \in 1..k : i \in 1..(k + 1))
        /\ \A i \in 1..(k + 1) : i \in 1..k \/ i = k + 1
    BY <1>1
  <2>2. NoneBad(gs) => NoneBad(fs) /\ ~BadField(f)
    BY <1>1, <2>1 DEF NoneBad
  <2>3. NoneBad(fs) /\ ~BadField(f) => NoneBad(gs)
    BY <1>1, <2>1 DEF NoneBad
  <2> QED BY <2>2, <2>3
<1>3. a.h \in Stores /\ b.h \in Stores
  BY DEF Accs
<1> HIDE DEF k
<1>4. ASSUME ~NoneBad(gs) PROVE ~b.h.ok
  <2> HIDE DEF gs
  <2> QED BY <1>2, <1>4 DEF Arrived, Took
<1>5. ASSUME NoneBad(gs) PROVE b.h.ok /\ \A n \in FieldNames : Holds(b.h, gs, n)
  <2>1. NoneBad(fs) /\ ~BadField(f)
    <3> HIDE DEF gs
    <3> QED BY <1>2, <1>5
  <2> DEFINE name == f.name
             vals == a.h.values
             p == FlattenSeq(f.parts)
  <2>2. a.h.ok /\ (\A n \in FieldNames : Holds(a.h, fs, n)) /\ name \in FieldNames
    BY <2>1 DEF Arrived, BadField
  <2>3. /\ b.h.ok
        /\ b.h.order = IF vals[name] = <<>> THEN Append(a.h.order, name) ELSE a.h.order
        /\ \E w \in Seq(STRING) :
               /\ Ink(w) = Ink(p)
               /\ b.h.values = [vals EXCEPT ![name] = Append(@, w)]
    <3> HIDE DEF gs
    <3> QED BY <2>1, <2>2, Zenon DEF Took
  <2>4. PICK w \in Seq(STRING) : Ink(w) = Ink(p) /\ b.h.values = [vals EXCEPT ![name] = Append(@, w)]
    BY <2>3
  <2>5. vals \in [FieldNames -> Seq(Seq(STRING))] /\ a.h.order \in Seq(FieldNames)
    BY <1>3 DEF Stores
  <2>6. ASSUME NEW n \in FieldNames PROVE Holds(b.h, gs, n)
    <3>1. /\ Inks(vals[n]) = SentIn(fs, n)
          /\ Contains(a.h.order, n) <=> vals[n] # <<>>
      BY <2>2 DEF Holds
    <3>2. SentIn(gs, n) = IF name = n THEN Append(SentIn(fs, n), Ink(p)) ELSE SentIn(fs, n)
      BY SentInGrows
    <3> HIDE DEF gs, p
    <3>3. b.h.values[n] = IF n = name THEN Append(vals[n], w) ELSE vals[n]
      <4> HIDE DEF vals, name
      <4> QED BY <2>2, <2>4, <2>5
    <3> DEFINE vs == vals[n]
    <3>4. vs \in Seq(Seq(STRING))
      <4> HIDE DEF vals
      <4> QED BY <2>5
    <3> HIDE DEF vals, vs
    <3>5. Inks(Append(vs, w)) = Append(Inks(vs), Ink(w))
      BY <3>4, InksFacts
    <3>6. Inks(b.h.values[n]) = SentIn(gs, n)
      BY <2>4, <3>1, <3>2, <3>3, <3>5 DEF vs
    <3>7. Append(vs, w) # <<>>
      <4>1. Len(Append(vs, w)) # 0 /\ Len(<<>>) = 0
        BY <3>4
      <4> QED BY <4>1, Zenon
    <3>8. Contains(b.h.order, n) <=> b.h.values[n] # <<>>
      <4> DEFINE o == a.h.order
                 q == Append(o, name)
      <4>1. Contains(q, n) <=> Contains(o, n) \/ n = name
        <5> DEFINE l == Len(o)
        <5>1. l \in Nat /\ Len(q) = l + 1 /\ q[l + 1] = name /\ \A i \in 1..l : q[i] = o[i]
          BY <2>5
        <5> HIDE DEF q, o, l, name
        <5>2. l + 1 \in 1..(l + 1) /\ (\A i \in 1..l : i \in 1..(l + 1))
              /\ \A i \in 1..(l + 1) : i \in 1..l \/ i = l + 1
          BY <5>1
        <5>3. ASSUME NEW i \in 1..(l + 1), q[i] = n PROVE (\E j \in 1..l : o[j] = n) \/ n = name
          BY <5>1, <5>2, <5>3
        <5>4. ASSUME (\E j \in 1..l : o[j] = n) \/ n = name PROVE \E i \in 1..(l + 1) : q[i] = n
          BY <5>1, <5>2, <5>4
        <5>5. Contains(q, n) <=> \E i \in 1..(l + 1) : q[i] = n
          BY <5>1 DEF Contains
        <5>6. Contains(o, n) <=> \E j \in 1..l : o[j] = n
          BY DEF Contains, l
        <5> QED BY <5>3, <5>4, <5>5, <5>6
      <4> HIDE DEF o, q
      <4>2. b.h.order = IF vals[name] = <<>> THEN q ELSE o
        BY <2>3 DEF o, q
      <4>3. Contains(o, n) <=> vs # <<>>
        BY <3>1 DEF o, vs
      <4>4. CASE n = name
        <5>1. b.h.values[n] # <<>>
          BY <3>3, <3>7, <4>4 DEF vs
        <5> QED BY <4>1, <4>2, <4>3, <4>4, <5>1 DEF vs
      <4>5. CASE n # name
        <5> HIDE DEF name
        <5> QED BY <3>3, <4>1, <4>2, <4>3, <4>5 DEF vs
      <4> QED BY <4>4, <4>5
    <3> QED BY <3>6, <3>8 DEF Holds
  <2> QED BY <2>3, <2>6
<1> HIDE DEF gs
<1>6. Arrived(b.h, gs)
  BY <1>4, <1>5 DEF Arrived
<1> QED BY <1>6 DEF gs

\* Every field of a block arrives, or the block is bad.
LEMMA BlockArrives ==
    ASSUME NEW fields \in Seq(Field1)
    PROVE  Arrived(Gathered(LinesOf(fields)).h, fields)
<1> DEFINE P == {fs \in Seq(Field1) : Arrived(Gathered(LinesOf(fs)).h, fs)}
<1>1. <<>> \in P
  <2>1. LinesOf(<<>>) = <<>>
    <3>1. LinesOf(<<>>) = FlattenSeq(<<>>)
      BY DEF LinesOf
    <3> QED BY <3>1, FlattenFew
  <2>2. Gathered(LinesOf(<<>>)).h = NoHeader
    BY <2>1, GatheredAppend DEF Begun
  <2>3. NoneBad(<<>>)
    BY DEF NoneBad
  <2>4. ASSUME NEW n \in FieldNames PROVE Holds(NoHeader, <<>>, n)
    <3>1. NoHeader.values[n] = <<>> /\ NoHeader.order = <<>>
      BY DEF NoHeader
    <3>2. Inks(<<>>) = <<>>
      BY DEF Inks
    <3>3. SentIn(<<>>, n) = <<>>
      <4>1. SentIn(<<>>, n) = FlattenSeq(<<>>)
        BY DEF SentIn
      <4> QED BY <4>1, FlattenFew
    <3>4. ~Contains(<<>>, n)
      BY DEF Contains
    <3> QED BY <3>1, <3>2, <3>3, <3>4 DEF Holds
  <2>5. NoHeader.ok
    BY DEF NoHeader
  <2>6. Arrived(Gathered(LinesOf(<<>>)).h, <<>>)
    BY <2>2, <2>3, <2>4, <2>5 DEF Arrived
  <2>7. <<>> \in Seq(Field1)
    OBVIOUS
  <2> QED BY <2>6, <2>7
<1>2. ASSUME NEW fs \in Seq(Field1), NEW f \in Field1, fs \in P PROVE Append(fs, f) \in P
  <2> DEFINE s == LinesOf(fs)
             t == s \o FieldLines(f)
             a == Gathered(s)
             b == Gathered(t)
  <2>1. LinesOf(Append(fs, f)) = t /\ s \in Seq(BlockLines)
    BY LinesOfGrows
  <2>2. FieldLines(f) \in Seq(BlockLines)
    BY FieldLinesFacts
  <2> HIDE DEF s
  <2>3. Took(a, f, b)
    BY <2>1, FieldGathered
  <2>4. t \in Seq(BlockLines)
    BY <2>1, <2>2, ConcatProperties
  <2> HIDE DEF t
  <2>5. a \in Accs /\ b \in Accs
    BY <2>1, <2>4, GatheredAccs, LinesAreTexts
  <2>6. Arrived(a.h, fs)
    BY <1>2 DEF a, s
  <2> HIDE DEF a, b
  <2>7. Arrived(b.h, Append(fs, f))
    BY <2>3, <2>5, <2>6, ArrivedGrows
  <2>8. Append(fs, f) \in Seq(Field1)
    OBVIOUS
  <2> QED BY <2>1, <2>7, <2>8 DEF b
<1> HIDE DEF P
<1>3. Seq(Field1) \subseteq P
  BY <1>1, <1>2, Texts!SeqInduction
<1> QED BY <1>3 DEF P

\* ParseHeader over a whole block that was sent: it is refused just for a bad
\* field, and what it takes are the values that were sent, trimmed.
LEMMA BlockParses ==
    ASSUME NEW fields \in Seq(Field1)
    PROVE  LET h == ParseHeader(Block(fields))
           IN  /\ h.ok <=> NoneBad(fields)
               /\ \A n \in FieldNames :
                     /\ h.values[n] \in Seq(Seq(STRING))
                     /\ \A i \in 1..Len(h.values[n]) : h.values[n][i] # <<>> =>
                           SP \notin {h.values[n][i][1], Last(h.values[n][i])}
                     /\ h.ok => /\ Inks(h.values[n]) = SentIn(fields, n)
                                /\ Contains(h.order, n) <=> h.values[n] # <<>>
<1> DEFINE end == Gathered(EachLine(Block(fields))).h
           h == ParseHeader(Block(fields))
           vals == end.values
<1>1. EachLine(Block(fields)) = LinesOf(fields) /\ LinesOf(fields) \in Seq(BlockLines)
  BY LinesOfFacts, EachLineOfBlock
<1>2. end \in Stores /\ Arrived(end, fields)
  <2>1. Gathered(LinesOf(fields)) \in Accs
    BY <1>1, GatheredAccs, LinesAreTexts
  <2> QED BY <1>1, <2>1, BlockArrives DEF Accs
<1>3. vals \in [FieldNames -> Seq(Seq(STRING))]
  BY <1>2 DEF Stores
<1>4. h = [end EXCEPT !.values = [n \in FieldNames |-> [i \in DOMAIN vals[n] |-> Trim(vals[n][i])]]]
  BY DEF ParseHeader
<1> HIDE DEF end
<1>5. h.ok = end.ok /\ h.order = end.order
      /\ h.values = [n \in FieldNames |-> [i \in DOMAIN vals[n] |-> Trim(vals[n][i])]]
  <2> HIDE DEF h
  <2> QED BY <1>2, <1>4 DEF Stores
<1> HIDE DEF h, vals
<1>6. end.ok <=> NoneBad(fields)
  BY <1>2 DEF Arrived
<1>7. ASSUME NEW n \in FieldNames
      PROVE  /\ h.values[n] \in Seq(Seq(STRING))
             /\ \A i \in 1..Len(h.values[n]) : h.values[n][i] # <<>> =>
                   SP \notin {h.values[n][i][1], Last(h.values[n][i])}
             /\ h.ok => /\ Inks(h.values[n]) = SentIn(fields, n)
                        /\ Contains(h.order, n) <=> h.values[n] # <<>>
  <2> DEFINE vs == vals[n]
             us == h.values[n]
             k == Len(vs)
             X == Seq(STRING)
  <2>1. vs \in Seq(X)
    BY <1>3
  <2>2. us = [i \in DOMAIN vs |-> Trim(vs[i])]
    BY <1>5
  <2> HIDE DEF vs, us, X
  <2>3. k \in Nat /\ DOMAIN vs = 1..k /\ \A i \in 1..k : vs[i] \in X
    BY <2>1
  <2> HIDE DEF k
  <2>4. us = [i \in 1..k |-> us[i]] /\ \A i \in 1..k : us[i] = Trim(vs[i])
    BY <2>2, <2>3
  <2>5. \A i \in 1..k : /\ Trim(vs[i]) \in X /\ Ink(Trim(vs[i])) = Ink(vs[i])
                        /\ Trim(vs[i]) # <<>> => SP \notin {Trim(vs[i])[1], Last(Trim(vs[i]))}
    BY <2>3, TrimFacts DEF X
  <2>6. \A i \in 1..k : us[i] \in X
    BY <2>4, <2>5
  <2>7. us \in Seq(X) /\ Len(us) = k /\ DOMAIN us = 1..k
    BY <2>3, <2>4, <2>6, Listed
  <2>8. \A i \in 1..Len(us) : us[i] # <<>> => SP \notin {us[i][1], Last(us[i])}
    BY <2>4, <2>5, <2>7
  <2>9. Inks(us) = Inks(vs)
    <3>1. \A i \in 1..k : Ink(us[i]) = Ink(vs[i])
      BY <2>4, <2>5
    <3> QED BY <2>3, <2>7, <3>1 DEF Inks
  <2>10. us # <<>> <=> vs # <<>>
    <3>1. us # <<>> <=> Len(us) # 0
      BY <2>7
    <3>2. vs # <<>> <=> Len(vs) # 0
      BY <2>1
    <3> QED BY <2>7, <3>1, <3>2 DEF k
  <2>11. h.ok => /\ Inks(us) = SentIn(fields, n)
                 /\ Contains(h.order, n) <=> us # <<>>
    <3>1. ASSUME h.ok PROVE Holds(end, fields, n)
      BY <1>2, <1>5, <3>1 DEF Arrived
    <3> QED BY <1>5, <2>9, <2>10, <3>1 DEF Holds, vs, vals
  <2> QED BY <2>7, <2>8, <2>11 DEF us, X
<1> QED BY <1>5, <1>6, <1>7 DEF h

-----------------------------------------------------------------------------
(* The inductive invariant.                                                *)

\* What ParseRequest starts from.
LEMMA StartKeeps ==
    Init => IInv
<1>1. SUFFICES ASSUME Init PROVE IInv
  OBVIOUS
<1>2. input \in Seq(STRING)
  <2>1. Wire(sent) \in Seq(STRING)
    BY <1>1, ClientsAssumption, WireFacts DEF Init
  <2>2. CASE \E more \in After : input = Wire(sent) \o more
    BY <2>1, <2>2, ClientsAssumption
  <2>3. CASE \E n \in 0..(Len(Wire(sent)) - 1) : input = SubSeq(Wire(sent), 1, n)
    BY <2>1, <2>3, Part
  <2> QED BY <1>1, <2>2, <2>3 DEF Init, Arrivals
<1>3. <<>> \in Seq(STRING) /\ Len(<<>>) = 0 /\ Version(0, 9) \in Versions
  BY DEF Version, Versions
<1>4. NoLine \in [method : Methods \cup {"none"}, target : Seq(STRING), version : Versions]
  BY <1>3 DEF NoLine
<1>5. 0 \in 0..Len(input)
  BY <1>2
<1>6. TypeOK
  BY <1>1, <1>2, <1>3, <1>4, <1>5 DEF Init, TypeOK, Verdicts
<1>7. HeaderReadIsBounded
  BY <1>1 DEF Init, HeaderReadIsBounded
<1>8. LengthSound(header)
  BY <1>1, SymbolsAssumption DEF Init, NoHeader, LengthSound, Values
<1> QED BY <1>1, <1>6, <1>7, <1>8 DEF Init, IInv

\* The request line: at most MaxURILength symbols are read.
LEMMA RequestLineKeeps ==
    ASSUME IInv, ReadRequestLine
    PROVE  IInv'
<1> DEFINE text == Line(input, pos, MaxURILength)
<1>1. /\ text \in Seq(STRING) /\ Len(text) \in 0..MaxURILength
      /\ pos + Len(text) \in 0..Len(input)
  BY LineFacts, CapsAssumption DEF IInv, TypeOK
<1>2. /\ phase = "line" /\ pos = 0 /\ pos' = pos + Len(text)
      /\ UNCHANGED <<sent, input, rawHeader, header, size, body, keepAlive>>
  BY DEF IInv, ReadRequestLine
<1>3. Reach \in Nat /\ pos' <= Reach /\ MaxLineLength \in Nat
  BY <1>1, <1>2, ReachFacts, CapsAssumption
<1>4. CASE /\ phase' = "done" /\ verdict' \in {"EOF", "TooLarge", "BadRequest"}
           /\ UNCHANGED <<bodyParsed, line, counted>>
  <2>1. TypeOK'
    BY <1>1, <1>2, <1>4 DEF IInv, TypeOK, Verdicts
  <2>2. HeaderReadIsBounded'
    BY <1>2, <1>3, <1>4 DEF HeaderReadIsBounded
  <2> QED BY <1>2, <1>4, <2>1, <2>2 DEF IInv, LengthSound, Values
<1>5. CASE /\ IsRequestLine(text)
           /\ line' = [method |-> text[1], target |-> TargetIn(text),
                       version |-> IF Versioned(text)
                                   THEN VersionOf[Last(WithoutEnd(text))]
                                   ELSE Version(0, 9)]
           /\ counted' = Len(text)
           /\ phase' \in {"header", "target"} /\ UNCHANGED <<verdict, bodyParsed>>
  <2>1. line' \in [method : Methods \cup {"none"}, target : Seq(STRING), version : Versions]
    <3>1. Version(0, 9) \in Versions
      BY DEF Version, Versions
    <3>2. /\ text[1] \in Methods /\ TargetIn(text) \in Seq(STRING)
          /\ Versioned(text) => VersionOf[Last(WithoutEnd(text))] \in Versions
      BY <1>1, <1>5, RequestLineFacts
    <3> HIDE DEF text
    <3> QED BY <1>5, <3>1, <3>2
  <2>2. TypeOK'
    BY <1>1, <1>2, <1>5, <2>1 DEF IInv, TypeOK, Verdicts
  <2>3. HeaderReadIsBounded'
    BY <1>1, <1>2, <1>3, <1>5 DEF IInv, HeaderReadIsBounded
  <2> QED BY <1>2, <1>5, <2>2, <2>3 DEF IInv, LengthSound, Values
<1>6. QED
  BY <1>4, <1>5 DEF ReadRequestLine, Refuse, Return, Continue, Goto

\* A header line: the limit is compared before the next line is read.
LEMMA HeaderLineKeeps ==
    ASSUME IInv, ReadHeaderLine
    PROVE  IInv'
<1> DEFINE text == Line(input, pos, MaxLineLength)
<1>1. /\ text \in Seq(STRING) /\ Len(text) \in 0..MaxLineLength
      /\ pos + Len(text) \in 0..Len(input)
  BY LineFacts, CapsAssumption DEF IInv, TypeOK
<1>2. /\ phase = "header" /\ pos = counted /\ pos <= Reach
      /\ pos' = pos + Len(text) /\ counted' = counted + Len(text)
      /\ UNCHANGED <<sent, input, line, header, size, body, keepAlive>>
  BY DEF IInv, HeaderReadIsBounded, ReadHeaderLine
<1>3. Reach \in Nat /\ MaxLineLength \in Nat /\ MaxHeaderLength \in Nat
      /\ MaxHeaderLength <= Reach /\ pos \in Nat
  BY ReachFacts, CapsAssumption DEF IInv, TypeOK
<1>4. CASE /\ phase' = "done" /\ verdict' \in {"EOF", "TooLarge", "BadRequest"}
           /\ UNCHANGED <<bodyParsed, rawHeader>>
  <2>1. TypeOK'
    BY <1>1, <1>2, <1>3, <1>4 DEF IInv, TypeOK, Verdicts
  <2>2. HeaderReadIsBounded'
    BY <1>1, <1>2, <1>3, <1>4 DEF HeaderReadIsBounded
  <2> QED BY <1>2, <1>4, <2>1, <2>2 DEF IInv, LengthSound, Values
<1>5. CASE /\ ~TooMuch(counted') /\ rawHeader' = rawHeader \o text
           /\ phase' = "header" /\ UNCHANGED <<verdict, bodyParsed>>
  <2>1. rawHeader' \in Seq(STRING)
    BY <1>1, <1>5 DEF IInv, TypeOK
  <2>2. TypeOK'
    BY <1>1, <1>2, <1>3, <1>5, <2>1 DEF IInv, TypeOK, Verdicts
  <2>3. HeaderReadIsBounded'
    BY <1>1, <1>2, <1>3, <1>5 DEF IInv, HeaderReadIsBounded, TooMuch
  <2> QED BY <1>2, <1>5, <2>2, <2>3 DEF IInv, LengthSound, Values
<1>6. QED
  BY <1>4, <1>5 DEF ReadHeaderLine, Refuse, Return, Continue, Goto

\* The end of the header block.
LEMMA EndHeaderKeeps ==
    ASSUME IInv, EndHeader
    PROVE  IInv'
<1>1. Len(EndOfLine) = 2
  BY DEF EndOfLine
<1>2. pos + 2 \in 0..Len(input)
  <2>1. pos + Len(Line(input, pos, MaxLineLength)) \in 0..Len(input)
    BY LineFacts, CapsAssumption DEF IInv, TypeOK
  <2> QED BY <1>1, <2>1 DEF EndHeader
<1>3. /\ phase = "header" /\ pos' = pos + 2
      /\ \/ phase' = "target" /\ verdict' = verdict
         \/ phase' = "done" /\ verdict' = "BadRequest"
      /\ UNCHANGED <<sent, input, line, rawHeader, counted, size, body, keepAlive, bodyParsed>>
  BY DEF EndHeader, Refuse, Return, Continue, Goto
<1>4. TypeOK'
  BY <1>2, <1>3 DEF IInv, TypeOK, Verdicts
<1>5. HeaderReadIsBounded'
  BY <1>3 DEF IInv, HeaderReadIsBounded
<1>6. LengthSound(header)'
  BY DEF IInv, EndHeader, LengthSound, Values
<1> QED BY <1>3, <1>4, <1>5, <1>6 DEF IInv

\* The reads after the header block: what they have in common.
LEMMA LaterKeeps ==
    ASSUME IInv,
           phase \notin {"line", "header", "done"}, phase' \notin {"line", "header"},
           phase' \in {"target", "body", "size", "data", "chunkEnd", "trailer", "done"},
           verdict' \in Verdicts \ {"TooLarge"}, phase' = "done" <=> verdict' # "none",
           pos' \in 0..Len(input), body' \in Seq(STRING), size' \in Nat,
           keepAlive' \in BOOLEAN, bodyParsed' \in BOOLEAN,
           UNCHANGED <<sent, input, line, rawHeader, counted, header>>
    PROVE  IInv'
<1>1. TypeOK'
  BY DEF IInv, TypeOK, Verdicts
<1>2. HeaderReadIsBounded'
  BY DEF HeaderReadIsBounded
<1> QED BY <1>1, <1>2 DEF IInv, LengthSound, Values

\* The length readBody goes by: none, or one number.
LEMMA JoinedLength ==
    ASSUME IInv
    PROVE  Joined(header, ContentLength) \in {<<>>} \cup {<<n>> : n \in DOMAIN NumberOf}
<1>1. CASE Values(header, ContentLength) = <<>>
  BY <1>1 DEF Joined
<1>2. CASE \E n \in DOMAIN NumberOf : Values(header, ContentLength) = << <<n>> >>
  <2>1. PICK n \in DOMAIN NumberOf : Values(header, ContentLength) = << <<n>> >>
    BY <1>2
  <2> DEFINE more == [i \in 1..(Len(<< <<n>> >>) - 1) |-> <<Comma>> \o << <<n>> >>[i + 1]]
  <2>2. more = <<>>
    OBVIOUS
  <2>3. FlattenSeq(<<>>) = <<>>
    BY DEF FlattenSeq
  <2>4. Joined(header, ContentLength) = <<n>> \o FlattenSeq(more)
    BY <2>1 DEF Joined
  <2> HIDE DEF more
  <2>5. <<n>> \o <<>> = <<n>>
    OBVIOUS
  <2> QED BY <2>2, <2>3, <2>4, <2>5
<1> QED BY <1>1, <1>2 DEF IInv, LengthSound

\* The target and the keep-alive decision.
LEMMA TargetKeeps ==
    ASSUME IInv, ParseTarget
    PROVE  IInv'
<1>1. ComputeKeepAlive \in BOOLEAN
  BY DEF ComputeKeepAlive
<1>2. keepAlive' \in BOOLEAN /\ bodyParsed' \in BOOLEAN
  BY <1>1 DEF IInv, TypeOK, ParseTarget, Refuse, Return, Continue, Goto
<1>3. /\ phase = "target"
      /\ \/ phase' = "body" /\ verdict' = verdict
         \/ phase' = "done" /\ verdict' \in {"accepted", "BadRequest"}
      /\ UNCHANGED <<sent, input, pos, line, rawHeader, counted, header, size, body>>
  BY DEF ParseTarget, Refuse, Return, Continue, Goto
<1> QED BY <1>2, <1>3, LaterKeeps DEF IInv, TypeOK, Verdicts

\* The body of a request that states its length, or states none.
LEMMA BodyKeeps ==
    ASSUME IInv, ReadBody
    PROVE  IInv'
<1>1. /\ phase = "body" /\ bodyParsed' \in BOOLEAN
      /\ \/ phase' = "size" /\ verdict' = verdict
         \/ /\ phase' = "done"
            /\ verdict' \in {"accepted", "BadRequest", "NotImplemented", "LengthRequired", "panic"}
      /\ UNCHANGED <<sent, input, line, rawHeader, counted, header, size, keepAlive>>
  BY DEF IInv, TypeOK, ReadBody, ReadFixed, Accept, Refuse, Return, Continue, Goto
<1>2. pos' \in 0..Len(input) /\ body' \in Seq(STRING)
  <2>1. CASE UNCHANGED <<pos, body>>
    BY <2>1 DEF IInv, TypeOK
  <2>2. CASE \E n \in Nat : /\ Enough(input, pos, n) /\ ~Overruns(input, pos, n)
                            /\ pos' = pos + n /\ body' = Taken(input, pos, n)
    BY <2>2, TakenFacts DEF IInv, TypeOK
  <2> DEFINE length == Joined(header, ContentLength)
  <2>3. CASE length # <<>> /\ ReadFixed(Atoi(length))
    <3>1. PICK n \in DOMAIN NumberOf : length = <<n>>
      BY <2>3, JoinedLength
    <3>2. Atoi(length) \in Nat
      BY <3>1, MaxIntAssumption, SymbolsAssumption DEF Atoi
    <3> HIDE DEF length
    <3> QED BY <2>1, <2>2, <2>3, <3>2 DEF ReadFixed
  <2> QED BY <2>1, <2>3 DEF ReadBody
<1> QED BY <1>1, <1>2, LaterKeeps DEF IInv, TypeOK, Verdicts

\* A chunk's size line.
LEMMA ChunkSizeKeeps ==
    ASSUME IInv, ReadChunkSize
    PROVE  IInv'
<1> DEFINE text == Line(input, pos, MaxLineLength)
<1>1. pos + Len(text) \in 0..Len(input)
  BY LineFacts, CapsAssumption DEF IInv, TypeOK
<1>2. size' \in Nat
  <2>1. IsSizeLine(text) => NumberOf[text[1]] \in Nat
    BY SymbolsAssumption DEF IsSizeLine
  <2>2. size' = size \/ (IsSizeLine(text) /\ size' = NumberOf[text[1]])
    BY DEF ReadChunkSize
  <2> HIDE DEF text
  <2> QED BY <2>1, <2>2 DEF IInv, TypeOK
<1>3. /\ phase = "size" /\ pos' = pos + Len(text)
      /\ \/ phase' \in {"trailer", "data"} /\ verdict' = verdict
         \/ phase' = "done" /\ verdict' = "BadRequest"
      /\ UNCHANGED <<sent, input, line, rawHeader, counted, header, body, keepAlive, bodyParsed>>
  BY DEF ReadChunkSize, Refuse, Return, Continue, Goto
<1> HIDE DEF text
<1> QED BY <1>1, <1>2, <1>3, LaterKeeps DEF IInv, TypeOK, Verdicts

\* A chunk's data.
LEMMA ChunkDataKeeps ==
    ASSUME IInv, ReadChunkData
    PROVE  IInv'
<1>1. /\ phase = "data"
      /\ \/ phase' = "chunkEnd" /\ verdict' = verdict
         \/ phase' = "done" /\ verdict' \in {"BadRequest", "panic"}
      /\ UNCHANGED <<sent, input, line, rawHeader, counted, header, size, keepAlive, bodyParsed>>
  BY DEF ReadChunkData, Refuse, Return, Continue, Goto
<1>2. pos' \in 0..Len(input) /\ body' \in Seq(STRING)
  <2>1. CASE UNCHANGED <<pos, body>>
    BY <2>1 DEF IInv, TypeOK
  <2>2. CASE /\ Enough(input, pos, size) /\ ~Overruns(input, pos, size)
             /\ pos' = pos + size /\ body' = body \o Taken(input, pos, size)
    <3>1. Taken(input, pos, size) \in Seq(STRING) /\ pos + size \in 0..Len(input)
      BY <2>2, TakenFacts DEF IInv, TypeOK
    <3> QED BY <2>2, <3>1 DEF IInv, TypeOK
  <2> QED BY <2>1, <2>2 DEF ReadChunkData
<1> QED BY <1>1, <1>2, LaterKeeps DEF IInv, TypeOK, Verdicts

\* The end of a chunk's data.
LEMMA ChunkEndKeeps ==
    ASSUME IInv, ReadChunkEnd
    PROVE  IInv'
<1> DEFINE text == Line(input, pos, MaxLineLength)
<1>1. pos + Len(text) \in 0..Len(input)
  BY LineFacts, CapsAssumption DEF IInv, TypeOK
<1>2. /\ phase = "chunkEnd" /\ pos' = pos + Len(text)
      /\ \/ phase' = "size" /\ verdict' = verdict
         \/ phase' = "done" /\ verdict' = "BadRequest"
      /\ UNCHANGED <<sent, input, line, rawHeader, counted, header, size, body, keepAlive,
                     bodyParsed>>
  BY DEF ReadChunkEnd, Refuse, Return, Continue, Goto
<1> HIDE DEF text
<1> QED BY <1>1, <1>2, LaterKeeps DEF IInv, TypeOK, Verdicts

\* A trailer line.
LEMMA TrailerLineKeeps ==
    ASSUME IInv, ReadTrailerLine
    PROVE  IInv'
<1> DEFINE text == Line(input, pos, MaxLineLength)
<1>1. pos + Len(text) \in 0..Len(input)
  BY LineFacts, CapsAssumption DEF IInv, TypeOK
<1>2. /\ phase = "trailer" /\ pos' = pos + Len(text) /\ bodyParsed' \in BOOLEAN
      /\ \/ phase' = "trailer" /\ verdict' = verdict
         \/ phase' = "done" /\ verdict' = "accepted"
      /\ UNCHANGED <<sent, input, line, rawHeader, counted, header, size, body, keepAlive>>
  BY DEF IInv, TypeOK, ReadTrailerLine, Accept, Return, Continue, Goto
<1> HIDE DEF text
<1> QED BY <1>1, <1>2, LaterKeeps DEF IInv, TypeOK, Verdicts

\* A step that changes nothing.
LEMMA StutterKeeps ==
    ASSUME IInv, UNCHANGED vars
    PROVE  IInv'
<1>1. TypeOK' /\ HeaderReadIsBounded'
  BY DEF IInv, vars, TypeOK, HeaderReadIsBounded
<1> QED BY <1>1 DEF IInv, vars, LengthSound, Values

-----------------------------------------------------------------------------
(* How far a request has been read, and what it has shown to be.           *)

\* The cursor is where the lines of a block are read: a piece of a line starts
\* here, or the input has ended before the block has.
Within(base, lines, p) ==
    \/ Inside(base, lines, p)
    \/ p = Len(input) /\ Len(input) < base + Len(FlattenSeq(lines)) + 2

LineTaken ==
    /\ line = [method |-> sent.method, target |-> sent.target, version |-> VersionMeant(sent)]
    /\ Len(LineOf(sent)) <= MaxURILength
    /\ sent.method \in Methods
    /\ \A i \in DOMAIN sent.target : sent.target[i] \notin Spaced

InHeader ==
    /\ HasHead(sent) /\ LineTaken /\ counted = pos
    /\ Len(LineOf(sent)) <= pos
    /\ rawHeader = SubSeq(input, Len(LineOf(sent)) + 1, pos)
    /\ Within(Len(LineOf(sent)), LinesOf(sent.fields), pos)

HeadTaken ==
    /\ LineTaken /\ ~TooLarge(sent) /\ ~BadHead(sent)
    /\ header = IF HasHead(sent) THEN ParseHeader(Block(sent.fields)) ELSE NoHeader
    /\ PayloadStart(sent) <= Len(input)

Routed == HeadTaken /\ Routable(sent) /\ sent.target[1] = "/"

\* The first k chunks have been read.
ChunkAt(k) == PayloadStart(sent) + Len(Upto(ChunksOf(sent), k))
ChunksTaken(k) ==
    /\ Routed /\ sent.chunked /\ Lengths(sent) = <<>>
    /\ \A i \in 1..k : ~BadChunk(sent.chunks[i])
    /\ body = Upto(DataOf(sent), k)

Progress ==
    /\ phase \in {"line", "header"} => header = NoHeader
    /\ phase # "done" => ~bodyParsed
    /\ phase \in {"line", "header", "target"} => ~keepAlive
    /\ phase \in {"line", "header", "target", "body"} => body = <<>>
    /\ phase = "line" => rawHeader = <<>>
    /\ phase = "header" => InHeader
    /\ phase = "target" => HeadTaken /\ pos = PayloadStart(sent)
    /\ phase = "body" => Routed /\ pos = PayloadStart(sent)
    /\ phase = "size" => \E k \in 0..Len(sent.chunks) : ChunksTaken(k) /\ pos = ChunkAt(k)
    /\ phase = "data" => \E k \in 1..Len(sent.chunks) :
          LET c == sent.chunks[k]
          IN  /\ ChunksTaken(k - 1) /\ pos = ChunkAt(k - 1) + Len(SizeLine(c))
              /\ IsSizeLine(SizeLine(c)) /\ Len(SizeLine(c)) <= MaxLineLength
              /\ size = NumberOf[c.size]
    /\ phase = "chunkEnd" => \E k \in 1..Len(sent.chunks) :
          ChunksTaken(k) /\ pos + 2 = ChunkAt(k)
    /\ phase = "trailer" =>
          /\ ChunksTaken(Len(sent.chunks)) /\ TrailerStart(sent) <= Len(input)
          /\ Within(TrailerStart(sent), LinesOf(sent.trailer), pos)

PInv ==
    /\ sent \in Requests /\ input \in Arrivals(Wire(sent))
    /\ Progress
    /\ verdict = "accepted" => HeadTaken
    /\ VerdictIsDeserved /\ AcceptedIsWhole /\ KeptAliveIsDrained

-----------------------------------------------------------------------------
(* What every state gives.                                                 *)

\* The bytes in hand, and the request they are of.
LEMMA Standing ==
    ASSUME PInv
    PROVE  /\ Grammar(sent) /\ Wire(sent) \in Seq(STRING) /\ input \in Seq(STRING)
           /\ Agrees(input, Wire(sent)) /\ Len(input) <= MaxInt
           /\ Len(input) \in Nat /\ Len(Wire(sent)) \in Nat
           /\ Complete <=> Len(Wire(sent)) <= Len(input)
           /\ sent.chunked =>
                 (IsPrefix(UpToTrailer(sent), input) <=> TrailerStart(sent) <= Len(input))
<1>1. Grammar(sent) /\ input \in Arrivals(Wire(sent)) /\ Len(input) <= MaxInt
  BY ClientsAssumption DEF PInv
<1>2. Wire(sent) \in Seq(STRING) /\ At(Wire(sent), 0, UpToTrailer(sent))
  BY <1>1, WireFacts
<1>3. input \in Seq(STRING) /\ Agrees(input, Wire(sent))
  BY <1>1, <1>2, ArrivalFacts
<1> DEFINE wire == Wire(sent)
<1>4. wire \in Seq(STRING) /\ Agrees(input, wire)
  BY <1>2, <1>3
<1>5. UpToTrailer(sent) \in Seq(STRING)
  BY <1>1, UpToTrailerFacts
<1>6. At(wire, 0, wire)
  <2> HIDE DEF wire
  <2> QED BY <1>4 DEF At
<1>7. Complete <=> Len(wire) <= Len(input)
  <2>1. Complete <=> IsPrefix(wire, input)
    BY DEF Complete
  <2> HIDE DEF wire
  <2> QED BY <1>3, <1>4, <1>6, <2>1, PrefixIs
<1>8. IsPrefix(UpToTrailer(sent), input) <=> TrailerStart(sent) <= Len(input)
  <2> DEFINE u == UpToTrailer(sent)
  <2>1. At(wire, 0, u) /\ u \in Seq(STRING)
    BY <1>2, <1>5
  <2> HIDE DEF wire, u
  <2>2. IsPrefix(u, input) <=> Len(u) <= Len(input)
    BY <1>3, <1>4, <2>1, PrefixIs
  <2> QED BY <2>2 DEF u, TrailerStart
<1> QED BY <1>1, <1>3, <1>4, <1>7, <1>8

\* What is wrong with a request depends on it and the input only.
LEMMA SameFaults ==
    ASSUME UNCHANGED <<sent, input>>
    PROVE  /\ Faults(sent)' = Faults(sent) /\ Complete' = Complete
           /\ TrailerCut' = TrailerCut /\ TrailerSplit' = TrailerSplit
<1>1. Overlong(sent)' <=> Overlong(sent)
  BY DEF Overlong
<1>2. Faults(sent)' = Faults(sent)
  BY <1>1 DEF Faults
<1>3. Complete' <=> Complete
  BY DEF Complete
<1> QED BY <1>2, <1>3 DEF TrailerCut, TrailerSplit, Complete

\* A refusal needs a fault only of a request that has arrived whole.
LEMMA Refused ==
    ASSUME PInv, UNCHANGED <<sent, input>>, phase' = "done",
           verdict' # "accepted", Complete => verdict' \in Faults(sent)
    PROVE  PInv'
<1>1. sent' \in Requests /\ input' \in Arrivals(Wire(sent'))
  BY DEF PInv
<1>2. Progress'
  BY DEF Progress
<1>3. VerdictIsDeserved'
  BY SameFaults DEF VerdictIsDeserved
<1>4. AcceptedIsWhole' /\ KeptAliveIsDrained'
  BY DEF AcceptedIsWhole, KeptAliveIsDrained
<1> QED BY <1>1, <1>2, <1>3, <1>4 DEF PInv

\* An acceptance needs a request read to its end, or handed over unread.
LEMMA Accepted ==
    ASSUME PInv, UNCHANGED <<sent, input, line, header>>, phase' = "done",
           verdict' = "accepted", HeadTaken,
           IF bodyParsed' THEN body' = Meant(sent) /\ (Complete \/ TrailerCut)
                          ELSE ~Routable(sent) /\ ~keepAlive',
           keepAlive' /\ ~TrailerCut /\ ~TrailerSplit => pos' = Len(Wire(sent)),
           Complete => Faults(sent) = {}
    PROVE  PInv'
<1>1. sent' \in Requests /\ input' \in Arrivals(Wire(sent'))
  BY DEF PInv
<1>2. Progress'
  BY DEF Progress
<1>3. VerdictIsDeserved'
  BY SameFaults DEF VerdictIsDeserved
<1>4. AcceptedIsWhole'
  BY SameFaults DEF AcceptedIsWhole
<1>5. KeptAliveIsDrained'
  BY SameFaults DEF KeptAliveIsDrained
<1>6. HeadTaken'
  BY DEF HeadTaken, LineTaken
<1> QED BY <1>1, <1>2, <1>3, <1>4, <1>5, <1>6 DEF PInv

\* As long as the call goes on, only the progress is new.
LEMMA Continued ==
    ASSUME PInv, UNCHANGED <<sent, input>>, verdict' = "none", Progress'
    PROVE  PInv'
<1>1. sent' \in Requests /\ input' \in Arrivals(Wire(sent'))
  BY DEF PInv
<1>2. VerdictIsDeserved' /\ AcceptedIsWhole' /\ KeptAliveIsDrained'
  BY DEF VerdictIsDeserved, AcceptedIsWhole, KeptAliveIsDrained
<1> QED BY <1>1, <1>2 DEF PInv

-----------------------------------------------------------------------------
(* The request line.                                                       *)

\* What the request line that was sent says.
LEMMA LineSent ==
    ASSUME NEW m, Grammar(m)
    PROVE  LET y == LineOf(m)
           IN  /\ Versioned(y) <=> m.version # "none"
               /\ m.version # "none" => Last(WithoutEnd(y)) = m.version
               /\ TargetIn(y) = m.target
               /\ IsRequestLine(y) <=>
                     m.method \in Methods /\ \A i \in DOMAIN m.target : m.target[i] \notin Spaced
               /\ y[1] = m.method
<1> DEFINE y == LineOf(m)
           g == m.target
           w == <<m.method>>
           v == IF m.version = "none" THEN <<>> ELSE <<m.version>>
           u == g \o v
           t == w \o u
           n == Len(g)
<1>1. /\ m.method \in Symbols /\ g \in Seq(Symbols) /\ g # <<>>
      /\ \A i \in 1..n : g[i] \notin DOMAIN VersionOf
      /\ m.version \in DOMAIN VersionOf \cup {"none"}
  BY GrammarFacts
<1>2. /\ y[1] = m.method /\ Len(y) = n + Len(v) + 3
      /\ WithoutEnd(y) = t /\ EndsLine(y)
  BY LineOfFacts
<1>3. v \in Seq(Symbols) /\ (m.version = "none" => Len(v) = 0)
      /\ (m.version # "none" => Len(v) = 1 /\ v[1] = m.version)
  <2>1. m.version # "none" => m.version \in Symbols
    BY <1>1, SymbolsAssumption
  <2> QED BY <2>1
<1>4. w \in Seq(Symbols) /\ Len(w) = 1
  BY <1>1
<1>5. n \in Nat /\ n >= 1 /\ DOMAIN g = 1..n
  BY <1>1
<1> HIDE DEF y, w, v, n
<1>6. u \in Seq(Symbols) /\ Len(u) = n + Len(v) /\ At(u, 0, g) /\ At(u, n, v)
  BY <1>1, <1>3, AtConcat DEF n
<1> HIDE DEF g, u
<1>7. t \in Seq(Symbols) /\ Len(t) = 1 + Len(u) /\ At(t, 1, u)
  BY <1>4, <1>6, AtConcat
<1> HIDE DEF t
<1>8. At(t, 1 + 0, g) /\ At(t, 1 + n, v)
  BY <1>1, <1>3, <1>5, <1>6, <1>7, AtWithin
<1>9. Len(v) \in Nat /\ Len(t) = 1 + n + Len(v)
  BY <1>3, <1>5, <1>6, <1>7
<1>10. \A i \in 1..n : t[1 + i] = g[i]
  BY <1>8 DEF At, n
<1>11. ASSUME m.version # "none"
       PROVE  Versioned(y) /\ Last(t) = m.version /\ Len(t) - 1 = n + 1
  <2>0. Len(v) = 1 /\ v[1] = m.version
    BY <1>3, <1>11, Zenon
  <2>1. Len(v) = 1 /\ v[1] = m.version /\ Len(t) = n + 2
    BY <1>5, <1>9, <2>0
  <2>2. Last(t) = m.version
    <3>1. t[1 + n + 1] = v[1]
      <4>1. 1 \in 1..Len(v)
        BY <2>1
      <4> QED BY <1>8, <4>1 DEF At
    <3>2. 1 + n + 1 = Len(t)
      BY <1>5, <2>1
    <3> QED BY <2>1, <3>1, <3>2 DEF Last
  <2>3. Versioned(y)
    BY <1>1, <1>2, <1>11, <2>2 DEF Versioned
  <2> QED BY <1>5, <2>1, <2>2, <2>3
<1>12. ASSUME m.version = "none"
       PROVE  ~Versioned(y) /\ Len(t) = n + 1
  <2>1. Len(v) = 0 /\ Len(t) = n + 1
    BY <1>3, <1>9, <1>12, <1>5
  <2>2. Last(t) = g[n]
    <3>1. n \in 1..n /\ 1 + n = Len(t)
      BY <1>5, <2>1
    <3> QED BY <1>10, <3>1 DEF Last
  <2>3. ~Versioned(y)
    <3>1. n \in 1..n
      BY <1>5
    <3> QED BY <1>1, <1>2, <2>2, <3>1 DEF Versioned
  <2> QED BY <2>1, <2>3
<1>13. TargetIn(y) = g
  <2>1. TargetIn(y) = SubSeq(t, 2, IF Versioned(y) THEN Len(t) - 1 ELSE Len(t))
    BY <1>2 DEF TargetIn
  <2>2. TargetIn(y) = SubSeq(t, 1 + 1, 1 + n)
    <3>1. 1 + n = n + 1 /\ 1 + 1 = 2
      BY <1>5
    <3> QED BY <1>11, <1>12, <2>1, <3>1
  <2>3. t \in Seq(STRING) /\ g \in Seq(STRING)
    BY <1>1, <1>7, SymbolFacts, SeqMonotonic
  <2>4. At(t, 1, g)
    BY <1>8, <1>5
  <2>5. SubSeq(t, 1 + 1, 1 + Len(g)) = g
    BY <2>3, <2>4, AtCutOut
  <2> QED BY <2>2, <2>5 DEF n
<1>14. Len(y) > 3
  <2>1. Len(v) >= 0
    BY <1>9
  <2> QED BY <1>2, <1>5, <1>9, <2>1
<1>15. IsRequestLine(y) <=> m.method \in Methods /\ \A i \in DOMAIN g : g[i] \notin Spaced
  BY <1>1, <1>2, <1>13, <1>14 DEF IsRequestLine
<1> QED BY <1>2, <1>11, <1>12, <1>13, <1>15 DEF y, g

\* What ParseRequest starts from.
LEMMA PInvStarts ==
    Init => PInv
<1>1. SUFFICES ASSUME Init PROVE PInv
  OBVIOUS
<1>2. Progress
  BY <1>1 DEF Init, Progress
<1>3. VerdictIsDeserved /\ AcceptedIsWhole /\ KeptAliveIsDrained
  BY <1>1 DEF Init, VerdictIsDeserved, AcceptedIsWhole, KeptAliveIsDrained
<1> QED BY <1>1, <1>2, <1>3 DEF Init, PInv

\* readRequestLine takes the line that was sent, or refuses it for a fault.
LEMMA RequestLineReads ==
    ASSUME IInv, PInv, ReadRequestLine
    PROVE  PInv'
<1> DEFINE text == Line(input, pos, MaxURILength)
           y == LineOf(sent)
           wire == Wire(sent)
<1>1. /\ Grammar(sent) /\ wire \in Seq(STRING) /\ input \in Seq(STRING)
      /\ Agrees(input, wire) /\ Len(input) \in Nat /\ Len(wire) \in Nat
      /\ Complete <=> Len(wire) <= Len(input)
  BY Standing
<1>2. /\ phase = "line" /\ pos = 0 /\ pos' = pos + Len(text) /\ verdict = "none"
      /\ UNCHANGED <<sent, input, rawHeader, header, size, body, keepAlive>>
      /\ rawHeader = <<>> /\ header = NoHeader /\ ~bodyParsed /\ ~keepAlive /\ body = <<>>
  BY DEF IInv, ReadRequestLine, PInv, Progress
<1>3. /\ y \in BlockLines /\ At(wire, 0, y) /\ MaxURILength \in Nat \ {0}
      /\ y[1] = sent.method /\ EndsLine(y) /\ Len(y) \in Nat /\ Len(y) >= 3
      /\ y[Len(y)] = LF /\ y \in Seq(STRING)
  <2>1. y \in BlockLines /\ y[1] = sent.method /\ EndsLine(y)
    BY <1>1, LineOfFacts
  <2>2. At(wire, 0, y)
    BY <1>1, WireFacts
  <2> HIDE DEF y
  <2>3. Len(y) \in Nat /\ Len(y) >= 3 /\ y[Len(y)] = LF /\ y \in Seq(STRING)
    BY <2>1 DEF BlockLines
  <2> QED BY <2>1, <2>2, <2>3, CapsAssumption
<1> HIDE DEF y, wire
<1>4. /\ text # <<>> /\ text[Len(text)] = LF => text = y
      /\ EndsLine(text) => text = y
      /\ Len(y) <= MaxURILength /\ 0 + Len(y) <= Len(input) => text = y
      /\ 0 + Len(y) <= Len(input) /\ Len(y) > MaxURILength => Len(text) = MaxURILength /\ text # y
      /\ text \in Seq(STRING) /\ 0 + Len(text) \in 0..Len(input) /\ Len(text) \in 0..MaxURILength
  <2>1. 0 \in Nat /\ 0 <= Len(input) /\ 0 \in 0..Len(input) /\ MaxURILength \in Nat
    BY <1>1, <1>3
  <2>2. Line(input, 0, MaxURILength) = text
    BY <1>2
  <2> HIDE DEF text
  <2>3. /\ text \in Seq(STRING) /\ 0 + Len(text) \in 0..Len(input)
        /\ Len(text) \in 0..MaxURILength
    BY <1>1, <2>1, <2>2, LineFacts
  <2>4. /\ text # <<>> /\ text[Len(text)] = LF => text = y
        /\ EndsLine(text) => text = y
        /\ Len(y) <= MaxURILength /\ 0 + Len(y) <= Len(input) => text = y
        /\ 0 + Len(y) <= Len(input) /\ Len(y) > MaxURILength => Len(text) = MaxURILength /\ text # y
    BY <1>1, <1>3, <2>1, <2>2, WholeLine
  <2> QED BY <2>3, <2>4
<1>5. Complete => Len(y) <= Len(input)
  BY <1>1, <1>3 DEF At
<1> HIDE DEF text
<1>6. CASE text = <<>>
  <2>1. ~Complete
    <3>1. ASSUME Complete PROVE FALSE
      <4>1. Len(text) = 0 /\ Len(y) <= Len(input)
        BY <1>5, <1>6, <3>1
      <4>2. text # y /\ MaxURILength # 0
        BY <1>3, <4>1
      <4> QED BY <1>3, <1>4, <4>1, <4>2
    <3> QED BY <3>1
  <2>2. verdict' = "EOF" /\ phase' = "done"
    BY <1>6 DEF ReadRequestLine, Refuse, Return, text
  <2> QED BY <1>2, <2>1, <2>2, Refused
<1>7. CASE text # <<>> /\ Len(text) >= MaxURILength /\ Last(text) # LF
  <2>1. verdict' = "TooLarge" /\ phase' = "done"
    BY <1>7, Zenon DEF ReadRequestLine, Refuse, Return, text
  <2>2. Complete => TooLarge(sent)
    <3>1. ASSUME Complete PROVE Len(y) > MaxURILength
      <4>1. Len(y) <= Len(input)
        BY <1>5, <3>1
      <4>2. text # y
        BY <1>3, <1>7 DEF Last
      <4> QED BY <1>3, <1>4, <4>1, <4>2
    <3> QED BY <3>1 DEF TooLarge, y
  <2>3. Complete => verdict' \in Faults(sent)
    BY <2>1, <2>2 DEF Faults, Verdicts
  <2> QED BY <1>2, <2>1, <2>3, Refused
<1>8. CASE text # <<>> /\ ~(Len(text) >= MaxURILength /\ Last(text) # LF) /\ ~IsRequestLine(text)
  <2>1. verdict' = "BadRequest" /\ phase' = "done"
    BY <1>8, Zenon DEF ReadRequestLine, Refuse, Return, text
  <2>2. Complete => BadHead(sent)
    <3>1. ASSUME Complete PROVE BadHead(sent)
      <4>1. Len(y) <= Len(input)
        BY <1>5, <3>1
      <4>2. text = y
        <5>1. CASE Last(text) = LF
          BY <1>4, <1>8, <5>1 DEF Last
        <5>2. CASE ~(Len(text) >= MaxURILength)
          BY <1>3, <1>4, <4>1, <5>2
        <5> QED BY <1>8, <5>1, <5>2
      <4>3. ~IsRequestLine(y)
        BY <1>8, <4>2
      <4>4. ~(sent.method \in Methods /\ \A i \in DOMAIN sent.target : sent.target[i] \notin Spaced)
        BY <1>1, <4>3, LineSent DEF y
      <4> QED BY <4>4 DEF BadHead
    <3> QED BY <3>1
  <2>3. Complete => verdict' \in Faults(sent)
    BY <2>1, <2>2 DEF Faults, Verdicts
  <2> QED BY <1>2, <2>1, <2>3, Refused
<1>9. CASE text # <<>> /\ ~(Len(text) >= MaxURILength /\ Last(text) # LF) /\ IsRequestLine(text)
  <2>1. text = y
    BY <1>4, <1>9 DEF IsRequestLine
  <2> DEFINE version == IF Versioned(text) THEN VersionOf[Last(WithoutEnd(text))] ELSE Version(0, 9)
  <2>2. /\ line' = [method |-> text[1], target |-> TargetIn(text), version |-> version]
        /\ counted' = Len(text) /\ UNCHANGED <<verdict, bodyParsed>>
        /\ phase' = IF version.major > 0 THEN "header" ELSE "target"
    BY <1>9, Zenon DEF ReadRequestLine, Continue, Goto, text
  <2>3. /\ Versioned(y) <=> sent.version # "none"
        /\ sent.version # "none" => Last(WithoutEnd(y)) = sent.version
        /\ TargetIn(y) = sent.target /\ y[1] = sent.method
        /\ sent.method \in Methods /\ \A i \in DOMAIN sent.target : sent.target[i] \notin Spaced
    BY <1>1, <1>9, <2>1, LineSent DEF y
  <2>4. version = VersionMeant(sent)
    BY <2>1, <2>3 DEF VersionMeant
  <2>5. Len(y) <= MaxURILength /\ Len(y) <= Len(input) /\ pos' = Len(y)
    BY <1>2, <1>3, <1>4, <2>1
  <2>6. LineTaken'
    <3>1. line' = [method |-> sent.method, target |-> sent.target, version |-> VersionMeant(sent)]
      BY <2>1, <2>2, <2>3, <2>4
    <3>2. sent' = sent
      BY <1>2
    <3> QED BY <2>3, <2>5, <3>1, <3>2 DEF LineTaken, y
  <2> HIDE DEF version
  <2>7. CASE HasHead(sent)
    <3>1. phase' = "header"
      BY <2>2, <2>4, <2>7 DEF HasHead
    <3>2. rawHeader' = SubSeq(input', Len(LineOf(sent')) + 1, pos')
      <4>1. SubSeq(input, Len(y) + 1, Len(y)) = <<>>
        BY <1>1, <1>3
      <4> QED BY <1>2, <2>5, <4>1 DEF y
    <3>3. Within(Len(LineOf(sent)), LinesOf(sent.fields), pos)'
      <4>1. Inside(Len(y), LinesOf(sent.fields), Len(y))
        <5>1. LinesOf(sent.fields) \in Seq(BlockLines)
          BY <1>1, GrammarFacts, LinesOfFacts
        <5> QED BY <1>3, <5>1, InsideStarts
      <4>2. pos' = Len(y) /\ sent' = sent /\ Len(LineOf(sent)) = Len(y)
        BY <1>2, <2>5 DEF y
      <4> QED BY <4>1, <4>2 DEF Within
    <3>4. counted' = pos' /\ Len(LineOf(sent')) <= pos' /\ sent' = sent
      BY <1>2, <1>3, <2>1, <2>2, <2>5 DEF y
    <3>5. InHeader'
      BY <2>6, <2>7, <3>2, <3>3, <3>4 DEF InHeader
    <3>6. Progress'
      BY <1>2, <2>2, <3>1, <3>5 DEF Progress
    <3> QED BY <1>2, <2>2, <3>6, Continued
  <2>8. CASE ~HasHead(sent)
    <3>1. phase' = "target"
      BY <2>2, <2>4, <2>8 DEF HasHead
    <3>2. HeadOf(sent) = LineOf(sent) /\ PayloadStart(sent) = Len(y)
      <4>1. HeadOf(sent) = LineOf(sent)
        BY <1>1, <2>8, HeadFacts
      <4> QED BY <1>3, <2>8, <4>1 DEF PayloadStart, y
    <3>3. ~TooLarge(sent) /\ ~BadHead(sent)
      BY <1>3, <2>3, <2>5, <2>8, CapsAssumption DEF TooLarge, BadHead, y
    <3>4. HeadTaken'
      BY <1>2, <2>5, <2>6, <2>8, <3>2, <3>3 DEF HeadTaken
    <3>5. pos' = PayloadStart(sent)'
      BY <1>2, <2>5, <3>2
    <3>6. Progress'
      BY <1>2, <2>2, <3>1, <3>4, <3>5 DEF Progress
    <3> QED BY <1>2, <2>2, <3>6, Continued
  <2> QED BY <2>7, <2>8
<1> QED BY <1>6, <1>7, <1>8, <1>9

-----------------------------------------------------------------------------
(* The header block.                                                       *)

\* One bad line makes a bad header.
LEMMA BadLine ==
    ASSUME NEW lines \in Seq(BlockLines), NEW n \in 1..Len(lines), ~Sound(lines[n])
    PROVE  ~Gathered(lines).h.ok
<1> DEFINE P == {ls \in Seq(BlockLines) :
                   (\E i \in 1..Len(ls) : ~Sound(ls[i])) => ~Gathered(ls).h.ok}
<1>1. <<>> \in P
  OBVIOUS
<1>2. ASSUME NEW ls \in Seq(BlockLines), NEW y \in BlockLines, ls \in P PROVE Append(ls, y) \in P
  <2> DEFINE us == Append(ls, y)
             k == Len(ls)
             a == Gathered(ls)
  <2>1. us \in Seq(BlockLines) /\ k \in Nat /\ Len(us) = k + 1 /\ us[k + 1] = y
        /\ \A i \in 1..k : us[i] = ls[i]
    OBVIOUS
  <2>2. ls \in Seq(Seq(STRING)) /\ y \in Seq(STRING)
    BY LinesAreTexts
  <2>3. a \in Accs /\ Gathered(us) = WithLine(a, y)
    BY <2>2, GatheredAppend, GatheredAccs
  <2> HIDE DEF a, us
  <2>4. ASSUME NEW i \in 1..Len(us), ~Sound(us[i]) PROVE ~Gathered(us).h.ok
    <3>1. CASE i = k + 1
      <4>1. ~IsField(y) /\ ~IsFold(y)
        BY <2>1, <2>4, <3>1 DEF IsField, IsFold
      <4> QED BY <2>2, <2>3, <4>1, LineStep
    <3>2. CASE i # k + 1
      <4>1. i \in 1..k /\ ~Sound(ls[i])
        BY <2>1, <2>4, <3>2
      <4>2. ~a.h.ok
        BY <1>2, <4>1 DEF a
      <4> QED BY <2>2, <2>3, <4>2, LineStep
    <3> QED BY <3>1, <3>2
  <2> QED BY <2>1, <2>4 DEF us
<1> HIDE DEF P
<1>3. Seq(BlockLines) \subseteq P
  BY <1>1, <1>2, Texts!SeqInduction
<1> QED BY <1>3 DEF P

\* A NUL that was sent, and a block that ends within a line, are both noticed.
LEMMA NulNoticed ==
    ASSUME NEW fields \in Seq(Field1), NEW n \in 1..Len(LinesOf(fields)),
           NEW k \in 1..Len(LinesOf(fields)[n]), LinesOf(fields)[n][k] = NUL
    PROVE  ~NoneBad(fields)
<1> DEFINE lines == LinesOf(fields)
           y == lines[n]
           l == Len(y)
<1>1. lines \in Seq(BlockLines)
  BY LinesOfFacts
<1> HIDE DEF lines
<1>2. y \in BlockLines
  BY <1>1 DEF lines
<1>3. y \in Seq(STRING) /\ l >= 3 /\ l \in Nat /\ y[l - 1] = CR /\ y[l] = LF
  BY <1>2 DEF BlockLines
<1>4. k \in 1..l /\ y[k] = NUL
  BY DEF lines
<1> HIDE DEF y, l
<1>5. k \in 1..(l - 2)
  <2>1. NUL # CR /\ NUL # LF
    BY DEF NUL, CR, LF
  <2>2. k # l /\ k # l - 1
    BY <1>3, <1>4, <2>1
  <2> QED BY <1>3, <1>4, <2>2
<1>6. DOMAIN WithoutEnd(y) = 1..(l - 2)
  <2>1. 1 \in 1..(Len(y) + 1) /\ l - 2 \in (1 - 1)..Len(y)
    BY <1>3 DEF l
  <2>2. WithoutEnd(y) \in Seq(STRING) /\ Len(WithoutEnd(y)) = (l - 2) - 1 + 1
    BY <1>3, <2>1, Part DEF WithoutEnd, l
  <2> QED BY <1>3, <2>2
<1>7. ~Sound(y)
  BY <1>4, <1>5, <1>6 DEF Sound
<1>8. ~Gathered(lines).h.ok
  <2>1. n \in 1..Len(lines) /\ ~Sound(lines[n])
    BY <1>7 DEF lines, y
  <2> QED BY <1>1, <2>1, BadLine
<1> QED BY <1>8, BlockArrives DEF Arrived, lines

\* So is a block that ends within a line.
LEMMA CutNoticed ==
    ASSUME NEW lines \in Seq(BlockLines), NEW n \in 1..Len(lines),
           NEW t \in Seq(STRING), t # <<>>, \A i \in 1..Len(t) : t[i] # LF
    PROVE  ~ParseHeader(Upto(lines, n - 1) \o t).ok
<1> DEFINE ls == SubSeq(lines, 1, n - 1)
           a == FlattenSeq(ls)
           g == Gathered(ls)
<1>1. ls \in Seq(BlockLines)
  <2>1. n - 1 \in 0..Len(lines) /\ n - 1 \in Int /\ \A i \in 1..(n - 1) : i \in 1..Len(lines)
    OBVIOUS
  <2>2. \A i \in 1..(n - 1) : lines[i] \in BlockLines
    BY <2>1
  <2> QED BY <2>1, <2>2, SubSeqProperties
<1> HIDE DEF ls
<1>2. EachLine(a) = ls /\ (a = <<>> \/ a[Len(a)] = LF)
  BY <1>1, EachLineOfBlock
<1>3. ls \in Seq(Seq(STRING)) /\ a \in Seq(STRING)
  BY <1>1, LinesAreTexts, FlattenFacts
<1> HIDE DEF a
<1>4. \A i \in 1..(Len(t) - 1) : t[i] # LF
  OBVIOUS
<1>5. EachLine(a \o t) = Append(ls, t)
  BY <1>2, <1>3, <1>4, EachLineGrows
<1>6. g \in Accs /\ Gathered(Append(ls, t)) = WithLine(g, t)
  BY <1>3, GatheredAppend, GatheredAccs
<1>7. ~EndsLine(t)
  <2>1. ASSUME EndsLine(t) PROVE FALSE
    <3> DEFINE l == Len(t)
               e == SubSeq(t, l - 1, l)
    <3>1. l >= 2 /\ l \in Nat /\ e = EndOfLine
      BY <2>1 DEF EndsLine
    <3>2. e[2] = t[l]
      BY <3>1
    <3> HIDE DEF e, l
    <3>3. EndOfLine[2] = LF
      BY SymbolFacts
    <3>4. t[l] = LF /\ l \in 1..Len(t)
      BY <3>1, <3>2, <3>3 DEF l
    <3> QED BY <3>4
  <2> QED BY <2>1
<1>8. ~IsField(t) /\ ~IsFold(t)
  BY <1>7 DEF IsField, IsFold, Sound
<1> HIDE DEF g
<1>9. ~WithLine(g, t).h.ok
  BY <1>6, <1>8, LineStep
<1> DEFINE end == Gathered(EachLine(a \o t)).h
<1>10. ~end.ok /\ end \in Stores
  <2>1. Gathered(Append(ls, t)) \in Accs
    BY <1>6, LineStep
  <2> QED BY <1>5, <1>6, <1>9, <2>1 DEF Accs
<1>11. ParseHeader(a \o t) =
         [end EXCEPT !.values = [m \in FieldNames |-> [i \in DOMAIN @[m] |-> Trim(@[m][i])]]]
  BY DEF ParseHeader
<1> HIDE DEF end
<1>12. ParseHeader(a \o t).ok = end.ok
  BY <1>10, <1>11 DEF Stores
<1> QED BY <1>10, <1>12 DEF a, ls, Upto

\* A list of trimmed values and the list of what is in them.
LEMMA ValuesSent ==
    ASSUME NEW vs \in Seq(Seq(STRING)),
           \A i \in 1..Len(vs) : vs[i] # <<>> => SP \notin {vs[i][1], Last(vs[i])}
    PROVE  /\ vs = <<>> <=> Inks(vs) = <<>>
           /\ vs = << <<>> >> <=> Inks(vs) = << <<>> >>
           /\ \A x : vs = << <<x>> >> <=> Inks(vs) = << <<x>> >>
<1> DEFINE us == Inks(vs)
           X == Seq(STRING)
<1>1. vs \in Seq(X) /\ us \in Seq(X) /\ Len(us) = Len(vs) /\ Len(vs) \in Nat
  BY InksFacts
<1>2. \A i \in 1..Len(vs) : us[i] = Ink(vs[i])
  BY DEF Inks
<1> HIDE DEF us
<1>3. vs = <<>> <=> us = <<>>
  <2> HIDE DEF X
  <2>1. (vs = <<>> <=> Len(vs) = 0) /\ (us = <<>> <=> Len(us) = 0)
    BY <1>1
  <2> QED BY <1>1, <2>1
<1>4. ASSUME Len(vs) = 1
      PROVE  /\ vs = <<vs[1]>> /\ us = <<us[1]>> /\ us[1] = Ink(vs[1])
             /\ (vs[1] = <<>> <=> us[1] = <<>>)
             /\ \A x : vs[1] = <<x>> <=> us[1] = <<x>>
  <2>1. vs = <<vs[1]>> /\ us = <<us[1]>>
    <3> HIDE DEF X
    <3> QED BY <1>1, <1>4, OneIs
  <2> DEFINE v == vs[1]
  <2>2. v \in Seq(STRING) /\ us[1] = Ink(v) /\ (v # <<>> => SP \notin {v[1], Last(v)})
    BY <1>1, <1>2, <1>4
  <2> HIDE DEF v
  <2>3. /\ Ink(v) = <<>> => v = <<>>
        /\ \A x : Ink(v) = <<x>> => v = <<x>>
        /\ \A x : x # SP /\ v = <<x>> => Ink(v) = <<x>>
    BY <2>2, TrimmedIs
  <2>4. v = <<>> => Ink(v) = <<>>
    BY InkFew
  <2>5. ASSUME NEW x, v = <<x>> PROVE x # SP
    <3>1. v # <<>> /\ v[1] = x
      BY <2>5
    <3> QED BY <2>2, <3>1
  <2> QED BY <2>1, <2>2, <2>3, <2>4, <2>5 DEF v
<1>5. ASSUME NEW z PROVE vs = <<z>> <=> Len(vs) = 1 /\ vs[1] = z
  <2>1. vs = <<z>> => Len(vs) = 1 /\ vs[1] = z
    OBVIOUS
  <2> QED BY <1>4, <2>1
<1>6. ASSUME NEW z PROVE us = <<z>> <=> Len(vs) = 1 /\ us[1] = z
  <2>1. us = <<z>> => Len(us) = 1 /\ us[1] = z
    OBVIOUS
  <2> QED BY <1>1, <1>4, <2>1
<1>7. vs = << <<>> >> <=> us = << <<>> >>
  <2> DEFINE z == <<>>
  <2>1. vs = <<z>> <=> Len(vs) = 1 /\ vs[1] = z
    BY <1>5
  <2>2. us = <<z>> <=> Len(vs) = 1 /\ us[1] = z
    BY <1>6
  <2>3. Len(vs) = 1 => (vs[1] = z <=> us[1] = z)
    BY <1>4
  <2> QED BY <2>1, <2>2, <2>3
<1>8. ASSUME NEW x PROVE vs = << <<x>> >> <=> us = << <<x>> >>
  <2> DEFINE z == <<x>>
  <2>1. vs = <<z>> <=> Len(vs) = 1 /\ vs[1] = z
    BY <1>5
  <2>2. us = <<z>> <=> Len(vs) = 1 /\ us[1] = z
    BY <1>6
  <2>3. Len(vs) = 1 => (vs[1] = z <=> us[1] = z)
    BY <1>4
  <2> QED BY <2>1, <2>2, <2>3
<1> QED BY <1>3, <1>7, <1>8 DEF us

\* The header model of the block that was sent.
LEMMA ModelSent ==
    ASSUME NEW m, Grammar(m), ParseHeader(Block(m.fields)).ok
    PROVE  LET h == ParseHeader(Block(m.fields))
           IN  /\ \A n \in FieldNames :
                     /\ Values(h, n) \in Seq(Seq(STRING))
                     /\ Values(h, n) = <<>> <=> Sent(m, n) = <<>>
                     /\ Values(h, n) = << <<>> >> <=> Sent(m, n) = << <<>> >>
                     /\ \A x : Values(h, n) = << <<x>> >> <=> Sent(m, n) = << <<x>> >>
               /\ LengthSound(h) <=> ~BadLengths(Sent(m, ContentLength))
<1> DEFINE h == ParseHeader(Block(m.fields))
<1>1. m.fields \in Seq(Field1)
  BY GrammarFacts
<1>2. ASSUME NEW n \in FieldNames
      PROVE  /\ Values(h, n) \in Seq(Seq(STRING))
             /\ Values(h, n) = <<>> <=> Sent(m, n) = <<>>
             /\ Values(h, n) = << <<>> >> <=> Sent(m, n) = << <<>> >>
             /\ \A x : Values(h, n) = << <<x>> >> <=> Sent(m, n) = << <<x>> >>
             /\ Sent(m, n) = Inks(Values(h, n))
  <2> DEFINE vs == h.values[n]
  <2>1. /\ vs \in Seq(Seq(STRING))
        /\ \A i \in 1..Len(vs) : vs[i] # <<>> => SP \notin {vs[i][1], Last(vs[i])}
        /\ Inks(vs) = SentIn(m.fields, n)
    BY <1>1, BlockParses
  <2> HIDE DEF vs
  <2>2. /\ vs = <<>> <=> Inks(vs) = <<>>
        /\ vs = << <<>> >> <=> Inks(vs) = << <<>> >>
        /\ \A x : vs = << <<x>> >> <=> Inks(vs) = << <<x>> >>
    BY <2>1, ValuesSent
  <2>3. Values(h, n) = vs /\ Sent(m, n) = Inks(vs)
    BY <2>1 DEF Values, Sent, vs
  <2> QED BY <2>1, <2>2, <2>3
<1> HIDE DEF h
<1>3. LengthSound(h) <=> ~BadLengths(Sent(m, ContentLength))
  <2> DEFINE vs == Values(h, ContentLength)
             s == Sent(m, ContentLength)
             D == DOMAIN NumberOf
  <2>1. /\ vs = <<>> <=> s = <<>>
        /\ \A x : vs = << <<x>> >> <=> s = << <<x>> >>
        /\ vs \in Seq(Seq(STRING)) /\ s = Inks(vs)
    BY <1>2, SymbolsAssumption
  <2>2. LengthSound(h) <=> vs = <<>> \/ \E x \in D : vs = << <<x>> >>
    BY DEF LengthSound
  <2>3. s \in Seq(Seq(STRING))
    BY <2>1, InksFacts
  <2>4. BadLengths(s) <=> Len(s) > 1 \/ (s # <<>> /\ ~(Len(s[1]) = 1 /\ s[1][1] \in D))
    BY DEF BadLengths
  <2> DEFINE X == Seq(STRING)
  <2>5. s \in Seq(X) /\ \A i \in 1..Len(s) : s[i] \in Seq(STRING)
    BY <2>3
  <2> HIDE DEF vs, s, D
  <2>6. ASSUME NEW x \in D, s = << <<x>> >> PROVE ~BadLengths(s)
    <3>1. Len(s) = 1 /\ s[1] = <<x>>
      BY <2>6
    <3>2. Len(s[1]) = 1 /\ s[1][1] = x
      BY <3>1
    <3> QED BY <2>4, <2>6, <3>1, <3>2
  <2>7. ASSUME s = <<>> PROVE ~BadLengths(s)
    <3>1. Len(s) = 0
      BY <2>7
    <3> QED BY <2>4, <2>7, <3>1
  <2>8. ASSUME ~BadLengths(s), s # <<>> PROVE \E x \in D : s = << <<x>> >>
    <3> HIDE DEF X
    <3> DEFINE l == Len(s)
    <3>1. l \in Nat /\ l # 0 /\ ~(l > 1)
      BY <2>4, <2>5, <2>8
    <3> HIDE DEF l
    <3>7. l = 1
      BY <3>1
    <3>2. Len(s) = 1
      BY <3>7 DEF l
    <3>3. s = <<s[1]>>
      BY <2>5, <3>2, OneIs
    <3> DEFINE u == s[1]
    <3>4. u \in Seq(STRING) /\ Len(u) = 1 /\ u[1] \in D
      BY <2>4, <2>5, <2>8, <3>2
    <3> HIDE DEF u
    <3>5. u = <<u[1]>>
      BY <3>4, OneIs
    <3>6. s = << <<u[1]>> >>
      BY <3>3, <3>5 DEF u
    <3> QED BY <3>4, <3>6
  <2>9. LengthSound(h) <=> s = <<>> \/ \E x \in D : s = << <<x>> >>
    BY <2>1, <2>2
  <2> QED BY <2>6, <2>7, <2>8, <2>9 DEF s
<1> QED BY <1>2, <1>3 DEF h

\* The larger cap is the header's.
LEMMA ReachIs == Reach = MaxHeaderLength
<1> DEFINE caps == {MaxURILength, MaxHeaderLength}
<1>1. \E x \in caps : \A y \in caps : x >= y
  BY CapsAssumption
<1>2. Reach \in caps /\ \A y \in caps : Reach >= y
  <2> HIDE DEF caps
  <2>1. Reach = Max(caps)
    BY DEF Reach, caps
  <2> QED BY <1>1, <2>1 DEF Max
<1> QED BY <1>2, CapsAssumption

\* What has been read, and the piece that is read next.
LEMMA Extended ==
    ASSUME NEW data \in Seq(STRING), NEW b \in Nat, NEW p \in b..Len(data), NEW cap \in Nat \ {0}
    PROVE  SubSeq(data, b + 1, p) \o Line(data, p, cap)
              = SubSeq(data, b + 1, p + Len(Line(data, p, cap)))
<1> DEFINE text == Line(data, p, cap)
           e == p + Len(text)
           x == SubSeq(data, b + 1, p)
           y == SubSeq(data, b + 1, e)
           n == Len(text)
<1>0. p \in 0..Len(data)
  OBVIOUS
<1>1. /\ text \in Seq(STRING) /\ e \in p..Len(data)
      /\ \A i \in 1..n : text[i] = data[p + i]
  BY <1>0, LineReads
<1> HIDE DEF text
<1>2. n \in Nat /\ p \in Nat /\ Len(data) \in Nat /\ e = p + n /\ b <= p
  BY <1>1
<1> HIDE DEF n, e
<1>3. x \in Seq(STRING) /\ Len(x) = p - b
  <2>1. b + 1 \in 1..(Len(data) + 1) /\ p \in ((b + 1) - 1)..Len(data)
    BY <1>2
  <2>2. x \in Seq(STRING) /\ Len(x) = p - (b + 1) + 1
    BY <2>1, Part
  <2> QED BY <1>2, <2>2
<1>4. y \in Seq(STRING) /\ Len(y) = e - b
  <2>1. b + 1 \in 1..(Len(data) + 1) /\ e \in ((b + 1) - 1)..Len(data)
    BY <1>1, <1>2
  <2>2. y \in Seq(STRING) /\ Len(y) = e - (b + 1) + 1
    BY <2>1, Part
  <2> QED BY <1>1, <1>2, <2>2
<1>5. \A i \in 1..(p - b) : x[i] = data[b + i]
  BY <1>2
<1>6. \A i \in 1..(e - b) : y[i] = data[b + i]
  BY <1>1, <1>2
<1> HIDE DEF x, y
<1> DEFINE z == x \o text
<1>7. z \in Seq(STRING) /\ Len(z) = (p - b) + n
  BY <1>1, <1>3, ConcatProperties DEF n
<1>8. \A i \in 1..(Len(x) + Len(text)) : z[i] = IF i <= Len(x) THEN x[i] ELSE text[i - Len(x)]
  BY <1>1, <1>3, ConcatProperties
<1> HIDE DEF z
<1>9. Len(z) = Len(y)
  BY <1>2, <1>4, <1>7
<1>10. ASSUME NEW i \in 1..Len(z) PROVE z[i] = y[i]
  <2>1. i \in 1..(e - b) /\ i \in 1..(Len(x) + Len(text))
    BY <1>2, <1>3, <1>7 DEF n
  <2>2. CASE i <= p - b
    <3>1. i \in 1..(p - b)
      BY <1>2, <2>1, <2>2
    <3> QED BY <1>3, <1>5, <1>6, <1>8, <2>1, <2>2, <3>1
  <2>3. CASE ~(i <= p - b)
    <3> DEFINE j == i - (p - b)
    <3>1. j \in 1..n /\ p + j = b + i
      BY <1>2, <2>1, <2>3
    <3>2. z[i] = text[j]
      BY <1>3, <1>8, <2>1, <2>3
    <3> HIDE DEF j
    <3>3. text[j] = data[p + j]
      BY <1>1, <3>1
    <3> QED BY <1>6, <2>1, <3>1, <3>2, <3>3
  <2> QED BY <2>2, <2>3
<1>11. z = y
  BY <1>4, <1>7, <1>9, <1>10, SeqEqual
<1> QED BY <1>11 DEF z, y, x, e, n, text

\* Where the header block stands.
LEMMA InBlock ==
    ASSUME IInv, PInv, phase = "header"
    PROVE  LET base == Len(LineOf(sent))
               lines == LinesOf(sent.fields)
               wire == Wire(sent)
               end == base + Len(FlattenSeq(lines))
           IN  /\ Grammar(sent) /\ wire \in Seq(STRING) /\ input \in Seq(STRING) /\ Agrees(input, wire)
               /\ Len(input) \in Nat /\ base \in Nat /\ pos \in 0..Len(input) /\ base <= pos
               /\ sent.fields \in Seq(Field1) /\ lines \in Seq(BlockLines)
               /\ At(wire, base, FlattenSeq(lines)) /\ At(wire, end, EndOfLine)
               /\ FlattenSeq(lines) = Block(sent.fields)
               /\ end \in Nat /\ end = Len(HeadOf(sent)) /\ PayloadStart(sent) = end + 2
               /\ Complete => end + 2 <= Len(input)
               /\ InHeader /\ counted = pos /\ counted <= MaxHeaderLength
               /\ verdict = "none" /\ ~keepAlive /\ ~bodyParsed /\ body = <<>> /\ header = NoHeader
<1> DEFINE base == Len(LineOf(sent))
           lines == LinesOf(sent.fields)
           wire == Wire(sent)
           b == FlattenSeq(lines)
           end == base + Len(b)
<1>1. /\ Grammar(sent) /\ wire \in Seq(STRING) /\ input \in Seq(STRING)
      /\ Agrees(input, wire) /\ Len(input) \in Nat /\ Len(wire) \in Nat
      /\ Complete <=> Len(wire) <= Len(input)
  BY Standing
<1>2. InHeader /\ verdict = "none" /\ pos \in 0..Len(input) /\ counted <= MaxHeaderLength
      /\ ~keepAlive /\ ~bodyParsed /\ body = <<>> /\ header = NoHeader
  BY ReachIs DEF PInv, Progress, IInv, HeaderReadIsBounded, TypeOK
<1>3. HasHead(sent) /\ base <= pos /\ counted = pos
  BY <1>2 DEF InHeader
<1>4. sent.fields \in Seq(Field1) /\ LineOf(sent) \in Seq(STRING)
  BY <1>1, GrammarFacts, HeadFacts
<1>5. lines \in Seq(BlockLines) /\ b = Block(sent.fields) /\ b \in Seq(STRING)
  BY <1>4, LinesOfFacts
<1>6. base \in Nat /\ Len(b) \in Nat
  BY <1>4, <1>5
<1>7. At(wire, base, b) /\ At(wire, Len(HeadOf(sent)), EndOfLine) /\ Len(HeadOf(sent)) = end
  BY <1>1, <1>3, <1>5, HeadFacts, WireFacts
<1>8. PayloadStart(sent) = end + 2
  BY <1>3, <1>7 DEF PayloadStart
<1>9. Complete => end + 2 <= Len(input)
  <2>1. end + 2 <= Len(wire)
    BY <1>7, SymbolFacts DEF At
  <2> HIDE DEF end, wire
  <2>2. end \in Nat
    BY <1>6 DEF end
  <2> QED BY <1>1, <2>1, <2>2
<1> QED BY <1>1, <1>2, <1>3, <1>4, <1>5, <1>6, <1>7, <1>8, <1>9

\* A header line: the block is read as it was sent.
LEMMA HeaderLineReads ==
    ASSUME IInv, PInv, ReadHeaderLine
    PROVE  PInv'
<1> DEFINE text == Line(input, pos, MaxLineLength)
           base == Len(LineOf(sent))
           lines == LinesOf(sent.fields)
           wire == Wire(sent)
           b == FlattenSeq(lines)
           end == base + Len(b)
           e == pos + Len(text)
<1>0. /\ phase = "header" /\ text # EndOfLine /\ pos' = e /\ counted' = counted + Len(text)
      /\ UNCHANGED <<sent, input, line, header, size, body, keepAlive>>
  BY DEF ReadHeaderLine
<1>1. /\ Grammar(sent) /\ wire \in Seq(STRING) /\ input \in Seq(STRING) /\ Agrees(input, wire)
      /\ Len(input) \in Nat /\ base \in Nat /\ pos \in 0..Len(input) /\ base <= pos
      /\ sent.fields \in Seq(Field1) /\ lines \in Seq(BlockLines)
      /\ At(wire, base, b) /\ At(wire, end, EndOfLine)
      /\ b = Block(sent.fields)
      /\ end \in Nat /\ end = Len(HeadOf(sent))
      /\ Complete => end + 2 <= Len(input)
      /\ InHeader /\ counted = pos
      /\ verdict = "none" /\ ~keepAlive /\ ~bodyParsed /\ body = <<>> /\ header = NoHeader
  BY <1>0, InBlock
<1>2. Within(base, lines, pos)
  BY <1>1 DEF InHeader
<1>3. text \in Seq(STRING) /\ e \in pos..Len(input) /\ Len(text) \in Nat /\ MaxLineLength \in Nat \ {0}
  <2>1. MaxLineLength \in Nat \ {0}
    BY CapsAssumption
  <2>2. /\ Line(input, pos, MaxLineLength) \in Seq(STRING)
        /\ pos + Len(Line(input, pos, MaxLineLength)) \in pos..Len(input)
    BY <1>1, <2>1, LineReads
  <2> QED BY <2>1, <2>2
<1>4. ASSUME Inside(base, lines, pos)
      PROVE  /\ text = <<>> => pos = Len(input) /\ pos <= end
             /\ \/ Inside(base, lines, e) /\ e <= end
                \/ e = Len(input) /\ Len(input) < end + 2
             /\ \A i \in 1..Len(text) : text[i] \in {CR, LF} \/ Occurs(text[i], lines)
  <2>1. /\ wire \in Seq(STRING) /\ input \in Seq(STRING) /\ Agrees(input, wire)
        /\ base \in Nat /\ lines \in Seq(BlockLines) /\ pos \in 0..Len(input)
        /\ Inside(base, lines, pos) /\ end = base + Len(FlattenSeq(lines))
        /\ At(wire, base, FlattenSeq(lines)) /\ At(wire, end, EndOfLine)
        /\ text = Line(input, pos, MaxLineLength) /\ e = pos + Len(text)
    BY <1>1, <1>4
  <2> HIDE DEF text, base, lines, wire, b, end, e
  <2>2. pos \in base..end /\ (text = <<>> => pos = Len(input))
    BY <2>1, ReadWithin
  <2>3. text # EndOfLine => \/ Inside(base, lines, e) /\ e <= end
                            \/ e = Len(input) /\ Len(input) < end + 2
    BY <2>1, ReadWithin
  <2>4. \A i \in 1..Len(text) : text[i] \in {CR, LF} \/ Occurs(text[i], lines)
    BY <2>1, ReadWithin
  <2> QED BY <1>0, <1>1, <2>2, <2>3, <2>4
<1> HIDE DEF text, base, lines, wire, b
<1>5. CASE text = <<>>
  <2>1. verdict' = "EOF" /\ phase' = "done"
    BY <1>5 DEF ReadHeaderLine, Refuse, Return, text
  <2>2. ~Complete
    <3>1. CASE Inside(base, lines, pos)
      BY <1>1, <1>4, <1>5, <3>1
    <3>2. CASE Len(input) < end + 2
      BY <1>1, <3>2
    <3> QED BY <1>2, <3>1, <3>2 DEF Within, b
  <2> QED BY <1>0, <2>1, <2>2, Refused
<1>6. CASE text # <<>>
  <2>1. Inside(base, lines, pos)
    <3>1. ASSUME pos = Len(input) PROVE FALSE
      <4>1. Len(text) = 0
        BY <1>1, <1>3, <3>1
      <4>2. text = <<>>
        BY <1>3, <4>1
      <4> QED BY <1>6, <4>2
    <3> QED BY <1>2, <3>1 DEF Within
  <2>2. \/ Inside(base, lines, e) /\ e <= end
        \/ e = Len(input) /\ Len(input) < end + 2
    BY <1>4, <2>1
  <2>3. CASE TooMuch(counted')
    <3>1. verdict' = "TooLarge" /\ phase' = "done"
      BY <1>6, <2>3, Zenon DEF ReadHeaderLine, Refuse, Return, text
    <3>2. Complete => TooLarge(sent)
      <4>1. ASSUME Complete PROVE TooLarge(sent)
        <5>1. e <= end
          BY <1>1, <1>3, <2>2, <4>1
        <5>2. e > MaxHeaderLength
          BY <1>0, <1>1, <2>3 DEF TooMuch
        <5>3. end > MaxHeaderLength /\ HasHead(sent)
          BY <1>1, <1>3, <5>1, <5>2, CapsAssumption DEF InHeader
        <5> QED BY <1>1, <5>3 DEF TooLarge
      <4> QED BY <4>1
    <3>3. Complete => verdict' \in Faults(sent)
      BY <3>1, <3>2 DEF Faults, Verdicts
    <3> QED BY <1>0, <3>1, <3>3, Refused
  <2>4. CASE ~TooMuch(counted') /\ Contains(text, NUL)
    <3>1. verdict' = "BadRequest" /\ phase' = "done"
      BY <1>6, <2>4, Zenon DEF ReadHeaderLine, Refuse, Return, text
    <3>2. BadHead(sent)
      <4>1. PICK i \in 1..Len(text) : text[i] = NUL
        BY <2>4 DEF Contains
      <4>2. NUL \notin {CR, LF}
        BY DEF NUL, CR, LF
      <4>3. PICK n \in 1..Len(lines) : \E k \in 1..Len(lines[n]) : lines[n][k] = NUL
        BY <1>4, <2>1, <4>1, <4>2 DEF Occurs
      <4>4. PICK k \in 1..Len(lines[n]) : lines[n][k] = NUL
        BY <4>1, <4>3
      <4>5. ~NoneBad(sent.fields)
        BY <1>1, <4>4, NulNoticed DEF lines
      <4>6. HasHead(sent) /\ DOMAIN sent.fields = 1..Len(sent.fields)
        BY <1>1 DEF InHeader
      <4> QED BY <4>5, <4>6 DEF NoneBad, BadHead
    <3>3. verdict' \in Faults(sent)
      BY <3>1, <3>2 DEF Faults, Verdicts
    <3> QED BY <1>0, <3>1, <3>3, Refused
  <2>5. CASE ~TooMuch(counted') /\ ~Contains(text, NUL)
    <3>1. rawHeader' = rawHeader \o text /\ phase' = "header" /\ UNCHANGED <<verdict, bodyParsed>>
      BY <1>6, <2>5, Zenon DEF ReadHeaderLine, Continue, Goto, text
    <3>2. rawHeader' = SubSeq(input, base + 1, e)
      <4>1. rawHeader = SubSeq(input, base + 1, pos)
        BY <1>1 DEF InHeader, base
      <4>2. pos \in base..Len(input)
        BY <1>1
      <4>3. SubSeq(input, base + 1, pos) \o text = SubSeq(input, base + 1, e)
        BY <1>1, <1>3, <4>2, Extended DEF text
      <4> QED BY <3>1, <4>1, <4>3
    <3>3. Within(base, lines, e)
      BY <2>2 DEF Within, b
    <3>4. base <= e
      BY <1>1, <1>3
    <3>5. counted' = pos'
      BY <1>0, <1>1
    <3> HIDE DEF e
    <3>6. InHeader'
      <4>1. sent' = sent /\ input' = input /\ pos' = e /\ line' = line
        BY <1>0
      <4>2. Within(Len(LineOf(sent)), LinesOf(sent.fields), pos)'
        BY <3>3, <4>1 DEF Within, base, lines
      <4>3. LineTaken'
        BY <1>1, <4>1 DEF InHeader, LineTaken
      <4> QED BY <1>1, <3>2, <3>4, <3>5, <4>1, <4>2, <4>3 DEF InHeader, base
    <3>7. Progress'
      BY <1>0, <1>1, <3>1, <3>6 DEF Progress
    <3> QED BY <1>0, <1>1, <3>1, <3>7, Continued
  <2> QED BY <2>3, <2>4, <2>5
<1> QED BY <1>5, <1>6

\* Where the header block ends it has been read whole, or one of its lines is
\* cut there; the model then tells whether the head is bad.
LEMMA HeadJudged ==
    ASSUME IInv, PInv, EndHeader
    PROVE  LET h == ParseHeader(rawHeader)
           IN  /\ pos + 2 <= Len(input)
               /\ ~(h.ok /\ LengthSound(h)) => BadHead(sent)
               /\ h.ok /\ LengthSound(h) =>
                     /\ ~BadHead(sent) /\ h = ParseHeader(Block(sent.fields))
                     /\ pos = Len(HeadOf(sent))
<1> DEFINE text == Line(input, pos, MaxLineLength)
           base == Len(LineOf(sent))
           lines == LinesOf(sent.fields)
           wire == Wire(sent)
           b == FlattenSeq(lines)
           end == base + Len(b)
           e == pos + Len(text)
           h == ParseHeader(rawHeader)
<1>0. phase = "header" /\ text = EndOfLine
  BY DEF EndHeader
<1>1. /\ Grammar(sent) /\ wire \in Seq(STRING) /\ input \in Seq(STRING) /\ Agrees(input, wire)
      /\ Len(input) \in Nat /\ base \in Nat /\ pos \in 0..Len(input) /\ base <= pos
      /\ sent.fields \in Seq(Field1) /\ lines \in Seq(BlockLines)
      /\ At(wire, base, b) /\ At(wire, end, EndOfLine)
      /\ b = Block(sent.fields)
      /\ end \in Nat /\ end = Len(HeadOf(sent))
      /\ InHeader
  BY <1>0, InBlock
<1>2. Within(base, lines, pos) /\ rawHeader = SubSeq(input, base + 1, pos) /\ HasHead(sent) /\ LineTaken
  BY <1>1 DEF InHeader
<1>3. pos + 2 <= Len(input)
  <2>1. MaxLineLength \in Nat \ {0}
    BY CapsAssumption
  <2>2. pos + Len(Line(input, pos, MaxLineLength)) \in pos..Len(input)
    BY <1>1, <2>1, LineReads
  <2>3. Len(text) = 2
    BY <1>0, SymbolFacts
  <2> QED BY <1>1, <2>2, <2>3
<1>4. Inside(base, lines, pos)
  <2>1. pos # Len(input)
    BY <1>1, <1>3
  <2> QED BY <1>2, <2>1 DEF Within
<1>5. /\ wire \in Seq(STRING) /\ input \in Seq(STRING) /\ Agrees(input, wire)
      /\ base \in Nat /\ lines \in Seq(BlockLines) /\ pos \in 0..Len(input)
      /\ Inside(base, lines, pos) /\ end = base + Len(FlattenSeq(lines))
      /\ At(wire, base, FlattenSeq(lines)) /\ At(wire, end, EndOfLine)
      /\ text = Line(input, pos, MaxLineLength)
  BY <1>1, <1>4
<1>6. CutFields(sent.fields) <=> \E n \in 1..Len(lines) : CutToBlank(lines[n])
  BY <1>1, LinesOfFacts
<1>7. HasHead(sent) /\ CutFields(sent.fields) => BadHead(sent)
  BY DEF BadHead
<1>20. NoneBad(sent.fields) <=> ~\E i \in DOMAIN sent.fields : BadField(sent.fields[i])
  <2>1. DOMAIN sent.fields = 1..Len(sent.fields)
    BY <1>1
  <2> QED BY <2>1 DEF NoneBad
<1> HIDE DEF text, base, lines, wire, b, end, h
<1>8. \/ pos = end /\ \A n \in 1..Len(lines) : ~CutToBlank(lines[n])
      \/ \E n \in 1..Len(lines) :
            /\ CutToBlank(lines[n])
            /\ base + Len(Upto(lines, n - 1)) < pos
            /\ pos < base + Len(Upto(lines, n))
  BY <1>0, <1>5, ReadWithin
<1>9. ASSUME NEW n \in 1..Len(lines), CutToBlank(lines[n]),
             base + Len(Upto(lines, n - 1)) < pos, pos < base + Len(Upto(lines, n))
      PROVE  ~h.ok /\ BadHead(sent)
  <2>1. PICK t \in Seq(STRING) :
            /\ t # <<>> /\ \A i \in 1..Len(t) : t[i] # LF
            /\ SubSeq(input, base + 1, pos) = Upto(lines, n - 1) \o t
    BY <1>5, <1>9, BlockCutOut, ZenonT(40)
  <2>2. ~ParseHeader(Upto(lines, n - 1) \o t).ok
    BY <1>5, <2>1, CutNoticed
  <2>3. ~h.ok
    BY <1>2, <2>1, <2>2 DEF h
  <2> QED BY <1>2, <1>6, <1>7, <1>9, <2>3
<1>10. ASSUME pos = end, \A n \in 1..Len(lines) : ~CutToBlank(lines[n])
       PROVE  /\ h = ParseHeader(Block(sent.fields))
              /\ h.ok /\ LengthSound(h) <=> ~BadHead(sent)
  <2>1. SubSeq(input, base + 1, pos) = FlattenSeq(lines)
    BY <1>5, <1>10, BlockCutOut
  <2>2. h = ParseHeader(Block(sent.fields))
    BY <1>1, <1>2, <2>1 DEF h, b
  <2>3. h.ok <=> NoneBad(sent.fields)
    BY <1>1, <2>2, BlockParses
  <2>4. h.ok => (LengthSound(h) <=> ~BadLengths(Sent(sent, ContentLength)))
    BY <1>1, <2>2, ModelSent
  <2>5. /\ sent.method \in Methods
        /\ \A i \in DOMAIN sent.target : sent.target[i] \notin Spaced
    BY <1>2 DEF LineTaken
  <2>6. ~CutFields(sent.fields)
    BY <1>6, <1>10
  <2>7. BadHead(sent) <=> ~NoneBad(sent.fields) \/ BadLengths(Sent(sent, ContentLength))
    BY <1>2, <1>20, <2>5, <2>6 DEF BadHead
  <2> QED BY <2>2, <2>3, <2>4, <2>7
<1>11. CASE pos = end /\ \A n \in 1..Len(lines) : ~CutToBlank(lines[n])
  BY <1>1, <1>3, <1>10, <1>11 DEF h
<1>12. CASE ~(pos = end /\ \A n \in 1..Len(lines) : ~CutToBlank(lines[n]))
  BY <1>3, <1>8, <1>9, <1>12 DEF h
<1> QED BY <1>11, <1>12

\* The end of the header block.
LEMMA EndHeaderReads ==
    ASSUME IInv, PInv, EndHeader
    PROVE  PInv'
<1> DEFINE h == ParseHeader(rawHeader)
<1>1. /\ phase = "header" /\ pos' = pos + 2
      /\ UNCHANGED <<sent, input, line, rawHeader, counted, size, body, keepAlive>>
  BY DEF EndHeader
<1>2. /\ InHeader /\ counted = pos /\ counted <= MaxHeaderLength
      /\ Len(HeadOf(sent)) \in Nat /\ PayloadStart(sent) = Len(HeadOf(sent)) + 2
      /\ verdict = "none" /\ ~keepAlive /\ ~bodyParsed /\ body = <<>>
  BY <1>1, InBlock
<1>3. /\ pos + 2 <= Len(input)
      /\ ~(h.ok /\ LengthSound(h)) => BadHead(sent)
      /\ h.ok /\ LengthSound(h) =>
            /\ ~BadHead(sent) /\ h = ParseHeader(Block(sent.fields))
            /\ pos = Len(HeadOf(sent))
  BY HeadJudged
<1>4. CASE h.ok /\ LengthSound(h)
  <2>1. header' = h /\ phase' = "target" /\ UNCHANGED <<verdict, bodyParsed>>
    BY <1>4, Zenon DEF EndHeader, Continue, Goto
  <2> HIDE DEF h
  <2>2. ~TooLarge(sent)
    BY <1>2, <1>3, <1>4, CapsAssumption DEF InHeader, LineTaken, TooLarge
  <2>3. PayloadStart(sent) <= Len(input) /\ pos' = PayloadStart(sent)
    BY <1>1, <1>2, <1>3, <1>4
  <2>4. HeadTaken'
    BY <1>1, <1>2, <1>3, <1>4, <2>1, <2>2, <2>3 DEF HeadTaken, InHeader, LineTaken
  <2>5. pos' = PayloadStart(sent)'
    BY <1>1, <2>3
  <2>6. Progress'
    BY <1>1, <1>2, <2>1, <2>4, <2>5 DEF Progress
  <2> QED BY <1>1, <1>2, <2>1, <2>6, Continued
<1>5. CASE ~(h.ok /\ LengthSound(h))
  <2>1. verdict' = "BadRequest" /\ phase' = "done"
    BY <1>5, Zenon DEF EndHeader, Refuse, Return
  <2>2. verdict' \in Faults(sent)
    BY <1>3, <1>5, <2>1 DEF Faults, Verdicts
  <2> QED BY <1>1, <2>1, <2>2, Refused
<1> QED BY <1>4, <1>5

-----------------------------------------------------------------------------
(* The target.                                                             *)

\* Nothing is wrong with a request whose head was taken and whose payload is
\* not looked at.
LEMMA UnroutedFaults ==
    ASSUME HeadTaken, ~Routable(sent)
    PROVE  Faults(sent) = {}
  BY DEF HeadTaken, Faults

\* parseURI and computeKeepAlive.
LEMMA TargetReads ==
    ASSUME IInv, PInv, ParseTarget
    PROVE  PInv'
<1>1. /\ phase = "target"
      /\ UNCHANGED <<sent, input, pos, line, rawHeader, counted, header, size, body>>
  BY DEF ParseTarget
<1>2. /\ HeadTaken /\ pos = PayloadStart(sent) /\ ~bodyParsed /\ ~keepAlive /\ body = <<>>
      /\ verdict = "none"
  BY <1>1 DEF PInv, Progress, IInv
<1>3. Unrouted <=> ~Routable(sent)
  BY <1>2 DEF HeadTaken, LineTaken, Unrouted, Routable
<1>4. TargetParses <=> sent.target[1] = "/"
  BY <1>2 DEF HeadTaken, LineTaken, TargetParses
<1>5. HeadTaken'
  BY <1>1, <1>2 DEF HeadTaken, LineTaken
<1>6. CASE Unrouted
  <2>1. verdict' = "accepted" /\ phase' = "done" /\ UNCHANGED <<bodyParsed, keepAlive>>
    BY <1>6, Zenon DEF ParseTarget, Return
  <2>2. Faults(sent) = {}
    BY <1>2, <1>3, <1>6, UnroutedFaults
  <2>3. ~bodyParsed' /\ ~keepAlive' /\ ~Routable(sent)
    BY <1>2, <1>3, <1>6, <2>1
  <2> QED BY <1>1, <1>2, <2>1, <2>2, <2>3, Accepted
<1>7. CASE ~Unrouted /\ ~TargetParses
  <2>1. verdict' = "BadRequest" /\ phase' = "done"
    BY <1>7, Zenon DEF ParseTarget, Refuse, Return
  <2>2. verdict' \in Faults(sent)
    BY <1>3, <1>4, <1>7, <2>1 DEF Faults, BadPayload, Verdicts
  <2> QED BY <1>1, <2>1, <2>2, Refused
<1>8. CASE ~Unrouted /\ TargetParses
  <2>1. phase' = "body" /\ UNCHANGED <<verdict, bodyParsed>>
    BY <1>8, Zenon DEF ParseTarget, Continue, Goto
  <2>2. Routed'
    <3>1. Routable(sent)' <=> Routable(sent)
      BY <1>1 DEF Routable
    <3> QED BY <1>1, <1>3, <1>4, <1>5, <1>8, <3>1 DEF Routed
  <2>3. pos' = PayloadStart(sent)'
    BY <1>1, <1>2
  <2>4. Progress'
    BY <1>1, <1>2, <2>1, <2>2, <2>3 DEF Progress
  <2> QED BY <1>1, <1>2, <2>1, <2>4, Continued
<1> QED BY <1>6, <1>7, <1>8

-----------------------------------------------------------------------------
(* The body: what the header says of it.                                   *)

\* Values put together are one text only if there is one, or if they are none.
LEMMA JoinedIs ==
    ASSUME NEW h, NEW n, Values(h, n) \in Seq(Seq(STRING))
    PROVE  /\ Joined(h, n) = <<>> <=> Values(h, n) \in {<<>>, << <<>> >>}
           /\ \A x : x # Comma => (Joined(h, n) = <<x>> <=> Values(h, n) = << <<x>> >>)
<1> DEFINE vs == Values(h, n)
           X == Seq(STRING)
           l == Len(vs)
           g == [i \in 1..(l - 1) |-> <<Comma>> \o vs[i + 1]]
           f == FlattenSeq(g)
           j == Joined(h, n)
<1>1. vs \in Seq(X) /\ l \in Nat /\ \A i \in 1..l : vs[i] \in Seq(STRING)
  BY ElementOfSeq
<1>2. j = IF vs = <<>> THEN <<>> ELSE vs[1] \o f
  BY DEF Joined
<1> HIDE DEF vs, j
<1>3. CASE l = 0
  <2>1. vs = <<>> /\ j = <<>>
    BY <1>1, <1>2, <1>3
  <2> QED BY <2>1 DEF vs, j
<1>4. CASE l = 1
  <2>1. vs = <<vs[1]>> /\ vs # <<>>
    <3> HIDE DEF X
    <3> QED BY <1>1, <1>4, OneIs
  <2>2. f = <<>>
    <3>1. g = <<>>
      BY <1>4
    <3> QED BY <3>1, FlattenFew
  <2> HIDE DEF f
  <2> DEFINE v == vs[1]
  <2>3. v \in Seq(STRING) /\ j = v \o <<>>
    BY <1>1, <1>2, <1>4, <2>1, <2>2
  <2> HIDE DEF v
  <2>4. j = v
    BY <2>3
  <2>5. vs = <<v>>
    BY <2>1 DEF v
  <2>6. \A z : vs = <<z>> <=> v = z
    <3>1. \A y, z : <<y>> = <<z>> <=> y = z
      OBVIOUS
    <3> QED BY <2>5, <3>1
  <2>7. vs # <<>>
    BY <2>1
  <2> QED BY <2>4, <2>6, <2>7 DEF vs, j
<1>5. CASE l > 1
  <2>1. g \in Seq(X) /\ Len(g) = l - 1 /\ g[1] = <<Comma>> \o vs[2]
    <3>1. ASSUME NEW i \in 1..(l - 1) PROVE <<Comma>> \o vs[i + 1] \in X
      <4>1. vs[i + 1] \in Seq(STRING) /\ <<Comma>> \in Seq(STRING)
        BY <1>1, <3>1, MarksAssumption
      <4> QED BY <4>1, ConcatProperties
    <3>2. l - 1 \in Nat /\ 1 \in 1..(l - 1)
      BY <1>1, <1>5
    <3> HIDE DEF X
    <3> QED BY <3>1, <3>2, Listed
  <2> DEFINE t == <<Comma>> \o vs[2]
  <2>2. t \in Seq(STRING) /\ Len(t) >= 1 /\ t[1] = Comma
    <3>1. vs[2] \in Seq(STRING) /\ <<Comma>> \in Seq(STRING) /\ Len(<<Comma>>) = 1 /\ <<Comma>>[1] = Comma
      BY <1>1, <1>5, MarksAssumption
    <3> QED BY <3>1, ConcatProperties
  <2>3. g[1] = t
    BY <2>1
  <2> HIDE DEF g, t
  <2>4. f \in Seq(STRING) /\ At(f, 0, t)
    <3>1. g \in Seq(Seq(STRING)) /\ 1 \in 1..Len(g) /\ 1 - 1 = 0
      BY <1>1, <1>5, <2>1
    <3>2. f \in Seq(STRING) /\ At(f, Len(Upto(g, 1 - 1)), g[1]) /\ Upto(g, 0) = <<>>
      BY <3>1, UptoFacts, FlattenFacts
    <3>3. Len(Upto(g, 1 - 1)) = 0
      BY <3>1, <3>2
    <3> QED BY <2>3, <3>2, <3>3
  <2> HIDE DEF f
  <2>5. Len(f) \in Nat /\ Len(f) >= 1 /\ f[1] = Comma
    <3>1. Len(f) \in Nat /\ Len(t) \in Nat
      BY <2>2, <2>4
    <3>2. 0 + Len(t) <= Len(f) /\ f[0 + 1] = t[1]
      BY <2>2, <2>4, <3>1 DEF At
    <3> QED BY <2>2, <3>1, <3>2
  <2> DEFINE v == vs[1]
  <2>6. v \in Seq(STRING) /\ j = v \o f
    <3>1. vs # <<>>
      BY <1>1, <1>5
    <3> QED BY <1>1, <1>2, <1>5, <3>1
  <2> HIDE DEF v
  <2>7. /\ Len(v) \in Nat /\ Len(j) = Len(v) + Len(f)
        /\ j[Len(v) + 1] = Comma
    <3>1. Len(j) = Len(v) + Len(f)
          /\ \A i \in 1..(Len(v) + Len(f)) : j[i] = IF i <= Len(v) THEN v[i] ELSE f[i - Len(v)]
      BY <2>4, <2>6, ConcatProperties
    <3>2. Len(v) \in Nat /\ Len(v) + 1 \in 1..(Len(v) + Len(f)) /\ ~(Len(v) + 1 <= Len(v))
          /\ (Len(v) + 1) - Len(v) = 1
      BY <2>5, <2>6
    <3> QED BY <2>5, <3>1, <3>2
  <2>8. j # <<>>
    <3>1. Len(j) # 0 /\ Len(<<>>) = 0
      BY <2>5, <2>7
    <3> QED BY <3>1, Zenon
  <2>9. ASSUME NEW x, x # Comma, j = <<x>> PROVE FALSE
    <3>1. Len(j) = 1 /\ j[1] = x
      BY <2>9
    <3> DEFINE a == Len(v)
               b == Len(f)
    <3>2. a = 0
      <4>1. a \in Nat /\ b \in Nat /\ b >= 1 /\ 1 = a + b
        BY <2>5, <2>7, <3>1
      <4> HIDE DEF a, b
      <4> QED BY <4>1
    <3>3. j[1] = Comma
      BY <2>7, <3>2
    <3> QED BY <2>9, <3>1, <3>3
  <2>10. vs # <<>> /\ \A z : vs # <<z>>
    <3>1. \A z : Len(<<z>>) = 1
      OBVIOUS
    <3>2. Len(<<>>) = 0 /\ Len(vs) # 0 /\ Len(vs) # 1
      BY <1>1, <1>5
    <3> QED BY <3>1, <3>2, Zenon
  <2> QED BY <2>8, <2>9, <2>10 DEF vs, j
<1>6. l = 0 \/ l = 1 \/ l > 1
  <2>1. l \in Nat
    BY <1>1
  <2> HIDE DEF l
  <2> QED BY <2>1
<1> QED BY <1>3, <1>4, <1>5, <1>6, Zenon

\* The values a request gives for a field.
Stated(m, n) == IF HasHead(m) THEN Sent(m, n) ELSE <<>>

\* The header model and the request agree on a field.
LEMMA HeaderSays ==
    ASSUME Grammar(sent), HeadTaken, NEW n \in FieldNames
    PROVE  /\ Joined(header, n) = <<>> <=> Stated(sent, n) \in {<<>>, << <<>> >>}
           /\ \A x : x # Comma => (Joined(header, n) = <<x>> <=> Stated(sent, n) = << <<x>> >>)
           /\ Values(header, n) = <<>> <=> Stated(sent, n) = <<>>
           /\ \A x : Values(header, n) = << <<x>> >> <=> Stated(sent, n) = << <<x>> >>
<1> DEFINE vs == Values(header, n)
           s == Stated(sent, n)
<1>1. /\ vs \in Seq(Seq(STRING))
      /\ vs = <<>> <=> s = <<>>
      /\ vs = << <<>> >> <=> s = << <<>> >>
      /\ \A x : vs = << <<x>> >> <=> s = << <<x>> >>
  <2>1. CASE HasHead(sent)
    <3> DEFINE h == ParseHeader(Block(sent.fields))
    <3>1. header = h /\ ~BadHead(sent)
      BY <2>1 DEF HeadTaken
    <3>2. sent.fields \in Seq(Field1) /\ DOMAIN sent.fields = 1..Len(sent.fields)
      BY GrammarFacts
    <3>3. NoneBad(sent.fields)
      BY <2>1, <3>1, <3>2 DEF NoneBad, BadHead
    <3>4. h.ok
      BY <3>2, <3>3, BlockParses
    <3>5. /\ Values(h, n) \in Seq(Seq(STRING))
          /\ Values(h, n) = <<>> <=> Sent(sent, n) = <<>>
          /\ Values(h, n) = << <<>> >> <=> Sent(sent, n) = << <<>> >>
          /\ \A x : Values(h, n) = << <<x>> >> <=> Sent(sent, n) = << <<x>> >>
      BY <3>4, ModelSent
    <3> HIDE DEF h
    <3> QED BY <2>1, <3>1, <3>5 DEF Stated
  <2>2. CASE ~HasHead(sent)
    <3>1. vs = <<>> /\ s = <<>>
      BY <2>2 DEF HeadTaken, NoHeader, Values, Stated
    <3> HIDE DEF vs, s
    <3>2. \A x : << <<x>> >> # <<>> /\ << <<>> >> # <<>>
      OBVIOUS
    <3> QED BY <3>1, <3>2
  <2> QED BY <2>1, <2>2
<1> HIDE DEF s
<1>2. /\ Joined(header, n) = <<>> <=> vs \in {<<>>, << <<>> >>}
      /\ \A x : x # Comma => (Joined(header, n) = <<x>> <=> vs = << <<x>> >>)
  BY <1>1, JoinedIs
<1> HIDE DEF vs
<1> QED BY <1>1, <1>2 DEF vs, s

\* What the request is made out to be when its body is read.
LEMMA BodyKinds ==
    ASSUME IInv, Grammar(sent), HeadTaken
    PROVE  /\ Joined(header, TransferEncoding) # <<>> <=> Coded(sent)
           /\ Coded(sent) => (Joined(header, TransferEncoding) = <<Chunked>>
                                <=> Codings(sent) = << <<Chunked>> >>)
           /\ Joined(header, TransferEncoding) = <<Chunked>> <=> sent.chunked
           /\ Joined(header, ContentLength) = <<>> <=> Lengths(sent) = <<>>
           /\ Joined(header, ContentLength) # <<>> =>
                 \E n \in DOMAIN NumberOf :
                    Joined(header, ContentLength) = <<n>> /\ Lengths(sent) = << <<n>> >>
<1> DEFINE T == Stated(sent, TransferEncoding)
           L == Stated(sent, ContentLength)
           t == Joined(header, TransferEncoding)
           j == Joined(header, ContentLength)
           vs == Values(header, ContentLength)
<1>1. TransferEncoding \in FieldNames /\ ContentLength \in FieldNames
  BY SymbolsAssumption
<1>2. /\ t = <<>> <=> T \in {<<>>, << <<>> >>}
      /\ \A x : x # Comma => (t = <<x>> <=> T = << <<x>> >>)
  BY <1>1, HeaderSays
<1>3. /\ j = <<>> <=> L \in {<<>>, << <<>> >>}
      /\ vs = <<>> <=> L = <<>>
      /\ \A x : vs = << <<x>> >> <=> L = << <<x>> >>
  BY <1>1, HeaderSays
<1>4. Chunked # Comma
  BY DEF Chunked, Comma
<1>5. Lengths(sent) = L
  BY DEF Lengths, Stated
<1>6. /\ Coded(sent) <=> T \notin {<<>>, << <<>> >>}
      /\ Coded(sent) => Codings(sent) = T
  BY DEF Coded, Codings, Stated
<1>7. sent.chunked <=> HasHead(sent) /\ Sent(sent, TransferEncoding) = << <<Chunked>> >>
  BY DEF Grammar
<1>8. sent.chunked <=> T = << <<Chunked>> >>
  <2>1. << <<Chunked>> >> # <<>>
    OBVIOUS
  <2> QED BY <1>7, <2>1 DEF Stated
<1>9. vs = <<>> \/ \E n \in DOMAIN NumberOf : vs = << <<n>> >>
  BY DEF IInv, LengthSound
<1> HIDE DEF T, L, t, j, vs
<1>10. t = <<Chunked>> <=> T = << <<Chunked>> >>
  BY <1>2, <1>4
<1>11. CASE vs = <<>>
  <2>1. L = <<>> /\ j = <<>>
    BY <1>3, <1>11
  <2> QED BY <1>2, <1>5, <1>6, <1>8, <1>10, <2>1 DEF t, j
<1>12. ASSUME NEW n \in DOMAIN NumberOf, vs = << <<n>> >>
       PROVE  L # <<>> /\ j = <<n>> /\ L = << <<n>> >>
  <2>1. L = << <<n>> >>
    BY <1>3, <1>12
  <2>2. << <<n>> >> # <<>>
    OBVIOUS
  <2>3. j \in {<<>>} \cup {<<m>> : m \in DOMAIN NumberOf}
    BY JoinedLength DEF j
  <2>4. vs[1] = <<n>> /\ vs # <<>> /\ Len(vs) = 1
    BY <1>12
  <2>5. j = <<n>>
    <3>1. j = vs[1] \o FlattenSeq([i \in 1..(Len(vs) - 1) |-> <<Comma>> \o vs[i + 1]])
      BY <2>4 DEF j, vs, Joined
    <3>2. [i \in 1..(Len(vs) - 1) |-> <<Comma>> \o vs[i + 1]] = <<>>
      BY <2>4
    <3>3. j = <<n>> \o <<>>
      BY <2>4, <3>1, <3>2, FlattenFew
    <3> QED BY <3>3
  <2> QED BY <2>1, <2>2, <2>5
<1>13. CASE vs # <<>>
  <2>1. PICK n \in DOMAIN NumberOf : vs = << <<n>> >>
    BY <1>9, <1>13
  <2>2. L # <<>> /\ j = <<n>> /\ L = << <<n>> >>
    BY <1>12, <2>1
  <2>3. j # <<>>
    BY <2>2
  <2> QED BY <1>2, <1>5, <1>6, <1>8, <1>10, <2>2, <2>3 DEF t, j
<1> QED BY <1>11, <1>13

\* A single number is all the lengths that are stated.
LEMMA OneLength ==
    ASSUME NEW m, NEW n \in DOMAIN NumberOf, Lengths(m) = << <<n>> >>
    PROVE  LengthsStated(m) = {NumberOf[n]}
<1> DEFINE A == UNION {ToSet(v) : v \in ToSet(Lengths(m))}
<1>1. ToSet(<<n>>) = {n} /\ ToSet(<< <<n>> >>) = {<<n>>}
  BY DEF ToSet
<1>2. A = {n}
  <2>1. A = UNION {ToSet(v) : v \in {<<n>>}}
    BY <1>1
  <2> QED BY <1>1, <2>1
<1>3. LengthsStated(m) = {NumberOf[s] : s \in DOMAIN NumberOf \cap A}
  BY DEF LengthsStated
<1> HIDE DEF A
<1> QED BY <1>2, <1>3

\* Without a length none is stated; without chunks no size is.
LEMMA NoLength ==
    ASSUME NEW m, Lengths(m) = <<>>
    PROVE  LengthsStated(m) = {}
  BY DEF LengthsStated, ToSet

\* Nor is a size stated without chunks.
LEMMA NoSize ==
    ASSUME NEW m, Grammar(m), ~m.chunked
    PROVE  SizesStated(m) = {}
  BY DEF SizesStated, ToSet, Grammar

\* A request with a payload that is as long as it says, or none.
LEMMA FixedFaults ==
    ASSUME Grammar(sent), Routed, ~Coded(sent), ~sent.chunked, Len(input) \in Nat,
           \A n \in LengthsStated(sent) : n \in Nat /\ n = Len(sent.data) /\ n <= Len(input),
           sent.method \in {"POST", "PUT"} => Lengths(sent) # <<>>
    PROVE  Faults(sent) = {}
<1>1. ~TooLarge(sent) /\ ~BadHead(sent) /\ sent.target[1] = "/"
  BY DEF Routed, HeadTaken
<1>2. ~BadPayload(sent)
  BY <1>1 DEF BadPayload
<1>3. ~Overlong(sent)
  BY NoSize DEF Overlong
<1> QED BY <1>1, <1>2, <1>3 DEF Faults

\* Where the body stands.
LEMMA InBody ==
    ASSUME IInv, PInv, phase = "body"
    PROVE  /\ Grammar(sent) /\ input \in Seq(STRING) /\ Len(input) \in Nat /\ Len(input) <= MaxInt
           /\ Routed /\ HeadTaken /\ pos = PayloadStart(sent) /\ pos \in Nat /\ pos >= 3 /\ pos <= Len(input)
           /\ verdict = "none" /\ ~bodyParsed /\ body = <<>>
           /\ ~sent.chunked =>
                 /\ Len(sent.data) \in Nat /\ sent.data \in Seq(STRING) /\ Meant(sent) = sent.data
                 /\ Len(Wire(sent)) = pos + Len(sent.data)
                 /\ Complete <=> pos + Len(sent.data) <= Len(input)
                 /\ pos + Len(sent.data) <= Len(input) => Taken(input, pos, Len(sent.data)) = sent.data
                 /\ Lengths(sent) = <<>> => sent.data = <<>>
                 /\ \A n \in DOMAIN NumberOf : Lengths(sent) = << <<n>> >> =>
                       NumberOf[n] = Len(sent.data) \/ NumberOf[n] > Len(input)
<1> DEFINE wire == Wire(sent)
           d == sent.data
<1>1. /\ Grammar(sent) /\ wire \in Seq(STRING) /\ input \in Seq(STRING)
      /\ Agrees(input, wire) /\ Len(input) \in Nat /\ Len(wire) \in Nat
      /\ Complete <=> Len(wire) <= Len(input)
      /\ Len(input) <= MaxInt
  BY Standing
<1>2. Routed /\ pos = PayloadStart(sent) /\ verdict = "none" /\ ~bodyParsed /\ body = <<>>
  BY DEF PInv, Progress, IInv
<1>3. HeadTaken /\ pos <= Len(input)
  BY <1>2 DEF Routed, HeadTaken
<1>4. pos \in Nat /\ pos >= 3
  <2> DEFINE y == LineOf(sent)
             h == HeadOf(sent)
  <2>1. y \in BlockLines /\ h \in Seq(STRING) /\ At(h, 0, y)
    BY <1>1, LineOfFacts, HeadFacts
  <2>2. PayloadStart(sent) = Len(h) + (IF HasHead(sent) THEN 2 ELSE 0)
    BY DEF PayloadStart
  <2> HIDE DEF y, h
  <2>3. Len(y) \in Nat /\ Len(y) >= 3 /\ Len(h) \in Nat
    BY <2>1 DEF BlockLines
  <2>4. Len(h) >= 3
    BY <2>1, <2>3 DEF At
  <2> QED BY <1>2, <2>2, <2>3, <2>4
<1>5. ASSUME ~sent.chunked
      PROVE  /\ Len(d) \in Nat /\ d \in Seq(STRING) /\ Meant(sent) = d
             /\ Len(wire) = pos + Len(d)
             /\ pos + Len(d) <= Len(input) => Taken(input, pos, Len(d)) = d
             /\ Lengths(sent) = <<>> => d = <<>>
             /\ \A n \in DOMAIN NumberOf : Lengths(sent) = << <<n>> >> =>
                   NumberOf[n] = Len(d) \/ NumberOf[n] > Len(input)
  <2>1. d \in Seq(STRING)
    BY <1>1, GrammarFacts
  <2>2. At(wire, pos, d) /\ Len(wire) = pos + Len(d)
    BY <1>1, <1>2, <1>5, WireFacts
  <2>3. Meant(sent) = d
    BY <1>5 DEF Meant
  <2>4. sent \in Requests /\ input \in Arrivals(Wire(sent))
    BY DEF PInv
  <2>5. /\ Lengths(sent) = <<>> => d = <<>>
        /\ \A n \in DOMAIN NumberOf : Lengths(sent) = << <<n>> >> =>
              NumberOf[n] = Len(d) \/ NumberOf[n] > Len(input)
    BY <1>5, <2>4, ClientsAssumption DEF States
  <2> HIDE DEF wire, d
  <2>6. ASSUME pos + Len(d) <= Len(input) PROVE Taken(input, pos, Len(d)) = d
    <3>1. At(input, pos, d)
      BY <1>1, <1>4, <2>1, <2>2, <2>6, AtData
    <3>2. SubSeq(input, pos + 1, pos + Len(d)) = d
      BY <1>1, <1>4, <2>1, <3>1, AtCutOut
    <3> QED BY <3>2 DEF Taken
  <2> QED BY <2>1, <2>2, <2>3, <2>5, <2>6 DEF wire, d
<1> QED BY <1>1, <1>2, <1>3, <1>4, <1>5

\* readN over a body of stated length.
LEMMA FixedReads ==
    ASSUME IInv, PInv, phase = "body", ~Coded(sent), ~sent.chunked,
           NEW n \in DOMAIN NumberOf, Lengths(sent) = << <<n>> >>,
           ReadFixed(Atoi(<<n>>)),
           UNCHANGED <<sent, input, line, rawHeader, counted, header, size, keepAlive>>
    PROVE  PInv'
<1> DEFINE N == NumberOf[n]
           a == Atoi(<<n>>)
           d == sent.data
           z == Len(input)
           l == Len(d)
<1>1. /\ Grammar(sent) /\ input \in Seq(STRING) /\ z \in Nat /\ z <= MaxInt
      /\ Routed /\ HeadTaken /\ pos \in Nat /\ pos >= 3 /\ pos <= z
      /\ verdict = "none" /\ ~bodyParsed /\ body = <<>>
      /\ l \in Nat /\ d \in Seq(STRING) /\ Meant(sent) = d
      /\ Len(Wire(sent)) = pos + l
      /\ Complete <=> pos + l <= z
      /\ pos + l <= z => Taken(input, pos, l) = d
      /\ N = l \/ N > z
  BY InBody
<1>2. N \in Nat /\ a = (IF N > MaxInt THEN MaxInt ELSE N) /\ MaxInt \in Nat
  BY SymbolsAssumption, MaxIntAssumption DEF Atoi
<1>3. LengthsStated(sent) = {N}
  BY OneLength
<1> HIDE DEF N, a, d, z, l
<1>4. ASSUME pos + l <= z, N = l
      PROVE  a = l /\ Enough(input, pos, a) /\ ~Overruns(input, pos, a)
  <2>1. a = l /\ pos + a \in Nat /\ pos + a <= MaxInt /\ pos + a <= z
    BY <1>1, <1>2, <1>4
  <2>2. Wrapped(pos + a) = pos + a
    BY <2>1, WrappedNarrow
  <2> QED BY <1>1, <2>1, <2>2 DEF Enough, Overruns, z
<1>5. CASE ~Enough(input, pos, a)
  <2>1. verdict' = "BadRequest" /\ phase' = "done"
    BY <1>5, Zenon DEF ReadFixed, Refuse, Return, a
  <2>2. Complete => N # l
    BY <1>1, <1>4, <1>5
  <2>3. Complete => BadPayload(sent)
    BY <1>3, <2>2 DEF BadPayload, l, d
  <2>4. Complete => verdict' \in Faults(sent)
    BY <1>1, <2>1, <2>3 DEF Faults, Verdicts, Routed
  <2> QED BY <2>1, <2>4, Refused
<1>6. CASE Enough(input, pos, a) /\ Overruns(input, pos, a)
  <2>1. verdict' = "panic" /\ phase' = "done"
    BY <1>6, Zenon DEF ReadFixed, Refuse, Return, a
  <2>2. Complete => N > z
    BY <1>1, <1>4, <1>6
  <2>3. N > MaxInt - z
    <3>1. ASSUME ~(N > MaxInt - z) PROVE FALSE
      <4>1. a \in Nat /\ a + z <= MaxInt /\ pos \in 0..z
        BY <1>1, <1>2, <3>1
      <4>2. ~Overruns(input, pos, a)
        BY <1>1, <4>1, NarrowFits DEF z
      <4> QED BY <1>6, <4>2
    <3> QED BY <3>1
  <2>4. Complete => Overlong(sent)
    BY <1>3, <2>2, <2>3 DEF Overlong, z
  <2>5. Complete => verdict' \in Faults(sent)
    BY <1>1, <2>1, <2>4 DEF Faults, Verdicts, Routed
  <2> QED BY <2>1, <2>5, Refused
<1>7. CASE Enough(input, pos, a) /\ ~Overruns(input, pos, a)
  <2>1. /\ verdict' = "accepted" /\ phase' = "done" /\ bodyParsed'
        /\ pos' = pos + a /\ body' = Taken(input, pos, a)
    BY <1>7, Zenon DEF ReadFixed, Accept, Return, a
  <2>2. a = l /\ N = l /\ pos + l <= z
    <3>1. a \in Nat
      BY <1>2
    <3>2. pos + a <= z
      BY <1>1, <1>7, <3>1 DEF Overruns, z
    <3> QED BY <1>1, <1>2, <3>1, <3>2
  <2>3. body' = Meant(sent) /\ Complete /\ pos' = Len(Wire(sent))
    BY <1>1, <2>1, <2>2
  <2>4. Faults(sent) = {}
    <3>1. \A k \in LengthsStated(sent) : k \in Nat /\ k = Len(sent.data) /\ k <= Len(input)
      BY <1>1, <1>2, <1>3, <2>2 DEF l, d, z
    <3>2. Lengths(sent) # <<>>
      OBVIOUS
    <3> QED BY <1>1, <3>1, <3>2, FixedFaults DEF z
  <2> QED BY <1>1, <2>1, <2>3, <2>4, Accepted
<1> QED BY <1>5, <1>6, <1>7

\* readBody.
LEMMA BodyReads ==
    ASSUME IInv, PInv, ReadBody
    PROVE  PInv'
<1> DEFINE coding == Joined(header, TransferEncoding)
           length == Joined(header, ContentLength)
<1>1. phase = "body" /\ UNCHANGED <<sent, input, line, rawHeader, counted, header, size, keepAlive>>
  BY DEF ReadBody
<1>2. /\ Grammar(sent) /\ input \in Seq(STRING) /\ Len(input) \in Nat
      /\ Routed /\ HeadTaken /\ pos = PayloadStart(sent) /\ pos \in Nat /\ pos <= Len(input)
      /\ verdict = "none" /\ ~bodyParsed /\ body = <<>>
      /\ ~sent.chunked =>
            /\ Len(sent.data) \in Nat /\ Meant(sent) = sent.data
            /\ Len(Wire(sent)) = pos + Len(sent.data)
            /\ Complete <=> pos + Len(sent.data) <= Len(input)
            /\ Lengths(sent) = <<>> => sent.data = <<>>
  BY <1>1, InBody
<1>3. /\ coding # <<>> <=> Coded(sent)
      /\ Coded(sent) => (coding = <<Chunked>> <=> Codings(sent) = << <<Chunked>> >>)
      /\ coding = <<Chunked>> <=> sent.chunked
      /\ length = <<>> <=> Lengths(sent) = <<>>
      /\ length # <<>> => \E n \in DOMAIN NumberOf : length = <<n>> /\ Lengths(sent) = << <<n>> >>
  BY <1>2, BodyKinds
<1>4. line.method = sent.method /\ Routable(sent)
  BY <1>2 DEF Routed, HeadTaken, LineTaken
<1> HIDE DEF coding, length
<1>5. CASE coding # <<>> /\ length # <<>>
  <2>1. verdict' = "BadRequest" /\ phase' = "done"
    BY <1>5, Zenon DEF ReadBody, Refuse, Return, coding, length
  <2>2. verdict' \in Faults(sent)
    BY <1>3, <1>4, <1>5, <2>1 DEF Faults, BadPayload, Verdicts
  <2> QED BY <1>1, <2>1, <2>2, Refused
<1>6. CASE coding # <<>> /\ length = <<>> /\ coding # <<Chunked>>
  <2>1. verdict' = "NotImplemented" /\ phase' = "done"
    BY <1>6, Zenon DEF ReadBody, Refuse, Return, coding, length
  <2>2. verdict' \in Faults(sent)
    BY <1>3, <1>4, <1>6, <2>1 DEF Faults, Verdicts
  <2> QED BY <1>1, <2>1, <2>2, Refused
<1>7. CASE coding # <<>> /\ length = <<>> /\ coding = <<Chunked>>
  <2>1. phase' = "size" /\ UNCHANGED <<verdict, bodyParsed, pos, body>>
    BY <1>7, Zenon DEF ReadBody, Continue, Goto, coding, length
  <2>2. DataOf(sent) \in Seq(Seq(STRING)) /\ ChunksOf(sent) \in Seq(Seq(STRING)) /\ Len(sent.chunks) \in Nat
    BY <1>2, ChunksOfFacts
  <2>3. Upto(DataOf(sent), 0) = <<>> /\ Upto(ChunksOf(sent), 0) = <<>>
    BY <2>2, UptoFacts
  <2>4. ChunkAt(0) = pos
    BY <1>2, <2>3 DEF ChunkAt
  <2>5. ChunksTaken(0)
    BY <1>2, <1>3, <1>7, <2>3 DEF ChunksTaken
  <2>6. \E k \in 0..Len(sent.chunks) : ChunksTaken(k) /\ pos = ChunkAt(k)
    <3>1. 0 \in 0..Len(sent.chunks)
      BY <2>2
    <3> QED BY <2>4, <2>5, <3>1
  <2>7. (\E k \in 0..Len(sent.chunks) : ChunksTaken(k) /\ pos = ChunkAt(k))'
    BY <1>1, <2>1, <2>6 DEF ChunksTaken, ChunkAt, Routed, HeadTaken, LineTaken, Routable
  <2>8. Progress'
    BY <1>2, <2>1, <2>7 DEF Progress
  <2> QED BY <1>1, <1>2, <2>1, <2>8, Continued
<1>8. CASE coding = <<>> /\ length # <<>>
  <2>1. ReadFixed(Atoi(length))
    BY <1>8, Zenon DEF ReadBody, coding, length
  <2>2. PICK n \in DOMAIN NumberOf : length = <<n>> /\ Lengths(sent) = << <<n>> >>
    BY <1>3, <1>8
  <2>3. ~Coded(sent) /\ ~sent.chunked
    <3>1. <<>> # <<Chunked>>
      OBVIOUS
    <3> QED BY <1>3, <1>8, <3>1
  <2>4. ReadFixed(Atoi(<<n>>))
    BY <2>1, <2>2
  <2> QED BY <1>1, <2>2, <2>3, <2>4, FixedReads
<1>9. CASE coding = <<>> /\ length = <<>> /\ line.method \in {"POST", "PUT"}
  <2>1. verdict' = "LengthRequired" /\ phase' = "done"
    BY <1>9, Zenon DEF ReadBody, Refuse, Return, coding, length
  <2>2. verdict' \in Faults(sent)
    BY <1>3, <1>4, <1>9, <2>1 DEF Faults, Verdicts
  <2> QED BY <1>1, <2>1, <2>2, Refused
<1>10. CASE coding = <<>> /\ length = <<>> /\ line.method \notin {"POST", "PUT"}
  <2>1. verdict' = "accepted" /\ phase' = "done" /\ bodyParsed' /\ UNCHANGED <<pos, body>>
    BY <1>10, Zenon DEF ReadBody, Accept, Return, coding, length
  <2>2. ~Coded(sent) /\ ~sent.chunked /\ Lengths(sent) = <<>>
    <3>1. <<>> # <<Chunked>>
      OBVIOUS
    <3> QED BY <1>3, <1>10, <3>1
  <2>3. sent.data = <<>> /\ Len(sent.data) = 0
    BY <1>2, <2>2
  <2>4. body' = Meant(sent) /\ Complete /\ pos' = Len(Wire(sent))
    BY <1>2, <2>1, <2>2, <2>3
  <2>5. Faults(sent) = {}
    <3>1. LengthsStated(sent) = {}
      BY <2>2, NoLength
    <3> QED BY <1>2, <1>4, <1>10, <2>2, <3>1, FixedFaults
  <2> QED BY <1>1, <1>2, <2>1, <2>4, <2>5, Accepted
<1> QED BY <1>5, <1>6, <1>7, <1>8, <1>9, <1>10

-----------------------------------------------------------------------------
(* The chunks.                                                             *)

Chunk1 == [size : Symbols, ext : Seq(Symbols), data : Seq(STRING)]

\* Where a chunk stands in the bytes sent.
LEMMA ChunkStands ==
    ASSUME NEW m, Grammar(m), m.chunked, NEW k \in 1..Len(m.chunks)
    PROVE  LET c == m.chunks[k]
               w == Wire(m)
               a == PayloadStart(m) + Len(Upto(ChunksOf(m), k - 1))
               s == Len(SizeLine(c))
               l == Len(c.data)
           IN  /\ c \in Chunk1 /\ a \in Nat /\ s \in Nat /\ s >= 3 /\ l \in Nat
               /\ At(w, a, SizeLine(c)) /\ At(w, a + s, c.data) /\ At(w, a + s + l, EndOfLine)
               /\ PayloadStart(m) + Len(Upto(ChunksOf(m), k)) = a + s + l + 2
               /\ Upto(DataOf(m), k - 1) \in Seq(STRING)
               /\ Upto(DataOf(m), k) = Upto(DataOf(m), k - 1) \o c.data
<1> DEFINE c == m.chunks[k]
           w == Wire(m)
           cs == ChunksOf(m)
           ds == DataOf(m)
           f == FlattenSeq(cs)
           p == PayloadStart(m)
           u == Len(Upto(cs, k - 1))
           s == Len(SizeLine(c))
           l == Len(c.data)
           b == ChunkBytes(c)
<1>1. /\ cs \in Seq(Seq(STRING)) /\ ds \in Seq(Seq(STRING)) /\ k \in 1..Len(cs) /\ k \in 1..Len(ds)
      /\ cs[k] = b /\ ds[k] = c.data /\ c \in Chunk1
  BY ChunksOfFacts DEF Chunk1
<1>2. w \in Seq(STRING) /\ At(w, p, f) /\ p \in Nat
  BY WireFacts, UpToTrailerFacts
<1>3. /\ b \in Seq(STRING) /\ Len(b) = s + l + 2 /\ c.data \in Seq(STRING)
      /\ SizeLine(c) \in Seq(STRING) /\ s >= 3 /\ s \in Nat
      /\ At(b, 0, SizeLine(c)) /\ At(b, s, c.data) /\ At(b, s + l, EndOfLine)
  <2> HIDE DEF c
  <2>1. /\ b \in Seq(STRING) /\ Len(b) = s + l + 2 /\ c.data \in Seq(STRING)
        /\ SizeLine(c) \in BlockLines
    BY <1>1, ChunkFacts DEF Chunk1
  <2>2. At(b, 0, SizeLine(c)) /\ At(b, s, c.data) /\ At(b, s + l, EndOfLine)
    BY <1>1, ChunkFacts DEF Chunk1
  <2> DEFINE y == SizeLine(c)
  <2>3. y \in BlockLines
    BY <2>1
  <2> HIDE DEF y
  <2>4. y \in Seq(STRING) /\ Len(y) >= 3 /\ Len(y) \in Nat
    BY <2>3 DEF BlockLines
  <2> QED BY <2>1, <2>2, <2>4 DEF y
<1> HIDE DEF w, cs, ds, p, b, s
<1>4. /\ f \in Seq(STRING) /\ u \in Nat /\ At(f, u, b)
      /\ Len(Upto(cs, k)) = u + Len(b)
  <2>1. k - 1 \in 0..Len(cs) /\ k \in 1..Len(cs)
    BY <1>1
  <2>2. /\ f \in Seq(STRING) /\ Upto(cs, k - 1) \in Seq(STRING)
        /\ At(f, Len(Upto(cs, k - 1)), cs[k])
        /\ Len(Upto(cs, k)) = Len(Upto(cs, k - 1)) + Len(cs[k])
    BY <1>1, <2>1, UptoFacts, FlattenFacts
  <2> QED BY <1>1, <2>2
<1>5. Upto(ds, k - 1) \in Seq(STRING) /\ Upto(ds, k) = Upto(ds, k - 1) \o c.data
  <2>1. k - 1 \in 0..Len(ds) /\ k \in 1..Len(ds)
    BY <1>1
  <2> QED BY <1>1, <2>1, UptoFacts
<1> DEFINE d == c.data
           t == SizeLine(c)
<1>6. l \in Nat /\ d \in Seq(STRING) /\ t \in Seq(STRING)
      /\ At(b, 0, t) /\ At(b, s, d) /\ At(b, s + l, EndOfLine)
  BY <1>3
<1> HIDE DEF f, u, d, t, l, c
<1>7. At(w, p + u, b) /\ p + u \in Nat
  BY <1>2, <1>3, <1>4, AtWithin
<1>8. At(w, (p + u) + 0, t) /\ At(w, (p + u) + s, d)
  <2>1. 0 \in Nat /\ s \in Nat
    BY <1>3
  <2> QED BY <1>2, <1>3, <1>6, <1>7, <2>1, AtWithin
<1>9. At(w, (p + u) + (s + l), EndOfLine)
  <2>1. s + l \in Nat /\ EndOfLine \in Seq(STRING)
    BY <1>3, <1>6, SymbolFacts
  <2> QED BY <1>2, <1>3, <1>6, <1>7, <2>1, AtWithin
<1>10. /\ (p + u) + 0 = p + u /\ (p + u) + (s + l) = p + u + s + l
       /\ p + Len(Upto(cs, k)) = p + u + s + l + 2
  BY <1>2, <1>3, <1>4, <1>6
<1>11. /\ c \in Chunk1 /\ p + u \in Nat /\ s \in Nat /\ s >= 3 /\ l \in Nat
       /\ At(w, p + u, t) /\ At(w, p + u + s, d) /\ At(w, p + u + s + l, EndOfLine)
       /\ p + Len(Upto(cs, k)) = p + u + s + l + 2
  BY <1>1, <1>3, <1>6, <1>7, <1>8, <1>9, <1>10
<1> QED BY <1>5, <1>11 DEF w, cs, ds, p, s, u, d, t, l, c

\* Where the last chunk stands, and the chunks' data.
LEMMA LastStands ==
    ASSUME NEW m, Grammar(m), m.chunked
    PROVE  LET a == PayloadStart(m) + Len(Upto(ChunksOf(m), Len(m.chunks)))
           IN  /\ a \in Nat /\ TrailerStart(m) = a + 3 /\ At(Wire(m), a, LastChunk)
               /\ Len(m.chunks) \in Nat
               /\ Upto(DataOf(m), Len(m.chunks)) = Meant(m)
<1>1. /\ ChunksOf(m) \in Seq(Seq(STRING)) /\ DataOf(m) \in Seq(Seq(STRING))
      /\ Len(ChunksOf(m)) = Len(m.chunks) /\ Len(DataOf(m)) = Len(m.chunks)
  BY ChunksOfFacts
<1>2. /\ Upto(ChunksOf(m), Len(m.chunks)) = FlattenSeq(ChunksOf(m))
      /\ Upto(DataOf(m), Len(m.chunks)) = FlattenSeq(DataOf(m))
  BY <1>1, UptoFacts
<1>3. FlattenSeq(DataOf(m)) = Meant(m)
  BY DEF DataOf, Meant
<1>4. Len(m.chunks) \in Nat
  <2> DEFINE n == Len(ChunksOf(m))
  <2>1. n \in Nat
    BY <1>1
  <2> QED BY <1>1, <2>1
<1>5. ChunksEnd(m) \in Nat /\ TrailerStart(m) = ChunksEnd(m) + 3 /\ At(Wire(m), ChunksEnd(m), LastChunk)
  BY WireFacts, UpToTrailerFacts
<1> QED BY <1>2, <1>3, <1>4, <1>5 DEF ChunksEnd

\* What a size line must be.
LEMMA LastIs ==
    /\ LastChunk \in BlockLines /\ Len(LastChunk) = 3 /\ LastChunk[1] = "0"
    /\ IsSizeLine(LastChunk)
<1> DEFINE t == <<>>
           y == <<"0">> \o t \o EndOfLine
<1>1. "0" \in Symbols /\ t \in Seq(Symbols) /\ Len(t) = 0
  BY SymbolFacts
<1>2. y = LastChunk
  <2>1. <<"0">> \o t = <<"0">>
    OBVIOUS
  <2> QED BY <2>1 DEF LastChunk
<1> HIDE DEF t
<1>3. y \in BlockLines /\ Len(y) = Len(t) + 3 /\ y[1] = "0" /\ EndsLine(y)
  BY <1>1, LineMade
<1> HIDE DEF y
<1>4. Len(y) = 3
  BY <1>1, <1>3
<1>5. y[1] \in DOMAIN NumberOf /\ NumberOf[y[1]] <= MaxInt
  BY <1>3, SymbolsAssumption, MaxIntAssumption
<1>6. Len(y) > 2 /\ ~(Len(y) > 3)
  BY <1>4
<1>7. IsSizeLine(y)
  BY <1>3, <1>5, <1>6, Zenon DEF IsSizeLine
<1> QED BY <1>2, <1>3, <1>4, <1>7, Zenon

\* The size line of a chunk passes just when it is well formed.
LEMMA SizeLineIs ==
    ASSUME NEW c \in Chunk1
    PROVE  /\ SizeLine(c) \in BlockLines /\ SizeLine(c)[1] = c.size
           /\ IsSizeLine(SizeLine(c)) <=>
                 /\ c.size \in DOMAIN NumberOf /\ NumberOf[c.size] <= MaxInt
                 /\ c.ext # <<>> => /\ c.ext[1] = ";" /\ Len(c.ext) # 1
                                    /\ \A i \in DOMAIN c.ext : c.ext[i] \notin Spaced
<1> DEFINE y == SizeLine(c)
           x == c.ext
           w == <<c.size>>
           t == w \o x
<1>1. /\ y \in BlockLines /\ Len(y) = Len(x) + 3 /\ y[1] = c.size /\ EndsLine(y)
      /\ WithoutEnd(y) = t /\ x \in Seq(Symbols) /\ c.size \in Symbols
  BY ChunkFacts DEF Chunk1
<1> HIDE DEF y
<1>2. w \in Seq(Symbols) /\ Len(w) = 1
  BY <1>1
<1> HIDE DEF w, x
<1>3. t \in Seq(Symbols) /\ Len(t) = 1 + Len(x) /\ At(t, 1, x)
  BY <1>1, <1>2, AtConcat
<1>4. Tail(t) = x
  <2> HIDE DEF t
  <2> DEFINE z == Tail(t)
  <2>0. Len(x) \in Nat
    BY <1>1
  <2>1. t # <<>>
    <3>1. Len(t) # 0
      BY <1>3, <2>0
    <3>2. Len(<<>>) = 0
      OBVIOUS
    <3> QED BY <3>1, <3>2, Zenon
  <2>2. z \in Seq(Symbols) /\ Len(z) = Len(t) - 1 /\ \A i \in 1..Len(z) : z[i] = t[i + 1]
    BY <1>3, <2>1
  <2> HIDE DEF z
  <2>3. Len(z) = Len(x)
    BY <1>3, <2>0, <2>2
  <2>4. \A i \in 1..Len(x) : z[i] = x[i]
    <3>1. ASSUME NEW i \in 1..Len(x) PROVE z[i] = x[i]
      <4>1. t[1 + i] = x[i] /\ z[i] = t[i + 1] /\ 1 + i = i + 1
        BY <1>3, <2>2, <2>3, <3>1 DEF At
      <4> QED BY <4>1
    <3> QED BY <3>1
  <2>5. z = x
    BY <1>1, <2>2, <2>3, <2>4
  <2> QED BY <2>5 DEF z
<1>5. x # <<>> => y[2] = x[1]
  <2>1. ASSUME x # <<>> PROVE y[2] = x[1]
    <3>1. Len(x) \in Nat /\ Len(x) >= 1
      BY <1>1, <2>1
    <3>2. t[2] = x[1]
      <4>1. 1 \in 1..Len(x) /\ 1 + 1 = 2
        BY <3>1
      <4> QED BY <1>3, <4>1 DEF At
    <3>3. y \in Seq(STRING)
      BY <1>1 DEF BlockLines
    <3> HIDE DEF t
    <3>4. SubSeq(y, 1, Len(y) - 2)[2] = y[2]
      <4>1. Len(y) - 2 >= 2 /\ Len(y) \in Nat
        BY <1>1, <3>1
      <4> QED BY <3>3, <4>1
    <3> QED BY <1>1, <3>2, <3>4 DEF WithoutEnd
  <2> QED BY <2>1
<1> HIDE DEF t
<1>6. Len(x) \in Nat /\ (Len(y) > 3 <=> x # <<>>) /\ Len(y) > 2
  <2> DEFINE l == Len(x)
  <2>1. l \in Nat /\ (x # <<>> <=> l # 0) /\ Len(y) = l + 3
    BY <1>1
  <2> HIDE DEF l
  <2>2. (Len(y) > 3 <=> l # 0) /\ Len(y) > 2
    BY <2>1
  <2> QED BY <2>1, <2>2 DEF l
<1>7. x # <<>> => (Len(x) > 1 <=> Len(x) # 1)
  <2> DEFINE l == Len(x)
  <2>1. l \in Nat /\ (x # <<>> => l # 0)
    BY <1>1
  <2> HIDE DEF l
  <2>2. x # <<>> => (l > 1 <=> l # 1)
    BY <2>1
  <2> QED BY <2>2 DEF l
<1>8. IsSizeLine(y) <=>
         /\ c.size \in DOMAIN NumberOf /\ NumberOf[c.size] <= MaxInt
         /\ x # <<>> => /\ x[1] = ";" /\ Len(x) # 1
                        /\ \A i \in DOMAIN x : x[i] \notin Spaced
  BY <1>1, <1>4, <1>5, <1>6, <1>7 DEF IsSizeLine, SoundExtension
<1> QED BY <1>1, <1>8 DEF y, x

\* A bad chunk is a fault of a request that is sent in chunks.
LEMMA ChunkedIs ==
    ASSUME Grammar(sent), sent.chunked
    PROVE  HasHead(sent) /\ Coded(sent) /\ Codings(sent) = << <<Chunked>> >>
<1>1. HasHead(sent) /\ Sent(sent, TransferEncoding) = << <<Chunked>> >>
  BY DEF Grammar
<1>2. << <<Chunked>> >> # << <<>> >> /\ << <<Chunked>> >> # <<>>
  <2>1. << <<Chunked>> >> # <<>>
    OBVIOUS
  <2>2. <<Chunked>> # <<>>
    OBVIOUS
  <2>3. \A y, z : <<y>> = <<z>> => y = z
    OBVIOUS
  <2> QED BY <2>1, <2>2, <2>3, Zenon
<1>3. Codings(sent) = << <<Chunked>> >>
  BY <1>1, <1>2, Zenon DEF Codings
<1> QED BY <1>1, <1>2, <1>3, Zenon DEF Coded

\* A refusal over a bad chunk.
LEMMA BadChunkRefused ==
    ASSUME IInv, PInv, Routed, sent.chunked, verdict' = "BadRequest", phase' = "done",
           Complete => \E i \in 1..Len(sent.chunks) : BadChunk(sent.chunks[i]),
           UNCHANGED <<sent, input>>
    PROVE  PInv'
<1>1. Grammar(sent)
  BY Standing
<1>2. DOMAIN sent.chunks = 1..Len(sent.chunks) /\ Coded(sent)
  BY <1>1, ChunksOfFacts, ChunkedIs
<1>3. Complete => BadPayload(sent)
  BY <1>2 DEF BadPayload
<1>4. Complete => verdict' \in Faults(sent)
  BY <1>3 DEF Routed, Faults, Verdicts
<1> QED BY <1>4, Refused

\* The chunk that is read next, or the last one.
LEMMA ChunkSizeReads ==
    ASSUME IInv, PInv, ReadChunkSize
    PROVE  PInv'
<1> DEFINE text == Line(input, pos, MaxLineLength)
           wire == Wire(sent)
           N == Len(sent.chunks)
<1>1. /\ phase = "size" /\ pos' = pos + Len(text)
      /\ UNCHANGED <<sent, input, line, rawHeader, counted, header, body, keepAlive>>
  BY DEF ReadChunkSize
<1>2. /\ Grammar(sent) /\ wire \in Seq(STRING) /\ input \in Seq(STRING)
      /\ Agrees(input, wire) /\ Len(input) \in Nat /\ Len(wire) \in Nat
      /\ Complete <=> Len(wire) <= Len(input)
      /\ Len(input) <= MaxInt
  BY Standing
<1>3. PICK k \in 0..N : ChunksTaken(k) /\ pos = ChunkAt(k)
  BY <1>1 DEF PInv, Progress
<1>4. Routed /\ sent.chunked /\ verdict = "none" /\ ~bodyParsed /\ pos \in 0..Len(input)
  BY <1>1, <1>3 DEF PInv, Progress, IInv, TypeOK, ChunksTaken
<1>5. N \in Nat /\ k \in Nat /\ MaxLineLength \in Nat /\ MaxLineLength > 2
  BY <1>2, <1>4, LastStands, CapsAssumption
<1>6. /\ text \in Seq(STRING) /\ Len(text) \in 0..MaxLineLength /\ pos + Len(text) \in 0..Len(input)
  BY <1>2, <1>4, <1>5, LineFacts
<1> HIDE DEF text, wire
<1>7. ASSUME ~IsSizeLine(text)
      PROVE  verdict' = "BadRequest" /\ phase' = "done"
  BY <1>7, Zenon DEF ReadChunkSize, Refuse, Return, text
<1>8. ASSUME IsSizeLine(text)
      PROVE  /\ size' = NumberOf[text[1]] /\ UNCHANGED <<verdict, bodyParsed>>
             /\ phase' = IF NumberOf[text[1]] = 0 THEN "trailer" ELSE "data"
  <2>1. /\ size' = NumberOf[text[1]] /\ UNCHANGED <<verdict, bodyParsed>>
        /\ phase' = IF size' = 0 THEN "trailer" ELSE "data"
    BY <1>8, Zenon DEF ReadChunkSize, Continue, Goto, text
  <2> QED BY <2>1
<1>9. ASSUME NEW y \in BlockLines, At(wire, pos, y)
      PROVE  /\ IsSizeLine(text) => text = y
             /\ Complete /\ Len(y) <= MaxLineLength => text = y
             /\ Len(y) \in Nat
  <2>1. pos \in Nat /\ pos <= Len(input) /\ MaxLineLength \in Nat \ {0}
    BY <1>4, <1>5
  <2>2. /\ EndsLine(text) => text = y
        /\ Len(y) <= MaxLineLength /\ pos + Len(y) <= Len(input) => text = y
    BY <1>2, <1>9, <2>1, WholeLine DEF text
  <2>3. Len(y) \in Nat
    BY DEF BlockLines
  <2>4. Complete => pos + Len(y) <= Len(input)
    BY <1>2, <1>9, <2>1, <2>3 DEF At
  <2> QED BY <2>2, <2>3, <2>4 DEF IsSizeLine
<1>10. CASE k < N
  <2> DEFINE c == sent.chunks[k + 1]
             y == SizeLine(c)
  <2>1. k + 1 \in 1..N /\ (k + 1) - 1 = k
    BY <1>5, <1>10
  <2>2. c \in Chunk1 /\ At(wire, ChunkAt(k), y) /\ Len(y) \in Nat
    <3>1. LET a == PayloadStart(sent) + Len(Upto(ChunksOf(sent), (k + 1) - 1))
          IN  c \in Chunk1 /\ At(Wire(sent), a, y) /\ Len(y) \in Nat
      BY <1>2, <1>4, <2>1, ChunkStands
    <3> QED BY <2>1, <3>1 DEF ChunkAt, wire
  <2>3. /\ y \in BlockLines /\ y[1] = c.size
        /\ IsSizeLine(y) <=>
                 /\ c.size \in DOMAIN NumberOf /\ NumberOf[c.size] <= MaxInt
                 /\ c.ext # <<>> => /\ c.ext[1] = ";" /\ Len(c.ext) # 1
                                    /\ \A i \in DOMAIN c.ext : c.ext[i] \notin Spaced
    BY <2>2, SizeLineIs
  <2>4. /\ IsSizeLine(text) => text = y
        /\ Complete /\ Len(y) <= MaxLineLength => text = y
    BY <1>3, <1>9, <2>2, <2>3
  <2>5. Complete => Len(c.data) <= MaxInt
    <3>1. LET a == PayloadStart(sent) + Len(Upto(ChunksOf(sent), (k + 1) - 1))
              s == Len(SizeLine(c))
          IN  a \in Nat /\ s \in Nat /\ Len(c.data) \in Nat /\ At(Wire(sent), a + s, c.data)
      BY <1>2, <1>4, <2>1, ChunkStands
    <3> QED BY <1>2, <3>1, MaxIntAssumption, SMTT(40) DEF At, wire
  <2>6. CASE ~IsSizeLine(text)
    <3>1. Complete => BadChunk(c)
      <4>1. ASSUME Complete, ~BadChunk(c) PROVE FALSE
        <5>1. Len(y) <= MaxLineLength
          <6>1. ~(Len(y) > MaxLineLength)
            BY <4>1, Zenon DEF BadChunk
          <6> HIDE DEF y
          <6> DEFINE l == Len(y)
          <6>2. l \in Nat /\ ~(l > MaxLineLength)
            BY <2>2, <6>1
          <6> HIDE DEF l
          <6>3. l <= MaxLineLength
            BY <1>5, <6>2
          <6> QED BY <6>3 DEF l
        <5>2. ~IsSizeLine(y)
          BY <2>4, <2>6, <4>1, <5>1
        <5>3. c.size \in DOMAIN NumberOf /\ NumberOf[c.size] <= MaxInt
          BY <2>5, <4>1 DEF BadChunk
        <5>4. c.ext # <<>> => /\ c.ext[1] = ";" /\ Len(c.ext) # 1
                              /\ \A i \in DOMAIN c.ext : c.ext[i] \notin Spaced
          BY <4>1, Zenon DEF BadChunk
        <5> QED BY <2>3, <5>2, <5>3, <5>4
      <4> QED BY <4>1
    <3>2. Complete => \E i \in 1..Len(sent.chunks) : BadChunk(sent.chunks[i])
      BY <2>1, <3>1
    <3> QED BY <1>1, <1>4, <1>7, <2>6, <3>2, BadChunkRefused
  <2>7. CASE IsSizeLine(text)
    <3>1. text = y
      BY <2>4, <2>7
    <3>2. NumberOf[c.size] # 0
      <4>1. k + 1 \in DOMAIN sent.chunks
        BY <1>2, <2>1, ChunksOfFacts
      <4> QED BY <1>2, <2>3, <2>7, <3>1, <4>1 DEF Grammar
    <3>3. size' = NumberOf[c.size] /\ phase' = "data" /\ UNCHANGED <<verdict, bodyParsed>>
      BY <1>8, <2>3, <2>7, <3>1, <3>2
    <3>4. ChunksTaken(k) /\ pos' = ChunkAt(k) + Len(y) /\ IsSizeLine(y) /\ Len(y) <= MaxLineLength
      BY <1>1, <1>3, <1>6, <2>7, <3>1
    <3> HIDE DEF c, y
    <3>5. ChunksTaken((k + 1) - 1) /\ pos' = ChunkAt((k + 1) - 1) + Len(y)
      BY <2>1, <3>4
    <3>6. \E i \in 1..Len(sent.chunks) :
            LET d == sent.chunks[i]
            IN  /\ ChunksTaken(i - 1) /\ pos' = ChunkAt(i - 1) + Len(SizeLine(d))
                /\ IsSizeLine(SizeLine(d)) /\ Len(SizeLine(d)) <= MaxLineLength
                /\ size' = NumberOf[d.size]
      BY <2>1, <3>3, <3>4, <3>5 DEF c, y
    <3>7. (\E i \in 1..Len(sent.chunks) :
            LET d == sent.chunks[i]
            IN  /\ ChunksTaken(i - 1) /\ pos = ChunkAt(i - 1) + Len(SizeLine(d))
                /\ IsSizeLine(SizeLine(d)) /\ Len(SizeLine(d)) <= MaxLineLength
                /\ size = NumberOf[d.size])'
      BY <1>1, <3>6 DEF ChunksTaken, ChunkAt, Routed, HeadTaken, LineTaken, Routable
    <3>8. Progress'
      BY <1>4, <3>3, <3>7 DEF Progress
    <3> QED BY <1>1, <1>4, <3>3, <3>8, Continued
  <2> QED BY <2>6, <2>7
<1>11. CASE k = N
  <2> DEFINE y == LastChunk
  <2>1. /\ At(wire, pos, y) /\ TrailerStart(sent) = pos + 3 /\ TrailerStart(sent) \in Nat
    <3>1. LET a == PayloadStart(sent) + Len(Upto(ChunksOf(sent), Len(sent.chunks)))
          IN  a \in Nat /\ TrailerStart(sent) = a + 3 /\ At(Wire(sent), a, LastChunk)
      BY <1>2, <1>4, LastStands
    <3> QED BY <1>3, <1>11, <3>1 DEF ChunkAt, wire
  <2>2. y \in BlockLines /\ Len(y) = 3 /\ y[1] = "0" /\ IsSizeLine(y)
    BY LastIs
  <2> HIDE DEF y
  <2>3. /\ IsSizeLine(text) => text = y
        /\ Complete /\ Len(y) <= MaxLineLength => text = y
    BY <1>9, <2>1, <2>2
  <2>4. CASE ~IsSizeLine(text)
    <3>1. ~Complete
      BY <1>5, <2>2, <2>3, <2>4
    <3> QED BY <1>1, <1>7, <2>4, <3>1, Refused
  <2>5. CASE IsSizeLine(text)
    <3>1. text = y /\ NumberOf[text[1]] = 0
      BY <2>2, <2>3, <2>5, SymbolsAssumption
    <3>2. phase' = "trailer" /\ UNCHANGED <<verdict, bodyParsed>>
      BY <1>8, <2>5, <3>1
    <3>3. pos' = TrailerStart(sent) /\ TrailerStart(sent) <= Len(input)
      <4>1. Len(text) = 3
        BY <2>2, <3>1
      <4>2. pos' = pos + 3 /\ pos + 3 \in 0..Len(input)
        BY <1>1, <1>6, <4>1
      <4>3. pos + 3 <= Len(input)
        BY <1>2, <4>2
      <4> QED BY <2>1, <4>2, <4>3
    <3>4. LinesOf(sent.trailer) \in Seq(BlockLines)
      BY <1>2, GrammarFacts, LinesOfFacts
    <3>5. Inside(TrailerStart(sent), LinesOf(sent.trailer), pos')
      BY <2>1, <3>3, <3>4, InsideStarts
    <3>6. ChunksTaken(Len(sent.chunks))
      BY <1>3, <1>11
    <3>7. (/\ ChunksTaken(Len(sent.chunks)) /\ TrailerStart(sent) <= Len(input)
           /\ Within(TrailerStart(sent), LinesOf(sent.trailer), pos))'
      BY <1>1, <3>3, <3>5, <3>6
         DEF Within, ChunksTaken, Routed, HeadTaken, LineTaken, Routable
    <3>8. Progress'
      BY <1>4, <3>2, <3>7 DEF Progress
    <3> QED BY <1>1, <1>4, <3>2, <3>8, Continued
  <2> QED BY <2>4, <2>5
<1> QED BY <1>5, <1>10, <1>11

\* readN over a chunk's data.
LEMMA ChunkDataReads ==
    ASSUME IInv, PInv, ReadChunkData
    PROVE  PInv'
<1> DEFINE wire == Wire(sent)
           z == Len(input)
<1>1. /\ phase = "data"
      /\ UNCHANGED <<sent, input, line, rawHeader, counted, header, size, keepAlive>>
  BY DEF ReadChunkData
<1>2. /\ Grammar(sent) /\ wire \in Seq(STRING) /\ input \in Seq(STRING)
      /\ Agrees(input, wire) /\ z \in Nat /\ Len(wire) \in Nat
      /\ Complete <=> Len(wire) <= z
      /\ z <= MaxInt
  BY Standing
<1>3. PICK k \in 1..Len(sent.chunks) :
          LET c == sent.chunks[k]
          IN  /\ ChunksTaken(k - 1) /\ pos = ChunkAt(k - 1) + Len(SizeLine(c))
              /\ IsSizeLine(SizeLine(c)) /\ Len(SizeLine(c)) <= MaxLineLength
              /\ size = NumberOf[c.size]
  BY <1>1 DEF PInv, Progress
<1> DEFINE c == sent.chunks[k]
           d == c.data
           l == Len(d)
           y == SizeLine(c)
<1>4. /\ Routed /\ sent.chunked /\ verdict = "none" /\ ~bodyParsed /\ pos \in 0..z
      /\ size \in Nat /\ MaxInt \in Nat
  BY <1>1, <1>3, MaxIntAssumption DEF PInv, Progress, IInv, TypeOK, ChunksTaken
<1>5. Len(sent.chunks) \in Nat
  BY <1>2, <1>4, LastStands
<1>6. /\ c \in Chunk1 /\ l \in Nat
      /\ At(wire, pos, d) /\ At(wire, pos + l, EndOfLine)
      /\ ChunkAt(k) = pos + l + 2
      /\ Upto(DataOf(sent), k) = Upto(DataOf(sent), k - 1) \o d
  <2>1. LET a == PayloadStart(sent) + Len(Upto(ChunksOf(sent), k - 1))
            s == Len(SizeLine(c))
        IN  /\ c \in Chunk1 /\ l \in Nat
            /\ At(wire, a + s, d) /\ At(wire, a + s + l, EndOfLine)
            /\ PayloadStart(sent) + Len(Upto(ChunksOf(sent), k)) = a + s + l + 2
            /\ Upto(DataOf(sent), k) = Upto(DataOf(sent), k - 1) \o d
    BY <1>2, <1>4, ChunkStands
  <2> QED BY <1>3, <2>1 DEF ChunkAt
<1>7. IsSizeLine(y) /\ size = NumberOf[c.size] /\ ChunksTaken(k - 1) /\ Len(y) <= MaxLineLength
  BY <1>3
<1>8. /\ c.size \in DOMAIN NumberOf
      /\ c.ext # <<>> => /\ c.ext[1] = ";" /\ Len(c.ext) # 1
                         /\ \A i \in DOMAIN c.ext : c.ext[i] \notin Spaced
  BY <1>6, <1>7, SizeLineIs
<1>9. size = l \/ size > z
  <2>1. k \in DOMAIN sent.chunks /\ sent \in Requests /\ input \in Arrivals(Wire(sent))
    BY <1>2, ChunksOfFacts DEF PInv
  <2>2. States(sent, c.size, d)
    BY <2>1, ClientsAssumption
  <2> QED BY <1>7, <1>8, <2>1, <2>2 DEF States
<1>10. Len(y) \in Nat /\ MaxLineLength \in Nat
  <2>1. y \in BlockLines
    BY <1>6, SizeLineIs
  <2> HIDE DEF y
  <2> QED BY <2>1, CapsAssumption DEF BlockLines
<1> HIDE DEF wire, z, c, d, l, y
<1>11. Complete => pos + l + 2 <= z
  <2>1. pos + l + Len(EndOfLine) <= Len(wire)
    BY <1>6 DEF At
  <2>2. pos \in Nat
    BY <1>2, <1>4
  <2> QED BY <1>2, <1>6, <2>1, <2>2, SymbolFacts
<1>12. ASSUME Complete, size = l
       PROVE  Enough(input, pos, size) /\ ~Overruns(input, pos, size)
  <2>1. pos + size \in Nat /\ pos + size <= MaxInt /\ pos + size <= z
    BY <1>2, <1>4, <1>6, <1>11, <1>12
  <2>2. Wrapped(pos + size) = pos + size
    BY <2>1, WrappedNarrow
  <2> QED BY <1>2, <2>1, <2>2 DEF Enough, Overruns, z
<1>13. CASE ~Enough(input, pos, size)
  <2>1. verdict' = "BadRequest" /\ phase' = "done"
    BY <1>13, Zenon DEF ReadChunkData, Refuse, Return
  <2>2. Complete => BadChunk(c)
    BY <1>7, <1>12, <1>13 DEF BadChunk, d, l
  <2>3. Complete => \E i \in 1..Len(sent.chunks) : BadChunk(sent.chunks[i])
    BY <2>2 DEF c
  <2> QED BY <1>1, <1>4, <2>1, <2>3, BadChunkRefused
<1>14. CASE Enough(input, pos, size) /\ Overruns(input, pos, size)
  <2>1. verdict' = "panic" /\ phase' = "done"
    BY <1>14, Zenon DEF ReadChunkData, Refuse, Return
  <2>2. Complete => size > z
    BY <1>9, <1>12, <1>14
  <2>3. size > MaxInt - z
    <3>1. ASSUME ~(size > MaxInt - z) PROVE FALSE
      <4>1. size + z <= MaxInt
        BY <1>2, <1>4, <3>1
      <4>2. ~Overruns(input, pos, size)
        BY <1>2, <1>4, <4>1, NarrowFits DEF z
      <4> QED BY <1>14, <4>2
    <3> QED BY <3>1
  <2>4. size \in SizesStated(sent)
    <3>1. c \in ToSet(sent.chunks)
      BY <1>2, ChunksOfFacts DEF c, ToSet
    <3> QED BY <1>7, <1>8, <3>1 DEF SizesStated
  <2>5. Complete => Overlong(sent)
    BY <2>2, <2>3, <2>4 DEF Overlong, z
  <2>6. Complete => verdict' \in Faults(sent)
    BY <1>4, <2>1, <2>5 DEF Faults, Verdicts, Routed
  <2> QED BY <1>1, <2>1, <2>6, Refused
<1>15. CASE Enough(input, pos, size) /\ ~Overruns(input, pos, size)
  <2>1. /\ pos' = pos + size /\ body' = body \o Taken(input, pos, size)
        /\ phase' = "chunkEnd" /\ UNCHANGED <<verdict, bodyParsed>>
    BY <1>15, Zenon DEF ReadChunkData, Continue, Goto
  <2>2. pos + size <= z
    BY <1>2, <1>4, <1>15 DEF Overruns, z
  <2>3. size = l
    BY <1>2, <1>4, <1>9, <2>2
  <2>4. Taken(input, pos, size) = d
    <3>1. d \in Seq(STRING) /\ pos \in Nat /\ pos + Len(d) <= z
      BY <1>4, <1>6, <2>2, <2>3 DEF Chunk1, d, l
    <3>2. At(input, pos, d)
      BY <1>2, <1>6, <3>1, AtData DEF z
    <3>3. SubSeq(input, pos + 1, pos + Len(d)) = d
      BY <1>2, <3>1, <3>2, AtCutOut
    <3> QED BY <2>3, <3>3 DEF Taken, l
  <2>5. body' = Upto(DataOf(sent), k)
    BY <1>6, <1>7, <2>1, <2>4 DEF ChunksTaken
  <2>6. ~BadChunk(c)
    <3>1. ~(Len(SizeLine(c)) > MaxLineLength)
      <4> DEFINE n == Len(y)
      <4>1. n \in Nat /\ n <= MaxLineLength
        BY <1>7, <1>10
      <4> HIDE DEF n
      <4>2. ~(n > MaxLineLength)
        BY <1>10, <4>1
      <4> QED BY <4>2 DEF n, y
    <3>2. NumberOf[c.size] = Len(c.data)
      BY <1>7, <2>3 DEF l, d
    <3> QED BY <1>8, <3>1, <3>2, Zenon DEF BadChunk
  <2>7. \A i \in 1..k : ~BadChunk(sent.chunks[i])
    <3>1. \A i \in 1..k : i \in 1..(k - 1) \/ i = k
      BY <1>5
    <3> QED BY <1>7, <2>6, <3>1 DEF ChunksTaken, c
  <2>8. pos' + 2 = ChunkAt(k)
    BY <1>4, <1>6, <2>1, <2>3
  <2>9. /\ Routed /\ sent.chunked /\ Lengths(sent) = <<>>
    BY <1>7 DEF ChunksTaken
  <2>10. (\E i \in 1..Len(sent.chunks) : ChunksTaken(i) /\ pos + 2 = ChunkAt(i))'
    <3>1. Routed'
      BY <1>1, <2>9 DEF Routed, HeadTaken, LineTaken, Routable
    <3>2. ChunksTaken(k)'
      BY <1>1, <2>5, <2>7, <2>9, <3>1 DEF ChunksTaken
    <3>3. (ChunkAt(k))' = ChunkAt(k)
      BY <1>1 DEF ChunkAt
    <3> QED BY <1>1, <2>8, <3>2, <3>3
  <2>11. Progress'
    BY <1>4, <2>1, <2>10 DEF Progress
  <2> QED BY <1>1, <1>4, <2>1, <2>11, Continued
<1> QED BY <1>13, <1>14, <1>15

\* The end of line after a chunk.
LEMMA ChunkEndReads ==
    ASSUME IInv, PInv, ReadChunkEnd
    PROVE  PInv'
<1> DEFINE text == Line(input, pos, MaxLineLength)
           wire == Wire(sent)
<1>1. /\ phase = "chunkEnd" /\ pos' = pos + Len(text)
      /\ UNCHANGED <<sent, input, line, rawHeader, counted, header, size, body, keepAlive>>
  BY DEF ReadChunkEnd
<1>2. /\ Grammar(sent) /\ wire \in Seq(STRING) /\ input \in Seq(STRING)
      /\ Agrees(input, wire) /\ Len(input) \in Nat /\ Len(wire) \in Nat
      /\ Complete <=> Len(wire) <= Len(input)
  BY Standing
<1>3. PICK k \in 1..Len(sent.chunks) : ChunksTaken(k) /\ pos + 2 = ChunkAt(k)
  BY <1>1 DEF PInv, Progress
<1>4. Routed /\ sent.chunked /\ verdict = "none" /\ ~bodyParsed /\ pos \in 0..Len(input)
  BY <1>1, <1>3 DEF PInv, Progress, IInv, TypeOK, ChunksTaken
<1>5. At(wire, pos, EndOfLine)
  <2> DEFINE a == PayloadStart(sent) + Len(Upto(ChunksOf(sent), k - 1))
             s == Len(SizeLine(sent.chunks[k]))
             l == Len(sent.chunks[k].data)
             q == PayloadStart(sent) + Len(Upto(ChunksOf(sent), k))
  <2>1. /\ a \in Nat /\ s \in Nat /\ l \in Nat
        /\ At(wire, a + s + l, EndOfLine) /\ q = a + s + l + 2
    BY <1>2, <1>4, ChunkStands
  <2>2. pos + 2 = q /\ pos \in Nat
    BY <1>3, <1>4 DEF ChunkAt
  <2> HIDE DEF a, s, l, q
  <2>3. pos = a + s + l
    BY <2>1, <2>2
  <2> QED BY <2>1, <2>3
<1>6. (text = EndOfLine <=> pos + 2 <= Len(input)) /\ Len(EndOfLine) = 2
  <2>1. MaxLineLength \in Nat /\ MaxLineLength >= 2
    BY CapsAssumption
  <2> HIDE DEF wire
  <2> QED BY <1>2, <1>4, <1>5, <2>1, EndRead, SymbolFacts
<1>7. Complete => pos + 2 <= Len(input)
  <2>1. pos + 2 <= Len(wire) /\ pos \in Nat
    BY <1>4, <1>5, <1>6 DEF At
  <2> QED BY <1>2, <2>1
<1> HIDE DEF text, wire
<1>8. CASE text = EndOfLine
  <2>1. phase' = "size" /\ UNCHANGED <<verdict, bodyParsed>>
    BY <1>8, Zenon DEF ReadChunkEnd, Continue, Goto, text
  <2>2. pos' = ChunkAt(k)
    BY <1>1, <1>3, <1>6, <1>8
  <2>3. k \in 0..Len(sent.chunks)
    BY <1>2, <1>4, LastStands
  <2>4. (\E i \in 0..Len(sent.chunks) : ChunksTaken(i) /\ pos = ChunkAt(i))'
    BY <1>1, <1>3, <2>2, <2>3 DEF ChunksTaken, ChunkAt, Routed, HeadTaken, LineTaken, Routable
  <2>5. Progress'
    BY <1>4, <2>1, <2>4 DEF Progress
  <2> QED BY <1>1, <1>4, <2>1, <2>5, Continued
<1>9. CASE text # EndOfLine
  <2>1. verdict' = "BadRequest" /\ phase' = "done"
    BY <1>9, Zenon DEF ReadChunkEnd, Refuse, Return, text
  <2>2. ~Complete
    BY <1>6, <1>7, <1>9
  <2> QED BY <1>1, <2>1, <2>2, Refused
<1> QED BY <1>8, <1>9

\* Nothing is wrong with a request whose chunks were read and whose data is
\* there in full.
LEMMA ChunkedFaults ==
    ASSUME IInv, PInv, ChunksTaken(Len(sent.chunks)), Complete
    PROVE  Faults(sent) = {}
<1>1. /\ Grammar(sent) /\ Len(input) \in Nat /\ Len(Wire(sent)) \in Nat
      /\ Len(Wire(sent)) <= Len(input)
  BY Standing
<1>2. /\ Routed /\ sent.chunked /\ Lengths(sent) = <<>>
      /\ \A i \in 1..Len(sent.chunks) : ~BadChunk(sent.chunks[i])
  BY DEF ChunksTaken
<1>3. /\ DOMAIN sent.chunks = 1..Len(sent.chunks)
      /\ Coded(sent) /\ Codings(sent) = << <<Chunked>> >> /\ LengthsStated(sent) = {}
  BY <1>1, <1>2, ChunksOfFacts, ChunkedIs, NoLength
<1>4. ~TooLarge(sent) /\ ~BadHead(sent) /\ sent.target[1] = "/"
  BY <1>2 DEF Routed, HeadTaken
<1>5. ~BadPayload(sent)
  BY <1>2, <1>3, <1>4 DEF BadPayload
<1>6. ASSUME NEW i \in 1..Len(sent.chunks)
      PROVE  NumberOf[sent.chunks[i].size] <= Len(input)
  <2> DEFINE c == sent.chunks[i]
             a == PayloadStart(sent) + Len(Upto(ChunksOf(sent), i - 1))
             s == Len(SizeLine(c))
             l == Len(c.data)
             w == Len(Wire(sent))
             z == Len(input)
  <2>1. a \in Nat /\ s \in Nat /\ l \in Nat /\ a + s + l <= w
    <3>1. /\ a \in Nat /\ s \in Nat /\ l \in Nat
          /\ At(Wire(sent), a + s, c.data)
      BY <1>1, <1>2, ChunkStands
    <3>2. a + s + Len(c.data) <= Len(Wire(sent))
      BY <3>1 DEF At
    <3> QED BY <3>1, <3>2
  <2>2. NumberOf[c.size] = l
    BY <1>2 DEF BadChunk
  <2>3. w \in Nat /\ z \in Nat /\ w <= z
    BY <1>1
  <2> HIDE DEF a, s, l, w, z
  <2>4. l <= z
    BY <2>1, <2>3
  <2> QED BY <2>2, <2>4 DEF z
<1>7. ~Overlong(sent)
  <2>1. ASSUME NEW n \in SizesStated(sent) PROVE n <= Len(input)
    <3>1. PICK c \in ToSet(sent.chunks) : n = NumberOf[c.size] /\ c.size \in DOMAIN NumberOf
      BY <2>1 DEF SizesStated
    <3>2. PICK i \in 1..Len(sent.chunks) : c = sent.chunks[i]
      BY <1>3 DEF ToSet
    <3> QED BY <1>6, <3>1, <3>2
  <2>2. \A n \in SizesStated(sent) : n \in Nat
    BY SymbolsAssumption DEF SizesStated
  <2>3. \A n \in SizesStated(sent) : ~(n > Len(input))
    BY <1>1, <2>1, <2>2
  <2> QED BY <1>3, <2>3 DEF Overlong
<1>8. sent.method \in {"POST", "PUT"} => Coded(sent)
  BY <1>3
<1> QED BY <1>3, <1>4, <1>5, <1>7 DEF Faults

\* The trailer, of which nothing is kept.
LEMMA TrailerReads ==
    ASSUME IInv, PInv, ReadTrailerLine
    PROVE  PInv'
<1> DEFINE text == Line(input, pos, MaxLineLength)
           wire == Wire(sent)
           base == TrailerStart(sent)
           lines == LinesOf(sent.trailer)
           b == FlattenSeq(lines)
           end == base + Len(b)
           e == pos + Len(text)
<1>1. /\ phase = "trailer" /\ pos' = e
      /\ UNCHANGED <<sent, input, line, rawHeader, counted, header, size, body, keepAlive>>
  BY DEF ReadTrailerLine
<1>2. /\ Grammar(sent) /\ wire \in Seq(STRING) /\ input \in Seq(STRING)
      /\ Agrees(input, wire) /\ Len(input) \in Nat /\ Len(wire) \in Nat
      /\ Complete <=> Len(wire) <= Len(input)
      /\ sent.chunked => (IsPrefix(UpToTrailer(sent), input) <=> base <= Len(input))
  BY Standing
<1>3. /\ ChunksTaken(Len(sent.chunks)) /\ base <= Len(input)
      /\ Within(base, lines, pos)
  BY <1>1 DEF PInv, Progress
<1>4. /\ Routed /\ HeadTaken /\ sent.chunked /\ verdict = "none" /\ ~bodyParsed /\ pos \in 0..Len(input)
  BY <1>1, <1>3 DEF PInv, Progress, IInv, TypeOK, ChunksTaken, Routed
<1>5. body = Meant(sent)
  BY <1>2, <1>3, <1>4, LastStands DEF ChunksTaken
<1>6. /\ lines \in Seq(BlockLines) /\ b = Block(sent.trailer) /\ b \in Seq(STRING)
      /\ CutFields(sent.trailer) <=> \E n \in 1..Len(lines) : CutToBlank(lines[n])
  BY <1>2, GrammarFacts, LinesOfFacts
<1>7. /\ base \in Nat /\ Len(b) \in Nat /\ At(wire, base, b) /\ At(wire, end, EndOfLine)
      /\ Len(wire) = end + 2
  BY <1>2, <1>4, <1>6, WireFacts
<1>8. Complete \/ TrailerCut
  BY <1>2, <1>3, <1>4 DEF TrailerCut
<1>9. Complete => Faults(sent) = {}
  BY <1>3, ChunkedFaults
<1>10. MaxLineLength \in Nat \ {0} /\ Len(EndOfLine) = 2
  BY CapsAssumption, SymbolFacts
<1>11. text \in Seq(STRING) /\ e \in pos..Len(input)
  BY <1>2, <1>4, <1>10, LineReads
<1>12. TrailerSplit <=> \E n \in 1..Len(lines) : CutToBlank(lines[n])
  BY <1>4, <1>6 DEF TrailerSplit
<1>13. Inside(base, lines, pos) \/ (pos = Len(input) /\ Len(input) < end + 2)
  BY <1>3 DEF Within
<1> HIDE DEF wire, base, lines, b, end
<1>14. ASSUME Inside(base, lines, pos)
       PROVE  /\ text = <<>> => pos = Len(input) /\ pos <= end
              /\ text = EndOfLine => pos = end \/ TrailerSplit
              /\ text # EndOfLine => \/ Inside(base, lines, e)
                                     \/ e = Len(input) /\ Len(input) < end + 2
  <2>1. /\ wire \in Seq(STRING) /\ input \in Seq(STRING) /\ Agrees(input, wire)
        /\ base \in Nat /\ lines \in Seq(BlockLines) /\ pos \in 0..Len(input)
        /\ Inside(base, lines, pos) /\ end = base + Len(FlattenSeq(lines))
        /\ At(wire, base, FlattenSeq(lines)) /\ At(wire, end, EndOfLine)
        /\ text = Line(input, pos, MaxLineLength) /\ e = pos + Len(text)
    BY <1>2, <1>4, <1>6, <1>7, <1>14 DEF b, end
  <2>2. end \in Nat
    BY <1>7 DEF end
  <2> HIDE DEF text, e
  <2>3. pos \in base..end /\ (text = <<>> => pos = Len(input))
    BY <2>1, ReadWithin
  <2>4. text # EndOfLine => \/ Inside(base, lines, e) /\ e <= end
                            \/ e = Len(input) /\ Len(input) < end + 2
    BY <2>1, ReadWithin
  <2>5. ASSUME text = EndOfLine
        PROVE  \/ pos = end /\ \A n \in 1..Len(lines) : ~CutToBlank(lines[n])
               \/ \E n \in 1..Len(lines) :
                     /\ CutToBlank(lines[n])
                     /\ base + Len(Upto(lines, n - 1)) < pos
                     /\ pos < base + Len(Upto(lines, n))
    <3>1. /\ wire \in Seq(STRING) /\ input \in Seq(STRING) /\ Agrees(input, wire)
          /\ base \in Nat /\ lines \in Seq(BlockLines) /\ pos \in 0..Len(input)
          /\ Inside(base, lines, pos) /\ end = base + Len(FlattenSeq(lines))
          /\ At(wire, base, FlattenSeq(lines)) /\ At(wire, end, EndOfLine)
          /\ text = Line(input, pos, MaxLineLength)
      BY <2>1
    <3> QED BY <2>5, <3>1, ReadWithin
  <2> QED BY <1>7, <1>12, <2>2, <2>3, <2>4, <2>5
<1>15. end \in Nat
  BY <1>7 DEF end
<1> HIDE DEF text
<1>16. CASE text = <<>>
  <2>1. verdict' = "accepted" /\ phase' = "done" /\ bodyParsed'
    BY <1>16, Zenon DEF ReadTrailerLine, Accept, Return, text
  <2>2. ~Complete
    BY <1>2, <1>7, <1>13, <1>14, <1>15, <1>16
  <2>3. TrailerCut
    BY <1>8, <2>2
  <2> QED BY <1>1, <1>4, <1>5, <2>1, <2>2, <2>3, Accepted
<1>17. CASE text = EndOfLine
  <2>1. verdict' = "accepted" /\ phase' = "done" /\ bodyParsed'
    BY <1>17, Zenon DEF ReadTrailerLine, Accept, Return, text
  <2>2. e = pos + 2
    BY <1>10, <1>17
  <2>3. Inside(base, lines, pos)
    <3>1. pos # Len(input)
      BY <1>4, <1>11, <1>2, <2>2
    <3> QED BY <1>13, <3>1
  <2>4. pos = end \/ TrailerSplit
    BY <1>14, <1>17, <2>3
  <2>5. ~TrailerSplit => pos' = Len(wire)
    BY <1>1, <1>7, <2>2, <2>4
  <2> QED BY <1>1, <1>4, <1>5, <1>8, <1>9, <2>1, <2>5, Accepted DEF wire
<1>18. CASE text # <<>> /\ text # EndOfLine
  <2>1. phase' = "trailer" /\ UNCHANGED <<verdict, bodyParsed>>
    BY <1>18, Zenon DEF ReadTrailerLine, Continue, Goto, text
  <2>2. Inside(base, lines, pos)
    <3>1. ASSUME pos = Len(input) PROVE FALSE
      <4>1. Len(text) = 0
        <5> DEFINE n == Len(text)
        <5>1. n \in Nat /\ pos + n \in pos..Len(input) /\ pos \in Nat
          BY <1>2, <1>11, <3>1
        <5> HIDE DEF n
        <5>2. n = 0
          BY <1>2, <3>1, <5>1
        <5> QED BY <5>2 DEF n
      <4>2. text = <<>>
        BY <1>11, <4>1
      <4> QED BY <1>18, <4>2
    <3> QED BY <1>13, <3>1
  <2>3. Inside(base, lines, e) \/ (e = Len(input) /\ Len(input) < end + 2)
    BY <1>14, <1>18, <2>2
  <2>4. Within(base, lines, e)
    BY <2>3 DEF Within, end, b
  <2> HIDE DEF e
  <2>5. (/\ ChunksTaken(Len(sent.chunks)) /\ TrailerStart(sent) <= Len(input)
         /\ Within(TrailerStart(sent), LinesOf(sent.trailer), pos))'
    <3>1. ChunksTaken(Len(sent.chunks))'
      BY <1>1, <1>3 DEF ChunksTaken, Routed, HeadTaken, LineTaken, Routable
    <3>2. Within(TrailerStart(sent), LinesOf(sent.trailer), pos)'
      BY <1>1, <2>4 DEF Within, base, lines
    <3> QED BY <1>1, <1>3, <3>1, <3>2 DEF base
  <2>6. Progress'
    BY <1>4, <2>1, <2>5 DEF Progress
  <2> QED BY <1>1, <1>4, <2>1, <2>6, Continued
<1> QED BY <1>16, <1>17, <1>18

\* A step that changes nothing.
LEMMA StutterReads ==
    ASSUME IInv, PInv, UNCHANGED vars
    PROVE  PInv'
<1>1. UNCHANGED <<sent, input, pos, phase, line, rawHeader, counted, header, size,
                  body, keepAlive, bodyParsed, verdict>>
  BY DEF vars
<1>2. sent' \in Requests /\ input' \in Arrivals(Wire(sent'))
  BY <1>1 DEF PInv
<1>3. HeadTaken' <=> HeadTaken
  BY <1>1 DEF HeadTaken, LineTaken
<1>4. Routed' <=> Routed
  BY <1>1, <1>3 DEF Routed, Routable
<1>5. ASSUME NEW k PROVE (ChunksTaken(k)' <=> ChunksTaken(k)) /\ ChunkAt(k)' = ChunkAt(k)
  BY <1>1, <1>4 DEF ChunksTaken, ChunkAt
<1>6. InHeader' <=> InHeader
  BY <1>1 DEF InHeader, LineTaken, Within
<1>7. CASE phase \in {"line", "header", "target", "body"}
  <2>1. Progress'
    BY <1>1, <1>3, <1>4, <1>6, <1>7 DEF PInv, Progress
  <2> QED BY <1>1, <1>7, <2>1, Continued DEF IInv
<1>8. CASE phase \in {"size", "data", "chunkEnd", "trailer"}
  <2>1. verdict' = "none" /\ ~bodyParsed'
    BY <1>1, <1>8 DEF IInv, PInv, Progress
  <2>2. phase = "size" => (\E k \in 0..Len(sent.chunks) : ChunksTaken(k) /\ pos = ChunkAt(k))'
    BY <1>1, <1>5 DEF PInv, Progress
  <2>3. phase = "data" =>
          (\E k \in 1..Len(sent.chunks) :
             LET c == sent.chunks[k]
             IN  /\ ChunksTaken(k - 1) /\ pos = ChunkAt(k - 1) + Len(SizeLine(c))
                 /\ IsSizeLine(SizeLine(c)) /\ Len(SizeLine(c)) <= MaxLineLength
                 /\ size = NumberOf[c.size])'
    BY <1>1, <1>5 DEF PInv, Progress
  <2>4. phase = "chunkEnd" =>
          (\E k \in 1..Len(sent.chunks) : ChunksTaken(k) /\ pos + 2 = ChunkAt(k))'
    BY <1>1, <1>5 DEF PInv, Progress
  <2>5. phase = "trailer" =>
          (/\ ChunksTaken(Len(sent.chunks)) /\ TrailerStart(sent) <= Len(input)
           /\ Within(TrailerStart(sent), LinesOf(sent.trailer), pos))'
    BY <1>1, <1>5 DEF PInv, Progress, Within
  <2>6. Progress'
    BY <1>1, <1>8, <2>1, <2>2, <2>3, <2>4, <2>5 DEF Progress
  <2> QED BY <1>1, <2>1, <2>6, Continued
<1>9. CASE phase = "done"
  <2>1. Progress'
    BY <1>1, <1>9 DEF Progress
  <2>2. VerdictIsDeserved' /\ AcceptedIsWhole' /\ KeptAliveIsDrained'
    BY <1>1, SameFaults DEF PInv, VerdictIsDeserved, AcceptedIsWhole, KeptAliveIsDrained
  <2> QED BY <1>1, <1>2, <1>3, <2>1, <2>2 DEF PInv
<1> QED BY <1>7, <1>8, <1>9 DEF IInv, TypeOK

-----------------------------------------------------------------------------
(* The theorems.                                                           *)

\* The inductive invariant holds of every run of ParseRequest.
THEOREM IInvHolds == Spec => []IInv
<1>1. Init => IInv
  BY StartKeeps
<1>2. IInv /\ [Next]_vars => IInv'
  BY RequestLineKeeps, HeaderLineKeeps, EndHeaderKeeps, TargetKeeps, BodyKeeps,
     ChunkSizeKeeps, ChunkDataKeeps, ChunkEndKeeps, TrailerLineKeeps, StutterKeeps DEF Next
<1> QED BY <1>1, <1>2, PTL DEF Spec

\* Type correctness: the cursor stays within the bytes given, whatever they
\* are and whatever lengths they state.
THEOREM TypeCorrect == Spec => []TypeOK
<1>1. IInv => TypeOK
  BY DEF IInv
<1> QED BY <1>1, IInvHolds, PTL

\* readHeader never reads further than the limit and one line (httprequest.go:
\* 264), for any caps and any input.
THEOREM HeaderReadAlwaysBounded == Spec => []HeaderReadIsBounded
<1>1. IInv => HeaderReadIsBounded
  BY DEF IInv
<1> QED BY <1>1, IInvHolds, PTL

\* When every length a client can state, added to the bytes in hand, fits the
\* machine's integers, readN does not panic: the panic TLC finds (NeverPanics)
\* needs a length within the input's own length of the largest int.
THEOREM NarrowNumbersNeverPanic ==
    ASSUME NEW longest \in Nat, longest <= MaxInt,
           \A m \in Requests : \A bytes \in Arrivals(Wire(m)) : Len(bytes) <= longest,
           \A n \in DOMAIN NumberOf : NumberOf[n] <= MaxInt - longest
    PROVE  Spec => []NeverPanics
<1> DEFINE Narrow == /\ Len(input) <= longest
                     /\ size <= MaxInt - longest
                     /\ NeverPanics
<1>1. Init => Narrow
  BY MaxIntAssumption DEF Init, NeverPanics
<1>2. ASSUME IInv, Narrow, [Next]_vars
      PROVE  Narrow'
  <2>1. \A n \in Nat : n <= MaxInt - longest => ~Overruns(input, pos, n)
    <3>1. ASSUME NEW n \in Nat, n <= MaxInt - longest
          PROVE  n + Len(input) <= MaxInt
      BY <1>2, <3>1, MaxIntAssumption DEF IInv, TypeOK
    <3> QED BY <1>2, <3>1, NarrowFits DEF IInv, TypeOK
  <2>2. input' = input
    BY <1>2 DEF Next, vars, ReadRequestLine, ReadHeaderLine, EndHeader, ParseTarget,
                ReadBody, ReadChunkSize, ReadChunkData, ReadChunkEnd, ReadTrailerLine
  <2>3. size' <= MaxInt - longest
    <3>1. CASE size' = size
      BY <1>2, <3>1
    <3>2. CASE ReadChunkSize
      <4> DEFINE text == Line(input, pos, MaxLineLength)
      <4>1. IsSizeLine(text) => NumberOf[text[1]] <= MaxInt - longest
        BY DEF IsSizeLine
      <4>2. size' = size \/ (IsSizeLine(text) /\ size' = NumberOf[text[1]])
        BY <3>2 DEF ReadChunkSize
      <4> HIDE DEF text
      <4> QED BY <1>2, <4>1, <4>2
    <3> QED BY <1>2, <3>1, <3>2
         DEF Next, vars, ReadRequestLine, ReadHeaderLine, EndHeader, ParseTarget,
             ReadBody, ReadChunkData, ReadChunkEnd, ReadTrailerLine
  <2>4. NeverPanics'
    <3>1. CASE ReadChunkData
      <4>1. ~Overruns(input, pos, size)
        BY <1>2, <2>1 DEF IInv, TypeOK
      <4> QED BY <1>2, <3>1, <4>1
           DEF ReadChunkData, Refuse, Return, Continue, Goto, NeverPanics
    <3>2. CASE ReadBody
      <4> DEFINE length == Joined(header, ContentLength)
      <4>1. length # <<>> => ~Overruns(input, pos, Atoi(length))
        <5>1. ASSUME length # <<>>
              PROVE  Atoi(length) \in Nat /\ Atoi(length) <= MaxInt - longest
          <6>1. PICK n \in DOMAIN NumberOf : length = <<n>>
            BY <1>2, <5>1, JoinedLength
          <6>2. NumberOf[n] \in Nat /\ NumberOf[n] <= MaxInt - longest
            BY SymbolsAssumption
          <6> HIDE DEF length
          <6> QED BY <6>1, <6>2, MaxIntAssumption DEF Atoi
        <5> HIDE DEF length
        <5> QED BY <2>1, <5>1
      <4> HIDE DEF length
      <4>2. length # <<>> /\ ReadFixed(Atoi(length)) => verdict' # "panic"
        BY <4>1 DEF ReadFixed, Accept, Refuse, Return
      <4>3. verdict' # "panic"
        BY <1>2, <3>2, <4>2
           DEF length, ReadBody, Accept, Refuse, Return, Continue, Goto, NeverPanics
      <4> QED BY <4>3 DEF NeverPanics
    <3>3. CASE UNCHANGED vars \/ ~(ReadChunkData \/ ReadBody)
      BY <1>2, <3>3
         DEF Next, vars, ReadRequestLine, ReadHeaderLine, EndHeader, ParseTarget,
             ReadChunkSize, ReadChunkEnd, ReadTrailerLine, Accept, Refuse, Return,
             Continue, Goto, NeverPanics
    <3> QED BY <3>1, <3>2, <3>3
  <2> QED BY <1>2, <2>2, <2>3, <2>4
<1>3. Narrow => NeverPanics
  OBVIOUS
<1> HIDE DEF Narrow
<1> QED BY <1>1, <1>2, <1>3, IInvHolds, PTL DEF Spec

\* What the reads have shown of the request holds throughout.
THEOREM PInvHolds == Spec => []PInv
<1>1. Init => PInv
  BY PInvStarts
<1>2. IInv /\ PInv /\ [Next]_vars => PInv'
  BY RequestLineReads, HeaderLineReads, EndHeaderReads, TargetReads, BodyReads,
     ChunkSizeReads, ChunkDataReads, ChunkEndReads, TrailerReads, StutterReads DEF Next
<1> QED BY <1>1, <1>2, IInvHolds, PTL DEF Spec

\* ParseRequest accepts a request that has arrived whole if nothing is wrong
\* with it, and refuses it for one of its faults otherwise (httprequest.go:
\* 63-347), whatever bytes follow it.
THEOREM VerdictAlwaysDeserved == Spec => []VerdictIsDeserved
<1>1. PInv => VerdictIsDeserved
  BY DEF PInv
<1> QED BY <1>1, PInvHolds, PTL

\* A body that is handed over is the body meant, and no request that was cut
\* short before its trailer is handed over (httprequest.go:293-347).
THEOREM AcceptedAlwaysWhole == Spec => []AcceptedIsWhole
<1>1. PInv => AcceptedIsWhole
  BY DEF PInv
<1> QED BY <1>1, PInvHolds, PTL

\* A connection is kept only with the cursor at the end of the request
\* (httprequest.go:293-347, 395-407), except for trailers that are cut short or cut up.
THEOREM KeptAliveAlwaysDrained == Spec => []KeptAliveIsDrained
<1>1. PInv => KeptAliveIsDrained
  BY DEF PInv
<1> QED BY <1>1, PInvHolds, PTL

\* The values of every field of an accepted request are those sent
\* (header.go:82-204), however its lines were folded or cut.
THEOREM FieldsAlwaysArrive == Spec => []FieldsArrive
<1>1. PInv => FieldsArrive
  <2>1. SUFFICES ASSUME PInv, verdict = "accepted", HasHead(sent), NEW name \in FieldNames
                 PROVE  LET got == Values(header, name)
                        IN  /\ [i \in DOMAIN got |-> Ink(got[i])] = Sent(sent, name)
                            /\ \A i \in DOMAIN got : got[i] # <<>> => SP \notin {got[i][1], Last(got[i])}
                            /\ Contains(header.order, name) <=> got # <<>>
    BY DEF FieldsArrive
  <2> DEFINE h == ParseHeader(Block(sent.fields))
             got == h.values[name]
  <2>2. header = h /\ ~BadHead(sent)
    BY <2>1 DEF PInv, HeadTaken
  <2>3. sent.fields \in Seq(Field1) /\ DOMAIN sent.fields = 1..Len(sent.fields)
    BY <2>1, Standing, GrammarFacts
  <2>4. NoneBad(sent.fields)
    BY <2>1, <2>2, <2>3 DEF NoneBad, BadHead
  <2>5. h.ok
    BY <2>3, <2>4, BlockParses
  <2>6. /\ got \in Seq(Seq(STRING))
        /\ \A i \in 1..Len(got) : got[i] # <<>> => SP \notin {got[i][1], Last(got[i])}
        /\ Inks(got) = SentIn(sent.fields, name)
        /\ Contains(h.order, name) <=> got # <<>>
    BY <2>3, <2>5, BlockParses
  <2>7. Values(header, name) = got /\ header.order = h.order
    BY <2>2 DEF Values
  <2> HIDE DEF got, h
  <2>8. DOMAIN got = 1..Len(got)
    BY <2>6
  <2> QED BY <2>6, <2>7, <2>8 DEF Inks, Sent
<1> QED BY <1>1, PInvHolds, PTL
=============================================================================
