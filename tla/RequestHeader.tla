--------------------------- MODULE RequestHeader ----------------------------
(***************************************************************************)
(* The request side of header.go: ParseHeader over the raw header block    *)
(* and the accessors of the multi-value store (the store itself is         *)
(* go-ruby-net-http's).  A field name with its colon is one symbol, in     *)
(* lower case; SP stands for a space or a tab.                             *)
(***************************************************************************)
EXTENDS ByteReader, SequencesExt

SP == "SP"
NUL == "NUL"
Comma == ","
ASSUME MarksAssumption == {CR, LF, SP, NUL, Comma} \subseteq STRING

CONSTANT FieldNames     \* the field names
ASSUME FieldNamesAssumption ==
    FieldNames \subseteq STRING /\ {CR, LF, SP, NUL} \cap FieldNames = {}

\* Cuts off spaces on the left; on both sides.
InkOf(text) == {i \in DOMAIN text : text[i] # SP}
TrimLeft(text) ==
    IF InkOf(text) = {} THEN <<>> ELSE SubSeq(text, Min(InkOf(text)), Len(text))
Trim(text) ==
    IF InkOf(text) = {} THEN <<>>
    ELSE SubSeq(text, Min(InkOf(text)), Max(InkOf(text)))

\* eachLine: the lines with their LF, then what follows the last one.
LineStart(text, i) == Max({0} \cup {j \in 1..(i - 1) : text[j] = LF}) + 1
EachLine(text) ==
    FlattenSeq([i \in DOMAIN text |->
        IF text[i] = LF \/ i = Len(text)
        THEN <<SubSeq(text, LineStart(text, i), i)>> ELSE <<>>])

\* classifyHeaderLine.
Sound(line) ==
    /\ EndsLine(line) /\ Len(line) > 2
    /\ \A i \in DOMAIN WithoutEnd(line) : line[i] \notin {CR, LF, NUL}
IsField(line) == Sound(line) /\ line[1] \in FieldNames
IsFold(line) == Sound(line) /\ line[1] = SP
Rest(line) == Tail(WithoutEnd(line))

\* ParseHeader's loop: ok is FALSE once a bad line was met; order has the
\* fields as they first came, values each field's values as they came.
NoHeader == [ok |-> TRUE, order |-> <<>>, values |-> [n \in FieldNames |-> <<>>]]

WithField(h, name, v) ==
    [h EXCEPT !.order = IF h.values[name] = <<>> THEN Append(@, name) ELSE @,
              !.values[name] = Append(@, v)]

\* Mutant of WithFold: the continuation goes to the field's first value.
WithFold_First(h, last, v) ==
    [h EXCEPT !.values[last][1] = @ \o <<SP>> \o TrimLeft(v)]

\* A continuation belongs to the last value of the field of the line above;
\* last is that field, or SP while there is none.
WithFold(h, last, v) ==
    [h EXCEPT !.values[last][Len(h.values[last])] = @ \o <<SP>> \o TrimLeft(v)]

Begun == [h |-> NoHeader, last |-> SP]
WithLine(acc, line) ==
    IF IsField(line)
    THEN [h |-> WithField(acc.h, line[1], Rest(line)), last |-> line[1]]
    ELSE IF IsFold(line) /\ acc.last # SP
    THEN [acc EXCEPT !.h = WithFold(@, acc.last, Rest(line))]
    ELSE [acc EXCEPT !.h.ok = FALSE]
Gathered(lines) ==
    LET after[k \in 0..Len(lines)] ==
            IF k = 0 THEN Begun ELSE WithLine(after[k - 1], lines[k])
    IN  after[Len(lines)]

ParseHeader(text) ==
    LET end == Gathered(EachLine(text)).h
    IN  [end EXCEPT !.values =
            [n \in FieldNames |-> [i \in DOMAIN @[n] |-> Trim(@[n][i])]]]

\* Values and Get: the values of a field, and all of them as one text, which
\* is empty both for an absent field and for an empty value.
Values(h, name) == h.values[name]
Joined(h, name) ==
    LET vs == Values(h, name)
    IN  IF vs = <<>> THEN <<>>
        ELSE vs[1] \o FlattenSeq([i \in 1..(Len(vs) - 1) |-> <<Comma>> \o vs[i + 1]])
=============================================================================
