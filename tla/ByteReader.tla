----------------------------- MODULE ByteReader -----------------------------
(***************************************************************************)
(* reqParser (httprequest.go): a forward cursor over the bytes the host    *)
(* has read.  The bytes are symbols of the alphabet the modules above      *)
(* share; the cursor counts the symbols consumed.  Integers have the width *)
(* of the machine.                                                         *)
(***************************************************************************)
EXTENDS Integers, Sequences, FiniteSetsExt

CONSTANT MaxInt    \* the largest int
ASSUME MaxIntAssumption == MaxInt \in Nat

LF == "LF"
CR == "CR"
EndOfLine == <<CR, LF>>

\* Two's complement: what an addition gives on the machine.
Wrapped(n) == ((n + MaxInt + 1) % (2 * (MaxInt + 1))) - MaxInt - 1

EndsLine(text) ==
    Len(text) >= 2 /\ SubSeq(text, Len(text) - 1, Len(text)) = EndOfLine
WithoutEnd(line) == SubSeq(line, 1, Len(line) - 2)

\* Where readLine leaves the cursor: after the next LF, at the end of the
\* data, or after cap symbols, whichever comes first.
LineEnd(data, pos, cap) ==
    Min({i \in pos + 1 .. Len(data) : data[i] = LF} \cup {Len(data), pos + cap})
Line(data, pos, cap) == SubSeq(data, pos + 1, LineEnd(data, pos, cap))

\* readN: its test for enough data, and whether what follows it panics
\* (make or the slice, beyond what there is).
Enough(data, pos, n) == Wrapped(pos + n) <= Len(data)
Overruns(data, pos, n) == Enough(data, pos, n) /\ pos + n > Len(data)
Taken(data, pos, n) == SubSeq(data, pos + 1, pos + n)
=============================================================================
