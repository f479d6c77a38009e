---------------------------- MODULE HTTPVersion -----------------------------
(***************************************************************************)
(* WEBrick::HTTPVersion (httpversion.go): a (major, minor) pair, and the   *)
(* comparison the request parser and the response downgrade rest on.       *)
(***************************************************************************)
EXTENDS Integers

Version(major, minor) == [major |-> major, minor |-> minor]
Versions == [major : Nat, minor : Nat]

\* Compare: major first, then minor.
Compare(v, w) ==
    LET sign(a, b) == IF a < b THEN -1 ELSE IF a > b THEN 1 ELSE 0
    IN  IF v.major # w.major THEN sign(v.major, w.major)
                             ELSE sign(v.minor, w.minor)

Less(v, w) == Compare(v, w) < 0
=============================================================================
