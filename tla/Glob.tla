-------------------------------- MODULE Glob --------------------------------
(***************************************************************************)
(* Name patterns (fnmatchCasefold and globMatch of filehandler.go): "?"    *)
(* stands for one character, "*" for any run of them, and letters match in *)
(* either case.                                                            *)
(***************************************************************************)
EXTENDS Characters

\* Mutant of Resumed: the place the star was met at does not move.
Resumed_Behind(m) == [m EXCEPT !.pi = m.star + 1, !.si = m.match + 1]

\* The last star takes one character more.
Resumed(m) == [m EXCEPT !.pi = m.star + 1, !.si = m.match + 1, !.match = m.match + 1]

\* One round of globMatch's loop: a cursor on the pattern, one on the name, and
\* the last star (-1 before the first) with the name's place it was met at.
\* Places count from 0 as in the code.
Round(pattern, s, m) ==
    LET fits == m.pi < Len(pattern) /\ pattern[m.pi + 1] \in {Question, s[m.si + 1]}
        atStar == m.pi < Len(pattern) /\ pattern[m.pi + 1] = Star
    IN CASE fits -> [m EXCEPT !.pi = @ + 1, !.si = @ + 1]
         [] ~fits /\ atStar -> [m EXCEPT !.star = m.pi, !.match = m.si, !.pi = @ + 1]
         [] ~fits /\ ~atStar /\ m.star # -1 -> Resumed(m)
         [] OTHER -> [m EXCEPT !.failed = TRUE]

\* A place is resumed from at most once per place of the name, and each time the
\* cursors pass at most what is left of both texts.
Rounds(pattern, s) == (Len(s) + 1) * (Len(s) + Len(pattern) + 1)

\* globMatch: it never goes back to an earlier star.
GlobMatch(pattern, s) ==
    LET at[n \in 0..Rounds(pattern, s)] ==
            IF n = 0 THEN [pi |-> 0, si |-> 0, star |-> -1, match |-> 0, failed |-> FALSE]
            ELSE LET m == at[n - 1]
                 IN IF m.failed \/ m.si = Len(s) THEN m ELSE Round(pattern, s, m)
        end == at[Rounds(pattern, s)]
    IN /\ ~end.failed /\ end.si = Len(s)
       /\ \A i \in (end.pi + 1)..Len(pattern) : pattern[i] = Star

\* fnmatchCasefold
FnmatchCasefold(pattern, name) == GlobMatch(Lower(pattern), Lower(name))
=============================================================================
