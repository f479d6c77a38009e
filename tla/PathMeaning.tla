---------------------------- MODULE PathMeaning -----------------------------
(***************************************************************************)
(* What NormalizePath of httputils.go computes, said without rewriting: a  *)
(* path names a place below the root, found by walking its segments with a *)
(* stack, and a walk above the root is abnormal.  NormalizePath, which     *)
(* rewrites the text until no pattern matches, is shown to implement this. *)
(***************************************************************************)
EXTENDS Characters

Here == <<Dot>>
Up == <<Dot, Dot>>

Abnormal == <<>>    \* ok = FALSE; a normalised path is not empty

Segments(path) == Tail(Pieces(path, {Slash}))

Absolute(path) == path # <<>> /\ path[1] = Slash

\* Where a walk is: the names from the root to the place, and whether it has
\* stayed below the root.
AtRoot == [names |-> <<>>, below |-> TRUE]

Stepped(at, segment) ==
    CASE segment \in {<<>>, Here} -> at
      [] segment = Up /\ at.names = <<>> -> [at EXCEPT !.below = FALSE]
      [] segment = Up /\ at.names # <<>> -> [at EXCEPT !.names = Front(@)]
      [] OTHER -> [at EXCEPT !.names = Append(@, segment)]

Along(segments) ==
    LET at[n \in 0..Len(segments)] ==
            IF n = 0 THEN AtRoot ELSE Stepped(at[n - 1], segments[n])
    IN at[Len(segments)]

Walk(path) == Along(Segments(path))

\* The path of that place; a last segment without a name leaves a slash.
Meaning(path) ==
    IF ~(Absolute(path) /\ Walk(path).below) THEN Abnormal
    ELSE LET names == Walk(path).names
             slash == IF Last(Segments(path)) \in {<<>>, Here, Up} /\ names # <<>>
                      THEN <<Slash>> ELSE <<>>
         IN <<Slash>> \o Joined(names, <<Slash>>) \o slash
=============================================================================
