--------------------------- MODULE NormalizePath ----------------------------
(***************************************************************************)
(* NormalizePath of httputils.go, a text rewritten until nothing matches:  *)
(* runs of slashes, then the first "/." over and over, then the first      *)
(* "/name/..", and at the end a look for a parent reference left over.     *)
(***************************************************************************)
EXTENDS PathMeaning

CONSTANT RawPaths   \* the argument

ASSUME RawPathsAssumption == RawPaths \subseteq Seq(Nat)

VARIABLES
    path,    \* the argument
    ret,     \* the text being rewritten
    stage,   \* "called", "dots", "parents", "returned"
    ok
vars == <<path, ret, stage, ok>>

\* collapseSlashes
CollapseSlashes(s) ==
    FlattenSeq([i \in DOMAIN s |->
                   IF i > 1 /\ s[i] = Slash /\ s[i - 1] = Slash THEN <<>> ELSE <<s[i]>>])

EndsAt(s, i) == i > Len(s) \/ s[i] = Slash

\* dotSegment: the places where "/." is a segment.
DotSegments(s) ==
    {i \in 1..(Len(s) - 1) : s[i] = Slash /\ s[i + 1] = Dot /\ EndsAt(s, i + 2)}

\* Mutant of ParentAt: what comes after the dots does not matter.
ParentAt_Prefix(s, i) ==
    i + 2 <= Len(s) /\ SubSeq(s, i, i + 2) = <<Slash, Dot, Dot>>

ParentAt(s, i) ==
    i + 2 <= Len(s) /\ SubSeq(s, i, i + 2) = <<Slash, Dot, Dot>> /\ EndsAt(s, i + 3)

\* Mutant of NameAt: ".." is a name too.
NameAt_AnySegment(s, i) == s[i] = Slash /\ Next(s, i + 1, {Slash}) > i + 1

\* "/name", a name that is not "..".
NameAt(s, i) ==
    LET end == Next(s, i + 1, {Slash})
    IN s[i] = Slash /\ end > i + 1 /\ SubSeq(s, i + 1, end - 1) # <<Dot, Dot>>

\* dotDotSegment: the places where a name is followed by a parent reference.
DotDotSegments(s) ==
    {i \in DOMAIN s : NameAt(s, i) /\ ParentAt(s, Next(s, i + 1, {Slash}))}

HasParentRef(s) == \E i \in DOMAIN s : ParentAt(s, i)

\* subOnce: from i on, up to and with the slash after the dots, becomes "/".
Replaced(s, i, end) == Append(Before(s, i), Slash) \o From(s, end + 1)

Init ==
    /\ path \in RawPaths /\ ret = path
    /\ stage = "called" /\ ok = FALSE

Refuse ==
    /\ stage = "called" /\ ~Absolute(path)
    /\ stage' = "returned" /\ ret' = <<>>
    /\ UNCHANGED <<path, ok>>

Collapse ==
    /\ stage = "called" /\ Absolute(path)
    /\ ret' = CollapseSlashes(ret)
    /\ stage' = "dots" /\ UNCHANGED <<path, ok>>

\* Mutant of DropDot: the match is the slash alone.
DropDot_Stuck ==
    /\ stage = "dots" /\ DotSegments(ret) # {}
    /\ LET i == Min(DotSegments(ret)) IN ret' = Replaced(ret, i, i)
    /\ UNCHANGED <<path, stage, ok>>

DropDot ==
    /\ stage = "dots" /\ DotSegments(ret) # {}
    /\ LET i == Min(DotSegments(ret)) IN ret' = Replaced(ret, i, i + 2)
    /\ UNCHANGED <<path, stage, ok>>

DotsGone ==
    /\ stage = "dots" /\ DotSegments(ret) = {}
    /\ stage' = "parents" /\ UNCHANGED <<path, ret, ok>>

DropParent ==
    /\ stage = "parents" /\ DotDotSegments(ret) # {}
    /\ LET i == Min(DotDotSegments(ret))
       IN ret' = Replaced(ret, i, Next(ret, i + 1, {Slash}) + 3)
    /\ UNCHANGED <<path, stage, ok>>

Return ==
    /\ stage = "parents" /\ DotDotSegments(ret) = {}
    /\ stage' = "returned" /\ ok' = ~HasParentRef(ret)
    /\ ret' = IF HasParentRef(ret) THEN <<>> ELSE ret
    /\ UNCHANGED path

NNext == Refuse \/ Collapse \/ DropDot \/ DotsGone \/ DropParent \/ Return

\* A call runs to its end.
Spec == Init /\ [][NNext]_vars /\ WF_vars(NNext)

-----------------------------------------------------------------------------
Asked == INSTANCE Normalisation
            WITH raw <- path, result <- IF stage = "returned" THEN <<ret>> ELSE <<>>

(***************************************************************************)
(* The patterns are tried one after the other and each only ever at its    *)
(* first match; still no substitution changes the place that the text      *)
(* names, nor whether it is below the root.                                *)
(***************************************************************************)
RewritingKeepsMeaning ==
    stage # "returned" => Meaning(ret) = Meaning(path)

\* The inductive invariant the proofs use: it adds what each loop leaves behind,
\* no slash after a slash, then no dot segment either; and that what is returned
\* is what the argument means, with ok unless that is nothing.
SingleSlashes(s) == \A i \in 1..(Len(s) - 1) : s[i] = Slash => s[i + 1] # Slash

Normalising ==
    /\ stage \in {"called", "dots", "parents", "returned"}
    /\ path \in Seq(Nat) /\ ret \in Seq(Nat)
    /\ stage = "called" => ret = path
    /\ stage = "returned" => ret = Meaning(path)
    /\ ok <=> stage = "returned" /\ ret # Abnormal
    /\ stage \in {"dots", "parents"} => Absolute(ret) /\ SingleSlashes(ret)
    /\ stage = "parents" => DotSegments(ret) = {}
NInv == Normalising /\ RewritingKeepsMeaning

(***************************************************************************)
(* The rewriting is one walk with a stack.                                 *)
(***************************************************************************)
ImplementsMeaning == Asked!ASpec

(***************************************************************************)
(* Rewriting until nothing matches comes to an end.                        *)
(***************************************************************************)
Returns == <>(stage = "returned")
=============================================================================
