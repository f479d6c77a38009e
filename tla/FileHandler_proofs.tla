------------------------- MODULE FileHandler_proofs -------------------------
(***************************************************************************)
(* Proofs about FileHandler: whatever other programs do to the file system *)
(* meanwhile, a resolution keeps what its module promises; and, at the     *)
(* end, about StaticSite, where the request gets there from its target.    *)
(***************************************************************************)
EXTENDS StaticSite, RequestURI_proofs

(* Paths that are cleaned and put together.                                *)

\* The segments that path.Clean takes out.
Dropped == {<<Slash>>, <<Slash, Dot>>}
Kept(seg) == IF seg \in Dropped THEN <<>> ELSE seg

LEMMA KeptIs == \A x \in Segs : Kept(x) \in Paths /\ (x \notin Dropped => Kept(x) = x)
  BY PathsConcat DEF Kept

\* Cleaning, one segment more.
LEMMA CleanedAppend ==
    ASSUME NEW p \in Paths, NEW x \in Segs
    PROVE  Cleaned(p \o x) = Cleaned(p) \o Kept(x)
<1> DEFINE s == ScanSegments(p)
           n == Len(s)
           t == Append(s, x)
           f == [k \in DOMAIN s |-> Kept(s[k])]
           g == [k \in DOMAIN t |-> Kept(t[k])]
<1>1. /\ p \in Seq(Nat) /\ s \in Seq(Segs)
      /\ ScanSegments(p \o x) = t
  BY FlattenScan, ScanAppend DEF Paths
<1>2. Cleaned(p) = FlattenSeq(f) /\ Cleaned(p \o x) = FlattenSeq(g)
  BY <1>1 DEF Cleaned, Kept, Dropped
<1> HIDE DEF s
<1>3. /\ n \in Nat /\ DOMAIN s = 1..n /\ \A k \in 1..n : s[k] \in Segs
      /\ DOMAIN t = 1..(n + 1) /\ t[n + 1] = x /\ \A k \in 1..n : t[k] = s[k]
  <2>1. n \in Nat /\ DOMAIN s = 1..n /\ \A k \in 1..n : s[k] \in Segs
    BY <1>1, SeqFacts
  <2>2. DOMAIN t = 1..(n + 1) /\ t[n + 1] = x /\ \A k \in 1..n : t[k] = s[k]
    BY <1>1
  <2> QED
    BY <2>1, <2>2
<1> HIDE DEF n, t
<1>4. Kept(x) \in Seq(Nat) /\ \A k \in 1..n : Kept(s[k]) \in Seq(Nat)
  BY <1>3, KeptIs DEF Paths
<1>5. f \in Seq(Seq(Nat)) /\ Len(f) = n /\ \A k \in 1..n : f[k] = Kept(s[k])
  BY <1>3, <1>4
<1>6. g = [k \in 1..(n + 1) |-> IF k = n + 1 THEN Kept(x) ELSE f[k]]
  <2>1. \A k \in 1..(n + 1) : k # n + 1 => k \in 1..n
    BY <1>3
  <2> QED
    BY <1>3, <1>5, <2>1
<1> HIDE DEF f, g
<1>7. Append(f, Kept(x)) = [k \in 1..(n + 1) |-> IF k = n + 1 THEN Kept(x) ELSE f[k]]
  <2> DEFINE a == Append(f, Kept(x))
  <2>1. /\ a \in Seq(Seq(Nat)) /\ Len(a) = n + 1
        /\ a[n + 1] = Kept(x) /\ \A k \in 1..n : a[k] = f[k]
    BY <1>3, <1>4, <1>5
  <2> HIDE DEF a
  <2>2. a = [k \in 1..(n + 1) |-> a[k]]
    BY <2>1
  <2>3. \A k \in 1..(n + 1) : a[k] = IF k = n + 1 THEN Kept(x) ELSE f[k]
    <3>1. \A k \in 1..(n + 1) : k # n + 1 => k \in 1..n
      BY <1>3
    <3> QED
      BY <2>1, <3>1
  <2> QED
    BY <2>2, <2>3 DEF a
<1>8. FlattenSeq(Append(f, Kept(x))) = FlattenSeq(f) \o Kept(x)
  BY <1>4, <1>5, FlattenAppend
<1> QED
  BY <1>2, <1>6, <1>7, <1>8

LEMMA CleanedEmpty == Cleaned(<<>>) = <<>>
<1> DEFINE s == ScanSegments(<<>>)
           f == [k \in DOMAIN s |-> Kept(s[k])]
<1>1. Cleaned(<<>>) = FlattenSeq(f)
  BY DEF Cleaned, Kept, Dropped
<1>2. s = <<>>
  BY ScanEmpty
<1> HIDE DEF s
<1>3. f = <<>>
  BY <1>2
<1> QED
  BY <1>1, <1>3, FlattenFew

\* A segment by itself.
LEMMA CleanedSegment == \A x \in Segs : Cleaned(x) = Kept(x)
<1> SUFFICES ASSUME NEW x \in Segs PROVE Cleaned(x) = Kept(x)
  OBVIOUS
<1>1. <<>> \in Paths /\ x \in Paths /\ Kept(x) \in Paths
  BY PathsConcat, KeptIs
<1>2. <<>> \o x = x /\ <<>> \o Kept(x) = Kept(x)
  BY <1>1, PathsAlgebra
<1>3. Cleaned(<<>> \o x) = Cleaned(<<>>) \o Kept(x)
  BY <1>1, CleanedAppend
<1> QED
  BY <1>2, <1>3, CleanedEmpty

\* A cleaned path is a path, and cleaning it again changes nothing.
LEMMA CleanedTwice ==
    \A p \in Paths : Cleaned(p) \in Paths /\ Cleaned(Cleaned(p)) = Cleaned(p)
<1> DEFINE P == {p \in Paths : Cleaned(p) \in Paths /\ Cleaned(Cleaned(p)) = Cleaned(p)}
<1>1. <<>> \in P
  BY CleanedEmpty, PathsConcat
<1>2. ASSUME NEW p \in Paths, NEW x \in Segs, p \in P PROVE p \o x \in P
  <2>1. /\ p \o x \in Paths /\ Cleaned(p \o x) = Cleaned(p) \o Kept(x)
        /\ Cleaned(p) \in Paths /\ Cleaned(Cleaned(p)) = Cleaned(p)
    BY <1>2, PathsConcat, CleanedAppend
  <2>2. CASE x \in Dropped
    <3>1. Cleaned(p) \o <<>> = Cleaned(p)
      BY <2>1, PathsAlgebra
    <3>2. Cleaned(p \o x) = Cleaned(p)
      BY <2>1, <2>2, <3>1 DEF Kept
    <3> QED
      BY <2>1, <3>2
  <2>3. CASE x \notin Dropped
    <3>1. Kept(x) = x
      BY <2>3, KeptIs
    <3>2. Cleaned(p) \o x \in Paths
      BY <2>1, PathsConcat
    <3>3. Cleaned(Cleaned(p) \o x) = Cleaned(Cleaned(p)) \o Kept(x)
      BY <2>1, CleanedAppend
    <3> QED
      BY <2>1, <3>1, <3>2, <3>3
  <2> QED
    BY <2>2, <2>3
<1> HIDE DEF P
<1>3. Paths \subseteq P
  BY <1>1, <1>2, PathInduction
<1> QED
  BY <1>3 DEF P

\* A path in two parts is cleaned part by part.
LEMMA CleanedConcat ==
    ASSUME NEW p \in Paths, NEW q \in Paths
    PROVE  Cleaned(p \o q) = Cleaned(p) \o Cleaned(q)
<1> DEFINE P == {r \in Paths : Cleaned(p \o r) = Cleaned(p) \o Cleaned(r)}
<1>1. <<>> \in P
  <2>1. p \o <<>> = p /\ Cleaned(p) \o <<>> = Cleaned(p)
    BY CleanedTwice, PathsAlgebra
  <2> QED
    BY <2>1, CleanedEmpty, PathsConcat
<1>2. ASSUME NEW r \in Paths, NEW x \in Segs, r \in P PROVE r \o x \in P
  <2>0. x \in Paths
    BY PathsConcat
  <2>1. r \o x \in Paths /\ p \o r \in Paths
    BY <2>0, PathsConcat
  <2>2. p \o (r \o x) = (p \o r) \o x
    BY <2>0, PathsAlgebra
  <2>3. /\ Cleaned((p \o r) \o x) = Cleaned(p \o r) \o Kept(x)
        /\ Cleaned(r \o x) = Cleaned(r) \o Kept(x)
    BY <2>1, CleanedAppend
  <2>4. Cleaned(p \o r) = Cleaned(p) \o Cleaned(r)
    BY <1>2
  <2>5. (Cleaned(p) \o Cleaned(r)) \o Kept(x) = Cleaned(p) \o (Cleaned(r) \o Kept(x))
    <3>1. Cleaned(p) \in Paths /\ Cleaned(r) \in Paths /\ Kept(x) \in Paths
      BY CleanedTwice, KeptIs
    <3> QED
      BY <3>1, PathsAlgebra
  <2> QED
    BY <2>1, <2>2, <2>3, <2>4, <2>5
<1> HIDE DEF P
<1>3. Paths \subseteq P
  BY <1>1, <1>2, PathInduction
<1> QED
  BY <1>3 DEF P

\* The slash that stands for the root of everything is a segment, and dropped.
LEMMA RootSlash == /\ <<Slash>> \in Segs \cap Dropped /\ <<Slash>> \in Paths
                   /\ Cleaned(<<Slash>>) = <<>>
<1>1. <<Slash>> \in Segs /\ <<Slash>> \in Dropped
  BY DEF Segs, Dropped, Slash
<1> QED
  BY <1>1, PathsConcat, CleanedSegment DEF Kept

\* An expanded path, and the same place cleaned.
LEMMA ExpandFacts ==
    ASSUME NEW p \in Paths
    PROVE  /\ ExpandPath(p) \in Paths /\ ExpandPath(p) # <<>>
           /\ Cleaned(ExpandPath(p)) = Cleaned(p)
           /\ ExpandPath(Cleaned(p)) = ExpandPath(p)
           /\ ExpandPath(p) = IF Cleaned(p) = <<>> THEN <<Slash>> ELSE Cleaned(p)
<1>1. Cleaned(p) \in Paths /\ Cleaned(Cleaned(p)) = Cleaned(p)
  BY CleanedTwice
<1>2. <<Slash>> # <<>>
  OBVIOUS
<1> QED
  BY <1>1, <1>2, RootSlash, CleanedEmpty DEF ExpandPath

\* Expanding first the one part and then the whole is expanding the whole.
LEMMA ExpandStep ==
    ASSUME NEW p \in Paths, NEW q \in Paths
    PROVE  ExpandPath(ExpandPath(p) \o q) = ExpandPath(p \o q)
<1>1. ExpandPath(p) \in Paths /\ Cleaned(ExpandPath(p)) = Cleaned(p)
  BY ExpandFacts
<1>2. /\ Cleaned(ExpandPath(p) \o q) = Cleaned(p) \o Cleaned(q)
      /\ Cleaned(p \o q) = Cleaned(p) \o Cleaned(q)
  BY <1>1, CleanedConcat
<1> QED
  BY <1>2 DEF ExpandPath

-----------------------------------------------------------------------------
(* Names, and what is above and below them.                                *)

Proper == Segs \ Dropped

\* path is under the directory g, at any depth.
Above(g, path) == g = <<Slash>> \/ IsPrefix(Append(g, Slash), path)

LEMMA PrefixIs ==
    ASSUME NEW s \in Seq(Nat), NEW t \in Seq(Nat)
    PROVE  IsPrefix(s, t) <=> Len(s) <= Len(t) /\ \A i \in 1..Len(s) : s[i] = t[i]
<1> DEFINE n == Len(s)
<1>1. SubSeq(s, 1, n) = s /\ s = [i \in 1..n |-> s[i]] /\ n \in Nat /\ Len(t) \in Nat
  OBVIOUS
<1>2. n <= Len(t) => SubSeq(t, 1, n) = [i \in 1..n |-> t[i]]
  OBVIOUS
<1> HIDE DEF n
<1>3. n <= Len(t) => (SubSeq(s, 1, n) = SubSeq(t, 1, n) <=> \A i \in 1..n : s[i] = t[i])
  BY <1>1, <1>2
<1> QED
  BY <1>3 DEF IsPrefix, n

\* What is put after a text leaves it a prefix, and prefixes compose.
LEMMA PrefixFacts ==
    /\ \A s, t \in Seq(Nat) : IsPrefix(s, s \o t)
    /\ \A s, t, u \in Seq(Nat) : IsPrefix(s, t) /\ IsPrefix(t, u) => IsPrefix(s, u)
<1>1. ASSUME NEW s \in Seq(Nat), NEW t \in Seq(Nat) PROVE IsPrefix(s, s \o t)
  <2>1. s \o t \in Seq(Nat) /\ Len(s) <= Len(s \o t)
        /\ \A i \in 1..Len(s) : s[i] = (s \o t)[i]
    OBVIOUS
  <2> QED
    BY <2>1, PrefixIs
<1>2. ASSUME NEW s \in Seq(Nat), NEW t \in Seq(Nat), NEW u \in Seq(Nat),
             IsPrefix(s, t), IsPrefix(t, u)
      PROVE  IsPrefix(s, u)
  <2>1. /\ Len(s) <= Len(t) /\ \A i \in 1..Len(s) : s[i] = t[i]
        /\ Len(t) <= Len(u) /\ \A i \in 1..Len(t) : t[i] = u[i]
    BY <1>2, PrefixIs
  <2>2. /\ Len(s) \in Nat /\ Len(t) \in Nat /\ Len(u) \in Nat
    OBVIOUS
  <2>3. Len(s) <= Len(u) /\ \A i \in 1..Len(s) : s[i] = u[i]
    <3>1. Len(s) <= Len(u) /\ \A i \in 1..Len(s) : i \in 1..Len(t)
      BY <2>1, <2>2
    <3>2. ASSUME NEW i \in 1..Len(s) PROVE s[i] = u[i]
      <4>1. s[i] = t[i] /\ t[i] = u[i]
        BY <2>1, <3>1, Zenon
      <4> QED
        BY <4>1
    <3> QED
      BY <3>1, <3>2
  <2> QED
    BY <2>3, PrefixIs
<1> QED
  BY <1>1, <1>2

LEMMA ProperIs ==
    ASSUME NEW x \in Proper
    PROVE  /\ x \in Segs /\ x \in Paths /\ x \in Seq(Nat) /\ Kept(x) = x
           /\ Len(x) \in Nat /\ 2 <= Len(x) /\ x[1] = Slash
           /\ \A i \in 2..Len(x) : x[i] # Slash
<1>1. /\ x \in Segs /\ x \in Paths /\ x \in Seq(Nat) /\ Kept(x) = x
      /\ x # <<>> /\ x[1] = Slash /\ \A i \in 2..Len(x) : x[i] # Slash
      /\ x # <<Slash>>
  BY KeptIs, PathsConcat DEF Proper, Segs, Dropped
<1>2. Len(x) # 1
  <2>1. Len(x) = 1 => x = <<x[1]>>
    BY <1>1
  <2> QED
    BY <1>1, <2>1
<1>3. Len(x) \in Nat /\ Len(x) # 0
  BY <1>1
<1>4. 2 <= Len(x)
  <2>1. \A n \in Nat : n # 0 /\ n # 1 => 2 <= n
    OBVIOUS
  <2> QED
    BY <1>2, <1>3, <2>1
<1> QED
  BY <1>1, <1>3, <1>4

\* A name under an expanded path.
LEMMA Child ==
    ASSUME NEW p \in Paths, NEW x \in Proper
    PROVE  LET q == ExpandPath(p \o x)
           IN  /\ q \in Paths /\ q # <<>> /\ q = Cleaned(p) \o x
               /\ ScanSegments(q) = Append(ScanSegments(Cleaned(p)), x)
               /\ q # <<Slash>>
               /\ BaseName(q) = Tail(x)
               /\ Parent(q) = ExpandPath(p)
<1> DEFINE c == Cleaned(p)
           s == ScanSegments(c)
           q == c \o x
<1>1. /\ x \in Segs /\ Len(x) \in Nat /\ 2 <= Len(x) /\ x \in Seq(Nat) /\ x \in Paths
      /\ c \in Paths /\ c \in Seq(Nat)
  BY ProperIs, CleanedTwice DEF Paths
<1>2. Cleaned(p \o x) = q /\ p \o x \in Paths
  BY ProperIs, CleanedAppend, PathsConcat
<1>3. q \in Seq(Nat) /\ 2 <= Len(q)
  BY <1>1
<1>4. q # <<>> /\ q # <<Slash>>
  <2> HIDE DEF q
  <2>1. (q = <<>> => Len(q) = 0) /\ (q = <<Slash>> => Len(q) = 1)
    OBVIOUS
  <2>2. ~(2 <= 0) /\ ~(2 <= 1)
    OBVIOUS
  <2> QED
    BY <1>3, <2>1, <2>2
<1>5. ExpandPath(p \o x) = q
  BY <1>2, <1>4 DEF ExpandPath
<1>6. ScanSegments(q) = Append(s, x) /\ s \in Seq(Segs)
  BY <1>1, ScanAppend, FlattenScan
<1>7. q \in Paths
  BY <1>1, PathsConcat
<1> HIDE DEF q, s
<1>8. Last(Append(s, x)) = x /\ Front(Append(s, x)) = s
  <2> DEFINE a == Append(s, x)
  <2>1. a \in Seq(Segs) /\ Len(a) = Len(s) + 1 /\ a[Len(s) + 1] = x /\ Len(s) \in Nat
    BY <1>1, <1>6
  <2>2. SubSeq(a, 1, Len(s)) = s
    BY <1>1, <1>6
  <2>3. (Len(s) + 1) - 1 = Len(s)
    BY <2>1
  <2> HIDE DEF a
  <2>4. Last(a) = x /\ Front(a) = s
    BY <2>1, <2>2, <2>3 DEF Last, Front
  <2> QED
    BY <2>4 DEF a
<1>9. BaseName(q) = Tail(x)
  BY <1>4, <1>6, <1>8 DEF BaseName
<1>10. Parent(q) = ExpandPath(p)
  <2>1. FlattenSeq(s) = c
    BY <1>1, FlattenScan DEF s
  <2>2. ExpandPath(c) = ExpandPath(p)
    BY ExpandFacts
  <2> QED
    BY <1>6, <1>8, <2>1, <2>2 DEF Parent
<1> QED
  BY <1>4, <1>5, <1>6, <1>7, <1>9, <1>10 DEF q, s

\* It is longer than the directory it is in.
LEMMA ChildBelow ==
    ASSUME NEW p \in Paths, NEW x \in Proper
    PROVE  LET d == ExpandPath(p)
               q == ExpandPath(p \o x)
           IN  /\ q # d /\ Len(d) < Len(q) /\ Above(d, q)
               /\ \A g \in Paths : g # <<>> /\ Above(g, d) => Above(g, q)
               /\ \A g \in Paths : g # <<>> /\ Above(g, q) => g = d \/ Above(g, d)
<1> DEFINE c == Cleaned(p)
           d == ExpandPath(p)
           q == ExpandPath(p \o x)
           l == Len(c)
           m == Len(x)
<1>1. /\ x \in Seq(Nat) /\ m \in Nat /\ 2 <= m /\ x[1] = Slash
      /\ \A i \in 2..m : x[i] # Slash
  BY ProperIs
<1>2. c \in Seq(Nat) /\ l \in Nat /\ (c = <<>> <=> l = 0)
  BY CleanedTwice DEF Paths
<1>3. q = c \o x /\ q \in Seq(Nat) /\ q # <<>>
  BY Child DEF Paths
<1>4. /\ Len(q) = l + m
      /\ \A i \in 1..l : q[i] = c[i]
      /\ \A i \in (l + 1)..(l + m) : q[i] = x[i - l]
  <2> HIDE DEF q, c
  <2> QED
    BY <1>1, <1>2, <1>3
<1>5. d = (IF c = <<>> THEN <<Slash>> ELSE c) /\ d \in Seq(Nat) /\ d # <<>>
  BY ExpandFacts DEF Paths
<1>6. Len(<<Slash>>) = 1
  OBVIOUS
<1> HIDE DEF c, d, q
<1>7. Len(d) < Len(q)
  BY <1>1, <1>2, <1>4, <1>5, <1>6
<1>8. q[l + 1] = Slash /\ \A i \in (l + 2)..Len(q) : q[i] # Slash
  <2>1. l + 1 \in (l + 1)..(l + m) /\ (l + 1) - l = 1
    BY <1>1, <1>2
  <2>2. q[l + 1] = Slash
    BY <1>1, <1>4, <2>1
  <2>3. \A i \in (l + 2)..Len(q) : i \in (l + 1)..(l + m) /\ i - l \in 2..m
    BY <1>1, <1>2, <1>4
  <2> QED
    BY <1>1, <1>4, <2>2, <2>3
<1>9. ASSUME NEW g \in Paths, g # <<>>
      PROVE  LET h == Append(g, Slash)
             IN  /\ h \in Seq(Nat) /\ Len(h) = Len(g) + 1 /\ h[Len(g) + 1] = Slash
                 /\ \A i \in 1..Len(g) : h[i] = g[i]
                 /\ g \in Seq(Nat) /\ Len(g) \in Nat /\ Len(g) # 0
  <2>1. g \in Seq(Nat) /\ Slash \in Nat
    BY DEF Paths, Slash
  <2> QED
    BY <1>9, <2>1
<1>10. Above(d, q)
  <2>1. CASE c = <<>>
    BY <1>5, <2>1 DEF Above
  <2>2. CASE c # <<>>
    <3> DEFINE h == Append(c, Slash)
    <3>1. c \in Paths /\ c # <<>>
      BY <2>2, CleanedTwice DEF c
    <3>2. /\ h \in Seq(Nat) /\ Len(h) = l + 1 /\ h[l + 1] = Slash
          /\ \A i \in 1..l : h[i] = c[i]
      BY <1>9, <3>1
    <3> HIDE DEF h
    <3>3. Len(h) <= Len(q) /\ \A i \in 1..Len(h) : h[i] = q[i]
      <4>1. \A i \in 1..(l + 1) : i = l + 1 \/ i \in 1..l
        BY <1>2
      <4>2. l + 1 <= Len(q)
        BY <1>1, <1>2, <1>4
      <4>3. \A i \in 1..(l + 1) : h[i] = q[i]
        BY <1>4, <1>8, <3>2, <4>1
      <4> QED
        BY <3>2, <4>2, <4>3
    <3>4. IsPrefix(h, q)
      BY <1>3, <3>2, <3>3, PrefixIs
    <3> QED
      BY <1>5, <2>2, <3>4 DEF Above, h
  <2> QED
    BY <2>1, <2>2
<1>11. ASSUME NEW g \in Paths, g # <<>>, Above(g, d) PROVE Above(g, q)
  <2> SUFFICES ASSUME g # <<Slash>> PROVE IsPrefix(Append(g, Slash), q)
    BY DEF Above
  <2> DEFINE h == Append(g, Slash)
  <2>1. /\ h \in Seq(Nat) /\ Len(h) = Len(g) + 1 /\ Len(g) \in Nat /\ Len(g) # 0
    BY <1>9, <1>11
  <2>2. IsPrefix(h, d)
    BY <1>11 DEF Above
  <2> HIDE DEF h
  <2>3. Len(h) <= Len(d)
    BY <1>5, <2>1, <2>2, PrefixIs
  <2>4. c # <<>> /\ d = c
    BY <1>5, <1>6, <2>1, <2>3
  <2>5. IsPrefix(c, q)
    BY <1>1, <1>2, <1>3, PrefixFacts
  <2>6. IsPrefix(h, q)
    BY <1>2, <1>3, <2>1, <2>2, <2>4, <2>5, PrefixFacts
  <2> QED
    BY <2>6 DEF h
<1>12. ASSUME NEW g \in Paths, g # <<>>, Above(g, q) PROVE g = d \/ Above(g, d)
  <2> SUFFICES ASSUME g # <<Slash>> PROVE g = d \/ IsPrefix(Append(g, Slash), d)
    BY DEF Above
  <2> DEFINE h == Append(g, Slash)
             n == Len(g)
  <2>1. /\ h \in Seq(Nat) /\ Len(h) = n + 1 /\ h[n + 1] = Slash
        /\ \A i \in 1..n : h[i] = g[i]
        /\ g \in Seq(Nat) /\ n \in Nat /\ n # 0
    BY <1>9, <1>12
  <2>2. IsPrefix(h, q)
    BY <1>12 DEF Above
  <2>3. n + 1 <= Len(q) /\ \A i \in 1..(n + 1) : h[i] = q[i]
    <3> HIDE DEF h, n
    <3> QED
      BY <1>3, <2>1, <2>2, PrefixIs
  <2> HIDE DEF h, n
  <2>4. q[n + 1] = Slash
    BY <2>1, <2>3
  <2>5. n <= l
    BY <1>2, <1>4, <1>8, <2>1, <2>3, <2>4
  <2>6. c # <<>> /\ d = c
    BY <1>2, <1>5, <2>1, <2>5
  <2>7. \A i \in 1..n : g[i] = c[i]
    <3>1. \A i \in 1..n : i \in 1..(n + 1) /\ i \in 1..l
      BY <1>2, <2>1, <2>5
    <3> QED
      BY <1>4, <2>1, <2>3, <3>1
  <2>8. CASE n = l
    <3>1. g = [i \in 1..n |-> g[i]] /\ c = [i \in 1..n |-> c[i]]
      BY <1>2, <2>1, <2>8 DEF n, l
    <3>2. g = c
      BY <2>7, <3>1
    <3> QED
      BY <2>6, <3>2
  <2>9. CASE n # l
    <3>1. Len(h) <= Len(c) /\ \A i \in 1..Len(h) : h[i] = c[i]
      <4>1. Len(c) = l
        BY DEF l
      <4>2. n + 1 <= l /\ \A i \in 1..(n + 1) : i \in 1..l
        BY <1>2, <2>1, <2>5, <2>9
      <4>3. \A i \in 1..(n + 1) : h[i] = c[i]
        BY <1>4, <2>3, <4>2
      <4> QED
        BY <2>1, <4>1, <4>2, <4>3
    <3>2. IsPrefix(h, c)
      BY <1>2, <2>1, <3>1, PrefixIs
    <3> QED
      BY <2>6, <3>2 DEF h
  <2> QED
    BY <2>8, <2>9
<1>13. q # d
  <2>1. Len(q) \in Nat
    BY <1>3
  <2> QED
    BY <1>7, <2>1
<1> QED
  BY <1>7, <1>10, <1>11, <1>12, <1>13 DEF d, q

\* A cleaned path is a name under another one, or nothing is left of it.
LEMMA CleanedSplit ==
    \A p \in Paths : Cleaned(p) = <<>> \/ \E q \in Paths, x \in Proper :
                                             Cleaned(p) = Cleaned(q) \o x
<1> DEFINE Splits(p) == \E q \in Paths, x \in Proper : Cleaned(p) = Cleaned(q) \o x
           P == {p \in Paths : Cleaned(p) = <<>> \/ Splits(p)}
<1>1. <<>> \in P
  BY CleanedEmpty, PathsConcat
<1>2. ASSUME NEW p \in Paths, NEW x \in Segs, p \in P PROVE p \o x \in P
  <2>1. p \o x \in Paths /\ Cleaned(p \o x) = Cleaned(p) \o Kept(x)
    BY PathsConcat, CleanedAppend
  <2>2. CASE x \in Dropped
    <3>1. Cleaned(p) \o <<>> = Cleaned(p)
      BY CleanedTwice, PathsAlgebra
    <3>2. Cleaned(p \o x) = Cleaned(p)
      BY <2>1, <2>2, <3>1 DEF Kept
    <3> QED
      BY <1>2, <2>1, <3>2
  <2>3. CASE x \notin Dropped
    <3>1. x \in Proper /\ Kept(x) = x
      BY <2>3, KeptIs DEF Proper
    <3>2. Splits(p \o x)
      BY <2>1, <3>1
    <3> QED
      BY <2>1, <3>2
  <2> QED
    BY <2>2, <2>3
<1> HIDE DEF P
<1>3. Paths \subseteq P
  BY <1>1, <1>2, PathInduction
<1> QED
  BY <1>3 DEF P

-----------------------------------------------------------------------------
(* The root, the entries and the trees.                                    *)

LEMMA RootFacts == Root \in Paths /\ Root # <<>> /\ ExpandPath(Root) = Root
  BY RootAssumption DEF Expanded, Paths

LEMMA BelowIs == \A path : Below(path) = {e \in Entries \ {path} : Above(path, e)}
  BY DEF Below, Above

\* An entry is the root or a name under another path.
LEMMA EntryIs ==
    ASSUME NEW e \in Entries
    PROVE  /\ e \in Paths /\ e # <<>>
           /\ e = Root \/ \E q \in Paths, x \in Proper : e = ExpandPath(q \o x)
<1>1. /\ e \in Seq(Nat) /\ e # <<>> /\ e[1] = Slash /\ ExpandPath(e) = e
      /\ e = Root \/ e \in Below(Root)
  BY EntriesAssumption DEF Expanded
<1>2. e \in Paths
  BY <1>1 DEF Paths
<1>3. ASSUME e # Root PROVE \E q \in Paths, x \in Proper : e = ExpandPath(q \o x)
  <2>1. e # <<Slash>>
    <3> SUFFICES ASSUME e = <<Slash>> PROVE FALSE
      OBVIOUS
    <3> DEFINE h == Append(Root, Slash)
    <3>1. Root = <<Slash>> \/ IsPrefix(h, e)
      BY <1>1, <1>3, BelowIs DEF Above
    <3>2. /\ Root \in Seq(Nat) /\ Len(Root) \in Nat /\ Len(Root) # 0
          /\ h \in Seq(Nat) /\ Len(h) = Len(Root) + 1
      <4>1. Root \in Seq(Nat) /\ Root # <<>> /\ Slash \in Nat
        BY RootFacts DEF Paths, Slash
      <4> QED
        BY <4>1
    <3> HIDE DEF h
    <3>3. IsPrefix(h, e)
      BY <1>3, <3>1
    <3>4. Len(h) <= Len(e) /\ Len(e) = 1
      BY <1>1, <3>2, <3>3, PrefixIs
    <3> QED
      BY <3>2, <3>4
  <2>2. Cleaned(e) # <<>> /\ Cleaned(e) = e
    BY <1>1, <1>2, <2>1, ExpandFacts
  <2>3. PICK q \in Paths, x \in Proper : Cleaned(e) = Cleaned(q) \o x
    BY <1>2, <2>2, CleanedSplit
  <2> QED
    <3>1. ExpandPath(q \o x) = Cleaned(q) \o x
      BY Child
    <3> QED
      BY <2>2, <2>3, <3>1
<1> QED
  BY <1>1, <1>2, <1>3

\* What exists is the root or in a directory.
LEMMA TreeIs ==
    ASSUME NEW tree \in Trees
    PROVE  /\ tree \in [Entries -> Kinds]
           /\ \A path : Kind(tree, path) \in Kinds
           /\ \A path : Kind(tree, path) # "none" =>
                 /\ path \in Entries /\ tree[path] = Kind(tree, path)
                 /\ path = Root \/ Kind(tree, Parent(path)) = "dir"
  BY DEF Trees, Kind, Kinds, Based

LEMMA CreateKeepsTrees ==
    ASSUME NEW tree \in Trees, NEW path \in Entries, NEW kind \in {"dir", "file"},
           tree[path] = "none", Based(tree, path)
    PROVE  [tree EXCEPT ![path] = kind] \in Trees
<1> DEFINE t == [tree EXCEPT ![path] = kind]
<1>1. t \in [Entries -> Kinds] /\ t[path] = kind /\ \A e \in Entries : e # path => t[e] = tree[e]
  BY DEF Trees, Kinds
<1>2. \A d : Kind(tree, d) = "dir" => Kind(t, d) = "dir"
  <2> TAKE d
  <2> HAVE Kind(tree, d) = "dir"
  <2>1. d \in Entries /\ d # path /\ tree[d] = "dir"
    BY TreeIs
  <2> QED
    BY <1>1, <2>1 DEF Kind
<1>3. \A e \in Entries : t[e] # "none" => Based(t, e)
  BY <1>1, <1>2 DEF Based, Trees
<1> QED
  BY <1>1, <1>3 DEF Trees

LEMMA UnlinkKeepsTrees ==
    ASSUME NEW tree \in Trees, NEW path \in Entries,
           \A e \in Below(path) : tree[e] = "none"
    PROVE  [tree EXCEPT ![path] = "none"] \in Trees
<1> DEFINE t == [tree EXCEPT ![path] = "none"]
<1>1. /\ t \in [Entries -> Kinds] /\ t[path] = "none"
      /\ \A e \in Entries : e # path => t[e] = tree[e]
  BY DEF Trees, Kinds
<1> HIDE DEF t
<1>2. ASSUME NEW e \in Entries, t[e] # "none" PROVE Based(t, e)
  <2> SUFFICES ASSUME e # Root PROVE Kind(t, Parent(e)) = "dir"
    BY DEF Based
  <2>1. e # path /\ tree[e] # "none"
    BY <1>1, <1>2
  <2>2. Kind(tree, Parent(e)) = "dir"
    BY <2>1 DEF Trees, Based
  <2>3. Parent(e) # path
    <3>1. PICK q \in Paths, x \in Proper : e = ExpandPath(q \o x)
      BY EntryIs
    <3>2. Parent(e) = ExpandPath(q) /\ Above(ExpandPath(q), e)
      BY <3>1, Child, ChildBelow
    <3> QED
      BY <2>1, <3>2, BelowIs
  <2>4. Parent(e) \in Entries /\ tree[Parent(e)] = "dir"
    BY <2>2, TreeIs
  <2> QED
    BY <1>1, <2>3, <2>4 DEF Kind
<1> QED
  BY <1>1, <1>2 DEF Trees, t

LEMMA MoveKeepsTrees ==
    ASSUME NEW tree \in Trees, NEW path \in Entries
    PROVE  Without(tree, {path}) \in Trees
<1> DEFINE t == Without(tree, {path})
           Gone(e) == e = path \/ e \in Below(path)
<1>1. t = [e \in Entries |-> IF Gone(e) THEN "none" ELSE tree[e]]
  BY DEF Without, Trees
<1>2. /\ t \in [Entries -> Kinds]
      /\ \A e \in Entries : t[e] = IF Gone(e) THEN "none" ELSE tree[e]
  BY <1>1 DEF Trees, Kinds
<1> HIDE DEF t
<1>3. ASSUME NEW e \in Entries, t[e] # "none" PROVE Based(t, e)
  <2> SUFFICES ASSUME e # Root PROVE Kind(t, Parent(e)) = "dir"
    BY DEF Based
  <2>1. e # path /\ e \notin Below(path) /\ tree[e] # "none"
    BY <1>2, <1>3
  <2>2. Kind(tree, Parent(e)) = "dir"
    BY <2>1 DEF Trees, Based
  <2>3. Parent(e) \in Entries /\ tree[Parent(e)] = "dir"
    BY <2>2, TreeIs
  <2>4. PICK q \in Paths, x \in Proper : e = ExpandPath(q \o x)
    BY EntryIs
  <2>5. Parent(e) = ExpandPath(q)
    BY <2>4, Child
  <2>6. path \in Paths /\ path # <<>>
    BY EntryIs
  <2>7. Parent(e) # path
    <3>1. Above(ExpandPath(q), e)
      BY <2>4, ChildBelow
    <3> QED
      BY <2>1, <2>5, <3>1, BelowIs
  <2>8. Parent(e) \notin Below(path)
    <3>1. Above(path, ExpandPath(q)) => Above(path, e)
      BY <2>4, <2>6, ChildBelow
    <3> QED
      BY <2>1, <2>5, <3>1, BelowIs
  <2> QED
    BY <1>2, <2>3, <2>7, <2>8 DEF Kind
<1> QED
  BY <1>2, <1>3 DEF Trees, t

-----------------------------------------------------------------------------
(* The way of a path_info, segment by segment.                             *)

\* The segments with the dummy before them.
LEMMA WayIs ==
    ASSUME NEW info, Normal(info)
    PROVE  LET segs == Dummied(info)
           IN  /\ segs \in Seq(Paths) /\ Len(segs) \in Nat /\ Len(segs) # 0
               /\ segs[1] = <<>> /\ DOMAIN segs = 1..Len(segs)
               /\ \A k \in 2..Len(segs) :
                     /\ segs[k] \in Segs
                     /\ segs[k] # <<Slash>> => segs[k] \in Proper
                     /\ segs[k] = <<Slash>> => k = Len(segs)
               /\ FlattenSeq(segs) = info
<1> DEFINE s == ScanSegments(info)
           n == Len(s)
           segs == <<<<>>>> \o s
<1>1. info \in Paths
  BY DEF Normal, Paths
<1>2. /\ s \in Seq(Segs) /\ FlattenSeq(s) = info
  BY <1>1, FlattenScan
<1>3. \A k \in DOMAIN s : /\ s[k] # <<Slash, Dot>>
                          /\ s[k] = <<Slash>> => k = n
  BY DEF Normal
<1> HIDE DEF s
<1>4. n \in Nat /\ DOMAIN s = 1..n /\ \A k \in 1..n : s[k] \in Segs
  BY <1>2, SeqFacts
<1>5. s \in Seq(Paths) /\ <<<<>>>> \in Seq(Paths)
  <2>1. <<>> \in Paths
    BY PathsConcat
  <2>2. <<<<>>>> \in Seq(Paths)
    BY <2>1
  <2> QED
    BY <1>2, <2>2, PathsConcat, SeqMonotonic
<1>6. /\ segs \in Seq(Paths) /\ Len(segs) = n + 1 /\ segs[1] = <<>>
      /\ \A k \in 2..(n + 1) : segs[k] = s[k - 1]
  <2>1. /\ segs \in Seq(Paths) /\ Len(segs) = n + 1
        /\ segs[1] = <<>> /\ \A k \in 2..(n + 1) : segs[k] = s[k - 1]
    BY <1>4, <1>5
  <2> QED
    BY <2>1
<1>7. FlattenSeq(segs) = info
  <2>1. /\ s \in Seq(Seq(Nat)) /\ <<<<>>>> \in Seq(Seq(Nat)) /\ <<>> \in Seq(Nat)
    <3>1. Segs \subseteq Seq(Nat)
      BY DEF Segs
    <3> QED
      BY <1>2, <3>1, SeqMonotonic
  <2>2. FlattenSeq(segs) = FlattenSeq(<<<<>>>>) \o FlattenSeq(s)
    BY <2>1, FlattenConcat
  <2>3. FlattenSeq(<<<<>>>>) = <<>>
    BY <2>1, FlattenFew
  <2> QED
    BY <1>1, <1>2, <2>2, <2>3, PathsAlgebra
<1>8. Dummied(info) = segs
  BY DEF Dummied, s
<1> HIDE DEF segs, n
<1>9. \A k \in 2..(n + 1) : k - 1 \in 1..n /\ (k - 1 = n => k = n + 1)
  BY <1>4
<1>10. DOMAIN segs = 1..Len(segs) /\ Len(segs) \in Nat /\ Len(segs) # 0
  BY <1>4, <1>6
<1>11. \A k \in 2..Len(segs) :
          /\ segs[k] \in Segs
          /\ segs[k] # <<Slash>> => segs[k] \in Proper
          /\ segs[k] = <<Slash>> => k = Len(segs)
  BY <1>3, <1>4, <1>6, <1>9 DEF Proper, Dropped
<1> QED
  BY <1>6, <1>7, <1>8, <1>10, <1>11

\* How far it has been walked, and what is left.
LEMMA WalkedIs ==
    ASSUME NEW segs \in Seq(Paths), NEW n \in 0..Len(segs)
    PROVE  /\ Walked(segs, n) \in Paths
           /\ Walked(segs, 0) = <<>>
           /\ n < Len(segs) => Walked(segs, n + 1) = Walked(segs, n) \o segs[n + 1]
           /\ Walked(segs, n) \o FlattenSeq(SubSeq(segs, n + 1, Len(segs)))
                 = FlattenSeq(segs)
<1> DEFINE N == Len(segs)
           front == SubSeq(segs, 1, n)
           rest == SubSeq(segs, n + 1, N)
           texts == Seq(Seq(Nat))
<1>1. N \in Nat /\ n \in Nat /\ n <= N /\ Paths \subseteq Seq(Nat)
  BY DEF Paths
<1>2. /\ front \in Seq(Paths) /\ rest \in Seq(Paths)
      /\ front \o rest = segs
      /\ SubSeq(segs, 1, 0) = <<>>
      /\ n < N => /\ SubSeq(segs, 1, n + 1) = Append(front, segs[n + 1])
                  /\ segs[n + 1] \in Paths
  <2>1. front \in Seq(Paths) /\ rest \in Seq(Paths) /\ SubSeq(segs, 1, 0) = <<>>
    BY <1>1
  <2>2. front \o rest = segs
    <3>1. /\ 1 \in 1..(N + 1) /\ n \in (1 - 1)..N /\ N \in n..N
      BY <1>1
    <3>2. front \o rest = SubSeq(segs, 1, N)
      BY <3>1, ConcatAdjacentSubSeq
    <3> QED
      BY <3>2, SubSeqFull
  <2>3. ASSUME n < N
        PROVE  /\ SubSeq(segs, 1, n + 1) = Append(front, segs[n + 1])
               /\ segs[n + 1] \in Paths
    BY <1>1, <2>3
  <2> QED
    BY <2>1, <2>2, <2>3
<1> HIDE DEF front, rest, N
<1>3. front \in texts /\ rest \in texts
  BY <1>1, <1>2, SeqMonotonic
<1>4. FlattenSeq(segs) = FlattenSeq(front) \o FlattenSeq(rest)
  BY <1>2, <1>3, FlattenConcat
<1>5. n < N => FlattenSeq(Append(front, segs[n + 1])) = FlattenSeq(front) \o segs[n + 1]
  <2> SUFFICES ASSUME n < N
               PROVE  FlattenSeq(Append(front, segs[n + 1]))
                         = FlattenSeq(front) \o segs[n + 1]
    OBVIOUS
  <2>1. segs[n + 1] \in Seq(Nat)
    BY <1>1, <1>2
  <2> QED
    BY <1>3, <2>1, FlattenAppend
<1>6. \A t \in Seq(Paths) : FlattenSeq(t) \in Paths
  <2> DEFINE P == {t \in Seq(Paths) : FlattenSeq(t) \in Paths}
  <2>1. <<>> \in P
    <3>1. <<>> \in Seq(Paths)
      OBVIOUS
    <3> QED
      BY <3>1, FlattenFew, PathsConcat
  <2>2. ASSUME NEW t \in Seq(Paths), NEW p \in Paths, t \in P PROVE Append(t, p) \in P
    <3>1. t \in texts /\ p \in Seq(Nat)
      BY <1>1, SeqMonotonic
    <3>2. FlattenSeq(Append(t, p)) = FlattenSeq(t) \o p
      BY <3>1, FlattenAppend
    <3>3. FlattenSeq(t) \o p \in Paths
      BY <2>2, PathsConcat
    <3>4. Append(t, p) \in Seq(Paths)
      OBVIOUS
    <3> QED
      BY <3>2, <3>3, <3>4
  <2> HIDE DEF P
  <2>3. Seq(Paths) \subseteq P
    BY <2>1, <2>2, SeqInduction
  <2> QED
    BY <2>3 DEF P
<1> QED
  BY <1>2, <1>4, <1>5, <1>6, FlattenFew DEF Walked, front, rest, N

\* What is below the root stays below it, and is not the root.
LEMMA UnderRoot ==
    ASSUME NEW p \in Paths
    PROVE  /\ IsPrefix(Root, ExpandPath(Root \o p))
           /\ \A x \in Proper : ExpandPath((Root \o p) \o x) # Root
<1> DEFINE c == Cleaned(p)
           q == ExpandPath(Root \o p)
<1>1. /\ Root \in Paths /\ Root # <<>> /\ Root \in Seq(Nat)
      /\ Root = IF Cleaned(Root) = <<>> THEN <<Slash>> ELSE Cleaned(Root)
      /\ c \in Paths /\ Root \o p \in Paths
  BY RootFacts, CleanedTwice, PathsConcat, ExpandFacts DEF Paths
<1>2. /\ Cleaned(Root \o p) = Cleaned(Root) \o c
      /\ q \in Paths /\ q # <<>>
      /\ q = IF Cleaned(Root \o p) = <<>> THEN <<Slash>> ELSE Cleaned(Root \o p)
  BY <1>1, CleanedConcat, ExpandFacts
<1> HIDE DEF c, q
<1>3. CASE Cleaned(Root) = <<>>
  <2>1. Root = <<Slash>>
    BY <1>1, <1>3
  <2>2. IsPrefix(Root, q)
    <3>1. q \in Seq(Nat) /\ Len(q) \in Nat /\ Len(q) # 0 /\ q[1] = Slash
      <4>1. q \in Seq(Nat) /\ q # <<>> /\ q[1] = Slash
        BY <1>2 DEF Paths
      <4> QED
        BY <4>1
    <3>2. Len(Root) = 1 /\ Root[1] = Slash
      BY <2>1
    <3> QED
      BY <1>1, <3>1, <3>2, PrefixIs
  <2>3. \A x \in Proper : ExpandPath((Root \o p) \o x) # Root
    BY <1>1, <2>1, Child
  <2> QED
    BY <2>2, <2>3 DEF q
<1>4. CASE Cleaned(Root) # <<>>
  <2>1. Root = Cleaned(Root) /\ Len(Root) \in Nat /\ Len(Root) # 0
    BY <1>1, <1>4
  <2>2. Root \o c # <<>> /\ Len(Root \o c) = Len(Root) + Len(c) /\ Len(c) \in Nat
    <3>1. c \in Seq(Nat)
      BY <1>1 DEF Paths
    <3> QED
      BY <1>1, <2>1, <3>1
  <2>3. q = Root \o c
    BY <1>2, <2>1, <2>2
  <2>4. IsPrefix(Root, q)
    <3>1. c \in Seq(Nat)
      BY <1>1 DEF Paths
    <3> QED
      BY <1>1, <2>3, <3>1, PrefixFacts
  <2>5. ASSUME NEW x \in Proper PROVE ExpandPath((Root \o p) \o x) # Root
    <3> DEFINE r == ExpandPath((Root \o p) \o x)
    <3>1. Len(q) < Len(r)
      BY <1>1, ChildBelow DEF q
    <3>2. r \in Seq(Nat)
      BY <1>1, Child DEF Paths
    <3> HIDE DEF r
    <3>3. Len(q) = Len(Root) + Len(c) /\ Len(r) \in Nat
      BY <2>2, <2>3, <3>2
    <3>4. Len(r) # Len(Root)
      BY <2>1, <2>2, <3>1, <3>3
    <3> QED
      BY <3>4 DEF r
  <2> QED
    BY <2>4, <2>5 DEF q
<1> QED
  BY <1>3, <1>4

\* The places on the way.
LEMMA PlaceIs ==
    ASSUME NEW info, Normal(info), NEW n \in 0..Len(Dummied(info))
    PROVE  LET segs == Dummied(info)
               p == Root \o Walked(segs, n)
           IN  /\ p \in Paths
               /\ Place(segs, n) = ExpandPath(p)
               /\ Place(segs, n) \in Paths /\ Place(segs, n) # <<>>
               /\ n \in {0, 1} => Place(segs, n) = Root
               /\ n < Len(segs) =>
                     /\ segs[n + 1] \in Paths
                     /\ Place(segs, n + 1) = ExpandPath(p \o segs[n + 1])
                     /\ Place(segs, n + 1) = ExpandPath(Place(segs, n) \o segs[n + 1])
               /\ n < Len(segs) /\ n # 0 /\ segs[n + 1] # <<Slash>> =>
                     /\ segs[n + 1] \in Proper
                     /\ BaseName(Place(segs, n + 1)) = Tail(segs[n + 1])
                     /\ Parent(Place(segs, n + 1)) = Place(segs, n)
                     /\ Place(segs, n + 1) # Root
<1> DEFINE segs == Dummied(info)
           N == Len(segs)
           p == Root \o Walked(segs, n)
<1>1. /\ segs \in Seq(Paths) /\ N \in Nat /\ N # 0 /\ segs[1] = <<>> /\ DOMAIN segs = 1..N
      /\ \A k \in 2..N : segs[k] # <<Slash>> => segs[k] \in Proper
  BY WayIs
<1>2. n \in Nat /\ 0 <= n /\ n <= N /\ n \in 0..N
  BY <1>1
<1> HIDE DEF segs, N
<1>3. /\ Walked(segs, n) \in Paths /\ Walked(segs, 0) = <<>>
      /\ n < N => Walked(segs, n + 1) = Walked(segs, n) \o segs[n + 1]
  BY <1>1, <1>2, WalkedIs DEF N
<1>4. p \in Paths /\ Root \in Paths /\ ExpandPath(Root) = Root
  BY <1>3, RootFacts, PathsConcat
<1>5. Place(segs, n) = ExpandPath(p) /\ Place(segs, n) \in Paths /\ Place(segs, n) # <<>>
  BY <1>4, ExpandFacts DEF Place
<1>6. ASSUME n < N
      PROVE  /\ segs[n + 1] \in Paths
             /\ Place(segs, n + 1) = ExpandPath(p \o segs[n + 1])
             /\ Place(segs, n + 1) = ExpandPath(Place(segs, n) \o segs[n + 1])
  <2>1. segs[n + 1] \in Paths
    <3>1. n + 1 \in 1..N
      BY <1>1, <1>2, <1>6
    <3> QED
      BY <1>1, <3>1, SeqFacts DEF N
  <2>2. Root \o (Walked(segs, n) \o segs[n + 1]) = p \o segs[n + 1]
    BY <1>3, <1>4, <2>1, PathsAlgebra
  <2>3. Place(segs, n + 1) = ExpandPath(p \o segs[n + 1])
    BY <1>3, <1>6, <2>2 DEF Place
  <2>4. ExpandPath(ExpandPath(p) \o segs[n + 1]) = ExpandPath(p \o segs[n + 1])
    BY <1>4, <2>1, ExpandStep
  <2> QED
    BY <1>5, <2>1, <2>3, <2>4
<1>7. Place(segs, 0) = Root
  <2>1. Root \o <<>> = Root
    BY <1>4, PathsAlgebra
  <2> QED
    BY <1>3, <1>4, <2>1 DEF Place
<1>8. Place(segs, 1) = Root
  <2>1. 0 \in 0..N /\ 0 < N /\ 0 + 1 = 1
    BY <1>1
  <2>2. Walked(segs, 1) = <<>>
    <3>1. Walked(segs, 0 + 1) = Walked(segs, 0) \o segs[0 + 1]
      BY <1>1, <2>1, WalkedIs DEF N
    <3>2. <<>> \o <<>> = <<>>
      BY PathsConcat, PathsAlgebra
    <3> QED
      BY <1>1, <1>3, <2>1, <3>1, <3>2
  <2>3. Root \o <<>> = Root
    BY <1>4, PathsAlgebra
  <2> QED
    BY <1>4, <2>2, <2>3 DEF Place
<1>9. ASSUME n < N, n # 0, segs[n + 1] # <<Slash>>
      PROVE  /\ segs[n + 1] \in Proper
             /\ BaseName(Place(segs, n + 1)) = Tail(segs[n + 1])
             /\ Parent(Place(segs, n + 1)) = Place(segs, n)
             /\ Place(segs, n + 1) # Root
  <2>1. n + 1 \in 2..N
    BY <1>1, <1>2, <1>9
  <2>2. segs[n + 1] \in Proper
    BY <1>1, <1>9, <2>1
  <2>3. /\ BaseName(ExpandPath(p \o segs[n + 1])) = Tail(segs[n + 1])
        /\ Parent(ExpandPath(p \o segs[n + 1])) = ExpandPath(p)
    BY <1>4, <2>2, Child
  <2>4. ExpandPath(p \o segs[n + 1]) # Root
    BY <1>3, <2>2, UnderRoot
  <2> QED
    BY <1>5, <1>6, <1>9, <2>2, <2>3, <2>4
<1> QED
  BY <1>4, <1>5, <1>6, <1>7, <1>8, <1>9 DEF segs, N

\* An index name put after a slash is a name.
LEMMA IndexIs ==
    ASSUME NEW i \in DOMAIN DirectoryIndex
    PROVE  Indexed(i) \in Proper /\ Tail(Indexed(i)) = DirectoryIndex[i]
<1> DEFINE d == DirectoryIndex[i]
           x == <<Slash>> \o d
<1>1. d \in Seq(Nat) /\ d # <<>> /\ d # <<Dot>> /\ Slash \notin Range(d)
  BY DirectoryIndexAssumption
<1>2. \A k \in 1..Len(d) : d[k] # Slash
  BY <1>1 DEF Range
<1>3. Indexed(i) = x
  BY DEF Indexed
<1> HIDE DEF d
<1>4. Slash \in Nat
  BY DEF Slash
<1>5. /\ x \in Seq(Nat) /\ Len(x) = Len(d) + 1 /\ x[1] = Slash /\ Tail(x) = d
      /\ \A k \in 2..Len(x) : x[k] = d[k - 1] /\ k - 1 \in 1..Len(d)
      /\ Len(d) \in Nat /\ x # <<>>
  BY <1>1, <1>4
<1> HIDE DEF x
<1>6. x \in Segs
  BY <1>2, <1>5 DEF Segs
<1>7. x # <<Slash>> /\ x # <<Slash, Dot>>
  <2>1. Tail(<<Slash>>) = <<>> /\ Tail(<<Slash, Dot>>) = <<Dot>>
    OBVIOUS
  <2> QED
    BY <1>1, <1>5, <2>1
<1> QED
  BY <1>3, <1>5, <1>6, <1>7 DEF Proper, Dropped, d

-----------------------------------------------------------------------------
(* What the answer is, told from the questions asked on the way.           *)

\* The first n segments lead from directory to directory in the tree.
Reach(tree, segs, n) == \A k \in 1..n : /\ segs[k] # <<Slash>>
                                        /\ Kind(tree, Place(segs, k)) = "dir"

\* Nothing concealed is on the way so far.
Clear(segs, n) == \A k \in 1..n : ~Concealed(BaseName(Place(segs, k)))

\* Depth is how far the tree can be reached.
LEMMA DepthIs ==
    ASSUME NEW tree, NEW segs \in Seq(Paths), NEW n \in 0..Len(segs),
           Reach(tree, segs, n)
    PROVE  LET d == Depth(tree, segs)
           IN  /\ d \in n..Len(segs) /\ Reach(tree, segs, d)
               /\ \/ n = Len(segs)
                  \/ segs[n + 1] = <<Slash>>
                  \/ Kind(tree, Place(segs, n + 1)) # "dir"
                  => d = n
<1> DEFINE N == Len(segs)
           S == {0} \cup {m \in DOMAIN segs :
                            \A k \in 1..m : /\ segs[k] # <<Slash>>
                                            /\ Kind(tree, Place(segs, k)) = "dir"}
           d == Max(S)
<1>1. N \in Nat /\ DOMAIN segs = 1..N /\ n \in Nat /\ n <= N
  BY SeqFacts
<1> HIDE DEF N
<1>2. S \in SUBSET (0..N) /\ S # {}
  BY <1>1
<1>3. \A m \in S : Reach(tree, segs, m)
  BY <1>1 DEF Reach
<1>4. n \in S
  <2>1. n = 0 \/ n \in 1..N
    BY <1>1
  <2> QED
    BY <1>1, <2>1 DEF Reach
<1>5. Depth(tree, segs) = d
  BY DEF Depth
<1> HIDE DEF S, d
<1>6. d \in S /\ \A m \in S : m <= d
  BY <1>1, <1>2, MaxIs DEF d
<1>7. d \in n..N /\ Reach(tree, segs, d)
  BY <1>1, <1>2, <1>3, <1>4, <1>6
<1>8. ASSUME d # n
      PROVE  /\ n # N /\ segs[n + 1] # <<Slash>>
             /\ Kind(tree, Place(segs, n + 1)) = "dir"
  <2>1. n + 1 \in 1..d /\ n # N
    BY <1>1, <1>7, <1>8
  <2> QED
    BY <1>7, <2>1 DEF Reach
<1> QED
  BY <1>5, <1>7, <1>8 DEF N

\* Resolved, once the depth is known.
LEMMA ResolvedAt ==
    ASSUME NEW tree, NEW info, Normal(info), NEW n \in 0..Len(Dummied(info)),
           Depth(tree, Dummied(info)) = n
    PROVE  LET segs == Dummied(info)
               indices == {i \in DOMAIN DirectoryIndex :
                              Kind(tree, IndexAt(Place(segs, n), i)) = "file"}
               left == FlattenSeq(SubSeq(segs, n + 2, Len(segs)))
           IN  /\ ~Clear(segs, n) => Resolved(tree, info) = NotFound
               /\ Clear(segs, n) /\ n = Len(segs) =>
                     Resolved(tree, info)
                        = Answer("listing", Place(segs, n), Walked(segs, n), <<>>)
               /\ Clear(segs, n) /\ n < Len(segs) =>
                     Resolved(tree, info) =
                        IF segs[n + 1] = <<Slash>>
                        THEN IF indices # {}
                             THEN Served(Walked(segs, n) \o Indexed(Min(indices)), left)
                             ELSE Answer("listing", Place(segs, n),
                                         Walked(segs, n + 1), left)
                        ELSE IF Kind(tree, Place(segs, n + 1)) = "file"
                             THEN Served(Walked(segs, n + 1), left)
                             ELSE NotFound
<1> DEFINE segs == Dummied(info)
           N == Len(segs)
           rest == SubSeq(segs, n + 1, N)
           left == FlattenSeq(SubSeq(segs, n + 2, N))
           indices == {i \in DOMAIN DirectoryIndex :
                          Kind(tree, IndexAt(Place(segs, n), i)) = "file"}
           listing == Answer("listing", Place(segs, n), Walked(segs, n), <<>>)
           found == Served(Walked(segs, n) \o Indexed(Min(indices)), FlattenSeq(Tail(rest)))
           slashed == Answer("listing", Place(segs, n), Walked(segs, n + 1),
                             FlattenSeq(Tail(rest)))
           file == Served(Walked(segs, n + 1), FlattenSeq(Tail(rest)))
           isFile == Kind(tree, Place(segs, n + 1)) = "file"
<1>1. segs \in Seq(Paths) /\ N \in Nat /\ n \in Nat /\ n <= N
  BY WayIs
<1>2. Resolved(tree, info) =
         IF ~Clear(segs, n) THEN NotFound
         ELSE IF rest = <<>> THEN listing
         ELSE CASE rest[1] = <<Slash>> /\ indices # {} -> found
                [] rest[1] = <<Slash>> /\ indices = {} -> slashed
                [] rest[1] # <<Slash>> /\ isFile -> file
                [] OTHER -> NotFound
  BY Zenon DEF Resolved, Clear
<1> HIDE DEF segs, N
<1>3. n = N => rest = <<>>
  BY <1>1
<1>4. n < N => /\ rest # <<>> /\ rest[1] = segs[n + 1]
               /\ Tail(rest) = SubSeq(segs, n + 2, N)
  <2> SUFFICES ASSUME n < N
               PROVE  /\ rest # <<>> /\ rest[1] = segs[n + 1]
                      /\ Tail(rest) = SubSeq(segs, n + 2, N)
    OBVIOUS
  <2>1. rest \in Seq(Paths) /\ Len(rest) = N - n /\ rest[1] = segs[n + 1]
    BY <1>1 DEF N
  <2>2. rest # <<>>
    <3> HIDE DEF rest
    <3>1. rest = <<>> => Len(rest) = 0
      OBVIOUS
    <3> QED
      BY <1>1, <2>1, <3>1
  <2>3. Tail(rest) = SubSeq(segs, (n + 1) + 1, N)
    <3>1. n + 1 \in 1..N /\ N \in (n + 1)..N
      BY <1>1
    <3> QED
      BY <1>1, <3>1, HeadTailOfSubSeq DEF N
  <2>4. (n + 1) + 1 = n + 2
    BY <1>1
  <2> QED
    BY <2>1, <2>2, <2>3, <2>4
<1> HIDE DEF rest, indices
<1>5. n < N => found = Served(Walked(segs, n) \o Indexed(Min(indices)), left)
               /\ slashed = Answer("listing", Place(segs, n), Walked(segs, n + 1), left)
               /\ file = Served(Walked(segs, n + 1), left)
  BY <1>4
<1> HIDE DEF found, slashed, file, listing, left, isFile
<1>6. ~Clear(segs, n) => Resolved(tree, info) = NotFound
  BY <1>2
<1>7. Clear(segs, n) /\ n = N => Resolved(tree, info) = listing
  BY <1>2, <1>3
<1>8. ASSUME Clear(segs, n), n < N
      PROVE  Resolved(tree, info) = IF segs[n + 1] = <<Slash>>
                                    THEN IF indices # {} THEN found ELSE slashed
                                    ELSE IF isFile THEN file ELSE NotFound
  <2>1. rest # <<>> /\ rest[1] = segs[n + 1]
    BY <1>4, <1>8
  <2>2. CASE segs[n + 1] = <<Slash>> /\ indices # {}
    BY <1>2, <1>8, <2>1, <2>2
  <2>3. CASE segs[n + 1] = <<Slash>> /\ indices = {}
    BY <1>2, <1>8, <2>1, <2>3
  <2>4. CASE segs[n + 1] # <<Slash>> /\ isFile
    BY <1>2, <1>8, <2>1, <2>4
  <2>5. CASE segs[n + 1] # <<Slash>> /\ ~isFile
    BY <1>2, <1>8, <2>1, <2>5
  <2> QED
    BY <2>2, <2>3, <2>4, <2>5
<1> QED
  BY <1>5, <1>6, <1>7, <1>8 DEF segs, N, indices, left, listing, isFile

\* The last segment leaves nothing.
LEMMA NothingLeft ==
    ASSUME NEW segs \in Seq(Paths)
    PROVE  FlattenSeq(SubSeq(segs, Len(segs) + 1, Len(segs))) = <<>>
<1>1. SubSeq(segs, Len(segs) + 1, Len(segs)) = <<>>
  OBVIOUS
<1> QED
  BY <1>1, FlattenFew

\* The least of some numbers.
LEMMA MinIs ==
    ASSUME NEW S \in SUBSET Nat, NEW i \in S, \A j \in S : i <= j
    PROVE  Min(S) = i
<1>1. \A m \in S : (\A j \in S : m <= j) => m = i
  OBVIOUS
<1> QED
  BY <1>1 DEF Min

\* The answer of every way a resolution can end.
LEMMA ResolvedIs ==
    ASSUME NEW tree, NEW info, Normal(info), NEW n \in 0..Len(Dummied(info)),
           Reach(tree, Dummied(info), n)
    PROVE  LET segs == Dummied(info)
               N == Len(segs)
               kind == Kind(tree, Place(segs, n + 1))
               HasIndex(i) == Kind(tree, IndexAt(Place(segs, n), i)) = "file"
           IN  /\ Clear(segs, n) /\ n = N =>
                     Resolved(tree, info)
                        = Answer("listing", Place(segs, n), Walked(segs, n), <<>>)
               /\ Clear(segs, n) /\ n < N /\ segs[n + 1] = <<Slash>> =>
                     /\ (\A i \in DOMAIN DirectoryIndex : ~HasIndex(i)) =>
                           Resolved(tree, info)
                              = Answer("listing", Place(segs, n), Walked(segs, n + 1), <<>>)
                     /\ \A i \in DOMAIN DirectoryIndex :
                           HasIndex(i) /\ (\A j \in 1..(i - 1) : ~HasIndex(j)) =>
                              Resolved(tree, info)
                                 = Served(Walked(segs, n) \o Indexed(i), <<>>)
               /\ n < N /\ segs[n + 1] # <<Slash>> =>
                     /\ Clear(segs, n) /\ kind = "file" =>
                           Resolved(tree, info)
                              = Served(Walked(segs, n + 1),
                                       FlattenSeq(SubSeq(segs, n + 2, N)))
                     /\ kind \notin {"dir", "file"} => Resolved(tree, info) = NotFound
                     /\ kind = "dir" /\ ~Clear(segs, n + 1) =>
                           Resolved(tree, info) = NotFound
<1> DEFINE segs == Dummied(info)
           N == Len(segs)
           kind == Kind(tree, Place(segs, n + 1))
           HasIndex(i) == Kind(tree, IndexAt(Place(segs, n), i)) = "file"
           indices == {i \in DOMAIN DirectoryIndex :
                          Kind(tree, IndexAt(Place(segs, n), i)) = "file"}
           left == FlattenSeq(SubSeq(segs, n + 2, N))
<1>1. /\ segs \in Seq(Paths) /\ N \in Nat /\ N # 0 /\ segs[1] = <<>>
      /\ n \in Nat /\ n <= N
      /\ \A k \in 2..N : segs[k] = <<Slash>> => k = N
  BY WayIs
<1>2. DOMAIN DirectoryIndex \subseteq Nat
  BY DirectoryIndexAssumption
<1>3. /\ n = N \/ segs[n + 1] = <<Slash>> \/ kind # "dir" => Depth(tree, segs) = n
      /\ Depth(tree, segs) \in n..N
  BY <1>1, DepthIs
<1>4. ASSUME n < N, segs[n + 1] = <<Slash>> PROVE left = <<>>
  <2>1. n + 1 \in 2..N
    <3>1. segs[1] # <<Slash>>
      BY <1>1
    <3>2. n # 0
      BY <1>4, <3>1
    <3> QED
      BY <1>1, <1>4, <3>2
  <2>2. n + 2 = N + 1
    BY <1>1, <1>4, <2>1
  <2> QED
    BY <1>1, <2>2, NothingLeft
<1>5. Depth(tree, segs) = n =>
         /\ ~Clear(segs, n) => Resolved(tree, info) = NotFound
         /\ Clear(segs, n) /\ n = N =>
               Resolved(tree, info)
                  = Answer("listing", Place(segs, n), Walked(segs, n), <<>>)
         /\ Clear(segs, n) /\ n < N =>
               Resolved(tree, info) =
                  IF segs[n + 1] = <<Slash>>
                  THEN IF indices # {}
                       THEN Served(Walked(segs, n) \o Indexed(Min(indices)), left)
                       ELSE Answer("listing", Place(segs, n), Walked(segs, n + 1), left)
                  ELSE IF kind = "file" THEN Served(Walked(segs, n + 1), left)
                       ELSE NotFound
  BY ResolvedAt
<1> HIDE DEF segs, N, kind, left
<1>6. ASSUME Clear(segs, n), n = N
      PROVE  Resolved(tree, info)
                = Answer("listing", Place(segs, n), Walked(segs, n), <<>>)
  BY <1>3, <1>5, <1>6
<1>7. ASSUME Clear(segs, n), n < N, segs[n + 1] = <<Slash>>,
             \A i \in DOMAIN DirectoryIndex : ~HasIndex(i)
      PROVE  Resolved(tree, info)
                = Answer("listing", Place(segs, n), Walked(segs, n + 1), <<>>)
  <2>1. indices = {}
    BY <1>7
  <2> HIDE DEF indices
  <2> QED
    BY <1>3, <1>4, <1>5, <1>7, <2>1
<1>8. ASSUME Clear(segs, n), n < N, segs[n + 1] = <<Slash>>,
             NEW i \in DOMAIN DirectoryIndex, HasIndex(i),
             \A j \in 1..(i - 1) : ~HasIndex(j)
      PROVE  Resolved(tree, info) = Served(Walked(segs, n) \o Indexed(i), <<>>)
  <2>1. i \in indices /\ indices \in SUBSET Nat
    BY <1>2, <1>8
  <2>2. \A j \in indices : i <= j
    <3> TAKE j \in indices
    <3>1. j \in Nat /\ i \in Nat /\ HasIndex(j) /\ j # 0
      BY <1>2, DirectoryIndexAssumption
    <3>2. j \notin 1..(i - 1)
      BY <1>8, <3>1
    <3> QED
      BY <3>1, <3>2
  <2> HIDE DEF indices
  <2>3. Min(indices) = i /\ indices # {}
    BY <2>1, <2>2, MinIs
  <2> QED
    BY <1>3, <1>4, <1>5, <1>8, <2>3
<1>9. ASSUME n < N, segs[n + 1] # <<Slash>>, Clear(segs, n), kind = "file"
      PROVE  Resolved(tree, info) = Served(Walked(segs, n + 1), left)
  <2>1. kind # "dir"
    BY <1>9
  <2> QED
    BY <1>3, <1>5, <1>9, <2>1
<1>10. ASSUME n < N, segs[n + 1] # <<Slash>>, kind \notin {"dir", "file"}
       PROVE  Resolved(tree, info) = NotFound
  BY <1>3, <1>5, <1>10
<1>11. ASSUME n < N, segs[n + 1] # <<Slash>>, kind = "dir", ~Clear(segs, n + 1)
       PROVE  Resolved(tree, info) = NotFound
  <2>1. n + 1 \in 0..N
    BY <1>1, <1>11
  <2>2. Reach(tree, segs, n + 1)
    <3>1. \A k \in 1..(n + 1) : k \in 1..n \/ k = n + 1
      BY <1>1
    <3> QED
      BY <1>11, <3>1 DEF Reach, kind, segs
  <2> DEFINE d == Depth(tree, segs)
  <2>3. d \in (n + 1)..N
    BY <1>1, <2>1, <2>2, DepthIs DEF N
  <2>4. ~Clear(segs, d)
    <3>1. PICK k \in 1..(n + 1) : Concealed(BaseName(Place(segs, k)))
      BY <1>11 DEF Clear
    <3>2. k \in 1..d
      BY <1>1, <2>3
    <3> QED
      BY <3>1, <3>2 DEF Clear
  <2>5. d \in 0..N
    BY <1>1, <2>3
  <2> HIDE DEF d
  <2> QED
    BY <2>4, <2>5, ResolvedAt DEF d, segs, N
<1> QED
  BY <1>6, <1>7, <1>8, <1>9, <1>10, <1>11 DEF segs, N, kind, left

-----------------------------------------------------------------------------
(* A resolution as a way along the segments.                               *)

Ahead == Dummied(path_info)
Length == Len(Ahead)

\* How many segments are consumed, and the places they lead to.
At == Length - Len(segments)
Stand == Place(Ahead, At)
Beyond == Place(Ahead, At + 1)
Wanted == Ahead[At + 1]

\* Where the walk stands is all in segments, script and filename.
Tracked ==
    /\ At \in 0..Length
    /\ segments = SubSeq(Ahead, At + 1, Length)
    /\ script = Walked(Ahead, At) /\ filename = Stand
    /\ \A k \in 1..At : Ahead[k] # <<Slash>>
    /\ Clear(Ahead, At)
    /\ stage = "index" => At < Length /\ Wanted = <<Slash>>
    /\ stage = "search" => At < Length /\ Wanted # <<Slash>>

Changes == [created : SUBSET Entries, removed : SUBSET Entries, moved : SUBSET Entries]

BaseInv ==
    /\ fs \in Trees
    /\ Normal(path_info)
    /\ stage \in {"walk", "index", "search", "done"}
    /\ index \in 1..(Len(DirectoryIndex) + 1)
    /\ answer.kind \in {"missing", "file", "listing"}
    /\ changes \in Changes
    /\ ~Done => Tracked

\* The walk goes on from the m-th segment, or has ended.
Went(m, next) ==
    /\ segments' = SubSeq(Ahead, m + 1, Length)
    /\ script' = Walked(Ahead, m) /\ filename' = Place(Ahead, m)
    /\ stage' = next /\ answer' = answer
    /\ path_info' = path_info /\ Still
Ended(result) ==
    /\ stage' = "done" /\ answer' = result /\ index' = index
    /\ path_info' = path_info /\ Still

Enters ==
    /\ stage = "walk" /\ At < Length /\ Wanted # <<Slash>>
    /\ Kind(fs, Beyond) = "dir" /\ ~Concealed(BaseName(Beyond))
    /\ Went(At + 1, "walk") /\ index' = index
Shuts ==
    /\ stage = "walk" /\ At < Length /\ Wanted # <<Slash>>
    /\ Kind(fs, Beyond) = "dir" /\ Concealed(BaseName(Beyond))
    /\ Ended(NotFound)
Leaves ==
    /\ stage = "walk" /\ At < Length /\ Wanted # <<Slash>>
    /\ Kind(fs, Beyond) # "dir"
    /\ Went(At, "search") /\ index' = index
Meets ==
    /\ stage = "walk" /\ At < Length /\ Wanted = <<Slash>>
    /\ Went(At, "index") /\ index' = 1
Arrives ==
    /\ stage = "walk" /\ At = Length
    /\ Ended(Answer("listing", Stand, Walked(Ahead, At), <<>>))
Finds ==
    /\ stage = "index" /\ At < Length /\ Wanted = <<Slash>>
    /\ index \in DOMAIN DirectoryIndex /\ Kind(fs, IndexAt(Stand, index)) = "file"
    /\ Ended(Served(Walked(Ahead, At) \o Indexed(index), <<>>))
Misses ==
    /\ stage = "index" /\ At < Length /\ Wanted = <<Slash>>
    /\ index \in DOMAIN DirectoryIndex /\ Kind(fs, IndexAt(Stand, index)) # "file"
    /\ Went(At, "index") /\ index' = index + 1
Lists ==
    /\ stage = "index" /\ At < Length /\ Wanted = <<Slash>>
    /\ index = Len(DirectoryIndex) + 1
    /\ Ended(Answer("listing", Stand, Walked(Ahead, At + 1), <<>>))
Serves ==
    /\ stage = "search" /\ At < Length /\ Wanted # <<Slash>>
    /\ Kind(fs, Beyond) = "file"
    /\ Ended(Served(Walked(Ahead, At + 1), FlattenSeq(SubSeq(Ahead, At + 2, Length))))
Fails ==
    /\ stage = "search" /\ At < Length /\ Wanted # <<Slash>>
    /\ Kind(fs, Beyond) # "file"
    /\ Ended(NotFound)

\* The facts a step starts from.
LEMMA BaseFacts ==
    ASSUME BaseInv, ~Done
    PROVE  /\ Tracked /\ Normal(path_info)
           /\ Ahead \in Seq(Paths) /\ Length \in Nat /\ Length # 0
           /\ At \in Nat /\ At <= Length /\ At \in 0..Length
           /\ At # Length <=> At < Length
           /\ Walked(Ahead, At) \in Paths
           /\ Root \o Walked(Ahead, At) \in Paths
           /\ Stand = ExpandPath(Root \o Walked(Ahead, At))
           /\ DirectoryIndex \in Seq(Seq(Nat)) /\ Len(DirectoryIndex) \in Nat
           /\ DOMAIN DirectoryIndex = 1..Len(DirectoryIndex)
<1>1. Tracked /\ Normal(path_info)
  BY DEF BaseInv
<1>2. Ahead \in Seq(Paths) /\ Length \in Nat /\ Length # 0
  BY <1>1, WayIs DEF Ahead, Length
<1>3. At \in 0..Length
  BY <1>1 DEF Tracked
<1>4. /\ At \in Nat /\ At <= Length /\ (At # Length <=> At < Length)
  BY <1>2, <1>3
<1>5. Walked(Ahead, At) \in Paths
  BY <1>2, <1>3, WalkedIs DEF Length
<1>6. /\ Root \o Walked(Ahead, At) \in Paths
      /\ Stand = ExpandPath(Root \o Walked(Ahead, At))
  BY <1>1, <1>3, PlaceIs DEF Ahead, Length, Stand
<1>7. /\ DirectoryIndex \in Seq(Seq(Nat)) /\ Len(DirectoryIndex) \in Nat
      /\ DOMAIN DirectoryIndex = 1..Len(DirectoryIndex)
  BY DirectoryIndexAssumption
<1> QED
  BY <1>1, <1>2, <1>3, <1>4, <1>5, <1>6, <1>7

\* The segment at hand, and what the questions are about.
LEMMA HeadIs ==
    ASSUME BaseInv, ~Done
    PROVE  /\ segments = <<>> <=> At = Length
           /\ segments # <<>> =>
                 /\ Head(segments) = Wanted /\ Wanted \in Paths
                 /\ Tail(segments) = SubSeq(Ahead, At + 2, Length)
                 /\ Walked(Ahead, At + 1) = Walked(Ahead, At) \o Wanted
                 /\ Beyond = ExpandPath(Stand \o Wanted)
<1>1. /\ Tracked /\ Normal(path_info)
      /\ Ahead \in Seq(Paths) /\ Length \in Nat
      /\ At \in Nat /\ At <= Length /\ At \in 0..Length
      /\ At # Length <=> At < Length
  BY BaseFacts
<1> DEFINE rest == SubSeq(Ahead, At + 1, Length)
<1>2. segments = rest
  BY <1>1 DEF Tracked
<1>3. At = Length => rest = <<>>
  BY <1>1
<1>4. ASSUME At < Length
      PROVE  /\ rest # <<>> /\ Head(rest) = Wanted
             /\ Tail(rest) = SubSeq(Ahead, At + 2, Length)
  <2>1. At + 1 \in 1..Len(Ahead) /\ Length \in (At + 1)..Len(Ahead) /\ (At + 1) + 1 = At + 2
    BY <1>1, <1>4 DEF Length
  <2>2. /\ Head(rest) = Ahead[At + 1]
        /\ Tail(rest) = SubSeq(Ahead, (At + 1) + 1, Length)
    BY <1>1, <2>1, HeadTailOfSubSeq
  <2>3. rest # <<>>
    <3>1. Len(rest) = Length - At
      BY <1>1 DEF Length
    <3> HIDE DEF rest
    <3>2. rest = <<>> => Len(rest) = 0
      OBVIOUS
    <3> QED
      BY <1>1, <1>4, <3>1, <3>2
  <2> QED
    BY <2>1, <2>2, <2>3 DEF Wanted
<1>5. ASSUME At < Length
      PROVE  /\ Wanted \in Paths /\ Walked(Ahead, At + 1) = Walked(Ahead, At) \o Wanted
             /\ Beyond = ExpandPath(Stand \o Wanted)
  <2>1. Wanted \in Paths /\ Beyond = ExpandPath(Stand \o Wanted)
    BY <1>1, <1>5, PlaceIs DEF Ahead, Length, Wanted, Beyond, Stand
  <2>2. Walked(Ahead, At + 1) = Walked(Ahead, At) \o Wanted
    BY <1>1, <1>5, WalkedIs DEF Length, Wanted
  <2> QED
    BY <2>1, <2>2
<1> HIDE DEF rest
<1> QED
  BY <1>1, <1>2, <1>3, <1>4, <1>5

\* What is shifted is where the walk goes.
LEMMA ShiftIs ==
    ASSUME BaseInv, ~Done, segments # <<>>, NEW text \in Paths, Shift(text)
    PROVE  /\ segments' = SubSeq(Ahead, At + 2, Length)
           /\ script' = Walked(Ahead, At) \o text
           /\ filename' = ExpandPath(Root \o script')
           /\ text = Wanted => /\ script' = Walked(Ahead, At + 1)
                               /\ filename' = Beyond
<1>1. /\ Tracked /\ Walked(Ahead, At) \in Paths
      /\ Root \o Walked(Ahead, At) \in Paths
      /\ Stand = ExpandPath(Root \o Walked(Ahead, At))
  BY BaseFacts
<1>2. /\ Tail(segments) = SubSeq(Ahead, At + 2, Length)
      /\ Walked(Ahead, At + 1) = Walked(Ahead, At) \o Wanted
      /\ Beyond = ExpandPath(Stand \o Wanted)
  BY HeadIs
<1>3. script' = Walked(Ahead, At) \o text /\ filename' = ExpandPath(Stand \o text)
  BY <1>1 DEF Shift, Tracked
<1>4. ExpandPath(Stand \o text) = ExpandPath((Root \o Walked(Ahead, At)) \o text)
  BY <1>1, ExpandStep
<1>5. (Root \o Walked(Ahead, At)) \o text = Root \o (Walked(Ahead, At) \o text)
  BY <1>1, RootFacts, PathsAlgebra
<1> QED
  BY <1>2, <1>3, <1>4, <1>5 DEF Shift

\* Every step of a resolution is one of ten.
LEMMA Moves ==
    ASSUME BaseInv, Resolve
    PROVE  /\ ~Done
           /\ \/ Enters \/ Shuts \/ Leaves \/ Meets \/ Arrives
              \/ Finds \/ Misses \/ Lists \/ Serves \/ Fails
<1>1. ~Done
  BY DEF Resolve, Done, Descend, LeaveWalk, MeetSlash, WalkEnds, FindIndex, MissIndex,
         NoIndex, SearchFile, MissFile, Walking
<1>2. /\ Tracked
      /\ Ahead \in Seq(Paths) /\ Length \in Nat
      /\ At \in Nat /\ At <= Length
      /\ At # Length <=> At < Length
      /\ Len(DirectoryIndex) \in Nat /\ DOMAIN DirectoryIndex = 1..Len(DirectoryIndex)
      /\ index \in 1..(Len(DirectoryIndex) + 1)
  BY <1>1, BaseFacts DEF BaseInv
<1>3. /\ segments = <<>> <=> At = Length
      /\ segments # <<>> =>
            /\ At < Length /\ Head(segments) = Wanted /\ Wanted \in Paths
            /\ Beyond = ExpandPath(Stand \o Wanted)
  BY <1>1, <1>2, HeadIs
<1>4. script = Walked(Ahead, At) /\ filename = Stand
      /\ segments = SubSeq(Ahead, At + 1, Length)
  BY <1>2 DEF Tracked
<1>5. (stage = "index" \/ stage = "search") => At < Length /\ segments # <<>>
  BY <1>2, <1>3 DEF Tracked
<1>6. /\ stage = "index" => Wanted = <<Slash>>
      /\ stage = "search" => Wanted # <<Slash>>
  BY <1>2 DEF Tracked
<1>7. stage = "walk" /\ segments # <<>> => (IsDir(Asked) <=> Kind(fs, Beyond) = "dir")
  BY <1>3, <1>4 DEF Asked, IsDir
<1>8. stage = "search" => (IsFile(Asked) <=> Kind(fs, Beyond) = "file")
  BY <1>3, <1>4, <1>5 DEF Asked, IsFile
<1>9. stage = "index" => (IsFile(Asked) <=> Kind(fs, IndexAt(Stand, index)) = "file")
  BY <1>4 DEF Asked, IsFile, IndexAt
<1>10. (At + 1) + 1 = At + 2
  BY <1>2
<1>11. CASE Descend
  <2>1. /\ stage = "walk" /\ segments # <<>> /\ Wanted # <<Slash>> /\ Kind(fs, Beyond) = "dir"
        /\ Shift(Wanted) /\ At < Length
    BY <1>3, <1>7, <1>11 DEF Descend, Walking
  <2>2. /\ segments' = SubSeq(Ahead, (At + 1) + 1, Length)
        /\ script' = Walked(Ahead, At + 1) /\ filename' = Beyond
    BY <1>1, <1>3, <1>10, <2>1, ShiftIs
  <2>3. CASE Concealed(BaseName(Beyond))
    <3>1. Return(NotFound)
      BY <1>11, <2>2, <2>3 DEF Descend
    <3>2. Ended(NotFound)
      BY <3>1 DEF Return, Ended
    <3> QED
      BY <1>1, <2>1, <2>3, <3>2 DEF Shuts
  <2>4. CASE ~Concealed(BaseName(Beyond))
    <3>1. Asking("walk") /\ UNCHANGED index
      BY <1>11, <2>2, <2>4 DEF Descend
    <3>2. Went(At + 1, "walk") /\ index' = index
      BY <2>2, <3>1 DEF Asking, Went, Beyond
    <3> QED
      BY <1>1, <2>1, <2>4, <3>2 DEF Enters
  <2> QED
    BY <2>3, <2>4
<1>12. CASE LeaveWalk
  <2>1. stage = "walk" /\ At < Length /\ Wanted # <<Slash>> /\ Kind(fs, Beyond) # "dir"
    BY <1>3, <1>7, <1>12 DEF LeaveWalk, Walking
  <2>2. Went(At, "search") /\ index' = index
    BY <1>4, <1>12 DEF LeaveWalk, Asking, Went, Stand
  <2> QED
    BY <1>1, <2>1, <2>2 DEF Leaves
<1>13. CASE MeetSlash
  <2>1. stage = "walk" /\ At < Length /\ Wanted = <<Slash>>
    BY <1>3, <1>13 DEF MeetSlash
  <2>2. Went(At, "index") /\ index' = 1
    BY <1>4, <1>13 DEF MeetSlash, Asking, Went, Stand
  <2> QED
    BY <1>1, <2>1, <2>2 DEF Meets
<1>14. CASE WalkEnds
  <2>1. stage = "walk" /\ At = Length
    BY <1>3, <1>14 DEF WalkEnds
  <2>2. Ended(Answer("listing", Stand, Walked(Ahead, At), <<>>))
    BY <1>4, <1>14 DEF WalkEnds, Return, Ended
  <2> QED
    BY <1>1, <2>1, <2>2 DEF Arrives
<1>15. ASSUME stage = "index" PROVE FlattenSeq(SubSeq(Ahead, At + 2, Length)) = <<>>
  <2>1. At < Length /\ Wanted = <<Slash>> /\ Normal(path_info)
    BY <1>1, <1>5, <1>6, <1>15, BaseFacts
  <2>2. At + 1 = Length
    <3>1. At # 0
      <4>1. Ahead[1] = <<>>
        BY <2>1, WayIs DEF Ahead
      <4> QED
        BY <2>1, <4>1 DEF Wanted
    <3>2. At + 1 \in 2..Length
      BY <1>2, <2>1, <3>1
    <3> QED
      BY <2>1, <3>2, WayIs DEF Ahead, Length, Wanted
  <2>3. At + 2 = Len(Ahead) + 1
    BY <1>2, <2>2 DEF Length
  <2> QED
    BY <1>2, <2>3, NothingLeft DEF Length
<1>16. ASSUME NEW text \in Paths, Serve(text), segments # <<>>
       PROVE  Ended(Served(Walked(Ahead, At) \o text,
                           FlattenSeq(SubSeq(Ahead, At + 2, Length))))
  <2>1. /\ segments' = SubSeq(Ahead, At + 2, Length)
        /\ script' = Walked(Ahead, At) \o text
        /\ filename' = ExpandPath(Root \o script')
    BY <1>1, <1>16, ShiftIs DEF Serve
  <2>2. answer' = Served(script', FlattenSeq(segments'))
    BY <1>16, <2>1 DEF Serve, Return, Served
  <2> QED
    BY <1>16, <2>1, <2>2 DEF Serve, Return, Ended
<1>17. CASE FindIndex
  <2>1. stage = "index" /\ index \in DOMAIN DirectoryIndex
        /\ Kind(fs, IndexAt(Stand, index)) = "file" /\ Serve(Indexed(index))
    BY <1>2, <1>9, <1>17 DEF FindIndex
  <2>2. Indexed(index) \in Paths
    BY <2>1, IndexIs, ProperIs
  <2>3. Ended(Served(Walked(Ahead, At) \o Indexed(index), <<>>))
    BY <1>5, <1>15, <1>16, <2>1, <2>2
  <2> QED
    BY <1>1, <1>5, <1>6, <2>1, <2>3 DEF Finds
<1>18. CASE MissIndex
  <2>1. stage = "index" /\ index \in DOMAIN DirectoryIndex
        /\ Kind(fs, IndexAt(Stand, index)) # "file"
    BY <1>2, <1>9, <1>18 DEF MissIndex
  <2>2. Went(At, "index") /\ index' = index + 1
    BY <1>4, <1>18 DEF MissIndex, Asking, Went, Stand
  <2> QED
    BY <1>1, <1>5, <1>6, <2>1, <2>2 DEF Misses
<1>19. CASE NoIndex
  <2>1. stage = "index" /\ index = Len(DirectoryIndex) + 1 /\ Shift(<<Slash>>)
        /\ segments # <<>> /\ Wanted = <<Slash>> /\ At < Length
    BY <1>2, <1>5, <1>6, <1>19 DEF NoIndex
  <2>2. /\ segments' = SubSeq(Ahead, At + 2, Length)
        /\ script' = Walked(Ahead, At + 1) /\ filename' = Beyond
    BY <1>1, <1>3, <2>1, ShiftIs
  <2>3. Beyond = Stand
    <3>1. Stand = ExpandPath(Root \o Walked(Ahead, At)) /\ Root \o Walked(Ahead, At) \in Paths
      BY <1>1, BaseFacts
    <3>2. Stand \in Paths /\ Cleaned(Stand) = Cleaned(Root \o Walked(Ahead, At))
          /\ Cleaned(Stand) \in Paths
      BY <3>1, ExpandFacts, CleanedTwice
    <3>3. Cleaned(Stand \o <<Slash>>) = Cleaned(Stand) \o <<>>
      BY <3>2, RootSlash, CleanedConcat
    <3>4. Cleaned(Stand \o <<Slash>>) = Cleaned(Root \o Walked(Ahead, At))
      BY <3>2, <3>3, PathsAlgebra
    <3> QED
      BY <1>3, <2>1, <3>1, <3>4 DEF ExpandPath
  <2>4. Ended(Answer("listing", Stand, Walked(Ahead, At + 1), <<>>))
    BY <1>15, <1>19, <2>1, <2>2, <2>3 DEF NoIndex, Return, Ended
  <2> QED
    BY <1>1, <2>1, <2>4 DEF Lists
<1>20. CASE SearchFile
  <2>1. stage = "search" /\ Kind(fs, Beyond) = "file" /\ Serve(Wanted)
        /\ segments # <<>> /\ At < Length /\ Wanted # <<Slash>> /\ Wanted \in Paths
    BY <1>3, <1>5, <1>6, <1>8, <1>20 DEF SearchFile
  <2>2. Walked(Ahead, At + 1) = Walked(Ahead, At) \o Wanted
    BY <1>1, <2>1, HeadIs
  <2>3. Ended(Served(Walked(Ahead, At + 1), FlattenSeq(SubSeq(Ahead, At + 2, Length))))
    BY <1>16, <2>1, <2>2
  <2> QED
    BY <1>1, <2>1, <2>3 DEF Serves
<1>21. CASE MissFile
  <2>1. stage = "search" /\ Kind(fs, Beyond) # "file" /\ At < Length /\ Wanted # <<Slash>>
    BY <1>5, <1>6, <1>8, <1>21 DEF MissFile
  <2>2. Ended(NotFound)
    BY <1>21 DEF MissFile, Return, Ended
  <2> QED
    BY <1>1, <2>1, <2>2 DEF Fails
<1> QED
  BY <1>11, <1>12, <1>13, <1>14, <1>17, <1>18, <1>19, <1>20, <1>21 DEF Resolve

-----------------------------------------------------------------------------
(* The base invariant.                                                     *)

\* A call about to begin, with a normalised path_info.
Starting ==
    /\ fs \in Trees
    /\ Normal(path_info)
    /\ segments = Dummied(path_info)
    /\ filename = Root /\ script = <<>>
    /\ stage = "walk" /\ index = 1 /\ answer = NotFound
    /\ truths = {Resolved(fs, path_info)}
    /\ changes = Untouched

LEMMA InitStarts == Init => Starting
BY PathInfosAssumption DEF Init, Starting

LEMMA BaseInit ==
    ASSUME Starting
    PROVE  BaseInv
<1>1. /\ Normal(path_info) /\ segments = Ahead
      /\ filename = Root /\ script = <<>>
  BY DEF Starting, Ahead
<1>2. Ahead \in Seq(Paths) /\ Length \in Nat /\ Length # 0
  BY <1>1, WayIs DEF Ahead, Length
<1>3. At = 0
  BY <1>1, <1>2 DEF At, Length
<1>4. SubSeq(Ahead, 0 + 1, Length) = Ahead
  <2>1. 0 + 1 = 1
    OBVIOUS
  <2> QED
    BY <1>2, <2>1, SubSeqFull DEF Length
<1>5. Walked(Ahead, 0) = <<>> /\ Place(Ahead, 0) = Root
  <2>1. 0 \in 0..Len(Ahead)
    BY <1>2 DEF Length
  <2> QED
    BY <1>1, <1>2, <2>1, WalkedIs, PlaceIs DEF Ahead
<1>6. Tracked
  <2>1. 0 \in 0..Length /\ 1..0 = {}
    BY <1>2
  <2>2. stage = "walk"
    BY DEF Starting
  <2> QED
    BY <1>1, <1>3, <1>4, <1>5, <2>1, <2>2 DEF Tracked, Clear, Stand
<1>7. 1 \in 1..(Len(DirectoryIndex) + 1)
  <2>1. Len(DirectoryIndex) \in Nat
    BY DirectoryIndexAssumption
  <2> QED
    BY <2>1
<1>8. Untouched \in Changes
  BY DEF Untouched, Changes
<1> QED
  BY <1>1, <1>6, <1>7, <1>8 DEF BaseInv, Starting, NotFound, Answer

\* Where the walk is after a move that goes on.
LEMMA WentIs ==
    ASSUME BaseInv, ~Done, NEW m \in 0..Length, NEW next, Went(m, next)
    PROVE  /\ Ahead' = Ahead /\ Length' = Length /\ At' = m
           /\ Stand' = Place(Ahead, m) /\ Beyond' = Place(Ahead, m + 1)
           /\ Wanted' = Ahead[m + 1]
           /\ stage' = next /\ answer' = answer /\ path_info' = path_info
           /\ fs' = fs /\ truths' = truths /\ changes' = changes
<1>1. /\ stage' = next /\ answer' = answer /\ path_info' = path_info
      /\ fs' = fs /\ truths' = truths /\ changes' = changes
      /\ segments' = SubSeq(Ahead, m + 1, Length)
  BY DEF Went, Still
<1>2. Ahead' = Ahead /\ Length' = Length
  BY <1>1 DEF Ahead, Length
<1>3. Ahead \in Seq(Paths) /\ Length \in Nat
  BY BaseFacts
<1>4. Len(segments') = Length - m
  <2>1. Len(SubSeq(Ahead, m + 1, Length)) = Length - m
    BY <1>3 DEF Length
  <2> QED
    BY <1>1, <2>1
<1>5. At' = m
  <2>1. At' = Length' - Len(segments')
    BY DEF At
  <2> QED
    BY <1>2, <1>3, <1>4, <2>1
<1> QED
  BY <1>1, <1>2, <1>5 DEF Stand, Beyond, Wanted

\* Nothing of the call moves while the file system changes.
LEMMA DisturbIs ==
    ASSUME Disturb
    PROVE  /\ ~Done /\ UNCHANGED call
           /\ Ahead' = Ahead /\ Length' = Length /\ At' = At
           /\ Stand' = Stand /\ Beyond' = Beyond /\ Wanted' = Wanted
           /\ (Tracked' <=> Tracked) /\ ~Done'
           /\ truths' = truths \cup {Resolved(fs', path_info)}
<1>1. /\ ~Done /\ UNCHANGED call
      /\ truths' = truths \cup {Resolved(fs', path_info)}
  BY DEF Disturb, Create, Unlink, MoveAway, Change, Done
<1>2. /\ segments' = segments /\ path_info' = path_info /\ stage' = stage
      /\ script' = script /\ filename' = filename
  BY <1>1 DEF call
<1>3. Ahead' = Ahead
  BY <1>2 DEF Ahead
<1>4. Length' = Length /\ At' = At
  BY <1>2, <1>3 DEF Length, At
<1>5. Stand' = Stand /\ Beyond' = Beyond /\ Wanted' = Wanted
  BY <1>3, <1>4 DEF Stand, Beyond, Wanted
<1>6. Tracked' <=> Tracked
  BY <1>2, <1>3, <1>4, <1>5 DEF Tracked, Clear
<1> QED
  BY <1>1, <1>2, <1>3, <1>4, <1>5, <1>6 DEF Done

\* What may come of a change.
Creates(path) ==
    /\ Kind(fs, path) = "none"
    /\ \A p : p # path => Kind(fs', p) = Kind(fs, p)
    /\ changes'.created = changes.created \cup {path}
    /\ changes'.removed = changes.removed /\ changes'.moved = changes.moved
Unlinks(path) ==
    /\ \A e \in Below(path) : Kind(fs, e) = "none"
    /\ \A p : Kind(fs', p) = IF p = path THEN "none" ELSE Kind(fs, p)
    /\ changes'.removed = changes.removed \cup {path}
    /\ changes'.created = changes.created /\ changes'.moved = changes.moved
MovesAway(path) ==
    /\ \A p : p # path /\ p \notin Below(path) => Kind(fs', p) = Kind(fs, p)
    /\ changes'.moved = changes.moved \cup {path}
    /\ changes'.created = changes.created /\ changes'.removed = changes.removed

LEMMA EffectsIs ==
    ASSUME BaseInv, Disturb
    PROVE  /\ changes' \in Changes
           /\ DOMAIN fs = Entries /\ DOMAIN fs' = Entries
           /\ \E path \in Entries : Creates(path) \/ Unlinks(path) \/ MovesAway(path)
<1>1. fs \in [Entries -> Kinds] /\ DOMAIN fs = Entries /\ changes \in Changes
  BY DEF BaseInv, Trees
<1>2. PICK path \in Entries : Create(path) \/ Unlink(path) \/ MoveAway(path)
  BY DEF Disturb
<1>3. \A tree \in [Entries -> Kinds] : \A p :
         Kind(tree, p) = IF p \in Entries THEN tree[p] ELSE "none"
  BY DEF Kind
<1>4. CASE Create(path)
  <2>1. /\ fs[path] = "none"
        /\ changes' = [changes EXCEPT !["created"] = @ \cup {path}]
        /\ \E kind \in {"dir", "file"} : fs' = [fs EXCEPT ![path] = kind]
    BY <1>4 DEF Create, Change
  <2>2. PICK kind \in {"dir", "file"} : fs' = [fs EXCEPT ![path] = kind]
    BY <2>1
  <2>3. /\ fs' \in [Entries -> Kinds] /\ DOMAIN fs' = Entries
        /\ \A e \in Entries : e # path => fs'[e] = fs[e]
    BY <1>1, <2>2 DEF Kinds
  <2>4. /\ changes' \in Changes /\ changes'.created = changes.created \cup {path}
        /\ changes'.removed = changes.removed /\ changes'.moved = changes.moved
    BY <1>1, <2>1 DEF Changes
  <2>5. Creates(path)
    <3>1. Kind(fs, path) = "none"
      BY <1>1, <1>3, <2>1
    <3>2. \A p : p # path => Kind(fs', p) = Kind(fs, p)
      BY <1>1, <1>3, <2>3
    <3> QED
      BY <2>4, <3>1, <3>2 DEF Creates
  <2> QED
    BY <1>1, <2>3, <2>4, <2>5
<1>5. CASE Unlink(path)
  <2>1. /\ \A e \in Below(path) : fs[e] = "none"
        /\ changes' = [changes EXCEPT !["removed"] = @ \cup {path}]
        /\ fs' = [fs EXCEPT ![path] = "none"]
    BY <1>5 DEF Unlink, Change
  <2>2. /\ fs' \in [Entries -> Kinds] /\ DOMAIN fs' = Entries /\ fs'[path] = "none"
        /\ \A e \in Entries : e # path => fs'[e] = fs[e]
    BY <1>1, <2>1 DEF Kinds
  <2>3. /\ changes' \in Changes /\ changes'.removed = changes.removed \cup {path}
        /\ changes'.created = changes.created /\ changes'.moved = changes.moved
    BY <1>1, <2>1 DEF Changes
  <2>4. \A e \in Below(path) : Kind(fs, e) = "none"
    BY <1>1, <1>3, <2>1
  <2>5. \A p : Kind(fs', p) = IF p = path THEN "none" ELSE Kind(fs, p)
    BY <1>1, <1>3, <2>2
  <2>6. Unlinks(path)
    BY <2>3, <2>4, <2>5 DEF Unlinks
  <2> QED
    BY <1>1, <2>2, <2>3, <2>6
<1>6. CASE MoveAway(path)
  <2>1. /\ changes' = [changes EXCEPT !["moved"] = @ \cup {path}]
        /\ fs' = Without(fs, {path})
    BY <1>6 DEF MoveAway, Change
  <2>2. fs' = [e \in Entries |-> IF e = path \/ e \in Below(path) THEN "none" ELSE fs[e]]
    BY <1>1, <2>1 DEF Without
  <2>3. /\ fs' \in [Entries -> Kinds] /\ DOMAIN fs' = Entries
        /\ \A e \in Entries : e # path /\ e \notin Below(path) => fs'[e] = fs[e]
    BY <1>1, <2>2 DEF Kinds
  <2>4. /\ changes' \in Changes /\ changes'.moved = changes.moved \cup {path}
        /\ changes'.created = changes.created /\ changes'.removed = changes.removed
    BY <1>1, <2>1 DEF Changes
  <2>5. \A p : p # path /\ p \notin Below(path) => Kind(fs', p) = Kind(fs, p)
    BY <1>1, <1>3, <2>3
  <2>6. MovesAway(path)
    BY <2>4, <2>5 DEF MovesAway
  <2> QED
    BY <1>1, <2>3, <2>4, <2>6
<1> QED
  BY <1>2, <1>4, <1>5, <1>6

LEMMA BaseStep ==
    ASSUME BaseInv, [FNext]_vars
    PROVE  BaseInv'
<1>1. CASE UNCHANGED vars
  <2>1. /\ segments' = segments /\ path_info' = path_info /\ stage' = stage
        /\ script' = script /\ filename' = filename /\ fs' = fs /\ index' = index
        /\ answer' = answer /\ changes' = changes
    BY <1>1 DEF vars, call
  <2>2. Ahead' = Ahead /\ Length' = Length /\ At' = At /\ Stand' = Stand /\ Wanted' = Wanted
    BY <2>1 DEF Ahead, Length, At, Stand, Wanted
  <2>3. Tracked' <=> Tracked
    BY <2>1, <2>2 DEF Tracked, Clear
  <2> QED
    BY <2>1, <2>3 DEF BaseInv, Done
<1>2. CASE Disturb
  <2>1. /\ ~Done /\ UNCHANGED call /\ ~Done' /\ (Tracked' <=> Tracked)
    BY <1>2, DisturbIs
  <2>2. fs' \in Trees
    <3>1. PICK path \in Entries : Create(path) \/ Unlink(path) \/ MoveAway(path)
      BY <1>2 DEF Disturb
    <3>2. fs \in Trees
      BY DEF BaseInv
    <3>3. CASE Create(path)
      <4>1. /\ fs[path] = "none" /\ Based(fs, path)
            /\ \E kind \in {"dir", "file"} : fs' = [fs EXCEPT ![path] = kind]
        BY <3>3 DEF Create, Change
      <4>2. PICK kind \in {"dir", "file"} : fs' = [fs EXCEPT ![path] = kind]
        BY <4>1
      <4>3. [fs EXCEPT ![path] = kind] \in Trees
        BY <3>2, <4>1, CreateKeepsTrees
      <4> QED
        BY <4>2, <4>3
    <3>4. CASE Unlink(path)
      BY <3>2, <3>4, UnlinkKeepsTrees DEF Unlink, Change
    <3>5. CASE MoveAway(path)
      BY <3>2, <3>5, MoveKeepsTrees DEF MoveAway, Change
    <3> QED
      BY <3>1, <3>3, <3>4, <3>5
  <2>3. changes' \in Changes
    BY <1>2, EffectsIs
  <2> QED
    BY <2>1, <2>2, <2>3 DEF BaseInv, call
<1>3. CASE Resolve
  <2>1. /\ ~Done
        /\ \/ Enters \/ Shuts \/ Leaves \/ Meets \/ Arrives
           \/ Finds \/ Misses \/ Lists \/ Serves \/ Fails
    BY <1>3, Moves
  <2>2. /\ Tracked /\ Length \in Nat /\ At \in Nat /\ At <= Length /\ At \in 0..Length
        /\ Len(DirectoryIndex) \in Nat /\ DOMAIN DirectoryIndex = 1..Len(DirectoryIndex)
    BY <2>1, BaseFacts
  <2>3. /\ fs \in Trees /\ Normal(path_info) /\ index \in 1..(Len(DirectoryIndex) + 1)
        /\ answer.kind \in {"missing", "file", "listing"} /\ changes \in Changes
    BY DEF BaseInv
  <2>4. ASSUME NEW m \in 0..Length, NEW next \in {"walk", "index", "search"}, Went(m, next),
               \A k \in 1..m : Ahead[k] # <<Slash>>, Clear(Ahead, m),
               index' \in 1..(Len(DirectoryIndex) + 1),
               next = "index" => m < Length /\ Ahead[m + 1] = <<Slash>>,
               next = "search" => m < Length /\ Ahead[m + 1] # <<Slash>>
        PROVE  BaseInv'
    <3>1. /\ Ahead' = Ahead /\ Length' = Length /\ At' = m
          /\ Stand' = Place(Ahead, m) /\ Wanted' = Ahead[m + 1]
          /\ stage' = next /\ answer' = answer /\ path_info' = path_info /\ fs' = fs
          /\ changes' = changes
      BY <2>1, <2>4, WentIs
    <3>2. /\ segments' = SubSeq(Ahead, m + 1, Length)
          /\ script' = Walked(Ahead, m) /\ filename' = Place(Ahead, m)
      BY <2>4 DEF Went
    <3>3. Clear(Ahead', At')
      BY <2>4, <3>1
    <3>4. Tracked'
      BY <2>4, <3>1, <3>2, <3>3 DEF Tracked
    <3> QED
      BY <2>3, <2>4, <3>1, <3>4 DEF BaseInv
  <2>5. ASSUME NEW result, Ended(result), result.kind \in {"missing", "file", "listing"}
        PROVE  BaseInv'
    BY <2>3, <2>5 DEF BaseInv, Ended, Still, Done
  <2>6. /\ NotFound.kind = "missing"
        /\ \A f, s, i : Answer("listing", f, s, i).kind = "listing"
        /\ \A s, i : Served(s, i).kind \in {"missing", "file"}
    BY DEF NotFound, Answer, Served
  <2>7. (\A k \in 1..At : Ahead[k] # <<Slash>>) /\ Clear(Ahead, At)
    BY <2>2 DEF Tracked
  <2>8. CASE Enters
    <3>1. At + 1 \in 0..Length /\ \A k \in 1..(At + 1) : k = At + 1 \/ k \in 1..At
      BY <2>2, <2>8 DEF Enters
    <3>2. \A k \in 1..(At + 1) : Ahead[k] # <<Slash>>
      BY <2>7, <2>8, <3>1 DEF Enters, Wanted
    <3>3. Clear(Ahead, At + 1)
      BY <2>7, <2>8, <3>1 DEF Enters, Clear, Beyond
    <3> QED
      BY <2>3, <2>4, <2>8, <3>1, <3>2, <3>3 DEF Enters
  <2>9. CASE Leaves
    BY <2>2, <2>3, <2>4, <2>7, <2>9 DEF Leaves, Wanted
  <2>10. CASE Meets
    <3>1. 1 \in 1..(Len(DirectoryIndex) + 1)
      BY <2>2
    <3> QED
      BY <2>2, <2>4, <2>7, <2>10, <3>1 DEF Meets, Wanted
  <2>11. CASE Misses
    <3>1. index + 1 \in 1..(Len(DirectoryIndex) + 1)
      BY <2>2, <2>11 DEF Misses
    <3> QED
      BY <2>2, <2>4, <2>7, <2>11, <3>1 DEF Misses, Wanted
  <2>12. CASE Shuts \/ Arrives \/ Finds \/ Lists \/ Serves \/ Fails
    <3> HIDE DEF NotFound
    <3> QED
      BY <2>5, <2>6, <2>12 DEF Shuts, Arrives, Finds, Lists, Serves, Fails
  <2> QED
    BY <2>1, <2>8, <2>9, <2>10, <2>11, <2>12
<1> QED
  BY <1>1, <1>2, <1>3 DEF FNext

\* A walk in progress has left its path_info whole.
LEMMA BaseType ==
    ASSUME BaseInv
    PROVE  TypeOK
<1>1. ASSUME ~Done
      PROVE  /\ script \o FlattenSeq(segments) = path_info
             /\ filename = ExpandPath(Root \o script)
  <2>1. /\ Tracked /\ Normal(path_info) /\ Ahead \in Seq(Paths) /\ At \in 0..Length
        /\ Stand = ExpandPath(Root \o Walked(Ahead, At))
    BY <1>1, BaseFacts
  <2>2. FlattenSeq(Ahead) = path_info
    BY <2>1, WayIs DEF Ahead
  <2>3. Walked(Ahead, At) \o FlattenSeq(SubSeq(Ahead, At + 1, Length)) = FlattenSeq(Ahead)
    BY <2>1, WalkedIs DEF Length
  <2> QED
    BY <2>1, <2>2, <2>3 DEF Tracked
<1> QED
  BY <1>1 DEF BaseInv, TypeOK

-----------------------------------------------------------------------------
(* The answer under a file system that changes.                            *)

\* What has been asked would be answered the same by the tree: at a stage of
\* the resolution, n segments and i - 1 index names on.
AgreesAt(tree, segs, n, step, i) ==
    /\ Reach(tree, segs, n)
    /\ step = "index" => \A j \in 1..(i - 1) :
                            Kind(tree, IndexAt(Place(segs, n), j)) # "file"
    /\ step = "search" => Kind(tree, Place(segs, n + 1)) # "dir"
Agrees(tree) == AgreesAt(tree, Ahead, At, stage, index)

\* What a tree that keeps still answers is what the way calls for.
StillInv ==
    Touched \cap Way = {} =>
        IF Done THEN truths = {answer}
        ELSE truths = {Resolved(fs, path_info)} /\ Agrees(fs)

\* While only concealed entries come and go, the rest answers.
Masked(tree) == Without(tree, ConcealedEntries)
IndicesShown == \A i \in DOMAIN DirectoryIndex : ~Concealed(DirectoryIndex[i])
MaskedInv ==
    Touched \subseteq ConcealedEntries /\ IndicesShown =>
        IF Done THEN answer = Resolved(Masked(fs), path_info) ELSE Agrees(Masked(fs))

\* The listing of where the walk stands.
Listing == Answer("listing", Stand,
                  IF At = Length THEN Walked(Ahead, At) ELSE Walked(Ahead, At + 1), <<>>)

\* While entries are only added, what was a directory is one still; what has
\* not been found since has not been there at some moment of the call.
GrowInv ==
    changes.removed = {} /\ changes.moved = {} =>
        IF Done THEN answer \in truths \/ Overtaken
        ELSE /\ Resolved(fs, path_info) \in truths
             /\ Reach(fs, Ahead, At)
             /\ stage = "search" => Kind(fs, Beyond) = "file" \/ NotFound \in truths
             /\ stage = "index" =>
                   \/ Listing \in truths
                   \/ \E i \in index..Len(DirectoryIndex) :
                         Kind(fs, IndexAt(Stand, i)) = "file"

\* While entries are only unlinked, what was not found is not there; a directory
\* that has been is gone only after all there was in it.
ShrinkInv ==
    changes.created = {} /\ changes.moved = {} =>
        IF Done THEN answer \in truths
        ELSE /\ Resolved(fs, path_info) \in truths
             /\ \A k \in 1..At : Kind(fs, Place(Ahead, k)) # "file"
             /\ stage = "search" => Kind(fs, Beyond) # "dir"
             /\ stage = "index" => \A i \in 1..(index - 1) :
                                      Kind(fs, IndexAt(Stand, i)) # "file"
             /\ At # 0 /\ (At = Length \/ Wanted = <<Slash>>) =>
                   Kind(fs, Stand) = "dir" \/ Listing \in truths

-----------------------------------------------------------------------------
(* Resolving on, as a tree would have it.                                  *)

\* Where the tree answers the question at hand as the file system does - or is
\* silent about a name not to be disclosed -, the resolution goes on agreeing
\* with the tree, and ends with its answer.
LEMMA AgreesStep ==
    ASSUME BaseInv, Resolve, NEW tree, Agrees(tree),
           At < Length /\ Wanted # <<Slash>> =>
              \/ Kind(tree, Beyond) = Kind(fs, Beyond)
              \/ Kind(tree, Beyond) = "none" /\ Concealed(BaseName(Beyond)),
           At < Length /\ Wanted = <<Slash>> /\ index \in DOMAIN DirectoryIndex =>
              Kind(tree, IndexAt(Stand, index)) = Kind(fs, IndexAt(Stand, index))
    PROVE  IF Done' THEN answer' = Resolved(tree, path_info)
           ELSE AgreesAt(tree, Ahead', At', stage', index')
<1>1. /\ ~Done
      /\ \/ Enters \/ Shuts \/ Leaves \/ Meets \/ Arrives
         \/ Finds \/ Misses \/ Lists \/ Serves \/ Fails
  BY Moves
<1>2. /\ Tracked /\ Normal(path_info)
      /\ Length \in Nat /\ At \in Nat /\ At <= Length /\ At \in 0..Length
      /\ Len(DirectoryIndex) \in Nat /\ DOMAIN DirectoryIndex = 1..Len(DirectoryIndex)
      /\ index \in 1..(Len(DirectoryIndex) + 1)
      /\ fs \in Trees
  BY <1>1, BaseFacts DEF BaseInv
<1>3. Clear(Ahead, At)
  BY <1>2 DEF Tracked
<1>4. /\ Reach(tree, Ahead, At)
      /\ stage = "index" => \A j \in 1..(index - 1) : Kind(tree, IndexAt(Stand, j)) # "file"
      /\ stage = "search" => Kind(tree, Beyond) # "dir"
  BY DEF Agrees, AgreesAt, Stand, Beyond
<1> DEFINE HasIndex(i) == Kind(tree, IndexAt(Stand, i)) = "file"
           kind == Kind(tree, Beyond)
<1>5. /\ At = Length => Resolved(tree, path_info)
                           = Answer("listing", Stand, Walked(Ahead, At), <<>>)
      /\ At < Length /\ Wanted = <<Slash>> =>
            /\ (\A i \in DOMAIN DirectoryIndex : ~HasIndex(i)) =>
                  Resolved(tree, path_info)
                     = Answer("listing", Stand, Walked(Ahead, At + 1), <<>>)
            /\ \A i \in DOMAIN DirectoryIndex :
                  HasIndex(i) /\ (\A j \in 1..(i - 1) : ~HasIndex(j)) =>
                     Resolved(tree, path_info)
                        = Served(Walked(Ahead, At) \o Indexed(i), <<>>)
      /\ At < Length /\ Wanted # <<Slash>> =>
            /\ kind = "file" =>
                  Resolved(tree, path_info)
                     = Served(Walked(Ahead, At + 1),
                              FlattenSeq(SubSeq(Ahead, At + 2, Length)))
            /\ kind \notin {"dir", "file"} => Resolved(tree, path_info) = NotFound
            /\ kind = "dir" /\ ~Clear(Ahead, At + 1) =>
                  Resolved(tree, path_info) = NotFound
  BY <1>2, <1>3, <1>4, ResolvedIs DEF Ahead, Length, Stand, Beyond, Wanted
<1>6. ASSUME NEW m \in 0..Length, NEW next \in {"walk", "index", "search"}, Went(m, next),
             AgreesAt(tree, Ahead, m, next, index')
      PROVE  ~Done' /\ AgreesAt(tree, Ahead', At', stage', index')
  BY <1>1, <1>6, WentIs DEF Done
<1>7. ASSUME NEW result, Ended(result), result = Resolved(tree, path_info)
      PROVE  Done' /\ answer' = Resolved(tree, path_info)
  BY <1>7 DEF Ended, Done
<1>8. ASSUME Shuts \/ Enters \/ Leaves \/ Serves \/ Fails
      PROVE  /\ At < Length /\ Wanted # <<Slash>>
             /\ \/ kind = Kind(fs, Beyond)
                \/ kind = "none" /\ Concealed(BaseName(Beyond))
  <2>1. At < Length /\ Wanted # <<Slash>>
    BY <1>8, Zenon DEF Shuts, Enters, Leaves, Serves, Fails
  <2> QED
    BY <2>1
<1> HIDE DEF kind, HasIndex
<1>9. CASE Enters
  <2>1. Reach(tree, Ahead, At + 1)
    <3>1. kind = "dir"
      BY <1>8, <1>9 DEF Enters
    <3>2. \A k \in 1..(At + 1) : k = At + 1 \/ k \in 1..At
      BY <1>2
    <3> QED
      BY <1>4, <1>8, <1>9, <3>1, <3>2 DEF Reach, Beyond, Wanted, kind
  <2>2. At + 1 \in 0..Length
    BY <1>2, <1>9 DEF Enters
  <2>3. AgreesAt(tree, Ahead, At + 1, "walk", index')
    BY <2>1 DEF AgreesAt
  <2> QED
    BY <1>6, <1>9, <2>2, <2>3 DEF Enters
<1>10. CASE Leaves
  <2>1. kind # "dir"
    BY <1>8, <1>10 DEF Leaves
  <2>2. AgreesAt(tree, Ahead, At, "search", index')
    BY <1>4, <2>1 DEF AgreesAt, Beyond, kind
  <2> QED
    BY <1>2, <1>6, <1>10, <2>2 DEF Leaves
<1>11. CASE Meets
  <2>1. index' = 1 /\ 1..(1 - 1) = {}
    BY <1>11 DEF Meets
  <2>2. AgreesAt(tree, Ahead, At, "index", index')
    BY <1>4, <2>1 DEF AgreesAt
  <2> QED
    BY <1>2, <1>6, <1>11, <2>2 DEF Meets
<1>12. CASE Misses
  <2>1. stage = "index" /\ index' = index + 1 /\ ~HasIndex(index)
    BY <1>12 DEF Misses, HasIndex
  <2>2. \A j \in 1..(index' - 1) : j = index \/ j \in 1..(index - 1)
    BY <1>2, <2>1
  <2>3. \A j \in 1..(index' - 1) : Kind(tree, IndexAt(Place(Ahead, At), j)) # "file"
    BY <1>4, <2>1, <2>2 DEF HasIndex, Stand
  <2>4. AgreesAt(tree, Ahead, At, "index", index')
    BY <1>4, <2>3 DEF AgreesAt
  <2> QED
    BY <1>2, <1>6, <1>12, <2>4 DEF Misses
<1>13. CASE Shuts
  <2>1. ~Clear(Ahead, At + 1)
    <3>1. At + 1 \in 1..(At + 1)
      BY <1>2
    <3> QED
      BY <1>13, <3>1 DEF Shuts, Clear, Beyond
  <2>2. kind = "dir" \/ kind \notin {"dir", "file"}
    BY <1>8, <1>13 DEF Shuts
  <2>3. Resolved(tree, path_info) = NotFound
    BY <1>5, <1>8, <1>13, <2>1, <2>2
  <2> QED
    BY <1>7, <1>13, <2>3 DEF Shuts
<1>14. CASE Arrives
  BY <1>5, <1>7, <1>14 DEF Arrives
<1>15. CASE Finds
  <2>1. /\ stage = "index" /\ At < Length /\ Wanted = <<Slash>>
        /\ index \in DOMAIN DirectoryIndex /\ HasIndex(index)
        /\ \A j \in 1..(index - 1) : ~HasIndex(j)
    BY <1>4, <1>15 DEF Finds, HasIndex
  <2>2. Resolved(tree, path_info) = Served(Walked(Ahead, At) \o Indexed(index), <<>>)
    BY <1>5, <2>1
  <2> QED
    BY <1>7, <1>15, <2>2 DEF Finds
<1>16. CASE Lists
  <2>1. /\ stage = "index" /\ At < Length /\ Wanted = <<Slash>>
        /\ index = Len(DirectoryIndex) + 1
    BY <1>16 DEF Lists
  <2>2. \A i \in DOMAIN DirectoryIndex : ~HasIndex(i)
    <3>1. \A i \in DOMAIN DirectoryIndex : i \in 1..(index - 1)
      BY <1>2, <2>1
    <3> QED
      BY <1>4, <2>1, <3>1 DEF HasIndex
  <2>3. Resolved(tree, path_info) = Answer("listing", Stand, Walked(Ahead, At + 1), <<>>)
    BY <1>5, <2>1, <2>2
  <2> QED
    BY <1>7, <1>16, <2>3 DEF Lists
<1>17. CASE Serves
  <2>1. CASE kind = Kind(fs, Beyond)
    <3>1. kind = "file"
      BY <1>17, <2>1 DEF Serves
    <3> QED
      BY <1>5, <1>7, <1>8, <1>17, <3>1 DEF Serves
  <2>2. CASE kind = "none" /\ Concealed(BaseName(Beyond))
    <3>1. Resolved(tree, path_info) = NotFound
      BY <1>5, <1>8, <1>17, <2>2
    <3>2. \A left : Served(Walked(Ahead, At + 1), left) = NotFound
      BY <2>2 DEF Served, Beyond, Place
    <3> QED
      BY <1>7, <1>17, <3>1, <3>2 DEF Serves
  <2> QED
    BY <1>8, <1>17, <2>1, <2>2
<1>18. CASE Fails
  <2>1. Kind(fs, Beyond) # "file" /\ stage = "search"
    BY <1>18 DEF Fails
  <2>2. kind \notin {"dir", "file"}
    BY <1>4, <1>8, <1>18, <2>1 DEF kind
  <2>3. Resolved(tree, path_info) = NotFound
    BY <1>5, <1>8, <1>18, <2>2
  <2> QED
    BY <1>7, <1>18, <2>3 DEF Fails
<1> QED
  BY <1>1, <1>9, <1>10, <1>11, <1>12, <1>13, <1>14, <1>15, <1>16, <1>17, <1>18

\* A step of the resolution leaves the file system, what has happened to it and
\* the question alone; once there is an answer, nothing moves.
LEMMA ResolveIs ==
    ASSUME BaseInv, Resolve
    PROVE  /\ ~Done /\ fs' = fs /\ truths' = truths /\ changes' = changes
           /\ path_info' = path_info /\ Ahead' = Ahead /\ Length' = Length
<1>1. /\ ~Done
      /\ \/ Enters \/ Shuts \/ Leaves \/ Meets \/ Arrives
         \/ Finds \/ Misses \/ Lists \/ Serves \/ Fails
  BY Moves
<1>2. /\ fs' = fs /\ truths' = truths /\ changes' = changes /\ path_info' = path_info
  BY <1>1 DEF Enters, Shuts, Leaves, Meets, Arrives, Finds, Misses, Lists, Serves, Fails,
         Went, Ended, Still
<1> QED
  BY <1>1, <1>2 DEF Ahead, Length

LEMMA StillIs ==
    ASSUME UNCHANGED vars
    PROVE  /\ fs' = fs /\ truths' = truths /\ changes' = changes /\ path_info' = path_info
           /\ segments' = segments /\ stage' = stage /\ index' = index /\ answer' = answer
           /\ (Done' <=> Done)
           /\ Ahead' = Ahead /\ Length' = Length /\ At' = At
           /\ Stand' = Stand /\ Beyond' = Beyond /\ Wanted' = Wanted
<1>1. /\ fs' = fs /\ truths' = truths /\ changes' = changes /\ path_info' = path_info
      /\ segments' = segments /\ stage' = stage /\ index' = index /\ answer' = answer
  BY DEF vars, call
<1> QED
  BY <1>1 DEF Done, Ahead, Length, At, Stand, Beyond, Wanted

\* What is touched stays touched, and the rest stays as it is.
LEMMA TouchedIs ==
    ASSUME BaseInv, Disturb
    PROVE  Touched \subseteq Touched' /\ \A p : p \notin Touched' => Kind(fs', p) = Kind(fs, p)
<1>1. PICK path \in Entries : Creates(path) \/ Unlinks(path) \/ MovesAway(path)
  BY EffectsIs
<1> DEFINE Under(moved) == UNION {{p} \cup Below(p) : p \in moved}
<1>2. /\ Touched = changes.created \cup changes.removed \cup Under(changes.moved)
      /\ Touched' = changes'.created \cup changes'.removed \cup Under(changes'.moved)
  BY DEF Touched
<1>3. \A S, T : Under(S \cup T) = Under(S) \cup Under(T)
  OBVIOUS
<1>4. Under({path}) = {path} \cup Below(path)
  OBVIOUS
<1> HIDE DEF Under
<1>5. CASE Creates(path)
  BY <1>2, <1>5 DEF Creates
<1>6. CASE Unlinks(path)
  BY <1>2, <1>6 DEF Unlinks
<1>7. CASE MovesAway(path)
  BY <1>2, <1>3, <1>4, <1>7 DEF MovesAway
<1> QED
  BY <1>1, <1>5, <1>6, <1>7

-----------------------------------------------------------------------------
(* What happens elsewhere makes no difference.                             *)

\* Trees of the same depth and with the same names there answer the same.
LEMMA SameAnswer ==
    ASSUME NEW t, NEW u, NEW info, Normal(info), NEW n \in 0..Len(Dummied(info)),
           Depth(t, Dummied(info)) = n, Depth(u, Dummied(info)) = n,
           {i \in DOMAIN DirectoryIndex :
               Kind(t, IndexAt(Place(Dummied(info), n), i)) = "file"}
              = {i \in DOMAIN DirectoryIndex :
                    Kind(u, IndexAt(Place(Dummied(info), n), i)) = "file"},
           n < Len(Dummied(info)) => Kind(t, Place(Dummied(info), n + 1))
                                        = Kind(u, Place(Dummied(info), n + 1))
    PROVE  Resolved(t, info) = Resolved(u, info)
<1> DEFINE segs == Dummied(info)
           N == Len(segs)
           left == FlattenSeq(SubSeq(segs, n + 2, N))
           tIndices == {i \in DOMAIN DirectoryIndex :
                          Kind(t, IndexAt(Place(segs, n), i)) = "file"}
           uIndices == {i \in DOMAIN DirectoryIndex :
                          Kind(u, IndexAt(Place(segs, n), i)) = "file"}
           listing == Answer("listing", Place(segs, n), Walked(segs, n), <<>>)
<1>1. /\ ~Clear(segs, n) => Resolved(t, info) = NotFound
      /\ Clear(segs, n) /\ n = N => Resolved(t, info) = listing
      /\ Clear(segs, n) /\ n < N =>
            Resolved(t, info) =
               IF segs[n + 1] = <<Slash>>
               THEN IF tIndices # {}
                    THEN Served(Walked(segs, n) \o Indexed(Min(tIndices)), left)
                    ELSE Answer("listing", Place(segs, n), Walked(segs, n + 1), left)
               ELSE IF Kind(t, Place(segs, n + 1)) = "file"
                    THEN Served(Walked(segs, n + 1), left) ELSE NotFound
  BY ResolvedAt
<1>2. /\ ~Clear(segs, n) => Resolved(u, info) = NotFound
      /\ Clear(segs, n) /\ n = N => Resolved(u, info) = listing
      /\ Clear(segs, n) /\ n < N =>
            Resolved(u, info) =
               IF segs[n + 1] = <<Slash>>
               THEN IF uIndices # {}
                    THEN Served(Walked(segs, n) \o Indexed(Min(uIndices)), left)
                    ELSE Answer("listing", Place(segs, n), Walked(segs, n + 1), left)
               ELSE IF Kind(u, Place(segs, n + 1)) = "file"
                    THEN Served(Walked(segs, n + 1), left) ELSE NotFound
  BY ResolvedAt
<1>3. tIndices = uIndices /\ (n < N => Kind(t, Place(segs, n + 1)) = Kind(u, Place(segs, n + 1)))
  OBVIOUS
<1>4. n = N \/ n < N
  BY WayIs
<1> HIDE DEF segs, N, left, tIndices, uIndices, listing
<1> QED
  BY <1>1, <1>2, <1>3, <1>4

\* Only the kinds along the way decide.
LEMMA SameWay ==
    ASSUME NEW t, NEW u, NEW info, Normal(info),
           \A n \in DOMAIN Dummied(info) :
              LET place == Place(Dummied(info), n)
              IN  /\ Kind(t, place) = Kind(u, place)
                  /\ \A i \in DOMAIN DirectoryIndex :
                        Kind(t, IndexAt(place, i)) = Kind(u, IndexAt(place, i))
    PROVE  Resolved(t, info) = Resolved(u, info)
<1> DEFINE segs == Dummied(info)
           N == Len(segs)
           reached(tree) == {n \in DOMAIN segs :
                               \A k \in 1..n : /\ segs[k] # <<Slash>>
                                               /\ Kind(tree, Place(segs, k)) = "dir"}
           d == Depth(t, segs)
           indices(tree) == {i \in DOMAIN DirectoryIndex :
                               Kind(tree, IndexAt(Place(segs, d), i)) = "file"}
<1>1. segs \in Seq(Paths) /\ N \in Nat /\ N # 0 /\ DOMAIN segs = 1..N
  BY WayIs
<1>2. \A n \in 1..N :
         /\ Kind(t, Place(segs, n)) = Kind(u, Place(segs, n))
         /\ \A i \in DOMAIN DirectoryIndex :
               Kind(t, IndexAt(Place(segs, n), i)) = Kind(u, IndexAt(Place(segs, n), i))
  BY <1>1
<1>3. reached(t) = reached(u)
  <2>1. \A n \in 1..N : \A k \in 1..n : k \in 1..N
    BY <1>1
  <2> HIDE DEF segs, N
  <2> QED
    BY <1>1, <1>2, <2>1
<1>4. Depth(t, segs) = d /\ Depth(u, segs) = d
  BY <1>3 DEF Depth
<1>5. d \in 0..N
  <2>1. 0 \in 0..Len(segs) /\ Reach(t, segs, 0)
    BY <1>1 DEF Reach
  <2> QED
    BY <1>1, <2>1, DepthIs
<1>6. indices(t) = indices(u)
  <2>1. \E n \in 1..N : Place(segs, n) = Place(segs, d)
    <3>1. CASE d = 0
      <4>1. 0 \in 0..Len(Dummied(info)) /\ 1 \in 0..Len(Dummied(info)) /\ 1 \in 1..N
        BY <1>1
      <4>2. Place(Dummied(info), 0) = Root /\ Place(Dummied(info), 1) = Root
        BY <4>1, PlaceIs
      <4> QED
        BY <3>1, <4>1, <4>2
    <3>2. CASE d # 0
      BY <1>1, <1>5, <3>2
    <3> QED
      BY <3>1, <3>2
  <2> HIDE DEF d, segs, N
  <2> QED
    BY <1>2, <2>1
<1>7. d < N => Kind(t, Place(segs, d + 1)) = Kind(u, Place(segs, d + 1))
  <2>1. d < N => d + 1 \in 1..N
    BY <1>1, <1>5
  <2> QED
    BY <1>2, <2>1
<1> HIDE DEF d, N, segs, reached
<1> QED
  BY <1>4, <1>5, <1>6, <1>7, SameAnswer DEF N, segs

LEMMA StillStep ==
    ASSUME BaseInv, StillInv, [FNext]_vars
    PROVE  StillInv'
<1> SUFFICES ASSUME (Touched \cap Way = {})'
             PROVE  IF Done' THEN truths' = {answer'}
                    ELSE /\ truths' = {Resolved(fs', path_info')}
                         /\ AgreesAt(fs', Ahead', At', stage', index')
  BY DEF StillInv, Agrees
<1>1. Touched' \cap Way' = {}
  OBVIOUS
<1>2. CASE UNCHANGED vars
  <2>1. /\ fs' = fs /\ truths' = truths /\ changes' = changes /\ path_info' = path_info
        /\ segments' = segments /\ stage' = stage /\ index' = index /\ answer' = answer
        /\ (Done' <=> Done) /\ Ahead' = Ahead /\ At' = At
    BY <1>2, StillIs
  <2>2. Touched' = Touched /\ Way' = Way
    BY <2>1 DEF Touched, Way
  <2> QED
    BY <1>1, <2>1, <2>2 DEF StillInv, Agrees
<1>3. CASE Resolve
  <2>1. /\ ~Done /\ fs' = fs /\ truths' = truths /\ changes' = changes
        /\ path_info' = path_info
    BY <1>3, ResolveIs
  <2>2. Touched' = Touched /\ Way' = Way
    BY <2>1 DEF Touched, Way
  <2>3. truths = {Resolved(fs, path_info)} /\ Agrees(fs)
    BY <1>1, <2>1, <2>2 DEF StillInv
  <2>4. IF Done' THEN answer' = Resolved(fs, path_info)
        ELSE AgreesAt(fs, Ahead', At', stage', index')
    BY <1>3, <2>3, AgreesStep
  <2> QED
    BY <2>1, <2>3, <2>4
<1>4. CASE Disturb
  <2>1. /\ ~Done /\ UNCHANGED call /\ ~Done' /\ Ahead' = Ahead /\ At' = At
        /\ truths' = truths \cup {Resolved(fs', path_info)}
    BY <1>4, DisturbIs
  <2>2. stage' = stage /\ index' = index /\ path_info' = path_info
    BY <2>1 DEF call
  <2>3. Way' = Way
    BY <2>2 DEF Way
  <2>4. /\ Touched \subseteq Touched'
        /\ \A p \in Way : Kind(fs', p) = Kind(fs, p)
    BY <1>1, <1>4, <2>3, TouchedIs
  <2>5. truths = {Resolved(fs, path_info)} /\ Agrees(fs)
    BY <1>1, <2>1, <2>3, <2>4 DEF StillInv
  <2>6. /\ Normal(path_info) /\ Length \in Nat /\ Length # 0 /\ At \in 0..Length /\ Tracked
    BY <2>1, BaseFacts
  <2>7. DOMAIN Ahead = 1..Length /\ Ahead[1] = <<>>
    BY <2>6, WayIs DEF Ahead, Length
  <2>8. \A n \in 1..Length :
           /\ Place(Ahead, n) \in Way
           /\ \A i \in DOMAIN DirectoryIndex : IndexAt(Place(Ahead, n), i) \in Way
    BY <2>7 DEF Way, Ahead
  <2>9. Resolved(fs', path_info) = Resolved(fs, path_info)
    BY <2>4, <2>6, <2>7, <2>8, SameWay DEF Ahead
  <2>10. AgreesAt(fs', Ahead, At, stage, index)
    <3>1. /\ Reach(fs, Ahead, At)
          /\ stage = "index" => \A j \in 1..(index - 1) :
                                   Kind(fs, IndexAt(Stand, j)) # "file"
          /\ stage = "search" => Kind(fs, Beyond) # "dir"
      BY <2>5 DEF Agrees, AgreesAt, Stand, Beyond
    <3>2. Reach(fs', Ahead, At)
      <4>1. \A k \in 1..At : k \in 1..Length
        BY <2>6
      <4> QED
        BY <2>4, <2>8, <3>1, <4>1 DEF Reach
    <3>3. ASSUME stage = "index", NEW j \in 1..(index - 1)
          PROVE  Kind(fs', IndexAt(Stand, j)) # "file"
      <4>1. At \in 1..Length
        <5>1. At < Length /\ Wanted = <<Slash>>
          BY <2>6, <3>3 DEF Tracked
        <5>2. At # 0
          BY <2>7, <5>1 DEF Wanted
        <5> QED
          BY <2>6, <5>2
      <4>2. j \in DOMAIN DirectoryIndex
        <5>1. index \in 1..(Len(DirectoryIndex) + 1) /\ Len(DirectoryIndex) \in Nat
              /\ DOMAIN DirectoryIndex = 1..Len(DirectoryIndex)
          BY <2>1, BaseFacts DEF BaseInv
        <5> QED
          BY <3>3, <5>1
      <4> QED
        BY <2>4, <2>8, <3>1, <3>3, <4>1, <4>2 DEF Stand
    <3>4. ASSUME stage = "search" PROVE Kind(fs', Beyond) # "dir"
      <4>1. At + 1 \in 1..Length
        BY <2>6, <3>4 DEF Tracked
      <4> QED
        BY <2>4, <2>8, <3>1, <3>4, <4>1 DEF Beyond
    <3> QED
      BY <3>2, <3>3, <3>4 DEF AgreesAt, Stand, Beyond
  <2> QED
    BY <2>1, <2>2, <2>5, <2>9, <2>10
<1> QED
  BY <1>2, <1>3, <1>4 DEF FNext

\* Before the first question, everything agrees.
LEMMA AgreesInit ==
    ASSUME Starting
    PROVE  /\ BaseInv /\ ~Done /\ truths = {Resolved(fs, path_info)} /\ changes = Untouched
           /\ stage = "walk" /\ At = 0
           /\ \A tree : Agrees(tree)
<1>1. /\ BaseInv /\ stage = "walk" /\ segments = Ahead
      /\ truths = {Resolved(fs, path_info)} /\ changes = Untouched
  BY BaseInit DEF Starting, Ahead
<1>2. ~Done
  BY <1>1 DEF Done
<1>3. At = 0
  <2>1. Length \in Nat
    BY <1>1, <1>2, BaseFacts
  <2> QED
    BY <1>1, <2>1 DEF At, Length
<1>4. \A tree : Reach(tree, Ahead, At)
  BY <1>3 DEF Reach
<1> QED
  BY <1>1, <1>2, <1>3, <1>4 DEF Agrees, AgreesAt

-----------------------------------------------------------------------------
(* What is concealed is as if it were not there.                           *)

\* Expanding twice is expanding once.
LEMMA ExpandTwice == \A p \in Paths : ExpandPath(ExpandPath(p)) = ExpandPath(p)
<1> SUFFICES ASSUME NEW p \in Paths PROVE ExpandPath(ExpandPath(p)) = ExpandPath(p)
  OBVIOUS
<1>1. Cleaned(ExpandPath(p)) = Cleaned(p)
  BY ExpandFacts
<1> QED
  BY <1>1 DEF ExpandPath

\* Nothing concealed is at the path or above it.
Free(path) == \A g \in ConcealedEntries : g # path /\ ~Above(g, path)

LEMMA FreeRoot == Free(Root)
<1> SUFFICES ASSUME NEW g \in Entries, g # Root PROVE ~Above(g, Root)
  BY DEF Free, ConcealedEntries
<1> SUFFICES ASSUME Above(g, Root) PROVE FALSE
  OBVIOUS
<1>1. Above(Root, g)
  BY EntriesAssumption, BelowIs
<1>2. \A s \in Paths \ {<<>>} : \A t \in Paths \ {<<>>} :
         Above(s, t) /\ s # <<Slash>> => Len(s) < Len(t) /\ Len(s) >= 1 /\ Len(t) > 1
  <2> SUFFICES ASSUME NEW s \in Paths \ {<<>>}, NEW t \in Paths \ {<<>>},
                      IsPrefix(Append(s, Slash), t)
               PROVE  Len(s) < Len(t) /\ Len(s) >= 1 /\ Len(t) > 1
    BY DEF Above
  <2> DEFINE h == Append(s, Slash)
  <2>1. /\ s \in Seq(Nat) /\ t \in Seq(Nat) /\ Slash \in Nat /\ s # <<>>
    BY DEF Paths, Slash
  <2>2. h \in Seq(Nat) /\ Len(h) = Len(s) + 1 /\ Len(s) \in Nat /\ Len(s) >= 1
    BY <2>1
  <2>3. IsPrefix(h, t) /\ Len(t) \in Nat
    BY <2>1
  <2> HIDE DEF h
  <2>4. Len(h) <= Len(t)
    BY <2>1, <2>2, <2>3, PrefixIs
  <2> QED
    BY <2>2, <2>3, <2>4
<1>3. /\ g \in Paths \ {<<>>} /\ Root \in Paths \ {<<>>} /\ Len(g) \in Nat
      /\ Len(Root) \in Nat /\ Len(<<Slash>>) = 1
  <2>1. g \in Paths /\ g # <<>> /\ Root \in Paths /\ Root # <<>>
    BY EntryIs, RootFacts
  <2> QED
    BY <2>1 DEF Paths
<1>4. g # <<Slash>> => Len(g) < Len(Root) /\ Len(g) >= 1 /\ Len(Root) > 1
  BY <1>2, <1>3
<1>5. Root # <<Slash>> => Len(Root) < Len(g) /\ Len(Root) >= 1 /\ Len(g) > 1
  BY <1>1, <1>2, <1>3
<1>6. \A k, l \in Nat : ~(k < l /\ l < k) /\ ~(k = 1 /\ k > 1) /\ ~(k < 1 /\ k >= 1)
  OBVIOUS
<1>7. CASE g = <<Slash>>
  <2>1. Root # <<Slash>> /\ Len(g) = 1
    BY <1>3, <1>7
  <2> QED
    BY <1>3, <1>5, <1>6, <2>1
<1>8. CASE g # <<Slash>>
  BY <1>3, <1>4, <1>5, <1>6, <1>8
<1> QED
  BY <1>7, <1>8

\* A name that is shown, in a place that is.
LEMMA FreeStep ==
    ASSUME NEW p \in Paths, NEW x \in Proper, Free(ExpandPath(p)), ~Concealed(Tail(x))
    PROVE  Free(ExpandPath(p \o x))
<1> SUFFICES ASSUME NEW g \in ConcealedEntries
             PROVE  g # ExpandPath(p \o x) /\ ~Above(g, ExpandPath(p \o x))
  BY DEF Free
<1>1. g \in Entries /\ Concealed(BaseName(g))
  BY DEF ConcealedEntries
<1>2. g \in Paths /\ g # <<>>
  BY <1>1, EntryIs
<1>3. BaseName(ExpandPath(p \o x)) = Tail(x)
  BY Child
<1>4. g # ExpandPath(p) /\ ~Above(g, ExpandPath(p))
  BY DEF Free
<1>5. Above(g, ExpandPath(p \o x)) => g = ExpandPath(p) \/ Above(g, ExpandPath(p))
  BY <1>2, ChildBelow
<1> QED
  BY <1>1, <1>3, <1>4, <1>5

\* Where nothing is concealed, the mask changes nothing.
LEMMA MaskIs ==
    ASSUME NEW tree \in Trees
    PROVE  /\ \A p : Free(p) => Kind(Masked(tree), p) = Kind(tree, p)
           /\ \A p : p \in ConcealedEntries \/ p \notin Entries =>
                        Kind(Masked(tree), p) = "none"
<1> DEFINE Gone(e) == \E g \in ConcealedEntries : e = g \/ e \in Below(g)
<1>1. Masked(tree) = [e \in Entries |-> IF Gone(e) THEN "none" ELSE tree[e]]
      /\ DOMAIN tree = Entries
  BY DEF Masked, Without, Trees
<1>2. \A e \in Entries : Free(e) => ~Gone(e)
  BY BelowIs DEF Free
<1>3. \A e \in ConcealedEntries : Gone(e)
  OBVIOUS
<1>4. \A p : Kind(Masked(tree), p) =
                IF p \in Entries THEN IF Gone(p) THEN "none" ELSE tree[p] ELSE "none"
  <2> HIDE DEF Gone
  <2> QED
    BY <1>1 DEF Kind
<1> HIDE DEF Gone
<1> QED
  BY <1>1, <1>2, <1>3, <1>4 DEF Kind, ConcealedEntries

\* A way without concealed names is free.
LEMMA FreePlaces ==
    ASSUME NEW info, Normal(info), NEW n \in 0..Len(Dummied(info)),
           Clear(Dummied(info), n), \A k \in 1..n : Dummied(info)[k] # <<Slash>>
    PROVE  \A k \in 1..n : Free(Place(Dummied(info), k))
<1> DEFINE segs == Dummied(info)
           N == Len(segs)
           S == {k \in Nat : k + 1 <= n => Free(Place(segs, k + 1))}
<1>1. segs \in Seq(Paths) /\ N \in Nat /\ N # 0
  BY WayIs
<1>2. 0 \in S
  <2>1. 1 \in 0..Len(Dummied(info)) /\ 0 + 1 = 1
    BY <1>1
  <2>2. Place(segs, 1) = Root
    BY <2>1, PlaceIs
  <2> QED
    BY <2>1, <2>2, FreeRoot
<1>3. ASSUME NEW k \in Nat, k \in S PROVE k + 1 \in S
  <2> DEFINE m == k + 1
  <2> SUFFICES ASSUME m + 1 <= n PROVE Free(Place(segs, m + 1))
    OBVIOUS
  <2>1. m \in 0..N /\ m # 0 /\ m < N /\ m <= n /\ m + 1 \in 1..n
    BY <1>1
  <2>2. Free(Place(segs, m))
    BY <1>3, <2>1
  <2>3. segs[m + 1] # <<Slash>> /\ ~Concealed(BaseName(Place(segs, m + 1)))
    BY <2>1 DEF Clear
  <2> DEFINE p == Root \o Walked(segs, m)
  <2> HIDE DEF m
  <2>4. /\ p \in Paths /\ Place(segs, m) = ExpandPath(p)
        /\ Place(segs, m + 1) = ExpandPath(p \o segs[m + 1])
        /\ segs[m + 1] \in Proper
        /\ BaseName(Place(segs, m + 1)) = Tail(segs[m + 1])
    BY <2>1, <2>3, PlaceIs
  <2> HIDE DEF p, segs
  <2> QED
    BY <2>2, <2>3, <2>4, FreeStep
<1> HIDE DEF S, N
<1>4. Nat \subseteq S
  BY <1>2, <1>3, Induction
<1>5. ASSUME NEW k \in 1..n PROVE Free(Place(segs, k))
  <2>1. k - 1 \in S /\ (k - 1) + 1 = k /\ k <= n
    BY <1>1, <1>4, <1>5 DEF N
  <2> QED
    BY <2>1 DEF S
<1> QED
  BY <1>5

LEMMA MaskedStep ==
    ASSUME BaseInv, MaskedInv, [FNext]_vars
    PROVE  MaskedInv'
<1> SUFFICES ASSUME Touched' \subseteq ConcealedEntries, IndicesShown
             PROVE  IF Done' THEN answer' = Resolved(Masked(fs'), path_info')
                    ELSE AgreesAt(Masked(fs'), Ahead', At', stage', index')
  BY DEF MaskedInv, Agrees, Masked, ConcealedEntries, IndicesShown
<1>1. CASE UNCHANGED vars
  <2>1. /\ fs' = fs /\ changes' = changes /\ path_info' = path_info
        /\ stage' = stage /\ index' = index /\ answer' = answer
        /\ (Done' <=> Done) /\ Ahead' = Ahead /\ At' = At
    BY <1>1, StillIs
  <2>2. Touched' = Touched
    BY <2>1 DEF Touched
  <2> QED
    BY <2>1, <2>2 DEF MaskedInv, Agrees
<1>2. CASE Resolve
  <2>1. /\ ~Done /\ fs' = fs /\ changes' = changes /\ path_info' = path_info
    BY <1>2, ResolveIs
  <2>2. Touched' = Touched
    BY <2>1 DEF Touched
  <2>3. Agrees(Masked(fs))
    BY <2>1, <2>2 DEF MaskedInv
  <2>4. /\ Normal(path_info) /\ Tracked /\ Length \in Nat /\ At \in 0..Length
        /\ Length # 0 /\ fs \in Trees
    BY <2>1, BaseFacts DEF BaseInv
  <2>5. \A k \in 1..At : Free(Place(Ahead, k))
    BY <2>4, FreePlaces DEF Tracked, Ahead, Length
  <2> DEFINE p == Root \o Walked(Ahead, At)
  <2>6. /\ p \in Paths /\ Stand = ExpandPath(p) /\ Stand \in Paths
        /\ At \in {0, 1} => Stand = Root
        /\ At < Length => Beyond = ExpandPath(p \o Wanted)
        /\ At < Length /\ At # 0 /\ Wanted # <<Slash>> =>
              /\ Wanted \in Proper /\ BaseName(Beyond) = Tail(Wanted) /\ Beyond # Root
    BY <2>4, PlaceIs DEF Ahead, Length, Stand, Beyond, Wanted
  <2> HIDE DEF p
  <2>7. Free(Stand)
    <3>1. At = 0 \/ At \in 1..At
      BY <2>4
    <3> QED
      BY <2>5, <2>6, <3>1, FreeRoot DEF Stand
  <2>8. ASSUME At < Length, Wanted # <<Slash>>
        PROVE  \/ Kind(Masked(fs), Beyond) = Kind(fs, Beyond)
               \/ Kind(Masked(fs), Beyond) = "none" /\ Concealed(BaseName(Beyond))
    <3>1. CASE At = 0
      <4>1. 1 \in 0..Len(Dummied(path_info)) /\ At + 1 = 1
        BY <2>4, <3>1 DEF Ahead, Length
      <4>2. Beyond = Root
        BY <2>4, <4>1, PlaceIs DEF Beyond, Ahead
      <4> QED
        BY <2>4, <4>2, FreeRoot, MaskIs
    <3>2. CASE At # 0
      <4>1. Wanted \in Proper /\ BaseName(Beyond) = Tail(Wanted) /\ Beyond # Root
        BY <2>6, <2>8, <3>2
      <4>2. CASE Concealed(BaseName(Beyond))
        <5>1. Beyond \in ConcealedEntries \/ Beyond \notin Entries
          BY <4>1, <4>2 DEF ConcealedEntries
        <5> QED
          BY <2>4, <4>2, <5>1, MaskIs
      <4>3. CASE ~Concealed(BaseName(Beyond))
        <5>1. Free(Beyond)
          BY <2>6, <2>7, <2>8, <4>1, <4>3, FreeStep
        <5> QED
          BY <2>4, <5>1, MaskIs
      <4> QED
        BY <4>2, <4>3
    <3> QED
      BY <3>1, <3>2
  <2>9. ASSUME index \in DOMAIN DirectoryIndex
        PROVE  Kind(Masked(fs), IndexAt(Stand, index)) = Kind(fs, IndexAt(Stand, index))
    <3>1. /\ Indexed(index) \in Proper /\ Tail(Indexed(index)) = DirectoryIndex[index]
          /\ ~Concealed(DirectoryIndex[index])
      BY <2>9, IndexIs DEF IndicesShown
    <3>2. ExpandPath(Stand) = Stand
      BY <2>6, ExpandTwice
    <3>3. Free(IndexAt(Stand, index))
      BY <2>6, <2>7, <3>1, <3>2, FreeStep DEF IndexAt
    <3> QED
      BY <2>4, <3>3, MaskIs
  <2>10. IF Done' THEN answer' = Resolved(Masked(fs), path_info)
         ELSE AgreesAt(Masked(fs), Ahead', At', stage', index')
    BY <1>2, <2>3, <2>8, <2>9, AgreesStep
  <2> QED
    BY <2>1, <2>10
<1>3. CASE Disturb
  <2>1. /\ ~Done /\ UNCHANGED call /\ ~Done' /\ Ahead' = Ahead /\ At' = At
    BY <1>3, DisturbIs
  <2>2. stage' = stage /\ index' = index
    BY <2>1 DEF call
  <2>3. /\ Touched \subseteq Touched'
        /\ \A p : p \notin Touched' => Kind(fs', p) = Kind(fs, p)
    BY <1>3, TouchedIs
  <2>4. DOMAIN fs = Entries /\ DOMAIN fs' = Entries
    BY <1>3, EffectsIs
  <2>5. Masked(fs') = Masked(fs)
    <3> DEFINE Gone(e) == \E g \in ConcealedEntries : e = g \/ e \in Below(g)
    <3>1. /\ Masked(fs') = [e \in Entries |-> IF Gone(e) THEN "none" ELSE fs'[e]]
          /\ Masked(fs) = [e \in Entries |-> IF Gone(e) THEN "none" ELSE fs[e]]
      BY <2>4 DEF Masked, Without
    <3>2. ASSUME NEW e \in Entries, ~Gone(e) PROVE fs'[e] = fs[e]
      <4>1. e \notin Touched'
        BY <3>2
      <4> QED
        BY <2>3, <2>4, <4>1 DEF Kind
    <3> HIDE DEF Gone
    <3> QED
      BY <3>1, <3>2
  <2>6. Agrees(Masked(fs))
    BY <2>1, <2>3 DEF MaskedInv
  <2> QED
    BY <2>1, <2>2, <2>5, <2>6 DEF Agrees
<1> QED
  BY <1>1, <1>2, <1>3 DEF FNext

-----------------------------------------------------------------------------
(* While the tree grows.                                                   *)

\* A bare slash is the last segment, and not the first.
LEMMA SlashIs ==
    ASSUME BaseInv, ~Done, At < Length, Wanted = <<Slash>>
    PROVE  /\ At # 0 /\ At + 1 = Length
           /\ path_info = Walked(Ahead, At) \o <<Slash>>
           /\ Walked(Ahead, At + 1) = path_info
           /\ path_info # <<>> /\ Last(path_info) = Slash
           /\ Front(path_info) = Walked(Ahead, At)
           /\ Beyond = Stand
<1>1. /\ Normal(path_info) /\ Ahead \in Seq(Paths) /\ Length \in Nat
      /\ At \in Nat /\ At \in 0..Length /\ Walked(Ahead, At) \in Paths
      /\ Root \o Walked(Ahead, At) \in Paths
      /\ Stand = ExpandPath(Root \o Walked(Ahead, At))
  BY BaseFacts
<1>2. /\ Ahead[1] = <<>> /\ FlattenSeq(Ahead) = path_info
      /\ \A k \in 2..Length : Ahead[k] = <<Slash>> => k = Length
  BY <1>1, WayIs DEF Ahead, Length
<1>3. At # 0
  BY <1>2 DEF Wanted
<1>4. At + 1 = Length
  <2>1. At + 1 \in 2..Length
    BY <1>1, <1>3
  <2> QED
    BY <1>2, <2>1 DEF Wanted
<1> DEFINE w == Walked(Ahead, At)
<1>5. Walked(Ahead, At + 1) = w \o <<Slash>>
  BY <1>1, WalkedIs DEF Length, Wanted
<1>6. Walked(Ahead, At + 1) = path_info
  <2>1. At + 1 \in 0..Len(Ahead) /\ (At + 1) + 1 = Len(Ahead) + 1
    BY <1>1, <1>4 DEF Length
  <2>2. /\ Walked(Ahead, At + 1) \in Paths
        /\ Walked(Ahead, At + 1) \o FlattenSeq(SubSeq(Ahead, (At + 1) + 1, Len(Ahead)))
              = FlattenSeq(Ahead)
    BY <1>1, <2>1, WalkedIs
  <2>3. FlattenSeq(SubSeq(Ahead, (At + 1) + 1, Len(Ahead))) = <<>>
    BY <1>1, <2>1, NothingLeft
  <2> QED
    BY <1>2, <2>2, <2>3, PathsAlgebra
<1>7. /\ w \o <<Slash>> # <<>> /\ Last(w \o <<Slash>>) = Slash
      /\ Front(w \o <<Slash>>) = w
  <2>1. w \in Seq(Nat) /\ Slash \in Nat
    BY <1>1 DEF Paths, Slash
  <2> HIDE DEF w
  <2> DEFINE s == w \o <<Slash>>
  <2>2. /\ Len(s) = Len(w) + 1 /\ s[Len(w) + 1] = Slash /\ Len(w) \in Nat
        /\ s \in Seq(Nat) /\ SubSeq(s, 1, Len(w)) = w
    BY <2>1
  <2> HIDE DEF s
  <2>3. s # <<>> /\ (Len(w) + 1) - 1 = Len(w)
    BY <2>2
  <2>4. s # <<>> /\ Last(s) = Slash /\ Front(s) = w
    BY <2>2, <2>3 DEF Last, Front
  <2> QED
    BY <2>4 DEF s
<1>8. Beyond = Stand
  <2>1. Stand \in Paths /\ Cleaned(Stand) = Cleaned(Root \o w) /\ Cleaned(Stand) \in Paths
    BY <1>1, ExpandFacts, CleanedTwice
  <2>2. Cleaned(Stand \o <<Slash>>) = Cleaned(Stand) \o <<>>
    BY <2>1, RootSlash, CleanedConcat
  <2>3. Cleaned(Stand \o <<Slash>>) = Cleaned(Root \o w)
    BY <2>1, <2>2, PathsAlgebra
  <2>4. Beyond = ExpandPath(Stand \o <<Slash>>)
    BY <1>1, PlaceIs DEF Beyond, Stand, Wanted, Ahead, Length
  <2> QED
    BY <1>1, <2>3, <2>4 DEF ExpandPath
<1> QED
  BY <1>3, <1>4, <1>5, <1>6, <1>7, <1>8

\* What the listing of a place is when the walk does not move.
LEMMA ListingStays ==
    ASSUME Stand' = Stand, Ahead' = Ahead, At' = At, Length' = Length
    PROVE  Listing' = Listing
BY DEF Listing

LEMMA GrowStep ==
    ASSUME BaseInv, GrowInv, [FNext]_vars
    PROVE  GrowInv'
<1> SUFFICES ASSUME changes'.removed = {}, changes'.moved = {}
             PROVE  IF Done' THEN answer' \in truths' \/ Overtaken'
                    ELSE /\ Resolved(fs', path_info') \in truths'
                         /\ Reach(fs', Ahead', At')
                         /\ stage' = "search" =>
                               Kind(fs', Beyond') = "file" \/ NotFound \in truths'
                         /\ stage' = "index" =>
                               \/ Listing' \in truths'
                               \/ \E i \in index'..Len(DirectoryIndex) :
                                     Kind(fs', IndexAt(Stand', i)) = "file"
  BY DEF GrowInv
<1>1. CASE UNCHANGED vars
  <2>1. /\ fs' = fs /\ truths' = truths /\ changes' = changes /\ path_info' = path_info
        /\ stage' = stage /\ index' = index /\ answer' = answer
        /\ (Done' <=> Done) /\ Ahead' = Ahead /\ At' = At /\ Stand' = Stand
        /\ Beyond' = Beyond /\ Length' = Length
    BY <1>1, StillIs
  <2>2. Listing' = Listing /\ (Overtaken' <=> Overtaken)
    BY <2>1, ListingStays DEF Overtaken
  <2> QED
    BY <2>1, <2>2 DEF GrowInv
<1>2. CASE Resolve
  <2>1. /\ ~Done /\ fs' = fs /\ truths' = truths /\ changes' = changes
        /\ path_info' = path_info
        /\ \/ Enters \/ Shuts \/ Leaves \/ Meets \/ Arrives
           \/ Finds \/ Misses \/ Lists \/ Serves \/ Fails
    BY <1>2, ResolveIs, Moves
  <2>2. /\ Resolved(fs, path_info) \in truths
        /\ Reach(fs, Ahead, At)
        /\ stage = "search" => Kind(fs, Beyond) = "file" \/ NotFound \in truths
        /\ stage = "index" => \/ Listing \in truths
                              \/ \E i \in index..Len(DirectoryIndex) :
                                    Kind(fs, IndexAt(Stand, i)) = "file"
    BY <2>1 DEF GrowInv
  <2>3. /\ Normal(path_info) /\ Tracked /\ Length \in Nat /\ At \in Nat /\ At \in 0..Length
        /\ Len(DirectoryIndex) \in Nat /\ DOMAIN DirectoryIndex = 1..Len(DirectoryIndex)
        /\ index \in 1..(Len(DirectoryIndex) + 1) /\ fs \in Trees
    BY <2>1, BaseFacts DEF BaseInv
  <2>4. Agrees(fs) => IF Done' THEN answer' \in truths'
                      ELSE Reach(fs', Ahead', At')
    BY <1>2, <2>1, <2>2, AgreesStep DEF AgreesAt
  <2>5. stage = "walk" => Agrees(fs)
    BY <2>2 DEF Agrees, AgreesAt
  <2>6. ASSUME NEW next, Went(At, next)
        PROVE  /\ Ahead' = Ahead /\ At' = At /\ Stand' = Stand /\ Beyond' = Beyond
               /\ stage' = next /\ Listing' = Listing
    <3>1. /\ Ahead' = Ahead /\ Length' = Length /\ At' = At /\ stage' = next
          /\ Stand' = Place(Ahead, At) /\ Beyond' = Place(Ahead, At + 1)
      BY <2>1, <2>3, <2>6, WentIs
    <3> QED
      BY <3>1, ListingStays DEF Stand, Beyond
  <2>7. CASE Enters
    <3>1. ~Done' /\ stage' = "walk" /\ stage = "walk"
      BY <2>7 DEF Enters, Went, Done
    <3> QED
      BY <2>1, <2>2, <2>4, <2>5, <3>1
  <2>8. CASE Leaves
    <3>1. /\ stage = "walk" /\ At < Length /\ Wanted # <<Slash>> /\ Kind(fs, Beyond) # "dir"
          /\ Went(At, "search")
      BY <2>8 DEF Leaves
    <3>2. ~Done' /\ stage' = "search" /\ Beyond' = Beyond
      BY <2>6, <3>1 DEF Done
    <3>3. Kind(fs, Beyond) = "file" \/ NotFound \in truths
      <4>1. CASE Kind(fs, Beyond) = "file"
        BY <4>1
      <4>2. CASE Kind(fs, Beyond) # "file"
        <5>1. Resolved(fs, path_info) = NotFound
          BY <2>2, <2>3, <3>1, <4>2, ResolvedIs DEF Ahead, Length, Wanted, Beyond
        <5> QED
          BY <2>2, <5>1
      <4> QED
        BY <4>1, <4>2
    <3> QED
      BY <2>1, <2>2, <2>4, <2>5, <3>1, <3>2, <3>3
  <2>9. CASE Meets
    <3>1. stage = "walk" /\ At < Length /\ Wanted = <<Slash>> /\ Went(At, "index") /\ index' = 1
      BY <2>9 DEF Meets
    <3>2. ~Done' /\ stage' = "index" /\ Stand' = Stand /\ Listing' = Listing
      BY <2>6, <3>1 DEF Done
    <3>3. CASE \E i \in 1..Len(DirectoryIndex) : Kind(fs, IndexAt(Stand, i)) = "file"
      BY <2>1, <2>2, <2>4, <2>5, <3>1, <3>2, <3>3
    <3>4. CASE \A i \in DOMAIN DirectoryIndex : Kind(fs, IndexAt(Stand, i)) # "file"
      <4>1. Clear(Ahead, At)
        BY <2>3 DEF Tracked
      <4>2. Resolved(fs, path_info) = Answer("listing", Stand, Walked(Ahead, At + 1), <<>>)
        BY <2>2, <2>3, <3>1, <3>4, <4>1, ResolvedIs DEF Ahead, Length, Wanted, Stand
      <4>3. Listing = Answer("listing", Stand, Walked(Ahead, At + 1), <<>>)
        BY <2>3, <3>1 DEF Listing
      <4> QED
        BY <2>1, <2>2, <2>4, <2>5, <3>1, <3>2, <4>2, <4>3
    <3> QED
      BY <2>3, <3>3, <3>4
  <2>10. CASE Misses
    <3>1. /\ stage = "index" /\ Kind(fs, IndexAt(Stand, index)) # "file"
          /\ Went(At, "index") /\ index' = index + 1
      BY <2>10 DEF Misses
    <3>2. ~Done' /\ stage' = "index" /\ Stand' = Stand /\ Listing' = Listing
          /\ Ahead' = Ahead /\ At' = At
      BY <2>6, <3>1 DEF Done
    <3>3. CASE Listing \in truths
      BY <2>1, <2>2, <3>1, <3>2, <3>3
    <3>4. CASE \E i \in index..Len(DirectoryIndex) : Kind(fs, IndexAt(Stand, i)) = "file"
      <4>1. PICK i \in index..Len(DirectoryIndex) : Kind(fs, IndexAt(Stand, i)) = "file"
        BY <3>4
      <4>2. i \in index'..Len(DirectoryIndex)
        <5>1. i # index
          BY <3>1, <4>1
        <5> QED
          BY <2>3, <3>1, <4>1, <5>1
      <4> QED
        BY <2>1, <2>2, <3>2, <4>1, <4>2
    <3> QED
      BY <2>2, <3>1, <3>3, <3>4
  <2>11. CASE Shuts \/ Arrives
    <3>1. Done' /\ stage = "walk"
      BY <2>11 DEF Shuts, Arrives, Ended, Done
    <3> QED
      BY <2>4, <2>5, <3>1
  <2>12. CASE Finds
    <3>1. /\ Done' /\ stage = "index" /\ index' = index /\ At < Length /\ Wanted = <<Slash>>
          /\ answer' = Served(Walked(Ahead, At) \o Indexed(index), <<>>)
      BY <2>12 DEF Finds, Ended, Done
    <3>2. CASE \A j \in 1..(index - 1) : Kind(fs, IndexAt(Stand, j)) # "file"
      <4>1. Agrees(fs)
        BY <2>2, <3>1, <3>2 DEF Agrees, AgreesAt, Stand
      <4> QED
        BY <2>4, <3>1, <4>1
    <3>3. CASE \E j \in 1..(index - 1) : Kind(fs, IndexAt(Stand, j)) = "file"
      <4>1. answer'.kind # "listing"
        BY <3>1 DEF Served, NotFound, Answer
      <4>2. /\ path_info # <<>> /\ Last(path_info) = Slash
            /\ Front(path_info) = Walked(Ahead, At)
        BY <2>1, <3>1, SlashIs
      <4>3. ExpandPath(Root \o Front(path_info)) = Stand
        BY <4>2 DEF Stand, Place
      <4>4. Overtaken'
        BY <2>1, <3>1, <3>3, <4>1, <4>2, <4>3 DEF Overtaken
      <4> QED
        BY <3>1, <4>4
    <3> QED
      BY <3>2, <3>3
  <2>13. CASE Lists
    <3>1. /\ Done' /\ stage = "index" /\ At < Length /\ index = Len(DirectoryIndex) + 1
          /\ answer' = Answer("listing", Stand, Walked(Ahead, At + 1), <<>>)
      BY <2>13 DEF Lists, Ended, Done
    <3>2. index..Len(DirectoryIndex) = {}
      BY <2>3, <3>1
    <3>3. Listing \in truths
      BY <2>2, <3>1, <3>2
    <3>4. Listing = answer'
      BY <2>3, <3>1 DEF Listing
    <3> QED
      BY <2>1, <3>1, <3>3, <3>4
  <2>14. CASE Serves
    <3>1. Done' /\ stage = "search" /\ Kind(fs, Beyond) = "file"
      BY <2>14 DEF Serves, Ended, Done
    <3>2. Agrees(fs)
      BY <2>2, <3>1 DEF Agrees, AgreesAt, Beyond
    <3> QED
      BY <2>4, <3>1, <3>2
  <2>15. CASE Fails
    <3>1. Done' /\ stage = "search" /\ Kind(fs, Beyond) # "file" /\ answer' = NotFound
      BY <2>15 DEF Fails, Ended, Done
    <3> QED
      BY <2>1, <2>2, <3>1
  <2> QED
    BY <2>1, <2>7, <2>8, <2>9, <2>10, <2>11, <2>12, <2>13, <2>14, <2>15
<1>3. CASE Disturb
  <2>1. /\ ~Done /\ UNCHANGED call /\ ~Done' /\ Ahead' = Ahead /\ At' = At
        /\ Stand' = Stand /\ Beyond' = Beyond /\ Length' = Length
        /\ truths' = truths \cup {Resolved(fs', path_info)}
    BY <1>3, DisturbIs
  <2>2. stage' = stage /\ index' = index /\ path_info' = path_info
    BY <2>1 DEF call
  <2>3. PICK path \in Entries : Creates(path) \/ Unlinks(path) \/ MovesAway(path)
    BY <1>3, EffectsIs
  <2>4. Creates(path)
    BY <2>3 DEF Unlinks, MovesAway
  <2>5. \A p : Kind(fs, p) # "none" => Kind(fs', p) = Kind(fs, p)
    BY <2>4 DEF Creates
  <2>6. changes.removed = {} /\ changes.moved = {}
    BY <2>4 DEF Creates
  <2>7. /\ Reach(fs, Ahead, At)
        /\ stage = "search" => Kind(fs, Beyond) = "file" \/ NotFound \in truths
        /\ stage = "index" => \/ Listing \in truths
                              \/ \E i \in index..Len(DirectoryIndex) :
                                    Kind(fs, IndexAt(Stand, i)) = "file"
    BY <2>1, <2>6 DEF GrowInv
  <2>8. Reach(fs', Ahead, At)
    BY <2>5, <2>7 DEF Reach
  <2>9. Listing' = Listing
    BY <2>1, ListingStays
  <2> QED
    BY <2>1, <2>2, <2>5, <2>7, <2>8, <2>9
<1> QED
  BY <1>1, <1>2, <1>3 DEF FNext

-----------------------------------------------------------------------------
(* While the tree shrinks.                                                 *)

\* Above what exists there are directories.
LEMMA AncestorsAre ==
    ASSUME NEW tree \in Trees, NEW info, Normal(info), NEW n \in 0..Len(Dummied(info)),
           \A k \in 1..n : Dummied(info)[k] # <<Slash>>,
           n # 0, Kind(tree, Place(Dummied(info), n)) # "none"
    PROVE  \A k \in 1..(n - 1) : Kind(tree, Place(Dummied(info), k)) = "dir"
<1> DEFINE segs == Dummied(info)
           N == Len(segs)
           kind(k) == Kind(tree, Place(segs, k))
           S == {m \in Nat : m + 1 <= n /\ kind(m + 1) # "none"
                                => \A k \in 1..m : kind(k) = "dir"}
<1>1. N \in Nat
  BY WayIs
<1>2. 0 \in S
  OBVIOUS
<1>3. ASSUME NEW m \in Nat, m \in S PROVE m + 1 \in S
  <2> SUFFICES ASSUME (m + 1) + 1 <= n, kind((m + 1) + 1) # "none"
               PROVE  \A k \in 1..(m + 1) : kind(k) = "dir"
    OBVIOUS
  <2> DEFINE l == m + 1
  <2>1. /\ l \in 0..N /\ l < N /\ l # 0 /\ l <= n
    BY <1>1
  <2>2. segs[l + 1] # <<Slash>>
    <3>1. l + 1 \in 1..n
      BY <1>1, <2>1
    <3> QED
      BY <3>1
  <2>3. Parent(Place(segs, l + 1)) = Place(segs, l) /\ Place(segs, l + 1) # Root
    BY <2>1, <2>2, PlaceIs
  <2>4. kind(l) = "dir"
    BY <2>3, TreeIs
  <2>5. \A k \in 1..m : kind(k) = "dir"
    BY <1>3, <2>1, <2>4
  <2>6. \A k \in 1..(m + 1) : k = l \/ k \in 1..m
    OBVIOUS
  <2> QED
    BY <2>4, <2>5, <2>6
<1> HIDE DEF S
<1>4. Nat \subseteq S
  BY <1>2, <1>3, Induction
<1>5. n - 1 \in S /\ (n - 1) + 1 = n
  BY <1>1, <1>4
<1> QED
  BY <1>1, <1>5 DEF S

\* A walk to what exists goes from directory to directory.
LEMMA ReachedIs ==
    ASSUME BaseInv, ~Done
    PROVE  /\ Kind(fs, Stand) = "dir" => Reach(fs, Ahead, At)
           /\ At < Length /\ Wanted # <<Slash>> /\ Kind(fs, Beyond) # "none" =>
                 Reach(fs, Ahead, At)
           /\ \A i \in DOMAIN DirectoryIndex :
                 Kind(fs, IndexAt(Stand, i)) # "none" =>
                    /\ Kind(fs, Stand) = "dir"
                    /\ IndexAt(Stand, i) \in Below(Stand)
<1>1. /\ Normal(path_info) /\ Tracked /\ Length \in Nat /\ At \in Nat /\ At \in 0..Length
      /\ fs \in Trees /\ Root \o Walked(Ahead, At) \in Paths
      /\ Stand = ExpandPath(Root \o Walked(Ahead, At))
  BY BaseFacts DEF BaseInv
<1>2. \A k \in 1..At : Ahead[k] # <<Slash>>
  BY <1>1 DEF Tracked
<1>3. ASSUME Kind(fs, Stand) = "dir" PROVE Reach(fs, Ahead, At)
  <2>1. CASE At = 0
    BY <2>1 DEF Reach
  <2>2. CASE At # 0
    <3>1. \A k \in 1..(At - 1) : Kind(fs, Place(Ahead, k)) = "dir"
      BY <1>1, <1>2, <1>3, <2>2, AncestorsAre DEF Ahead, Length, Stand
    <3>2. \A k \in 1..At : k = At \/ k \in 1..(At - 1)
      BY <1>1
    <3> QED
      BY <1>2, <1>3, <3>1, <3>2 DEF Reach, Stand
  <2> QED
    BY <2>1, <2>2
<1>4. ASSUME At < Length, Wanted # <<Slash>>, Kind(fs, Beyond) # "none"
      PROVE  Reach(fs, Ahead, At)
  <2> DEFINE n == At + 1
  <2>1. n \in 0..Len(Dummied(path_info)) /\ n # 0 /\ n - 1 = At
    BY <1>1, <1>4 DEF Ahead, Length
  <2>2. \A k \in 1..n : k = n \/ k \in 1..At
    BY <1>1
  <2>3. \A k \in 1..n : Dummied(path_info)[k] # <<Slash>>
    BY <1>2, <1>4, <2>2 DEF Wanted, Ahead
  <2> HIDE DEF n
  <2>4. \A k \in 1..(n - 1) : Kind(fs, Place(Dummied(path_info), k)) = "dir"
    <3>1. Kind(fs, Place(Dummied(path_info), n)) # "none"
      BY <1>4 DEF Beyond, Ahead, n
    <3> QED
      BY <1>1, <2>1, <2>3, <3>1, AncestorsAre
  <2> QED
    BY <1>2, <2>1, <2>4 DEF Reach, Ahead
<1>5. ASSUME NEW i \in DOMAIN DirectoryIndex, Kind(fs, IndexAt(Stand, i)) # "none"
      PROVE  Kind(fs, Stand) = "dir" /\ IndexAt(Stand, i) \in Below(Stand)
  <2> DEFINE q == Root \o Walked(Ahead, At)
             e == IndexAt(Stand, i)
  <2>1. Indexed(i) \in Proper /\ Indexed(i) \in Paths /\ q \in Paths /\ Stand = ExpandPath(q)
    BY <1>1, IndexIs, ProperIs
  <2>2. e = ExpandPath(q \o Indexed(i))
    BY <2>1, ExpandStep DEF IndexAt
  <2>3. e # Root
    <3>1. Walked(Ahead, At) \in Paths
      BY BaseFacts
    <3> QED
      BY <2>1, <2>2, <3>1, UnderRoot
  <2> HIDE DEF q
  <2>4. Parent(e) = Stand /\ e # Stand /\ Above(Stand, e)
    BY <2>1, <2>2, Child, ChildBelow
  <2>5. e \in Entries /\ Kind(fs, Stand) = "dir"
    BY <1>1, <1>5, <2>3, <2>4, TreeIs
  <2> QED
    BY <2>4, <2>5, BelowIs
<1> QED
  BY <1>3, <1>4, <1>5

\* Where the way breaks off there is nothing, and so there is no answer.
LEMMA BrokenWay ==
    ASSUME BaseInv, ~Done, At < Length, Wanted # <<Slash>>, ~Reach(fs, Ahead, At),
           \A k \in 1..At : Kind(fs, Place(Ahead, k)) # "file"
    PROVE  Resolved(fs, path_info) = NotFound
<1>1. /\ Normal(path_info) /\ Tracked /\ Length \in Nat /\ At \in Nat /\ At \in 0..Length
  BY BaseFacts
<1>2. \A k \in 1..At : Ahead[k] # <<Slash>>
  BY <1>1 DEF Tracked
<1> DEFINE S == {k \in 1..At : Kind(fs, Place(Ahead, k)) # "dir"}
<1>3. S # {} /\ S \subseteq Nat
  BY <1>1, <1>2 DEF Reach
<1>4. PICK m \in S : \A k \in S : m <= k
  BY <1>3, LeastNatural
<1> DEFINE n == m - 1
<1>5. n \in 0..Len(Dummied(path_info)) /\ n + 1 = m /\ n < Length /\ n + 1 \in 1..At
  BY <1>1, <1>4 DEF Ahead, Length
<1>6. Reach(fs, Dummied(path_info), n)
  <2>1. \A k \in 1..n : k \in 1..At /\ ~(m <= k)
    BY <1>1, <1>4
  <2> QED
    BY <1>2, <1>4, <2>1 DEF Reach, Ahead
<1>7. Kind(fs, Place(Ahead, n + 1)) \notin {"dir", "file"} /\ Ahead[n + 1] # <<Slash>>
  BY <1>2, <1>4, <1>5
<1> HIDE DEF n
<1> QED
  BY <1>1, <1>5, <1>6, <1>7, ResolvedIs DEF Ahead, Length

LEMMA ShrinkStep ==
    ASSUME BaseInv, ShrinkInv, [FNext]_vars
    PROVE  ShrinkInv'
<1> DEFINE AtEnd == At # 0 /\ (At = Length \/ Wanted = <<Slash>>)
<1> SUFFICES ASSUME changes'.created = {}, changes'.moved = {}
             PROVE  IF Done' THEN answer' \in truths'
                    ELSE /\ Resolved(fs', path_info') \in truths'
                         /\ \A k \in 1..At' : Kind(fs', Place(Ahead', k)) # "file"
                         /\ stage' = "search" => Kind(fs', Beyond') # "dir"
                         /\ stage' = "index" =>
                               \A i \in 1..(index' - 1) : Kind(fs', IndexAt(Stand', i)) # "file"
                         /\ At' # 0 /\ (At' = Length' \/ Wanted' = <<Slash>>) =>
                               Kind(fs', Stand') = "dir" \/ Listing' \in truths'
  BY DEF ShrinkInv
<1>1. CASE UNCHANGED vars
  <2>1. /\ fs' = fs /\ truths' = truths /\ changes' = changes /\ path_info' = path_info
        /\ stage' = stage /\ index' = index /\ answer' = answer
        /\ (Done' <=> Done) /\ Ahead' = Ahead /\ At' = At /\ Stand' = Stand
        /\ Beyond' = Beyond /\ Length' = Length /\ Wanted' = Wanted
    BY <1>1, StillIs
  <2>2. Listing' = Listing
    BY <2>1, ListingStays
  <2> QED
    BY <2>1, <2>2 DEF ShrinkInv
<1>2. CASE Resolve
  <2>1. /\ ~Done /\ fs' = fs /\ truths' = truths /\ changes' = changes
        /\ path_info' = path_info
        /\ \/ Enters \/ Shuts \/ Leaves \/ Meets \/ Arrives
           \/ Finds \/ Misses \/ Lists \/ Serves \/ Fails
    BY <1>2, ResolveIs, Moves
  <2>2. /\ Resolved(fs, path_info) \in truths
        /\ \A k \in 1..At : Kind(fs, Place(Ahead, k)) # "file"
        /\ stage = "search" => Kind(fs, Beyond) # "dir"
        /\ stage = "index" => \A i \in 1..(index - 1) : Kind(fs, IndexAt(Stand, i)) # "file"
        /\ AtEnd => Kind(fs, Stand) = "dir" \/ Listing \in truths
    BY <2>1 DEF ShrinkInv
  <2>3. /\ Normal(path_info) /\ Tracked /\ Length \in Nat /\ At \in Nat /\ At \in 0..Length
        /\ Length # 0
        /\ Len(DirectoryIndex) \in Nat /\ DOMAIN DirectoryIndex = 1..Len(DirectoryIndex)
        /\ index \in 1..(Len(DirectoryIndex) + 1) /\ fs \in Trees
    BY <2>1, BaseFacts DEF BaseInv
  <2>4. Reach(fs, Ahead, At) =>
           IF Done' THEN answer' \in truths'
           ELSE AgreesAt(fs, Ahead', At', stage', index')
    <3>1. Reach(fs, Ahead, At) => Agrees(fs)
      BY <2>2 DEF Agrees, AgreesAt, Stand, Beyond
    <3> QED
      BY <1>2, <2>1, <2>2, <3>1, AgreesStep
  <2>5. ASSUME NEW next, Went(At, next)
        PROVE  /\ Ahead' = Ahead /\ At' = At /\ Stand' = Stand /\ Beyond' = Beyond
               /\ Wanted' = Wanted /\ Length' = Length
               /\ stage' = next /\ Listing' = Listing
    <3>1. /\ Ahead' = Ahead /\ Length' = Length /\ At' = At /\ stage' = next
          /\ Stand' = Place(Ahead, At) /\ Beyond' = Place(Ahead, At + 1)
          /\ Wanted' = Ahead[At + 1]
      BY <2>1, <2>3, <2>5, WentIs
    <3> QED
      BY <3>1, ListingStays DEF Stand, Beyond, Wanted
  <2>6. CASE Enters
    <3>1. /\ At < Length /\ Wanted # <<Slash>> /\ Kind(fs, Beyond) = "dir"
          /\ Went(At + 1, "walk")
      BY <2>6 DEF Enters
    <3>2. At + 1 \in 0..Length
      BY <2>3, <3>1
    <3>3. /\ ~Done' /\ stage' = "walk" /\ Ahead' = Ahead /\ At' = At + 1
          /\ Stand' = Beyond
      BY <2>1, <3>1, <3>2, WentIs DEF Done, Beyond
    <3>4. \A k \in 1..(At + 1) : k = At + 1 \/ k \in 1..At
      BY <2>3
    <3>5. \A k \in 1..At' : Kind(fs', Place(Ahead', k)) # "file"
      BY <2>1, <2>2, <3>1, <3>3, <3>4 DEF Beyond
    <3> QED
      BY <2>1, <2>2, <3>1, <3>3, <3>5
  <2>7. CASE Leaves
    <3>1. Went(At, "search") /\ Kind(fs, Beyond) # "dir"
      BY <2>7 DEF Leaves
    <3>2. ~Done' /\ stage' = "search"
      BY <2>5, <3>1 DEF Done
    <3> QED
      BY <2>1, <2>2, <2>5, <3>1, <3>2
  <2>8. CASE Meets
    <3>1. Went(At, "index") /\ index' = 1
      BY <2>8 DEF Meets
    <3>2. ~Done' /\ stage' = "index" /\ 1..(index' - 1) = {}
      BY <2>5, <3>1 DEF Done
    <3> QED
      BY <2>1, <2>2, <2>5, <3>1, <3>2
  <2>9. CASE Misses
    <3>1. /\ Went(At, "index") /\ index' = index + 1 /\ stage = "index"
          /\ Kind(fs, IndexAt(Stand, index)) # "file"
      BY <2>9 DEF Misses
    <3>2. ~Done' /\ stage' = "index"
      BY <2>5, <3>1 DEF Done
    <3>3. \A i \in 1..(index' - 1) : i = index \/ i \in 1..(index - 1)
      BY <2>3, <3>1
    <3>4. \A i \in 1..(index' - 1) : Kind(fs, IndexAt(Stand, i)) # "file"
      BY <2>2, <3>1, <3>3
    <3> QED
      BY <2>1, <2>2, <2>5, <3>1, <3>2, <3>4
  <2>10. CASE Shuts
    <3>1. /\ Done' /\ At < Length /\ Wanted # <<Slash>> /\ Kind(fs, Beyond) # "none"
      BY <2>10 DEF Shuts, Ended, Done
    <3> QED
      BY <2>1, <2>4, <3>1, ReachedIs
  <2>11. CASE Arrives
    <3>1. /\ Done' /\ At = Length /\ answer' = Answer("listing", Stand, Walked(Ahead, At), <<>>)
      BY <2>11 DEF Arrives, Ended, Done
    <3>2. Listing = answer'
      BY <3>1 DEF Listing
    <3>3. Kind(fs, Stand) = "dir" \/ Listing \in truths
      BY <2>2, <2>3, <3>1
    <3> QED
      BY <2>1, <2>4, <3>1, <3>2, <3>3, ReachedIs
  <2>12. CASE Finds
    <3>1. /\ Done' /\ index \in DOMAIN DirectoryIndex
          /\ Kind(fs, IndexAt(Stand, index)) # "none"
      BY <2>12 DEF Finds, Ended, Done
    <3> QED
      BY <2>1, <2>4, <3>1, ReachedIs
  <2>13. CASE Lists
    <3>1. /\ Done' /\ At < Length /\ Wanted = <<Slash>>
          /\ answer' = Answer("listing", Stand, Walked(Ahead, At + 1), <<>>)
      BY <2>13 DEF Lists, Ended, Done
    <3>2. Listing = answer'
      BY <2>3, <3>1 DEF Listing
    <3>3. At # 0
      BY <2>1, <3>1, SlashIs
    <3>4. Kind(fs, Stand) = "dir" \/ Listing \in truths
      BY <2>2, <3>1, <3>3
    <3> QED
      BY <2>1, <2>4, <3>1, <3>2, <3>4, ReachedIs
  <2>14. CASE Serves
    <3>1. /\ Done' /\ At < Length /\ Wanted # <<Slash>> /\ Kind(fs, Beyond) # "none"
      BY <2>14 DEF Serves, Ended, Done
    <3> QED
      BY <2>1, <2>4, <3>1, ReachedIs
  <2>15. CASE Fails
    <3>1. Done' /\ At < Length /\ Wanted # <<Slash>> /\ answer' = NotFound
      BY <2>15 DEF Fails, Ended, Done
    <3>2. CASE Reach(fs, Ahead, At)
      BY <2>4, <3>1, <3>2
    <3>3. CASE ~Reach(fs, Ahead, At)
      <4>1. Resolved(fs, path_info) = NotFound
        BY <2>1, <2>2, <3>1, <3>3, BrokenWay
      <4> QED
        BY <2>1, <2>2, <3>1, <4>1
    <3> QED
      BY <3>2, <3>3
  <2> QED
    BY <2>1, <2>6, <2>7, <2>8, <2>9, <2>10, <2>11, <2>12, <2>13, <2>14, <2>15
<1>3. CASE Disturb
  <2>1. /\ ~Done /\ UNCHANGED call /\ ~Done' /\ Ahead' = Ahead /\ At' = At
        /\ Stand' = Stand /\ Beyond' = Beyond /\ Length' = Length /\ Wanted' = Wanted
        /\ truths' = truths \cup {Resolved(fs', path_info)}
    BY <1>3, DisturbIs
  <2>2. stage' = stage /\ index' = index /\ path_info' = path_info
    BY <2>1 DEF call
  <2>3. PICK path \in Entries : Creates(path) \/ Unlinks(path) \/ MovesAway(path)
    BY <1>3, EffectsIs
  <2>4. Unlinks(path)
    BY <2>3 DEF Creates, MovesAway
  <2>5. /\ \A p : Kind(fs', p) \in {Kind(fs, p), "none"}
        /\ \A p : p # path => Kind(fs', p) = Kind(fs, p)
        /\ \A e \in Below(path) : Kind(fs, e) = "none"
    BY <2>4 DEF Unlinks
  <2>6. changes.created = {} /\ changes.moved = {}
    BY <2>4 DEF Unlinks
  <2>7. /\ Resolved(fs, path_info) \in truths
        /\ \A k \in 1..At : Kind(fs, Place(Ahead, k)) # "file"
        /\ stage = "search" => Kind(fs, Beyond) # "dir"
        /\ stage = "index" => \A i \in 1..(index - 1) : Kind(fs, IndexAt(Stand, i)) # "file"
        /\ AtEnd => Kind(fs, Stand) = "dir" \/ Listing \in truths
    BY <2>1, <2>6 DEF ShrinkInv
  <2>8. Listing' = Listing
    BY <2>1, ListingStays
  <2>9. ASSUME AtEnd PROVE Kind(fs', Stand) = "dir" \/ Listing \in truths
    <3>1. CASE Kind(fs', Stand) = "dir" \/ Listing \in truths
      BY <3>1
    <3>2. CASE Kind(fs', Stand) # "dir" /\ Kind(fs, Stand) = "dir"
      <4>1. path = Stand
        BY <2>5, <3>2
      <4>2. Reach(fs, Ahead, At)
        BY <2>1, <3>2, ReachedIs
      <4>3. \A i \in DOMAIN DirectoryIndex : Kind(fs, IndexAt(Stand, i)) # "file"
        <5> TAKE i \in DOMAIN DirectoryIndex
        <5>1. Kind(fs, IndexAt(Stand, i)) # "none" => IndexAt(Stand, i) \in Below(Stand)
          BY <2>1, ReachedIs
        <5> QED
          BY <2>5, <4>1, <5>1
      <4>4. /\ Normal(path_info) /\ Tracked /\ Length \in Nat /\ At \in 0..Length
            /\ (At # Length <=> At < Length)
        BY <2>1, BaseFacts
      <4>5. Clear(Ahead, At)
        BY <4>4 DEF Tracked
      <4>6. Resolved(fs, path_info) = Listing
        <5>1. CASE At = Length
          BY <4>2, <4>4, <4>5, <5>1, ResolvedIs DEF Ahead, Length, Stand, Listing
        <5>2. CASE At # Length
          <6>1. At < Length /\ Wanted = <<Slash>>
            BY <2>9, <4>4, <5>2
          <6>2. Resolved(fs, path_info)
                   = Answer("listing", Stand, Walked(Ahead, At + 1), <<>>)
            BY <4>2, <4>3, <4>4, <4>5, <6>1, ResolvedIs DEF Ahead, Length, Wanted, Stand
          <6> QED
            BY <5>2, <6>2 DEF Listing
        <5> QED
          BY <5>1, <5>2
      <4> QED
        BY <2>7, <4>6
    <3> QED
      BY <2>7, <2>9, <3>1, <3>2
  <2>10. /\ \A k \in 1..At : Kind(fs', Place(Ahead, k)) # "file"
         /\ stage = "search" => Kind(fs', Beyond) # "dir"
         /\ stage = "index" => \A i \in 1..(index - 1) : Kind(fs', IndexAt(Stand, i)) # "file"
    <3>1. \A p : Kind(fs', p) \in {"dir", "file"} => Kind(fs', p) = Kind(fs, p)
      BY <2>5
    <3> QED
      BY <2>7, <3>1
  <2> QED
    BY <2>1, <2>2, <2>8, <2>9, <2>10
<1> QED
  BY <1>1, <1>2, <1>3 DEF FNext

-----------------------------------------------------------------------------
(* What an answer is made of.                                              *)

\* Names that are shown.
Shown(path) ==
    \A name \in Range(ScanSegments(path)) \ {<<Slash>>} : ~Concealed(Tail(name))

LEMMA ShownStep ==
    ASSUME NEW p \in Paths, NEW x \in Segs, Shown(p),
           x # <<Slash>> => ~Concealed(Tail(x))
    PROVE  Shown(p \o x)
<1> DEFINE s == ScanSegments(p)
<1>1. s \in Seq(Segs) /\ ScanSegments(p \o x) = Append(s, x)
  BY FlattenScan, ScanAppend DEF Paths
<1>2. \A name \in Range(s) \ {<<Slash>>} : ~Concealed(Tail(name))
  BY DEF Shown
<1> HIDE DEF s
<1>3. Range(Append(s, x)) = Range(s) \cup {x}
  <2> DEFINE a == Append(s, x)
  <2>1. /\ DOMAIN s = 1..Len(s) /\ Len(s) \in Nat
        /\ DOMAIN a = 1..(Len(s) + 1) /\ a[Len(s) + 1] = x
        /\ \A k \in 1..Len(s) : a[k] = s[k]
    BY <1>1
  <2> HIDE DEF a
  <2>2. \A k \in 1..(Len(s) + 1) : k = Len(s) + 1 \/ k \in 1..Len(s)
    BY <2>1
  <2>3. Range(a) = {a[k] : k \in 1..(Len(s) + 1)} /\ Range(s) = {s[k] : k \in 1..Len(s)}
    BY <2>1 DEF Range
  <2>4. Len(s) + 1 \in 1..(Len(s) + 1) /\ \A k \in 1..Len(s) : k \in 1..(Len(s) + 1)
    BY <2>1
  <2> QED
    BY <2>1, <2>2, <2>3, <2>4 DEF a
<1> QED
  BY <1>1, <1>2, <1>3 DEF Shown

\* A way without concealed names shows its names.
LEMMA ShownWay ==
    ASSUME NEW info, Normal(info), NEW n \in 0..Len(Dummied(info)),
           Clear(Dummied(info), n), \A k \in 1..n : Dummied(info)[k] # <<Slash>>
    PROVE  Shown(Walked(Dummied(info), n))
<1> DEFINE segs == Dummied(info)
           N == Len(segs)
           S == {m \in Nat : m <= n => Shown(Walked(segs, m))}
<1>1. /\ segs \in Seq(Paths) /\ N \in Nat /\ segs[1] = <<>>
  BY WayIs
<1>2. Shown(<<>>)
  <2>1. Range(<<>>) = {}
    BY DEF Range
  <2> QED
    BY <2>1, ScanEmpty DEF Shown
<1> HIDE DEF segs, N
<1>3. 0 \in S
  <2>1. 0 \in 0..Len(segs)
    BY <1>1 DEF N
  <2>2. Walked(segs, 0) = <<>>
    BY <1>1, <2>1, WalkedIs
  <2> QED
    BY <1>2, <2>2
<1>4. ASSUME NEW m \in Nat, m \in S PROVE m + 1 \in S
  <2> SUFFICES ASSUME m + 1 <= n PROVE Shown(Walked(segs, m + 1))
    OBVIOUS
  <2>1. m \in 0..N /\ m < N /\ m <= n /\ m + 1 \in 1..n
    BY <1>1 DEF N, segs
  <2>2. /\ Walked(segs, m) \in Paths /\ Shown(Walked(segs, m))
        /\ Walked(segs, m + 1) = Walked(segs, m) \o segs[m + 1]
    BY <1>1, <1>4, <2>1, WalkedIs DEF N
  <2>3. CASE m = 0
    <3>1. Walked(segs, 0) = <<>> /\ 0 + 1 = 1
      BY <1>1, <2>1, WalkedIs DEF N
    <3>2. <<>> \o <<>> = <<>>
      BY PathsConcat, PathsAlgebra
    <3> QED
      BY <1>1, <1>2, <2>2, <2>3, <3>1, <3>2
  <2>4. CASE m # 0
    <3>1. segs[m + 1] # <<Slash>> /\ ~Concealed(BaseName(Place(segs, m + 1)))
      BY <2>1 DEF Clear, segs
    <3>2. segs[m + 1] \in Proper /\ BaseName(Place(segs, m + 1)) = Tail(segs[m + 1])
      BY <2>1, <2>4, <3>1, PlaceIs DEF segs, N
    <3> QED
      BY <2>2, <3>1, <3>2, ProperIs, ShownStep
  <2> QED
    BY <2>3, <2>4
<1> HIDE DEF S
<1>5. Nat \subseteq S
  BY <1>3, <1>4, Induction
<1>6. n \in S /\ n <= n
  BY <1>1, <1>5 DEF N, segs
<1> QED
  BY <1>6 DEF S, segs

\* The answer accounts for the path (AnswerAccountsForPath, of any answer).
Accounts(result, info) ==
    result.kind # "missing" =>
        /\ result.filename = ExpandPath(Root \o result.script)
        /\ IsPrefix(Root, result.filename)
        /\ Shown(result.script)
        /\ \/ result.script \o result.info = info
           \/ /\ Last(info) = Slash /\ result.info = <<>>
              /\ \E i \in DOMAIN DirectoryIndex :
                    result.script = Front(info) \o Indexed(i)

LEMMA ListingAccounts ==
    ASSUME NEW w \in Paths, Shown(w)
    PROVE  Accounts(Answer("listing", ExpandPath(Root \o w), w, <<>>), w)
<1>1. IsPrefix(Root, ExpandPath(Root \o w)) /\ w \o <<>> = w
  BY UnderRoot, PathsAlgebra
<1> QED
  BY <1>1 DEF Accounts, Answer

LEMMA ServedAccounts ==
    ASSUME NEW script_name \in Paths, NEW left, NEW info,
           ~Concealed(BaseName(ExpandPath(Root \o script_name))) => Shown(script_name),
           \/ script_name \o left = info
           \/ /\ Last(info) = Slash /\ left = <<>>
              /\ \E i \in DOMAIN DirectoryIndex : script_name = Front(info) \o Indexed(i)
    PROVE  Accounts(Served(script_name, left), info)
<1> DEFINE f == ExpandPath(Root \o script_name)
<1>1. IsPrefix(Root, f)
  BY UnderRoot
<1>2. CASE Concealed(BaseName(f))
  <2>1. Served(script_name, left).kind = "missing"
    BY <1>2 DEF Served, NotFound, Answer
  <2> QED
    BY <2>1 DEF Accounts
<1>3. CASE ~Concealed(BaseName(f))
  <2>1. Served(script_name, left) = Answer("file", f, script_name, left)
    BY <1>3 DEF Served
  <2>2. /\ Served(script_name, left).filename = f
        /\ Served(script_name, left).script = script_name
        /\ Served(script_name, left).info = left
    BY <2>1 DEF Answer
  <2> QED
    BY <1>1, <1>3, <2>2 DEF Accounts
<1> QED
  BY <1>2, <1>3

LEMMA AccountsStep ==
    ASSUME BaseInv, Resolve, Done'
    PROVE  Accounts(answer', path_info)
<1>1. /\ ~Done
      /\ \/ Enters \/ Shuts \/ Leaves \/ Meets \/ Arrives
         \/ Finds \/ Misses \/ Lists \/ Serves \/ Fails
  BY Moves
<1>2. /\ Shuts \/ Arrives \/ Finds \/ Lists \/ Serves \/ Fails
  BY <1>1 DEF Enters, Leaves, Meets, Misses, Went, Done
<1>3. /\ Normal(path_info) /\ Tracked /\ Length \in Nat /\ At \in Nat /\ At \in 0..Length
      /\ Ahead \in Seq(Paths)
      /\ Walked(Ahead, At) \in Paths /\ Root \o Walked(Ahead, At) \in Paths
      /\ Stand = ExpandPath(Root \o Walked(Ahead, At))
  BY <1>1, BaseFacts
<1>4. FlattenSeq(Ahead) = path_info
  BY <1>3, WayIs DEF Ahead
<1>5. Shown(Walked(Ahead, At))
  BY <1>3, ShownWay DEF Tracked, Ahead, Length
<1>6. \A n \in 0..Length :
         Walked(Ahead, n) \o FlattenSeq(SubSeq(Ahead, n + 1, Length)) = path_info
  BY <1>3, <1>4, WalkedIs DEF Length
<1>7. CASE Shuts \/ Fails
  <2>1. answer'.kind = "missing"
    BY <1>7 DEF Shuts, Fails, Ended, NotFound, Answer
  <2> QED
    BY <2>1 DEF Accounts
<1>8. CASE Arrives
  <2>1. /\ At = Length
        /\ answer' = Answer("listing", ExpandPath(Root \o Walked(Ahead, At)),
                            Walked(Ahead, At), <<>>)
    BY <1>3, <1>8 DEF Arrives, Ended
  <2>2. Walked(Ahead, At) = path_info
    <3>1. FlattenSeq(SubSeq(Ahead, At + 1, Length)) = <<>>
      BY <1>3, <2>1, NothingLeft DEF Length
    <3>2. Walked(Ahead, At) \o <<>> = path_info
      BY <1>3, <1>6, <3>1
    <3> QED
      BY <1>3, <3>2, PathsAlgebra
  <2> QED
    BY <1>3, <1>5, <2>1, <2>2, ListingAccounts
<1>9. CASE Lists
  <2>1. /\ At < Length /\ Wanted = <<Slash>>
        /\ answer' = Answer("listing", Stand, Walked(Ahead, At + 1), <<>>)
    BY <1>9 DEF Lists, Ended
  <2>2. /\ Walked(Ahead, At + 1) = path_info /\ Beyond = Stand
        /\ path_info = Walked(Ahead, At) \o <<Slash>>
    BY <1>1, <2>1, SlashIs
  <2>3. Stand = ExpandPath(Root \o Walked(Ahead, At + 1))
    BY <2>2 DEF Beyond, Place
  <2>4. Shown(path_info) /\ path_info \in Paths
    BY <1>3, <1>5, <2>2, RootSlash, PathsConcat, ShownStep
  <2> QED
    BY <2>1, <2>2, <2>3, <2>4, ListingAccounts
<1>10. CASE Finds
  <2>1. /\ At < Length /\ Wanted = <<Slash>> /\ index \in DOMAIN DirectoryIndex
        /\ answer' = Served(Walked(Ahead, At) \o Indexed(index), <<>>)
    BY <1>10 DEF Finds, Ended
  <2>2. Last(path_info) = Slash /\ Front(path_info) = Walked(Ahead, At)
    BY <1>1, <2>1, SlashIs
  <2> DEFINE w == Walked(Ahead, At)
             x == Indexed(index)
  <2>3. x \in Proper /\ x \in Segs /\ x \in Paths /\ w \o x \in Paths
    <3>1. x \in Proper
      BY <2>1, IndexIs
    <3>2. x \in Segs /\ x \in Paths
      BY <3>1, ProperIs
    <3> QED
      BY <1>3, <3>1, <3>2, PathsConcat
  <2>4. BaseName(ExpandPath(Root \o (w \o x))) = Tail(x)
    <3>1. BaseName(ExpandPath((Root \o w) \o x)) = Tail(x)
      BY <1>3, <2>3, Child
    <3>2. (Root \o w) \o x = Root \o (w \o x)
      BY <1>3, <2>3, RootFacts, PathsAlgebra
    <3> QED
      BY <3>1, <3>2
  <2>5. ~Concealed(Tail(x)) => Shown(w \o x)
    BY <1>3, <1>5, <2>3, ShownStep
  <2>6. \E i \in DOMAIN DirectoryIndex : w \o x = Front(path_info) \o Indexed(i)
    BY <2>1, <2>2
  <2> HIDE DEF w, x
  <2>7. Accounts(Served(w \o x, <<>>), path_info)
    BY <2>2, <2>3, <2>4, <2>5, <2>6, ServedAccounts
  <2> QED
    BY <2>1, <2>7 DEF w, x
<1>11. CASE Serves
  <2> DEFINE w == Walked(Ahead, At + 1)
             left == FlattenSeq(SubSeq(Ahead, At + 2, Length))
  <2>1. At < Length /\ Wanted # <<Slash>> /\ answer' = Served(w, left)
    BY <1>11 DEF Serves, Ended
  <2>2. w \o left = path_info
    <3>1. At + 1 \in 0..Length /\ (At + 1) + 1 = At + 2
      BY <1>3, <2>1
    <3> QED
      BY <1>6, <3>1
  <2>3. w = Walked(Ahead, At) \o Wanted /\ Wanted \in Paths /\ w \in Paths
    <3>1. w = Walked(Ahead, At) \o Wanted
      BY <1>3, <2>1, WalkedIs DEF Length, Wanted
    <3>2. Wanted \in Paths
      BY <1>3, <2>1, PlaceIs DEF Ahead, Length, Wanted
    <3> QED
      BY <1>3, <3>1, <3>2, PathsConcat
  <2>4. ASSUME ~Concealed(BaseName(ExpandPath(Root \o w))) PROVE Shown(w)
    <3>1. CASE At = 0
      <4>1. Wanted = <<>>
        BY <1>3, <3>1, WayIs DEF Wanted, Ahead
      <4> QED
        BY <1>3, <1>5, <2>3, <4>1, PathsAlgebra
    <3>2. CASE At # 0
      <4>1. Wanted \in Proper /\ BaseName(Beyond) = Tail(Wanted)
        BY <1>3, <2>1, <3>2, PlaceIs DEF Ahead, Length, Wanted, Beyond
      <4>2. Beyond = ExpandPath(Root \o w)
        BY DEF Beyond, Place
      <4> QED
        BY <1>3, <1>5, <2>3, <2>4, <4>1, <4>2, ProperIs, ShownStep
    <3> QED
      BY <3>1, <3>2
  <2> HIDE DEF w, left
  <2> QED
    BY <2>1, <2>2, <2>3, <2>4, ServedAccounts
<1> QED
  BY <1>2, <1>7, <1>8, <1>9, <1>10, <1>11

-----------------------------------------------------------------------------
(* What a resolution promises, from one invariant.                         *)

Resolving ==
    /\ BaseInv /\ StillInv /\ MaskedInv /\ GrowInv /\ ShrinkInv
    /\ Done => Accounts(answer, path_info)

LEMMA ResolvingStarts ==
    ASSUME Starting
    PROVE  Resolving
<1>1. /\ BaseInv /\ ~Done /\ truths = {Resolved(fs, path_info)}
      /\ stage = "walk" /\ At = 0
      /\ \A tree : Agrees(tree)
  BY AgreesInit
<1>2. StillInv /\ MaskedInv
  BY <1>1 DEF StillInv, MaskedInv
<1>3. GrowInv
  BY <1>1 DEF GrowInv, Agrees, AgreesAt
<1>4. ShrinkInv
  BY <1>1 DEF ShrinkInv
<1> QED
  BY <1>1, <1>2, <1>3, <1>4 DEF Resolving

LEMMA ResolvingStep ==
    ASSUME Resolving, [FNext]_vars
    PROVE  Resolving'
<1>1. BaseInv /\ BaseInv'
  BY BaseStep DEF Resolving
<1>2. StillInv'
  BY StillStep DEF Resolving
<1>3. MaskedInv'
  BY MaskedStep DEF Resolving
<1>4. GrowInv'
  BY GrowStep DEF Resolving
<1>5. ShrinkInv'
  BY ShrinkStep DEF Resolving
<1>6. ASSUME Done' PROVE Accounts(answer', path_info')
  <2>1. CASE UNCHANGED vars
    BY <1>1, <1>6, <2>1, StillIs DEF Resolving
  <2>2. CASE Resolve
    BY <1>1, <1>6, <2>2, AccountsStep, ResolveIs
  <2>3. CASE Disturb
    BY <1>1, <1>6, <2>3, DisturbIs
  <2> QED
    BY <2>1, <2>2, <2>3 DEF FNext
<1> QED
  BY <1>1, <1>2, <1>3, <1>4, <1>5, <1>6 DEF Resolving

LEMMA ResolvingMeans ==
    ASSUME Resolving
    PROVE  /\ TypeOK /\ OnlyTheWayMatters /\ ConcealedIsAbsent
           /\ GrowingTreeIsRead /\ ShrinkingTreeIsRead /\ AnswerAccountsForPath
<1>1. TypeOK
  BY BaseType DEF Resolving
<1>2. OnlyTheWayMatters
  BY DEF Resolving, StillInv, OnlyTheWayMatters
<1>3. ConcealedIsAbsent
  BY DEF Resolving, MaskedInv, ConcealedIsAbsent, IndicesShown, Masked
<1>4. GrowingTreeIsRead
  BY DEF Resolving, GrowInv, GrowingTreeIsRead
<1>5. ShrinkingTreeIsRead
  BY DEF Resolving, ShrinkInv, ShrinkingTreeIsRead
<1>6. AnswerAccountsForPath
  BY DEF Resolving, Accounts, Shown, AnswerAccountsForPath
<1> QED
  BY <1>1, <1>2, <1>3, <1>4, <1>5, <1>6

LEMMA ResolvingHolds == Spec => []Resolving
<1>1. Init => Resolving
  BY InitStarts, ResolvingStarts
<1>2. Resolving /\ [FNext]_vars => Resolving'
  BY ResolvingStep
<1> QED
  BY <1>1, <1>2, PTL DEF Spec

(***************************************************************************)
(* Each variable of FileHandler keeps its type, whatever other programs do *)
(* to the file system: what set_filename has consumed and what is left are *)
(* the path_info, and the directory reached is where the script_name says. *)
(***************************************************************************)
THEOREM TypeAlwaysOK == Spec => []TypeOK
<1>1. Resolving => TypeOK
  BY ResolvingMeans
<1> QED
  BY <1>1, ResolvingHolds, PTL

(***************************************************************************)
(* ResolveFile asks about nothing but its way: what other programs do to   *)
(* the rest of the tree meanwhile makes no difference to the answer, which *)
(* is the one that was right all through the call.                         *)
(***************************************************************************)
THEOREM OnlyTheWayEverMatters == Spec => []OnlyTheWayMatters
<1>1. Resolving => OnlyTheWayMatters
  BY ResolvingMeans
<1> QED
  BY <1>1, ResolvingHolds, PTL

(***************************************************************************)
(* checkFilename comes after IsDir and IsFile and nothing shows of it:     *)
(* whatever there is under a name that is not to be disclosed, and         *)
(* whatever becomes of it during the call, the answer is the one that      *)
(* ResolveFile gives where there is nothing - as long as no index name is  *)
(* such a name.                                                            *)
(***************************************************************************)
THEOREM ConcealedIsAlwaysAbsent == Spec => []ConcealedIsAbsent
<1>1. Resolving => ConcealedIsAbsent
  BY ResolvingMeans
<1> QED
  BY <1>1, ResolvingHolds, PTL

(***************************************************************************)
(* ResolveFile asks its questions one after the other while other programs *)
(* add to the tree: its answer is still the one that was right at a single *)
(* moment of the call, or an index was found and an earlier one has been   *)
(* made since it was asked for.                                            *)
(***************************************************************************)
THEOREM GrowingTreeIsAlwaysRead == Spec => []GrowingTreeIsRead
<1>1. Resolving => GrowingTreeIsRead
  BY ResolvingMeans
<1> QED
  BY <1>1, ResolvingHolds, PTL

(***************************************************************************)
(* The same while other programs unlink, one entry at a time: a directory  *)
(* is gone only after all that was in it, so whatever of it ResolveFile    *)
(* has found before and after fits one moment of the call.                 *)
(***************************************************************************)
THEOREM ShrinkingTreeIsAlwaysRead == Spec => []ShrinkingTreeIsRead
<1>1. Resolving => ShrinkingTreeIsRead
  BY ResolvingMeans
<1> QED
  BY <1>1, ResolvingHolds, PTL

(***************************************************************************)
(* However the tree changes during a resolution, its script_name and       *)
(* path_info account for the request path, with at most an index name put  *)
(* after its last slash; the file is where script_name says, below the     *)
(* root, and no name not to be disclosed is on the way to it.              *)
(***************************************************************************)
THEOREM AnswerAlwaysAccountsForPath == Spec => []AnswerAccountsForPath
<1>1. Resolving => AnswerAccountsForPath
  BY ResolvingMeans
<1> QED
  BY <1>1, ResolvingHolds, PTL


-----------------------------------------------------------------------------
(* A walk's names, and the path they make.                                 *)

\* What may stand between two slashes of a normalised path.
Names == {t \in Seq(Nat) : t \notin {<<>>, Here, Up} /\ <<Slash>> \o t \in Segs}
Neat == {x \in Segs : x \notin {<<Slash>>, <<Slash, Dot>>, <<Slash, Dot, Dot>>}}

\* A path of names, with no slash at its end.
NeatPath(p) == p \in Paths /\ \A k \in DOMAIN ScanSegments(p) : ScanSegments(p)[k] \in Neat

LEMMA NamesAre ==
    /\ \A t \in Names : /\ t \in Seq(Nat) /\ <<Slash>> \o t \in Neat
                        /\ <<Slash>> \o t \in Segs
    /\ \A x \in Segs : Tail(x) \notin {<<>>, Here, Up} => Tail(x) \in Names
<1>1. ASSUME NEW t \in Names
      PROVE  t \in Seq(Nat) /\ <<Slash>> \o t \in Neat /\ <<Slash>> \o t \in Segs
  <2>1. /\ t \in Seq(Nat) /\ t # <<>> /\ t # <<Dot>> /\ t # <<Dot, Dot>>
        /\ <<Slash>> \o t \in Segs
    BY DEF Names, Here, Up
  <2> DEFINE x == <<Slash>> \o t
  <2>2. Tail(x) = t
    BY <2>1 DEF Slash
  <2>3. x \in Segs
    BY <2>1
  <2> HIDE DEF x
  <2>4. /\ Tail(<<Slash>>) = <<>> /\ Tail(<<Slash, Dot>>) = <<Dot>>
        /\ Tail(<<Slash, Dot, Dot>>) = <<Dot, Dot>>
    OBVIOUS
  <2>5. x \in Neat
    BY <2>1, <2>2, <2>3, <2>4 DEF Neat
  <2> QED
    BY <2>1, <2>5 DEF x
<1>2. ASSUME NEW x \in Segs, Tail(x) \notin {<<>>, Here, Up} PROVE Tail(x) \in Names
  <2>1. Tail(x) \in Seq(Nat) /\ x = <<Slash>> \o Tail(x)
    BY NameOf
  <2> QED
    BY <1>2, <2>1 DEF Names
<1> QED
  BY <1>1, <1>2

LEMMA WalkNames == \A p \in Paths : Walk(p).names \in Seq(Names)
<1> DEFINE P == {p \in Paths : Walk(p).names \in Seq(Names)}
<1>1. <<>> \in P
  <2>1. Walk(<<>>) = AtRoot /\ <<>> \in Paths
    BY WalkAppend, PathsConcat
  <2>2. AtRoot.names = <<>> /\ <<>> \in Seq(Names)
    BY DEF AtRoot
  <2> QED
    BY <2>1, <2>2
<1>2. ASSUME NEW p \in Paths, NEW x \in Segs, p \in P PROVE p \o x \in P
  <2> DEFINE at == Walk(p)
             t == Tail(x)
  <2>1. /\ p \o x \in Paths /\ Walk(p \o x) = Stepped(at, t)
        /\ at \in WalkStates /\ at.names \in Seq(Names) /\ t \in Seq(Nat)
    BY <1>2, PathsConcat, WalkAppend, WalkType, NameOf
  <2>2. t \notin {<<>>, Here, Up} => t \in Names
    BY NamesAre
  <2> HIDE DEF at, t
  <2>3. at = [names |-> at.names, below |-> at.below]
    BY <2>1 DEF WalkStates
  <2>4. CASE t \in {<<>>, Here}
    BY <2>1, <2>4, Steps
  <2>5. CASE t = Up /\ at.names = <<>>
    <3>1. Stepped(at, t) = [at EXCEPT !.below = FALSE]
      BY <2>5, Steps
    <3>2. [at EXCEPT !.below = FALSE].names = at.names
      BY <2>3
    <3> QED
      BY <2>1, <3>1, <3>2
  <2>6. CASE t = Up /\ at.names # <<>>
    <3>1. Stepped(at, t) = [at EXCEPT !.names = Front(@)]
      BY <2>6, Steps
    <3>2. [at EXCEPT !.names = Front(@)].names = Front(at.names)
      BY <2>3
    <3>3. Front(at.names) \in Seq(Names)
      <4> DEFINE n == at.names
      <4>1. n \in Seq(Names) /\ n # <<>>
        BY <2>1, <2>6
      <4> HIDE DEF n
      <4> QED
        BY <4>1 DEF Front, n
    <3> QED
      BY <2>1, <3>1, <3>2, <3>3
  <2>7. CASE t \notin {<<>>, Here, Up}
    <3>1. Stepped(at, t) = [at EXCEPT !.names = Append(@, t)]
      BY <2>7, Steps
    <3>2. [at EXCEPT !.names = Append(@, t)].names = Append(at.names, t)
      BY <2>3
    <3>3. Append(at.names, t) \in Seq(Names)
      BY <2>1, <2>2, <2>7
    <3> QED
      BY <2>1, <3>1, <3>2, <3>3
  <2> QED
    BY <2>4, <2>5, <2>6, <2>7
<1> HIDE DEF P
<1>3. Paths \subseteq P
  BY <1>1, <1>2, PathInduction
<1> QED
  BY <1>3 DEF P

\* One name more.
LEMMA NeatGrows ==
    ASSUME NEW p, NEW x \in Neat, NeatPath(p)
    PROVE  NeatPath(p \o x)
<1>1. p \in Paths /\ p \in Seq(Nat) /\ x \in Segs
  BY DEF NeatPath, Neat, Paths
<1> DEFINE s == ScanSegments(p)
           a == ScanSegments(p \o x)
<1>2. a = Append(s, x) /\ s \in Seq(Segs) /\ p \o x \in Paths
  BY <1>1, ScanAppend, FlattenScan, PathsConcat
<1>3. \A k \in DOMAIN s : s[k] \in Neat
  BY DEF NeatPath
<1>4. \A k \in DOMAIN a : a[k] \in Neat
  <2> HIDE DEF s, a
  <2>1. /\ DOMAIN a = 1..(Len(s) + 1) /\ a[Len(s) + 1] = x
        /\ \A k \in 1..Len(s) : a[k] = s[k]
    BY <1>2
  <2>2. DOMAIN s = 1..Len(s) /\ Len(s) \in Nat
    BY <1>2
  <2>3. \A k \in 1..(Len(s) + 1) : k # Len(s) + 1 => k \in 1..Len(s)
    BY <2>2
  <2> QED
    BY <1>3, <2>1, <2>2, <2>3
<1> QED
  BY <1>2, <1>4 DEF NeatPath

LEMMA NamesPath ==
    \A n \in Seq(Names) : n # <<>> => /\ NeatPath(<<Slash>> \o Joined(n, <<Slash>>))
                                      /\ Joined(n, <<Slash>>) \in Seq(Nat)
<1> DEFINE j(n) == Joined(n, <<Slash>>)
           P == {n \in Seq(Names) : n # <<>> => NeatPath(<<Slash>> \o j(n))
                                                /\ j(n) \in Seq(Nat)}
<1>0. Names \subseteq Seq(Nat)
  BY DEF Names
<1>1. <<>> \in P
  OBVIOUS
<1>2. ASSUME NEW n \in Seq(Names), NEW t \in Names, n \in P PROVE Append(n, t) \in P
  <2>1. n \in Seq(Seq(Nat)) /\ t \in Seq(Nat) /\ Append(n, t) \in Seq(Names)
    <3>1. n \in Seq(Seq(Nat))
      BY <1>0, SeqWidens
    <3> QED
      BY <1>0, <3>1
  <2>2. /\ j(n) \in Seq(Nat)
        /\ j(Append(n, t)) = IF n = <<>> THEN t ELSE j(n) \o (<<Slash>> \o t)
    BY <2>1, JoinedAppend
  <2>3. <<Slash>> \o t \in Neat /\ <<Slash>> \in Seq(Nat) /\ <<Slash>> \o t \in Seq(Nat)
    BY <2>1, NamesAre DEF Slash
  <2>4. CASE n = <<>>
    <3>1. NeatPath(<<>>)
      BY ScanEmpty, PathsConcat DEF NeatPath
    <3>2. NeatPath(<<>> \o (<<Slash>> \o t))
      BY <2>3, <3>1, NeatGrows
    <3>3. <<>> \o (<<Slash>> \o t) = <<Slash>> \o t
      BY <2>3
    <3> QED
      BY <2>1, <2>2, <2>4, <3>2, <3>3
  <2>5. CASE n # <<>>
    <3>1. NeatPath(<<Slash>> \o j(n))
      BY <1>2, <2>5
    <3> DEFINE x == <<Slash>> \o t
               c == j(n)
    <3>2. NeatPath((<<Slash>> \o c) \o x)
      BY <2>3, <3>1, NeatGrows
    <3>3. c \in Seq(Nat) /\ x \in Seq(Nat)
      BY <2>2, <2>3
    <3> HIDE DEF x, c
    <3>4. (<<Slash>> \o c) \o x = <<Slash>> \o (c \o x)
      BY <2>3, <3>3, ConcatAssociative
    <3>5. c \o x \in Seq(Nat)
      BY <3>3
    <3>6. j(Append(n, t)) = c \o x
      BY <2>2, <2>5 DEF x, c
    <3> HIDE DEF j
    <3> QED
      BY <2>1, <3>2, <3>4, <3>5, <3>6
  <2> QED
    BY <2>4, <2>5
<1> HIDE DEF P
<1>3. Seq(Names) \subseteq P
  BY <1>1, <1>2, SeqInduction
<1> QED
  BY <1>3 DEF P

\* Names alone, or with one slash after them, are a normalised path.
LEMMA NeatIsNormal ==
    ASSUME NEW p, NeatPath(p)
    PROVE  Normal(p) /\ Normal(p \o <<Slash>>)
<1> DEFINE s == ScanSegments(p)
           a == ScanSegments(p \o <<Slash>>)
<1>1. p \in Paths /\ p \in Seq(Nat) /\ <<Slash>> \in Segs
  BY RootSlash DEF NeatPath, Paths
<1>2. a = Append(s, <<Slash>>) /\ s \in Seq(Segs) /\ p \o <<Slash>> \in Paths
  BY <1>1, ScanAppend, FlattenScan, PathsConcat
<1>3. \A k \in DOMAIN s : s[k] \notin {<<Slash>>, <<Slash, Dot>>, <<Slash, Dot, Dot>>}
  BY DEF NeatPath, Neat
<1>4. Normal(p)
  BY <1>1, <1>3 DEF Normal, Paths
<1>5. \A k \in DOMAIN a : /\ a[k] \notin {<<Slash, Dot>>, <<Slash, Dot, Dot>>}
                          /\ a[k] = <<Slash>> => k = Len(a)
  <2> HIDE DEF s, a
  <2>1. /\ DOMAIN a = 1..(Len(s) + 1) /\ a[Len(s) + 1] = <<Slash>> /\ Len(a) = Len(s) + 1
        /\ \A k \in 1..Len(s) : a[k] = s[k]
    BY <1>2
  <2>2. DOMAIN s = 1..Len(s) /\ Len(s) \in Nat
    BY <1>2
  <2>3. \A k \in 1..(Len(s) + 1) : k # Len(s) + 1 => k \in 1..Len(s)
    BY <2>2
  <2>4. <<Slash>> \notin {<<Slash, Dot>>, <<Slash, Dot, Dot>>}
    OBVIOUS
  <2> QED
    BY <1>3, <2>1, <2>2, <2>3, <2>4
<1>6. Normal(p \o <<Slash>>)
  BY <1>2, <1>5 DEF Normal, Paths
<1> QED
  BY <1>4, <1>6

\* What a path means is a normalised path.
LEMMA MeaningIsNormal ==
    ASSUME NEW p \in Paths, Meaning(p) # Abnormal
    PROVE  Normal(Meaning(p)) /\ Meaning(p) \in Paths
<1> DEFINE names == Walk(p).names
           j == <<Slash>> \o Joined(names, <<Slash>>)
<1>1. names \in Seq(Names)
  BY WalkNames
<1>2. \/ Meaning(p) = j \o <<>>
      \/ names # <<>> /\ Meaning(p) = j \o <<Slash>>
  BY Zenon DEF Meaning
<1>3. CASE names = <<>>
  <2>1. j = <<Slash>>
    <3>1. Joined(names, <<Slash>>) = <<>>
      BY <1>3, JoinedAppend, Zenon
    <3>2. <<Slash>> \o <<>> = <<Slash>>
      BY DEF Slash
    <3> QED
      BY <3>1, <3>2, Zenon
  <2>2. Meaning(p) = <<Slash>>
    <3> HIDE DEF j
    <3> QED
      BY <1>2, <1>3, <2>1
  <2>3. NeatPath(<<>>) /\ <<>> \o <<Slash>> = <<Slash>>
    BY ScanEmpty, PathsConcat DEF NeatPath
  <2>4. Normal(<<>> \o <<Slash>>)
    BY <2>3, NeatIsNormal
  <2> QED
    BY <2>2, <2>3, <2>4, RootSlash
<1>4. CASE names # <<>>
  <2> HIDE DEF names
  <2>1. NeatPath(j)
    BY <1>1, <1>4, NamesPath
  <2> HIDE DEF j
  <2>2. j \in Paths /\ j \o <<>> = j
    BY <2>1, PathsAlgebra DEF NeatPath
  <2>3. j \o <<Slash>> \in Paths
    BY <2>2, RootSlash, PathsConcat
  <2>4. Normal(j) /\ Normal(j \o <<Slash>>)
    BY <2>1, NeatIsNormal
  <2> QED
    BY <1>2, <2>2, <2>3, <2>4
<1> QED
  BY <1>3, <1>4


\* The rest of a normalised path after one of its prefixes that is a path.
LEMMA RestIsNormal ==
    ASSUME NEW h \in Paths, NEW info \in Paths, Normal(h \o info)
    PROVE  Normal(info)
<1> DEFINE s == ScanSegments(h)
           r == ScanSegments(info)
           a == ScanSegments(h \o info)
<1>1. a = s \o r /\ s \in Seq(Segs) /\ r \in Seq(Segs)
  BY ScanConcat, FlattenScan
<1>2. \A k \in DOMAIN a : /\ a[k] \notin {<<Slash, Dot>>, <<Slash, Dot, Dot>>}
                          /\ a[k] = <<Slash>> => k = Len(a)
  BY Zenon DEF Normal
<1>3. \A k \in DOMAIN r : /\ r[k] \notin {<<Slash, Dot>>, <<Slash, Dot, Dot>>}
                          /\ r[k] = <<Slash>> => k = Len(r)
  <2> HIDE DEF s, r, a
  <2>1. /\ Len(s) \in Nat /\ Len(r) \in Nat /\ DOMAIN r = 1..Len(r)
        /\ Len(a) = Len(s) + Len(r) /\ DOMAIN a = 1..(Len(s) + Len(r))
    BY <1>1
  <2>2. \A k \in 1..Len(r) : Len(s) + k \in DOMAIN a /\ a[Len(s) + k] = r[k]
    BY <1>1, <2>1
  <2>3. ASSUME NEW k \in 1..Len(r), Len(s) + k = Len(a) PROVE k = Len(r)
    <3>1. Len(s) \in Nat /\ Len(r) \in Nat /\ Len(s) + k = Len(s) + Len(r) /\ k \in Nat
      <4>1. Len(a) = Len(s) + Len(r)
        BY <2>1
      <4> QED
        BY <2>1, <2>3, <4>1
    <3> DEFINE n == Len(s)
               q == Len(r)
    <3>2. n \in Nat /\ q \in Nat /\ n + k = n + q /\ k \in Nat
      BY <3>1
    <3> HIDE DEF n, q
    <3>3. k = q
      BY <3>2
    <3> QED
      BY <3>3, Zenon DEF q
  <2> QED
    BY <1>2, <2>1, <2>2, <2>3
<1> QED
  BY <1>3 DEF Normal, Paths

-----------------------------------------------------------------------------
(* Where a request goes.                                                   *)

\* Lying under a directory is what matchMountPrefix tests.
LEMMA UnderIsMatched ==
    ASSUME NEW p \in Seq(Nat), NEW dir \in Seq(Nat)
    PROVE  /\ IsUnder(p, dir) <=> Table!MatchMountPrefix(p, dir)
           /\ Table!MatchMountPrefix(p, dir) =>
                 /\ Len(dir) <= Len(p) /\ \A i \in 1..Len(dir) : p[i] = dir[i]
                 /\ Len(dir) < Len(p) => p[Len(dir) + 1] = Slash
<1> DEFINE l == Len(dir)
           m == Len(p)
           d == Append(dir, Slash)
<1>1. /\ l \in Nat /\ m \in Nat /\ Slash \in Nat /\ Slash = Table!Slash
      /\ d \in Seq(Nat) /\ Len(d) = l + 1
      /\ \A i \in 1..l : d[i] = dir[i]
      /\ d[l + 1] = Slash
  BY DEF Slash, Table!Slash
<1> HIDE DEF d
<1>2. IsPrefix(d, p) <=> l + 1 <= m /\ \A i \in 1..(l + 1) : d[i] = p[i]
  BY <1>1, PrefixIs
<1>3. IsPrefix(dir, p) <=> l <= m /\ \A i \in 1..l : dir[i] = p[i]
  BY PrefixIs
<1>4. Table!MatchMountPrefix(p, dir) <=>
         /\ l <= m /\ \A i \in 1..l : dir[i] = p[i]
         /\ l < m => p[l + 1] = Slash
  <2>1. Table!IsPrefix(dir, p) <=> IsPrefix(dir, p)
    BY DEF Table!IsPrefix, IsPrefix
  <2> QED
    BY <1>1, <1>3, <2>1 DEF Table!MatchMountPrefix
<1>5. IsUnder(p, dir) <=> p = dir \/ IsPrefix(d, p)
  BY DEF IsUnder, d
<1> HIDE DEF l, m
<1>6. ASSUME l <= m, \A i \in 1..l : dir[i] = p[i], l < m => p[l + 1] = Slash
      PROVE  p = dir \/ IsPrefix(d, p)
  <2>1. CASE l = m
    <3>1. Len(dir) = Len(p) /\ \A i \in 1..Len(dir) : dir[i] = p[i]
      BY <1>6, <2>1 DEF l, m
    <3> QED
      BY <3>1, SeqEqual
  <2>2. CASE l < m
    <3>1. \A i \in 1..(l + 1) : i = l + 1 \/ i \in 1..l
      BY <1>1
    <3> QED
      BY <1>1, <1>2, <1>6, <2>2, <3>1
  <2> QED
    BY <1>1, <1>6, <2>1, <2>2
<1>7. ASSUME p = dir \/ IsPrefix(d, p)
      PROVE  /\ l <= m /\ \A i \in 1..l : dir[i] = p[i]
             /\ l < m => p[l + 1] = Slash
  <2>1. CASE p = dir
    BY <1>1, <2>1 DEF l, m
  <2>2. CASE IsPrefix(d, p)
    <3>1. l + 1 <= m /\ \A i \in 1..(l + 1) : d[i] = p[i]
      BY <1>2, <2>2
    <3>2. l + 1 \in 1..(l + 1) /\ \A i \in 1..l : i \in 1..(l + 1)
      BY <1>1
    <3> QED
      BY <1>1, <3>1, <3>2
  <2> QED
    BY <1>7, <2>1, <2>2
<1> QED
  BY <1>4, <1>5, <1>6, <1>7 DEF l, m

\* Of two directories that a path is under, the shorter sorts first.
LEMMA ShorterSortsFirst ==
    ASSUME NEW p \in Seq(Nat), NEW s \in Seq(Nat), NEW t \in Seq(Nat),
           Table!MatchMountPrefix(p, s), Table!MatchMountPrefix(p, t)
    PROVE  s = t \/ Table!SortsBefore(s, t) <=> ~(Len(s) > Len(t))
<1>1. /\ Len(s) \in Nat /\ Len(t) \in Nat
      /\ \A i \in 1..Len(s) : p[i] = s[i]
      /\ \A i \in 1..Len(t) : p[i] = t[i]
  BY UnderIsMatched
<1>2. ASSUME Table!SortsBefore(s, t) PROVE Len(s) < Len(t)
  <2>1. PICK n \in 1..Len(t) : /\ n <= Len(s) + 1
                               /\ n <= Len(s) => s[n] < t[n]
    BY <1>2 DEF Table!SortsBefore
  <2>2. ASSUME n <= Len(s) PROVE FALSE
    <3>1. n \in 1..Len(s)
      BY <1>1, <2>2
    <3>2. s[n] = t[n] /\ t[n] \in Nat
      BY <1>1, <3>1
    <3> QED
      BY <2>1, <2>2, <3>2
  <2> QED
    BY <1>1, <2>1, <2>2
<1>3. ASSUME Len(s) < Len(t) PROVE Table!SortsBefore(s, t)
  <2> DEFINE n == Len(s) + 1
  <2>1. n \in 1..Len(t) /\ n <= Len(s) + 1 /\ ~(n <= Len(s))
    BY <1>1, <1>3
  <2>2. \A i \in 1..(n - 1) : i \in 1..Len(s) /\ i \in 1..Len(t)
    BY <1>1, <1>3
  <2>3. \A i \in 1..(n - 1) : s[i] = t[i]
    BY <1>1, <2>2
  <2> HIDE DEF n
  <2> QED
    BY <2>1, <2>3 DEF Table!SortsBefore
<1>4. ASSUME Len(s) = Len(t) PROVE s = t
  <2>1. \A i \in 1..Len(s) : s[i] = t[i]
    BY <1>1, <1>4
  <2> QED
    BY <1>4, <2>1, SeqEqual
<1> QED
  BY <1>1, <1>2, <1>3, <1>4

\* Service hands the path to the handler iff it is under its mount and under no
\* longer one.
LEMMA FoundIsMeant ==
    ASSUME NEW dirs \in SUBSET Seq(Nat), NEW p \in Seq(Nat), Handled \in dirs
    PROVE  Table!ScanFinds(dirs, p, Handled) <=>
              /\ IsUnder(p, Handled)
              /\ \A dir \in dirs : Len(dir) > Len(Handled) => ~IsUnder(p, dir)
<1>1. Table!Matching(dirs, p) = {k \in dirs : Table!MatchMountPrefix(p, k)}
  BY DEF Table!Matching
<1>2. Handled \in Seq(Nat)
  OBVIOUS
<1>3. ASSUME Table!ScanFinds(dirs, p, Handled)
      PROVE  /\ IsUnder(p, Handled)
             /\ \A dir \in dirs : Len(dir) > Len(Handled) => ~IsUnder(p, dir)
  <2>1. /\ Table!MatchMountPrefix(p, Handled)
        /\ \A k \in dirs : Table!MatchMountPrefix(p, k) =>
              k = Handled \/ Table!SortsBefore(k, Handled)
    BY <1>1, <1>3 DEF Table!ScanFinds
  <2>2. ASSUME NEW dir \in dirs, Len(dir) > Len(Handled), IsUnder(p, dir) PROVE FALSE
    <3>1. Table!MatchMountPrefix(p, dir) /\ dir \in Seq(Nat)
      BY <2>2, UnderIsMatched
    <3> QED
      BY <1>2, <2>1, <2>2, <3>1, ShorterSortsFirst
  <2> QED
    BY <1>2, <2>1, <2>2, UnderIsMatched
<1>4. ASSUME IsUnder(p, Handled),
             \A dir \in dirs : Len(dir) > Len(Handled) => ~IsUnder(p, dir)
      PROVE  Table!ScanFinds(dirs, p, Handled)
  <2>1. Table!MatchMountPrefix(p, Handled)
    BY <1>2, <1>4, UnderIsMatched
  <2>2. ASSUME NEW k \in dirs, Table!MatchMountPrefix(p, k)
        PROVE  k = Handled \/ Table!SortsBefore(k, Handled)
    <3>1. ~(Len(k) > Len(Handled)) /\ k \in Seq(Nat)
      BY <1>4, <2>2, UnderIsMatched
    <3> QED
      BY <1>2, <2>1, <2>2, <3>1, ShorterSortsFirst
  <2> QED
    BY <1>1, <2>1, <2>2 DEF Table!ScanFinds
<1> QED
  BY <1>3, <1>4

\* What is left of a normalised path under the mount.
LEMMA InfoIsNormal ==
    ASSUME NEW p \in Paths, Normal(p), Handled \in Seq(Nat), IsUnder(p, Handled)
    PROVE  /\ From(p, Len(Handled) + 1) = Table!PathInfo(p, Handled)
           /\ Normal(From(p, Len(Handled) + 1))
<1> DEFINE l == Len(Handled)
           info == SubSeq(p, l + 1, Len(p))
<1>1. From(p, l + 1) = info /\ Table!PathInfo(p, Handled) = info
  BY DEF From, Table!PathInfo
<1>2. /\ p \in Seq(Nat) /\ l \in Nat /\ l <= Len(p)
      /\ \A i \in 1..l : p[i] = Handled[i]
      /\ l < Len(p) => p[l + 1] = Slash
  BY UnderIsMatched DEF Paths
<1>3. /\ info \in Seq(Nat) /\ Len(info) = Len(p) - l
      /\ \A i \in 1..(Len(p) - l) : info[i] = p[l + i]
  <2>1. l + 1 \in 1..(Len(p) + 1) /\ Len(p) \in 0..Len(p)
    BY <1>2
  <2>2. /\ info \in Seq(Nat)
        /\ info = [k \in 1..((Len(p) - (l + 1)) + 1) |-> p[((l + 1) + k) - 1]]
    BY <1>2, <2>1, PartIs
  <2>3. (Len(p) - (l + 1)) + 1 = Len(p) - l /\ Len(p) - l \in Nat
    BY <1>2
  <2> HIDE DEF info
  <2> QED
    BY <1>2, <2>2, <2>3
<1> HIDE DEF info
<1>4. Handled \in Paths
  <2>1. Handled # <<>> => Handled[1] = p[1] /\ p # <<>>
    BY <1>2
  <2> QED
    BY <2>1 DEF Paths
<1>5. info \in Paths
  <2>1. info # <<>> => info[1] = p[l + 1] /\ l < Len(p)
    BY <1>2, <1>3
  <2> QED
    BY <1>2, <1>3, <2>1 DEF Paths
<1>6. Handled \o info = p
  <2> DEFINE c == Handled \o info
  <2>1. /\ c \in Seq(Nat) /\ Len(c) = Len(p)
        /\ \A i \in 1..Len(p) : c[i] = IF i <= l THEN Handled[i] ELSE info[i - l]
    BY <1>2, <1>3
  <2>2. \A i \in 1..Len(p) : c[i] = p[i]
    <3> SUFFICES ASSUME NEW i \in 1..Len(p) PROVE c[i] = p[i]
      OBVIOUS
    <3> HIDE DEF c
    <3>1. CASE i <= l
      BY <1>2, <2>1, <3>1
    <3>2. CASE ~(i <= l)
      <4>1. i - l \in 1..(Len(p) - l) /\ l + (i - l) = i
        BY <1>2, <3>2
      <4> QED
        BY <1>3, <2>1, <3>2, <4>1
    <3> QED
      BY <3>1, <3>2
  <2> HIDE DEF c
  <2>3. c = p
    BY <1>2, <2>1, <2>2, SeqEqual
  <2> QED
    BY <2>3 DEF c
<1>7. Normal(info)
  BY <1>4, <1>5, <1>6, RestIsNormal
<1> QED
  BY <1>1, <1>7


-----------------------------------------------------------------------------
(* What a file is answered with.                                           *)

\* The names between the root and a file, the root's among them.
Hidden(info) ==
    \/ Concealed(BaseName(Root))
    \/ \E name \in Range(ScanSegments(info)) : Concealed(Tail(name))

\* The right answer where a path leads to a file.
LEMMA FileIsResolved ==
    ASSUME NEW tree \in Trees, NEW info, Normal(info), info # <<>> => Last(info) # Slash,
           Kind(tree, ExpandPath(Root \o info)) = "file"
    PROVE  Resolved(tree, info) =
              IF Hidden(info) THEN NotFound
              ELSE Answer("file", ExpandPath(Root \o info), info, <<>>)
<1> DEFINE segs == Dummied(info)
           N == Len(segs)
           m == N - 1
           s == ScanSegments(info)
           place == ExpandPath(Root \o info)
<1>1. /\ segs \in Seq(Paths) /\ N \in Nat /\ N # 0 /\ segs[1] = <<>>
      /\ \A k \in 2..N : /\ segs[k] \in Segs
                         /\ segs[k] = <<Slash>> => k = N
      /\ FlattenSeq(segs) = info
  BY WayIs
<1>2. s \in Seq(Segs) /\ N = Len(s) + 1 /\ \A k \in 1..Len(s) : segs[k + 1] = s[k]
  <2>1. info \in Paths
    BY DEF Normal, Paths
  <2>2. s \in Seq(Segs)
    BY <2>1, FlattenScan
  <2>3. segs = <<<<>>>> \o s
    BY DEF Dummied
  <2> HIDE DEF s, segs
  <2> QED
    BY <2>2, <2>3
<1>3. /\ m \in 0..N /\ N \in 0..N /\ m \in Nat /\ m < N /\ m + 1 = N /\ N - 1 = m
  <2> HIDE DEF segs
  <2> QED
    BY <1>1
<1> HIDE DEF m
<1>4. Walked(segs, N) = info
  <2>1. Walked(segs, N) \o FlattenSeq(SubSeq(segs, N + 1, N)) = FlattenSeq(segs)
    BY <1>1, <1>3, WalkedIs
  <2>2. FlattenSeq(SubSeq(segs, N + 1, N)) = <<>>
    BY <1>1, NothingLeft
  <2>3. Walked(segs, N) \o <<>> = Walked(segs, N)
    BY <1>1, <1>3, WalkedIs, PathsAlgebra
  <2> QED
    BY <1>1, <2>1, <2>2, <2>3
<1>5. Place(segs, N) = place
  BY <1>4 DEF Place
<1>6. segs[N] # <<Slash>>
  <2>1. CASE N = 1
    BY <1>1, <2>1
  <2>2. CASE N # 1
    <3> SUFFICES ASSUME segs[N] = <<Slash>> PROVE FALSE
      OBVIOUS
    <3> DEFINE w == Walked(segs, m)
    <3>1. w \in Paths /\ info = w \o <<Slash>>
      BY <1>1, <1>3, <1>4, WalkedIs
    <3>2. w \in Seq(Nat)
      BY <3>1 DEF Paths
    <3> HIDE DEF w
    <3>3. info # <<>> /\ Last(info) = Slash
      BY <3>1, <3>2 DEF Last, Slash
    <3> QED
      BY <3>3
  <2> QED
    BY <2>1, <2>2
<1>7. \A k \in 1..N : segs[k] # <<Slash>>
  <2> SUFFICES ASSUME NEW k \in 1..N, segs[k] = <<Slash>> PROVE FALSE
    OBVIOUS
  <2>1. k = 1 \/ k \in 2..N
    BY <1>1
  <2>2. <<Slash>> # <<>>
    OBVIOUS
  <2> QED
    BY <1>1, <1>6, <2>1, <2>2, Zenon
<1>8. Reach(tree, segs, m)
  <2>1. \A k \in 1..(N - 1) : Kind(tree, Place(segs, k)) = "dir"
    BY <1>1, <1>3, <1>5, <1>7, AncestorsAre
  <2>2. \A k \in 1..m : k \in 1..(N - 1) /\ k \in 1..N
    BY <1>1, <1>3
  <2> QED
    BY <1>7, <2>1, <2>2 DEF Reach
<1> DEFINE left == FlattenSeq(SubSeq(segs, m + 2, N))
<1>9. left = <<>>
  <2>1. m + 2 = N + 1
    BY <1>1, <1>3
  <2> QED
    BY <1>1, <2>1, NothingLeft
<1>10. ASSUME Clear(segs, m) PROVE Resolved(tree, info) = Served(info, <<>>)
  <2>1. segs[m + 1] # <<Slash>> /\ Kind(tree, Place(segs, m + 1)) = "file"
    BY <1>3, <1>5, <1>6
  <2>2. Resolved(tree, info) = Served(Walked(segs, m + 1), left)
    BY <1>3, <1>8, <1>10, <2>1, ResolvedIs
  <2> HIDE DEF left, segs
  <2> QED
    BY <1>3, <1>4, <1>9, <2>2
<1>11. ASSUME ~Clear(segs, m) PROVE Resolved(tree, info) = NotFound
  <2>1. Depth(tree, segs) = m
    <3>1. segs[m + 1] # <<Slash>> /\ Kind(tree, Place(segs, m + 1)) # "dir"
      BY <1>3, <1>5, <1>6
    <3> QED
      BY <1>1, <1>3, <1>8, <3>1, DepthIs
  <2> QED
    BY <1>3, <1>11, <2>1, ResolvedAt
<1>12. Clear(segs, N) <=> ~Hidden(info)
  <2>1. BaseName(Place(segs, 1)) = BaseName(Root)
    BY <1>1, PlaceIs
  <2>2. ASSUME NEW k \in 1..Len(s) PROVE BaseName(Place(segs, k + 1)) = Tail(s[k])
    <3>1. k \in 0..N /\ k < N /\ k # 0 /\ segs[k + 1] = s[k] /\ k + 1 \in 1..N
      BY <1>1, <1>2
    <3>2. segs[k + 1] # <<Slash>>
      BY <1>7, <3>1
    <3> QED
      BY <3>1, <3>2, PlaceIs
  <2>3. Range(s) = {s[k] : k \in 1..Len(s)}
    BY <1>2 DEF Range
  <2>4. Clear(segs, N) <=> /\ ~Concealed(BaseName(Place(segs, 1)))
                           /\ \A k \in 1..Len(s) : ~Concealed(BaseName(Place(segs, k + 1)))
    <3>1. /\ 1 \in 1..N /\ \A k \in 1..Len(s) : k + 1 \in 1..N
          /\ \A k \in 1..N : k = 1 \/ (k - 1 \in 1..Len(s) /\ (k - 1) + 1 = k)
      <4> HIDE DEF s, segs
      <4> QED
        BY <1>1, <1>2
    <3> HIDE DEF s, segs
    <3> QED
      BY <3>1 DEF Clear
  <2>5. Hidden(info) <=> \/ Concealed(BaseName(Root))
                         \/ \E k \in 1..Len(s) : Concealed(Tail(s[k]))
    BY <2>3 DEF Hidden
  <2> HIDE DEF s, segs
  <2> QED
    BY <2>1, <2>2, <2>4, <2>5
<1>13. Clear(segs, N) <=> Clear(segs, m) /\ ~Concealed(BaseName(place))
  <2>1. \A k \in 1..N : k \in 1..m \/ k = N
    BY <1>3
  <2>2. N \in 1..N /\ \A k \in 1..m : k \in 1..N
    BY <1>1, <1>3
  <2> QED
    BY <1>5, <2>1, <2>2 DEF Clear
<1>14. Served(info, <<>>) = IF Concealed(BaseName(place)) THEN NotFound
                            ELSE Answer("file", place, info, <<>>)
  BY DEF Served
<1> HIDE DEF segs, place
<1>15. CASE Hidden(info)
  BY <1>10, <1>11, <1>12, <1>13, <1>14, <1>15
<1>16. CASE ~Hidden(info)
  <2>1. Clear(segs, m) /\ ~Concealed(BaseName(place))
    BY <1>12, <1>13, <1>16, Zenon
  <2>2. Resolved(tree, info) = Served(info, <<>>)
    BY <1>10, <2>1, Zenon
  <2>3. Served(info, <<>>) = Answer("file", place, info, <<>>)
    BY <1>14, <2>1, Zenon
  <2> QED
    BY <1>16, <2>2, <2>3, Zenon DEF place
<1> QED
  BY <1>15, <1>16 DEF place

-----------------------------------------------------------------------------
(* The site's invariant.                                                   *)

SiteInv ==
    /\ request \in Requests /\ mounts \subseteq Seq(Nat) /\ Handled \in mounts
    /\ Resolving
    /\ phase # "handled" => Starting
    /\ phase # "asked" => (phase = "handled" <=> MeantForHandler)
    /\ phase = "handled" => path_info = InfoMeant
    /\ changes = Untouched => truths = {Resolved(fs, path_info)}

LEMMA ResolvingBegins == Starting => Resolving
BY ResolvingStarts

LEMMA SiteStarts == SInit => SiteInv
<1> SUFFICES ASSUME SInit PROVE SiteInv
  OBVIOUS
<1>1. Starting /\ Resolving
  BY InitStarts, ResolvingStarts DEF SInit
<1>2. truths = {Resolved(fs, path_info)}
  BY <1>1 DEF Starting
<1>3. request \in Requests /\ phase = "asked" /\ mounts \subseteq Seq(Nat) /\ Handled \in mounts
  BY MountsAssumption DEF SInit
<1> QED
  BY <1>1, <1>2, <1>3 DEF SiteInv

\* What Service makes of a request, whatever the spelling of its target.
LEMMA RouteIs ==
    ASSUME SiteInv
    PROVE  LET uri == ParseURI(request.target, <<>>)
           IN  /\ uri.ok /\ uri.path = request.meant
               /\ request.meant \in Paths /\ Normal(request.meant)
               /\ Table!ScanFinds(mounts, uri.path, Handled) <=> MeantForHandler
<1> DEFINE t == request.target
           p == request.meant
           uri == ParseURI(t, <<>>)
<1>1. /\ t \in Seq(0..255) /\ Absolute(t) /\ p = Meaning(Unescape(PathOf(t)))
      /\ p # Abnormal /\ mounts \subseteq Seq(Nat) /\ Handled \in mounts
  BY RequestsAssumption DEF SiteInv
<1> HIDE DEF t, p
<1>2. t \in Seq(Octets) /\ Decoded(PathOf(t)) = p
  BY <1>1 DEF Octets, Decoded
<1>3. uri.ok /\ uri.path = p
  <2>1. /\ uri.ok <=> Decoded(PathOf(t)) # Abnormal
        /\ uri.ok => uri.path = Decoded(PathOf(t))
    BY <1>1, <1>2, TargetIs
  <2> HIDE DEF uri
  <2> QED
    BY <1>1, <1>2, <2>1
<1>4. Unescape(PathOf(t)) \in Paths
  BY <1>1, <1>2, OneSlash
<1>5. p \in Paths /\ Normal(p)
  BY <1>1, <1>4, MeaningIsNormal
<1>6. Table!ScanFinds(mounts, p, Handled) <=>
         /\ IsUnder(p, Handled)
         /\ \A dir \in mounts : Len(dir) > Len(Handled) => ~IsUnder(p, dir)
  <2>1. p \in Seq(Nat)
    BY <1>5 DEF Paths
  <2> QED
    BY <1>1, <2>1, FoundIsMeant
<1>7. Table!ScanFinds(mounts, p, Handled) <=> MeantForHandler
  BY <1>6 DEF MeantForHandler, p
<1> HIDE DEF uri
<1> QED
  BY <1>3, <1>5, <1>7 DEF uri, t, p

LEMMA RouteStep ==
    ASSUME SiteInv, Route
    PROVE  SiteInv'
<1> DEFINE uri == ParseURI(request.target, <<>>)
<1>1. /\ phase = "asked"
      /\ UNCHANGED <<fs, filename, script, stage, index, answer, changes, request, mounts>>
  BY DEF Route
<1>2. /\ uri.ok /\ uri.path = request.meant
      /\ request.meant \in Paths /\ Normal(request.meant)
      /\ Table!ScanFinds(mounts, uri.path, Handled) <=> MeantForHandler
  BY RouteIs
<1>3. /\ Starting /\ request \in Requests /\ mounts \subseteq Seq(Nat) /\ Handled \in mounts
  BY <1>1 DEF SiteInv
<1>4. /\ MeantForHandler' <=> MeantForHandler
      /\ InfoMeant' = InfoMeant
  BY <1>1 DEF MeantForHandler, InfoMeant, IsUnder
<1>5. CASE MeantForHandler
  <2> DEFINE info == Table!PathInfo(uri.path, Handled)
  <2>1. /\ phase' = "handled" /\ path_info' = info
        /\ segments' = Dummied(path_info')
        /\ truths' = {Resolved(fs, path_info')}
    BY <1>2, <1>5, Zenon DEF Route
  <2>2. info = InfoMeant /\ Normal(info)
    <3>1. IsUnder(request.meant, Handled) /\ Handled \in Seq(Nat)
      BY <1>3, <1>5 DEF MeantForHandler
    <3> QED
      BY <1>2, <3>1, InfoIsNormal DEF InfoMeant
  <2> HIDE DEF info
  <2>3. Starting'
    BY <1>1, <1>3, <2>1, <2>2 DEF Starting
  <2>4. (Starting => Resolving)'
    BY ResolvingBegins, PTL
  <2>5. truths' = {Resolved(fs', path_info')}
    BY <1>1, <2>1
  <2> QED
    BY <1>1, <1>3, <1>4, <1>5, <2>1, <2>2, <2>3, <2>4, <2>5 DEF SiteInv
<1>6. CASE ~MeantForHandler
  <2>1. phase' = "elsewhere" /\ UNCHANGED <<path_info, segments, truths>>
    BY <1>2, <1>6, Zenon DEF Route
  <2>2. Starting'
    BY <1>1, <1>3, <2>1 DEF Starting
  <2>3. (Starting => Resolving)'
    BY ResolvingBegins, PTL
  <2>4. truths' = {Resolved(fs', path_info')}
    BY <2>2 DEF Starting
  <2> QED
    BY <1>1, <1>3, <1>4, <1>6, <2>1, <2>2, <2>3, <2>4 DEF SiteInv
<1> QED
  BY <1>5, <1>6

\* A change of the file system leaves a trace in what has happened to it.
LEMMA ChangeShows == ASSUME BaseInv, Disturb PROVE changes' # Untouched
<1>1. \E path \in Entries : Creates(path) \/ Unlinks(path) \/ MovesAway(path)
  BY EffectsIs
<1>2. \/ changes'.created # {} \/ changes'.removed # {} \/ changes'.moved # {}
  BY <1>1 DEF Creates, Unlinks, MovesAway
<1> QED
  BY <1>2 DEF Untouched

LEMMA HandledStep ==
    ASSUME SiteInv, phase = "handled", FNext, UNCHANGED site
    PROVE  SiteInv'
<1>1. request' = request /\ mounts' = mounts /\ phase' = phase
  BY DEF site
<1>2. /\ MeantForHandler' <=> MeantForHandler
      /\ InfoMeant' = InfoMeant
  BY <1>1 DEF MeantForHandler, InfoMeant, IsUnder
<1>3. Resolving /\ BaseInv /\ Resolving'
  BY ResolvingStep DEF SiteInv, Resolving
<1>4. path_info' = path_info
  BY <1>3, ResolveIs, DisturbIs DEF FNext, call
<1>5. ASSUME changes' = Untouched PROVE truths' = {Resolved(fs', path_info')}
  <2>1. Resolve
    BY <1>3, <1>5, ChangeShows DEF FNext
  <2>2. UNCHANGED <<fs, truths, changes>>
    BY <1>3, <2>1, ResolveIs
  <2> QED
    BY <1>4, <1>5, <2>2 DEF SiteInv
<1> QED
  BY <1>1, <1>2, <1>3, <1>4, <1>5 DEF SiteInv


LEMMA SiteStep ==
    ASSUME SiteInv, [SNext]_<<vars, site>>
    PROVE  SiteInv'
<1>1. CASE Route
  BY <1>1, RouteStep
<1>2. ASSUME phase = "handled", Resolve \/ Disturb, UNCHANGED site
      PROVE  SiteInv'
  BY <1>2, HandledStep DEF FNext
<1>3. CASE UNCHANGED <<vars, site>>
  <2>1. UNCHANGED vars /\ UNCHANGED site
    BY <1>3
  <2>2. request' = request /\ mounts' = mounts /\ phase' = phase
    BY <2>1 DEF site
  <2>3. /\ fs' = fs /\ truths' = truths /\ changes' = changes /\ path_info' = path_info
        /\ segments' = segments /\ stage' = stage /\ index' = index /\ answer' = answer
        /\ filename' = filename /\ script' = script
    BY <2>1 DEF vars, call
  <2>4. Resolving'
    BY <2>1, ResolvingStep DEF SiteInv
  <2>5. /\ MeantForHandler' <=> MeantForHandler
        /\ InfoMeant' = InfoMeant
    BY <2>2 DEF MeantForHandler, InfoMeant, IsUnder
  <2>6. Starting' <=> Starting
    BY <2>3 DEF Starting
  <2> QED
    BY <2>2, <2>3, <2>4, <2>5, <2>6 DEF SiteInv
<1>4. Route \/ UNCHANGED <<vars, site>>
      \/ (phase = "handled" /\ (Resolve \/ Disturb) /\ UNCHANGED site)
  BY DEF SNext
<1> QED
  BY <1>1, <1>2, <1>3, <1>4

LEMMA SiteHolds == SSpec => []SiteInv
<1>1. SiteInv /\ [SNext]_<<vars, site>> => SiteInv'
  BY SiteStep
<1> QED
  BY <1>1, SiteStarts, PTL DEF SSpec

LEMMA FileComes ==
    ASSUME SiteInv
    PROVE  FileArrives
<1>1. /\ Resolving /\ BaseInv /\ fs \in Trees /\ Normal(path_info)
      /\ phase # "handled" => ~Done
      /\ phase = "handled" => path_info = InfoMeant
      /\ phase # "asked" => (phase = "handled" <=> MeantForHandler)
      /\ changes = Untouched => truths = {Resolved(fs, path_info)}
  BY DEF SiteInv, Resolving, BaseInv, Starting, Done
<1>2. ASSUME Done, changes = Untouched, Kind(fs, PlaceMeant) = "file",
             InfoMeant # <<>> => Last(InfoMeant) # Slash
      PROVE  answer = IF Hidden(InfoMeant) THEN NotFound
                      ELSE Answer("file", PlaceMeant, InfoMeant, <<>>)
  <2>1. path_info = InfoMeant /\ Normal(InfoMeant)
    BY <1>1, <1>2
  <2>2. Touched = {}
    BY <1>2 DEF Touched, Untouched
  <2>3. truths = {answer}
    BY <1>1, <1>2, <2>2, ResolvingMeans DEF OnlyTheWayMatters
  <2>4. answer = Resolved(fs, InfoMeant)
    BY <1>1, <1>2, <2>1, <2>3
  <2>5. Kind(fs, ExpandPath(Root \o InfoMeant)) = "file"
    BY <1>2 DEF PlaceMeant
  <2> DEFINE info == InfoMeant
  <2>6. /\ Normal(info)
        /\ info # <<>> => Last(info) # Slash
        /\ Kind(fs, ExpandPath(Root \o info)) = "file"
    BY <1>2, <2>1, <2>5
  <2> HIDE DEF info
  <2>7. Resolved(fs, info) = IF Hidden(info) THEN NotFound
                             ELSE Answer("file", ExpandPath(Root \o info), info, <<>>)
    BY <1>1, <2>6, FileIsResolved
  <2> QED
    BY <2>4, <2>7 DEF info, PlaceMeant
<1> QED
  BY <1>1, <1>2 DEF FileArrives, Hidden

(***************************************************************************)
(* A request reaches FileHandler iff the place that its path names, in     *)
(* whatever spelling and whatever its names hold, lies under the handler's *)
(* mount and under no longer one; and if the file system keeps still, a    *)
(* request for the path of a file is answered with that file, script_name  *)
(* and path_info accounting for it - unless the root's name or one on the  *)
(* way is not to be disclosed.                                             *)
(***************************************************************************)
THEOREM FileAlwaysArrives == SSpec => []FileArrives
<1>1. SiteInv => FileArrives
  BY FileComes
<1> QED
  BY <1>1, SiteHolds, PTL

(***************************************************************************)
(* What FileHandler promises of a resolution it promises on a site, for    *)
(* what Service hands it: the path of any target that parseURI accepts.    *)
(***************************************************************************)
THEOREM SiteResolves ==
    SSpec => [](/\ TypeOK /\ OnlyTheWayMatters /\ ConcealedIsAbsent
                /\ GrowingTreeIsRead /\ ShrinkingTreeIsRead /\ AnswerAccountsForPath)
<1>1. SiteInv => /\ TypeOK /\ OnlyTheWayMatters /\ ConcealedIsAbsent
                 /\ GrowingTreeIsRead /\ ShrinkingTreeIsRead /\ AnswerAccountsForPath
  BY ResolvingMeans DEF SiteInv
<1> QED
  BY <1>1, SiteHolds, PTL
=============================================================================
