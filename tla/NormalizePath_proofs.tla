------------------------ MODULE NormalizePath_proofs ------------------------
(***************************************************************************)
(* NormalizePath is one walk with a stack: theorems about its rewriting,   *)
(* for every text it may be given.                                         *)
(***************************************************************************)
EXTENDS NormalizePath, Characters_proofs

-----------------------------------------------------------------------------
(* A path cut at a slash.                                                  *)

LEMMA CutAtPlace ==
    ASSUME NEW s \in Paths, NEW i \in 1..Len(s), s[i] = Slash
    PROVE  \E a \in Paths, x \in Segs, b \in Paths :
              s = a \o (x \o b) /\ Len(a) = i - 1
<1> DEFINE Cut(r, n) == \E a \in Paths, x \in Segs, b \in Paths :
                           r = a \o (x \o b) /\ Len(a) = n - 1
           P == {r \in Paths : \A n \in 1..Len(r) : r[n] = Slash => Cut(r, n)}
<1>1. <<>> \in P
  <2> DEFINE e == <<>>
  <2>1. e \in Paths
    BY PathsConcat
  <2>2. 1..Len(e) = {}
    OBVIOUS
  <2> HIDE DEF e, Cut
  <2>3. e \in P
    BY <2>1, <2>2
  <2> QED
    BY <2>3 DEF e
<1>2. ASSUME NEW r \in Paths, NEW y \in Segs, r \in P PROVE r \o y \in P
  <2> DEFINE q == r \o y
  <2>1. q \in Paths /\ y \in Paths /\ <<>> \in Paths
    BY PathsConcat
  <2>2. /\ y \in Seq(Nat) /\ r \in Seq(Nat) /\ Len(y) \in Nat \ {0}
        /\ \A k \in 2..Len(y) : y[k] # Slash
    BY NameOf DEF Paths, Segs
  <2>3. /\ Len(q) = Len(r) + Len(y)
        /\ \A n \in 1..Len(r) : q[n] = r[n]
        /\ \A n \in (Len(r) + 1)..Len(q) : q[n] = y[n - Len(r)]
    BY <2>2
  <2> SUFFICES ASSUME NEW n \in 1..Len(q), q[n] = Slash PROVE Cut(q, n)
    BY <2>1
  <2>4. CASE n \in 1..Len(r)
    <3>1. r[n] = Slash
      BY <2>3, <2>4
    <3>2. PICK a \in Paths, x \in Segs, b \in Paths : r = a \o (x \o b) /\ Len(a) = n - 1
      BY <1>2, <2>4, <3>1
    <3>3. x \in Paths /\ x \o b \in Paths /\ b \o y \in Paths
      BY <2>1, PathsConcat
    <3>4. q = (a \o (x \o b)) \o y
      BY <3>2
    <3>5. (a \o (x \o b)) \o y = a \o ((x \o b) \o y)
      <4> DEFINE u == x \o b
      <4>1. u \in Paths /\ y \in Paths
        BY <2>1, <3>3
      <4> HIDE DEF u
      <4>2. (a \o u) \o y = a \o (u \o y)
        <5>1. a \in Seq(Nat) /\ u \in Seq(Nat) /\ y \in Seq(Nat)
          BY <4>1 DEF Paths
        <5> QED
          BY <5>1, ConcatAssociative, SMTT(30)
      <4> QED
        BY <4>2 DEF u
    <3>6. (x \o b) \o y = x \o (b \o y)
      <4>1. x \in Seq(Nat) /\ b \in Seq(Nat) /\ y \in Seq(Nat)
        BY <2>1, <3>3 DEF Paths
      <4> QED
        BY <4>1, ConcatAssociative, SMTT(30)
    <3>7. q = a \o (x \o (b \o y))
      BY <3>4, <3>5, <3>6
    <3> QED
      BY <3>2, <3>3, <3>7
  <2>5. CASE n \notin 1..Len(r)
    <3>1. n \in (Len(r) + 1)..Len(q) /\ n - Len(r) \in 1..Len(y)
      BY <2>2, <2>3, <2>5
    <3>2. y[n - Len(r)] = Slash
      BY <2>3, <3>1
    <3>3. Len(r) = n - 1
      <4>1. n - Len(r) \notin 2..Len(y)
        BY <2>2, <3>2
      <4> QED
        BY <2>2, <3>1, <4>1
    <3>4. y \o <<>> = y
      BY <2>1, PathsAlgebra
    <3>5. q = r \o (y \o <<>>)
      BY <3>4
    <3> QED
      BY <2>1, <3>3, <3>5
  <2> QED
    BY <2>4, <2>5
<1> HIDE DEF P
<1>3. Paths \subseteq P
  BY <1>1, <1>2, PathInduction
<1> QED
  BY <1>3 DEF P

\* The places of a text in three parts.
LEMMA ThreeParts ==
    ASSUME NEW a \in Seq(Nat), NEW m \in Seq(Nat), NEW b \in Seq(Nat)
    PROVE  LET s == a \o (m \o b)
           IN  /\ s \in Seq(Nat) /\ Len(s) = Len(a) + Len(m) + Len(b)
               /\ \A k \in 1..Len(a) : s[k] = a[k]
               /\ \A k \in 1..Len(m) : s[Len(a) + k] = m[k]
               /\ \A k \in 1..Len(b) : s[Len(a) + Len(m) + k] = b[k]
<1> DEFINE u == m \o b
           s == a \o u
<1>1. /\ u \in Seq(Nat) /\ Len(u) = Len(m) + Len(b)
      /\ \A k \in 1..Len(m) : u[k] = m[k]
      /\ \A k \in (Len(m) + 1)..Len(u) : u[k] = b[k - Len(m)]
  OBVIOUS
<1>1a. u \in Seq(Nat)
  BY <1>1
<1> HIDE DEF u
<1>2. /\ s \in Seq(Nat) /\ Len(s) = Len(a) + Len(u)
      /\ \A k \in 1..Len(a) : s[k] = a[k]
      /\ \A k \in (Len(a) + 1)..Len(s) : s[k] = u[k - Len(a)]
  BY <1>1a
<1> HIDE DEF s
<1>3. ASSUME NEW k \in 1..Len(m) PROVE s[Len(a) + k] = m[k]
  <2>1. /\ Len(a) + k \in (Len(a) + 1)..Len(s) /\ (Len(a) + k) - Len(a) = k
    BY <1>1, <1>2
  <2> QED
    BY <1>1, <1>2, <2>1
<1>4. ASSUME NEW k \in 1..Len(b) PROVE s[Len(a) + Len(m) + k] = b[k]
  <2> DEFINE n == Len(m) + k
  <2>1. /\ Len(a) + n \in (Len(a) + 1)..Len(s) /\ (Len(a) + n) - Len(a) = n
        /\ n \in (Len(m) + 1)..Len(u) /\ n - Len(m) = k
        /\ Len(a) + n = Len(a) + Len(m) + k
    BY <1>1, <1>2
  <2> HIDE DEF n
  <2>2. s[Len(a) + n] = u[n]
    BY <1>2, <2>1
  <2>3. u[n] = b[k]
    BY <1>1, <2>1
  <2> QED
    BY <2>1, <2>2, <2>3
<1>5. Len(s) = Len(a) + Len(m) + Len(b)
  BY <1>1, <1>2
<1> QED
  BY <1>2, <1>3, <1>4, <1>5 DEF s, u

\* What stands before, in and behind the middle part.
LEMMA PartsOf ==
    ASSUME NEW a \in Seq(Nat), NEW m \in Seq(Nat), NEW b \in Seq(Nat), m # <<>>
    PROVE  LET s == a \o (m \o b)
               i == Len(a) + 1
           IN  /\ Before(s, i) = a
               /\ From(s, i + Len(m)) = b
               /\ \A k \in 1..Len(m) : SubSeq(s, i + k, (i + Len(m)) - 1) = SubSeq(m, k + 1, Len(m))
<1> DEFINE s == a \o (m \o b)
           i == Len(a) + 1
           l == Len(m)
<1>1. /\ s \in Seq(Nat) /\ Len(s) = Len(a) + l + Len(b)
      /\ \A k \in 1..Len(a) : s[k] = a[k]
      /\ \A k \in 1..l : s[Len(a) + k] = m[k]
      /\ \A k \in 1..Len(b) : s[Len(a) + l + k] = b[k]
  BY ThreeParts
<1>2. l \in Nat \ {0} /\ l = Len(m) /\ Len(a) \in Nat /\ Len(b) \in Nat /\ i = Len(a) + 1
  OBVIOUS
<1> HIDE DEF s, i, l
<1>3. Before(s, i) = a
  <2>1. 1 \in 1..(Len(s) + 1) /\ i - 1 \in 0..Len(s) /\ ((i - 1) - 1) + 1 = Len(a)
    BY <1>1, <1>2
  <2>2. SubSeq(s, 1, i - 1) = [k \in 1..(((i - 1) - 1) + 1) |-> s[(1 + k) - 1]]
    BY <1>1, <2>1, PartIs
  <2>3. \A k \in 1..Len(a) : s[(1 + k) - 1] = a[k]
    BY <1>1
  <2>4. a = [k \in 1..Len(a) |-> a[k]]
    OBVIOUS
  <2>5. SubSeq(s, 1, i - 1) = a
    BY <2>1, <2>2, <2>3, <2>4
  <2> QED
    BY <2>5 DEF Before
<1>4. From(s, i + l) = b
  <2>1. i + l \in 1..(Len(s) + 1) /\ Len(s) \in 0..Len(s) /\ (Len(s) - (i + l)) + 1 = Len(b)
    BY <1>1, <1>2
  <2>2. SubSeq(s, i + l, Len(s)) = [k \in 1..((Len(s) - (i + l)) + 1) |-> s[((i + l) + k) - 1]]
    BY <1>1, <2>1, PartIs
  <2>3. ASSUME NEW k \in 1..Len(b) PROVE s[((i + l) + k) - 1] = b[k]
    <3>1. ((i + l) + k) - 1 = Len(a) + l + k
      BY <1>2
    <3> QED
      BY <1>1, <3>1
  <2>4. b = [k \in 1..Len(b) |-> b[k]]
    OBVIOUS
  <2>5. SubSeq(s, i + l, Len(s)) = b
    BY <2>1, <2>2, <2>3, <2>4
  <2> QED
    BY <2>5 DEF From
<1>5. ASSUME NEW n \in 1..l
      PROVE  SubSeq(s, i + n, (i + l) - 1) = SubSeq(m, n + 1, l)
  <2> DEFINE j == i + n
             e == (i + l) - 1
  <2>1. /\ j \in 1..(Len(s) + 1) /\ e \in 0..Len(s) /\ (e - j) + 1 = l - n
        /\ n + 1 \in 1..(Len(m) + 1) /\ l \in 0..Len(m) /\ (l - (n + 1)) + 1 = l - n
    BY <1>1, <1>2
  <2> HIDE DEF j, e
  <2>2. SubSeq(s, j, e) = [k \in 1..((e - j) + 1) |-> s[(j + k) - 1]]
    BY <1>1, <2>1, PartIs
  <2>3. SubSeq(m, n + 1, l) = [k \in 1..((l - (n + 1)) + 1) |-> m[((n + 1) + k) - 1]]
    BY <2>1, PartIs
  <2>4. ASSUME NEW k \in 1..(l - n) PROVE s[(j + k) - 1] = m[((n + 1) + k) - 1]
    <3>1. n + k \in 1..l /\ (j + k) - 1 = Len(a) + (n + k) /\ ((n + 1) + k) - 1 = n + k
      BY <1>2 DEF j
    <3>2. s[Len(a) + (n + k)] = m[n + k]
      BY <1>1, <3>1
    <3> QED
      BY <3>1, <3>2
  <2>5. SubSeq(s, j, e) = SubSeq(m, n + 1, l)
    BY <2>1, <2>2, <2>3, <2>4
  <2> QED
    BY <2>5 DEF j, e
<1> QED
  BY <1>3, <1>4, <1>5 DEF s, i, l

\* The segment at a slash: where it ends, and what stands at its places.
LEMMA SegmentAt ==
    ASSUME NEW a \in Paths, NEW x \in Segs, NEW b \in Paths
    PROVE  LET s == a \o (x \o b)
               i == Len(a) + 1
           IN  /\ s \in Paths /\ s \in Seq(Nat) /\ i \in 1..Len(s) /\ s[i] = Slash
               /\ Len(s) = Len(a) + Len(x) + Len(b)
               /\ \A k \in 1..Len(x) : s[Len(a) + k] = x[k]
               /\ EndsAt(s, i + Len(x))
               /\ i + Len(x) <= Len(s) <=> b # <<>>
               /\ Next(s, i + 1, {Slash}) = i + Len(x)
               /\ SubSeq(s, i + 1, (i + Len(x)) - 1) = Tail(x)
<1> DEFINE s == a \o (x \o b)
           i == Len(a) + 1
           l == Len(x)
<1>1. /\ a \in Seq(Nat) /\ b \in Seq(Nat)
      /\ b # <<>> => b[1] = Slash
  BY DEF Paths
<1>2. /\ x \in Seq(Nat) /\ l \in Nat \ {0} /\ x[1] = Slash
      /\ \A k \in 2..l : x[k] # Slash
  BY NameOf DEF Segs
<1>3. x # <<>>
  BY <1>2
<1>4. /\ s \in Seq(Nat) /\ Len(s) = Len(a) + l + Len(b)
      /\ \A k \in 1..Len(a) : s[k] = a[k]
      /\ \A k \in 1..l : s[Len(a) + k] = x[k]
      /\ \A k \in 1..Len(b) : s[Len(a) + l + k] = b[k]
  <2>1. a \in Seq(Nat) /\ x \in Seq(Nat) /\ b \in Seq(Nat)
    BY <1>1, <1>2
  <2> QED
    BY <2>1, ThreeParts, Zenon
<1>5. s \in Paths
  BY PathsConcat
<1>6. SubSeq(s, i + 1, (i + l) - 1) = SubSeq(x, 2, l)
  <2>1. \A k \in 1..l : SubSeq(s, i + k, (i + l) - 1) = SubSeq(x, k + 1, l)
    BY <1>1, <1>2, <1>3, PartsOf
  <2>2. 1 \in 1..l /\ 1 + 1 = 2
    BY <1>2
  <2> HIDE DEF s, i, l
  <2> QED
    BY <2>1, <2>2
<1>7. SubSeq(x, 2, l) = Tail(x)
  <2>1. 2 \in 1..(Len(x) + 1) /\ l \in 0..Len(x) /\ (l - 2) + 1 = Len(x) - 1
    BY <1>2
  <2>2. SubSeq(x, 2, l) = [k \in 1..((l - 2) + 1) |-> x[(2 + k) - 1]]
    BY <1>2, <2>1, PartIs
  <2>3. Tail(x) = [k \in 1..(Len(x) - 1) |-> x[k + 1]]
    BY NameOf
  <2>4. \A k \in 1..(Len(x) - 1) : (2 + k) - 1 = k + 1
    OBVIOUS
  <2> QED
    BY <2>1, <2>2, <2>3, <2>4
<1>8. Len(a) \in Nat /\ Len(b) \in Nat /\ i = Len(a) + 1 /\ l = Len(x)
  BY <1>1
<1>9. b # <<>> <=> Len(b) >= 1
  BY <1>1
<1> HIDE DEF s, i, l
<1>10. i \in 1..Len(s) /\ s[i] = Slash
  <2>1. i \in 1..Len(s) /\ 1 \in 1..l /\ i = Len(a) + 1
    BY <1>2, <1>4, <1>8
  <2>2. s[Len(a) + 1] = x[1]
    BY <1>4, <2>1
  <2> QED
    BY <1>2, <2>1, <2>2
<1>11. i + l <= Len(s) <=> b # <<>>
  BY <1>2, <1>4, <1>8, <1>9
<1>12. i + l <= Len(s) => s[i + l] = Slash
  <2> SUFFICES ASSUME i + l <= Len(s) PROVE s[i + l] = Slash
    OBVIOUS
  <2>1. b # <<>> /\ b[1] = Slash
    BY <1>1, <1>11
  <2>2. 1 \in 1..Len(b) /\ Len(a) + l + 1 = i + l
    <3>1. Len(b) >= 1 /\ l \in Nat
      BY <1>2, <1>9, <2>1
    <3> QED
      BY <1>8, <3>1
  <2>3. s[Len(a) + l + 1] = b[1]
    BY <1>4, <2>2
  <2> QED
    BY <2>1, <2>2, <2>3
<1>13. EndsAt(s, i + l)
  BY <1>2, <1>4, <1>8, <1>12 DEF EndsAt
<1>14. Next(s, i + 1, {Slash}) = i + l
  <2>1. /\ i + 1 \in Nat \ {0} /\ i + l \in (i + 1)..(Len(s) + 1)
    BY <1>2, <1>4, <1>8
  <2>2. ASSUME NEW j \in (i + 1)..((i + l) - 1) PROVE s[j] \notin {Slash}
    <3> DEFINE k == j - Len(a)
    <3>1. k \in 2..l /\ k \in 1..l /\ j = Len(a) + k
      BY <1>2, <1>8
    <3> HIDE DEF k
    <3>2. s[j] = x[k]
      BY <1>4, <3>1
    <3> QED
      BY <1>2, <3>1, <3>2
  <2> QED
    BY <1>4, <1>12, <2>1, <2>2, NextIs
<1> QED
  BY <1>4, <1>5, <1>6, <1>7, <1>10, <1>11, <1>13, <1>14 DEF s, i, l

\* subOnce on a part of whole segments: the slash it leaves is the one that
\* followed, or one of its own at the end.
LEMMA ReplacedIs ==
    ASSUME NEW a \in Paths, NEW m \in Paths, NEW b \in Paths, m # <<>>
    PROVE  Replaced(a \o (m \o b), Len(a) + 1, Len(a) + 1 + Len(m))
              = IF b = <<>> THEN a \o <<Slash>> ELSE a \o b
<1> DEFINE s == a \o (m \o b)
           i == Len(a) + 1
           e == i + Len(m)
<1>1. /\ a \in Seq(Nat) /\ m \in Seq(Nat) /\ b \in Seq(Nat)
      /\ b # <<>> => b[1] = Slash
  BY DEF Paths
<1>2. Before(s, i) = a /\ From(s, e) = b
  BY <1>1, PartsOf
<1>3. s \in Seq(Nat) /\ Len(s) = Len(a) + Len(m) + Len(b)
  BY <1>1, ThreeParts
<1>4. /\ Len(a) \in Nat /\ Len(b) \in Nat /\ Len(m) \in Nat
      /\ b = <<>> <=> Len(b) = 0
  BY <1>1
<1>5. e = Len(a) + 1 + Len(m)
  OBVIOUS
<1>6. From(s, e) = SubSeq(s, e, Len(s)) /\ From(s, e + 1) = SubSeq(s, e + 1, Len(s))
  BY DEF From
<1>7. Replaced(s, i, e) = Append(a, Slash) \o From(s, e + 1)
  BY <1>2 DEF Replaced
<1>8. Append(a, Slash) = a \o <<Slash>> /\ Append(a, Slash) \in Seq(Nat)
  BY <1>1 DEF Slash
<1> HIDE DEF s, i, e
<1>9. CASE b = <<>>
  <2>1. Len(s) - (e + 1) + 1 < 1
    BY <1>3, <1>4, <1>5, <1>9
  <2>2. From(s, e + 1) = <<>>
    <3>1. SubSeq(s, e + 1, Len(s)) = [k \in 1..(Len(s) - (e + 1) + 1) |-> s[(e + 1) + k - 1]]
      BY <1>3, <1>4, <1>5, SMTT(30)
    <3>2. 1..(Len(s) - (e + 1) + 1) = {}
      BY <2>1, <1>3, <1>4, <1>5
    <3> DEFINE g == [k \in 1..(Len(s) - (e + 1) + 1) |-> s[(e + 1) + k - 1]]
    <3>3. g = <<>>
      BY <3>2
    <3>4. From(s, e + 1) = g
      BY <1>6, <3>1
    <3> QED
      BY <3>3, <3>4, Zenon
  <2>3. Append(a, Slash) \o <<>> = Append(a, Slash)
    BY <1>8, ConcatEmptySeq
  <2> QED
    BY <1>7, <1>8, <1>9, <2>2, <2>3 DEF s, i, e
<1>10. CASE b # <<>>
  <2> DEFINE f == From(s, e + 1)
             q == Append(a, Slash) \o f
             r == a \o b
  <2>1. /\ e \in 1..(Len(s) + 1) /\ e + 1 \in 1..(Len(s) + 1) /\ Len(s) \in 0..Len(s)
        /\ (Len(s) - e) + 1 = Len(b) /\ (Len(s) - (e + 1)) + 1 = Len(b) - 1
    BY <1>3, <1>4, <1>5, <1>10
  <2>2. /\ f \in Seq(Nat)
        /\ f = [k \in 1..((Len(s) - (e + 1)) + 1) |-> s[((e + 1) + k) - 1]]
        /\ b = [k \in 1..((Len(s) - e) + 1) |-> s[(e + k) - 1]]
    BY <1>2, <1>3, <1>6, <2>1, PartIs
  <2>3. f = [k \in 1..(Len(b) - 1) |-> b[k + 1]]
    <3>1. \A k \in 1..(Len(b) - 1) :
             /\ k + 1 \in 1..((Len(s) - e) + 1)
             /\ (e + (k + 1)) - 1 = ((e + 1) + k) - 1
      BY <1>3, <1>4, <1>5, <2>1
    <3>2. \A k \in 1..(Len(b) - 1) : b[k + 1] = s[((e + 1) + k) - 1]
      BY <2>2, <3>1
    <3> QED
      BY <2>1, <2>2, <3>2
  <2> HIDE DEF f
  <2>4. Len(f) = Len(b) - 1 /\ \A k \in 1..(Len(b) - 1) : f[k] = b[k + 1]
    <3>1. Len(b) - 1 \in Nat
      BY <1>4, <1>10
    <3> QED
      BY <2>3, <3>1
  <2>5. /\ q \in Seq(Nat) /\ Len(q) = Len(a) + Len(b)
        /\ \A k \in 1..Len(a) : q[k] = a[k]
        /\ q[Len(a) + 1] = Slash
        /\ \A k \in (Len(a) + 2)..(Len(a) + Len(b)) : q[k] = f[k - (Len(a) + 1)]
    <3> DEFINE c == Append(a, Slash)
    <3>1. /\ c \in Seq(Nat) /\ Len(c) = Len(a) + 1 /\ c[Len(a) + 1] = Slash
          /\ \A k \in 1..Len(a) : c[k] = a[k]
      BY <1>1, <1>8
    <3>2. q = c \o f /\ f \in Seq(Nat) /\ c \in Seq(Nat)
      BY <2>2, <3>1
    <3> HIDE DEF c, q
    <3>3. /\ q \in Seq(Nat) /\ Len(q) = Len(c) + Len(f)
          /\ \A k \in 1..Len(c) : q[k] = c[k]
          /\ \A k \in (Len(c) + 1)..Len(q) : q[k] = f[k - Len(c)]
      BY <3>2
    <3>4. Len(c) = Len(a) + 1 /\ Len(q) = Len(a) + Len(b)
      BY <1>4, <2>4, <3>1, <3>3
    <3>5. /\ \A k \in 1..Len(a) : k \in 1..Len(c) /\ q[k] = a[k]
          /\ q[Len(a) + 1] = Slash
      BY <1>4, <3>1, <3>3, <3>4, SMTT(30)
    <3>6. \A k \in (Len(a) + 2)..(Len(a) + Len(b)) : q[k] = f[k - (Len(a) + 1)]
      BY <1>4, <3>3, <3>4, SMTT(30)
    <3> QED
      BY <3>3, <3>4, <3>5, <3>6
  <2>6. /\ r \in Seq(Nat) /\ Len(r) = Len(a) + Len(b)
        /\ \A k \in 1..Len(a) : r[k] = a[k]
        /\ \A k \in (Len(a) + 1)..Len(r) : r[k] = b[k - Len(a)]
    BY <1>1
  <2> HIDE DEF q, r
  <2>7. ASSUME NEW k \in 1..Len(r) PROVE q[k] = r[k]
    <3>1. CASE k \in 1..Len(a)
      BY <2>5, <2>6, <3>1
    <3>2. CASE k = Len(a) + 1
      <4>1. k \in (Len(a) + 1)..Len(r) /\ k - Len(a) = 1
        BY <1>4, <2>6, <3>2
      <4> QED
        BY <1>1, <1>10, <2>5, <2>6, <3>2, <4>1
    <3>3. CASE k \in (Len(a) + 2)..(Len(a) + Len(b))
      <4> DEFINE n == k - (Len(a) + 1)
      <4>1. n \in 1..(Len(b) - 1) /\ n + 1 = k - Len(a) /\ k \in (Len(a) + 1)..Len(r)
        BY <1>4, <2>6, <3>3
      <4>2. q[k] = f[n]
        BY <2>5, <3>3
      <4> HIDE DEF n
      <4> QED
        BY <2>4, <2>6, <4>1, <4>2
    <3> QED
      BY <1>4, <2>6, <3>1, <3>2, <3>3, SMTT(30)
  <2>8. q = r
    BY <2>5, <2>6, <2>7
  <2> QED
    BY <1>7, <1>10, <2>8 DEF s, i, e, q, r, f
<1> QED
  BY <1>9, <1>10

\* Taking whole segments out of a path brings no two slashes and no dot segment
\* together.
LEMMA WithoutPart ==
    ASSUME NEW a \in Paths, NEW m \in Paths, NEW b \in Paths, m # <<>>
    PROVE  LET s == a \o (m \o b)
               q == IF b = <<>> THEN a \o <<Slash>> ELSE a \o b
           IN  /\ SingleSlashes(s) => SingleSlashes(q)
               /\ DotSegments(s) = {} => DotSegments(q) = {}
<1> DEFINE s == a \o (m \o b)
           c == IF b = <<>> THEN <<Slash>> ELSE b
           d == Len(m)
<1>1. /\ a \in Seq(Nat) /\ m \in Seq(Nat) /\ b \in Seq(Nat)
      /\ b # <<>> => b[1] = Slash
      /\ m[1] = Slash
  BY DEF Paths
<1>2. /\ s \in Seq(Nat) /\ Len(s) = Len(a) + d + Len(b)
      /\ \A k \in 1..Len(a) : s[k] = a[k]
      /\ \A k \in 1..d : s[Len(a) + k] = m[k]
      /\ \A k \in 1..Len(b) : s[Len(a) + d + k] = b[k]
  <2>1. a \in Seq(Nat) /\ m \in Seq(Nat) /\ b \in Seq(Nat)
    BY <1>1
  <2> QED
    BY <2>1, ThreeParts, Zenon
<1>3. Len(a) \in Nat /\ Len(b) \in Nat /\ d \in Nat \ {0}
  BY <1>1
<1>4. c \in Seq(Nat) /\ Len(c) \in Nat \ {0} /\ c[1] = Slash
  <2>1. CASE b = <<>>
    BY <2>1 DEF Slash
  <2>2. CASE b # <<>>
    BY <1>1, <2>2
  <2> QED
    BY <2>1, <2>2
<1>5. \A k \in 2..Len(c) : k \in 1..Len(b) /\ Len(c) = Len(b) /\ s[Len(a) + d + k] = c[k]
  <2>1. CASE b = <<>>
    <3>1. Len(c) = 1
      BY <2>1
    <3> QED
      BY <3>1
  <2>2. CASE b # <<>>
    <3>1. c = b /\ \A k \in 2..Len(b) : k \in 1..Len(b)
      BY <2>2
    <3> QED
      BY <1>2, <3>1
  <2> QED
    BY <2>1, <2>2
<1> DEFINE r == a \o c
<1>6. r = IF b = <<>> THEN a \o <<Slash>> ELSE a \o b
  OBVIOUS
<1>7. c \in Seq(Nat) /\ a \in Seq(Nat)
  BY <1>1, <1>4
<1> HIDE DEF c, s, d
<1>8. /\ r \in Seq(Nat) /\ Len(r) = Len(a) + Len(c)
      /\ \A k \in 1..Len(a) : r[k] = a[k]
      /\ \A k \in (Len(a) + 1)..Len(r) : r[k] = c[k - Len(a)]
  BY <1>7
<1> HIDE DEF r
\* The places of r, seen in s: those up to the slash, and those from it on.
<1>9. /\ \A k \in 1..(Len(a) + 1) : r[k] = s[k]
      /\ r[Len(a) + 1] = Slash
  <2>1. Len(a) + 1 \in (Len(a) + 1)..Len(r) /\ (Len(a) + 1) - Len(a) = 1
    BY <1>3, <1>4, <1>8
  <2>2. r[Len(a) + 1] = Slash
    BY <1>4, <1>8, <2>1
  <2>3. s[Len(a) + 1] = Slash
    BY <1>1, <1>2, <1>3, SMTT(30)
  <2>4. ASSUME NEW k \in 1..(Len(a) + 1) PROVE r[k] = s[k]
    <3>1. k \in 1..Len(a) \/ k = Len(a) + 1
      BY <1>3
    <3> QED
      BY <1>2, <1>8, <2>2, <2>3, <3>1
  <2> QED
    BY <2>2, <2>4
<1>10. ASSUME NEW k \in (Len(a) + 2)..Len(r)
       PROVE  k + d \in 1..Len(s) /\ r[k] = s[k + d] /\ Len(r) + d = Len(s)
  <2> DEFINE n == k - Len(a)
  <2>1. n \in 2..Len(c) /\ k \in (Len(a) + 1)..Len(r) /\ Len(a) + d + n = k + d
    BY <1>3, <1>4, <1>8
  <2>2. r[k] = c[n]
    BY <1>8, <2>1
  <2> HIDE DEF n
  <2>3. n \in 1..Len(b) /\ Len(c) = Len(b) /\ s[Len(a) + d + n] = c[n]
    BY <1>5, <2>1
  <2>4. k + d \in 1..Len(s) /\ Len(r) + d = Len(s)
    BY <1>2, <1>3, <1>8, <2>1, <2>3
  <2> QED
    BY <2>1, <2>2, <2>3, <2>4
<1>11. Len(a) + 1 <= Len(s) /\ Len(a) + 1 <= Len(r)
  BY <1>2, <1>3, <1>4, <1>8, SMTT(30)
<1>12. ASSUME SingleSlashes(s) PROVE SingleSlashes(r)
  <2>1. ASSUME NEW k \in 1..(Len(s) - 1), s[k] = Slash PROVE s[k + 1] # Slash
    BY <1>12, <2>1 DEF SingleSlashes
  <2> SUFFICES ASSUME NEW k \in 1..(Len(r) - 1), r[k] = Slash PROVE r[k + 1] # Slash
    BY DEF SingleSlashes
  <2>2. CASE k \in 1..Len(a)
    <3>1. k \in 1..(Len(s) - 1) /\ k \in 1..(Len(a) + 1) /\ k + 1 \in 1..(Len(a) + 1)
      BY <1>2, <1>3, <2>2
    <3> QED
      BY <1>9, <2>1, <3>1
  <2>3. CASE k = Len(a) + 1
    <3>1. k + 1 \in (Len(a) + 2)..Len(r)
      BY <1>3, <1>8, <2>3
    <3>2. k + 1 + d \in 1..Len(s) /\ r[k + 1] = s[k + 1 + d] /\ Len(r) + d = Len(s)
      BY <1>3, <1>10, <3>1
    <3> DEFINE j == Len(a) + d + 1
    <3>3. s[j] = Slash
      <4>1. Len(c) >= 2
        BY <1>3, <1>4, <1>8, <2>3
      <4>2. 2 \in 2..Len(c)
        BY <1>4, <4>1
      <4>3. 2 \in 1..Len(b)
        BY <1>5, <4>2
      <4>4. 1 \in 1..Len(b) /\ b # <<>>
        BY <1>1, <4>3
      <4> QED
        BY <1>1, <1>2, <4>4
    <3>4. j \in 1..(Len(s) - 1) /\ j + 1 = k + 1 + d
      BY <1>3, <2>3, <3>2
    <3> HIDE DEF j
    <3>5. s[j + 1] # Slash
      BY <2>1, <3>3, <3>4
    <3> QED
      BY <3>2, <3>4, <3>5
  <2>4. CASE k \in (Len(a) + 2)..Len(r)
    <3>1. k + 1 \in (Len(a) + 2)..Len(r)
      BY <1>3, <1>8, <2>4
    <3>2. r[k] = s[k + d] /\ k + d \in 1..Len(s)
      BY <1>10, <2>4
    <3>3. r[k + 1] = s[(k + d) + 1] /\ (k + d) + 1 \in 1..Len(s)
      <4>1. (k + 1) + d = (k + d) + 1
        BY <1>3
      <4> QED
        BY <1>10, <3>1, <4>1
    <3>4. k + d \in 1..(Len(s) - 1)
      BY <1>2, <1>3, <3>2, <3>3
    <3> QED
      BY <2>1, <3>2, <3>3, <3>4
  <2> QED
    BY <1>3, <1>8, <2>2, <2>3, <2>4
<1>13. ASSUME DotSegments(s) = {} PROVE DotSegments(r) = {}
  <2>1. ASSUME NEW k \in 1..(Len(s) - 1), s[k] = Slash, s[k + 1] = Dot, EndsAt(s, k + 2)
        PROVE  FALSE
    BY <1>13, <2>1 DEF DotSegments
  <2> SUFFICES ASSUME NEW k \in 1..(Len(r) - 1), r[k] = Slash, r[k + 1] = Dot,
                      EndsAt(r, k + 2)
               PROVE  FALSE
    BY DEF DotSegments
  <2>2. CASE k \in 1..Len(a)
    <3>1. /\ k \in 1..(Len(s) - 1) /\ k \in 1..(Len(a) + 1)
          /\ k + 1 \in 1..(Len(a) + 1)
      BY <1>2, <1>3, <2>2
    <3>2. s[k] = Slash /\ s[k + 1] = Dot
      BY <1>9, <3>1
    <3>3. k + 1 # Len(a) + 1
      <4>1. Slash # Dot
        BY DEF Slash, Dot
      <4> QED
        BY <1>9, <4>1
    <3>4. k + 2 \in 1..(Len(a) + 1) /\ k + 2 <= Len(r)
      BY <1>3, <1>11, <3>1, <3>3
    <3>5. r[k + 2] = Slash
      <4>1. k + 2 > Len(r) \/ r[k + 2] = Slash
        BY DEF EndsAt
      <4>2. ~(k + 2 > Len(r))
        BY <1>8, <3>4
      <4> QED
        BY <4>1, <4>2
    <3>6. EndsAt(s, k + 2)
      BY <1>9, <3>4, <3>5 DEF EndsAt
    <3> QED
      BY <2>1, <3>1, <3>2, <3>6
  <2>3. CASE k \in (Len(a) + 1)..Len(r)
    <3> DEFINE j == k + d
    <3>1. k + 1 \in (Len(a) + 2)..Len(r)
      BY <1>3, <1>8, <2>3
    <3>2. (k + 1) + d = j + 1 /\ (k + 2) + d = j + 2
      BY <1>3
    <3>3. r[k + 1] = s[j + 1] /\ j + 1 \in 1..Len(s) /\ Len(r) + d = Len(s)
      BY <1>10, <3>1, <3>2
    <3>4. s[j] = Slash
      <4>1. CASE k = Len(a) + 1
        <5>1. Len(c) >= 2
          BY <1>3, <1>4, <1>8, <3>1
        <5>2. 2 \in 2..Len(c)
          BY <1>4, <5>1
        <5>3. 2 \in 1..Len(b)
          BY <1>5, <5>2
        <5>4. 1 \in 1..Len(b) /\ b # <<>> /\ j = Len(a) + d + 1
          BY <1>1, <1>3, <4>1, <5>3
        <5> QED
          BY <1>1, <1>2, <5>4
      <4>2. CASE k # Len(a) + 1
        <5>1. k \in (Len(a) + 2)..Len(r)
          BY <1>3, <1>8, <2>3, <4>2, SMTT(30)
        <5> QED
          BY <1>10, <5>1
      <4> QED
        BY <4>1, <4>2
    <3>5. EndsAt(s, j + 2)
      <4>1. CASE k + 2 > Len(r)
        <5>1. j + 2 > Len(s)
          BY <1>2, <1>3, <1>8, <3>3, <4>1
        <5> QED
          BY <5>1 DEF EndsAt
      <4>2. CASE ~(k + 2 > Len(r))
        <5>1. r[k + 2] = Slash
          BY <4>2 DEF EndsAt
        <5>2. k + 2 \in (Len(a) + 2)..Len(r)
          BY <1>3, <1>8, <3>1, <4>2
        <5>3. r[k + 2] = s[j + 2]
          BY <1>10, <3>2, <5>2
        <5> QED
          BY <5>1, <5>3 DEF EndsAt
      <4> QED
        BY <4>1, <4>2
    <3>6. j \in 1..(Len(s) - 1)
      BY <1>2, <1>3, <2>3, <3>3
    <3> HIDE DEF j
    <3> QED
      BY <2>1, <3>3, <3>4, <3>5, <3>6
  <2> QED
    BY <1>3, <1>8, <2>2, <2>3
<1> QED
  BY <1>6, <1>12, <1>13 DEF s

-----------------------------------------------------------------------------
(* The segments that the patterns of the code match.                       *)

LEMMA SameText ==
    ASSUME NEW s \in Seq(Nat), NEW t \in Seq(Nat), Len(s) = Len(t),
           \A k \in 1..Len(s) : s[k] = t[k]
    PROVE  s = t
OBVIOUS

LEMMA DotTexts ==
    /\ Here \in Seq(Nat) /\ Len(Here) = 1 /\ Here[1] = Dot
    /\ Up \in Seq(Nat) /\ Len(Up) = 2 /\ Up[1] = Dot /\ Up[2] = Dot
    /\ <<Slash, Dot, Dot>> \in Seq(Nat) /\ Len(<<Slash, Dot, Dot>>) = 3
BY DEF Here, Up, Slash, Dot

\* A segment by its name.
LEMMA ByName ==
    ASSUME NEW x \in Segs
    PROVE  /\ Tail(x) = <<>> <=> Len(x) = 1
           /\ Tail(x) = Here <=> Len(x) = 2 /\ x[2] = Dot
           /\ Tail(x) = Up <=> Len(x) = 3 /\ x[2] = Dot /\ x[3] = Dot
<1> DEFINE t == Tail(x)
<1>1. /\ x \in Seq(Nat) /\ Len(x) \in Nat \ {0}
      /\ t \in Seq(Nat) /\ Len(t) = Len(x) - 1
      /\ t = [k \in 1..(Len(x) - 1) |-> x[k + 1]]
  BY NameOf
<1> HIDE DEF t
<1>2. \A k \in 1..(Len(x) - 1) : t[k] = x[k + 1]
  BY <1>1
<1>2a. t \in Seq(Nat) /\ Len(t) = Len(x) - 1 /\ Len(x) \in Nat \ {0}
  BY <1>1
<1>3. t = <<>> <=> Len(t) = 0
  BY <1>2a
<1>4. t = Here <=> Len(x) = 2 /\ x[2] = Dot
  <2>1. ASSUME t = Here PROVE Len(x) = 2 /\ x[2] = Dot
    <3>1. Len(t) = 1 /\ t[1] = Dot
      BY <2>1, DotTexts
    <3>2. Len(x) = 2
      <4> DEFINE n == Len(x)
      <4>1. n - 1 = 1 /\ n \in Nat
        BY <1>2a, <3>1
      <4> HIDE DEF n
      <4>2. n = 2
        BY <4>1
      <4> QED
        BY <4>2 DEF n
    <3>3. 1 \in 1..(Len(x) - 1) /\ 1 + 1 = 2
      BY <3>2
    <3> QED
      BY <1>2, <3>1, <3>2, <3>3
  <2>2. ASSUME Len(x) = 2, x[2] = Dot PROVE t = Here
    <3>1. Len(t) = 1 /\ t[1] = Dot
      BY <1>2, <1>2a, <2>2
    <3>2. \A k \in 1..Len(t) : t[k] = Here[k]
      BY <3>1, DotTexts
    <3> QED
      BY <1>2a, <3>1, <3>2, DotTexts, SameText
  <2> QED
    BY <2>1, <2>2
<1>5. t = Up <=> Len(x) = 3 /\ x[2] = Dot /\ x[3] = Dot
  <2>1. ASSUME t = Up PROVE Len(x) = 3 /\ x[2] = Dot /\ x[3] = Dot
    <3>1. Len(t) = 2 /\ t[1] = Dot /\ t[2] = Dot
      BY <2>1, DotTexts
    <3>2. Len(x) = 3
      <4> DEFINE n == Len(x)
      <4>1. n - 1 = 2 /\ n \in Nat
        BY <1>2a, <3>1
      <4> HIDE DEF n
      <4>2. n = 3
        BY <4>1
      <4> QED
        BY <4>2 DEF n
    <3>3. /\ 1 \in 1..(Len(x) - 1) /\ 2 \in 1..(Len(x) - 1)
          /\ 1 + 1 = 2 /\ 2 + 1 = 3
      BY <3>2
    <3> QED
      BY <1>2, <3>1, <3>2, <3>3
  <2>2. ASSUME Len(x) = 3, x[2] = Dot, x[3] = Dot PROVE t = Up
    <3>1. Len(t) = 2 /\ t[1] = Dot /\ t[2] = Dot
      BY <1>2, <1>2a, <2>2
    <3>2. \A k \in 1..Len(t) : k = 1 \/ k = 2
      BY <3>1
    <3>3. \A k \in 1..Len(t) : t[k] = Up[k]
      BY <3>1, <3>2, DotTexts
    <3> QED
      BY <1>2a, <3>1, <3>3, DotTexts, SameText
  <2> QED
    BY <2>1, <2>2
<1> QED
  BY <1>1, <1>3, <1>4, <1>5, SMTT(30) DEF t

\* Three characters of a text.
LEMMA ThreeOf ==
    ASSUME NEW s \in Seq(Nat), NEW i \in Nat \ {0}, i + 2 <= Len(s)
    PROVE  SubSeq(s, i, i + 2) = <<Slash, Dot, Dot>>
              <=> s[i] = Slash /\ s[i + 1] = Dot /\ s[i + 2] = Dot
<1> DEFINE u == SubSeq(s, i, i + 2)
<1>1. u \in Seq(Nat) /\ u = [k \in 1..3 |-> s[(i + k) - 1]]
  <2>1. i \in 1..(Len(s) + 1) /\ i + 2 \in 0..Len(s) /\ ((i + 2) - i) + 1 = 3
    OBVIOUS
  <2> QED
    BY <2>1, PartIs
<1> HIDE DEF u
<1>2. Len(u) = 3 /\ u[1] = s[i] /\ u[2] = s[i + 1] /\ u[3] = s[i + 2]
  <2>1. (i + 1) - 1 = i /\ (i + 2) - 1 = i + 1 /\ (i + 3) - 1 = i + 2
    OBVIOUS
  <2>2. u[1] = s[(i + 1) - 1] /\ u[2] = s[(i + 2) - 1] /\ u[3] = s[(i + 3) - 1]
    BY <1>1
  <2>3. Len(u) = 3
    BY <1>1
  <2> QED
    BY <2>1, <2>2, <2>3
<1>3. u \in Seq(Nat)
  BY <1>1
<1> DEFINE v == <<Slash, Dot, Dot>>
<1>4. v \in Seq(Nat) /\ Len(v) = 3 /\ v[1] = Slash /\ v[2] = Dot /\ v[3] = Dot
  BY DotTexts
<1> HIDE DEF v
<1>5. ASSUME u[1] = Slash, u[2] = Dot, u[3] = Dot PROVE u = v
  <2>1. \A k \in 1..Len(u) : k = 1 \/ k = 2 \/ k = 3
    BY <1>2
  <2>2. \A k \in 1..Len(u) : u[k] = v[k]
    BY <1>4, <1>5, <2>1
  <2> QED
    BY <1>2, <1>3, <1>4, <2>2, SameText
<1> QED
  BY <1>2, <1>4, <1>5, Zenon DEF u, v

\* dotSegment and ParentAt match whole segments, a slash after a slash is an
\* empty one.
LEMMA Matches ==
    ASSUME NEW a \in Paths, NEW x \in Segs, NEW b \in Paths
    PROVE  LET s == a \o (x \o b)
               i == Len(a) + 1
           IN  /\ i \in DotSegments(s) <=> Tail(x) = Here
               /\ ParentAt(s, i) <=> Tail(x) = Up
               /\ SingleSlashes(s) /\ b # <<>> => Tail(x) # <<>>
               /\ NameAt(s, i) <=> Tail(x) \notin {<<>>, Up}
<1> DEFINE s == a \o (x \o b)
           i == Len(a) + 1
           l == Len(x)
<1>1. /\ s \in Paths /\ s \in Seq(Nat) /\ i \in 1..Len(s) /\ s[i] = Slash
      /\ Len(s) = Len(a) + l + Len(b)
      /\ \A k \in 1..l : s[Len(a) + k] = x[k]
      /\ EndsAt(s, i + l)
      /\ i + l <= Len(s) <=> b # <<>>
      /\ Next(s, i + 1, {Slash}) = i + l
      /\ SubSeq(s, i + 1, (i + l) - 1) = Tail(x)
  BY SegmentAt, Zenon
<1>2. /\ a \in Seq(Nat) /\ b \in Seq(Nat)
      /\ b # <<>> => b[1] = Slash
  BY DEF Paths
<1>3. /\ x \in Seq(Nat) /\ l \in Nat \ {0} /\ x[1] = Slash
      /\ \A k \in 2..l : x[k] # Slash
  BY NameOf DEF Segs
<1>4. Len(a) \in Nat /\ Len(b) \in Nat /\ i = Len(a) + 1 /\ l = Len(x)
  BY <1>2
<1>5. Slash # Dot
  BY DEF Slash, Dot
<1> HIDE DEF s, i, l
<1>6. \A k \in 2..l : k \in 1..l /\ s[i + (k - 1)] = x[k] /\ x[k] # Slash
  <2> TAKE k \in 2..l
  <2>1. k \in 1..l /\ i + (k - 1) = Len(a) + k
    BY <1>3, <1>4
  <2> QED
    BY <1>1, <1>3, <2>1
\* Within the segment nothing ends before the segment does.
<1>7. ASSUME NEW k \in 1..l, EndsAt(s, i + k) PROVE k = l
  <2> SUFFICES ASSUME k # l PROVE FALSE
    OBVIOUS
  <2>1. k + 1 \in 2..l /\ i + k <= Len(s) /\ i + ((k + 1) - 1) = i + k
    BY <1>1, <1>3, <1>4, SMTT(30)
  <2>2. s[i + k] # Slash
    BY <1>6, <2>1
  <2>3. i + k > Len(s) \/ s[i + k] = Slash
    BY <1>7 DEF EndsAt
  <2>4. ~(i + k > Len(s))
    BY <1>1, <1>3, <1>4, <2>1
  <2> QED
    BY <2>2, <2>3, <2>4
<1>8. ASSUME NEW c \in Nat, c # Slash, i + 1 <= Len(s), s[i + 1] = c PROVE l >= 2
  <2> SUFFICES ASSUME l = 1 PROVE FALSE
    BY <1>3
  <2>1. i + l > Len(s) \/ s[i + l] = Slash
    BY <1>1 DEF EndsAt
  <2>2. ~(i + l > Len(s))
    BY <1>1, <1>4, <1>8
  <2> QED
    BY <1>8, <2>1, <2>2
<1>9. i \in DotSegments(s) <=> l = 2 /\ x[2] = Dot
  <2>1. ASSUME i \in DotSegments(s) PROVE l = 2 /\ x[2] = Dot
    <3>1. i \in 1..(Len(s) - 1) /\ s[i + 1] = Dot /\ EndsAt(s, i + 2)
      BY <2>1 DEF DotSegments
    <3>2. i + 1 <= Len(s)
      BY <1>1, <1>2, <3>1
    <3>3. l >= 2
      BY <1>5, <1>8, <3>1, <3>2 DEF Dot
    <3>4. 2 \in 1..l /\ 2 \in 2..l /\ 2 - 1 = 1
      BY <1>3, <3>3
    <3> QED
      BY <1>6, <1>7, <3>1, <3>4
  <2>2. ASSUME l = 2, x[2] = Dot PROVE i \in DotSegments(s)
    <3>1. 2 \in 2..l /\ 2 - 1 = 1
      BY <2>2
    <3>2. s[i + 1] = Dot /\ EndsAt(s, i + 2)
      BY <1>1, <1>6, <2>2, <3>1
    <3>3. i \in 1..(Len(s) - 1)
      BY <1>1, <1>4, <2>2
    <3> QED
      BY <1>1, <3>2, <3>3 DEF DotSegments
  <2> QED
    BY <2>1, <2>2
<1>10. ParentAt(s, i) <=> l = 3 /\ x[2] = Dot /\ x[3] = Dot
  <2>1. i \in Nat \ {0}
    BY <1>4
  <2>2. ASSUME ParentAt(s, i) PROVE l = 3 /\ x[2] = Dot /\ x[3] = Dot
    <3>1. i + 2 <= Len(s) /\ SubSeq(s, i, i + 2) = <<Slash, Dot, Dot>> /\ EndsAt(s, i + 3)
      BY <2>2 DEF ParentAt
    <3>2. s[i + 1] = Dot /\ s[i + 2] = Dot
      BY <1>1, <2>1, <3>1, ThreeOf
    <3>3. i + 1 <= Len(s)
      BY <1>1, <1>4, <3>1
    <3>4. l >= 2
      BY <1>5, <1>8, <3>2, <3>3 DEF Dot
    <3>5. l # 2
      <4> SUFFICES ASSUME l = 2 PROVE FALSE
        OBVIOUS
      <4>1. i + 2 > Len(s) \/ s[i + 2] = Slash
        BY <1>1 DEF EndsAt
      <4>2. ~(i + 2 > Len(s))
        BY <1>1, <1>4, <3>1
      <4> QED
        BY <1>5, <3>2, <4>1, <4>2
    <3>6. 3 \in 1..l /\ 3 \in 2..l /\ 2 \in 2..l /\ 3 - 1 = 2 /\ 2 - 1 = 1
      BY <1>3, <3>4, <3>5
    <3> QED
      BY <1>6, <1>7, <3>1, <3>2, <3>6
  <2>3. ASSUME l = 3, x[2] = Dot, x[3] = Dot PROVE ParentAt(s, i)
    <3>1. 3 \in 2..l /\ 2 \in 2..l /\ 3 - 1 = 2 /\ 2 - 1 = 1
      BY <2>3
    <3>2. s[i + 1] = Dot /\ s[i + 2] = Dot /\ EndsAt(s, i + 3)
      BY <1>1, <1>6, <2>3, <3>1
    <3>3. i + 2 <= Len(s)
      BY <1>1, <1>4, <2>3
    <3>4. SubSeq(s, i, i + 2) = <<Slash, Dot, Dot>>
      BY <1>1, <2>1, <3>2, <3>3, ThreeOf
    <3> QED
      BY <3>2, <3>3, <3>4 DEF ParentAt
  <2> QED
    BY <2>2, <2>3
<1>11. ASSUME SingleSlashes(s), b # <<>> PROVE l # 1
  <2> SUFFICES ASSUME l = 1 PROVE FALSE
    OBVIOUS
  <2>1. i + 1 <= Len(s)
    BY <1>1, <1>11
  <2>2. i \in 1..(Len(s) - 1)
    BY <1>1, <1>4, <2>1
  <2>3. i + 1 > Len(s) \/ s[i + 1] = Slash
    BY <1>1 DEF EndsAt
  <2>4. s[i + 1] = Slash
    BY <1>1, <1>4, <2>1, <2>3
  <2> QED
    BY <1>1, <1>11, <2>2, <2>4 DEF SingleSlashes
<1>12. NameAt(s, i) <=> l # 1 /\ Tail(x) # Up
  <2>1. i + l > i + 1 <=> l # 1
    BY <1>3, <1>4
  <2>2. Up = <<Dot, Dot>>
    BY DEF Up
  <2>3. NameAt(s, i) <=>
           /\ s[i] = Slash /\ i + l > i + 1
           /\ SubSeq(s, i + 1, (i + l) - 1) # <<Dot, Dot>>
    BY <1>1, Zenon DEF NameAt
  <2> QED
    BY <1>1, <2>1, <2>2, <2>3
<1>13. /\ Tail(x) = <<>> <=> l = 1
       /\ Tail(x) = Here <=> l = 2 /\ x[2] = Dot
       /\ Tail(x) = Up <=> l = 3 /\ x[2] = Dot /\ x[3] = Dot
  BY <1>4, ByName
<1> QED
  BY <1>9, <1>10, <1>11, <1>12, <1>13, Zenon DEF s, i

-----------------------------------------------------------------------------
(* The substitutions.                                                      *)

\* A slash of its own at the end.
LEMMA EndSlash ==
    /\ <<Slash>> \in Segs /\ Tail(<<Slash>>) = <<>>
    /\ \A p \in Paths : /\ p \o <<Slash>> \in Paths /\ Absolute(p \o <<Slash>>)
                        /\ Walk(p \o <<Slash>>) = Walk(p)
                        /\ Trailing(p \o <<Slash>>)
<1> DEFINE x == <<Slash>>
<1>1. x \in Segs /\ Len(x) = 1
  BY DEF Segs, Slash
<1> HIDE DEF x
<1>2. Tail(x) = <<>>
  BY <1>1, ByName
<1>3. ASSUME NEW p \in Paths
      PROVE  /\ p \o x \in Paths /\ Absolute(p \o x) /\ Walk(p \o x) = Walk(p)
             /\ Trailing(p \o x)
  <2>1. p \o x \in Paths /\ Absolute(p \o x) /\ Last(Segments(p \o x)) = <<>>
    BY <1>1, <1>2, LastSegment
  <2>2. Walk(p \o x) = Stepped(Walk(p), <<>>)
    BY <1>1, <1>2, WalkAppend
  <2>3. Stepped(Walk(p), <<>>) = Walk(p)
    BY Steps
  <2> QED
    BY <2>1, <2>2, <2>3 DEF Trailing
<1> QED
  BY <1>1, <1>2, <1>3 DEF x

\* Segments that lead nowhere and end in a dot can go, whatever follows.
LEMMA Dropped ==
    ASSUME NEW a \in Paths, NEW m \in Paths, NEW b \in Paths, m # <<>>,
           Absolute(a \o m), Walk(a \o m) = Walk(a), Trailing(a \o m)
    PROVE  LET s == a \o (m \o b)
               q == Replaced(s, Len(a) + 1, Len(a) + 1 + Len(m))
           IN  /\ q \in Paths /\ Absolute(q) /\ Meaning(q) = Meaning(s)
               /\ SingleSlashes(s) => SingleSlashes(q)
               /\ DotSegments(s) = {} => DotSegments(q) = {}
<1> DEFINE s == a \o (m \o b)
           q == Replaced(s, Len(a) + 1, Len(a) + 1 + Len(m))
           r == IF b = <<>> THEN a \o <<Slash>> ELSE a \o b
<1>1. q = r
  BY ReplacedIs
<1>2. /\ SingleSlashes(s) => SingleSlashes(r)
      /\ DotSegments(s) = {} => DotSegments(r) = {}
  BY WithoutPart, Zenon
<1>3. s = (a \o m) \o b
  BY Regroup, Zenon
<1>4. a \o m \in Paths
  BY PathsConcat
<1> HIDE DEF s, q
<1>5. r \in Paths /\ Absolute(r) /\ Meaning(r) = Meaning(s)
  <2>1. CASE b = <<>>
    <3>1. s = a \o m
      BY <1>3, <1>4, <2>1, PathsAlgebra
    <3>2. /\ r = a \o <<Slash>> /\ r \in Paths /\ Absolute(r) /\ Walk(r) = Walk(a)
          /\ Trailing(r)
      BY <2>1, EndSlash
    <3>3. Meaning(r) = Meaning(s)
      BY <3>1, <3>2, MeaningSame, Zenon
    <3> QED
      BY <3>2, <3>3
  <2>2. CASE b # <<>>
    <3>1. r = a \o b /\ r \in Paths
      BY <2>2, PathsConcat
    <3>2. PICK d \in Paths, x \in Segs : b = d \o x
      BY <2>2, PathCases
    <3>3. r = (a \o d) \o x /\ a \o d \in Paths
      <4>1. x \in Paths /\ a \o d \in Paths
        BY PathsConcat
      <4>2. (a \o d) \o x = a \o (d \o x)
        BY <4>1, Regroup, ZenonT(40)
      <4> QED
        BY <3>1, <3>2, <4>1, <4>2
    <3>4. Absolute(r)
      BY <3>3, LastSegment
    <3>5. Meaning(a \o b) = Meaning((a \o m) \o b)
      BY <1>4, <2>2, MeaningConcat
    <3> QED
      BY <1>3, <3>1, <3>4, <3>5
  <2> QED
    BY <2>1, <2>2
<1> QED
  BY <1>1, <1>2, <1>5 DEF s, q

\* One dot segment goes.
LEMMA DotDropped ==
    ASSUME NEW s \in Paths, NEW i \in DotSegments(s)
    PROVE  LET q == Replaced(s, i, i + 2)
           IN  /\ q \in Paths /\ Absolute(q) /\ Meaning(q) = Meaning(s)
               /\ SingleSlashes(s) => SingleSlashes(q)
<1>1. s \in Seq(Nat)
  BY DEF Paths
<1>2. i \in 1..Len(s) /\ s[i] = Slash
  BY <1>1 DEF DotSegments
<1>3. PICK a \in Paths, x \in Segs, b \in Paths : s = a \o (x \o b) /\ Len(a) = i - 1
  BY <1>2, CutAtPlace
<1>4. i = Len(a) + 1
  BY <1>2, <1>3
<1>5. Tail(x) = Here
  BY <1>3, <1>4, Matches
<1>6. Len(x) = 2 /\ i + 2 = Len(a) + 1 + Len(x)
  BY <1>4, <1>5, ByName
<1>7. Last(Segments(a \o x)) = Here /\ Absolute(a \o x)
  BY <1>5, LastSegment
<1>8. Walk(a \o x) = Walk(a)
  BY <1>5, WalkAppend, Steps
<1>9. x \in Paths /\ x # <<>>
  BY <1>6, PathsConcat
<1>10. Trailing(a \o x)
  BY <1>7 DEF Trailing
<1> DEFINE t == a \o (x \o b)
           q == Replaced(t, Len(a) + 1, Len(a) + 1 + Len(x))
<1>11. /\ q \in Paths /\ Absolute(q) /\ Meaning(q) = Meaning(t)
       /\ SingleSlashes(t) => SingleSlashes(q)
  BY <1>7, <1>8, <1>9, <1>10, Dropped, Zenon
<1>12. q = Replaced(s, i, i + 2) /\ t = s
  BY <1>3, <1>4, <1>6
<1> HIDE DEF q, t
<1> QED
  BY <1>11, <1>12

\* A name and the parent reference after it go.
LEMMA ParentDropped ==
    ASSUME NEW s \in Paths, DotSegments(s) = {}, NEW i \in DotDotSegments(s)
    PROVE  LET q == Replaced(s, i, Next(s, i + 1, {Slash}) + 3)
           IN  /\ q \in Paths /\ Absolute(q) /\ Meaning(q) = Meaning(s)
               /\ SingleSlashes(s) => SingleSlashes(q)
               /\ DotSegments(q) = {}
<1>1. s \in Seq(Nat)
  BY DEF Paths
<1> DEFINE n == Next(s, i + 1, {Slash})
<1>2. i \in 1..Len(s) /\ s[i] = Slash /\ NameAt(s, i) /\ ParentAt(s, n)
  <2>1. i \in DOMAIN s /\ NameAt(s, i) /\ ParentAt(s, n)
    BY DEF DotDotSegments
  <2> HIDE DEF n
  <2>2. s[i] = Slash
    BY <2>1 DEF NameAt
  <2> QED
    BY <1>1, <2>1, <2>2
<1>3. PICK a \in Paths, x \in Segs, c \in Paths : s = a \o (x \o c) /\ Len(a) = i - 1
  BY <1>2, CutAtPlace
<1>4. i = Len(a) + 1 /\ Len(a) \in Nat
  BY <1>2, <1>3
<1>5. Tail(x) # <<>> /\ Tail(x) # Up /\ Tail(x) # Here
  BY <1>2, <1>3, <1>4, Matches
<1>6. n = i + Len(x) /\ (n <= Len(s) <=> c # <<>>) /\ EndsAt(s, n)
  <2> DEFINE t == a \o (x \o c)
             j == Len(a) + 1
  <2>1. /\ EndsAt(t, j + Len(x))
        /\ j + Len(x) <= Len(t) <=> c # <<>>
        /\ Next(t, j + 1, {Slash}) = j + Len(x)
    BY SegmentAt, Zenon
  <2>2. t = s /\ j = i
    BY <1>3, <1>4
  <2> HIDE DEF t, j
  <2> QED
    BY <2>1, <2>2
<1>7. Len(x) \in Nat \ {0} /\ x \in Paths /\ x # <<>> /\ Tail(x) \in Seq(Nat)
  BY NameOf, PathsConcat
<1> HIDE DEF n
<1>8. n \in Nat /\ n <= Len(s)
  <2>1. n + 2 <= Len(s)
    BY <1>2 DEF ParentAt
  <2> QED
    BY <1>1, <1>4, <1>6, <1>7, <2>1
<1>9. PICK y \in Segs, b \in Paths : c = y \o b
  <2>1. c # <<>>
    BY <1>6, <1>8
  <2>2. 1 \in 1..Len(c) /\ c[1] = Slash
    BY <2>1 DEF Paths
  <2>3. PICK e \in Paths, y \in Segs, b \in Paths : c = e \o (y \o b) /\ Len(e) = 1 - 1
    BY <2>2, CutAtPlace
  <2>4. e = <<>>
    BY <2>3 DEF Paths
  <2>5. y \o b \in Paths
    BY PathsConcat
  <2>6. c = y \o b
    BY <2>3, <2>4, <2>5, PathsAlgebra
  <2> QED
    BY <2>6
<1>10. y \in Paths /\ y \o b \in Paths /\ a \o x \in Paths /\ x \o y \in Paths
  BY PathsConcat
<1>11. s = (a \o x) \o (y \o b)
  <2>1. (a \o x) \o (y \o b) = a \o (x \o (y \o b))
    <3>1. a \in Paths /\ x \in Paths /\ y \o b \in Paths
      BY <1>7, <1>10
    <3> QED
      BY <3>1, Regroup, Zenon
  <2> QED
    BY <1>3, <1>9, <2>1
<1>12. Len(a \o x) + 1 = n
  <2>1. a \in Seq(Nat) /\ x \in Seq(Nat)
    BY <1>7 DEF Paths
  <2>2. Len(a \o x) = Len(a) + Len(x)
    BY <2>1
  <2> QED
    BY <1>4, <1>6, <1>7, <2>2
<1>13. Tail(y) = Up
  BY <1>2, <1>10, <1>11, <1>12, Matches
<1>14. Len(y) = 3
  BY <1>13, ByName
<1> DEFINE m == x \o y
<1>15. n + 3 = Len(a) + 1 + Len(m) /\ m # <<>>
  <2>1. x \in Seq(Nat) /\ y \in Seq(Nat)
    BY <1>7, <1>10 DEF Paths
  <2>2. Len(m) = Len(x) + Len(y)
    BY <2>1
  <2>3. n + 3 = Len(a) + 1 + Len(m)
    BY <1>4, <1>6, <1>7, <1>14, <2>2
  <2>4. Len(m) # 0
    BY <1>7, <1>14, <2>2
  <2> QED
    BY <2>3, <2>4
<1>16. s = a \o (m \o b)
  <2>1. (x \o y) \o b = x \o (y \o b)
    <3>1. x \in Paths /\ y \in Paths /\ b \in Paths
      BY <1>7, <1>10
    <3>2. \A q, r \in Paths : (x \o q) \o r = x \o (q \o r)
      BY <3>1, Regroup, Zenon
    <3> QED
      BY <3>1, <3>2, Zenon
  <2> QED
    BY <1>3, <1>9, <2>1
<1>17. a \o m = (a \o x) \o y
  <2>1. (a \o x) \o y = a \o (x \o y)
    <3>1. a \in Paths /\ x \in Paths /\ y \in Paths
      BY <1>7, <1>10
    <3> QED
      BY <3>1, Regroup, ZenonT(40)
  <2> QED
    BY <2>1
<1>18. Walk(a \o m) = Walk(a)
  <2> DEFINE at == Walk(a)
             t == Tail(x)
             be == Stepped(at, t)
  <2>1. /\ at \in WalkStates /\ at.names \in Seq(Seq(Nat)) /\ at.below \in BOOLEAN
        /\ at = [names |-> at.names, below |-> at.below]
    BY WalkType DEF WalkStates
  <2>2. Walk(a \o x) = be
    BY WalkAppend
  <2>3. Walk((a \o x) \o y) = Stepped(be, Up)
    BY <1>10, <1>13, <2>2, WalkAppend
  <2>4. be = [at EXCEPT !.names = Append(@, t)]
    BY <1>5, Steps
  <2> HIDE DEF at, t, be
  <2>5. be.names = Append(at.names, t) /\ be.below = at.below
    BY <2>1, <2>4
  <2>6. t \in Seq(Nat)
    BY <1>7 DEF t
  <2>7. be.names # <<>> /\ Front(be.names) = at.names
    <3> DEFINE u == at.names
               v == Append(u, t)
    <3>1. u \in Seq(Seq(Nat)) /\ t \in Seq(Nat)
      BY <2>1, <2>6
    <3> HIDE DEF u
    <3>2. v # <<>> /\ Front(v) = u
      BY <3>1 DEF Front
    <3> QED
      BY <2>5, <3>2 DEF u
  <2>8. Stepped(be, Up) = [be EXCEPT !.names = Front(@)]
    BY <2>7, Steps
  <2>9. Stepped(be, Up) = at
    BY <2>1, <2>4, <2>5, <2>7, <2>8
  <2> QED
    BY <1>17, <2>3, <2>9 DEF at
<1>19. Absolute(a \o m) /\ Trailing(a \o m)
  <2>1. Last(Segments((a \o x) \o y)) = Up /\ Absolute((a \o x) \o y)
    BY <1>10, <1>13, LastSegment
  <2> HIDE DEF m
  <2> QED
    BY <1>17, <2>1 DEF Trailing
<1> HIDE DEF m
<1>20. m \in Paths
  BY <1>10 DEF m
<1> DEFINE t == a \o (m \o b)
           q == Replaced(t, Len(a) + 1, Len(a) + 1 + Len(m))
<1>21. /\ q \in Paths /\ Absolute(q) /\ Meaning(q) = Meaning(t)
       /\ SingleSlashes(t) => SingleSlashes(q)
       /\ DotSegments(t) = {} => DotSegments(q) = {}
  BY <1>15, <1>18, <1>19, <1>20, Dropped, Zenon
<1>22. q = Replaced(s, i, n + 3) /\ t = s
  BY <1>4, <1>15, <1>16
<1> HIDE DEF q, t
<1> QED
  BY <1>21, <1>22 DEF n

-----------------------------------------------------------------------------
(* What is left when no pattern matches any more.                          *)

\* Nothing is left to rewrite.
Full(p) == \A a, b \in Paths, x \in Segs :
              p = a \o (x \o b) => Tail(x) \notin {<<>>, Here, Up}
Clean(p) == \A a, b \in Paths, x \in Segs :
              p = a \o (x \o b) =>
                 Tail(x) \notin {Here, Up} /\ (b # <<>> => Tail(x) # <<>>)

LEMMA CleanIs ==
    ASSUME NEW s \in Paths, SingleSlashes(s), DotSegments(s) = {}, ~HasParentRef(s)
    PROVE  Clean(s)
<1> SUFFICES ASSUME NEW a \in Paths, NEW b \in Paths, NEW x \in Segs, s = a \o (x \o b)
             PROVE  Tail(x) \notin {Here, Up} /\ (b # <<>> => Tail(x) # <<>>)
  BY DEF Clean
<1> DEFINE i == Len(a) + 1
           t == a \o (x \o b)
<1>1. i \in 1..Len(t) /\ t \in Seq(Nat)
  BY SegmentAt, Zenon
<1>2. /\ i \in DotSegments(t) <=> Tail(x) = Here
      /\ ParentAt(t, i) <=> Tail(x) = Up
      /\ SingleSlashes(t) /\ b # <<>> => Tail(x) # <<>>
  BY Matches, Zenon
<1>3. t = s
  OBVIOUS
<1> HIDE DEF t
<1>4. ~ParentAt(s, i)
  <2>1. i \in DOMAIN s
    BY <1>1, <1>3
  <2> QED
    BY <2>1 DEF HasParentRef
<1> QED
  BY <1>2, <1>3, <1>4

\* All but the last segment of a clean path are names.
LEMMA CleanParts ==
    ASSUME NEW p \in Paths, NEW x \in Segs
    PROVE  /\ Clean(p \o x) => Full(p) /\ Tail(x) \notin {Here, Up}
           /\ Full(p \o x) => Full(p) /\ Tail(x) \notin {<<>>, Here, Up}
<1>1. x \in Paths /\ <<>> \in Paths
  BY PathsConcat
<1>2. p \o x = p \o (x \o <<>>)
  BY <1>1, PathsAlgebra
<1>3. ASSUME NEW a \in Paths, NEW b \in Paths, NEW y \in Segs, p = a \o (y \o b)
      PROVE  b \o x \in Paths /\ b \o x # <<>> /\ p \o x = a \o (y \o (b \o x))
  <2>1. y \in Paths /\ y \o b \in Paths /\ b \o x \in Paths
    BY <1>1, PathsConcat
  <2>2. (y \o b) \o x = y \o (b \o x)
    <3>1. \A q, r \in Paths : (y \o q) \o r = y \o (q \o r)
      BY <2>1, Regroup, Zenon
    <3> QED
      BY <1>1, <1>3, <3>1, Zenon
  <2>3. (a \o (y \o b)) \o x = a \o ((y \o b) \o x)
    <3> DEFINE c == y \o b
    <3>1. a \in Paths /\ c \in Paths /\ x \in Paths
      BY <1>1, <2>1
    <3> HIDE DEF c
    <3>2. (a \o c) \o x = a \o (c \o x)
      BY <3>1, Regroup, Zenon
    <3> QED
      BY <3>2 DEF c
  <2>4. b \o x # <<>>
    <3>1. Absolute(b \o x)
      BY LastSegment
    <3> QED
      BY <3>1 DEF Absolute
  <2> QED
    BY <1>3, <2>1, <2>2, <2>3, <2>4
<1>4. ASSUME Clean(p \o x) PROVE Full(p) /\ Tail(x) \notin {Here, Up}
  <2>1. Tail(x) \notin {Here, Up}
    BY <1>1, <1>2, <1>4 DEF Clean
  <2>2. ASSUME NEW a \in Paths, NEW b \in Paths, NEW y \in Segs, p = a \o (y \o b)
        PROVE  Tail(y) \notin {<<>>, Here, Up}
    <3> DEFINE c == b \o x
    <3>1. c \in Paths /\ c # <<>> /\ p \o x = a \o (y \o c)
      BY <1>3, <2>2
    <3> HIDE DEF c
    <3> QED
      BY <1>4, <3>1 DEF Clean
  <2> QED
    BY <2>1, <2>2 DEF Full
<1>5. ASSUME Full(p \o x) PROVE Full(p) /\ Tail(x) \notin {<<>>, Here, Up}
  <2>1. Tail(x) \notin {<<>>, Here, Up}
    BY <1>1, <1>2, <1>5 DEF Full
  <2>2. ASSUME NEW a \in Paths, NEW b \in Paths, NEW y \in Segs, p = a \o (y \o b)
        PROVE  Tail(y) \notin {<<>>, Here, Up}
    <3> DEFINE c == b \o x
    <3>1. c \in Paths /\ c # <<>> /\ p \o x = a \o (y \o c)
      BY <1>3, <2>2
    <3> HIDE DEF c
    <3> QED
      BY <1>5, <3>1 DEF Full
  <2> QED
    BY <2>1, <2>2 DEF Full
<1> QED
  BY <1>4, <1>5

LEMMA AppendSome ==
    ASSUME NEW n \in Seq(Seq(Nat)), NEW t \in Seq(Nat)
    PROVE  Append(n, t) # <<>>
BY AppendProperties

\* A walk along names only: the place it comes to is the path itself.
LEMMA FullWalk ==
    ASSUME NEW p \in Paths, Full(p)
    PROVE  /\ Walk(p).below
           /\ p = IF Walk(p).names = <<>> THEN <<>>
                  ELSE <<Slash>> \o Joined(Walk(p).names, <<Slash>>)
<1> DEFINE Said(r) == /\ Walk(r).below
                      /\ r = IF Walk(r).names = <<>> THEN <<>>
                             ELSE <<Slash>> \o Joined(Walk(r).names, <<Slash>>)
           P == {r \in Paths : Full(r) => Said(r)}
<1>1. <<>> \in P
  <2>1. Walk(<<>>).below /\ Walk(<<>>).names = <<>>
    BY WalkAppend DEF AtRoot
  <2> QED
    BY <2>1, PathsConcat
<1>2. ASSUME NEW r \in Paths, NEW x \in Segs, r \in P PROVE r \o x \in P
  <2> SUFFICES ASSUME Full(r \o x) PROVE Said(r \o x)
    BY PathsConcat
  <2> DEFINE t == Tail(x)
             at == Walk(r)
             n == at.names
             j == Joined(n, <<Slash>>)
             e == <<Slash>>
  <2>1. Full(r) /\ t \notin {<<>>, Here, Up}
    BY CleanParts
  <2>2. at.below /\ r = IF n = <<>> THEN <<>> ELSE e \o j
    BY <1>2, <2>1
  <2>3. t \in Seq(Nat) /\ x = e \o t /\ e \in Seq(Nat) /\ x \in Paths
    BY NameOf, PathsConcat DEF Slash
  <2>4. n \in Seq(Seq(Nat)) /\ at = [names |-> n, below |-> at.below]
    BY WalkType DEF WalkStates
  <2>5. Walk(r \o x) = Stepped(at, t)
    BY WalkAppend
  <2>6. Stepped(at, t) = [at EXCEPT !.names = Append(@, t)]
    BY <2>1, Steps
  <2> HIDE DEF at
  <2>7. Walk(r \o x).names = Append(n, t) /\ Walk(r \o x).below = at.below
    BY <2>4, <2>5, <2>6
  <2>8. Append(n, t) # <<>>
    <3>1. n \in Seq(Seq(Nat)) /\ t \in Seq(Nat)
      BY <2>3, <2>4
    <3> QED
      BY <3>1, AppendSome, Zenon
  <2>9. j \in Seq(Nat) /\ Joined(Append(n, t), e) = IF n = <<>> THEN t ELSE j \o (e \o t)
    BY <2>3, <2>4, JoinedAppend
  <2>10. r \o x = e \o Joined(Append(n, t), e)
    <3>1. CASE n = <<>>
      <4>1. r = <<>> /\ r \o x = x
        BY <2>2, <2>3, <3>1, PathsAlgebra
      <4> QED
        BY <2>3, <2>9, <3>1, <4>1, Zenon
    <3>2. CASE n # <<>>
      <4>1. r \o x = (e \o j) \o x /\ Joined(Append(n, t), e) = j \o x
        BY <2>2, <2>3, <2>9, <3>2
      <4>2. j \in Seq(Nat) /\ x \in Seq(Nat) /\ e \in Seq(Nat)
        BY <2>3, <2>9 DEF Paths
      <4> HIDE DEF j, e
      <4>3. (e \o j) \o x = e \o (j \o x)
        BY <4>2, ConcatAssociative, SMTT(30)
      <4> QED
        BY <4>1, <4>3
    <3> QED
      BY <3>1, <3>2, Zenon
  <2> QED
    BY <2>2, <2>7, <2>8, <2>10, Zenon
<1> HIDE DEF P
<1>3. Paths \subseteq P
  BY <1>1, <1>2, PathInduction
<1> QED
  BY <1>3 DEF P

\* A clean path means itself.
LEMMA CleanMeaning ==
    ASSUME NEW s \in Paths, s # <<>>, Clean(s)
    PROVE  Meaning(s) = s
<1>1. PICK p \in Paths, x \in Segs : s = p \o x
  BY PathCases
<1> DEFINE t == Tail(x)
           at == Walk(p)
           n == at.names
           j == Joined(n, <<Slash>>)
           e == <<Slash>>
<1>2. Full(p) /\ t \notin {Here, Up}
  BY <1>1, CleanParts
<1>3. at.below /\ p = IF n = <<>> THEN <<>> ELSE e \o j
  BY <1>2, FullWalk
<1>4. t \in Seq(Nat) /\ x = e \o t /\ e \in Seq(Nat) /\ x \in Paths
  BY NameOf, PathsConcat DEF Slash
<1>5. n \in Seq(Seq(Nat)) /\ at = [names |-> n, below |-> at.below]
  BY WalkType DEF WalkStates
<1>6. Walk(s) = Stepped(at, t) /\ Absolute(s) /\ Last(Segments(s)) = t
  BY <1>1, WalkAppend, LastSegment
<1>7. Joined(<<>>, e) = <<>> /\ j \in Seq(Nat)
      /\ Joined(Append(n, t), e) = IF n = <<>> THEN t ELSE j \o (e \o t)
  BY <1>4, <1>5, JoinedAppend
<1> DEFINE names == Walk(s).names
           slash == IF Last(Segments(s)) \in {<<>>, Here, Up} /\ names # <<>>
                    THEN <<Slash>> ELSE <<>>
<1>8. Walk(s).below => Meaning(s) = <<Slash>> \o Joined(names, <<Slash>>) \o slash
  BY <1>6, Zenon DEF Meaning
<1>9. CASE t = <<>>
  <2>1. Stepped(at, t) = at
    BY <1>9, Steps
  <2>2. Walk(s) = at /\ Last(Segments(s)) \in {<<>>, Here, Up}
    BY <1>6, <1>9, <2>1
  <2>3. x = e
    BY <1>4, <1>9, ConcatEmptySeq
  <2>4. CASE n = <<>>
    <3>1. s = e
      BY <1>1, <1>3, <1>4, <2>3, <2>4, PathsAlgebra
    <3>2. names = <<>> /\ slash = <<>>
      BY <2>2, <2>4
    <3>3. Meaning(s) = e \o Joined(<<>>, e) \o <<>>
      BY <1>3, <1>8, <2>2, <3>2, Zenon
    <3>4. e \o <<>> = e
      BY <1>4, ConcatEmptySeq
    <3>5. (e \o <<>>) \o <<>> = e
      BY <3>4
    <3> QED
      BY <1>7, <3>1, <3>3, <3>5, Zenon
  <2>5. CASE n # <<>>
    <3>1. s = (e \o j) \o e
      BY <1>1, <1>3, <2>3, <2>5
    <3>2. names = n /\ slash = e
      BY <2>2, <2>5
    <3>3. Meaning(s) = e \o Joined(n, e) \o e
      BY <1>3, <1>8, <2>2, <3>2, Zenon
    <3> QED
      BY <3>1, <3>3, Zenon
  <2> QED
    BY <2>4, <2>5
<1>10. CASE t # <<>>
  <2>1. Stepped(at, t) = [at EXCEPT !.names = Append(@, t)]
    BY <1>2, <1>10, Steps
  <2> HIDE DEF at
  <2>2. Walk(s).names = Append(n, t) /\ Walk(s).below = at.below
    BY <1>5, <1>6, <2>1
  <2>3. slash = <<>>
    BY <1>2, <1>6, <1>10
  <2>4. s = e \o Joined(Append(n, t), e)
    <3>1. CASE n = <<>>
      <4>1. p = <<>> /\ p \o x = x
        BY <1>3, <1>4, <3>1, PathsAlgebra
      <4> QED
        BY <1>1, <1>4, <1>7, <3>1, <4>1, Zenon
    <3>2. CASE n # <<>>
      <4>1. s = (e \o j) \o x /\ Joined(Append(n, t), e) = j \o x
        BY <1>1, <1>3, <1>4, <1>7, <3>2
      <4>2. j \in Seq(Nat) /\ x \in Seq(Nat) /\ e \in Seq(Nat)
        BY <1>4, <1>7 DEF Paths
      <4> HIDE DEF j, e
      <4>3. (e \o j) \o x = e \o (j \o x)
        BY <4>2, ConcatAssociative, SMTT(30)
      <4> QED
        BY <4>1, <4>3
    <3> QED
      BY <3>1, <3>2, Zenon
  <2>5. Meaning(s) = e \o Joined(Append(n, t), e) \o <<>>
    BY <1>3, <1>8, <2>2, <2>3, Zenon
  <2>6. s \o <<>> = s
    BY PathsAlgebra
  <2> HIDE DEF e
  <2> QED
    BY <2>4, <2>5, <2>6
<1> QED
  BY <1>9, <1>10

\* Where a parent reference is left, no name comes before the first one: it
\* leads above the root.
LEMMA LeftAbove ==
    ASSUME NEW s \in Paths, SingleSlashes(s), DotDotSegments(s) = {}, HasParentRef(s)
    PROVE  Meaning(s) = Abnormal
<1> DEFINE I == {i \in DOMAIN s : ParentAt(s, i)}
<1>1. s \in Seq(Nat)
  BY DEF Paths
<1>2. I \subseteq Nat /\ I # {}
  BY <1>1 DEF HasParentRef
<1>3. PICK i \in I : \A k \in I : i <= k
  BY <1>2, LeastNatural
<1>4. i \in 1..Len(s) /\ ParentAt(s, i)
  BY <1>1
<1>5. s[i] = Slash
  <2>1. i + 2 <= Len(s) /\ SubSeq(s, i, i + 2) = <<Slash, Dot, Dot>> /\ i \in Nat \ {0}
    BY <1>4 DEF ParentAt
  <2> QED
    BY <1>1, <2>1, ThreeOf
<1>6. PICK a \in Paths, x \in Segs, b \in Paths : s = a \o (x \o b) /\ Len(a) = i - 1
  BY <1>4, <1>5, CutAtPlace
<1>7. Len(a) + 1 = i
  BY <1>4, <1>6
<1>8. Tail(x) = Up
  BY <1>4, <1>6, <1>7, Matches
<1>9. x \in Paths /\ x \o b \in Paths /\ a \o x \in Paths
  BY PathsConcat
<1>10. a = <<>>
  <2> SUFFICES ASSUME a # <<>> PROVE FALSE
    OBVIOUS
  <2>1. PICK c \in Paths, y \in Segs : a = c \o y
    BY PathCases
  <2> DEFINE d == x \o b
             t == c \o (y \o d)
             k == Len(c) + 1
  <2>2. y \in Paths /\ d \in Paths /\ d # <<>>
    <3>1. x # <<>> /\ x \in Seq(Nat) /\ b \in Seq(Nat)
      BY NameOf DEF Paths, Segs
    <3>2. x \o b # <<>>
      BY <3>1
    <3> QED
      BY <1>9, <3>2, PathsConcat
  <2> HIDE DEF d
  <2>3. t = s
    <3>1. (c \o y) \o d = c \o (y \o d)
      BY <2>2, Regroup, Zenon
    <3> QED
      BY <1>6, <2>1, <3>1 DEF d
  <2>4. /\ k \in 1..Len(t) /\ t \in Seq(Nat)
        /\ Next(t, k + 1, {Slash}) = k + Len(y)
    <3>1. c \in Paths /\ y \in Segs /\ d \in Paths
      BY <2>2
    <3> QED
      BY <3>1, SegmentAt, ZenonT(40)
  <2>5. /\ ParentAt(t, k) <=> Tail(y) = Up
        /\ SingleSlashes(t) /\ d # <<>> => Tail(y) # <<>>
        /\ NameAt(t, k) <=> Tail(y) \notin {<<>>, Up}
    BY <2>2, Matches, Zenon
  <2>6. k + Len(y) = i /\ k < i
    <3>1. c \in Seq(Nat) /\ y \in Seq(Nat) /\ Len(y) \in Nat \ {0}
      BY NameOf DEF Paths
    <3>2. Len(a) = Len(c) + Len(y) /\ Len(c) \in Nat
      BY <2>1, <3>1
    <3> QED
      BY <1>7, <3>1, <3>2
  <2> HIDE DEF t, k
  <2>7. Tail(y) # Up
    <3> SUFFICES ASSUME Tail(y) = Up PROVE FALSE
      OBVIOUS
    <3>1. k \in I
      BY <2>3, <2>4, <2>5
    <3>2. i <= k /\ i \in Nat /\ k \in Nat
      BY <1>2, <1>3, <3>1
    <3> QED
      BY <2>6, <3>2
  <2>8. NameAt(s, k) /\ ParentAt(s, Next(s, k + 1, {Slash})) /\ k \in DOMAIN s
    BY <1>4, <2>2, <2>3, <2>4, <2>5, <2>6, <2>7, SMTT(30)
  <2> QED
    BY <2>8 DEF DotDotSegments
<1>11. a \o x = x /\ s = x \o b
  BY <1>6, <1>9, <1>10, PathsAlgebra
<1>12. ~Walk(x).below
  <2>1. Walk(<<>> \o x) = Stepped(AtRoot, Up) /\ AtRoot.names = <<>>
    BY <1>8, WalkAppend, PathsConcat DEF AtRoot
  <2>2. Stepped(AtRoot, Up) = [AtRoot EXCEPT !.below = FALSE]
    BY <2>1, Steps
  <2>3. <<>> \o x = x
    BY <1>9, PathsAlgebra
  <2> QED
    BY <2>1, <2>2, <2>3 DEF AtRoot
<1>13. ~Walk(s).below
  BY <1>9, <1>11, <1>12, WalkConcat
<1> QED
  BY <1>13 DEF Meaning

-----------------------------------------------------------------------------
(* collapseSlashes.                                                        *)

\* One character more: it is kept unless it is a slash after a slash.
LEMMA CollapseAppend ==
    ASSUME NEW p \in Seq(Nat), NEW c \in Nat
    PROVE  CollapseSlashes(Append(p, c))
              = CollapseSlashes(p)
                   \o (IF Len(p) # 0 /\ c = Slash /\ p[Len(p)] = Slash THEN <<>> ELSE <<c>>)
<1> DEFINE Kept(s) == [i \in DOMAIN s |->
                         IF i > 1 /\ s[i] = Slash /\ s[i - 1] = Slash THEN <<>> ELSE <<s[i]>>]
           q == Append(p, c)
           l == Len(p)
           z == IF l # 0 /\ c = Slash /\ p[l] = Slash THEN <<>> ELSE <<c>>
           u == Kept(p)
           v == Kept(q)
           w == Append(u, z)
<1>1. \A s : CollapseSlashes(s) = FlattenSeq(Kept(s))
  BY DEF CollapseSlashes
<1>2. ASSUME NEW s \in Seq(Nat)
      PROVE  Kept(s) \in Seq(Seq(Nat)) /\ Len(Kept(s)) = Len(s)
  <2> DEFINE one(i) == IF i > 1 /\ s[i] = Slash /\ s[i - 1] = Slash THEN <<>> ELSE <<s[i]>>
  <2>1. \A i \in 1..Len(s) : one(i) \in Seq(Nat)
    <3> TAKE i \in 1..Len(s)
    <3>1. <<s[i]>> \in Seq(Nat) /\ <<>> \in Seq(Nat)
      OBVIOUS
    <3> QED
      BY <3>1
  <2>2. DOMAIN s = 1..Len(s) /\ Len(s) \in Nat
    OBVIOUS
  <2>3. Kept(s) = [i \in 1..Len(s) |-> one(i)]
    BY <2>2
  <2> HIDE DEF one, Kept
  <2> QED
    BY <2>1, <2>2, <2>3
<1>3. /\ q \in Seq(Nat) /\ l \in Nat /\ Len(q) = l + 1 /\ q[l + 1] = c
      /\ \A i \in 1..l : q[i] = p[i]
      /\ DOMAIN p = 1..l /\ DOMAIN q = 1..(l + 1)
  OBVIOUS
<1> HIDE DEF q
<1>4. /\ u = [i \in 1..l |->
                IF i > 1 /\ p[i] = Slash /\ p[i - 1] = Slash THEN <<>> ELSE <<p[i]>>]
      /\ v = [i \in 1..(l + 1) |->
                IF i > 1 /\ q[i] = Slash /\ q[i - 1] = Slash THEN <<>> ELSE <<q[i]>>]
  BY <1>3, Zenon
<1>5. /\ u \in Seq(Seq(Nat)) /\ Len(u) = l
      /\ v \in Seq(Seq(Nat)) /\ Len(v) = l + 1
  BY <1>2, <1>3
<1>6. z \in Seq(Nat)
  <2>1. <<c>> \in Seq(Nat) /\ <<>> \in Seq(Nat)
    OBVIOUS
  <2> QED
    BY <2>1
<1>7. ASSUME NEW i \in 1..(l + 1) PROVE v[i] = IF i = l + 1 THEN z ELSE u[i]
  <2>1. v[i] = IF i > 1 /\ q[i] = Slash /\ q[i - 1] = Slash THEN <<>> ELSE <<q[i]>>
    BY <1>4
  <2>2. CASE i = l + 1
    <3>1. q[i] = c /\ (i > 1 <=> l # 0)
      BY <1>3, <2>2
    <3>2. i > 1 => q[i - 1] = p[l]
      <4>1. i > 1 => i - 1 = l /\ l \in 1..l
        BY <1>3, <2>2
      <4> QED
        BY <1>3, <4>1
    <3> HIDE DEF u, v, l
    <3> QED
      BY <2>1, <2>2, <3>1, <3>2 DEF z
  <2>3. CASE i # l + 1
    <3>1. i \in 1..l
      BY <1>3, <2>3
    <3>2. u[i] = IF i > 1 /\ p[i] = Slash /\ p[i - 1] = Slash THEN <<>> ELSE <<p[i]>>
      BY <1>4, <3>1
    <3>3. q[i] = p[i]
      BY <1>3, <3>1
    <3>4. i > 1 => q[i - 1] = p[i - 1]
      <4>1. i > 1 => i - 1 \in 1..l
        BY <1>3, <3>1
      <4> QED
        BY <1>3, <4>1
    <3> HIDE DEF u, v, z, l
    <3> QED
      BY <2>1, <2>3, <3>2, <3>3, <3>4
  <2> QED
    BY <2>2, <2>3
<1> HIDE DEF u, v, z, l
<1>8. /\ w \in Seq(Seq(Nat)) /\ Len(w) = l + 1
      /\ w[l + 1] = z /\ \A k \in 1..l : w[k] = u[k]
  BY <1>5, <1>6
<1> HIDE DEF w
<1>9. \A k \in 1..(l + 1) : v[k] = w[k]
  <2> TAKE k \in 1..(l + 1)
  <2>1. k = l + 1 \/ (k # l + 1 /\ k \in 1..l)
    BY <1>3
  <2> QED
    BY <1>7, <1>8, <2>1
<1>10. v = w
  BY <1>5, <1>8, <1>9
<1>11. FlattenSeq(Append(u, z)) = FlattenSeq(u) \o z
  BY <1>5, <1>6, FlattenAppend
<1> QED
  BY <1>1, <1>10, <1>11, Zenon DEF q, l, z, u, v, w

\* A text of single slashes, one character more.
LEMMA SingleAppend ==
    ASSUME NEW q \in Seq(Nat), NEW c \in Nat, SingleSlashes(q),
           Len(q) # 0 /\ c = Slash => q[Len(q)] # Slash
    PROVE  SingleSlashes(q \o <<c>>) /\ q \o <<c>> \in Seq(Nat)
<1> DEFINE r == q \o <<c>>
           l == Len(q)
<1>1. /\ r \in Seq(Nat) /\ Len(r) = l + 1 /\ r[l + 1] = c /\ l \in Nat
      /\ \A i \in 1..l : r[i] = q[i]
  OBVIOUS
<1>2. \A i \in 1..(l - 1) : q[i] = Slash => q[i + 1] # Slash
  BY DEF SingleSlashes
<1>3. l # 0 /\ c = Slash => q[l] # Slash
  OBVIOUS
<1> HIDE DEF r, l
<1>4. ASSUME NEW i \in 1..(Len(r) - 1), r[i] = Slash PROVE r[i + 1] # Slash
  <2>1. CASE i = l
    <3>1. l # 0 /\ l \in 1..l /\ q[l] = Slash
      BY <1>1, <1>4, <2>1
    <3> QED
      BY <1>1, <1>3, <2>1, <3>1
  <2>2. CASE i # l
    <3>1. i \in 1..(l - 1) /\ i \in 1..l /\ i + 1 \in 1..l
      BY <1>1, <2>2
    <3> QED
      BY <1>1, <1>2, <1>4, <3>1
  <2> QED
    BY <2>1, <2>2
<1> QED
  BY <1>1, <1>4 DEF SingleSlashes, r

\* What is collapsed ends in the same segment, and what comes before it leads to
\* the same place.
Alike(p, q) == \E r, t \in Paths, x \in Segs : p = r \o x /\ q = t \o x /\ Walk(r) = Walk(t)

LEMMA CollapseIs ==
    ASSUME NEW p \in Paths, p # <<>>
    PROVE  Alike(p, CollapseSlashes(p)) /\ SingleSlashes(CollapseSlashes(p))
<1> DEFINE Said(s) == Alike(s, CollapseSlashes(s)) /\ SingleSlashes(CollapseSlashes(s))
           P == {s \in Seq(Nat) : s \in Paths /\ s # <<>> => Said(s)}
<1>1. <<>> \in P
  OBVIOUS
<1>2. ASSUME NEW s \in Seq(Nat), NEW c \in Nat, s \in P PROVE Append(s, c) \in P
  <2> DEFINE a == Append(s, c)
             q == CollapseSlashes(s)
  <2>1. a \in Seq(Nat) /\ (s # <<>> => a[1] = s[1]) /\ (s = <<>> => a[1] = c)
    OBVIOUS
  <2> SUFFICES ASSUME a \in Paths, a # <<>> PROVE Said(a)
    BY <2>1
  <2>2. s \in Paths
    <3>1. a[1] = Slash
      BY DEF Paths
    <3> HIDE DEF a
    <3> QED
      BY <2>1, <3>1 DEF Paths
  <2>3. CollapseSlashes(a)
           = q \o (IF Len(s) # 0 /\ c = Slash /\ s[Len(s)] = Slash THEN <<>> ELSE <<c>>)
    BY CollapseAppend
  <2>4. a = s \o <<c>>
    OBVIOUS
  <2>5. CASE s = <<>>
    <3> DEFINE e == <<Slash>>
    <3>1. c = Slash
      <4>1. a[1] = Slash
        BY DEF Paths
      <4> QED
        BY <2>1, <2>5, <4>1
    <3>2. q = <<>> /\ Len(s) = 0
      <4>1. [i \in DOMAIN <<>> |-> IF i > 1 /\ s[i] = Slash /\ s[i - 1] = Slash
                                   THEN <<>> ELSE <<s[i]>>] = <<>>
        OBVIOUS
      <4>2. q = FlattenSeq(<<>>)
        BY <2>5, <4>1 DEF CollapseSlashes
      <4> QED
        BY <2>5, <4>2, FlattenFew
    <3>3. e \in Segs /\ e \in Paths /\ <<>> \in Paths
      BY EndSlash, PathsConcat
    <3>4. <<>> \o e = e
      BY <3>3, PathsAlgebra
    <3>5. a = e /\ CollapseSlashes(a) = e
      BY <2>3, <2>4, <2>5, <3>1, <3>2, <3>4
    <3>6. SingleSlashes(e)
      <4>1. Len(e) = 1
        OBVIOUS
      <4> HIDE DEF e
      <4> QED
        BY <4>1 DEF SingleSlashes
    <3>7. Alike(e, e)
      BY <3>3, <3>4 DEF Alike
    <3> HIDE DEF a, e
    <3> QED
      BY <3>5, <3>6, <3>7
  <2>6. CASE s # <<>>
    <3>1. Alike(s, q) /\ SingleSlashes(q)
      BY <1>2, <2>2, <2>6
    <3>2. PICK r \in Paths, t \in Paths, x \in Segs :
             s = r \o x /\ q = t \o x /\ Walk(r) = Walk(t)
      BY <3>1 DEF Alike
    <3>3. /\ x \in Seq(Nat) /\ Len(x) \in Nat \ {0} /\ x[1] = Slash
          /\ r \in Seq(Nat) /\ t \in Seq(Nat) /\ x \in Paths
          /\ \A k \in 2..Len(x) : x[k] # Slash
      BY NameOf, PathsConcat DEF Paths, Segs
    <3>4. /\ q \in Seq(Nat) /\ Len(s) # 0 /\ Len(q) # 0
          /\ s[Len(s)] = x[Len(x)] /\ q[Len(q)] = x[Len(x)]
      <4>1. /\ r \o x \in Seq(Nat) /\ Len(r \o x) = Len(r) + Len(x)
            /\ (r \o x)[Len(r) + Len(x)] = x[Len(x)]
        BY <3>3
      <4>2. /\ t \o x \in Seq(Nat) /\ Len(t \o x) = Len(t) + Len(x)
            /\ (t \o x)[Len(t) + Len(x)] = x[Len(x)]
        BY <3>3
      <4>3. Len(r) \in Nat /\ Len(t) \in Nat
        BY <3>3
      <4>4. Len(r) + Len(x) # 0 /\ Len(t) + Len(x) # 0
        BY <3>3, <4>3
      <4> HIDE DEF q
      <4> QED
        BY <3>2, <4>1, <4>2, <4>4
    <3>5. r \o x \in Paths /\ t \o x \in Paths /\ Walk(r \o x) = Walk(t \o x)
      BY <3>2, PathsConcat, WalkAppend
    <3> DEFINE e == <<Slash>>
    <3>6. CASE c = Slash /\ x[Len(x)] = Slash
      <4>1. Len(x) = 1
        <5> DEFINE l == Len(x)
        <5>1. l \in Nat \ {0} /\ l \notin 2..l
          BY <3>3, <3>6
        <5> HIDE DEF l
        <5>2. l = 1
          BY <5>1
        <5> QED
          BY <5>2 DEF l
      <4>2. x = e
        <5>1. e \in Seq(Nat) /\ Len(e) = 1 /\ e[1] = Slash
          BY DEF Slash
        <5> HIDE DEF e
        <5>2. \A k \in 1..Len(x) : x[k] = e[k]
          BY <3>3, <4>1, <5>1
        <5> QED
          BY <3>3, <4>1, <5>1, <5>2, SameText
      <4>3. CollapseSlashes(a) = q
        <5>1. CollapseSlashes(a) = q \o <<>>
          BY <2>3, <3>4, <3>6
        <5> QED
          BY <3>4, <5>1, ConcatEmptySeq
      <4>4. a = s \o x /\ s = r \o x
        BY <2>4, <3>2, <3>6, <4>2
      <4>5. Walk(s) = Walk(t)
        BY <3>2, <4>2, <4>4, EndSlash
      <4>6. Alike(a, q)
        BY <2>2, <3>2, <4>4, <4>5 DEF Alike
      <4> QED
        BY <3>1, <4>3, <4>6
    <3>7. CASE ~(c = Slash /\ x[Len(x)] = Slash)
      <4>1. CollapseSlashes(a) = q \o <<c>>
        BY <2>3, <3>4, <3>7
      <4>2. SingleSlashes(q \o <<c>>)
        BY <3>1, <3>4, <3>7, SingleAppend
      <4>3. CASE c = Slash
        <5>1. a = (r \o x) \o e /\ CollapseSlashes(a) = (t \o x) \o e /\ e \in Segs
          BY <2>4, <3>2, <4>1, <4>3, EndSlash
        <5>2. Alike(a, CollapseSlashes(a))
          BY <3>5, <5>1 DEF Alike
        <5> QED
          BY <4>1, <4>2, <5>2
      <4>4. CASE c # Slash
        <5>1. Append(x, c) \in Segs
          BY <4>4, SegGrows
        <5>2. Append(r \o x, c) = r \o Append(x, c) /\ Append(t \o x, c) = t \o Append(x, c)
          BY LongerSeg
        <5>3. q \o <<c>> = Append(q, c)
          BY <3>4
        <5>4. a = r \o Append(x, c) /\ CollapseSlashes(a) = t \o Append(x, c)
          BY <3>2, <4>1, <5>2, <5>3
        <5>5. Alike(a, CollapseSlashes(a))
          BY <3>2, <5>1, <5>4 DEF Alike
        <5> QED
          BY <4>1, <4>2, <5>5
      <4> QED
        BY <4>3, <4>4
    <3> QED
      BY <3>6, <3>7
  <2> QED
    BY <2>5, <2>6
<1> HIDE DEF P
<1>3. Seq(Nat) \subseteq P
  BY <1>1, <1>2, SeqInduction
<1> QED
  BY <1>3 DEF P, Paths

\* The first loop of the code leaves the meaning as it is.
LEMMA Collapsed ==
    ASSUME NEW p \in Seq(Nat), Absolute(p)
    PROVE  LET q == CollapseSlashes(p)
           IN  q \in Paths /\ Absolute(q) /\ SingleSlashes(q) /\ Meaning(q) = Meaning(p)
<1> DEFINE q == CollapseSlashes(p)
<1>1. p \in Paths /\ p # <<>>
  BY DEF Paths, Absolute
<1>2. Alike(p, q) /\ SingleSlashes(q)
  BY <1>1, CollapseIs
<1> HIDE DEF q
<1>3. PICK r \in Paths, t \in Paths, x \in Segs :
         p = r \o x /\ q = t \o x /\ Walk(r) = Walk(t)
  BY <1>2 DEF Alike
<1>4. /\ Last(Segments(p)) = Tail(x) /\ Last(Segments(q)) = Tail(x)
      /\ Absolute(q) /\ q \in Paths
  BY <1>3, LastSegment
<1>5. Walk(p) = Walk(q)
  BY <1>3, WalkAppend
<1>6. Trailing(p) <=> Trailing(q)
  BY <1>4 DEF Trailing
<1>7. Meaning(q) = Meaning(p)
  BY <1>4, <1>5, <1>6, MeaningSame, Zenon
<1> QED
  BY <1>2, <1>4, <1>7 DEF q

-----------------------------------------------------------------------------
(* The theorems.                                                           *)

\* What is not absolute is refused, and has no meaning.
LEMMA Refused == \A p : ~Absolute(p) => Meaning(p) = Abnormal
BY Zenon DEF Meaning

LEMMA NInvInit == Init => NInv
BY RawPathsAssumption DEF Init, NInv, Normalising, RewritingKeepsMeaning

LEMMA NInvStep == NInv /\ [NNext]_vars => NInv'
<1> SUFFICES ASSUME NInv, [NNext]_vars PROVE NInv'
  OBVIOUS
<1> USE DEF NInv, Normalising, RewritingKeepsMeaning
<1>0. ASSUME NEW p \in Seq(Nat), Absolute(p) PROVE p \in Paths
  BY <1>0 DEF Absolute, Paths
<1>1. CASE Refuse
  <2>1. /\ stage' = "returned" /\ ret' = <<>> /\ path' = path /\ ~Absolute(path)
        /\ ok' = ok /\ stage = "called"
    BY <1>1 DEF Refuse
  <2>2. ret' = Meaning(path)' /\ <<>> \in Seq(Nat)
    BY <2>1, Refused DEF Abnormal
  <2>3. ~ok'
    BY <2>1
  <2> QED
    BY <2>1, <2>2, <2>3 DEF Abnormal
<1>2. CASE Collapse
  <2> DEFINE q == CollapseSlashes(ret)
  <2>1. /\ stage = "called" /\ Absolute(path) /\ ret = path /\ path \in Seq(Nat)
        /\ ret' = q /\ stage' = "dots" /\ path' = path /\ ok' = ok
    BY <1>2 DEF Collapse
  <2>2. q \in Paths /\ Absolute(q) /\ SingleSlashes(q) /\ Meaning(q) = Meaning(path)
    BY <2>1, Collapsed
  <2> HIDE DEF q
  <2>3. q \in Seq(Nat)
    BY <2>2 DEF Paths
  <2> QED
    BY <2>1, <2>2, <2>3
<1>3. CASE DropDot
  <2> DEFINE i == Min(DotSegments(ret))
             q == Replaced(ret, i, i + 2)
  <2>1. /\ stage = "dots" /\ DotSegments(ret) # {} /\ ret' = q
        /\ path' = path /\ stage' = stage /\ ok' = ok
    BY <1>3 DEF DropDot
  <2>2. /\ ret \in Seq(Nat) /\ Absolute(ret) /\ SingleSlashes(ret)
        /\ Meaning(ret) = Meaning(path) /\ path \in Seq(Nat)
    BY <2>1
  <2>3. ret \in Paths
    BY <1>0, <2>2
  <2>4. i \in DotSegments(ret)
    <3>1. DotSegments(ret) \subseteq Nat
      BY <2>2 DEF DotSegments
    <3>2. PICK m \in DotSegments(ret) : \A n \in DotSegments(ret) : m <= n
      BY <2>1, <3>1, LeastNatural
    <3> QED
      BY <3>2 DEF Min
  <2> HIDE DEF i
  <2>5. q \in Paths /\ Absolute(q) /\ Meaning(q) = Meaning(ret) /\ SingleSlashes(q)
    BY <2>2, <2>3, <2>4, DotDropped, Zenon
  <2> HIDE DEF q
  <2>6. q \in Seq(Nat)
    BY <2>5 DEF Paths
  <2> QED
    BY <2>1, <2>2, <2>5, <2>6
<1>4. CASE DotsGone
  BY <1>4 DEF DotsGone
<1>5. CASE DropParent
  <2> DEFINE i == Min(DotDotSegments(ret))
             q == Replaced(ret, i, Next(ret, i + 1, {Slash}) + 3)
  <2>1. /\ stage = "parents" /\ DotDotSegments(ret) # {} /\ ret' = q
        /\ path' = path /\ stage' = stage /\ ok' = ok
    BY <1>5 DEF DropParent
  <2>2. /\ ret \in Seq(Nat) /\ Absolute(ret) /\ SingleSlashes(ret) /\ DotSegments(ret) = {}
        /\ Meaning(ret) = Meaning(path) /\ path \in Seq(Nat)
    BY <2>1
  <2>3. ret \in Paths
    BY <1>0, <2>2
  <2>4. i \in DotDotSegments(ret)
    <3>1. DotDotSegments(ret) \subseteq Nat
      BY <2>2 DEF DotDotSegments
    <3>2. PICK m \in DotDotSegments(ret) : \A n \in DotDotSegments(ret) : m <= n
      BY <2>1, <3>1, LeastNatural
    <3> QED
      BY <3>2 DEF Min
  <2> HIDE DEF i
  <2>5. /\ q \in Paths /\ Absolute(q) /\ Meaning(q) = Meaning(ret) /\ SingleSlashes(q)
        /\ DotSegments(q) = {}
    BY <2>2, <2>3, <2>4, ParentDropped, Zenon
  <2> HIDE DEF q
  <2>6. q \in Seq(Nat)
    BY <2>5 DEF Paths
  <2> QED
    BY <2>1, <2>2, <2>5, <2>6
<1>6. CASE Return
  <2>1. /\ stage = "parents" /\ DotDotSegments(ret) = {} /\ stage' = "returned"
        /\ ret' = IF HasParentRef(ret) THEN <<>> ELSE ret
        /\ path' = path /\ ok' = ~HasParentRef(ret)
    BY <1>6 DEF Return
  <2>2. /\ ret \in Seq(Nat) /\ Absolute(ret) /\ SingleSlashes(ret) /\ DotSegments(ret) = {}
        /\ Meaning(ret) = Meaning(path) /\ path \in Seq(Nat)
    BY <2>1
  <2>3. ret \in Paths /\ ret # <<>>
    BY <1>0, <2>2 DEF Absolute
  <2>4. CASE HasParentRef(ret)
    <3>1. Meaning(ret) = <<>>
      BY <2>1, <2>2, <2>3, <2>4, LeftAbove DEF Abnormal
    <3>2. ret' = <<>> /\ <<>> \in Seq(Nat)
      BY <2>1, <2>4
    <3>3. ~ok'
      BY <2>1, <2>4
    <3> QED
      BY <2>1, <2>2, <3>1, <3>2, <3>3 DEF Abnormal
  <2>5. CASE ~HasParentRef(ret)
    <3>1. Meaning(ret) = ret
      BY <2>2, <2>3, <2>5, CleanIs, CleanMeaning
    <3>2. ret' = ret
      BY <2>1, <2>5
    <3>3. ok'
      BY <2>1, <2>5
    <3> QED
      BY <2>1, <2>2, <2>3, <3>1, <3>2, <3>3 DEF Abnormal
  <2> QED
    BY <2>4, <2>5
<1>7. CASE UNCHANGED vars
  BY <1>7 DEF vars
<1> QED
  BY <1>1, <1>2, <1>3, <1>4, <1>5, <1>6, <1>7 DEF NNext

THEOREM NInvHolds == Spec => []NInv
<1>1. Init => NInv
  BY NInvInit
<1>2. NInv /\ [NNext]_vars => NInv'
  BY NInvStep
<1> QED
  BY <1>1, <1>2, PTL DEF Spec

\* No substitution changes the place that the text names, nor whether it is
\* below the root, in any text that NormalizePath is given.
THEOREM RewritingAlwaysKeepsMeaning == Spec => []RewritingKeepsMeaning
<1>1. NInv => RewritingKeepsMeaning
  BY DEF NInv
<1> QED
  BY <1>1, NInvHolds, PTL

\* The meaning that the abstract specification speaks of is the one said here.
LEMMA SameMeaning == \A p : Asked!Meaning(p) = Meaning(p)
<1>1. \A n : Asked!Ordered(n) = Ordered(n)
  BY Zenon DEF Asked!Ordered, Ordered, Asked!Cardinality, Cardinality
<1>2. \A p, s : Asked!Pieces(p, s) = Pieces(p, s)
  BY <1>1, Zenon DEF Asked!Pieces, Pieces, Asked!PartedAt, PartedAt
<1>3. Asked!Slash = Slash /\ Asked!Here = Here /\ Asked!Up = Up /\ Asked!Abnormal = Abnormal
  BY DEF Asked!Slash, Slash, Asked!Here, Here, Asked!Up, Up, Asked!Dot, Dot, Asked!Abnormal, Abnormal
<1>4. \A p : Asked!Segments(p) = Segments(p) /\ Asked!Absolute(p) = Absolute(p)
  BY <1>2, <1>3, Zenon DEF Asked!Segments, Segments, Asked!Absolute, Absolute
<1>5. \A s : Asked!Front(s) = Front(s) /\ Asked!Last(s) = Last(s)
  BY Zenon DEF Asked!Front, Front, Asked!Last, Last
<1>6. \A at, s : Asked!Stepped(at, s) = Stepped(at, s)
  BY <1>3, <1>5, Zenon DEF Asked!Stepped, Stepped
<1>7. Asked!AtRoot = AtRoot
  BY DEF Asked!AtRoot, AtRoot
<1>8. \A s : Asked!Along(s) = Along(s)
  BY <1>6, <1>7, Zenon DEF Asked!Along, Along
<1>9. \A s : Asked!FlattenSeq(s) = FlattenSeq(s)
  BY Zenon DEF Asked!FlattenSeq, FlattenSeq
<1>10. \A s, t : Asked!Joined(s, t) = Joined(s, t)
  BY <1>9, Zenon DEF Asked!Joined, Joined
<1>11. \A p : Asked!Walk(p) = Walk(p)
  BY <1>4, <1>8, Zenon DEF Asked!Walk, Walk
<1> QED
  BY <1>3, <1>4, <1>5, <1>10, <1>11, Zenon DEF Asked!Meaning, Meaning

\* A step of the rewriting is a step of the abstract specification, or none.
LEMMA NStepImplements ==
    ASSUME NInv, NInv', [NNext]_vars
    PROVE  [Asked!Normalise]_<<path, IF stage = "returned" THEN <<ret>> ELSE <<>> >>
<1>1. ASSUME stage # "returned", stage' # "returned", path' = path
      PROVE  UNCHANGED <<path, IF stage = "returned" THEN <<ret>> ELSE <<>> >>
  BY <1>1
<1>2. ASSUME stage # "returned", stage' = "returned", path' = path
      PROVE  Asked!Normalise
  <2>1. ret' = Meaning(path)
    BY <1>2 DEF NInv, Normalising
  <2>2. ret' = Asked!Meaning(path)
    BY <2>1, SameMeaning
  <2> QED
    BY <1>2, <2>2 DEF Asked!Normalise
<1>3. CASE NNext
  <2>1. path' = path /\ stage # "returned"
    BY <1>3 DEF NNext, Refuse, Collapse, DropDot, DotsGone, DropParent, Return
  <2> QED
    BY <1>1, <1>2, <2>1
<1>4. CASE UNCHANGED vars
  BY <1>4 DEF vars
<1> QED
  BY <1>3, <1>4

LEMMA NInitImplements == Init => Asked!AInit
BY RawPathsAssumption DEF Init, Asked!AInit

\* Every text is normalised as its walk says: NormalizePath, rewriting step by
\* step, makes one step from the raw path to what it means.
THEOREM NormalizePathImplements == Spec => ImplementsMeaning
<1>1. Init => Asked!AInit
  BY NInitImplements
<1>2. NInv /\ NInv' /\ [NNext]_vars
         => [Asked!Normalise]_<<path, IF stage = "returned" THEN <<ret>> ELSE <<>> >>
  BY NStepImplements
<1> QED
  BY <1>1, <1>2, NInvHolds, PTL DEF Spec, ImplementsMeaning, Asked!ASpec
=============================================================================
