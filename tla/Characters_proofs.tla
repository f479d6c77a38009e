------------------------- MODULE Characters_proofs --------------------------
(***************************************************************************)
(* The least-element principle and induction in the form the proofs about  *)
(* searches and recursive functions use them, for sets and not predicates; *)
(* and facts about the operators on texts of Characters, for every text.   *)
(* What recursion computes is reached by induction on the length: the      *)
(* function a definition chooses is shown to exist and to be the only one. *)
(***************************************************************************)
EXTENDS Escapes, PathMeaning, FiniteSetTheorems, WellFoundedInduction, SequenceTheorems, TLAPS

\* Every non-empty set of naturals has a least element: the library states it
\* for predicates, this states it for sets, from finite intervals being
\* well-founded under strict inclusion.
LEMMA LeastNatural ==
    ASSUME NEW S, S \subseteq Nat, S # {}
    PROVE  \E m \in S : \A n \in S : m <= n
<1> DEFINE Smaller == StrictSubsetOrdering(Nat)
           Fin == FiniteSubsetsOf(Nat)
           Intervals == {0..n : n \in S}
<1>1. IsWellFoundedOn(Smaller, Fin)
  BY FS_StrictSubsetOrderingWellFounded
<1>2. Intervals \subseteq Fin
  <2>1. ASSUME NEW n \in S PROVE 0..n \in Fin
    <3>1. n \in Int /\ 0 \in Int
      OBVIOUS
    <3>2. IsFiniteSet(0..n)
      BY <3>1, FS_Interval, Zenon
    <3> QED BY <3>2 DEF FiniteSubsetsOf
  <2> QED BY <2>1
<1>3. Intervals # {}
  OBVIOUS
<1>4. \E x \in Intervals : \A y \in Intervals : ~(<<y, x>> \in Smaller)
  <2> HIDE DEF Smaller, Fin, Intervals
  <2> QED BY <1>1, <1>2, <1>3, WFMin, Zenon
<1>5. PICK m \in S : \A n \in S : <<0..n, 0..m>> \notin Smaller
  BY <1>4
<1>6. ASSUME NEW n \in S PROVE m <= n
  <2>1. SUFFICES ASSUME n < m PROVE FALSE
    OBVIOUS
  <2>2. 0..n \subseteq 0..m /\ 0..n # 0..m
    <3>1. m \notin 0..n /\ m \in 0..m
      BY <2>1
    <3> QED BY <2>1, <3>1
  <2>3. 0..n \in SUBSET Nat /\ 0..m \in SUBSET Nat
    OBVIOUS
  <2> QED BY <1>5, <2>2, <2>3 DEF StrictSubsetOrdering
<1> QED BY <1>6

\* Induction over the naturals, again for sets and not for predicates.
LEMMA Induction ==
    ASSUME NEW S, 0 \in S, \A n \in Nat : n \in S => n + 1 \in S
    PROVE  Nat \subseteq S
<1>1. SUFFICES ASSUME Nat \ S # {} PROVE FALSE
  OBVIOUS
<1>2. PICK m \in Nat \ S : \A n \in Nat \ S : m <= n
  BY <1>1, LeastNatural
<1>3. m # 0 /\ m - 1 \in Nat /\ m - 1 \notin Nat \ S
  BY <1>2
<1>4. (m - 1) + 1 \in S
  BY <1>3
<1> QED BY <1>2, <1>4

\* The greatest of some numbers under a bound.
LEMMA MaxIs ==
    ASSUME NEW b \in Nat, NEW S \in SUBSET (0..b), S # {}
    PROVE  Max(S) \in S /\ \A n \in S : n <= Max(S)
<1> DEFINE U == {u \in Nat : \A n \in S : n <= u}
<1>1. b \in U /\ U \subseteq Nat /\ S \subseteq Nat
  OBVIOUS
<1>2. PICK m \in U : \A u \in U : m <= u
  BY <1>1, LeastNatural
<1>3. m \in Nat /\ \A n \in S : n <= m
  OBVIOUS
<1>4. m \in S
  <2> SUFFICES ASSUME m \notin S PROVE FALSE
    OBVIOUS
  <2>1. \A n \in S : n <= m - 1 /\ 0 <= m - 1
    <3> TAKE n \in S
    <3>1. n \in Nat /\ n <= m /\ n # m
      BY <1>1, <1>3
    <3> QED
      BY <1>3, <3>1
  <2>2. m - 1 \in Nat
    <3>1. 0 <= m - 1
      BY <2>1
    <3> QED
      BY <1>3, <3>1
  <2>3. m - 1 \in U
    BY <2>1, <2>2
  <2> QED
    BY <1>2, <1>3, <2>3
<1>5. \E x \in S : \A y \in S : x >= y
  BY <1>1, <1>3, <1>4
<1> DEFINE x == CHOOSE x \in S : \A y \in S : x >= y
<1>6. x \in S /\ \A y \in S : x >= y
  BY <1>5
<1>7. Max(S) = x
  BY DEF Max
<1> HIDE DEF x
<1> QED
  BY <1>1, <1>6, <1>7

\* Induction over sequences, from one to the sequence with one element more.
LEMMA SeqInduction ==
    ASSUME NEW X, NEW P, <<>> \in P,
           \A s \in Seq(X) : \A x \in X : s \in P => Append(s, x) \in P
    PROVE  Seq(X) \subseteq P
<1> DEFINE N == {n \in Nat : \A t \in Seq(X) : Len(t) = n => t \in P}
<1>1. 0 \in N
  OBVIOUS
<1>2. ASSUME NEW n \in Nat, n \in N PROVE n + 1 \in N
  <2> SUFFICES ASSUME NEW t \in Seq(X), Len(t) = n + 1 PROVE t \in P
    OBVIOUS
  <2> DEFINE u == SubSeq(t, 1, n)
  <2>1. u \in Seq(X) /\ Len(u) = n /\ t[n + 1] \in X /\ t = Append(u, t[n + 1])
    OBVIOUS
  <2> HIDE DEF u
  <2> QED
    BY <1>2, <2>1
<1> HIDE DEF N
<1>3. Nat \subseteq N
  BY <1>1, <1>2, Induction
<1> QED
  BY <1>3 DEF N

-----------------------------------------------------------------------------
(* FlattenSeq.                                                             *)

\* f is the function that FlattenSeq's recursion defines on the places of s.
Flattens(f, s) ==
    f = [i \in 1..Len(s) |-> IF i = 1 THEN s[i] ELSE f[i - 1] \o s[i]]

\* What the recursion says, place by place.
LEMMA FlattensValues ==
    ASSUME NEW f, NEW s, Flattens(f, s)
    PROVE  /\ DOMAIN f = 1..Len(s)
           /\ f = [i \in 1..Len(s) |-> f[i]]
           /\ \A i \in 1..Len(s) :
                 f[i] = IF i = 1 THEN s[i] ELSE f[i - 1] \o s[i]
<1> DEFINE g == [i \in 1..Len(s) |-> IF i = 1 THEN s[i] ELSE f[i - 1] \o s[i]]
<1>1. f = g
  BY DEF Flattens
<1>2. /\ DOMAIN g = 1..Len(s)
      /\ g = [i \in 1..Len(s) |-> g[i]]
      /\ \A i \in 1..Len(s) :
            g[i] = IF i = 1 THEN s[i] ELSE f[i - 1] \o s[i]
  OBVIOUS
<1> HIDE DEF g
<1> QED
  BY <1>1, <1>2, Zenon

\* The recursion has a solution on one place more than it had one before.
LEMMA FlattensExtends ==
    ASSUME NEW S, NEW s \in Seq(S), NEW x \in S, NEW f, Flattens(f, s)
    PROVE  \E g : /\ Flattens(g, Append(s, x))
                  /\ g[Len(s) + 1] = IF s = <<>> THEN x ELSE f[Len(s)] \o x
<1> DEFINE n == Len(s)
           t == Append(s, x)
           g == [i \in 1..(n + 1) |->
                   IF i = n + 1 THEN IF s = <<>> THEN x ELSE f[n] \o x ELSE f[i]]
<1>1. /\ n \in Nat /\ Len(t) = n + 1 /\ t[n + 1] = x
      /\ \A i \in 1..n : t[i] = s[i]
      /\ s = <<>> <=> n = 0
  OBVIOUS
<1>2. \A i \in 1..n : f[i] = IF i = 1 THEN s[i] ELSE f[i - 1] \o s[i]
  BY FlattensValues
<1> HIDE DEF n, t
<1>3. \A i \in 1..(n + 1) : g[i] = IF i = 1 THEN t[i] ELSE g[i - 1] \o t[i]
  <2> TAKE i \in 1..(n + 1)
  <2>1. CASE i = n + 1 /\ n = 0
    BY <1>1, <2>1
  <2>2. CASE i = n + 1 /\ n # 0
    <3>1. i # 1 /\ i - 1 = n /\ n \in 1..(n + 1) /\ n # n + 1
      BY <1>1, <2>2
    <3> QED
      BY <1>1, <2>2, <3>1
  <2>3. CASE i # n + 1 /\ i = 1
    <3>1. 1 \in 1..n
      BY <1>1, <2>3
    <3> QED
      BY <1>1, <1>2, <2>3, <3>1
  <2>4. CASE i # n + 1 /\ i # 1
    <3>1. i \in 1..n /\ i - 1 \in 1..(n + 1) /\ i - 1 # n + 1
      BY <1>1, <2>4
    <3> QED
      BY <1>1, <1>2, <2>4, <3>1
  <2> QED
    BY <2>1, <2>2, <2>3, <2>4
<1>4. g[n + 1] = IF s = <<>> THEN x ELSE f[n] \o x
  BY <1>1
<1>5. g = [i \in 1..(n + 1) |-> g[i]]
  OBVIOUS
<1> HIDE DEF g
<1>6. g = [i \in 1..Len(t) |-> IF i = 1 THEN t[i] ELSE g[i - 1] \o t[i]]
  BY <1>1, <1>3, <1>5
<1>7. Flattens(g, t)
  BY <1>6, Zenon DEF Flattens
<1> QED
  BY <1>4, <1>7 DEF n, t

\* It has a solution for every sequence.
LEMMA FlattensExists ==
    ASSUME NEW S, NEW s \in Seq(S)
    PROVE  \E f : Flattens(f, s)
<1> DEFINE P == {t \in Seq(S) : \E f : Flattens(f, t)}
<1>1. <<>> \in P
  <2> DEFINE e == [i \in {} |-> i]
             t == <<>>
  <2>1. 1..Len(t) = {} /\ t \in Seq(S)
    OBVIOUS
  <2> HIDE DEF t
  <2>2. e = [i \in 1..Len(t) |-> IF i = 1 THEN t[i] ELSE e[i - 1] \o t[i]]
    BY <2>1
  <2> QED
    BY <2>1, <2>2 DEF Flattens, t
<1>2. \A t \in Seq(S) : \A x \in S : t \in P => Append(t, x) \in P
  BY FlattensExtends
<1> HIDE DEF P
<1>3. Seq(S) \subseteq P
  BY <1>1, <1>2, SeqInduction
<1> QED
  BY <1>3 DEF P

\* It has one solution only.
LEMMA FlattensUnique ==
    ASSUME NEW S, NEW s \in Seq(S), NEW f, NEW g, Flattens(f, s), Flattens(g, s)
    PROVE  f = g
<1> DEFINE N == {n \in Nat : n + 1 \in 1..Len(s) => f[n + 1] = g[n + 1]}
<1>1. /\ DOMAIN f = 1..Len(s) /\ DOMAIN g = 1..Len(s)
      /\ \A i \in 1..Len(s) : f[i] = IF i = 1 THEN s[i] ELSE f[i - 1] \o s[i]
      /\ \A i \in 1..Len(s) : g[i] = IF i = 1 THEN s[i] ELSE g[i - 1] \o s[i]
  BY FlattensValues
<1>2. 0 \in N
  <2> SUFFICES ASSUME 0 + 1 \in 1..Len(s) PROVE f[0 + 1] = g[0 + 1]
    OBVIOUS
  <2>1. 0 + 1 = 1
    OBVIOUS
  <2> QED
    BY <1>1, <2>1
<1>3. ASSUME NEW n \in Nat, n \in N PROVE n + 1 \in N
  <2> SUFFICES ASSUME n + 2 \in 1..Len(s) PROVE f[n + 2] = g[n + 2]
    OBVIOUS
  <2>1. n + 1 \in 1..Len(s) /\ (n + 2) - 1 = n + 1 /\ n + 2 # 1
    OBVIOUS
  <2>2. f[n + 1] = g[n + 1]
    BY <1>3, <2>1
  <2>3. f[n + 2] = f[n + 1] \o s[n + 2] /\ g[n + 2] = g[n + 1] \o s[n + 2]
    BY <1>1, <2>1
  <2> QED
    BY <2>2, <2>3
<1> HIDE DEF N
<1>4. Nat \subseteq N
  BY <1>2, <1>3, Induction
<1>5. \A i \in 1..Len(s) : f[i] = g[i]
  <2> TAKE i \in 1..Len(s)
  <2>1. i - 1 \in N /\ (i - 1) + 1 = i
    BY <1>4
  <2> QED
    BY <2>1 DEF N
<1>6. f = [i \in 1..Len(s) |-> f[i]] /\ g = [i \in 1..Len(s) |-> g[i]]
  BY FlattensValues
<1> QED
  BY <1>5, <1>6, Zenon

\* FlattenSeq is the last value of the one solution.
LEMMA FlattenIs ==
    ASSUME NEW S, NEW s \in Seq(S), NEW f, Flattens(f, s)
    PROVE  FlattenSeq(s) = IF s = <<>> THEN <<>> ELSE f[Len(s)]
<1> DEFINE c == CHOOSE g : Flattens(g, s)
<1>1. FlattenSeq(s) = IF Len(s) = 0 THEN s ELSE c[Len(s)]
  BY DEF FlattenSeq, Flattens
<1>2. Flattens(c, s)
  OBVIOUS
<1> HIDE DEF c
<1>3. c = f
  BY <1>2, FlattensUnique
<1> QED
  BY <1>1, <1>3

\* FlattenSeq, one element more.
LEMMA FlattenAppend ==
    ASSUME NEW S, NEW s \in Seq(Seq(S)), NEW x \in Seq(S)
    PROVE  FlattenSeq(Append(s, x)) = FlattenSeq(s) \o x
<1>1. PICK f : Flattens(f, s)
  BY FlattensExists
<1>2. PICK g : /\ Flattens(g, Append(s, x))
               /\ g[Len(s) + 1] = IF s = <<>> THEN x ELSE f[Len(s)] \o x
  BY <1>1, FlattensExtends
<1>3. /\ Append(s, x) \in Seq(Seq(S)) /\ Append(s, x) # <<>>
      /\ Len(Append(s, x)) = Len(s) + 1
      /\ <<>> \o x = x
  BY ConcatEmptySeq, AppendProperties
<1>4. FlattenSeq(Append(s, x)) = g[Len(s) + 1]
  BY <1>2, <1>3, FlattenIs
<1>5. FlattenSeq(s) = IF s = <<>> THEN <<>> ELSE f[Len(s)]
  BY <1>1, FlattenIs
<1> QED
  BY <1>2, <1>3, <1>4, <1>5

\* FlattenSeq of nothing, and of one element.
LEMMA FlattenFew ==
    /\ FlattenSeq(<<>>) = <<>>
    /\ \A S : \A x \in Seq(S) : FlattenSeq(<<x>>) = x
<1>1. FlattenSeq(<<>>) = <<>>
  BY DEF FlattenSeq
<1>2. ASSUME NEW S, NEW x \in Seq(S) PROVE FlattenSeq(<<x>>) = x
  <2>1. /\ <<>> \in Seq(Seq(S)) /\ Append(<<>>, x) = <<x>>
        /\ <<>> \o x = x
    BY ConcatEmptySeq
  <2> QED
    BY <1>1, <2>1, FlattenAppend
<1> QED
  BY <1>1, <1>2

\* A sequence of texts makes one text.
LEMMA FlattenType ==
    ASSUME NEW S, NEW s \in Seq(Seq(S))
    PROVE  FlattenSeq(s) \in Seq(S)
<1> DEFINE P == {t \in Seq(Seq(S)) : FlattenSeq(t) \in Seq(S)}
<1>1. <<>> \in P
  <2>1. <<>> \in Seq(Seq(S)) /\ <<>> \in Seq(S)
    OBVIOUS
  <2> QED
    BY <2>1, FlattenFew
<1>2. ASSUME NEW t \in Seq(Seq(S)), NEW x \in Seq(S), t \in P
      PROVE  Append(t, x) \in P
  <2>1. FlattenSeq(Append(t, x)) = FlattenSeq(t) \o x
    BY FlattenAppend
  <2>2. FlattenSeq(t) \o x \in Seq(S) /\ Append(t, x) \in Seq(Seq(S))
    BY <1>2, ConcatProperties, AppendProperties
  <2> QED
    BY <2>1, <2>2
<1> HIDE DEF P
<1>3. Seq(Seq(S)) \subseteq P
  BY <1>1, <1>2, SeqInduction
<1> QED
  BY <1>3 DEF P

\* What is flattened in two parts can be flattened part by part.
LEMMA FlattenConcat ==
    ASSUME NEW S, NEW s \in Seq(Seq(S)), NEW t \in Seq(Seq(S))
    PROVE  FlattenSeq(s \o t) = FlattenSeq(s) \o FlattenSeq(t)
<1> DEFINE P == {u \in Seq(Seq(S)) :
                   FlattenSeq(s \o u) = FlattenSeq(s) \o FlattenSeq(u)}
<1>1. <<>> \in P
  <2>1. FlattenSeq(s) \in Seq(S)
    BY FlattenType
  <2>2. s \o <<>> = s /\ FlattenSeq(s) \o <<>> = FlattenSeq(s)
    BY <2>1, ConcatEmptySeq
  <2>3. <<>> \in Seq(Seq(S))
    OBVIOUS
  <2> QED
    BY <2>2, <2>3, FlattenFew
<1>2. ASSUME NEW u \in Seq(Seq(S)), NEW x \in Seq(S), u \in P
      PROVE  Append(u, x) \in P
  <2> DEFINE v == s \o u
  <2>1. /\ v \in Seq(Seq(S)) /\ Append(u, x) \in Seq(Seq(S))
        /\ s \o Append(u, x) = Append(v, x)
    OBVIOUS
  <2>2. FlattenSeq(v) = FlattenSeq(s) \o FlattenSeq(u)
    BY <1>2
  <2> HIDE DEF v
  <2>3. /\ FlattenSeq(Append(v, x)) = FlattenSeq(v) \o x
        /\ FlattenSeq(Append(u, x)) = FlattenSeq(u) \o x
    BY <2>1, FlattenAppend
  <2>4. FlattenSeq(s) \in Seq(S) /\ FlattenSeq(u) \in Seq(S)
    BY FlattenType
  <2>5. (FlattenSeq(s) \o FlattenSeq(u)) \o x
           = FlattenSeq(s) \o (FlattenSeq(u) \o x)
    BY <2>4, ConcatAssociative, SMTT(30)
  <2> QED
    BY <2>1, <2>2, <2>3, <2>5
<1> HIDE DEF P
<1>3. Seq(Seq(S)) \subseteq P
  BY <1>1, <1>2, SeqInduction
<1> QED
  BY <1>3 DEF P

-----------------------------------------------------------------------------
(* Ordered.                                                                *)

\* A number above all the others comes last, and the others stay as they are.
LEMMA OrderedGrows ==
    ASSUME NEW N \in SUBSET Nat, IsFiniteSet(N),
           NEW m \in Nat, \A i \in N : i < m
    PROVE  LET n == Cardinality(N)
           IN  /\ n \in Nat /\ Cardinality(N \cup {m}) = n + 1
               /\ Ordered(N \cup {m}) =
                     [k \in 1..(n + 1) |-> IF k = n + 1 THEN m ELSE Ordered(N)[k]]
<1> DEFINE n == Cardinality(N)
           M == N \cup {m}
           Under(i) == {j \in N : j < i}
           At(k) == {i \in N : Cardinality({j \in N : j < i}) = k - 1}
           AtM(k) == {i \in M : Cardinality({j \in M : j < i}) = k - 1}
<1>1. n \in Nat /\ IsFiniteSet(M) /\ Cardinality(M) = n + 1
  BY FS_AddElement, FS_CardinalityType
<1>2. /\ \A i \in M : {j \in M : j < i} = Under(i)
      /\ Under(m) = N
  <2>1. \A i \in M : ~(m < i)
    OBVIOUS
  <2>2. \A i \in M : \A j \in M : j < i => j \in N
    BY <2>1
  <2> QED
    BY <2>2
<1>3. \A i \in N : Cardinality(Under(i)) \in Nat /\ Cardinality(Under(i)) < n
  <2> TAKE i \in N
  <2>1. Under(i) \subseteq N /\ i \notin Under(i)
    OBVIOUS
  <2>2. /\ IsFiniteSet(Under(i)) /\ Cardinality(Under(i)) <= n
        /\ n = Cardinality(Under(i)) => N = Under(i)
    BY <2>1, FS_Subset
  <2>3. Cardinality(Under(i)) \in Nat
    BY <2>2, FS_CardinalityType
  <2> HIDE DEF Under
  <2> QED
    BY <1>1, <2>1, <2>2, <2>3
<1>4. /\ \A i \in N : Cardinality({j \in M : j < i}) = Cardinality({j \in N : j < i})
      /\ Cardinality({j \in M : j < m}) = n
  BY <1>2
<1> HIDE DEF n
<1>5. \A k \in 1..n : AtM(k) = At(k)
  <2> TAKE k \in 1..n
  <2>1. n # k - 1
    BY <1>1
  <2> QED
    BY <1>4, <2>1
<1>6. AtM(n + 1) = {m}
  <2>1. \A i \in N : Cardinality({j \in M : j < i}) # (n + 1) - 1
    BY <1>1, <1>3, <1>4
  <2>2. Cardinality({j \in M : j < m}) = (n + 1) - 1
    BY <1>1, <1>4
  <2> QED
    BY <2>1, <2>2
<1>7. /\ Ordered(M) = [k \in 1..(n + 1) |->
                          CHOOSE i \in M : Cardinality({j \in M : j < i}) = k - 1]
      /\ Ordered(N) = [k \in 1..n |->
                          CHOOSE i \in N : Cardinality({j \in N : j < i}) = k - 1]
  BY <1>1 DEF Ordered, n
<1>8. \A k \in 1..(n + 1) :
         (CHOOSE i \in M : Cardinality({j \in M : j < i}) = k - 1)
            = (CHOOSE i : i \in AtM(k))
  OBVIOUS
<1>9. \A k \in 1..n :
         (CHOOSE i \in N : Cardinality({j \in N : j < i}) = k - 1)
            = (CHOOSE i : i \in At(k))
  OBVIOUS
<1> HIDE DEF M, At, AtM
<1>10. Ordered(M) = [k \in 1..(n + 1) |-> CHOOSE i : i \in AtM(k)]
  BY <1>7, <1>8
<1>11. Ordered(N) = [k \in 1..n |-> CHOOSE i : i \in At(k)]
  BY <1>7, <1>9
<1>12. \A k \in 1..(n + 1) :
          (CHOOSE i : i \in AtM(k)) = IF k = n + 1 THEN m ELSE Ordered(N)[k]
  <2> TAKE k \in 1..(n + 1)
  <2>1. CASE k = n + 1
    BY <1>6, <2>1
  <2>2. CASE k # n + 1
    <3>1. k \in 1..n
      BY <1>1, <2>2
    <3> QED
      BY <1>5, <1>11, <2>2, <3>1
  <2> QED
    BY <2>1, <2>2
<1>13. Ordered(M) = [k \in 1..(n + 1) |-> IF k = n + 1 THEN m ELSE Ordered(N)[k]]
  BY <1>10, <1>12
<1> QED
  BY <1>1, <1>13 DEF M, n

\* Ordered is a listing of the set: it holds its elements and no others.
LEMMA OrderedLists ==
    ASSUME NEW b \in Nat, NEW N \in SUBSET (0..b)
    PROVE  /\ IsFiniteSet(N)
           /\ Ordered(N) \in Seq(N) /\ Len(Ordered(N)) = Cardinality(N)
           /\ \A i \in N : \E k \in 1..Len(Ordered(N)) : Ordered(N)[k] = i
<1> DEFINE Lists(M) ==
             /\ Ordered(M) \in Seq(M) /\ Len(Ordered(M)) = Cardinality(M)
             /\ \A i \in M : \E k \in 1..Len(Ordered(M)) : Ordered(M)[k] = i
           P == {c \in Nat : \A M \in SUBSET Nat : (\A i \in M : i < c) => Lists(M)}
<1>1. 0 \in P
  <2> SUFFICES ASSUME NEW M \in SUBSET Nat, \A i \in M : i < 0 PROVE Lists(M)
    OBVIOUS
  <2>1. M = {} /\ Cardinality({}) = 0
    BY FS_EmptySet
  <2>2. Ordered(M) = <<>>
    BY <2>1 DEF Ordered
  <2>3. <<>> \in Seq(M) /\ Len(<<>>) = 0 /\ Cardinality(M) = 0
    BY <2>1
  <2> QED
    BY <2>1, <2>2, <2>3, Zenon
<1>2. ASSUME NEW c \in Nat, c \in P PROVE c + 1 \in P
  <2> SUFFICES ASSUME NEW M \in SUBSET Nat, \A i \in M : i < c + 1
               PROVE  Lists(M)
    OBVIOUS
  <2> DEFINE L == M \ {c}
             o == Ordered(L)
             n == Cardinality(L)
  <2>1. L \in SUBSET Nat /\ \A i \in L : i < c
    OBVIOUS
  <2>2. Lists(L)
    BY <1>2, <2>1
  <2>3. CASE c \notin M
    <3>1. L = M
      BY <2>3
    <3> HIDE DEF Lists
    <3> QED
      BY <2>2, <3>1
  <2>4. CASE c \in M
    <3>1. IsFiniteSet(L)
      <4>1. \A i \in L : i <= c
        BY <2>1
      <4> QED
        BY <2>1, <4>1, FS_BoundedSetOfNaturals
    <3>2. M = L \cup {c}
      BY <2>4
    <3>3. /\ n \in Nat /\ Cardinality(M) = n + 1
          /\ Ordered(M) = [k \in 1..(n + 1) |-> IF k = n + 1 THEN c ELSE o[k]]
      BY <2>1, <3>1, <3>2, OrderedGrows
    <3>4. /\ o \in Seq(L) /\ Len(o) = n
          /\ \A i \in L : \E k \in 1..n : o[k] = i
      BY <2>2
    <3> HIDE DEF L, o, n
    <3>5. /\ \A k \in 1..(n + 1) : Ordered(M)[k] = IF k = n + 1 THEN c ELSE o[k]
          /\ \A k \in 1..n : k \in 1..(n + 1) /\ k # n + 1 /\ o[k] \in L
          /\ n + 1 \in 1..(n + 1)
      BY <3>3, <3>4
    <3>6. Ordered(M) \in Seq(M) /\ Len(Ordered(M)) = n + 1
      <4>1. \A k \in 1..(n + 1) : (IF k = n + 1 THEN c ELSE o[k]) \in M
        BY <2>4, <3>2, <3>3, <3>5
      <4> QED
        BY <3>3, <4>1
    <3>7. \A i \in M : \E k \in 1..(n + 1) : Ordered(M)[k] = i
      BY <3>2, <3>4, <3>5
    <3> QED
      BY <3>3, <3>6, <3>7
  <2> QED
    BY <2>3, <2>4
<1> HIDE DEF P
<1>3. Nat \subseteq P
  BY <1>1, <1>2, Induction
<1>4. N \in SUBSET Nat /\ \A i \in N : i < b + 1 /\ i <= b
  OBVIOUS
<1>5. IsFiniteSet(N)
  BY <1>4, FS_BoundedSetOfNaturals
<1> HIDE DEF Lists
<1>6. Lists(N)
  BY <1>3, <1>4 DEF P
<1> QED
  BY <1>5, <1>6 DEF Lists

\* A number above all the others comes last.
LEMMA OrderedAppend ==
    ASSUME NEW b \in Nat, NEW N \in SUBSET (0..b), NEW m \in Nat, b < m
    PROVE  Ordered(N \cup {m}) = Append(Ordered(N), m)
<1> DEFINE n == Cardinality(N)
           o == Ordered(N)
<1>1. IsFiniteSet(N) /\ o \in Seq(N) /\ Len(o) = n
  BY OrderedLists
<1>2. N \in SUBSET Nat /\ \A i \in N : i < m
  OBVIOUS
<1>3. /\ n \in Nat
      /\ Ordered(N \cup {m}) = [k \in 1..(n + 1) |-> IF k = n + 1 THEN m ELSE o[k]]
  BY <1>1, <1>2, OrderedGrows
<1> HIDE DEF n, o
<1>4. o \in Seq(Nat)
  BY <1>1, <1>2, SeqMonotonic
<1>5. Append(o, m) = [k \in 1..(n + 1) |-> IF k = n + 1 THEN m ELSE o[k]]
  <2> DEFINE a == Append(o, m)
  <2>1. /\ Len(a) = Len(o) + 1
        /\ \A k \in 1..Len(o) : a[k] = o[k]
        /\ a[Len(o) + 1] = m
    <3> HIDE DEF o
    <3>1. o \in Seq(Nat) /\ m \in Nat
      BY <1>4
    <3> QED
      BY <3>1
  <2>2. a \in Seq(Nat)
    BY <1>4
  <2>3. a = [k \in 1..Len(a) |-> a[k]]
    <3> HIDE DEF a
    <3> QED
      BY <2>2
  <2> HIDE DEF a
  <2>4. Len(a) = n + 1 /\ \A k \in 1..(n + 1) : a[k] = IF k = n + 1 THEN m ELSE o[k]
    BY <1>1, <1>3, <2>1
  <2> QED
    BY <2>3, <2>4 DEF a
<1> QED
  BY <1>3, <1>5 DEF o

-----------------------------------------------------------------------------
(* Paths and their segments.                                               *)

\* The texts that are empty or begin with a slash.
Paths == {p \in Seq(Nat) : p # <<>> => p[1] = Slash}

\* A slash and a name, or a slash alone.
Segs == {s \in Seq(Nat) : s # <<>> /\ s[1] = Slash /\ \A i \in 2..Len(s) : s[i] # Slash}

\* What the places of a sequence hold.
LEMMA SeqFacts ==
    ASSUME NEW S, NEW s \in Seq(S)
    PROVE  /\ Len(s) \in Nat /\ DOMAIN s = 1..Len(s)
           /\ \A k \in 1..Len(s) : s[k] \in S
OBVIOUS

\* A part of a text, place by place.
LEMMA SubSeqIs ==
    ASSUME NEW s \in Seq(Nat), NEW i \in 1..Len(s), NEW j \in (i - 1)..Len(s)
    PROVE  /\ SubSeq(s, i, j) \in Seq(Nat)
           /\ SubSeq(s, i, j) = [k \in 1..(j - i + 1) |-> s[i + k - 1]]
<1>1. \A k \in i..j : s[k] \in Nat
  OBVIOUS
<1>2. SubSeq(s, i, j) \in Seq(Nat)
  BY <1>1, SubSeqProperties
<1>3. SubSeq(s, i, j) = [k \in 1..(j - i + 1) |-> s[i + k - 1]]
  OBVIOUS
<1> QED
  BY <1>2, <1>3

\* Next is where a character of the set is first met.
LEMMA NextIs ==
    ASSUME NEW text \in Seq(Nat), NEW set, NEW i \in Nat \ {0},
           NEW n \in i..(Len(text) + 1),
           n <= Len(text) => text[n] \in set,
           \A j \in i..(n - 1) : text[j] \notin set
    PROVE  Next(text, i, set) = n
<1> DEFINE S == {j \in i..Len(text) : text[j] \in set} \cup {Len(text) + 1}
<1>1. n \in S /\ \A j \in S : n <= j
  OBVIOUS
<1>2. \A m \in S : (\A j \in S : m <= j) => m = n
  BY <1>1
<1> HIDE DEF S
<1>3. Min(S) = n
  BY <1>1, <1>2 DEF Min
<1> QED
  BY <1>3 DEF Next, S

\* Where that is.
LEMMA NextPlace ==
    ASSUME NEW text \in Seq(Nat), NEW set, NEW i \in Nat \ {0}, i <= Len(text) + 1
    PROVE  /\ Next(text, i, set) \in i..(Len(text) + 1)
           /\ Next(text, i, set) <= Len(text) => text[Next(text, i, set)] \in set
           /\ \A j \in i..(Next(text, i, set) - 1) : text[j] \notin set
<1> DEFINE S == {j \in i..Len(text) : text[j] \in set} \cup {Len(text) + 1}
<1>1. S \subseteq Nat /\ S # {}
  OBVIOUS
<1>2. PICK m \in S : \A n \in S : m <= n
  BY <1>1, LeastNatural
<1>3. /\ m \in i..(Len(text) + 1)
      /\ m <= Len(text) => text[m] \in set
  OBVIOUS
<1>4. \A j \in i..(m - 1) : text[j] \notin set
  <2> SUFFICES ASSUME NEW j \in i..(m - 1), text[j] \in set PROVE FALSE
    OBVIOUS
  <2>1. j \in i..Len(text) /\ j < m
    BY <1>3
  <2> QED
    BY <1>2, <2>1
<1>5. Next(text, i, set) = m
  BY <1>3, <1>4, NextIs
<1> QED
  BY <1>3, <1>4, <1>5

\* The scan of a text with one segment more.
LEMMA ScanAppend ==
    ASSUME NEW p \in Seq(Nat), NEW x \in Segs
    PROVE  ScanSegments(p \o x) = Append(ScanSegments(p), x)
<1> DEFINE q == p \o x
           l == Len(p)
           N == {i \in DOMAIN p : p[i] = Slash}
           M == {i \in DOMAIN q : q[i] = Slash}
           o == Ordered(N)
           n == Len(o)
           seg(k) == SubSeq(p, o[k], Next(p, o[k] + 1, {Slash}) - 1)
<1>1. /\ x \in Seq(Nat) /\ Len(x) \in Nat \ {0} /\ x[1] = Slash
      /\ \A i \in 2..Len(x) : x[i] # Slash
  BY DEF Segs
<1>2. /\ q \in Seq(Nat) /\ l \in Nat /\ Len(q) = l + Len(x)
      /\ \A i \in 1..l : q[i] = p[i]
      /\ \A i \in (l + 1)..Len(q) : q[i] = x[i - l]
      /\ DOMAIN p = 1..l /\ DOMAIN q = 1..Len(q)
  BY <1>1
<1> HIDE DEF q, l
<1>3. /\ q[l + 1] = Slash
      /\ \A i \in (l + 2)..Len(q) : q[i] # Slash
  <2>1. l + 1 \in (l + 1)..Len(q) /\ (l + 1) - l = 1
    BY <1>1, <1>2
  <2>2. q[l + 1] = Slash
    BY <1>1, <1>2, <2>1
  <2>3. \A i \in (l + 2)..Len(q) : i \in (l + 1)..Len(q) /\ i - l \in 2..Len(x)
    BY <1>1, <1>2
  <2>4. ASSUME NEW i \in (l + 2)..Len(q) PROVE q[i] # Slash
    <3>1. q[i] = x[i - l] /\ i - l \in 2..Len(x)
      BY <1>2, <2>3
    <3> QED
      BY <1>1, <3>1
  <2> QED
    BY <2>2, <2>4
<1>4. M = N \cup {l + 1}
  <2>1. l + 1 \in M
    BY <1>1, <1>2, <1>3
  <2>2. N \subseteq M
    BY <1>1, <1>2
  <2>3. \A i \in M : i \in N \/ i = l + 1
    <3> TAKE i \in M
    <3>1. i \in 1..l \/ i = l + 1 \/ i \in (l + 2)..Len(q)
      BY <1>1, <1>2, SMTT(30)
    <3> QED
      BY <1>2, <1>3, <3>1
  <2> QED
    BY <2>1, <2>2, <2>3
<1>5. N \in SUBSET (0..l) /\ l + 1 \in Nat /\ l < l + 1 /\ N \subseteq 1..l
  BY <1>2
<1>6. Ordered(M) = Append(o, l + 1) /\ o \in Seq(N)
  BY <1>2, <1>4, <1>5, OrderedAppend, OrderedLists
<1>7. /\ ScanSegments(q) = [k \in DOMAIN Ordered(M) |->
            SubSeq(q, Ordered(M)[k], Next(q, Ordered(M)[k] + 1, {Slash}) - 1)]
      /\ ScanSegments(p) = [k \in DOMAIN o |-> seg(k)]
  BY DEF ScanSegments
<1> HIDE DEF M, N, o
<1>8. /\ n \in Nat /\ DOMAIN o = 1..n
      /\ \A k \in 1..n : o[k] \in N
      /\ \A k \in 1..n : o[k] \in 1..l
  <2>1. /\ n \in Nat /\ DOMAIN o = 1..n
        /\ \A k \in 1..n : o[k] \in N
    BY <1>6, SeqFacts
  <2> QED
    BY <1>5, <2>1
<1>9. /\ DOMAIN Ordered(M) = 1..(n + 1)
      /\ \A k \in 1..n : Ordered(M)[k] = o[k]
      /\ Ordered(M)[n + 1] = l + 1
  <2>1. o \in Seq(Nat) /\ l + 1 \in Nat
    <3>1. N \subseteq Nat
      BY <1>2, <1>5
    <3>2. o \in Seq(Nat)
      BY <1>6, <3>1, SeqMonotonic, Zenon
    <3> QED
      BY <1>2, <3>2
  <2> QED
    BY <1>6, <1>8, <2>1
<1>10. ASSUME NEW k \in 1..n
       PROVE  /\ SubSeq(q, o[k], Next(q, o[k] + 1, {Slash}) - 1) = seg(k)
              /\ seg(k) \in Seq(Nat)
  <2> DEFINE i == o[k]
             e == Next(p, i + 1, {Slash})
  <2>1. i \in 1..l /\ i + 1 \in Nat \ {0} /\ i + 1 <= l + 1
    BY <1>2, <1>8
  <2>2. seg(k) = SubSeq(p, i, e - 1)
    OBVIOUS
  <2> HIDE DEF i, seg, n
  <2>3. /\ e \in (i + 1)..(l + 1)
        /\ e <= l => p[e] \in {Slash}
        /\ \A j \in (i + 1)..(e - 1) : p[j] \notin {Slash}
    BY <2>1, NextPlace DEF l
  <2> HIDE DEF e
  <2>4. /\ e \in (i + 1)..(Len(q) + 1)
        /\ e <= Len(q) => q[e] \in {Slash}
        /\ \A j \in (i + 1)..(e - 1) : q[j] \notin {Slash}
    <3>1. e \in 1..l \/ e = l + 1
      BY <1>2, <2>1, <2>3
    <3>2. q[e] = Slash
      BY <1>2, <1>3, <2>3, <3>1
    <3>3. \A j \in (i + 1)..(e - 1) : j \in 1..l
      BY <1>2, <2>1, <2>3
    <3>4. \A j \in (i + 1)..(e - 1) : q[j] \notin {Slash}
      BY <1>2, <2>3, <3>3
    <3>5. e \in (i + 1)..(Len(q) + 1)
      BY <1>1, <1>2, <2>1, <2>3
    <3> QED
      BY <3>2, <3>4, <3>5
  <2>5. Next(q, i + 1, {Slash}) = e
    BY <1>2, <2>1, <2>4, NextIs
  <2>6. i \in 1..Len(q) /\ e - 1 \in (i - 1)..Len(q) /\ e - 1 \in (i - 1)..Len(p)
    <3>1. Len(p) = l
      BY DEF l
    <3>2. i \in 1..Len(q) /\ e - 1 \in (i - 1)..Len(q) /\ e - 1 \in (i - 1)..l
      <4>1. i \in 1..l /\ l \in Nat /\ e \in (i + 1)..(l + 1)
        BY <1>2, <2>1, <2>3
      <4>2. Len(x) \in Nat /\ Len(q) = l + Len(x)
        BY <1>1, <1>2
      <4> QED
        BY <4>1, <4>2
    <3> QED
      BY <3>1, <3>2
  <2>7. /\ SubSeq(q, i, e - 1) = [j \in 1..((e - 1) - i + 1) |-> q[i + j - 1]]
        /\ SubSeq(p, i, e - 1) = [j \in 1..((e - 1) - i + 1) |-> p[i + j - 1]]
        /\ SubSeq(p, i, e - 1) \in Seq(Nat)
    <3>1. i \in 1..Len(p)
      BY <2>1 DEF l
    <3> QED
      BY <1>2, <2>6, <3>1, SubSeqIs
  <2>8. \A j \in 1..((e - 1) - i + 1) : i + j - 1 \in 1..l
    <3>1. i \in 1..l /\ l \in Nat /\ e \in (i + 1)..(l + 1)
      BY <1>2, <2>1, <2>3
    <3> QED
      BY <3>1
  <2>9. SubSeq(q, i, e - 1) = SubSeq(p, i, e - 1)
    BY <1>2, <2>7, <2>8
  <2> QED
    BY <2>2, <2>5, <2>7, <2>9 DEF i
<1>11. SubSeq(q, l + 1, Next(q, (l + 1) + 1, {Slash}) - 1) = x
  <2>1. Next(q, (l + 1) + 1, {Slash}) = Len(q) + 1
    <3>1. /\ (l + 1) + 1 \in Nat \ {0}
          /\ Len(q) + 1 \in ((l + 1) + 1)..(Len(q) + 1)
          /\ ~(Len(q) + 1 <= Len(q))
          /\ \A j \in ((l + 1) + 1)..((Len(q) + 1) - 1) : q[j] \notin {Slash}
      BY <1>1, <1>2, <1>3, SMTT(30)
    <3> QED
      BY <1>2, <3>1, NextIs
  <2>2. SubSeq(q, l + 1, Len(q)) = [j \in 1..Len(x) |-> q[l + j]]
    BY <1>1, <1>2
  <2>3. \A j \in 1..Len(x) : q[l + j] = x[j]
    BY <1>1, <1>2
  <2>4. x = [j \in 1..Len(x) |-> x[j]]
    BY <1>1
  <2>5. (Len(q) + 1) - 1 = Len(q)
    BY <1>1, <1>2
  <2> QED
    BY <2>1, <2>2, <2>3, <2>4, <2>5
<1> HIDE DEF seg, n
<1>12. ScanSegments(q) = [k \in 1..(n + 1) |-> IF k = n + 1 THEN x ELSE seg(k)]
  <2>1. \A k \in 1..(n + 1) :
           SubSeq(q, Ordered(M)[k], Next(q, Ordered(M)[k] + 1, {Slash}) - 1)
              = IF k = n + 1 THEN x ELSE seg(k)
    <3> TAKE k \in 1..(n + 1)
    <3>1. k = n + 1 \/ k \in 1..n
      BY <1>8
    <3> QED
      BY <1>8, <1>9, <1>10, <1>11, <3>1
  <2> QED
    BY <1>7, <1>9, <2>1
<1> DEFINE s == ScanSegments(p)
<1>13. s \in Seq(Seq(Nat)) /\ Len(s) = n /\ \A k \in 1..n : s[k] = seg(k)
  BY <1>7, <1>8, <1>10
<1> HIDE DEF s
<1>14. Append(s, x) = [k \in 1..(n + 1) |-> IF k = n + 1 THEN x ELSE seg(k)]
  <2> DEFINE a == Append(s, x)
  <2>1. a \in Seq(Seq(Nat)) /\ Len(a) = n + 1
        /\ a[n + 1] = x /\ \A k \in 1..n : a[k] = s[k]
    BY <1>1, <1>13
  <2> HIDE DEF a
  <2>2. a = [k \in 1..(n + 1) |-> a[k]]
    BY <2>1
  <2>3. \A k \in 1..(n + 1) : a[k] = IF k = n + 1 THEN x ELSE seg(k)
    BY <1>8, <1>13, <2>1
  <2> QED
    BY <2>2, <2>3 DEF a
<1> QED
  BY <1>12, <1>14 DEF q, s

\* A segment goes on until the next slash.
LEMMA SegGrows ==
    ASSUME NEW x \in Segs, NEW c \in Nat, c # Slash
    PROVE  Append(x, c) \in Segs
<1> DEFINE y == Append(x, c)
<1>1. /\ x \in Seq(Nat) /\ x # <<>> /\ x[1] = Slash
      /\ \A i \in 2..Len(x) : x[i] # Slash
  BY DEF Segs
<1>2. /\ y \in Seq(Nat) /\ y # <<>> /\ Len(y) = Len(x) + 1
      /\ y[Len(x) + 1] = c /\ \A i \in 1..Len(x) : y[i] = x[i]
      /\ Len(x) \in Nat /\ Len(x) # 0
  BY <1>1
<1> HIDE DEF y
<1>3. 1 \in 1..Len(x)
  BY <1>2
<1>4. \A i \in 2..Len(y) : i = Len(x) + 1 \/ (i \in 2..Len(x) /\ i \in 1..Len(x))
  BY <1>2
<1>5. y[1] = Slash /\ \A i \in 2..Len(y) : y[i] # Slash
  BY <1>1, <1>2, <1>3, <1>4
<1> QED
  BY <1>2, <1>5 DEF Segs, y

\* The last segment grows with the text.
LEMMA LongerSeg ==
    ASSUME NEW q \in Paths, NEW x \in Segs, NEW c \in Nat
    PROVE  Append(q \o x, c) = q \o Append(x, c)
<1>1. q \in Seq(Nat) /\ x \in Seq(Nat) /\ c \in Nat
  BY DEF Paths, Segs
<1> QED
  BY <1>1, SMTT(30)

\* Induction over paths, from one to the path with one segment more.
LEMMA PathInduction ==
    ASSUME NEW P, <<>> \in P,
           \A p \in Paths : \A x \in Segs : p \in P => p \o x \in P
    PROVE  Paths \subseteq P
<1> DEFINE Made(p) == \E q \in Paths, x \in Segs : q \in P /\ p = q \o x
           Q == {p \in Seq(Nat) : p \in Paths => p = <<>> \/ Made(p)}
<1>1. <<>> \in Q
  OBVIOUS
<1>2. ASSUME NEW p \in Seq(Nat), NEW c \in Nat, p \in Q PROVE Append(p, c) \in Q
  <2> DEFINE a == Append(p, c)
  <2>0. a \in Seq(Nat)
    OBVIOUS
  <2> SUFFICES ASSUME a \in Paths PROVE Made(a)
    BY <2>0
  <2>1. p \in Paths
    <3>1. p # <<>> => a[1] = p[1] /\ a # <<>>
      OBVIOUS
    <3> QED
      BY <3>1 DEF Paths
  <2>2. CASE c = Slash
    <3>1. p \in P
      <4>1. p = <<>> \/ Made(p)
        BY <1>2, <2>1
      <4> QED
        BY <4>1
    <3>2. <<Slash>> \in Segs /\ a = p \o <<Slash>>
      BY <2>2 DEF Segs, Slash
    <3> QED
      BY <2>1, <3>1, <3>2
  <2>3. CASE c # Slash
    <3>1. p # <<>>
      <4>1. p = <<>> => a # <<>> /\ a[1] = c
        OBVIOUS
      <4> QED
        BY <2>3, <4>1 DEF Paths
    <3>2. PICK q \in Paths, x \in Segs : q \in P /\ p = q \o x
      BY <1>2, <2>1, <3>1
    <3>3. Append(x, c) \in Segs
      BY <2>3, SegGrows
    <3>4. Append(q \o x, c) = q \o Append(x, c)
      BY LongerSeg
    <3> QED
      BY <3>2, <3>3, <3>4
  <2> QED
    BY <2>2, <2>3
<1> HIDE DEF Q
<1>3. Seq(Nat) \subseteq Q
  BY <1>1, <1>2, SeqInduction
<1> QED
  BY <1>3 DEF Q, Paths

\* Paths put together are a path.
LEMMA PathsConcat ==
    /\ <<>> \in Paths
    /\ Segs \subseteq Paths
    /\ \A p, q \in Paths : p \o q \in Paths
<1>1. <<>> \in Paths /\ Segs \subseteq Paths
  BY DEF Paths, Segs
<1>2. ASSUME NEW p \in Paths, NEW q \in Paths PROVE p \o q \in Paths
  <2>1. p \in Seq(Nat) /\ q \in Seq(Nat)
    BY DEF Paths
  <2>2. CASE p = <<>>
    BY <2>1, <2>2, ConcatEmptySeq
  <2>3. CASE p # <<>>
    <3>1. p \o q \in Seq(Nat) /\ (p \o q)[1] = p[1]
      BY <2>1, <2>3
    <3> QED
      BY <2>3, <3>1 DEF Paths
  <2> QED
    BY <2>2, <2>3
<1> QED
  BY <1>1, <1>2

LEMMA PathsAlgebra ==
    /\ \A p \in Paths : p \o <<>> = p /\ <<>> \o p = p
    /\ \A p, q, r \in Paths : (p \o q) \o r = p \o (q \o r)
<1>1. ASSUME NEW p \in Paths PROVE p \o <<>> = p /\ <<>> \o p = p
  <2>1. p \in Seq(Nat)
    BY DEF Paths
  <2> QED
    BY <2>1, ConcatEmptySeq
<1>2. ASSUME NEW p \in Paths, NEW q \in Paths, NEW r \in Paths
      PROVE  (p \o q) \o r = p \o (q \o r)
  <2>1. p \in Seq(Nat) /\ q \in Seq(Nat) /\ r \in Seq(Nat)
    BY DEF Paths
  <2> QED
    BY <2>1, ConcatAssociative, SMTT(30)
<1> QED
  BY <1>1, <1>2

\* There is nothing to scan in the empty path.
LEMMA ScanEmpty == ScanSegments(<<>>) = <<>>
<1> DEFINE e == <<>>
           N == {i \in DOMAIN e : e[i] = Slash}
<1>1. N = {}
  OBVIOUS
<1>2. Ordered({}) = <<>>
  BY FS_EmptySet DEF Ordered
<1>3. DOMAIN Ordered(N) = {}
  BY <1>1, <1>2
<1>4. ScanSegments(e) = [k \in DOMAIN Ordered(N) |->
          SubSeq(e, Ordered(N)[k], Next(e, Ordered(N)[k] + 1, {Slash}) - 1)]
  BY DEF ScanSegments
<1> HIDE DEF N, e
<1>5. ScanSegments(e) = <<>>
  BY <1>3, <1>4
<1> QED
  BY <1>5 DEF e

\* Scanning loses nothing of a path: its segments make the path again.
THEOREM FlattenScan ==
    \A p \in Paths : /\ ScanSegments(p) \in Seq(Segs)
                     /\ FlattenSeq(ScanSegments(p)) = p
<1> DEFINE P == {p \in Paths : /\ ScanSegments(p) \in Seq(Segs)
                               /\ FlattenSeq(ScanSegments(p)) = p}
<1>1. <<>> \in P
  <2>1. <<>> \in Seq(Segs)
    OBVIOUS
  <2> QED
    BY <2>1, ScanEmpty, FlattenFew, PathsConcat
<1>2. ASSUME NEW p \in Paths, NEW x \in Segs, p \in P PROVE p \o x \in P
  <2>1. p \o x \in Paths
    BY PathsConcat
  <2>2. p \in Seq(Nat) /\ x \in Seq(Nat)
    BY DEF Paths, Segs
  <2>3. ScanSegments(p \o x) = Append(ScanSegments(p), x)
    BY <2>2, ScanAppend
  <2>4. ScanSegments(p) \in Seq(Segs) /\ FlattenSeq(ScanSegments(p)) = p
    BY <1>2
  <2>5. ScanSegments(p) \in Seq(Seq(Nat))
    <3>1. Segs \subseteq Seq(Nat)
      BY DEF Segs
    <3> QED
      BY <2>4, <3>1, SeqMonotonic
  <2>6. Append(ScanSegments(p), x) \in Seq(Segs)
    BY <2>4, AppendProperties
  <2>7. FlattenSeq(Append(ScanSegments(p), x)) = FlattenSeq(ScanSegments(p)) \o x
    BY <2>2, <2>5, FlattenAppend
  <2> QED
    BY <2>1, <2>3, <2>4, <2>6, <2>7
<1> HIDE DEF P
<1>3. Paths \subseteq P
  BY <1>1, <1>2, PathInduction
<1> QED
  BY <1>3 DEF P

\* A path in two parts is scanned part by part.
THEOREM ScanConcat ==
    ASSUME NEW p \in Paths, NEW q \in Paths
    PROVE  ScanSegments(p \o q) = ScanSegments(p) \o ScanSegments(q)
<1> DEFINE P == {r \in Paths : ScanSegments(p \o r) = ScanSegments(p) \o ScanSegments(r)}
<1>0. p \in Seq(Nat) /\ ScanSegments(p) \in Seq(Segs)
  BY FlattenScan DEF Paths
<1>1. <<>> \in P
  <2>1. p \o <<>> = p /\ ScanSegments(p) \o <<>> = ScanSegments(p)
    BY <1>0, ConcatEmptySeq
  <2> QED
    BY <2>1, ScanEmpty, PathsConcat
<1>2. ASSUME NEW r \in Paths, NEW x \in Segs, r \in P PROVE r \o x \in P
  <2>1. r \o x \in Paths /\ r \in Seq(Nat) /\ x \in Seq(Nat) /\ p \o r \in Seq(Nat)
    BY PathsConcat DEF Paths, Segs
  <2>2. p \o (r \o x) = (p \o r) \o x
    BY <1>0, <2>1, ConcatAssociative, SMTT(30)
  <2>3. /\ ScanSegments((p \o r) \o x) = Append(ScanSegments(p \o r), x)
        /\ ScanSegments(r \o x) = Append(ScanSegments(r), x)
    BY <2>1, ScanAppend
  <2>4. ScanSegments(p \o r) = ScanSegments(p) \o ScanSegments(r)
    BY <1>2
  <2>5. ScanSegments(r) \in Seq(Segs)
    BY FlattenScan
  <2>6. Append(ScanSegments(p) \o ScanSegments(r), x)
           = ScanSegments(p) \o Append(ScanSegments(r), x)
    <3> DEFINE s == ScanSegments(p)
               t == ScanSegments(r)
    <3>1. s \in Seq(Segs) /\ t \in Seq(Segs) /\ x \in Segs
      BY <1>0, <2>5
    <3> HIDE DEF s, t
    <3>2. Append(s \o t, x) = s \o Append(t, x)
      BY <3>1
    <3> QED
      BY <3>2 DEF s, t
  <2> QED
    BY <2>1, <2>2, <2>3, <2>4, <2>6
<1> HIDE DEF P
<1>3. Paths \subseteq P
  BY <1>1, <1>2, PathInduction
<1> QED
  BY <1>3 DEF P
-----------------------------------------------------------------------------
(* Pieces.                                                                 *)

\* A part of a text, which may be empty.
LEMMA PartIs ==
    ASSUME NEW s \in Seq(Nat), NEW i \in 1..(Len(s) + 1), NEW j \in 0..Len(s)
    PROVE  /\ SubSeq(s, i, j) \in Seq(Nat)
           /\ SubSeq(s, i, j) = [k \in 1..((j - i) + 1) |-> s[(i + k) - 1]]
<1> DEFINE f == [k \in 1..((j - i) + 1) |-> s[(i + k) - 1]]
<1>1. SubSeq(s, i, j) = f
  OBVIOUS
<1>2. CASE j < i
  <2>1. 1..((j - i) + 1) = {}
    BY <1>2
  <2>2. f = <<>>
    BY <2>1
  <2> HIDE DEF f
  <2> QED
    BY <1>1, <2>2
<1>3. CASE i <= j
  <2>1. \A k \in i..j : s[k] \in Nat
    BY <1>3
  <2> QED
    BY <1>1, <1>3, <2>1, SubSeqProperties
<1> QED
  BY <1>1, <1>2, <1>3

\* Texts that agree on a part have the same part there.
LEMMA SamePart ==
    ASSUME NEW s \in Seq(Nat), NEW t \in Seq(Nat), NEW l \in 0..Len(s), l <= Len(t),
           \A k \in 1..l : s[k] = t[k],
           NEW i \in 1..(l + 1), NEW j \in 0..l
    PROVE  SubSeq(s, i, j) = SubSeq(t, i, j)
<1>1. /\ SubSeq(s, i, j) = [k \in 1..((j - i) + 1) |-> s[(i + k) - 1]]
      /\ SubSeq(t, i, j) = [k \in 1..((j - i) + 1) |-> t[(i + k) - 1]]
  <2>1. i \in 1..(Len(s) + 1) /\ i \in 1..(Len(t) + 1) /\ j \in 0..Len(s) /\ j \in 0..Len(t)
    OBVIOUS
  <2> QED
    BY <2>1, PartIs
<1>2. \A k \in 1..((j - i) + 1) : (i + k) - 1 \in 1..l
  OBVIOUS
<1> QED
  BY <1>1, <1>2

\* A separator after a text, and what comes after it, are one part more.
LEMMA PartsGrow ==
    ASSUME NEW p \in Seq(Nat), NEW places \in SUBSET (1..Len(p)),
           NEW sep \in Nat, NEW y \in Seq(Nat)
    PROVE  /\ PartedAt(p, places) \in Seq(Seq(Nat))
           /\ Len(PartedAt(p, places)) >= 1
           /\ PartedAt(p \o (<<sep>> \o y), places \cup {Len(p) + 1})
                 = Append(PartedAt(p, places), y)
<1> DEFINE x == <<sep>> \o y
<1>0. /\ x \in Seq(Nat) /\ Len(x) = Len(y) + 1 /\ Len(y) \in Nat /\ x[1] = sep
      /\ \A i \in 2..Len(x) : x[i] = y[i - 1]
      /\ y = [k \in 1..Len(y) |-> y[k]] /\ \A k \in 1..Len(y) : x[k + 1] = y[k]
  OBVIOUS
<1> HIDE DEF x
<1> DEFINE q == p \o x
           l == Len(p)
           e == Len(q) + 1
           J == {0} \cup places
           K == {0, Len(p) + 1} \cup places
           M == {0, Len(q) + 1} \cup (places \cup {l + 1})
           o == Ordered(J)
           m == Len(o)
           c == Ordered(K)
           d == Ordered(M)
           piece(k) == SubSeq(p, c[k] + 1, c[k + 1] - 1)
<1>1. x \in Seq(Nat) /\ Len(x) \in Nat \ {0}
  BY <1>0
<1>2. /\ q \in Seq(Nat) /\ l \in Nat /\ Len(q) = l + Len(x) /\ Len(p) = l
      /\ \A i \in 1..l : q[i] = p[i]
      /\ \A i \in (l + 1)..Len(q) : q[i] = x[i - l]
      /\ DOMAIN p = 1..l /\ DOMAIN q = 1..Len(q)
  BY <1>1
<1>3. PartedAt(q, places \cup {l + 1})
         = [k \in 1..(Len(d) - 1) |-> SubSeq(q, d[k] + 1, d[k + 1] - 1)]
  BY DEF PartedAt
<1>4. PartedAt(p, places) = [k \in 1..(Len(c) - 1) |-> piece(k)]
  BY DEF PartedAt
<1> HIDE DEF q, l
<1>5. e \in Nat /\ e = l + Len(x) + 1 /\ l + 1 < e
  BY <1>1, <1>2
<1>6. M = K \cup {e}
  BY <1>2
<1>7. K = J \cup {l + 1}
  BY <1>2
<1>8. J \in SUBSET (0..l) /\ K \in SUBSET (0..(l + 1)) /\ 0 \in J
  BY <1>2
<1> HIDE DEF J, K, M, e
<1>9. /\ o \in Seq(J) /\ c = Append(o, l + 1) /\ d = Append(c, e)
      /\ \E k \in 1..m : o[k] = 0
  <2>1. l \in Nat /\ l + 1 \in Nat /\ l < l + 1
    BY <1>2
  <2>2. o \in Seq(J) /\ \E k \in 1..m : o[k] = 0
    BY <1>8, <2>1, OrderedLists
  <2>3. c = Append(o, l + 1)
    BY <1>7, <1>8, <2>1, OrderedAppend
  <2>4. d = Append(c, e)
    BY <1>5, <1>6, <1>8, <2>1, OrderedAppend
  <2> QED
    BY <2>2, <2>3, <2>4
<1> HIDE DEF o, c, d
<1>10. /\ m \in Nat \ {0}
       /\ Len(c) = m + 1 /\ Len(d) = m + 2
       /\ \A k \in 1..m : c[k] \in 0..l
       /\ c[m + 1] = l + 1
       /\ \A k \in 1..(m + 1) : d[k] = c[k]
       /\ d[m + 2] = e
  <2>1. o \in Seq(0..l)
    BY <1>8, <1>9, SeqMonotonic, Zenon
  <2>2. o \in Seq(Nat) /\ \A k \in 1..m : o[k] \in 0..l
    <3>1. 0..l \subseteq Nat
      OBVIOUS
    <3> QED
      BY <2>1, <3>1, SeqMonotonic, SeqFacts, Zenon
  <2>3. m \in Nat \ {0}
    BY <1>9, <2>2
  <2>4. c \in Seq(Nat) /\ Len(c) = m + 1 /\ c[m + 1] = l + 1
        /\ \A k \in 1..m : c[k] = o[k]
    BY <1>2, <1>9, <2>2
  <2>5. Len(d) = m + 2 /\ d[m + 2] = e /\ \A k \in 1..(m + 1) : d[k] = c[k]
    <3>1. (m + 1) + 1 = m + 2
      BY <2>3
    <3> DEFINE n == m + 1
    <3>2. c \in Seq(Nat) /\ Len(c) = n /\ n \in Nat
      BY <2>3, <2>4
    <3> HIDE DEF n
    <3>3. Len(d) = n + 1 /\ d[n + 1] = e /\ \A k \in 1..n : d[k] = c[k]
      <4>1. d = Append(c, e)
        BY <1>9
      <4>2. e \in Nat
        BY <1>5
      <4> QED
        BY <3>2, <4>1, <4>2
    <3> QED
      BY <3>1, <3>3 DEF n
  <2> QED
    BY <2>2, <2>3, <2>4, <2>5
<1> HIDE DEF m
<1>11. ASSUME NEW k \in 1..m
       PROVE  /\ piece(k) \in Seq(Nat)
              /\ SubSeq(q, d[k] + 1, d[k + 1] - 1) = piece(k)
  <2>1. c[k] \in 0..l /\ c[k + 1] \in 0..(l + 1) /\ k \in 1..(m + 1) /\ k + 1 \in 1..(m + 1)
    <3>1. k + 1 \in 1..m \/ k + 1 = m + 1
      BY <1>10
    <3> QED
      BY <1>2, <1>10, <3>1
  <2>2. d[k] = c[k] /\ d[k + 1] = c[k + 1]
    BY <1>10, <2>1
  <2> DEFINE i == c[k] + 1
             j == c[k + 1] - 1
  <2>3. CASE c[k + 1] = 0
    <3>1. i \in 1..(l + 1) /\ j = -1 /\ i \in Nat
      BY <1>2, <2>1, <2>3
    <3>2. ((j - i) + 1) < 1 /\ 1..((j - i) + 1) = {}
      BY <3>1
    <3> HIDE DEF i, j
    <3>3. /\ SubSeq(p, i, j) = [n \in 1..((j - i) + 1) |-> p[(i + n) - 1]]
          /\ SubSeq(q, i, j) = [n \in 1..((j - i) + 1) |-> q[(i + n) - 1]]
      BY <1>2, <3>1
    <3> DEFINE none == 1..((j - i) + 1)
    <3>4. none = {}
      BY <3>2
    <3>5. /\ SubSeq(p, i, j) = [n \in none |-> p[(i + n) - 1]]
          /\ SubSeq(q, i, j) = [n \in none |-> q[(i + n) - 1]]
      BY <3>3
    <3> HIDE DEF none
    <3>6. SubSeq(p, i, j) = <<>> /\ SubSeq(q, i, j) = <<>> /\ <<>> \in Seq(Nat)
      BY <3>4, <3>5
    <3>7. piece(k) = SubSeq(p, i, j) /\ SubSeq(q, d[k] + 1, d[k + 1] - 1) = SubSeq(q, i, j)
      BY <2>2, Zenon DEF i, j
    <3> HIDE DEF piece
    <3> QED
      BY <3>6, <3>7, Zenon
  <2>4. CASE c[k + 1] # 0
    <3>1. i \in 1..(l + 1) /\ j \in 0..l
      <4>1. l \in Nat
        BY <1>2
      <4>2. \A a \in 0..l, b \in 0..(l + 1) :
               b # 0 => a + 1 \in 1..(l + 1) /\ b - 1 \in 0..l
        BY <4>1
      <4> QED
        BY <2>1, <2>4, <4>2
    <3> HIDE DEF i, j
    <3>2. l \in 0..Len(p) /\ l <= Len(q)
      BY <1>1, <1>2
    <3>3. SubSeq(p, i, j) = SubSeq(q, i, j)
      BY <1>2, <3>1, <3>2, SamePart, ZenonT(40)
    <3>4. SubSeq(p, i, j) \in Seq(Nat)
      BY <1>2, <3>1, PartIs
    <3>5. piece(k) = SubSeq(p, i, j) /\ SubSeq(q, d[k] + 1, d[k + 1] - 1) = SubSeq(q, i, j)
      BY <2>2, Zenon DEF i, j
    <3> HIDE DEF piece
    <3> QED
      BY <3>3, <3>4, <3>5, Zenon
  <2> QED
    BY <2>3, <2>4
<1>12. SubSeq(q, d[m + 1] + 1, d[(m + 1) + 1] - 1) = y
  <2>1. d[m + 1] = l + 1 /\ d[(m + 1) + 1] = e /\ e - 1 = Len(q)
    <3>1. m + 1 \in 1..(m + 1) /\ (m + 1) + 1 = m + 2
      BY <1>10
    <3>2. e - 1 = Len(q)
      BY <1>1, <1>2, <1>5
    <3> QED
      BY <1>10, <3>1, <3>2
  <2> DEFINE i == (l + 1) + 1
  <2>2. i \in 1..(Len(q) + 1) /\ Len(q) \in 0..Len(q) /\ (Len(q) - i) + 1 = Len(x) - 1
    BY <1>1, <1>2
  <2>3. SubSeq(q, i, Len(q)) = [k \in 1..((Len(q) - i) + 1) |-> q[(i + k) - 1]]
    BY <1>2, <2>2, PartIs
  <2>4. ASSUME NEW k \in 1..(Len(x) - 1) PROVE q[(i + k) - 1] = x[k + 1]
    <3>1. (i + k) - 1 \in (l + 1)..Len(q) /\ ((i + k) - 1) - l = k + 1
      BY <1>1, <1>2
    <3> QED
      BY <1>2, <3>1
  <2>5. y = [k \in 1..(Len(x) - 1) |-> x[k + 1]]
    <3>1. Len(x) - 1 = Len(y)
      BY <1>0
    <3> QED
      BY <1>0, <3>1
  <2>6. SubSeq(q, d[m + 1] + 1, d[(m + 1) + 1] - 1) = SubSeq(q, i, Len(q))
    BY <2>1, Zenon
  <2>7. SubSeq(q, i, Len(q)) = [k \in 1..(Len(x) - 1) |-> x[k + 1]]
    <3> HIDE DEF i
    <3> QED
      BY <2>2, <2>3, <2>4
  <2> QED
    BY <2>5, <2>6, <2>7, Zenon
<1> DEFINE s == PartedAt(p, places)
           t == y
<1>13. s = [k \in 1..m |-> piece(k)] /\ s \in Seq(Seq(Nat)) /\ Len(s) = m
  <2>1. Len(c) - 1 = m
    BY <1>10
  <2> HIDE DEF piece
  <2>2. s = [k \in 1..m |-> piece(k)]
    BY <1>4, <2>1
  <2> HIDE DEF s
  <2> QED
    BY <1>10, <1>11, <2>2
<1>14. t \in Seq(Nat)
  OBVIOUS
<1>15. PartedAt(q, places \cup {l + 1}) = [k \in 1..(m + 1) |-> IF k = m + 1 THEN t ELSE piece(k)]
  <2>1. Len(d) - 1 = m + 1
    BY <1>10
  <2>2. ASSUME NEW k \in 1..(m + 1)
        PROVE  SubSeq(q, d[k] + 1, d[k + 1] - 1) = IF k = m + 1 THEN t ELSE piece(k)
    <3>1. k = m + 1 \/ (k \in 1..m /\ k # m + 1)
      BY <1>10
    <3> QED
      BY <1>11, <1>12, <3>1
  <2> QED
    BY <1>3, <2>1, <2>2
<1>16. \A k \in 1..m : s[k] = piece(k)
  BY <1>13
<1> HIDE DEF s, t, piece
<1>17. Append(s, t) = [k \in 1..(m + 1) |-> IF k = m + 1 THEN t ELSE piece(k)]
  <2> DEFINE a == Append(s, t)
  <2>1. a \in Seq(Seq(Nat)) /\ Len(a) = m + 1
        /\ a[m + 1] = t /\ \A k \in 1..m : a[k] = s[k]
    BY <1>10, <1>13, <1>14
  <2> HIDE DEF a
  <2>2. a = [k \in 1..(m + 1) |-> a[k]]
    BY <1>10, <2>1
  <2>3. \A k \in 1..(m + 1) : a[k] = IF k = m + 1 THEN t ELSE piece(k)
    <3> TAKE k \in 1..(m + 1)
    <3>1. k = m + 1 \/ (k \in 1..m /\ k # m + 1)
      BY <1>10
    <3> QED
      BY <1>16, <2>1, <3>1
  <2> QED
    BY <2>2, <2>3 DEF a
<1>18. Len(s) >= 1
  BY <1>10, <1>13
<1>19. PartedAt(q, places \cup {l + 1}) = Append(s, t)
  BY <1>15, <1>17
<1> QED
  BY <1>13, <1>18, <1>19, Zenon DEF s, t, q, x, l

\* A separator and a text without one are one piece more.
LEMMA PiecesGrow ==
    ASSUME NEW set, NEW p \in Seq(Nat), NEW sep \in Nat, sep \in set,
           NEW y \in Seq(Nat), \A i \in 1..Len(y) : y[i] \notin set
    PROVE  /\ Pieces(p, set) \in Seq(Seq(Nat))
           /\ Len(Pieces(p, set)) >= 1
           /\ Pieces(p \o (<<sep>> \o y), set) = Append(Pieces(p, set), y)
<1> DEFINE q == p \o (<<sep>> \o y)
           l == Len(p)
           K == {i \in DOMAIN p : p[i] \in set}
           M == {i \in DOMAIN q : q[i] \in set}
<1>1. /\ q \in Seq(Nat) /\ l \in Nat /\ Len(q) = (l + 1) + Len(y) /\ Len(y) \in Nat
      /\ \A i \in 1..l : q[i] = p[i]
      /\ q[l + 1] = sep
      /\ \A i \in (l + 2)..Len(q) : q[i] = y[i - (l + 1)]
      /\ DOMAIN p = 1..l /\ DOMAIN q = 1..Len(q)
  OBVIOUS
<1>2. Pieces(p, set) = PartedAt(p, K) /\ Pieces(q, set) = PartedAt(q, M)
  BY DEF Pieces
<1>3. K \in SUBSET (1..l)
  BY <1>1
<1> HIDE DEF q, l
<1>4. M = K \cup {l + 1}
  <2>1. \A i \in 1..Len(q) : \/ i \in 1..l
                            \/ i = l + 1
                            \/ (i \in (l + 2)..Len(q) /\ i - (l + 1) \in 1..Len(y))
    BY <1>1
  <2>2. l + 1 \in 1..Len(q) /\ \A i \in 1..l : i \in 1..Len(q)
    BY <1>1
  <2>3. ASSUME NEW i \in 1..Len(q), q[i] \in set PROVE i \in K \cup {l + 1}
    <3>1. CASE i \in 1..l
      BY <1>1, <2>3, <3>1
    <3>2. CASE i \in (l + 2)..Len(q) /\ i - (l + 1) \in 1..Len(y)
      BY <1>1, <2>3, <3>2
    <3> QED
      BY <2>1, <3>1, <3>2
  <2>4. l + 1 \in M
    BY <1>1, <2>2
  <2>5. ASSUME NEW i \in K PROVE i \in M
    BY <1>1, <2>2, <2>5
  <2>6. M \subseteq K \cup {l + 1}
    <3> HIDE DEF K
    <3> QED
      BY <1>1, <2>3
  <2> HIDE DEF K, M
  <2> QED
    BY <2>4, <2>5, <2>6
<1> HIDE DEF K, M
<1>5. /\ PartedAt(p, K) \in Seq(Seq(Nat))
      /\ Len(PartedAt(p, K)) >= 1
      /\ PartedAt(p \o (<<sep>> \o y), K \cup {Len(p) + 1}) = Append(PartedAt(p, K), y)
  <2>1. K \in SUBSET (1..Len(p))
    BY <1>3 DEF l
  <2> QED
    BY <2>1, PartsGrow
<1> QED
  BY <1>2, <1>4, <1>5, Zenon DEF q, l

LEMMA OrderedZero ==
    ASSUME NEW e \in Nat
    PROVE  /\ Len(Append(Ordered({0}), e)) = 2
           /\ Append(Ordered({0}), e)[1] = 0 /\ Append(Ordered({0}), e)[2] = e
<1> DEFINE w == Ordered({0})
<1>1. w \in Seq({0}) /\ Len(w) = 1
  <2>1. 0 \in Nat /\ {0} \in SUBSET (0..0) /\ Cardinality({0}) = 1
    BY FS_Singleton
  <2> QED
    BY <2>1, OrderedLists
<1> HIDE DEF w
<1>2. w \in Seq(Nat)
  BY <1>1, SeqMonotonic
<1>3. w[1] = 0
  BY <1>1
<1>4. /\ Len(Append(w, e)) = Len(w) + 1 /\ Append(w, e)[Len(w) + 1] = e
      /\ \A i \in 1..Len(w) : Append(w, e)[i] = w[i]
  BY <1>2
<1>5. Len(w) + 1 = 2 /\ 1 \in 1..Len(w)
  BY <1>1
<1> QED
  BY <1>3, <1>4, <1>5, Zenon DEF w

\* A text with no place to part it at is one part.
LEMMA PartsNone ==
    ASSUME NEW s \in Seq(Nat)
    PROVE  PartedAt(s, {}) = <<s>>
<1> DEFINE n == Len(s)
           e == n + 1
           N == {0, Len(s) + 1} \cup {}
           o == Ordered(N)
           piece(k) == SubSeq(s, o[k] + 1, o[k + 1] - 1)
<1>0. n \in Nat /\ e \in Nat /\ 0 < e /\ e - 1 = n
  OBVIOUS
<1>1. N = {0} \cup {e}
  OBVIOUS
<1>2. PartedAt(s, {}) = [k \in 1..(Len(o) - 1) |-> piece(k)]
  BY DEF PartedAt
<1> HIDE DEF n, e
<1>3. o = Append(Ordered({0}), e)
  <2>1. 0 \in Nat /\ {0} \in SUBSET (0..0)
    OBVIOUS
  <2>2. Ordered({0} \cup {e}) = Append(Ordered({0}), e)
    BY <1>0, <2>1, OrderedAppend
  <2> HIDE DEF N
  <2> QED
    BY <1>1, <2>2
<1> HIDE DEF o, N
<1>4. Len(o) - 1 = 1 /\ o[1] = 0 /\ o[1 + 1] = e
  <2>1. Len(o) = 2 /\ o[1] = 0 /\ o[2] = e
    BY <1>0, <1>3, OrderedZero, Zenon
  <2>2. 2 - 1 = 1 /\ 1 + 1 = 2
    OBVIOUS
  <2> QED
    BY <2>1, <2>2, Zenon
<1>5. piece(1) = s
  <2>1. piece(1) = SubSeq(s, 0 + 1, e - 1)
    BY <1>4, Zenon
  <2>2. 0 + 1 = 1 /\ e - 1 = n
    BY <1>0
  <2>3. SubSeq(s, 1, n) = s
    BY DEF n
  <2> QED
    BY <2>1, <2>2, <2>3, Zenon
<1> HIDE DEF piece
<1>6. PartedAt(s, {}) = [k \in 1..1 |-> s]
  <2>1. \A k \in 1..1 : piece(k) = s
    BY <1>5
  <2> QED
    BY <1>2, <1>4, <2>1
<1>7. [k \in 1..1 |-> s] = <<s>>
  OBVIOUS
<1> QED
  BY <1>6, <1>7

\* The empty text is one empty piece.
LEMMA PiecesEmpty ==
    ASSUME NEW set
    PROVE  Pieces(<<>>, set) = <<(<<>>)>>
<1>1. {i \in DOMAIN <<>> : <<>>[i] \in set} = {} /\ <<>> \in Seq(Nat)
  OBVIOUS
<1> QED
  BY <1>1, PartsNone DEF Pieces

-----------------------------------------------------------------------------
(* The segments of a path.                                                 *)

\* What follows the slash of a segment.
LEMMA NameOf ==
    ASSUME NEW x \in Segs
    PROVE  /\ x \in Seq(Nat) /\ Len(x) \in Nat \ {0} /\ x[1] = Slash
           /\ Tail(x) \in Seq(Nat) /\ Len(Tail(x)) = Len(x) - 1
           /\ Tail(x) = [k \in 1..(Len(x) - 1) |-> x[k + 1]]
           /\ x = <<Slash>> \o Tail(x)
<1>1. x \in Seq(Nat) /\ Len(x) \in Nat \ {0} /\ x[1] = Slash
  BY DEF Segs
<1>2. /\ Tail(x) \in Seq(Nat) /\ Len(Tail(x)) = Len(x) - 1
      /\ Tail(x) = [k \in 1..(Len(x) - 1) |-> x[k + 1]]
  <2>1. x # <<>>
    BY <1>1
  <2>2. /\ Tail(x) \in Seq(Nat) /\ Len(Tail(x)) = Len(x) - 1
        /\ \A k \in 1..Len(Tail(x)) : Tail(x)[k] = x[k + 1]
    BY <1>1, <2>1, HeadTailProperties
  <2> DEFINE t == Tail(x)
  <2>3. t \in Seq(Nat) /\ Len(t) = Len(x) - 1 /\ \A k \in 1..Len(t) : t[k] = x[k + 1]
    BY <2>2
  <2> HIDE DEF t
  <2>4. t = [k \in 1..(Len(x) - 1) |-> x[k + 1]]
    BY <2>3
  <2> QED
    BY <2>3, <2>4 DEF t
<1>3. x = <<Slash>> \o Tail(x)
  <2> DEFINE y == <<Slash>> \o Tail(x)
  <2>1. /\ y \in Seq(Nat) /\ Len(y) = Len(x) /\ y[1] = Slash
        /\ \A k \in 2..Len(x) : y[k] = Tail(x)[k - 1]
    BY <1>1, <1>2 DEF Slash
  <2>2. \A k \in 1..Len(x) : x[k] = y[k]
    <3> TAKE k \in 1..Len(x)
    <3>1. CASE k = 1
      BY <1>1, <2>1, <3>1
    <3>2. CASE k # 1
      <4>1. k \in 2..Len(x) /\ k - 1 \in 1..(Len(x) - 1) /\ (k - 1) + 1 = k
        BY <1>1, <3>2
      <4> QED
        BY <1>2, <2>1, <4>1
    <3> QED
      BY <3>1, <3>2
  <2> HIDE DEF y
  <2>3. x = y
    BY <1>1, <2>1, <2>2
  <2> QED
    BY <2>3 DEF y
<1> QED
  BY <1>1, <1>2, <1>3

\* One segment more is one piece more.
LEMMA PiecesAppend ==
    ASSUME NEW p \in Seq(Nat), NEW x \in Segs
    PROVE  /\ Pieces(p, {Slash}) \in Seq(Seq(Nat))
           /\ Len(Pieces(p, {Slash})) >= 1
           /\ Pieces(p \o x, {Slash}) = Append(Pieces(p, {Slash}), Tail(x))
<1> DEFINE y == Tail(x)
<1>1. /\ y \in Seq(Nat) /\ Len(y) = Len(x) - 1 /\ Len(x) \in Nat
      /\ y = [k \in 1..(Len(x) - 1) |-> x[k + 1]]
      /\ x = <<Slash>> \o y
  BY NameOf
<1>2. \A k \in 2..Len(x) : x[k] # Slash
  BY DEF Segs
<1> HIDE DEF y
<1>3. \A k \in 1..Len(y) : y[k] \notin {Slash}
  <2>1. Len(y) = Len(x) - 1 /\ Len(x) \in Nat
    BY <1>1
  <2>2. \A k \in 1..(Len(x) - 1) : k + 1 \in 2..Len(x)
    BY <2>1
  <2> QED
    BY <1>1, <1>2, <2>1, <2>2
<1>4. Slash \in Nat /\ Slash \in {Slash}
  BY DEF Slash
<1>5. /\ Pieces(p, {Slash}) \in Seq(Seq(Nat)) /\ Len(Pieces(p, {Slash})) >= 1
      /\ Pieces(p \o (<<Slash>> \o y), {Slash}) = Append(Pieces(p, {Slash}), y)
  BY <1>1, <1>3, <1>4, PiecesGrow
<1> QED
  BY <1>1, <1>5 DEF y


\* Three paths put together.
LEMMA Regroup ==
    ASSUME NEW p \in Paths, NEW q \in Paths, NEW r \in Paths
    PROVE  (p \o q) \o r = p \o (q \o r)
BY PathsAlgebra

\* The segments of a path, one segment more.
LEMMA SegmentsAppend ==
    ASSUME NEW p \in Seq(Nat), NEW x \in Segs
    PROVE  /\ Segments(p) \in Seq(Seq(Nat))
           /\ Segments(p \o x) = Append(Segments(p), Tail(x))
<1> DEFINE s == Pieces(p, {Slash})
           t == Tail(x)
<1>1. /\ s \in Seq(Seq(Nat)) /\ Len(s) >= 1
      /\ Pieces(p \o x, {Slash}) = Append(s, t) /\ t \in Seq(Nat)
  BY PiecesAppend, NameOf
<1>2. Segments(p) = Tail(s) /\ Segments(p \o x) = Tail(Append(s, t))
  BY <1>1 DEF Segments
<1> HIDE DEF s, t
<1>3. Tail(s) \in Seq(Seq(Nat)) /\ Tail(Append(s, t)) = Append(Tail(s), t)
  <2>1. s # <<>> /\ Len(s) \in Nat
    BY <1>1
  <2>2. /\ Tail(s) \in Seq(Seq(Nat)) /\ Len(Tail(s)) = Len(s) - 1
        /\ \A k \in 1..Len(Tail(s)) : Tail(s)[k] = s[k + 1]
    BY <1>1, <2>1, HeadTailProperties
  <2> DEFINE a == Append(s, t)
             u == Tail(s)
             v == Tail(a)
             w == Append(u, t)
             n == Len(s)
  <2>3. /\ a \in Seq(Seq(Nat)) /\ Len(a) = n + 1 /\ a[n + 1] = t
        /\ \A k \in 1..n : a[k] = s[k]
    BY <1>1
  <2>4. /\ v \in Seq(Seq(Nat)) /\ Len(v) = n
        /\ \A k \in 1..n : v[k] = a[k + 1]
    <3> HIDE DEF a, n
    <3>1. a # <<>>
      <4>1. n \in Nat
        BY <2>1 DEF n
      <4>2. Len(a) # 0
        BY <2>3, <4>1
      <4> QED
        BY <4>2
    <3>2. /\ v \in Seq(Seq(Nat)) /\ Len(v) = Len(a) - 1
          /\ \A k \in 1..Len(v) : v[k] = a[k + 1]
      BY <2>3, <3>1, HeadTailProperties
    <3>3. n \in Nat
      BY <2>1 DEF n
    <3> QED
      BY <2>3, <3>2, <3>3
  <2> HIDE DEF a, v, u
  <2>5. /\ w \in Seq(Seq(Nat)) /\ Len(w) = n
        /\ w[n] = t /\ \A k \in 1..(n - 1) : w[k] = u[k]
    BY <1>1, <2>1, <2>2 DEF u
  <2> HIDE DEF w
  <2>6. ASSUME NEW k \in 1..n PROVE v[k] = w[k]
    <3>1. CASE k = n
      BY <2>1, <2>3, <2>4, <2>5, <3>1
    <3>2. CASE k # n
      <4>1. k \in 1..(n - 1) /\ k + 1 \in 1..n
        BY <2>1, <3>2
      <4> QED
        BY <2>2, <2>3, <2>4, <2>5, <4>1 DEF u
    <3> QED
      BY <3>1, <3>2
  <2>7. v = w
    <3> HIDE DEF n
    <3> QED
      BY <2>4, <2>5, <2>6
  <2> QED
    BY <2>2, <2>7 DEF a, u, v, w
<1> QED
  BY <1>2, <1>3 DEF t

\* A path without a segment.
LEMMA SegmentsEmpty == Segments(<<>>) = <<>>
<1> DEFINE e == <<>>
<1>1. Pieces(e, {Slash}) = <<e>>
  BY PiecesEmpty
<1>2. Tail(<<e>>) = <<>>
  OBVIOUS
<1> QED
  BY <1>1, <1>2 DEF Segments

\* A path has no segment, or a last one.
LEMMA PathCases ==
    ASSUME NEW p \in Paths
    PROVE  p = <<>> \/ \E q \in Paths, x \in Segs : p = q \o x
<1> DEFINE P == {r \in Paths : r = <<>> \/ \E q \in Paths, x \in Segs : r = q \o x}
<1>1. <<>> \in P
  BY PathsConcat
<1>2. ASSUME NEW q \in Paths, NEW x \in Segs, q \in P PROVE q \o x \in P
  BY PathsConcat
<1> HIDE DEF P
<1>3. Paths \subseteq P
  BY <1>1, <1>2, PathInduction
<1> QED
  BY <1>3 DEF P

-----------------------------------------------------------------------------
(* The walk.                                                               *)

\* f is the function that Along's recursion defines on the places of s.
Walks(f, s) ==
    f = [n \in 0..Len(s) |-> IF n = 0 THEN AtRoot ELSE Stepped(f[n - 1], s[n])]

\* What the recursion says, place by place.
LEMMA WalksValues ==
    ASSUME NEW f, NEW s \in Seq(Seq(Nat)), Walks(f, s)
    PROVE  /\ f = [n \in 0..Len(s) |-> f[n]]
           /\ f[0] = AtRoot
           /\ \A n \in 1..Len(s) : f[n] = Stepped(f[n - 1], s[n])
<1> DEFINE g == [n \in 0..Len(s) |-> IF n = 0 THEN AtRoot ELSE Stepped(f[n - 1], s[n])]
<1>1. f = g
  BY DEF Walks
<1>2. 0 \in 0..Len(s) /\ \A n \in 1..Len(s) : n \in 0..Len(s) /\ n # 0
  OBVIOUS
<1>3. /\ g = [n \in 0..Len(s) |-> g[n]]
      /\ g[0] = AtRoot
      /\ \A n \in 1..Len(s) : g[n] = Stepped(f[n - 1], s[n])
  BY <1>2
<1> HIDE DEF g
<1> QED
  BY <1>1, <1>3, Zenon

\* And the other way round.
LEMMA WalksIs ==
    ASSUME NEW f, NEW s \in Seq(Seq(Nat)),
           f = [n \in 0..Len(s) |-> f[n]], f[0] = AtRoot,
           \A n \in 1..Len(s) : f[n] = Stepped(f[n - 1], s[n])
    PROVE  Walks(f, s)
<1>1. \A n \in 0..Len(s) : f[n] = IF n = 0 THEN AtRoot ELSE Stepped(f[n - 1], s[n])
  <2> TAKE n \in 0..Len(s)
  <2>1. n = 0 \/ (n # 0 /\ n \in 1..Len(s))
    OBVIOUS
  <2> QED
    BY <2>1
<1>2. f = [n \in 0..Len(s) |-> IF n = 0 THEN AtRoot ELSE Stepped(f[n - 1], s[n])]
  BY <1>1
<1> QED
  BY <1>2, Zenon DEF Walks

\* A solution goes on by one step.
LEMMA WalksExtends ==
    ASSUME NEW s \in Seq(Seq(Nat)), NEW x \in Seq(Nat), NEW f, Walks(f, s)
    PROVE  \E g : /\ Walks(g, Append(s, x))
                  /\ g[Len(s) + 1] = Stepped(f[Len(s)], x)
<1> DEFINE l == Len(s)
           t == Append(s, x)
           g == [n \in 0..(l + 1) |-> IF n = l + 1 THEN Stepped(f[l], x) ELSE f[n]]
<1>1. /\ l \in Nat /\ t \in Seq(Seq(Nat)) /\ Len(t) = l + 1 /\ t[l + 1] = x
      /\ \A n \in 1..l : t[n] = s[n]
  OBVIOUS
<1>2. f[0] = AtRoot /\ \A n \in 1..l : f[n] = Stepped(f[n - 1], s[n])
  BY WalksValues
<1> HIDE DEF l, t
<1>3. /\ g = [n \in 0..(l + 1) |-> g[n]]
      /\ g[l + 1] = Stepped(f[l], x)
      /\ \A n \in 0..l : g[n] = f[n]
  <2>1. l + 1 \in 0..(l + 1) /\ \A n \in 0..l : n \in 0..(l + 1) /\ n # l + 1
    BY <1>1
  <2> QED
    BY <2>1
<1> HIDE DEF g
<1>4. g[0] = AtRoot
  <2>1. 0 \in 0..l
    BY <1>1
  <2> QED
    BY <1>2, <1>3, <2>1
<1>5. ASSUME NEW n \in 1..(l + 1) PROVE g[n] = Stepped(g[n - 1], t[n])
  <2>1. n = l + 1 \/ n \in 1..l
    BY <1>1
  <2>2. CASE n = l + 1
    <3>1. n - 1 = l /\ l \in 0..l
      BY <1>1, <2>2
    <3>2. g[n - 1] = f[l] /\ g[n] = Stepped(f[l], x) /\ t[n] = x
      BY <1>1, <1>3, <2>2, <3>1
    <3> QED
      BY <3>2
  <2>3. CASE n \in 1..l
    <3>1. n \in 0..l /\ n - 1 \in 0..l
      BY <1>1, <2>3
    <3>2. g[n - 1] = f[n - 1] /\ g[n] = f[n] /\ t[n] = s[n]
      BY <1>1, <1>3, <2>3, <3>1
    <3> QED
      BY <1>2, <2>3, <3>2
  <2> QED
    BY <2>1, <2>2, <2>3
<1>6. Walks(g, t)
  BY <1>1, <1>3, <1>4, <1>5, WalksIs
<1> QED
  BY <1>3, <1>6 DEF l, t

\* There is a solution for every sequence of segments.
LEMMA WalksExists ==
    ASSUME NEW s \in Seq(Seq(Nat))
    PROVE  \E f : Walks(f, s)
<1> DEFINE P == {t \in Seq(Seq(Nat)) : \E f : Walks(f, t)}
<1>1. <<>> \in P
  <2> DEFINE e == [n \in {0} |-> AtRoot]
             t == <<>>
  <2>1. t \in Seq(Seq(Nat)) /\ 0..Len(t) = {0} /\ 1..Len(t) = {}
    OBVIOUS
  <2>2. e[0] = AtRoot /\ e = [n \in {0} |-> e[n]]
    OBVIOUS
  <2> HIDE DEF e, t
  <2>3. Walks(e, t)
    BY <2>1, <2>2, WalksIs
  <2> QED
    BY <2>1, <2>3 DEF t
<1>2. \A t \in Seq(Seq(Nat)) : \A x \in Seq(Nat) : t \in P => Append(t, x) \in P
  BY WalksExtends
<1> HIDE DEF P
<1>3. Seq(Seq(Nat)) \subseteq P
  BY <1>1, <1>2, SeqInduction
<1> QED
  BY <1>3 DEF P

\* There is one only.
LEMMA WalksUnique ==
    ASSUME NEW s \in Seq(Seq(Nat)), NEW f, NEW g, Walks(f, s), Walks(g, s)
    PROVE  f = g
<1> DEFINE N == {n \in Nat : n \in 0..Len(s) => f[n] = g[n]}
<1>1. /\ f = [n \in 0..Len(s) |-> f[n]] /\ g = [n \in 0..Len(s) |-> g[n]]
      /\ f[0] = AtRoot /\ g[0] = AtRoot
      /\ \A n \in 1..Len(s) : f[n] = Stepped(f[n - 1], s[n])
      /\ \A n \in 1..Len(s) : g[n] = Stepped(g[n - 1], s[n])
  BY WalksValues
<1>2. 0 \in N
  BY <1>1
<1>3. ASSUME NEW n \in Nat, n \in N PROVE n + 1 \in N
  <2> SUFFICES ASSUME n + 1 \in 0..Len(s) PROVE f[n + 1] = g[n + 1]
    OBVIOUS
  <2>1. n + 1 \in 1..Len(s) /\ n \in 0..Len(s) /\ (n + 1) - 1 = n
    OBVIOUS
  <2>2. f[n] = g[n]
    BY <1>3, <2>1
  <2>3. /\ f[n + 1] = Stepped(f[(n + 1) - 1], s[n + 1])
        /\ g[n + 1] = Stepped(g[(n + 1) - 1], s[n + 1])
    BY <1>1, <2>1
  <2> QED
    BY <2>1, <2>2, <2>3
<1> HIDE DEF N
<1>4. Nat \subseteq N
  BY <1>2, <1>3, Induction
<1>5. \A n \in 0..Len(s) : f[n] = g[n]
  BY <1>4 DEF N
<1> QED
  BY <1>1, <1>5, Zenon

\* Along is the last value of the one solution.
LEMMA AlongIs ==
    ASSUME NEW s \in Seq(Seq(Nat)), NEW f, Walks(f, s)
    PROVE  Along(s) = f[Len(s)]
<1> DEFINE c == CHOOSE g : Walks(g, s)
<1>1. Along(s) = c[Len(s)]
  BY DEF Along, Walks
<1>2. Walks(c, s)
  OBVIOUS
<1> HIDE DEF c
<1>3. c = f
  BY <1>2, WalksUnique
<1> QED
  BY <1>1, <1>3

\* A walk begins at the root and goes on segment by segment.
LEMMA AlongAppend ==
    /\ Along(<<>>) = AtRoot
    /\ \A s \in Seq(Seq(Nat)), x \in Seq(Nat) : Along(Append(s, x)) = Stepped(Along(s), x)
<1>1. Along(<<>>) = AtRoot
  <2> DEFINE e == <<>>
  <2>1. e \in Seq(Seq(Nat)) /\ Len(e) = 0
    OBVIOUS
  <2> HIDE DEF e
  <2>2. PICK f : Walks(f, e)
    BY <2>1, WalksExists
  <2>3. Along(e) = f[0] /\ f[0] = AtRoot
    BY <2>1, <2>2, AlongIs, WalksValues
  <2> QED
    BY <2>3 DEF e
<1>2. ASSUME NEW s \in Seq(Seq(Nat)), NEW x \in Seq(Nat)
      PROVE  Along(Append(s, x)) = Stepped(Along(s), x)
  <2>1. PICK f : Walks(f, s)
    BY WalksExists
  <2>2. PICK g : Walks(g, Append(s, x)) /\ g[Len(s) + 1] = Stepped(f[Len(s)], x)
    BY <2>1, WalksExtends
  <2>3. Append(s, x) \in Seq(Seq(Nat)) /\ Len(Append(s, x)) = Len(s) + 1
    OBVIOUS
  <2>4. Along(Append(s, x)) = g[Len(s) + 1] /\ Along(s) = f[Len(s)]
    BY <2>1, <2>2, <2>3, AlongIs
  <2> QED
    BY <2>2, <2>4
<1> QED
  BY <1>1, <1>2

\* A walk along a path: from nothing, and on by one segment.
LEMMA WalkAppend ==
    /\ Walk(<<>>) = AtRoot
    /\ \A p \in Paths, x \in Segs : Walk(p \o x) = Stepped(Walk(p), Tail(x))
<1>1. Walk(<<>>) = AtRoot
  BY SegmentsEmpty, AlongAppend DEF Walk
<1>2. ASSUME NEW p \in Paths, NEW x \in Segs
      PROVE  Walk(p \o x) = Stepped(Walk(p), Tail(x))
  <2>1. p \in Seq(Nat) /\ Tail(x) \in Seq(Nat)
    BY NameOf DEF Paths
  <2>2. Segments(p) \in Seq(Seq(Nat)) /\ Segments(p \o x) = Append(Segments(p), Tail(x))
    BY <2>1, SegmentsAppend
  <2>3. Along(Append(Segments(p), Tail(x))) = Stepped(Along(Segments(p)), Tail(x))
    BY <2>1, <2>2, AlongAppend
  <2> QED
    BY <2>2, <2>3 DEF Walk
<1> QED
  BY <1>1, <1>2

\* The names a walk has collected are texts.
WalkStates == [names : Seq(Seq(Nat)), below : BOOLEAN]

LEMMA Marks ==
    /\ Up \in Seq(Nat) /\ Here \in Seq(Nat)
    /\ Up # Here /\ Up # <<>> /\ Here # <<>>
<1>1. Len(Up) = 2 /\ Len(Here) = 1 /\ Up \in Seq(Nat) /\ Here \in Seq(Nat)
  BY DEF Up, Here, Dot
<1>2. Up # Here
  BY <1>1, SMTT(30)
<1>3. Up # <<>> /\ Here # <<>>
  <2> DEFINE e == <<>>
  <2>1. Len(e) = 0
    OBVIOUS
  <2> HIDE DEF e
  <2>2. Len(Up) # Len(e) /\ Len(Here) # Len(e)
    BY <1>1, <2>1
  <2>3. Up # e /\ Here # e
    BY <2>2, Zenon
  <2> QED
    BY <2>3 DEF e
<1> QED
  BY <1>1, <1>2, <1>3

\* One step, by what the segment is.
LEMMA Steps ==
    ASSUME NEW at, NEW segment
    PROVE  /\ segment \in {<<>>, Here} => Stepped(at, segment) = at
           /\ segment = Up /\ at.names = <<>> =>
                 Stepped(at, segment) = [at EXCEPT !.below = FALSE]
           /\ segment = Up /\ at.names # <<>> =>
                 Stepped(at, segment) = [at EXCEPT !.names = Front(@)]
           /\ segment \notin {<<>>, Here, Up} =>
                 Stepped(at, segment) = [at EXCEPT !.names = Append(@, segment)]
<1>1. ASSUME segment \in {<<>>, Here} PROVE Stepped(at, segment) = at
  <2>1. segment # Up
    BY <1>1, Marks
  <2> QED
    BY <1>1, <2>1, Zenon DEF Stepped
<1>2. ASSUME segment = Up PROVE segment \notin {<<>>, Here}
  BY <1>2, Marks
<1>3. ASSUME segment = Up, at.names = <<>>
      PROVE  Stepped(at, segment) = [at EXCEPT !.below = FALSE]
  BY <1>2, <1>3, Zenon DEF Stepped
<1>4. ASSUME segment = Up, at.names # <<>>
      PROVE  Stepped(at, segment) = [at EXCEPT !.names = Front(@)]
  BY <1>2, <1>4, Zenon DEF Stepped
<1>5. ASSUME segment \notin {<<>>, Here, Up}
      PROVE  Stepped(at, segment) = [at EXCEPT !.names = Append(@, segment)]
  BY <1>5, Zenon DEF Stepped
<1> QED
  BY <1>1, <1>3, <1>4, <1>5

LEMMA SteppedType ==
    ASSUME NEW at \in WalkStates, NEW segment \in Seq(Nat)
    PROVE  /\ Stepped(at, segment) \in WalkStates
           /\ ~at.below => ~Stepped(at, segment).below
<1>1. at.names \in Seq(Seq(Nat)) /\ at.below \in BOOLEAN
      /\ at = [names |-> at.names, below |-> at.below]
  BY DEF WalkStates
<1>2. CASE segment \in {<<>>, Here}
  <2>1. Stepped(at, segment) = at
    BY <1>2, Steps
  <2> QED
    BY <2>1
<1>3. CASE segment \notin {<<>>, Here} /\ segment = Up /\ at.names = <<>>
  <2>1. Stepped(at, segment) = [at EXCEPT !.below = FALSE]
    BY <1>3, Steps
  <2> QED
    BY <1>1, <2>1 DEF WalkStates
<1>4. CASE segment \notin {<<>>, Here} /\ segment = Up /\ at.names # <<>>
  <2>1. Stepped(at, segment) = [at EXCEPT !.names = Front(@)]
    BY <1>4, Steps
  <2>2. Front(at.names) \in Seq(Seq(Nat))
    BY <1>1, <1>4 DEF Front
  <2> QED
    BY <1>1, <2>1, <2>2 DEF WalkStates
<1>5. CASE segment \notin {<<>>, Here} /\ segment # Up
  <2>1. Stepped(at, segment) = [at EXCEPT !.names = Append(@, segment)]
    BY <1>5, Steps
  <2>2. Append(at.names, segment) \in Seq(Seq(Nat))
    BY <1>1
  <2> QED
    BY <1>1, <2>1, <2>2 DEF WalkStates
<1> QED
  BY <1>2, <1>3, <1>4, <1>5

LEMMA WalkType ==
    ASSUME NEW p \in Paths
    PROVE  Walk(p) \in WalkStates
<1> DEFINE P == {r \in Paths : Walk(r) \in WalkStates}
<1>1. <<>> \in P
  <2>1. AtRoot \in WalkStates
    BY DEF AtRoot, WalkStates
  <2> QED
    BY <2>1, PathsConcat, WalkAppend
<1>2. ASSUME NEW r \in Paths, NEW x \in Segs, r \in P PROVE r \o x \in P
  <2>1. Walk(r) \in WalkStates /\ Tail(x) \in Seq(Nat)
    BY <1>2, NameOf
  <2>2. Walk(r \o x) \in WalkStates
    BY <2>1, SteppedType, WalkAppend
  <2> QED
    BY <2>2, PathsConcat
<1> HIDE DEF P
<1>3. Paths \subseteq P
  BY <1>1, <1>2, PathInduction
<1> QED
  BY <1>3 DEF P

\* Where two walks stand at the same place they go on alike, and a walk that
\* has left for above the root has left for good.
LEMMA WalkConcat ==
    ASSUME NEW a \in Paths, NEW b \in Paths
    PROVE  /\ \A c \in Paths : Walk(c) = Walk(a) => Walk(c \o b) = Walk(a \o b)
           /\ ~Walk(a).below => ~Walk(a \o b).below
<1> DEFINE P == {r \in Paths :
                    /\ \A c \in Paths : Walk(c) = Walk(a) => Walk(c \o r) = Walk(a \o r)
                    /\ ~Walk(a).below => ~Walk(a \o r).below}
<1>1. <<>> \in P
  BY PathsAlgebra, PathsConcat
<1>2. ASSUME NEW r \in Paths, NEW x \in Segs, r \in P PROVE r \o x \in P
  <2>1. x \in Paths /\ r \o x \in Paths /\ a \o r \in Paths /\ Tail(x) \in Seq(Nat)
    BY PathsConcat, NameOf
  <2>2. ASSUME NEW c \in Paths
        PROVE  Walk(c \o (r \o x)) = Stepped(Walk(c \o r), Tail(x))
    <3>1. c \o (r \o x) = (c \o r) \o x
      BY <2>1, Regroup, Zenon
    <3>2. c \o r \in Paths
      BY PathsConcat
    <3> QED
      BY <3>1, <3>2, WalkAppend
  <2>3. ~Walk(a \o r).below => ~Walk(a \o (r \o x)).below
    BY <2>1, <2>2, WalkType, SteppedType
  <2>4. ASSUME NEW c \in Paths, Walk(c) = Walk(a)
        PROVE  Walk(c \o (r \o x)) = Walk(a \o (r \o x))
    <3>1. Walk(c \o r) = Walk(a \o r)
      BY <1>2, <2>4
    <3> QED
      BY <2>2, <3>1
  <2> QED
    BY <1>2, <2>1, <2>3, <2>4
<1> HIDE DEF P
<1>3. Paths \subseteq P
  BY <1>1, <1>2, PathInduction
<1> QED
  BY <1>3 DEF P

\* The last segment of a path.
LEMMA LastSegment ==
    ASSUME NEW p \in Paths, NEW x \in Segs
    PROVE  Last(Segments(p \o x)) = Tail(x) /\ Absolute(p \o x) /\ p \o x \in Paths
<1>1. p \in Seq(Nat) /\ Tail(x) \in Seq(Nat)
  BY NameOf DEF Paths
<1>2. Segments(p) \in Seq(Seq(Nat)) /\ Segments(p \o x) = Append(Segments(p), Tail(x))
  BY <1>1, SegmentsAppend
<1>3. Last(Append(Segments(p), Tail(x))) = Tail(x)
  <2> DEFINE s == Segments(p)
             t == Tail(x)
             u == Append(s, t)
  <2>1. u \in Seq(Seq(Nat)) /\ Len(u) = Len(s) + 1 /\ u[Len(s) + 1] = t
    BY <1>1, <1>2
  <2> HIDE DEF u
  <2>2. u[Len(u)] = t
    BY <2>1
  <2> QED
    BY <2>2 DEF Last, u
<1>4. p \o x \in Paths /\ p \o x # <<>>
  <2>1. x \in Seq(Nat) /\ Len(x) \in Nat \ {0}
    BY NameOf
  <2>2. p \o x # <<>>
    BY <1>1, <2>1
  <2> QED
    BY <2>2, PathsConcat
<1> QED
  BY <1>2, <1>3, <1>4 DEF Paths, Absolute

-----------------------------------------------------------------------------
(* What a path means.                                                      *)

\* The last segment leaves a slash behind the place.
Trailing(p) == Last(Segments(p)) \in {<<>>, Here, Up}

\* The walk and the kind of the last segment say it all.
LEMMA MeaningSame ==
    ASSUME NEW p, NEW q, Absolute(p), Absolute(q), Walk(p) = Walk(q),
           Trailing(p) <=> Trailing(q)
    PROVE  Meaning(p) = Meaning(q)
BY Zenon DEF Meaning, Trailing

\* What comes before matters by its walk only.
LEMMA MeaningConcat ==
    ASSUME NEW a \in Paths, NEW c \in Paths, NEW b \in Paths, b # <<>>, Walk(a) = Walk(c)
    PROVE  Meaning(a \o b) = Meaning(c \o b)
<1>1. PICK d \in Paths, x \in Segs : b = d \o x
  BY PathCases
<1>2. x \in Paths
  BY PathsConcat
<1>3. a \o d \in Paths /\ c \o d \in Paths
  BY PathsConcat
<1>4. a \o b = (a \o d) \o x
  BY <1>1, <1>2, Regroup, ZenonT(40)
<1>5. c \o b = (c \o d) \o x
  BY <1>1, <1>2, Regroup, ZenonT(40)
<1>6. Last(Segments(a \o b)) = Tail(x) /\ Absolute(a \o b)
  BY <1>3, <1>4, LastSegment
<1>7. Last(Segments(c \o b)) = Tail(x) /\ Absolute(c \o b)
  BY <1>3, <1>5, LastSegment
<1>8. Walk(a \o b) = Walk(c \o b)
  BY WalkConcat
<1> QED
  BY <1>6, <1>7, <1>8, MeaningSame DEF Trailing

\* Names put together with slashes, one name more.
LEMMA JoinedAppend ==
    /\ Joined(<<>>, <<Slash>>) = <<>>
    /\ \A n \in Seq(Seq(Nat)), t \in Seq(Nat) :
          /\ Joined(n, <<Slash>>) \in Seq(Nat)
          /\ Joined(Append(n, t), <<Slash>>)
                = IF n = <<>> THEN t ELSE Joined(n, <<Slash>>) \o (<<Slash>> \o t)
<1> DEFINE Parts(n) == [k \in DOMAIN n |-> IF k = 1 THEN n[k] ELSE <<Slash>> \o n[k]]
<1>1. \A n : Joined(n, <<Slash>>) = FlattenSeq(Parts(n))
  BY DEF Joined
<1>2. <<Slash>> \in Seq(Nat)
  BY DEF Slash
<1>3. Joined(<<>>, <<Slash>>) = <<>>
  <2>1. Parts(<<>>) = <<>>
    OBVIOUS
  <2> QED
    BY <1>1, <2>1, FlattenFew
<1>4. ASSUME NEW n \in Seq(Seq(Nat)) PROVE Parts(n) \in Seq(Seq(Nat))
  <2>1. \A k \in 1..Len(n) : n[k] \in Seq(Nat)
    OBVIOUS
  <2>2. \A k \in 1..Len(n) : <<Slash>> \o n[k] \in Seq(Nat)
    BY <1>2, <2>1, ConcatProperties
  <2>3. DOMAIN n = 1..Len(n) /\ Len(n) \in Nat
    OBVIOUS
  <2> DEFINE part(k) == IF k = 1 THEN n[k] ELSE <<Slash>> \o n[k]
  <2>4. \A k \in 1..Len(n) : part(k) \in Seq(Nat)
    BY <2>1, <2>2
  <2>5. Parts(n) = [k \in 1..Len(n) |-> part(k)]
    BY <2>3
  <2> HIDE DEF part, Parts
  <2> QED
    BY <2>3, <2>4, <2>5
<1>5. ASSUME NEW n \in Seq(Seq(Nat)), NEW t \in Seq(Nat)
      PROVE  Parts(Append(n, t)) = Append(Parts(n), IF n = <<>> THEN t ELSE <<Slash>> \o t)
  <2> DEFINE m == Append(n, t)
             z == IF n = <<>> THEN t ELSE <<Slash>> \o t
             l == Len(n)
  <2>1. /\ m \in Seq(Seq(Nat)) /\ Len(m) = l + 1 /\ DOMAIN m = 1..(l + 1)
        /\ m[l + 1] = t /\ \A k \in 1..l : m[k] = n[k]
        /\ l \in Nat /\ DOMAIN n = 1..l /\ (n = <<>> <=> l = 0)
    OBVIOUS
  <2>2. z \in Seq(Nat)
    BY <1>2, ConcatProperties
  <2> HIDE DEF m
  <2> DEFINE u == Parts(n)
             v == Parts(m)
             w == Append(u, z)
  <2>3. /\ u \in Seq(Seq(Nat)) /\ v \in Seq(Seq(Nat))
    BY <1>4, <2>1
  <2>4. /\ v = [k \in 1..(l + 1) |-> IF k = 1 THEN m[k] ELSE <<Slash>> \o m[k]]
        /\ u = [k \in 1..l |-> IF k = 1 THEN n[k] ELSE <<Slash>> \o n[k]]
    BY <2>1, Zenon
  <2>5. Len(u) = l /\ Len(v) = l + 1
    <3> HIDE DEF u, v, l
    <3>1. DOMAIN u = 1..l /\ DOMAIN v = 1..(l + 1)
      BY <2>4
    <3> QED
      BY <2>1, <2>3, <3>1
  <2>6. ASSUME NEW k \in 1..(l + 1)
        PROVE  v[k] = IF k = l + 1 THEN z ELSE u[k]
    <3>1. v[k] = IF k = 1 THEN m[k] ELSE <<Slash>> \o m[k]
      BY <2>4
    <3>2. CASE k = l + 1
      <4>1. m[k] = t /\ (k = 1 <=> n = <<>>)
        BY <2>1, <3>2
      <4> HIDE DEF u, v, l
      <4> QED
        BY <3>1, <3>2, <4>1
    <3>3. CASE k # l + 1
      <4>1. k \in 1..l
        BY <2>1, <3>3
      <4>2. u[k] = IF k = 1 THEN n[k] ELSE <<Slash>> \o n[k]
        BY <2>4, <4>1
      <4>3. m[k] = n[k]
        BY <2>1, <4>1
      <4> HIDE DEF u, v, l
      <4> QED
        BY <3>1, <3>3, <4>2, <4>3
    <3> QED
      BY <3>2, <3>3
  <2> HIDE DEF u, v, z, l
  <2>7. /\ w \in Seq(Seq(Nat)) /\ Len(w) = l + 1
        /\ w[l + 1] = z /\ \A k \in 1..l : w[k] = u[k]
    BY <2>2, <2>3, <2>5
  <2> HIDE DEF w
  <2>8. \A k \in 1..(l + 1) : v[k] = w[k]
    <3> TAKE k \in 1..(l + 1)
    <3>1. k = l + 1 \/ (k # l + 1 /\ k \in 1..l)
      BY <2>1
    <3> QED
      BY <2>6, <2>7, <3>1
  <2>9. v = w
    BY <2>3, <2>5, <2>7, <2>8
  <2> QED
    BY <2>9 DEF u, v, w, z, m
<1> HIDE DEF Parts
<1>6. ASSUME NEW n \in Seq(Seq(Nat)), NEW t \in Seq(Nat)
      PROVE  /\ FlattenSeq(Parts(n)) \in Seq(Nat)
             /\ FlattenSeq(Parts(Append(n, t)))
                   = IF n = <<>> THEN t ELSE FlattenSeq(Parts(n)) \o (<<Slash>> \o t)
  <2> DEFINE z == IF n = <<>> THEN t ELSE <<Slash>> \o t
  <2>1. z \in Seq(Nat)
    BY <1>2, ConcatProperties
  <2>2. FlattenSeq(Append(Parts(n), z)) = FlattenSeq(Parts(n)) \o z
    BY <1>4, <2>1, FlattenAppend
  <2>3. FlattenSeq(Parts(n)) \in Seq(Nat)
    BY <1>4, FlattenType
  <2>4. n = <<>> => FlattenSeq(Parts(n)) = <<>> /\ <<>> \o t = t
    BY <1>1, <1>3, ConcatEmptySeq
  <2>5. FlattenSeq(Parts(Append(n, t))) = FlattenSeq(Parts(n)) \o z
    BY <1>5, <2>2
  <2>6. CASE n = <<>>
    <3>1. z = t
      BY <2>6
    <3> QED
      BY <2>3, <2>4, <2>5, <2>6, <3>1
  <2>7. CASE n # <<>>
    BY <2>3, <2>5, <2>7
  <2> QED
    BY <2>6, <2>7
<1>7. ASSUME NEW n \in Seq(Seq(Nat)), NEW t \in Seq(Nat)
      PROVE  /\ Joined(n, <<Slash>>) \in Seq(Nat)
             /\ Joined(Append(n, t), <<Slash>>)
                   = IF n = <<>> THEN t ELSE Joined(n, <<Slash>>) \o (<<Slash>> \o t)
  <2>1. /\ Joined(n, <<Slash>>) = FlattenSeq(Parts(n))
        /\ Joined(Append(n, t), <<Slash>>) = FlattenSeq(Parts(Append(n, t)))
    BY <1>1, Zenon
  <2> QED
    BY <1>6, <2>1, Zenon
<1> QED
  BY <1>3, <1>7, Zenon

-----------------------------------------------------------------------------
Octets == 0..255

\* Sequences over a set are sequences over a larger one.
LEMMA SeqWidens ==
    ASSUME NEW C, NEW D, C \subseteq D, NEW s \in Seq(C)
    PROVE  s \in Seq(D)
<1>1. Len(s) \in Nat /\ s \in [1..Len(s) -> C]
  OBVIOUS
<1>2. s \in [1..Len(s) -> D]
  BY <1>1
<1> QED
  BY <1>1, <1>2

LEMMA OctetsAre ==
    /\ Octets \subseteq Nat
    /\ \A s \in Seq(Octets) : s \in Seq(Nat)
<1>1. Octets \subseteq Nat
  BY DEF Octets
<1> QED
  BY <1>1, SeqWidens

\* What is put together place by place, one place more.
LEMMA FlattenGrows ==
    ASSUME NEW S, NEW f \in Seq(Seq(S)), NEW g \in Seq(Seq(S)), NEW x,
           Len(g) = Len(f) + 1, g[Len(f) + 1] = x, \A i \in 1..Len(f) : g[i] = f[i]
    PROVE  FlattenSeq(g) = FlattenSeq(f) \o x
<1>1. x \in Seq(S)
  <2>1. Len(f) + 1 \in 1..Len(g)
    OBVIOUS
  <2> QED
    BY <2>1
<1>2. g = Append(f, x)
  <2> DEFINE a == Append(f, x)
  <2>1. /\ a \in Seq(Seq(S)) /\ Len(a) = Len(f) + 1 /\ a[Len(f) + 1] = x
        /\ \A i \in 1..Len(f) : a[i] = f[i]
    BY <1>1
  <2> HIDE DEF a
  <2>2. \A i \in 1..Len(g) : g[i] = a[i]
    <3> TAKE i \in 1..Len(g)
    <3>1. i \in 1..Len(f) \/ i = Len(f) + 1
      OBVIOUS
    <3> QED
      BY <2>1, <3>1
  <2>3. g = a
    BY <2>1, <2>2
  <2> QED
    BY <2>3 DEF a
<1> QED
  BY <1>1, <1>2, FlattenAppend

\* Two sequences put together, place by place.
LEMMA ConcatIs ==
    ASSUME NEW S, NEW f \in Seq(S), NEW g \in Seq(S)
    PROVE  f \o g = [i \in 1..(Len(f) + Len(g)) |->
                        IF i <= Len(f) THEN f[i] ELSE g[i - Len(f)]]
<1> DEFINE h == f \o g
<1>1. /\ h \in Seq(S) /\ Len(h) = Len(f) + Len(g)
      /\ \A i \in 1..(Len(f) + Len(g)) : h[i] = IF i <= Len(f) THEN f[i] ELSE g[i - Len(f)]
  BY ConcatProperties
<1> HIDE DEF h
<1>2. h = [i \in 1..(Len(f) + Len(g)) |-> h[i]]
  BY <1>1
<1>3. h = [i \in 1..(Len(f) + Len(g)) |-> IF i <= Len(f) THEN f[i] ELSE g[i - Len(f)]]
  BY <1>1, <1>2
<1> QED
  BY <1>3 DEF h

-----------------------------------------------------------------------------
(* Escaping.                                                               *)

\* What a byte is written as.
Escaped(c, set) == IF c \notin set THEN <<c>>
                   ELSE <<Percent, UpperHex(c \div 16), UpperHex(c % 16)>>

\* The digits of a byte give the byte.
LEMMA Digit ==
    ASSUME NEW n \in 0..15
    PROVE  /\ UpperHex(n) \in HexDigits /\ HexVal(UpperHex(n)) = n
           /\ UpperHex(n) \in Nat \ {Percent, Plus, Ampersand, Semicolon, Equals}
BY DEF UpperHex, HexDigits, HexVal, Digits, Percent, Plus, Ampersand, Semicolon, Equals

LEMMA Halves ==
    ASSUME NEW c \in Octets
    PROVE  c \div 16 \in 0..15 /\ c % 16 \in 0..15 /\ 16 * (c \div 16) + (c % 16) = c
BY DEF Octets

\* It stands for itself, or its escape stands for it.
LEMMA EscapedIs ==
    ASSUME NEW c \in Octets, NEW set
    PROVE  /\ Escaped(c, set) \in Seq(Octets) /\ Len(Escaped(c, set)) >= 1
           /\ \A i \in 1..Len(Escaped(c, set)) :
                 Escaped(c, set)[i] \in {Percent} \cup HexDigits \cup ({c} \ set)
           /\ c \notin set => Escaped(c, set) = <<c>>
           /\ c \in set => \E h, k \in HexDigits : /\ Escaped(c, set) = <<Percent, h, k>>
                                                   /\ 16 * HexVal(h) + HexVal(k) = c
<1>1. CASE c \notin set
  <2>1. Escaped(c, set) = <<c>>
    BY <1>1 DEF Escaped
  <2> QED
    BY <1>1, <2>1
<1>2. CASE c \in set
  <2> DEFINE h == UpperHex(c \div 16)
             k == UpperHex(c % 16)
  <2>1. h \in HexDigits /\ k \in HexDigits /\ 16 * HexVal(h) + HexVal(k) = c
    BY Digit, Halves
  <2>2. Escaped(c, set) = <<Percent, h, k>>
    BY <1>2 DEF Escaped
  <2>3. Percent \in Octets /\ HexDigits \subseteq Octets
    BY DEF Percent, Octets, HexDigits, Digits
  <2> HIDE DEF h, k
  <2>4. /\ <<Percent, h, k>> \in Seq(Octets) /\ Len(<<Percent, h, k>>) = 3
        /\ \A i \in 1..3 : <<Percent, h, k>>[i] \in {Percent} \cup HexDigits
    BY <2>1, <2>3
  <2> QED
    BY <1>2, <2>1, <2>2, <2>4
<1> QED
  BY <1>1, <1>2

\* Escaping a text in two parts.
LEMMA EscapeByConcat ==
    ASSUME NEW set
    PROVE  /\ EscapeBy(<<>>, set) = <<>>
           /\ \A c \in Octets : EscapeBy(<<c>>, set) = Escaped(c, set)
           /\ \A s \in Seq(Octets) : EscapeBy(s, set) \in Seq(Octets)
           /\ \A s, t \in Seq(Octets) :
                 EscapeBy(s \o t, set) = EscapeBy(s, set) \o EscapeBy(t, set)
<1> DEFINE image(s) == [i \in DOMAIN s |-> Escaped(s[i], set)]
<1>1. ASSUME NEW s PROVE EscapeBy(s, set) = FlattenSeq(image(s))
  BY DEF EscapeBy, Mapped, Escaped
<1>2. EscapeBy(<<>>, set) = <<>>
  <2>1. image(<<>>) = <<>>
    OBVIOUS
  <2> HIDE DEF image
  <2> QED
    BY <1>1, <2>1, FlattenFew
<1>3. ASSUME NEW s \in Seq(Octets)
      PROVE  /\ image(s) \in Seq(Seq(Octets)) /\ Len(image(s)) = Len(s)
             /\ \A i \in 1..Len(s) : image(s)[i] = Escaped(s[i], set)
  <2>1. \A i \in 1..Len(s) : s[i] \in Octets
    BY SeqFacts
  <2>2. \A i \in 1..Len(s) : Escaped(s[i], set) \in Seq(Octets)
    BY <2>1, EscapedIs
  <2>3. Len(s) \in Nat /\ DOMAIN s = 1..Len(s)
    BY SeqFacts
  <2> QED
    BY <2>2, <2>3
<1>4. ASSUME NEW c \in Octets PROVE EscapeBy(<<c>>, set) = Escaped(c, set)
  <2>1. image(<<c>>) = <<Escaped(c, set)>>
    OBVIOUS
  <2>2. Escaped(c, set) \in Seq(Octets)
    BY EscapedIs
  <2> HIDE DEF image
  <2> QED
    BY <1>1, <2>1, <2>2, FlattenFew
<1>5. ASSUME NEW s \in Seq(Octets), NEW t \in Seq(Octets)
      PROVE  image(s \o t) = image(s) \o image(t)
  <2> DEFINE n == Len(s)
             m == Len(t)
             u == s \o t
  <2>1. /\ u \in Seq(Octets) /\ Len(u) = n + m /\ n \in Nat /\ m \in Nat
        /\ \A i \in 1..(n + m) : u[i] = IF i <= n THEN s[i] ELSE t[i - n]
    BY ConcatProperties
  <2> HIDE DEF u, n, m
  <2>2. /\ image(s) \in Seq(Seq(Octets)) /\ Len(image(s)) = n
        /\ \A i \in 1..n : image(s)[i] = Escaped(s[i], set)
    BY <1>3 DEF n
  <2>3. /\ image(t) \in Seq(Seq(Octets)) /\ Len(image(t)) = m
        /\ \A i \in 1..m : image(t)[i] = Escaped(t[i], set)
    BY <1>3 DEF m
  <2>4. /\ image(u) \in Seq(Seq(Octets)) /\ Len(image(u)) = n + m
        /\ \A i \in 1..(n + m) : image(u)[i] = Escaped(u[i], set)
    BY <1>3, <2>1
  <2> HIDE DEF image
  <2>5. image(s) \o image(t)
           = [i \in 1..(n + m) |-> IF i <= n THEN image(s)[i] ELSE image(t)[i - n]]
    <3> DEFINE f == image(s)
               g == image(t)
    <3>1. f \in Seq(Seq(Octets)) /\ g \in Seq(Seq(Octets)) /\ Len(f) = n /\ Len(g) = m
      BY <2>2, <2>3
    <3> HIDE DEF f, g
    <3>2. f \o g = [i \in 1..(Len(f) + Len(g)) |->
                       IF i <= Len(f) THEN f[i] ELSE g[i - Len(f)]]
      BY <3>1, ConcatIs
    <3>3. f \o g = [i \in 1..(n + m) |-> IF i <= n THEN f[i] ELSE g[i - n]]
      BY <3>1, <3>2
    <3> QED
      BY <3>3 DEF f, g
  <2>6. image(u) = [i \in 1..(n + m) |-> image(u)[i]]
    BY <2>4
  <2>7. ASSUME NEW i \in 1..(n + m)
        PROVE  image(u)[i] = IF i <= n THEN image(s)[i] ELSE image(t)[i - n]
    <3>1. CASE i <= n
      <4>1. i \in 1..n
        BY <2>1, <3>1
      <4> QED
        BY <2>1, <2>2, <2>4, <3>1, <4>1
    <3>2. CASE ~(i <= n)
      <4>1. i - n \in 1..m
        BY <2>1, <3>2
      <4> QED
        BY <2>1, <2>3, <2>4, <3>2, <4>1
    <3> QED
      BY <3>1, <3>2
  <2> QED
    BY <2>5, <2>6, <2>7 DEF u
<1> HIDE DEF image
<1>6. ASSUME NEW s \in Seq(Octets), NEW t \in Seq(Octets)
      PROVE  EscapeBy(s \o t, set) = EscapeBy(s, set) \o EscapeBy(t, set)
  <2>1. image(s) \in Seq(Seq(Octets)) /\ image(t) \in Seq(Seq(Octets))
    BY <1>3
  <2>2. FlattenSeq(image(s) \o image(t)) = FlattenSeq(image(s)) \o FlattenSeq(image(t))
    BY <2>1, FlattenConcat
  <2>3. image(s \o t) = image(s) \o image(t)
    BY <1>5
  <2>4. /\ EscapeBy(s, set) = FlattenSeq(image(s)) /\ EscapeBy(t, set) = FlattenSeq(image(t))
        /\ EscapeBy(s \o t, set) = FlattenSeq(image(s \o t))
    BY <1>1
  <2> QED
    BY <2>2, <2>3, <2>4, Zenon
<1>7. ASSUME NEW s \in Seq(Octets) PROVE EscapeBy(s, set) \in Seq(Octets)
  BY <1>1, <1>3, FlattenType
<1> QED
  BY <1>2, <1>4, <1>6, <1>7

\* Of the bytes that are escaped, none is in what is written but the percent
\* sign and the digits.
LEMMA EscapeByType ==
    ASSUME NEW C, C \subseteq Octets, NEW s \in Seq(C), NEW set
    PROVE  /\ EscapeBy(s, set) \in Seq(Octets)
           /\ s # <<>> => EscapeBy(s, set) # <<>>
           /\ \A i \in 1..Len(EscapeBy(s, set)) :
                 EscapeBy(s, set)[i] \in {Percent} \cup HexDigits \cup (C \ set)
<1> DEFINE Left == {Percent} \cup HexDigits \cup (C \ set)
           Good(r) == /\ EscapeBy(r, set) \in Seq(Octets)
                      /\ r # <<>> => EscapeBy(r, set) # <<>>
                      /\ \A i \in 1..Len(EscapeBy(r, set)) : EscapeBy(r, set)[i] \in Left
           P == {r \in Seq(C) : Good(r)}
<1>1. <<>> \in P
  <2>1. EscapeBy(<<>>, set) = <<>>
    BY EscapeByConcat
  <2> DEFINE z == <<>>
  <2>2. z \in Seq(C) /\ z \in Seq(Octets) /\ 1..Len(z) = {}
    OBVIOUS
  <2> HIDE DEF z, Left
  <2> QED
    BY <2>1, <2>2 DEF z
<1>2. ASSUME NEW r \in Seq(C), NEW c \in C, r \in P PROVE Append(r, c) \in P
  <2> DEFINE w == EscapeBy(r, set)
             e == Escaped(c, set)
             v == w \o e
             q == Append(r, c)
  <2>1. w \in Seq(Octets) /\ \A i \in 1..Len(w) : w[i] \in Left
    BY <1>2
  <2>0. c \in Octets /\ r \in Seq(Octets)
    BY SeqWidens
  <2>2. e \in Seq(Octets) /\ Len(e) >= 1 /\ \A i \in 1..Len(e) : e[i] \in Left
    BY <2>0, EscapedIs
  <2>3. q \in Seq(C) /\ q = r \o <<c>> /\ <<c>> \in Seq(Octets)
    BY <2>0
  <2>4. EscapeBy(q, set) = v
    <3>1. EscapeBy(r \o <<c>>, set) = EscapeBy(r, set) \o EscapeBy(<<c>>, set)
      BY <2>0, <2>3, EscapeByConcat
    <3>2. EscapeBy(<<c>>, set) = Escaped(c, set)
      BY <2>0, EscapeByConcat
    <3> QED
      BY <2>3, <3>1, <3>2
  <2> HIDE DEF w, e, q, Left
  <2>5. /\ v \in Seq(Octets) /\ Len(v) = Len(w) + Len(e) /\ Len(w) \in Nat /\ Len(e) \in Nat
        /\ \A i \in 1..(Len(w) + Len(e)) : v[i] = IF i <= Len(w) THEN w[i] ELSE e[i - Len(w)]
    BY <2>1, <2>2, ConcatProperties
  <2>6. v # <<>>
    <3> HIDE DEF v
    <3>1. Len(v) # 0
      BY <2>2, <2>5
    <3> QED
      BY <2>5, <3>1
  <2> HIDE DEF v
  <2>7. ASSUME NEW i \in 1..Len(v) PROVE v[i] \in Left
    <3>1. CASE i <= Len(w)
      BY <2>1, <2>5, <3>1
    <3>2. CASE ~(i <= Len(w))
      <4>1. i - Len(w) \in 1..Len(e)
        BY <2>5, <3>2
      <4> QED
        BY <2>2, <2>5, <3>2, <4>1
    <3> QED
      BY <3>1, <3>2
  <2>8. Good(q)
    BY <2>4, <2>5, <2>6, <2>7
  <2> QED
    BY <2>3, <2>8 DEF q
<1> HIDE DEF P
<1>3. Seq(C) \subseteq P
  BY <1>1, <1>2, SeqInduction
<1> QED
  BY <1>3 DEF P

-----------------------------------------------------------------------------
(* Unescaping.                                                             *)

\* No escape is cut short.
Complete(t) == \A i \in 1..Len(t) : t[i] = Percent => i <= Len(t) - 2

\* What becomes of a place of a text.
Image(t, i) == IF EscapeAt(t, i) THEN <<16 * HexVal(t[i + 1]) + HexVal(t[i + 2])>>
               ELSE IF EscapeAt(t, i - 1) \/ EscapeAt(t, i - 2) THEN <<>>
               ELSE <<t[i]>>

LEMMA UnescapeIs == \A t : Unescape(t) = FlattenSeq([i \in DOMAIN t |-> Image(t, i)])
  BY DEF Unescape, Mapped, Image

LEMMA ImageType ==
    ASSUME NEW t \in Seq(Nat), NEW i \in 1..Len(t)
    PROVE  Image(t, i) \in Seq(Nat)
<1>1. CASE EscapeAt(t, i)
  <2>1. t[i + 1] \in HexDigits /\ t[i + 2] \in HexDigits
    BY <1>1 DEF EscapeAt
  <2>2. \A h \in HexDigits : HexVal(h) \in Nat
    BY DEF HexDigits, HexVal, Digits
  <2>3. HexVal(t[i + 1]) \in Nat /\ HexVal(t[i + 2]) \in Nat
    BY <2>1, <2>2
  <2> DEFINE a == HexVal(t[i + 1])
             b == HexVal(t[i + 2])
  <2>4. 16 * a + b \in Nat
    BY <2>3
  <2> HIDE DEF a, b
  <2>5. <<16 * a + b>> \in Seq(Nat)
    BY <2>4
  <2> QED
    BY <1>1, <2>5 DEF Image, a, b
<1>2. CASE ~EscapeAt(t, i)
  BY <1>2 DEF Image
<1> QED
  BY <1>1, <1>2

\* What follows a complete text changes nothing in it.
LEMMA ImageSame ==
    ASSUME NEW t \in Seq(Nat), NEW e \in Seq(Nat), Complete(t), NEW i \in 1..Len(t)
    PROVE  Image(t \o e, i) = Image(t, i)
<1> DEFINE u == t \o e
           n == Len(t)
<1>1. /\ n \in Nat /\ u \in Seq(Nat) /\ Len(u) = n + Len(e) /\ Len(e) \in Nat
      /\ \A j \in 1..n : u[j] = t[j]
  OBVIOUS
<1>2. \A j \in 1..n : t[j] = Percent => j <= n - 2
  BY DEF Complete
<1> HIDE DEF u, n
<1>3. ASSUME NEW j \in Int, j <= n PROVE EscapeAt(u, j) <=> EscapeAt(t, j)
  <2>1. CASE j \in 1..n /\ t[j] = Percent
    <3>1. j \in 1..(n - 2) /\ j + 1 \in 1..n /\ j + 2 \in 1..n /\ j \in 1..(Len(u) - 2)
      BY <1>1, <1>2, <2>1
    <3>2. u[j] = t[j] /\ u[j + 1] = t[j + 1] /\ u[j + 2] = t[j + 2]
      BY <1>1, <2>1, <3>1
    <3>3. j \in 1..(Len(t) - 2)
      BY <3>1 DEF n
    <3> QED
      BY <3>1, <3>2, <3>3, Zenon DEF EscapeAt
  <2>2. CASE ~(j \in 1..n /\ t[j] = Percent)
    <3>1. ~EscapeAt(t, j)
      BY <1>1, <2>2 DEF EscapeAt, n
    <3>2. ~EscapeAt(u, j)
      <4>1. CASE j < 1
        BY <1>1, <4>1 DEF EscapeAt
      <4>2. CASE j \in 1..n
        BY <1>1, <2>2, <4>2 DEF EscapeAt
      <4> QED
        BY <1>1, <1>3, <4>1, <4>2
    <3> QED
      BY <3>1, <3>2
  <2> QED
    BY <2>1, <2>2
<1>4. /\ i \in Int /\ i <= n /\ i - 1 \in Int /\ i - 1 <= n /\ i - 2 \in Int /\ i - 2 <= n
      /\ u[i] = t[i]
  BY <1>1 DEF n
<1>5. EscapeAt(t, i) => u[i + 1] = t[i + 1] /\ u[i + 2] = t[i + 2]
  <2> SUFFICES ASSUME EscapeAt(t, i) PROVE u[i + 1] = t[i + 1] /\ u[i + 2] = t[i + 2]
    OBVIOUS
  <2>1. i + 1 \in 1..n /\ i + 2 \in 1..n
    BY <1>1 DEF EscapeAt, n
  <2> QED
    BY <1>1, <2>1
<1>6. /\ EscapeAt(u, i) <=> EscapeAt(t, i)
      /\ EscapeAt(u, i - 1) <=> EscapeAt(t, i - 1)
      /\ EscapeAt(u, i - 2) <=> EscapeAt(t, i - 2)
  BY <1>3, <1>4
<1>7. Image(u, i) = Image(t, i)
  BY <1>4, <1>5, <1>6, Zenon DEF Image
<1> QED
  BY <1>7 DEF u

\* A text and a character that is no escape.
LEMMA UnescapePlain ==
    ASSUME NEW t \in Seq(Nat), Complete(t), NEW c \in Nat \ {Percent}
    PROVE  /\ Unescape(t \o <<c>>) = Unescape(t) \o <<c>>
           /\ Complete(t \o <<c>>)
<1> DEFINE e == <<c>>
           u == t \o e
           n == Len(t)
           f == [i \in DOMAIN t |-> Image(t, i)]
           g == [i \in DOMAIN u |-> Image(u, i)]
<1>1. /\ n \in Nat /\ u \in Seq(Nat) /\ Len(u) = n + 1 /\ DOMAIN u = 1..(n + 1)
      /\ DOMAIN t = 1..n /\ u[n + 1] = c /\ \A i \in 1..n : u[i] = t[i]
      /\ e \in Seq(Nat)
  OBVIOUS
<1>2. \A i \in 1..n : t[i] = Percent => i <= n - 2
  BY DEF Complete
<1>3. \A i \in 1..n : Image(u, i) = Image(t, i) /\ Image(t, i) \in Seq(Nat)
  BY <1>1, ImageSame, ImageType
<1> HIDE DEF u, n, e
<1>4. Image(u, n + 1) = <<c>>
  <2>1. \A j \in Int : j \in 1..(n + 1) /\ u[j] = Percent => j <= n - 2
    <3> SUFFICES ASSUME NEW j \in 1..(n + 1), u[j] = Percent PROVE j <= n - 2
      OBVIOUS
    <3>1. j # n + 1
      BY <1>1
    <3>2. j \in 1..n
      BY <1>1, <3>1
    <3> QED
      BY <1>1, <1>2, <3>2
  <2>2. ASSUME NEW j \in Int, j > n - 2 PROVE ~EscapeAt(u, j)
    <3>1. ~(j \in 1..(Len(u) - 2) /\ u[j] = Percent)
      <4> SUFFICES ASSUME j \in 1..(Len(u) - 2), u[j] = Percent PROVE FALSE
        OBVIOUS
      <4>1. j \in 1..(n + 1)
        BY <1>1
      <4> QED
        BY <1>1, <2>1, <2>2, <4>1
    <3> QED
      BY <3>1, Zenon DEF EscapeAt
  <2>3. /\ n + 1 \in Int /\ n + 1 > n - 2 /\ (n + 1) - 1 \in Int /\ (n + 1) - 1 > n - 2
        /\ (n + 1) - 2 \in Int /\ (n + 1) - 2 > n - 2
    BY <1>1
  <2>4. ~EscapeAt(u, n + 1) /\ ~EscapeAt(u, (n + 1) - 1) /\ ~EscapeAt(u, (n + 1) - 2)
    BY <2>2, <2>3, Zenon
  <2> QED
    BY <1>1, <2>4, Zenon DEF Image
<1>5. Complete(u)
  <2>1. ASSUME NEW i \in 1..(n + 1), u[i] = Percent PROVE i <= (n + 1) - 2
    <3>1. i \in 1..n /\ t[i] = Percent
      BY <1>1, <2>1
    <3> QED
      BY <1>1, <1>2, <3>1
  <2> QED
    BY <1>1, <2>1 DEF Complete
<1>6. FlattenSeq(g) = FlattenSeq(f) \o <<c>>
  <2>1. f = [i \in 1..n |-> Image(t, i)] /\ g = [i \in 1..(n + 1) |-> Image(u, i)]
    BY <1>1
  <2>2. <<c>> \in Seq(Nat)
    OBVIOUS
  <2> DEFINE x == <<c>>
  <2>3. n + 1 \in 1..(n + 1) /\ \A i \in 1..n : i \in 1..(n + 1)
    BY <1>1
  <2>4. \A i \in 1..(n + 1) : Image(u, i) \in Seq(Nat)
    BY <1>1, ImageType
  <2>5. Image(u, n + 1) = x /\ x \in Seq(Nat)
    BY <1>4, <2>2
  <2> HIDE DEF f, g, x
  <2>6. /\ f \in Seq(Seq(Nat)) /\ Len(f) = n /\ g \in Seq(Seq(Nat)) /\ Len(g) = n + 1
        /\ g[n + 1] = x /\ \A i \in 1..n : g[i] = f[i]
    BY <1>1, <1>3, <2>1, <2>3, <2>4, <2>5
  <2>7. FlattenSeq(g) = FlattenSeq(f) \o x
    BY <2>6, FlattenGrows
  <2> QED
    BY <2>7 DEF x
<1> QED
  BY <1>5, <1>6, UnescapeIs DEF u, e

\* A text and an escape.
LEMMA UnescapeEscaped ==
    ASSUME NEW t \in Seq(Nat), Complete(t), NEW h \in HexDigits, NEW k \in HexDigits
    PROVE  /\ Unescape(t \o <<Percent, h, k>>) = Unescape(t) \o <<16 * HexVal(h) + HexVal(k)>>
           /\ Complete(t \o <<Percent, h, k>>)
<1> DEFINE e == <<Percent, h, k>>
           u == t \o e
           n == Len(t)
           x == <<16 * HexVal(h) + HexVal(k)>>
           f == [i \in DOMAIN t |-> Image(t, i)]
           g == [i \in DOMAIN u |-> Image(u, i)]
<1>1. h \in Nat \ {Percent} /\ k \in Nat \ {Percent} /\ Percent \in Nat
  BY DEF HexDigits, Digits, Percent
<1>2. /\ n \in Nat /\ u \in Seq(Nat) /\ Len(u) = n + 3 /\ DOMAIN u = 1..(n + 3)
      /\ DOMAIN t = 1..n /\ \A i \in 1..n : u[i] = t[i]
      /\ u[n + 1] = Percent /\ u[n + 2] = h /\ u[n + 3] = k
      /\ e \in Seq(Nat)
  <2>1. e \in Seq(Nat) /\ Len(e) = 3 /\ e[1] = Percent /\ e[2] = h /\ e[3] = k
    BY <1>1
  <2> HIDE DEF e, x, f, g
  <2>2. /\ n \in Nat /\ u \in Seq(Nat) /\ Len(u) = n + 3
        /\ \A i \in 1..n : u[i] = t[i]
        /\ \A i \in (n + 1)..(n + 3) : u[i] = e[i - n]
    <3>1. e \in Seq(Nat) /\ Len(e) \in Nat
      BY <2>1
    <3>2. /\ n \in Nat /\ u \in Seq(Nat) /\ Len(u) = n + Len(e)
          /\ \A i \in 1..n : u[i] = t[i]
          /\ \A i \in (n + 1)..(n + Len(e)) : u[i] = e[i - n]
      BY <3>1
    <3> HIDE DEF u, n
    <3> QED
      BY <2>1, <3>2
  <2>3. DOMAIN u = 1..(n + 3) /\ DOMAIN t = 1..n
    BY <2>2
  <2> HIDE DEF u, n
  <2>4. /\ n + 1 \in (n + 1)..(n + 3) /\ (n + 1) - n = 1
        /\ n + 2 \in (n + 1)..(n + 3) /\ (n + 2) - n = 2
        /\ n + 3 \in (n + 1)..(n + 3) /\ (n + 3) - n = 3
    BY <2>2
  <2>5. u[n + 1] = Percent /\ u[n + 2] = h /\ u[n + 3] = k
    BY <2>1, <2>2, <2>4
  <2> QED
    BY <2>1, <2>2, <2>3, <2>5
<1>3. \A i \in 1..n : t[i] = Percent => i <= n - 2
  BY DEF Complete
<1>4. \A i \in 1..n : Image(u, i) = Image(t, i) /\ Image(t, i) \in Seq(Nat)
  BY <1>2, ImageSame, ImageType
<1> HIDE DEF u, n, e
<1>5. ASSUME NEW j \in 1..(n + 3), u[j] = Percent PROVE j <= n - 2 \/ j = n + 1
  <2>1. j \in 1..n \/ j = n + 1 \/ j = n + 2 \/ j = n + 3
    BY <1>2
  <2> QED
    BY <1>1, <1>2, <1>3, <1>5, <2>1
<1>6. ASSUME NEW j \in Int, j > n - 2, j # n + 1 PROVE ~EscapeAt(u, j)
  <2>1. ~(j \in 1..(Len(u) - 2) /\ u[j] = Percent)
    <3> SUFFICES ASSUME j \in 1..(Len(u) - 2), u[j] = Percent PROVE FALSE
      OBVIOUS
    <3>1. j \in 1..(n + 3)
      BY <1>2
    <3> QED
      BY <1>2, <1>5, <1>6, <3>1
  <2> QED
    BY <2>1, Zenon DEF EscapeAt
<1>7. EscapeAt(u, n + 1)
  <2>1. (n + 1) + 1 = n + 2 /\ (n + 1) + 2 = n + 3 /\ n + 1 \in 1..(Len(u) - 2)
    BY <1>2
  <2> QED
    BY <1>2, <2>1 DEF EscapeAt
<1>8. Image(u, n + 1) = x
  <2>1. (n + 1) + 1 = n + 2 /\ (n + 1) + 2 = n + 3
    BY <1>2
  <2> QED
    BY <1>2, <1>7, <2>1, Zenon DEF Image
<1>9. Image(u, n + 2) = <<>>
  <2>1. n + 2 \in Int /\ n + 2 > n - 2 /\ n + 2 # n + 1 /\ (n + 2) - 1 = n + 1
    BY <1>2
  <2> QED
    BY <1>6, <1>7, <2>1, Zenon DEF Image
<1>10. Image(u, n + 3) = <<>>
  <2>1. n + 3 \in Int /\ n + 3 > n - 2 /\ n + 3 # n + 1 /\ (n + 3) - 2 = n + 1
    BY <1>2
  <2> QED
    BY <1>6, <1>7, <2>1, Zenon DEF Image
<1>11. x \in Seq(Nat) /\ <<>> \in Seq(Nat)
  <2>1. n + 1 \in 1..Len(u)
    BY <1>2
  <2>2. Image(u, n + 1) \in Seq(Nat)
    BY <1>2, <2>1, ImageType
  <2> HIDE DEF x, f, g
  <2> QED
    BY <1>8, <2>2
<1> HIDE DEF x
<1>12. /\ f \in Seq(Seq(Nat)) /\ Len(f) = n /\ g \in Seq(Seq(Nat)) /\ Len(g) = n + 3
       /\ g[n + 1] = x /\ g[n + 2] = <<>> /\ g[n + 3] = <<>>
       /\ \A i \in 1..n : g[i] = f[i]
  <2>1. f = [i \in 1..n |-> Image(t, i)] /\ g = [i \in 1..(n + 3) |-> Image(u, i)]
    BY <1>2
  <2>2. \A i \in 1..(n + 3) : Image(u, i) \in Seq(Nat)
    BY <1>2, ImageType
  <2>3. /\ n + 1 \in 1..(n + 3) /\ n + 2 \in 1..(n + 3) /\ n + 3 \in 1..(n + 3)
        /\ \A i \in 1..n : i \in 1..(n + 3)
    BY <1>2
  <2> HIDE DEF f, g
  <2>4. f \in Seq(Seq(Nat)) /\ Len(f) = n /\ g \in Seq(Seq(Nat)) /\ Len(g) = n + 3
    BY <1>2, <1>4, <2>1, <2>2
  <2>5. g[n + 1] = x /\ g[n + 2] = <<>> /\ g[n + 3] = <<>>
    BY <1>8, <1>9, <1>10, <2>1, <2>3
  <2>6. \A i \in 1..n : g[i] = f[i]
    BY <1>4, <2>1, <2>3
  <2> QED
    BY <2>4, <2>5, <2>6
<1> HIDE DEF f, g
<1>13. FlattenSeq(g) = FlattenSeq(f) \o x
  <2> DEFINE z == <<>>
             g1 == Append(f, x)
             g2 == Append(g1, z)
             g3 == Append(g2, z)
  <2>1. z \in Seq(Nat)
    OBVIOUS
  <2>2. z = <<>>
    OBVIOUS
  <2> HIDE DEF z
  <2>3. /\ g1 \in Seq(Seq(Nat)) /\ Len(g1) = n + 1 /\ g1[n + 1] = x
        /\ \A i \in 1..n : g1[i] = f[i]
    <3>1. n \in Nat /\ f \in Seq(Seq(Nat)) /\ Len(f) = n /\ x \in Seq(Nat)
      BY <1>2, <1>11, <1>12
    <3> QED
      BY <3>1
  <2> HIDE DEF g1
  <2>4. /\ g2 \in Seq(Seq(Nat)) /\ Len(g2) = n + 2 /\ g2[n + 2] = z
        /\ \A i \in 1..(n + 1) : g2[i] = g1[i]
    BY <1>2, <2>1, <2>3
  <2> HIDE DEF g2
  <2>5. /\ g3 \in Seq(Seq(Nat)) /\ Len(g3) = n + 3 /\ g3[n + 3] = z
        /\ \A i \in 1..(n + 2) : g3[i] = g2[i]
    BY <1>2, <2>1, <2>4
  <2> HIDE DEF g3
  <2>6. \A i \in 1..(n + 3) : g[i] = g3[i]
    <3> TAKE i \in 1..(n + 3)
    <3>1. i \in 1..n \/ i = n + 1 \/ i = n + 2 \/ i = n + 3
      BY <1>2
    <3>2. CASE i \in 1..n
      <4>1. i \in 1..(n + 1) /\ i \in 1..(n + 2)
        BY <1>2, <3>2
      <4> QED
        BY <1>12, <2>3, <2>4, <2>5, <3>2, <4>1
    <3>3. CASE i = n + 1
      <4>1. i \in 1..(n + 1) /\ i \in 1..(n + 2)
        BY <1>2, <3>3
      <4> QED
        BY <1>12, <2>3, <2>4, <2>5, <3>3, <4>1
    <3>4. CASE i = n + 2
      <4>1. i \in 1..(n + 2)
        BY <1>2, <3>4
      <4> QED
        BY <1>12, <2>2, <2>4, <2>5, <3>4, <4>1
    <3>5. CASE i = n + 3
      BY <1>12, <2>2, <2>5, <3>5
    <3> QED
      BY <3>1, <3>2, <3>3, <3>4, <3>5
  <2>7. g = g3
    BY <1>12, <2>5, <2>6
  <2>8. /\ FlattenSeq(g1) = FlattenSeq(f) \o x
        /\ FlattenSeq(g2) = FlattenSeq(g1) \o z
        /\ FlattenSeq(g3) = FlattenSeq(g2) \o z
    BY <1>11, <1>12, <2>1, <2>3, <2>4, FlattenAppend, ZenonT(40) DEF g1, g2, g3
  <2>9. FlattenSeq(g1) \in Seq(Nat) /\ FlattenSeq(g2) \in Seq(Nat)
    BY <2>3, <2>4, FlattenType
  <2>10. FlattenSeq(g2) = FlattenSeq(g1) /\ FlattenSeq(g3) = FlattenSeq(g2)
    BY <2>2, <2>8, <2>9, ConcatEmptySeq
  <2> QED
    BY <2>7, <2>8, <2>10
<1>14. Complete(u)
  <2>1. ASSUME NEW i \in 1..(n + 3), u[i] = Percent PROVE i <= (n + 3) - 2
    BY <1>2, <1>5, <2>1
  <2> QED
    BY <1>2, <2>1 DEF Complete
<1> QED
  BY <1>13, <1>14, UnescapeIs DEF u, e, f, g, x

\* What is written with its percent signs escaped is read as it was.
LEMMA UnescapeEscapeBy ==
    ASSUME NEW s \in Seq(Octets), NEW set, Percent \in set
    PROVE  Unescape(EscapeBy(s, set)) = s /\ Complete(EscapeBy(s, set))
<1> DEFINE Good(r) == Unescape(EscapeBy(r, set)) = r /\ Complete(EscapeBy(r, set))
           P == {r \in Seq(Octets) : Good(r)}
<1>1. <<>> \in P
  <2> DEFINE z == <<>>
  <2>1. z \in Seq(Octets) /\ 1..Len(z) = {} /\ [i \in DOMAIN z |-> Image(z, i)] = z
    OBVIOUS
  <2> HIDE DEF z
  <2>2. EscapeBy(z, set) = z
    BY EscapeByConcat DEF z
  <2>3. Unescape(z) = z
    BY <2>1, UnescapeIs, FlattenFew DEF z
  <2>4. Complete(z)
    BY <2>1 DEF Complete
  <2> QED
    BY <2>1, <2>2, <2>3, <2>4 DEF z
<1>2. ASSUME NEW r \in Seq(Octets), NEW c \in Octets, r \in P PROVE Append(r, c) \in P
  <2> DEFINE w == EscapeBy(r, set)
             e == Escaped(c, set)
             v == w \o e
             q == Append(r, c)
  <2>1. w \in Seq(Nat) /\ Unescape(w) = r /\ Complete(w)
    <3>1. w \in Seq(Octets)
      BY EscapeByType
    <3> QED
      BY <1>2, <3>1, OctetsAre
  <2>2. q \in Seq(Octets) /\ q = r \o <<c>> /\ <<c>> \in Seq(Octets)
    OBVIOUS
  <2>3. EscapeBy(q, set) = v
    <3>1. EscapeBy(r \o <<c>>, set) = EscapeBy(r, set) \o EscapeBy(<<c>>, set)
      BY <2>2, EscapeByConcat
    <3>2. EscapeBy(<<c>>, set) = Escaped(c, set)
      BY EscapeByConcat
    <3> QED
      BY <2>2, <3>1, <3>2
  <2> HIDE DEF w, e, q
  <2>4. Unescape(v) = q /\ Complete(v)
    <3>1. CASE c \notin set
      <4>1. c \in Nat /\ c # Percent
        BY <3>1, OctetsAre
      <4>2. e = <<c>>
        BY <3>1, EscapedIs DEF e
      <4> QED
        BY <2>1, <2>2, <4>1, <4>2, UnescapePlain
    <3>2. CASE c \in set
      <4>1. PICK h \in HexDigits, k \in HexDigits :
               e = <<Percent, h, k>> /\ 16 * HexVal(h) + HexVal(k) = c
        BY <3>2, EscapedIs DEF e
      <4>2. /\ Unescape(w \o <<Percent, h, k>>) = Unescape(w) \o <<16 * HexVal(h) + HexVal(k)>>
            /\ Complete(w \o <<Percent, h, k>>)
        BY <2>1, UnescapeEscaped
      <4> QED
        BY <2>1, <2>2, <4>1, <4>2
    <3> QED
      BY <3>1, <3>2
  <2> HIDE DEF v
  <2> QED
    BY <2>2, <2>3, <2>4 DEF q
<1> HIDE DEF P
<1>3. Seq(Octets) \subseteq P
  BY <1>1, <1>2, SeqInduction
<1> QED
  BY <1>3 DEF P

\* The same with a plus for every blank.
LEMMA EscapeFormIs ==
    ASSUME NEW s \in Seq(Octets)
    PROVE  /\ EscapeForm(s) \in Seq(Nat) /\ UnescapeForm(EscapeForm(s)) = s
           /\ s # <<>> => EscapeForm(s) # <<>>
           /\ \A i \in 1..Len(EscapeForm(s)) :
                 EscapeForm(s)[i] \notin {Ampersand, Semicolon, Equals}
<1> DEFINE w == EscapeBy(s, UnescapedFormSet)
           e == [i \in 1..Len(w) |-> IF w[i] = Space THEN Plus ELSE w[i]]
           d == [i \in 1..Len(e) |-> IF e[i] = Plus THEN Space ELSE e[i]]
<1>1. /\ w \in Seq(Nat) /\ Unescape(w) = s
      /\ s # <<>> => w # <<>>
      /\ \A i \in 1..Len(w) : w[i] \notin {Plus, Ampersand, Semicolon, Equals}
  <2>1. Percent \in UnescapedFormSet
    BY DEF UnescapedFormSet, DelimsAndUnwise, Percent
  <2>2. {Percent} \cup HexDigits \cup (Octets \ UnescapedFormSet)
           \subseteq Nat \ {Plus, Ampersand, Semicolon, Equals}
    <3>1. Reserved \subseteq UnescapedFormSet /\ {Plus, Ampersand, Semicolon, Equals} \subseteq Reserved
      BY DEF UnescapedFormSet, Reserved, Plus, Ampersand, Semicolon, Equals
    <3>2. {Percent} \cup HexDigits \subseteq Nat \ {Plus, Ampersand, Semicolon, Equals}
      BY DEF HexDigits, Digits, Percent, Plus, Ampersand, Semicolon, Equals
    <3> QED
      BY <3>1, <3>2, OctetsAre
  <2>3. /\ w \in Seq(Octets)
        /\ s # <<>> => w # <<>>
        /\ \A i \in 1..Len(w) : w[i] \in {Percent} \cup HexDigits \cup (Octets \ UnescapedFormSet)
    BY EscapeByType, Zenon
  <2>4. Unescape(w) = s
    BY <2>1, UnescapeEscapeBy
  <2> HIDE DEF w
  <2>5. w \in Seq(Nat)
    BY <2>3, OctetsAre
  <2> QED
    BY <2>2, <2>3, <2>4, <2>5
<1>2. EscapeForm(s) = e /\ UnescapeForm(e) = Unescape(d)
  BY DEF EscapeForm, UnescapeForm, ReplaceAll
<1> HIDE DEF w
<1>3. e \in Seq(Nat) /\ Len(e) = Len(w)
  BY <1>1 DEF Plus
<1>4. \A i \in 1..Len(w) : e[i] = IF w[i] = Space THEN Plus ELSE w[i]
  OBVIOUS
<1> HIDE DEF e
<1>5. d = w
  <2>1. \A i \in 1..Len(w) : (IF e[i] = Plus THEN Space ELSE e[i]) = w[i]
    BY <1>1, <1>4
  <2>2. d = [i \in 1..Len(w) |-> w[i]]
    BY <1>3, <2>1
  <2>3. w = [i \in 1..Len(w) |-> w[i]]
    BY <1>1
  <2> QED
    BY <2>2, <2>3
<1>6. ASSUME NEW i \in 1..Len(e) PROVE e[i] \notin {Ampersand, Semicolon, Equals}
  <2>1. i \in 1..Len(w) /\ e[i] \in {Plus, w[i]}
    BY <1>3, <1>4
  <2>2. Plus \notin {Ampersand, Semicolon, Equals}
    BY DEF Plus, Ampersand, Semicolon, Equals
  <2> QED
    BY <1>1, <2>1, <2>2
<1>7. s # <<>> => e # <<>>
  <2>1. w # <<>> => Len(w) # 0
    BY <1>1
  <2> QED
    BY <1>1, <1>3, <2>1
<1> QED
  BY <1>1, <1>2, <1>3, <1>5, <1>6, <1>7

-----------------------------------------------------------------------------
(* Cutting.                                                                *)

\* What is before the sign c of p is a, what is after it is b.
IsCut(p, a, c, b) ==
    /\ p \in Seq(Nat) /\ Len(p) = Len(a) + 1 + Len(b)
    /\ \A i \in 1..Len(p) : p[i] = c \/ (\E j \in 1..Len(a) : p[i] = a[j])
                                     \/ (\E j \in 1..Len(b) : p[i] = b[j])
    /\ Before(p, Next(p, 1, {c})) = a
    /\ From(p, Next(p, 1, {c}) + 1) = b

\* A text cut at a sign.
LEMMA CutAtSign ==
    ASSUME NEW a \in Seq(Nat), NEW b \in Seq(Nat), NEW c \in Nat,
           \A i \in 1..Len(a) : a[i] # c, NEW p, p = (a \o <<c>>) \o b
    PROVE  IsCut(p, a, c, b)
<1> DEFINE d == a \o <<c>>
           n == Len(a)
           m == Len(b)
<1>1. /\ d \in Seq(Nat) /\ Len(d) = n + 1 /\ d[n + 1] = c /\ n \in Nat
      /\ \A i \in 1..n : d[i] = a[i]
  OBVIOUS
<1> HIDE DEF d
<1>2. /\ p \in Seq(Nat) /\ Len(p) = Len(d) + m /\ m \in Nat
      /\ \A i \in 1..Len(d) : p[i] = d[i]
      /\ \A i \in (Len(d) + 1)..(Len(d) + m) : p[i] = b[i - Len(d)]
  <2> DEFINE q == d \o b
  <2>1. d \in Seq(Nat)
    BY <1>1
  <2>2. p = q
    BY DEF d
  <2> HIDE DEF n
  <2>3. /\ q \in Seq(Nat) /\ Len(q) = Len(d) + m /\ m \in Nat
        /\ \A i \in 1..Len(d) : q[i] = d[i]
        /\ \A i \in (Len(d) + 1)..(Len(d) + m) : q[i] = b[i - Len(d)]
    <3> SUFFICES ASSUME NEW r \in Seq(Nat), d = r
                 PROVE  /\ q \in Seq(Nat) /\ Len(q) = Len(d) + m /\ m \in Nat
                        /\ \A i \in 1..Len(d) : q[i] = d[i]
                        /\ \A i \in (Len(d) + 1)..(Len(d) + m) : q[i] = b[i - Len(d)]
      BY <2>1
    <3> QED
      OBVIOUS
  <2> QED
    BY <2>2, <2>3
<1> HIDE DEF n, m
<1>3. /\ Len(p) = n + 1 + m /\ p[n + 1] = c
      /\ \A i \in 1..n : p[i] = a[i]
      /\ \A i \in (n + 2)..Len(p) : i - (n + 1) \in 1..m /\ p[i] = b[i - (n + 1)]
  <2>1. n + 1 \in 1..Len(d) /\ \A i \in 1..n : i \in 1..Len(d)
    BY <1>1
  <2>2. Len(p) = n + 1 + m
    BY <1>1, <1>2
  <2>3. \A i \in (n + 2)..Len(p) :
           /\ i - (n + 1) \in 1..m
           /\ i \in (Len(d) + 1)..(Len(d) + m) /\ i - Len(d) = i - (n + 1)
    BY <1>1, <1>2, <2>2
  <2> QED
    BY <1>1, <1>2, <2>1, <2>2, <2>3
<1>4. Next(p, 1, {c}) = n + 1
  <2>1. /\ n + 1 \in 1..(Len(p) + 1) /\ 1 \in Nat \ {0} /\ (n + 1) - 1 = n
    BY <1>1, <1>2, <1>3
  <2>2. \A j \in 1..((n + 1) - 1) : p[j] \notin {c}
    BY <1>3, <2>1 DEF n
  <2>3. p[n + 1] \in {c}
    BY <1>3
  <2> QED
    BY <1>2, <2>1, <2>2, <2>3, NextIs
<1>5. Before(p, n + 1) = a
  <2>1. /\ 1 \in 1..(Len(p) + 1) /\ n \in 0..Len(p) /\ (n + 1) - 1 = n
    BY <1>1, <1>2, <1>3
  <2>2. SubSeq(p, 1, n) = [k \in 1..((n - 1) + 1) |-> p[(1 + k) - 1]]
    BY <1>2, <2>1, PartIs
  <2>3. (n - 1) + 1 = n /\ \A k \in 1..n : (1 + k) - 1 = k
    BY <1>1
  <2>4. SubSeq(p, 1, n) = [k \in 1..n |-> a[k]]
    <3>1. \A k \in 1..n : p[(1 + k) - 1] = a[k]
      BY <1>3, <2>3
    <3> QED
      BY <2>2, <2>3, <3>1
  <2>5. a = [k \in 1..n |-> a[k]]
    BY DEF n
  <2> QED
    BY <2>1, <2>4, <2>5 DEF Before
<1>6. From(p, (n + 1) + 1) = b
  <2> DEFINE i == n + 2
             l == Len(p)
  <2>1. /\ i \in 1..(l + 1) /\ l \in 0..l /\ (l - i) + 1 = m /\ (n + 1) + 1 = i
    BY <1>1, <1>2, <1>3
  <2>2. SubSeq(p, i, l) = [k \in 1..((l - i) + 1) |-> p[(i + k) - 1]]
    BY <1>2, <2>1, PartIs
  <2>3. ASSUME NEW k \in 1..m PROVE p[(i + k) - 1] = b[k]
    <3>1. (i + k) - 1 \in (n + 2)..Len(p) /\ ((i + k) - 1) - (n + 1) = k
      BY <1>1, <1>2, <1>3
    <3> QED
      BY <1>3, <3>1
  <2> HIDE DEF i, l
  <2>4. SubSeq(p, i, l) = [k \in 1..m |-> b[k]]
    BY <2>1, <2>2, <2>3
  <2>5. b = [k \in 1..m |-> b[k]]
    BY DEF m
  <2> QED
    BY <2>1, <2>4, <2>5 DEF From, l
<1>7. ASSUME NEW i \in 1..Len(p)
      PROVE  p[i] = c \/ (\E j \in 1..Len(a) : p[i] = a[j]) \/ (\E j \in 1..Len(b) : p[i] = b[j])
  <2>1. i \in 1..n \/ i = n + 1 \/ i \in (n + 2)..Len(p)
    BY <1>1, <1>2, <1>3
  <2>2. CASE i \in 1..n
    BY <1>3, <2>2 DEF n
  <2>3. CASE i = n + 1
    BY <1>3, <2>3
  <2>4. CASE i \in (n + 2)..Len(p)
    BY <1>3, <2>4 DEF m
  <2> QED
    BY <2>1, <2>2, <2>3, <2>4
<1> QED
  BY <1>2, <1>3, <1>4, <1>5, <1>6, <1>7 DEF n, m, IsCut

\* A text without the sign.
LEMMA NoSign ==
    ASSUME NEW p \in Seq(Nat), NEW c \in Nat, \A i \in 1..Len(p) : p[i] # c
    PROVE  Before(p, Next(p, 1, {c})) = p /\ From(p, Next(p, 1, {c}) + 1) = <<>>
<1> DEFINE n == Len(p)
<1>1. /\ n \in Nat /\ n + 1 \in 1..(Len(p) + 1) /\ 1 \in Nat \ {0} /\ (n + 1) - 1 = n
      /\ ~(n + 1 <= Len(p))
  OBVIOUS
<1>2. Next(p, 1, {c}) = n + 1
  <2>1. \A j \in 1..((n + 1) - 1) : p[j] \notin {c}
    BY <1>1
  <2> HIDE DEF n
  <2> QED
    BY <1>1, <2>1, NextIs
<1>3. SubSeq(p, 1, n) = p
  OBVIOUS
<1>4. SubSeq(p, (n + 1) + 1, n) = <<>>
  OBVIOUS
<1> QED
  BY <1>1, <1>2, <1>3, <1>4 DEF Before, From

-----------------------------------------------------------------------------
(* Escapes and the parts of a text.                                        *)

\* The places of two texts put together.
LEMMA TwoParts ==
    ASSUME NEW a \in Seq(Nat), NEW b \in Seq(Nat)
    PROVE  /\ a \o b \in Seq(Nat) /\ Len(a \o b) = Len(a) + Len(b)
           /\ Len(a) \in Nat /\ Len(b) \in Nat
           /\ \A i \in 1..Len(a) : (a \o b)[i] = a[i]
           /\ \A i \in 1..Len(b) : (a \o b)[Len(a) + i] = b[i]
OBVIOUS

\* A text of which no escape goes on into the next is unescaped by itself.
LEMMA UnescapeConcat ==
    ASSUME NEW a \in Seq(Nat), NEW b \in Seq(Nat),
           \A i \in 1..Len(a) : EscapeAt(a \o b, i) => i + 2 <= Len(a)
    PROVE  /\ Unescape(a \o b) = Unescape(a) \o Unescape(b)
           /\ Unescape(a) \in Seq(Nat)
<1> DEFINE u == a \o b
           n == Len(a)
           m == Len(b)
           f == [i \in DOMAIN a |-> Image(a, i)]
           g == [i \in DOMAIN b |-> Image(b, i)]
           h == [i \in DOMAIN u |-> Image(u, i)]
<1>1. /\ u \in Seq(Nat) /\ Len(u) = n + m /\ n \in Nat /\ m \in Nat
      /\ Len(a) = n /\ Len(b) = m
      /\ \A i \in 1..n : u[i] = a[i]
      /\ \A i \in 1..m : u[n + i] = b[i]
  BY TwoParts
<1>2. DOMAIN a = 1..n /\ DOMAIN b = 1..m /\ DOMAIN u = 1..(n + m)
  BY <1>1
<1>3. \A i \in 1..n : EscapeAt(u, i) => i + 2 <= n
  OBVIOUS
<1> HIDE DEF u, n, m
<1>4. ASSUME NEW i \in Int, i <= n PROVE EscapeAt(u, i) <=> EscapeAt(a, i)
  <2>1. ASSUME EscapeAt(u, i) PROVE EscapeAt(a, i)
    <3>1. i \in 1..(Len(u) - 2)
      BY <2>1 DEF EscapeAt
    <3>2. i \in 1..n
      BY <1>1, <1>4, <3>1
    <3>3. i \in 1..(n - 2)
      BY <1>1, <1>3, <2>1, <3>2
    <3>4. i + 1 \in 1..n /\ i + 2 \in 1..n /\ i \in 1..(Len(a) - 2)
      BY <1>1, <3>3
    <3>5. u[i] = a[i] /\ u[i + 1] = a[i + 1] /\ u[i + 2] = a[i + 2]
      BY <1>1, <3>2, <3>4
    <3> QED
      BY <2>1, <3>4, <3>5, Zenon DEF EscapeAt
  <2>2. ASSUME EscapeAt(a, i) PROVE EscapeAt(u, i)
    <3>1. i \in 1..(n - 2)
      BY <1>1, <2>2 DEF EscapeAt
    <3>2. i \in 1..n /\ i + 1 \in 1..n /\ i + 2 \in 1..n /\ i \in 1..(Len(u) - 2)
      BY <1>1, <3>1
    <3>3. u[i] = a[i] /\ u[i + 1] = a[i + 1] /\ u[i + 2] = a[i + 2]
      BY <1>1, <3>2
    <3> QED
      BY <2>2, <3>2, <3>3, Zenon DEF EscapeAt
  <2> QED
    BY <2>1, <2>2
<1>5. ASSUME NEW j \in Int, j >= 1 PROVE EscapeAt(u, n + j) <=> EscapeAt(b, j)
  <2>1. n + j \in 1..(Len(u) - 2) <=> j \in 1..(Len(b) - 2)
    BY <1>1, <1>5
  <2>2. ASSUME j \in 1..(Len(b) - 2)
        PROVE  u[n + j] = b[j] /\ u[(n + j) + 1] = b[j + 1] /\ u[(n + j) + 2] = b[j + 2]
    <3>1. /\ j \in 1..m /\ j + 1 \in 1..m /\ j + 2 \in 1..m
          /\ (n + j) + 1 = n + (j + 1) /\ (n + j) + 2 = n + (j + 2)
      BY <1>1, <2>2
    <3> QED
      BY <1>1, <3>1
  <2> QED
    BY <2>1, <2>2, Zenon DEF EscapeAt
<1>6. ASSUME NEW i \in 1..n PROVE h[i] = f[i]
  <2>1. /\ i \in Int /\ i <= n /\ i - 1 \in Int /\ i - 1 <= n /\ i - 2 \in Int /\ i - 2 <= n
        /\ i \in 1..(n + m)
    BY <1>1
  <2>2. /\ EscapeAt(u, i) <=> EscapeAt(a, i)
        /\ EscapeAt(u, i - 1) <=> EscapeAt(a, i - 1)
        /\ EscapeAt(u, i - 2) <=> EscapeAt(a, i - 2)
    BY <1>4, <2>1
  <2>3. EscapeAt(a, i) => u[i + 1] = a[i + 1] /\ u[i + 2] = a[i + 2]
    <3> SUFFICES ASSUME EscapeAt(a, i) PROVE u[i + 1] = a[i + 1] /\ u[i + 2] = a[i + 2]
      OBVIOUS
    <3>1. i \in 1..(n - 2)
      BY <1>1 DEF EscapeAt
    <3>2. i + 1 \in 1..n /\ i + 2 \in 1..n
      BY <1>1, <3>1
    <3> QED
      BY <1>1, <3>2
  <2>4. u[i] = a[i]
    BY <1>1
  <2>5. Image(u, i) = Image(a, i)
    BY <2>2, <2>3, <2>4, Zenon DEF Image
  <2> QED
    BY <1>2, <2>1, <2>5
<1>7. ASSUME NEW j \in 1..m PROVE h[n + j] = g[j]
  <2>1. /\ n + j \in 1..(n + m) /\ j \in Int /\ j >= 1
        /\ (n + j) - 1 = n + (j - 1) /\ (n + j) - 2 = n + (j - 2)
        /\ (n + j) + 1 = n + (j + 1) /\ (n + j) + 2 = n + (j + 2)
    BY <1>1
  <2>2. ASSUME NEW k \in Int, k >= -1 PROVE EscapeAt(u, n + k) <=> EscapeAt(b, k)
    <3>1. CASE k >= 1
      BY <1>5, <3>1
    <3>2. CASE k \in {-1, 0}
      <4>1. ~EscapeAt(b, k)
        BY <1>1, <3>2 DEF EscapeAt
      <4>2. ~EscapeAt(u, n + k)
        <5>1. EscapeAt(u, n + k) => n + k \in 1..(Len(u) - 2)
          BY DEF EscapeAt
        <5>2. n + k \in 1..(Len(u) - 2) => n + k \in 1..n /\ ~((n + k) + 2 <= n)
          BY <1>1, <3>2
        <5> QED
          BY <1>3, <5>1, <5>2
      <4> QED
        BY <4>1, <4>2
    <3> QED
      BY <2>2, <3>1, <3>2
  <2>3. /\ EscapeAt(u, n + j) <=> EscapeAt(b, j)
        /\ EscapeAt(u, (n + j) - 1) <=> EscapeAt(b, j - 1)
        /\ EscapeAt(u, (n + j) - 2) <=> EscapeAt(b, j - 2)
    <3>1. j - 1 \in Int /\ j - 1 >= -1 /\ j - 2 \in Int /\ j - 2 >= -1 /\ j >= -1
      BY <2>1
    <3> QED
      BY <2>1, <2>2, <3>1
  <2>4. EscapeAt(b, j) => u[(n + j) + 1] = b[j + 1] /\ u[(n + j) + 2] = b[j + 2]
    <3> SUFFICES ASSUME EscapeAt(b, j)
                 PROVE  u[(n + j) + 1] = b[j + 1] /\ u[(n + j) + 2] = b[j + 2]
      OBVIOUS
    <3>1. j \in 1..(m - 2)
      BY <1>1 DEF EscapeAt
    <3>2. j + 1 \in 1..m /\ j + 2 \in 1..m
      BY <1>1, <3>1
    <3> QED
      BY <1>1, <2>1, <3>2
  <2>5. u[n + j] = b[j]
    BY <1>1
  <2>6. Image(u, n + j) = Image(b, j)
    BY <2>3, <2>4, <2>5, Zenon DEF Image
  <2> QED
    BY <1>2, <2>1, <2>6
<1>8. f \in Seq(Seq(Nat)) /\ Len(f) = n /\ g \in Seq(Seq(Nat)) /\ Len(g) = m
  <2>1. \A i \in 1..n : Image(a, i) \in Seq(Nat)
    BY ImageType DEF n
  <2>2. \A i \in 1..m : Image(b, i) \in Seq(Nat)
    BY ImageType DEF m
  <2> QED
    BY <1>1, <1>2, <2>1, <2>2
<1>9. h = f \o g
  <2>1. DOMAIN h = 1..(n + m) /\ h = [i \in DOMAIN h |-> h[i]]
    BY <1>2
  <2> HIDE DEF f, g, h
  <2>2. f \o g = [i \in 1..(n + m) |-> IF i <= n THEN f[i] ELSE g[i - n]]
    <3> HIDE DEF n, m
    <3>1. f \o g = [i \in 1..(Len(f) + Len(g)) |->
                        IF i <= Len(f) THEN f[i] ELSE g[i - Len(f)]]
      BY <1>8, ConcatIs
    <3> QED
      BY <1>8, <3>1
  <2>3. ASSUME NEW i \in 1..(n + m) PROVE h[i] = IF i <= n THEN f[i] ELSE g[i - n]
    <3>1. CASE i <= n
      BY <1>1, <1>6, <3>1
    <3>2. CASE ~(i <= n)
      <4>1. i - n \in 1..m /\ n + (i - n) = i
        BY <1>1, <3>2
      <4> QED
        BY <1>7, <3>2, <4>1
    <3> QED
      BY <3>1, <3>2
  <2> QED
    BY <2>1, <2>2, <2>3
<1> HIDE DEF f, g, h
<1>10. FlattenSeq(f \o g) = FlattenSeq(f) \o FlattenSeq(g) /\ FlattenSeq(f) \in Seq(Nat)
  BY <1>8, FlattenConcat, FlattenType
<1> QED
  BY <1>9, <1>10, UnescapeIs DEF u, f, g, h
=============================================================================
