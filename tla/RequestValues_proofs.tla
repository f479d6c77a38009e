------------------------ MODULE RequestValues_proofs ------------------------
(***************************************************************************)
(* The readers of a request's values, one by one and as RequestValues      *)
(* composes them: globMatch finds a cutting of every name that has one, a  *)
(* form arrives as it was sent and the query made of it at first stays,    *)
(* paths are normalised, the elements of a list arrive, byte ranges select *)
(* what they ask for, preferences come in their order and the two forms of *)
(* a target agree, in every run.                                           *)
(***************************************************************************)
EXTENDS RequestValues, NormalizePath_proofs, RequestURI_proofs

-----------------------------------------------------------------------------
(* Patterns: the places of a name that the first p characters of a pattern *)
(* may take.                                                               *)

\* One character of a pattern takes a name from place i to place j.
Takes(pattern, s, p, i, j) ==
    \/ pattern[p] = Star /\ i <= j
    \/ j = i + 1 /\ pattern[p] \in {Question, s[j]}

\* r gives the places, from no character of the pattern to all of them.
Reaches(r, pattern, s) ==
    r = [p \in 0..Len(pattern) |->
            IF p = 0 THEN {0}
            ELSE {n \in 0..Len(s) :
                    \/ pattern[p] = Star /\ \E k \in r[p - 1] : k <= n
                    \/ n - 1 \in r[p - 1] /\ pattern[p] \in {Question, s[n]}}]

\* What the recursion says, place by place.
LEMMA ReachesValues ==
    ASSUME NEW pattern \in Seq(Nat), NEW s \in Seq(Nat), NEW r, Reaches(r, pattern, s)
    PROVE  /\ r[0] = {0}
           /\ \A p \in 1..Len(pattern) : \A n :
                 n \in r[p] <=> /\ n \in 0..Len(s)
                                /\ \/ pattern[p] = Star /\ \E k \in r[p - 1] : k <= n
                                   \/ n - 1 \in r[p - 1] /\ pattern[p] \in {Question, s[n]}
<1> DEFINE Value(p) == IF p = 0 THEN {0}
                       ELSE {n \in 0..Len(s) :
                               \/ pattern[p] = Star /\ \E k \in r[p - 1] : k <= n
                               \/ n - 1 \in r[p - 1] /\ pattern[p] \in {Question, s[n]}}
<1>1. r = [p \in 0..Len(pattern) |-> Value(p)]
  BY Zenon DEF Reaches
<1>2. \A p \in 0..Len(pattern) : r[p] = Value(p)
  <2> HIDE DEF Image
  <2> QED
    BY <1>1
<1>3. 0 \in 0..Len(pattern) /\ \A p \in 1..Len(pattern) : p \in 0..Len(pattern) /\ p # 0
  OBVIOUS
<1>4. r[0] = {0}
  BY <1>2, <1>3
<1>5. \A p \in 1..Len(pattern) :
         r[p] = {n \in 0..Len(s) :
                    \/ pattern[p] = Star /\ \E k \in r[p - 1] : k <= n
                    \/ n - 1 \in r[p - 1] /\ pattern[p] \in {Question, s[n]}}
  BY <1>2, <1>3
<1> QED
  BY <1>4, <1>5, Zenon

\* A recursion on the places 0..N whose step is a function on one set of
\* values has a solution.
Solves(f, V, start, step, N) ==
    /\ f \in [0..N -> V] /\ f[0] = start
    /\ \A n \in 1..N : f[n] = step[n][f[n - 1]]

LEMMA Recursion ==
    ASSUME NEW V, NEW start \in V, NEW step \in [Nat -> [V -> V]], NEW N \in Nat
    PROVE  \E f : Solves(f, V, start, step, N)
<1> DEFINE P == {m \in Nat : \E f : Solves(f, V, start, step, m)}
<1>1. 0 \in P
  <2>1. Solves([n \in 0..0 |-> start], V, start, step, 0)
    BY DEF Solves
  <2> QED
    BY <2>1
<1>2. ASSUME NEW m \in Nat, m \in P PROVE m + 1 \in P
  <2>1. PICK f : Solves(f, V, start, step, m)
    BY <1>2
  <2> DEFINE g == [n \in 0..(m + 1) |-> IF n = m + 1 THEN step[m + 1][f[m]] ELSE f[n]]
  <2>2. step[m + 1][f[m]] \in V
    <3>1. f[m] \in V /\ step[m + 1] \in [V -> V]
      BY <2>1 DEF Solves
    <3> QED
      BY <3>1
  <2>3. g \in [0..(m + 1) -> V] /\ g[0] = start
    BY <2>1, <2>2 DEF Solves
  <2>4. \A n \in 1..(m + 1) : g[n] = step[n][g[n - 1]]
    <3> TAKE n \in 1..(m + 1)
    <3>1. CASE n = m + 1
      BY <3>1
    <3>2. CASE n # m + 1
      <4>1. n \in 1..m /\ n \in 0..(m + 1) /\ n - 1 \in 0..(m + 1) /\ n - 1 # m + 1
        BY <3>2
      <4> QED
        BY <2>1, <3>2, <4>1 DEF Solves
    <3> QED
      BY <3>1, <3>2
  <2> HIDE DEF g
  <2>5. Solves(g, V, start, step, m + 1)
    BY <2>3, <2>4 DEF Solves
  <2> QED
    BY <2>5
<1> HIDE DEF P
<1>3. Nat \subseteq P
  BY <1>1, <1>2, Induction
<1> QED
  BY <1>3 DEF P

\* The recursion has a solution.
LEMMA ReachesExists ==
    ASSUME NEW pattern \in Seq(Nat), NEW s \in Seq(Nat)
    PROVE  \E r : Reaches(r, pattern, s)
<1> DEFINE V == SUBSET (0..Len(s))
           Step(p, X) == {n \in 0..Len(s) :
                            \/ pattern[p] = Star /\ \E k \in X : k <= n
                            \/ n - 1 \in X /\ pattern[p] \in {Question, s[n]}}
           step == [p \in Nat |-> [X \in V |-> Step(p, X)]]
<1>1. /\ {0} \in V /\ Len(pattern) \in Nat /\ step \in [Nat -> [V -> V]]
      /\ \A p \in Nat : \A X \in V : step[p][X] = Step(p, X)
  <2>1. {0} \in V /\ Len(pattern) \in Nat
    OBVIOUS
  <2>2. \A p, X : Step(p, X) \in V
    OBVIOUS
  <2> HIDE DEF V, Step
  <2> QED
    BY <2>1, <2>2
<1>2. \E f : Solves(f, V, {0}, step, Len(pattern))
  <2> HIDE DEF V, Step, step
  <2> QED
    BY <1>1, Recursion
<1>3. PICK f : /\ f \in [0..Len(pattern) -> V] /\ f[0] = {0}
               /\ \A p \in 1..Len(pattern) : f[p] = step[p][f[p - 1]]
  BY <1>2 DEF Solves
<1>4. \A p \in 0..Len(pattern) : f[p] = IF p = 0 THEN {0} ELSE Step(p, f[p - 1])
  <2> HIDE DEF V, step, Step
  <2> TAKE p \in 0..Len(pattern)
  <2>1. CASE p = 0
    BY <1>3, <2>1
  <2>2. CASE p # 0
    <3>1. p \in 1..Len(pattern) /\ p \in Nat /\ p - 1 \in 0..Len(pattern)
      BY <2>2
    <3>2. f[p - 1] \in V
      BY <1>3, <3>1
    <3> QED
      BY <1>1, <1>3, <2>2, <3>1, <3>2
  <2> QED
    BY <2>1, <2>2
<1>5. f = [p \in 0..Len(pattern) |-> IF p = 0 THEN {0} ELSE Step(p, f[p - 1])]
  <2> HIDE DEF V, Step
  <2> QED
    BY <1>3, <1>4
<1> QED
  BY <1>5, Zenon DEF Reaches

\* Covers goes by a solution of the recursion.
LEMMA CoversBy ==
    ASSUME NEW pattern \in Seq(Nat), NEW s \in Seq(Nat)
    PROVE  \E r : /\ Reaches(r, pattern, s)
                  /\ Covers(pattern, s) <=> Len(s) \in r[Len(pattern)]
<1> DEFINE c == CHOOSE r : Reaches(r, pattern, s)
<1>1. Reaches(c, pattern, s)
  BY ReachesExists
<1>2. Covers(pattern, s) <=> Len(s) \in c[Len(pattern)]
  BY Zenon DEF Covers, Reaches
<1> QED
  BY <1>1, <1>2

\* A cutting of a name: where each character of the pattern ends.
IsCutting(c, pattern, s, p, n) ==
    /\ c \in [0..p -> 0..Len(s)] /\ c[0] = 0 /\ c[p] = n
    /\ \A q \in 1..p : Takes(pattern, s, q, c[q - 1], c[q])

\* A place that is reached is reached by a cutting.
LEMMA CuttingExists ==
    ASSUME NEW pattern \in Seq(Nat), NEW s \in Seq(Nat), NEW r, Reaches(r, pattern, s),
           NEW n, n \in r[Len(pattern)]
    PROVE  \E c : IsCutting(c, pattern, s, Len(pattern), n)
<1> DEFINE P == {p \in Nat : p <= Len(pattern) =>
                    \A m \in r[p] : \E c : IsCutting(c, pattern, s, p, m)}
<1>1. 0 \in P
  <2>1. r[0] = {0}
    BY ReachesValues
  <2>2. IsCutting([q \in 0..0 |-> 0], pattern, s, 0, 0)
    BY DEF IsCutting
  <2> QED
    BY <2>1, <2>2
<1>2. ASSUME NEW p \in Nat, p \in P PROVE p + 1 \in P
  <2> SUFFICES ASSUME p + 1 <= Len(pattern), NEW m \in r[p + 1]
               PROVE  \E c : IsCutting(c, pattern, s, p + 1, m)
    OBVIOUS
  <2>1. p + 1 \in 1..Len(pattern) /\ (p + 1) - 1 = p /\ p <= Len(pattern)
    OBVIOUS
  <2>2. /\ m \in 0..Len(s)
        /\ \/ pattern[p + 1] = Star /\ \E k \in r[p] : k <= m
           \/ m - 1 \in r[p] /\ pattern[p + 1] \in {Question, s[m]}
    BY <2>1, ReachesValues
  <2>3. PICK k \in r[p] : Takes(pattern, s, p + 1, k, m)
    <3>1. (m - 1) + 1 = m
      BY <2>2
    <3> QED
      BY <2>2, <3>1 DEF Takes
  <2>4. PICK c : IsCutting(c, pattern, s, p, k)
    BY <1>2, <2>1
  <2> DEFINE d == [q \in 0..(p + 1) |-> IF q = p + 1 THEN m ELSE c[q]]
  <2>5. /\ d \in [0..(p + 1) -> 0..Len(s)] /\ d[0] = 0 /\ d[p + 1] = m /\ d[p] = k
        /\ \A q \in 0..p : d[q] = c[q]
    BY <2>2, <2>4 DEF IsCutting
  <2>6. \A q \in 1..(p + 1) : Takes(pattern, s, q, d[q - 1], d[q])
    <3> TAKE q \in 1..(p + 1)
    <3>1. CASE q = p + 1
      BY <2>1, <2>3, <2>5, <3>1
    <3>2. CASE q # p + 1
      <4>1. q \in 1..p /\ q \in 0..p /\ q - 1 \in 0..p
        BY <3>2
      <4> HIDE DEF d
      <4> QED
        BY <2>4, <2>5, <4>1 DEF IsCutting
    <3> QED
      BY <3>1, <3>2
  <2> HIDE DEF d
  <2>7. IsCutting(d, pattern, s, p + 1, m)
    BY <2>5, <2>6 DEF IsCutting
  <2> QED
    BY <2>7
<1> HIDE DEF P
<1>3. Nat \subseteq P
  BY <1>1, <1>2, Induction
<1>4. Len(pattern) \in P
  BY <1>3
<1> QED
  BY <1>4 DEF P

\* A cutting goes forward.
LEMMA CuttingGoesOn ==
    ASSUME NEW pattern \in Seq(Nat), NEW s \in Seq(Nat), NEW c, NEW n,
           IsCutting(c, pattern, s, Len(pattern), n),
           NEW i \in 0..Len(pattern), NEW j \in i..Len(pattern)
    PROVE  c[i] <= c[j]
<1> DEFINE P == {k \in Nat : i + k <= Len(pattern) => c[i] <= c[i + k]}
<1>1. 0 \in P
  <2>1. i + 0 = i /\ c[i] \in Nat
    BY DEF IsCutting
  <2> QED
    BY <2>1
<1>2. ASSUME NEW k \in Nat, k \in P PROVE k + 1 \in P
  <2> SUFFICES ASSUME i + (k + 1) <= Len(pattern) PROVE c[i] <= c[i + (k + 1)]
    OBVIOUS
  <2> DEFINE q == i + (k + 1)
  <2>1. /\ q \in 1..Len(pattern) /\ q - 1 = i + k /\ i + k <= Len(pattern)
        /\ q \in 0..Len(pattern) /\ q - 1 \in 0..Len(pattern)
    OBVIOUS
  <2> HIDE DEF q
  <2>2. c[i] \in Nat /\ c[q] \in Nat /\ c[q - 1] \in Nat
    <3>1. \A k1 \in 0..Len(pattern) : c[k1] \in 0..Len(s)
      BY DEF IsCutting
    <3>2. 0..Len(s) \subseteq Nat
      OBVIOUS
    <3> QED
      BY <2>1, <3>1, <3>2
  <2>3. c[q - 1] <= c[q]
    <3>1. Takes(pattern, s, q, c[q - 1], c[q])
      BY <2>1 DEF IsCutting
    <3> QED
      BY <2>2, <3>1 DEF Takes
  <2>4. c[i] <= c[q - 1]
    BY <1>2, <2>1
  <2> QED
    BY <2>2, <2>3, <2>4 DEF q
<1> HIDE DEF P
<1>3. Nat \subseteq P
  BY <1>1, <1>2, Induction
<1>4. j - i \in P /\ i + (j - i) = j
  BY <1>3
<1> QED
  BY <1>4 DEF P

-----------------------------------------------------------------------------
(* Patterns: the rounds of globMatch.                                      *)

Cursors == [pi : Nat, si : Nat, star : Nat \cup {-1}, match : Nat, failed : BOOLEAN]
Unmoved == [pi |-> 0, si |-> 0, star |-> -1, match |-> 0, failed |-> FALSE]

Over(m, s) == m.failed \/ m.si = Len(s)
Fits(m, pattern, s) == m.pi < Len(pattern) /\ pattern[m.pi + 1] \in {Question, s[m.si + 1]}
AtStar(m, pattern) == m.pi < Len(pattern) /\ pattern[m.pi + 1] = Star

\* A round moves the cursors in one of four ways.
Advances(m, r) ==
    /\ r.pi = m.pi + 1 /\ r.si = m.si + 1
    /\ r.star = m.star /\ r.match = m.match /\ r.failed = m.failed
Notes(m, r) ==
    /\ r.pi = m.pi + 1 /\ r.si = m.si
    /\ r.star = m.pi /\ r.match = m.si /\ r.failed = m.failed
Resumes(m, r) ==
    /\ r.pi = m.star + 1 /\ r.si = m.match + 1
    /\ r.star = m.star /\ r.match = m.match + 1 /\ r.failed = m.failed
Fails(m, r) ==
    /\ r.pi = m.pi /\ r.si = m.si
    /\ r.star = m.star /\ r.match = m.match /\ r.failed

LEMMA RoundIs ==
    ASSUME NEW pattern, NEW s, NEW m \in Cursors
    PROVE  LET r == Round(pattern, s, m)
           IN  /\ r \in Cursors
               /\ \/ Fits(m, pattern, s) /\ Advances(m, r)
                  \/ ~Fits(m, pattern, s) /\ AtStar(m, pattern) /\ Notes(m, r)
                  \/ ~Fits(m, pattern, s) /\ ~AtStar(m, pattern) /\ m.star # -1 /\ Resumes(m, r)
                  \/ ~Fits(m, pattern, s) /\ ~AtStar(m, pattern) /\ m.star = -1 /\ Fails(m, r)
<1> DEFINE fits == Fits(m, pattern, s)
           atStar == AtStar(m, pattern)
<1>1. Round(pattern, s, m) =
         CASE fits -> [m EXCEPT !.pi = @ + 1, !.si = @ + 1]
           [] ~fits /\ atStar -> [m EXCEPT !.star = m.pi, !.match = m.si, !.pi = @ + 1]
           [] ~fits /\ ~atStar /\ m.star # -1 -> Resumed(m)
           [] OTHER -> [m EXCEPT !.failed = TRUE]
  BY Zenon DEF Round, Fits, AtStar
<1> HIDE DEF fits, atStar
<1>2. CASE fits
  <2> DEFINE x == m.pi + 1
           y == m.si + 1
           r == [m EXCEPT !.pi = x, !.si = y]
  <2>1. x \in Nat /\ y \in Nat
    BY <1>2 DEF Cursors
  <2>2. Round(pattern, s, m) = r
    BY <1>1, <1>2
  <2>3. x = m.pi + 1 /\ y = m.si + 1
    OBVIOUS
  <2> HIDE DEF x, y
  <2>4. /\ r \in Cursors /\ r.pi = x /\ r.si = y
        /\ r.star = m.star /\ r.match = m.match /\ r.failed = m.failed
    BY <2>1 DEF Cursors
  <2> HIDE DEF r
  <2>5. Advances(m, r)
    BY <2>3, <2>4, Zenon DEF Advances
  <2> QED
    BY <1>2, <2>2, <2>4, <2>5, Zenon DEF fits
<1>3. CASE ~fits /\ atStar
  <2> DEFINE x == m.pi
           y == m.si
           z == m.pi + 1
           r == [m EXCEPT !.star = x, !.match = y, !.pi = z]
  <2>1. x \in Nat /\ y \in Nat /\ z \in Nat
    BY <1>3 DEF Cursors
  <2>2. Round(pattern, s, m) = r
    BY <1>1, <1>3
  <2>3. x = m.pi /\ y = m.si /\ z = m.pi + 1
    OBVIOUS
  <2> HIDE DEF x, y, z
  <2>4. /\ r \in Cursors /\ r.star = x /\ r.match = y /\ r.pi = z
        /\ r.si = m.si /\ r.failed = m.failed
    BY <2>1 DEF Cursors
  <2> HIDE DEF r
  <2>5. Notes(m, r)
    BY <2>3, <2>4, Zenon DEF Notes
  <2> QED
    BY <1>3, <2>2, <2>4, <2>5, Zenon DEF fits, atStar
<1>4. CASE ~fits /\ ~atStar /\ m.star # -1
  <2> DEFINE x == m.star + 1
           y == m.match + 1
           z == m.match + 1
           r == [m EXCEPT !.pi = x, !.si = y, !.match = z]
  <2>1. x \in Nat /\ y \in Nat /\ z \in Nat
    BY <1>4 DEF Cursors
  <2>2. Round(pattern, s, m) = r
    BY <1>1, <1>4 DEF Resumed
  <2>3. x = m.star + 1 /\ y = m.match + 1 /\ z = m.match + 1
    OBVIOUS
  <2> HIDE DEF x, y, z
  <2>4. /\ r \in Cursors /\ r.pi = x /\ r.si = y /\ r.match = z
        /\ r.star = m.star /\ r.failed = m.failed
    BY <2>1 DEF Cursors
  <2> HIDE DEF r
  <2>5. Resumes(m, r)
    BY <2>3, <2>4, Zenon DEF Resumes
  <2> QED
    BY <1>4, <2>2, <2>4, <2>5, Zenon DEF fits, atStar
<1>5. CASE ~fits /\ ~atStar /\ m.star = -1
  <2>1. LET r == [m EXCEPT !.failed = TRUE]
        IN  /\ r \in Cursors /\ r.failed
            /\ r.pi = m.pi /\ r.si = m.si /\ r.star = m.star /\ r.match = m.match
    BY DEF Cursors
  <2>2. Round(pattern, s, m) = [m EXCEPT !.failed = TRUE]
    BY <1>1, <1>5
  <2>3. Round(pattern, s, m) \in Cursors /\ Fails(m, Round(pattern, s, m))
    BY <2>1, <2>2, Zenon DEF Fails
  <2> QED
    BY <1>5, <2>3, Zenon DEF fits, atStar
<1> QED
  BY <1>2, <1>3, <1>4, <1>5

\* at gives the cursors after each round of the loop.
Runs(at, pattern, s) ==
    at = [n \in 0..Rounds(pattern, s) |->
            IF n = 0 THEN [pi |-> 0, si |-> 0, star |-> -1, match |-> 0, failed |-> FALSE]
            ELSE LET m == at[n - 1]
                 IN IF m.failed \/ m.si = Len(s) THEN m ELSE Round(pattern, s, m)]

LEMMA RoundsNat ==
    ASSUME NEW pattern \in Seq(Nat), NEW s \in Seq(Nat)
    PROVE  Rounds(pattern, s) \in Nat
<1>1. \A a, b \in Nat : a * b \in Nat
  OBVIOUS
<1>2. Len(s) + 1 \in Nat /\ Len(s) + Len(pattern) + 1 \in Nat
  OBVIOUS
<1> QED
  BY <1>1, <1>2, Zenon DEF Rounds

\* What the recursion says, round by round.
LEMMA RunsValues ==
    ASSUME NEW pattern \in Seq(Nat), NEW s \in Seq(Nat), NEW at, Runs(at, pattern, s)
    PROVE  /\ at[0] = Unmoved
           /\ \A n \in 1..Rounds(pattern, s) :
                 at[n] = IF Over(at[n - 1], s) THEN at[n - 1] ELSE Round(pattern, s, at[n - 1])
<1> DEFINE Value(n) == IF n = 0 THEN Unmoved
                       ELSE IF Over(at[n - 1], s) THEN at[n - 1]
                            ELSE Round(pattern, s, at[n - 1])
           R == Rounds(pattern, s)
<1>1. at = [n \in 0..R |-> Value(n)]
  BY Zenon DEF Runs, Unmoved, Over
<1>2. R \in Nat
  BY RoundsNat
<1>3. \A n \in 0..R : at[n] = Value(n)
  <2> HIDE DEF Image, R
  <2> QED
    BY <1>1
<1> HIDE DEF R
<1>4. 0 \in 0..R /\ \A n \in 1..R : n \in 0..R /\ n # 0
  BY <1>2
<1> QED
  BY <1>3, <1>4, Zenon DEF R

\* The recursion has a solution.
LEMMA RunExists ==
    ASSUME NEW pattern \in Seq(Nat), NEW s \in Seq(Nat)
    PROVE  \E at : Runs(at, pattern, s)
<1> DEFINE Step(m) == IF Over(m, s) THEN m ELSE Round(pattern, s, m)
           step == [n \in Nat |-> [m \in Cursors |-> Step(m)]]
           R == Rounds(pattern, s)
<1>1. /\ Unmoved \in Cursors /\ R \in Nat /\ step \in [Nat -> [Cursors -> Cursors]]
      /\ \A n \in Nat : \A m \in Cursors : step[n][m] = Step(m)
  <2>1. Unmoved \in Cursors /\ R \in Nat
    BY RoundsNat DEF Unmoved, Cursors
  <2>2. \A m \in Cursors : Step(m) \in Cursors
    BY RoundIs, Zenon
  <2> HIDE DEF Step
  <2> QED
    BY <2>1, <2>2
<1>2. \E f : Solves(f, Cursors, Unmoved, step, R)
  <2> HIDE DEF Step, step, R
  <2> QED
    BY <1>1, Recursion
<1>3. PICK f : /\ f \in [0..R -> Cursors] /\ f[0] = Unmoved
               /\ \A n \in 1..R : f[n] = step[n][f[n - 1]]
  BY <1>2 DEF Solves
<1>4. \A n \in 0..R : f[n] = IF n = 0 THEN Unmoved ELSE Step(f[n - 1])
  <2> HIDE DEF Step, step, R
  <2> TAKE n \in 0..R
  <2>1. CASE n = 0
    BY <1>3, <2>1
  <2>2. CASE n # 0
    <3>1. n \in 1..R /\ n \in Nat /\ n - 1 \in 0..R
      BY <1>1, <2>2
    <3>2. f[n - 1] \in Cursors
      BY <1>3, <3>1
    <3> QED
      BY <1>1, <1>3, <2>2, <3>1, <3>2
  <2> QED
    BY <2>1, <2>2
<1>5. f = [n \in 0..R |-> IF n = 0 THEN Unmoved ELSE Step(f[n - 1])]
  <2> HIDE DEF Step, R
  <2> QED
    BY <1>3, <1>4
<1> QED
  BY <1>5, Zenon DEF Runs, Unmoved, Over

\* globMatch goes by a solution of the recursion.
LEMMA GlobBy ==
    ASSUME NEW pattern \in Seq(Nat), NEW s \in Seq(Nat)
    PROVE  \E at : /\ Runs(at, pattern, s)
                   /\ GlobMatch(pattern, s) <=>
                         LET end == at[Rounds(pattern, s)]
                         IN  /\ ~end.failed /\ end.si = Len(s)
                             /\ \A i \in (end.pi + 1)..Len(pattern) : pattern[i] = Star
<1> DEFINE c == CHOOSE at : Runs(at, pattern, s)
<1>1. Runs(c, pattern, s)
  BY RunExists
<1>2. GlobMatch(pattern, s) <=>
         LET end == c[Rounds(pattern, s)]
         IN  /\ ~end.failed /\ end.si = Len(s)
             /\ \A i \in (end.pi + 1)..Len(pattern) : pattern[i] = Star
  BY Zenon DEF GlobMatch, Runs
<1> QED
  BY <1>1, <1>2

-----------------------------------------------------------------------------
(* Patterns: what the rounds keep.                                         *)

\* What each round keeps holds of every cursor of the run.
LEMMA RunKeeps ==
    ASSUME NEW pattern \in Seq(Nat), NEW s \in Seq(Nat), NEW at, Runs(at, pattern, s),
           NEW I, Unmoved \in I,
           \A m \in I : ~Over(m, s) => Round(pattern, s, m) \in I
    PROVE  \A n \in 0..Rounds(pattern, s) : at[n] \in I
<1> DEFINE R == Rounds(pattern, s)
           N == {n \in Nat : n <= R => at[n] \in I}
<1>1. R \in Nat
  BY RoundsNat
<1>2. /\ at[0] = Unmoved
      /\ \A n \in 1..R :
            at[n] = IF Over(at[n - 1], s) THEN at[n - 1] ELSE Round(pattern, s, at[n - 1])
  BY RunsValues
<1> HIDE DEF R
<1>3. 0 \in N
  BY <1>2
<1>4. ASSUME NEW n \in Nat, n \in N PROVE n + 1 \in N
  <2> SUFFICES ASSUME n + 1 <= R PROVE at[n + 1] \in I
    OBVIOUS
  <2>1. n + 1 \in 1..R /\ (n + 1) - 1 = n /\ n <= R
    BY <1>1
  <2>2. at[n] \in I
    BY <1>4, <2>1
  <2>3. at[n + 1] = IF Over(at[n], s) THEN at[n] ELSE Round(pattern, s, at[n])
    BY <1>2, <2>1
  <2> QED
    BY <2>2, <2>3
<1> HIDE DEF N
<1>5. Nat \subseteq N
  BY <1>3, <1>4, Induction
<1>6. \A n \in 0..R : at[n] \in I
  BY <1>1, <1>5 DEF N
<1> QED
  BY <1>6 DEF R

\* The cursors stay within their texts, the last star behind them.
WellPlaced(m, pattern, s) ==
    /\ m \in Cursors
    /\ m.pi <= Len(pattern) /\ m.si <= Len(s)
    /\ m.star < m.pi /\ m.match <= m.si
    /\ m.star # -1 => pattern[m.star + 1] = Star

\* What a round starts from, in numbers.
LEMMA PlacedNumbers ==
    ASSUME NEW pattern \in Seq(Nat), NEW s \in Seq(Nat), NEW m, WellPlaced(m, pattern, s)
    PROVE  /\ m \in Cursors
           /\ m.pi \in 0..Len(pattern) /\ m.si \in 0..Len(s) /\ m.match \in 0..m.si
           /\ m.star \in Nat \cup {-1} /\ m.star < m.pi
           /\ ~Over(m, s) => m.si < Len(s)
           /\ AtStar(m, pattern) \/ Fits(m, pattern, s) => m.pi < Len(pattern)
<1>1. /\ m \in Cursors /\ m.pi <= Len(pattern) /\ m.si <= Len(s)
      /\ m.star < m.pi /\ m.match <= m.si
  BY Zenon DEF WellPlaced
<1>2. m.pi \in Nat /\ m.si \in Nat /\ m.match \in Nat /\ m.star \in Nat \cup {-1}
  BY <1>1 DEF Cursors
<1>3. Len(pattern) \in Nat /\ Len(s) \in Nat
  OBVIOUS
<1>4. m.pi \in 0..Len(pattern) /\ m.si \in 0..Len(s) /\ m.match \in 0..m.si
  BY <1>1, <1>2, <1>3
<1>5. ~Over(m, s) => m.si < Len(s)
  BY <1>1, <1>2, <1>3 DEF Over
<1>6. AtStar(m, pattern) \/ Fits(m, pattern, s) => m.pi < Len(pattern)
  BY Zenon DEF AtStar, Fits
<1> QED
  BY <1>1, <1>2, <1>4, <1>5, <1>6

LEMMA WellPlacedKept ==
    ASSUME NEW pattern \in Seq(Nat), NEW s \in Seq(Nat), NEW m,
           WellPlaced(m, pattern, s), ~Over(m, s)
    PROVE  WellPlaced(Round(pattern, s, m), pattern, s)
<1> DEFINE x == Round(pattern, s, m)
           P == Len(pattern)
           S == Len(s)
<1>1. /\ m \in Cursors
      /\ m.pi \in 0..P /\ m.si \in 0..S /\ m.match \in 0..m.si
      /\ m.star \in Nat \cup {-1} /\ m.star < m.pi /\ m.si < S
      /\ AtStar(m, pattern) \/ Fits(m, pattern, s) => m.pi < P
  BY PlacedNumbers
<1>2. P \in Nat /\ S \in Nat
  OBVIOUS
<1>3. /\ x \in Cursors
      /\ \/ Fits(m, pattern, s) /\ Advances(m, x)
         \/ ~Fits(m, pattern, s) /\ AtStar(m, pattern) /\ Notes(m, x)
         \/ ~Fits(m, pattern, s) /\ ~AtStar(m, pattern) /\ m.star # -1 /\ Resumes(m, x)
         \/ ~Fits(m, pattern, s) /\ ~AtStar(m, pattern) /\ m.star = -1 /\ Fails(m, x)
  BY <1>1, RoundIs
<1>4. m.star # -1 => pattern[m.star + 1] = Star
  BY Zenon DEF WellPlaced
<1> HIDE DEF x, P, S
<1>5. x.pi <= P /\ x.si <= S /\ x.star < x.pi /\ x.match <= x.si
  <2>1. CASE Fits(m, pattern, s) /\ Advances(m, x)
    BY <1>1, <1>2, <2>1 DEF Advances
  <2>2. CASE AtStar(m, pattern) /\ Notes(m, x)
    BY <1>1, <1>2, <2>2 DEF Notes
  <2>3. CASE m.star # -1 /\ Resumes(m, x)
    BY <1>1, <1>2, <2>3 DEF Resumes
  <2>4. CASE m.star = -1 /\ Fails(m, x)
    BY <1>1, <1>2, <2>4 DEF Fails
  <2> QED
    BY <1>3, <2>1, <2>2, <2>3, <2>4
<1>6. x.star # -1 => pattern[x.star + 1] = Star
  BY <1>3, <1>4, Zenon DEF Advances, Notes, Resumes, Fails, AtStar
<1> QED
  BY <1>3, <1>5, <1>6, Zenon DEF WellPlaced, x, P, S

LEMMA UnmovedWell ==
    ASSUME NEW pattern \in Seq(Nat), NEW s \in Seq(Nat)
    PROVE  WellPlaced(Unmoved, pattern, s)
BY DEF WellPlaced, Unmoved, Cursors

\* Where the cursors are, the pattern up to there takes the name up to there.
Sound(m, r) ==
    /\ m.si \in r[m.pi]
    /\ m.star # -1 => \E k \in r[m.star] : k <= m.match

LEMMA SoundKept ==
    ASSUME NEW pattern \in Seq(Nat), NEW s \in Seq(Nat), NEW r, Reaches(r, pattern, s),
           NEW m, WellPlaced(m, pattern, s), Sound(m, r), ~Over(m, s)
    PROVE  Sound(Round(pattern, s, m), r)
<1> DEFINE x == Round(pattern, s, m)
           P == Len(pattern)
           S == Len(s)
<1>1. /\ m \in Cursors
      /\ m.pi \in 0..P /\ m.si \in 0..S /\ m.match \in 0..m.si
      /\ m.star \in Nat \cup {-1} /\ m.star < m.pi /\ m.si < S
      /\ AtStar(m, pattern) \/ Fits(m, pattern, s) => m.pi < P
  BY PlacedNumbers
<1>2. P \in Nat /\ S \in Nat
  OBVIOUS
<1>3. /\ \/ Fits(m, pattern, s) /\ Advances(m, x)
         \/ ~Fits(m, pattern, s) /\ AtStar(m, pattern) /\ Notes(m, x)
         \/ ~Fits(m, pattern, s) /\ ~AtStar(m, pattern) /\ m.star # -1 /\ Resumes(m, x)
         \/ ~Fits(m, pattern, s) /\ ~AtStar(m, pattern) /\ m.star = -1 /\ Fails(m, x)
  BY <1>1, RoundIs
<1>4. /\ r[0] = {0}
      /\ \A p \in 1..P : \A n :
            n \in r[p] <=> /\ n \in 0..S
                           /\ \/ pattern[p] = Star /\ \E k \in r[p - 1] : k <= n
                              \/ n - 1 \in r[p - 1] /\ pattern[p] \in {Question, s[n]}
  BY ReachesValues
<1> HIDE DEF x, P, S
<1>5. CASE Fits(m, pattern, s) /\ Advances(m, x)
  <2> DEFINE p == m.pi + 1
             n == m.si + 1
  <2>1. p \in 1..P /\ n \in 0..S /\ p - 1 = m.pi /\ n - 1 = m.si
    BY <1>1, <1>2, <1>5, SMTT(30)
  <2>2. pattern[p] \in {Question, s[n]} /\ m.si \in r[m.pi]
    BY <1>5, Zenon DEF Fits, Sound
  <2>3. x.pi = p /\ x.si = n /\ x.star = m.star /\ x.match = m.match
    BY <1>5, Zenon DEF Advances
  <2> HIDE DEF p, n
  <2>4. n - 1 \in r[p - 1]
    BY <2>1, <2>2
  <2>5. n \in r[p]
    BY <1>4, <2>1, <2>2, <2>4, Zenon
  <2> QED
    BY <2>3, <2>5, Zenon DEF Sound, x
<1>6. CASE AtStar(m, pattern) /\ Notes(m, x)
  <2> DEFINE p == m.pi + 1
             n == m.si
  <2>1. p \in 1..P /\ n \in 0..S /\ p - 1 = m.pi /\ n <= n
    BY <1>1, <1>2, <1>6
  <2>2. pattern[p] = Star /\ n \in r[m.pi]
    BY <1>6, Zenon DEF AtStar, Sound
  <2>3. x.pi = p /\ x.si = n /\ x.star = m.pi /\ x.match = n
    BY <1>6, Zenon DEF Notes
  <2> HIDE DEF p, n
  <2>4. n \in r[p]
    BY <1>4, <2>1, <2>2
  <2> QED
    BY <2>1, <2>2, <2>3, <2>4, Zenon DEF Sound, x
<1>7. CASE m.star # -1 /\ Resumes(m, x)
  <2> DEFINE p == m.star + 1
             n == m.match + 1
  <2>1. p \in 1..P /\ n \in 0..S /\ p - 1 = m.star /\ n - 1 = m.match
    <3>1. m.match \in Nat /\ m.match <= m.si /\ m.si \in Nat /\ m.star \in Nat /\ m.pi \in Nat
      BY <1>1, <1>7
    <3>2. n \in 0..S /\ n - 1 = m.match
      BY <1>1, <1>2, <3>1
    <3>3. p \in 1..P /\ p - 1 = m.star
      BY <1>1, <1>2, <3>1
    <3> QED
      BY <3>2, <3>3
  <2>2. pattern[p] = Star
    BY <1>7, Zenon DEF WellPlaced
  <2>3. x.pi = p /\ x.si = n /\ x.star = m.star /\ x.match = n
    BY <1>7, Zenon DEF Resumes
  <2>4. PICK k \in r[m.star] : k <= m.match
    BY <1>7, Zenon DEF Sound
  <2> HIDE DEF p, n
  <2>5. k \in Nat
    <3>1. m.star = 0 \/ m.star \in 1..P
      BY <1>1, <1>2, <1>7
    <3>2. \A q \in 1..P : \A i \in r[q] : i \in 0..S
      BY <1>4, Zenon
    <3>3. k \in {0} \/ k \in 0..S
      BY <1>4, <2>4, <3>1, <3>2
    <3> QED
      BY <1>2, <3>3
  <2>6. k <= n
    BY <1>1, <2>1, <2>4, <2>5
  <2>7. n \in r[p]
    BY <1>4, <2>1, <2>2, <2>4, <2>6, Zenon
  <2> QED
    BY <2>3, <2>4, <2>6, <2>7, Zenon DEF Sound, x
<1>8. CASE m.star = -1 /\ Fails(m, x)
  BY <1>8, Zenon DEF Sound, Fails, x
<1> QED
  BY <1>3, <1>5, <1>6, <1>7, <1>8

\* With a cutting of the name, the places since the last star keep their
\* distances in it, and the star has taken no more than the cutting gives it.
InStep(m, c) ==
    /\ ~m.failed
    /\ m.star = -1 => c[m.pi] = m.si
    /\ m.star # -1 => /\ c[m.pi] - c[m.star + 1] = m.si - m.match
                      /\ m.match <= c[m.star + 1]

\* What a cutting gives a character that is not a star, and that it goes forward.
LEMMA CuttingSteps ==
    ASSUME NEW pattern \in Seq(Nat), NEW s \in Seq(Nat), NEW c, NEW n,
           IsCutting(c, pattern, s, Len(pattern), n),
           NEW p \in 1..Len(pattern)
    PROVE  /\ c[p - 1] \in 0..Len(s) /\ c[p] \in 0..Len(s) /\ c[p - 1] <= c[p]
           /\ pattern[p] # Star => /\ c[p] = c[p - 1] + 1
                                   /\ pattern[p] \in {Question, s[c[p]]}
<1>1. p \in 0..Len(pattern) /\ p - 1 \in 0..Len(pattern)
  OBVIOUS
<1>2. c[p - 1] \in 0..Len(s) /\ c[p] \in 0..Len(s)
  BY <1>1 DEF IsCutting
<1>3. Takes(pattern, s, p, c[p - 1], c[p])
  BY DEF IsCutting
<1>4. c[p - 1] <= c[p]
  BY <1>2, <1>3 DEF Takes
<1> QED
  BY <1>2, <1>3, <1>4, Zenon DEF Takes

\* The name has not gone further than the cutting.
LEMMA InStepReaches ==
    ASSUME NEW pattern \in Seq(Nat), NEW s \in Seq(Nat),
           NEW c, IsCutting(c, pattern, s, Len(pattern), Len(s)),
           NEW m, WellPlaced(m, pattern, s), InStep(m, c)
    PROVE  c[m.pi] \in Nat /\ m.si \in Nat /\ m.match \in Nat /\ m.si <= c[m.pi]
<1> DEFINE P == Len(pattern)
           S == Len(s)
<1>1. /\ m.pi \in 0..P /\ m.si \in 0..S /\ m.match \in 0..m.si
      /\ m.star \in Nat \cup {-1} /\ m.star < m.pi
  BY PlacedNumbers
<1>2. P \in Nat /\ S \in Nat
  OBVIOUS
<1>3. \A q \in 0..P : c[q] \in 0..S
  BY DEF IsCutting
<1> HIDE DEF P, S
<1>4. c[m.pi] \in Nat /\ m.si \in Nat /\ m.match \in Nat /\ m.match <= m.si
  BY <1>1, <1>2, <1>3
<1>5. CASE m.star = -1
  BY <1>4, <1>5 DEF InStep
<1>6. CASE m.star # -1
  <2>1. m.star + 1 \in 0..P
    BY <1>1, <1>2, <1>6
  <2>2. c[m.star + 1] \in Nat
    BY <1>2, <1>3, <2>1
  <2>3. c[m.pi] - c[m.star + 1] = m.si - m.match /\ m.match <= c[m.star + 1]
    BY <1>6, Zenon DEF InStep
  <2> QED
    BY <1>4, <2>2, <2>3
<1> QED
  BY <1>4, <1>5, <1>6

LEMMA InStepKept ==
    ASSUME NEW pattern \in Seq(Nat), NEW s \in Seq(Nat),
           \A i \in 1..Len(s) : s[i] # Star,
           NEW c, IsCutting(c, pattern, s, Len(pattern), Len(s)),
           NEW m, WellPlaced(m, pattern, s), InStep(m, c), ~Over(m, s)
    PROVE  InStep(Round(pattern, s, m), c)
<1> DEFINE x == Round(pattern, s, m)
           P == Len(pattern)
           S == Len(s)
           p == m.pi + 1
<1>1. /\ m \in Cursors
      /\ m.pi \in 0..P /\ m.si \in 0..S /\ m.match \in 0..m.si
      /\ m.star \in Nat \cup {-1} /\ m.star < m.pi /\ m.si < S
      /\ AtStar(m, pattern) \/ Fits(m, pattern, s) => m.pi < P
  BY PlacedNumbers
<1>2. P \in Nat /\ S \in Nat
  OBVIOUS
<1>3. \/ Fits(m, pattern, s) /\ Advances(m, x)
      \/ ~Fits(m, pattern, s) /\ AtStar(m, pattern) /\ Notes(m, x)
      \/ ~Fits(m, pattern, s) /\ ~AtStar(m, pattern) /\ m.star # -1 /\ Resumes(m, x)
      \/ ~Fits(m, pattern, s) /\ ~AtStar(m, pattern) /\ m.star = -1 /\ Fails(m, x)
  BY <1>1, RoundIs
<1>4. /\ \A q \in 0..P : c[q] \in 0..S
      /\ c[P] = S
  BY DEF IsCutting
<1>5. \A q \in 1..P :
         /\ c[q - 1] <= c[q]
         /\ pattern[q] # Star => /\ c[q] = c[q - 1] + 1
                                 /\ pattern[q] \in {Question, s[c[q]]}
  BY CuttingSteps
<1>6. Fits(m, pattern, s) => pattern[p] # Star
  <2>1. m.si + 1 \in 1..S
    BY <1>1, <1>2, SMTT(30)
  <2>2. Question # Star /\ s[m.si + 1] # Star
    BY <2>1 DEF Question, Star
  <2>3. Fits(m, pattern, s) => pattern[p] \in {Question, s[m.si + 1]}
    BY Zenon DEF Fits
  <2> QED
    BY <2>2, <2>3, Zenon
<1> HIDE DEF x, P, S
<1>7. m.pi < P => p \in 1..P /\ p - 1 = m.pi /\ p \in 0..P
  <2> DEFINE q == m.pi
  <2>1. q \in 0..P
    BY <1>1
  <2> HIDE DEF q
  <2>2. q < P => q + 1 \in 1..P /\ (q + 1) - 1 = q /\ q + 1 \in 0..P
    BY <1>2, <2>1
  <2> QED
    BY <2>2 DEF q
<1>8. AtStar(m, pattern) <=> m.pi < P /\ pattern[p] = Star
  BY Zenon DEF AtStar, P
<1>9. Fits(m, pattern, s) <=> m.pi < P /\ pattern[p] \in {Question, s[m.si + 1]}
  BY Zenon DEF Fits, P
<1> HIDE DEF p
<1>10. c[m.pi] \in Nat /\ m.si \in Nat /\ m.match \in Nat /\ m.si <= c[m.pi]
  BY InStepReaches
<1>11. c[m.pi] = m.si => Fits(m, pattern, s) \/ AtStar(m, pattern)
  <2> SUFFICES ASSUME c[m.pi] = m.si, ~AtStar(m, pattern) PROVE Fits(m, pattern, s)
    OBVIOUS
  <2>1. m.pi < P
    <3>1. m.pi # P
      BY <1>1, <1>2, <1>4
    <3> QED
      BY <1>1, <1>2, <3>1
  <2>2. p \in 1..P /\ p - 1 = m.pi /\ pattern[p] # Star
    BY <1>7, <1>8, <2>1
  <2>3. c[p] = c[p - 1] + 1 /\ pattern[p] \in {Question, s[c[p]]}
    BY <1>5, <2>2
  <2>4. c[p] = m.si + 1
    BY <2>2, <2>3
  <2>5. pattern[p] \in {Question, s[m.si + 1]}
    BY <2>3, <2>4
  <2> QED
    BY <1>9, <2>1, <2>5
<1>12. CASE Fits(m, pattern, s) /\ Advances(m, x)
  <2>1. p \in 1..P /\ p - 1 = m.pi /\ p \in 0..P /\ pattern[p] # Star
    BY <1>1, <1>6, <1>7, <1>12
  <2>2. c[p] = c[m.pi] + 1
    BY <1>5, <2>1
  <2>3. x.pi = p /\ x.si = m.si + 1 /\ x.star = m.star /\ x.match = m.match /\ ~x.failed
    BY <1>12, Zenon DEF Advances, InStep, p
  <2>4. m.star = -1 => c[x.pi] = x.si
    BY <2>2, <2>3 DEF InStep
  <2>5. m.star # -1 => /\ c[x.pi] - c[m.star + 1] = x.si - x.match
                       /\ x.match <= c[m.star + 1]
    <3> SUFFICES ASSUME m.star # -1
                 PROVE  /\ c[x.pi] - c[m.star + 1] = x.si - x.match
                        /\ x.match <= c[m.star + 1]
      OBVIOUS
    <3>1. m.star + 1 \in 0..P
      BY <1>1, <1>2
    <3>2. c[m.star + 1] \in Nat
      BY <1>2, <1>4, <3>1
    <3>3. c[m.pi] - c[m.star + 1] = m.si - m.match /\ m.match <= c[m.star + 1]
      BY Zenon DEF InStep
    <3> DEFINE u == c[m.pi]
               v == c[m.star + 1]
               y == m.si
               z == m.match
    <3>4. u \in Nat /\ v \in Nat /\ y \in Nat /\ z \in Nat /\ u - v = y - z
      BY <1>10, <3>2, <3>3
    <3>5. c[p] = u + 1
      BY <2>2
    <3> HIDE DEF u, v, y, z
    <3>6. c[p] - v = (y + 1) - z
      BY <3>4, <3>5
    <3> QED
      BY <2>3, <3>3, <3>6, Zenon DEF v, y, z
  <2> QED
    BY <2>3, <2>4, <2>5, Zenon DEF InStep, x
<1>13. CASE AtStar(m, pattern) /\ Notes(m, x)
  <2>1. p \in 1..P /\ p - 1 = m.pi /\ p \in 0..P
    BY <1>1, <1>7, <1>13
  <2>2. c[p] \in Nat /\ c[m.pi] <= c[p]
    BY <1>2, <1>4, <1>5, <2>1
  <2>3. /\ x.pi = p /\ x.si = m.si /\ x.star = m.pi /\ x.match = m.si /\ ~x.failed
        /\ x.star + 1 = p
    BY <1>13, Zenon DEF Notes, InStep, p
  <2>4. c[p] - c[p] = m.si - m.si /\ m.si <= c[p]
    BY <1>10, <2>2
  <2>5. x.star # -1
    BY <1>1, <2>3
  <2> QED
    BY <2>3, <2>4, <2>5, Zenon DEF InStep, x
<1>14. CASE ~Fits(m, pattern, s) /\ ~AtStar(m, pattern) /\ m.star # -1 /\ Resumes(m, x)
  <2> DEFINE q == m.star + 1
  <2>1. q \in 0..P
    BY <1>1, <1>2, <1>14
  <2>2. c[q] \in Nat
    BY <1>2, <1>4, <2>1
  <2>3. c[m.pi] - c[q] = m.si - m.match /\ m.match <= c[q]
    BY <1>14, Zenon DEF InStep
  <2>4. /\ x.pi = q /\ x.si = m.match + 1 /\ x.star = m.star /\ x.match = m.match + 1
        /\ ~x.failed /\ x.star + 1 = q
    BY <1>14, Zenon DEF Resumes, InStep
  <2> HIDE DEF q
  <2>5. c[m.pi] # m.si
    BY <1>11, <1>14
  <2>6. /\ c[q] - c[q] = (m.match + 1) - (m.match + 1)
        /\ m.match + 1 <= c[q]
    BY <1>10, <2>2, <2>3, <2>5
  <2> QED
    BY <1>14, <2>4, <2>6, Zenon DEF InStep, x
<1>15. CASE ~Fits(m, pattern, s) /\ ~AtStar(m, pattern) /\ m.star = -1
  BY <1>11, <1>15, Zenon DEF InStep
<1> QED
  BY <1>3, <1>12, <1>13, <1>14, <1>15

-----------------------------------------------------------------------------
(* Patterns: the rounds are enough.                                        *)

\* How far a run has come: every place a star resumes from counts for a pass
\* over both texts.
Come(m, K) == m.match * K + (m.pi + m.si)

\* Products, as far as the proofs use them.
LEMMA Products ==
    ASSUME NEW K \in Nat, NEW i \in Nat, NEW j \in Nat
    PROVE  /\ i * K \in Nat /\ j * K \in Nat
           /\ (i + 1) * K = i * K + K
           /\ i <= j => i * K <= j * K
<1>1. i * K \in Nat /\ j * K \in Nat /\ (i + 1) * K = i * K + K
  OBVIOUS
<1>2. ASSUME i <= j PROVE i * K <= j * K
  <2>1. j - i \in Nat /\ j = i + (j - i)
    BY <1>2
  <2>2. (j - i) * K \in Nat /\ j * K = i * K + (j - i) * K
    BY <2>1
  <2> QED
    BY <1>1, <2>2
<1> QED
  BY <1>1, <1>2

LEMMA RoundComesFurther ==
    ASSUME NEW pattern \in Seq(Nat), NEW s \in Seq(Nat), NEW m,
           WellPlaced(m, pattern, s), ~Over(m, s),
           NEW K, K = Len(s) + Len(pattern) + 1
    PROVE  LET x == Round(pattern, s, m)
           IN  /\ Come(m, K) \in Nat /\ Come(m, K) < (Len(s) + 1) * K
               /\ Over(x, s) \/ (Come(x, K) \in Nat /\ Come(m, K) + 1 <= Come(x, K))
<1> DEFINE x == Round(pattern, s, m)
           P == Len(pattern)
           S == Len(s)
<1>1. /\ m \in Cursors
      /\ m.pi \in 0..P /\ m.si \in 0..S /\ m.match \in 0..m.si
      /\ m.star \in Nat \cup {-1} /\ m.star < m.pi /\ m.si < S
  BY PlacedNumbers
<1>2. P \in Nat /\ S \in Nat /\ K = S + P + 1 /\ K \in Nat
  OBVIOUS
<1>3. \/ Advances(m, x)
      \/ Notes(m, x)
      \/ m.star # -1 /\ Resumes(m, x)
      \/ Fails(m, x)
  BY <1>1, RoundIs, Zenon
<1> HIDE DEF x, P, S
<1>4. /\ m.pi \in Nat /\ m.si \in Nat /\ m.match \in Nat
      /\ m.pi <= P /\ m.si < S /\ m.match <= m.si /\ m.match <= S
  BY <1>1, <1>2
<1>5. /\ m.match * K \in Nat /\ m.si * K \in Nat /\ S * K \in Nat
      /\ m.match * K <= m.si * K
      /\ (m.match + 1) * K = m.match * K + K /\ (S + 1) * K = S * K + K
      /\ m.match * K <= S * K
  BY <1>2, <1>4, Products
<1> DEFINE a == m.match * K
           b == m.si * K
           d == S * K
           a2 == (m.match + 1) * K
           d2 == (S + 1) * K
<1>6. a \in Nat /\ b \in Nat /\ d \in Nat /\ a <= b /\ a2 = a + K /\ d2 = d + K /\ a <= d
  BY <1>5
<1> HIDE DEF a, b, d, a2, d2
<1>7. Come(m, K) = a + (m.pi + m.si)
  BY Zenon DEF Come, a
<1>8. Come(m, K) \in Nat /\ Come(m, K) < d2
  BY <1>2, <1>4, <1>6, <1>7, SMTT(30)
<1> DEFINE mp == m.pi
           ms == m.si
           mm == m.match
           mt == m.star
<1>9. mp \in Nat /\ ms \in Nat /\ mm \in Nat /\ mp <= P /\ ms < S /\ mt \in Nat \cup {-1}
  BY <1>1, <1>4
<1>10. Come(m, K) = a + (mp + ms)
  BY <1>7
<1>11. Over(x, s) \/ (Come(x, K) \in Nat /\ Come(m, K) + 1 <= Come(x, K))
  <2>1. CASE Advances(m, x)
    <3>1. Come(x, K) = a + ((mp + 1) + (ms + 1))
      BY <2>1, Zenon DEF Come, Advances, a
    <3> HIDE DEF mp, ms
    <3> QED
      BY <1>6, <1>9, <1>10, <3>1
  <2>2. CASE Notes(m, x)
    <3>1. Come(x, K) = b + ((mp + 1) + ms)
      BY <2>2, Zenon DEF Come, Notes, b
    <3> HIDE DEF mp, ms
    <3> QED
      BY <1>6, <1>9, <1>10, <3>1
  <2>3. CASE m.star # -1 /\ Resumes(m, x)
    <3>1. Come(x, K) = a2 + ((mt + 1) + (mm + 1))
      BY <2>3, Zenon DEF Come, Resumes, a2
    <3>2. mt \in Nat
      BY <1>1, <2>3
    <3> HIDE DEF mp, ms, mm, mt
    <3> QED
      BY <1>2, <1>6, <1>9, <1>10, <3>1, <3>2
  <2>4. CASE Fails(m, x)
    BY <2>4, Zenon DEF Fails, Over
  <2> QED
    BY <1>3, <2>1, <2>2, <2>3, <2>4
<1> QED
  BY <1>8, <1>11, Zenon DEF x, S, d2

\* The loop is over before its rounds are.
LEMMA OverAtEnd ==
    ASSUME NEW pattern \in Seq(Nat), NEW s \in Seq(Nat), NEW at, Runs(at, pattern, s)
    PROVE  Over(at[Rounds(pattern, s)], s)
<1> DEFINE K == Len(s) + Len(pattern) + 1
           R == Rounds(pattern, s)
           N == {n \in Nat : n <= R => /\ WellPlaced(at[n], pattern, s)
                                       /\ Over(at[n], s) \/ n <= Come(at[n], K)}
<1>1. R \in Nat /\ R = (Len(s) + 1) * K
  BY RoundsNat, Zenon DEF Rounds
<1>2. /\ at[0] = Unmoved
      /\ \A n \in 1..R :
            at[n] = IF Over(at[n - 1], s) THEN at[n - 1] ELSE Round(pattern, s, at[n - 1])
  BY RunsValues
<1>3. \A m : WellPlaced(m, pattern, s) /\ ~Over(m, s) =>
         /\ WellPlaced(Round(pattern, s, m), pattern, s)
         /\ Come(m, K) \in Nat /\ Come(m, K) < R
         /\ \/ Over(Round(pattern, s, m), s)
            \/ Come(Round(pattern, s, m), K) \in Nat /\ Come(m, K) + 1 <= Come(Round(pattern, s, m), K)
  <2> SUFFICES ASSUME NEW m, WellPlaced(m, pattern, s), ~Over(m, s)
               PROVE  /\ WellPlaced(Round(pattern, s, m), pattern, s)
                      /\ Come(m, K) \in Nat /\ Come(m, K) < R
                      /\ \/ Over(Round(pattern, s, m), s)
                         \/ /\ Come(Round(pattern, s, m), K) \in Nat
                            /\ Come(m, K) + 1 <= Come(Round(pattern, s, m), K)
    BY Zenon
  <2>1. WellPlaced(Round(pattern, s, m), pattern, s)
    BY WellPlacedKept
  <2>2. /\ Come(m, K) \in Nat /\ Come(m, K) < (Len(s) + 1) * K
        /\ \/ Over(Round(pattern, s, m), s)
           \/ /\ Come(Round(pattern, s, m), K) \in Nat
              /\ Come(m, K) + 1 <= Come(Round(pattern, s, m), K)
    BY RoundComesFurther, Zenon
  <2> HIDE DEF R, K
  <2> QED
    BY <1>1, <2>1, <2>2, Zenon
<1>4. 0 \in N
  <2>1. WellPlaced(at[0], pattern, s)
    BY <1>2, UnmovedWell
  <2> HIDE DEF R
  <2>2. Over(at[0], s) \/ 0 <= Come(at[0], K)
    BY <1>3, <2>1
  <2> QED
    BY <2>1, <2>2
<1> HIDE DEF R, K
<1>5. ASSUME NEW n \in Nat, n \in N PROVE n + 1 \in N
  <2> SUFFICES ASSUME n + 1 <= R
               PROVE  /\ WellPlaced(at[n + 1], pattern, s)
                      /\ Over(at[n + 1], s) \/ n + 1 <= Come(at[n + 1], K)
    OBVIOUS
  <2>1. n + 1 \in 1..R /\ (n + 1) - 1 = n /\ n <= R
    BY <1>1
  <2> DEFINE m == at[n]
             x == at[n + 1]
  <2>2. WellPlaced(m, pattern, s) /\ (Over(m, s) \/ n <= Come(m, K))
    BY <1>5, <2>1
  <2>3. x = IF Over(m, s) THEN m ELSE Round(pattern, s, m)
    BY <1>2, <2>1
  <2> HIDE DEF m, x
  <2>4. CASE Over(m, s)
    BY <2>2, <2>3, <2>4 DEF x
  <2>5. CASE ~Over(m, s)
    <3>1. /\ WellPlaced(x, pattern, s)
          /\ Come(m, K) \in Nat
          /\ Over(x, s) \/ (Come(x, K) \in Nat /\ Come(m, K) + 1 <= Come(x, K))
      BY <1>3, <2>2, <2>3, <2>5, Zenon
    <3>2. Over(x, s) \/ n + 1 <= Come(x, K)
      BY <2>2, <2>5, <3>1
    <3> QED
      BY <3>1, <3>2 DEF x
  <2> QED
    BY <2>4, <2>5
<1>6. Nat \subseteq N
  <2> HIDE DEF N
  <2> QED
    BY <1>4, <1>5, Induction
<1>7. WellPlaced(at[R], pattern, s) /\ (Over(at[R], s) \/ R <= Come(at[R], K))
  BY <1>1, <1>6
<1>8. ~Over(at[R], s) => Come(at[R], K) \in Nat /\ Come(at[R], K) < R
  BY <1>3, <1>7, Zenon
<1>9. Over(at[R], s)
  BY <1>1, <1>7, <1>8
<1> QED
  BY <1>9 DEF R

-----------------------------------------------------------------------------
(* Patterns: what globMatch answers.                                       *)

\* Where only stars are left of the pattern, they take the rest of the name.
LEMMA StarsTakeTheRest ==
    ASSUME NEW pattern \in Seq(Nat), NEW s \in Seq(Nat), NEW r, Reaches(r, pattern, s),
           NEW p \in 0..Len(pattern), Len(s) \in r[p],
           \A i \in (p + 1)..Len(pattern) : pattern[i] = Star
    PROVE  Len(s) \in r[Len(pattern)]
<1> DEFINE N == {k \in Nat : p + k <= Len(pattern) => Len(s) \in r[p + k]}
           S == Len(s)
           P == Len(pattern)
<1>1. S \in Nat /\ P \in Nat /\ p \in Nat /\ p <= P
  OBVIOUS
<1>2. \A q \in 1..P : \A n :
         n \in r[q] <=> /\ n \in 0..S
                        /\ \/ pattern[q] = Star /\ \E k \in r[q - 1] : k <= n
                           \/ n - 1 \in r[q - 1] /\ pattern[q] \in {Question, s[n]}
  BY ReachesValues
<1>3. S \in r[p] /\ \A i \in (p + 1)..P : pattern[i] = Star
  OBVIOUS
<1> HIDE DEF S, P
<1>4. 0 \in N
  BY <1>1, <1>3 DEF S
<1>5. ASSUME NEW k \in Nat, k \in N PROVE k + 1 \in N
  <2> SUFFICES ASSUME p + (k + 1) <= P PROVE S \in r[p + (k + 1)]
    BY DEF S, P
  <2> DEFINE q == p + (k + 1)
  <2>1. q \in 1..P /\ q - 1 = p + k /\ p + k <= P /\ q \in (p + 1)..P /\ S \in 0..S /\ S <= S
    BY <1>1
  <2>2. S \in r[p + k]
    BY <1>5, <2>1 DEF S, P
  <2> HIDE DEF q
  <2>3. S \in r[q - 1] /\ pattern[q] = Star
    BY <1>3, <2>1, <2>2
  <2>4. S \in r[q]
    BY <1>2, <2>1, <2>3, Zenon
  <2> QED
    BY <2>4 DEF q
<1>6. Nat \subseteq N
  <2> HIDE DEF N
  <2> QED
    BY <1>4, <1>5, Induction
<1>7. P - p \in Nat /\ p + (P - p) = P
  BY <1>1
<1>8. P - p \in N
  <2> HIDE DEF N
  <2> QED
    BY <1>6, <1>7
<1> QED
  BY <1>1, <1>7, <1>8 DEF S, P

\* Where globMatch says yes there is a cutting, and where there is one, of a
\* name without a star of its own, it says yes.
LEMMA GlobCovers ==
    ASSUME NEW pattern \in Seq(Nat), NEW s \in Seq(Nat)
    PROVE  /\ GlobMatch(pattern, s) => Covers(pattern, s)
           /\ (\A i \in 1..Len(s) : s[i] # Star) /\ Covers(pattern, s) => GlobMatch(pattern, s)
<1> DEFINE S == Len(s)
           P == Len(pattern)
           R == Rounds(pattern, s)
<1>1. PICK at : /\ Runs(at, pattern, s)
                /\ GlobMatch(pattern, s) <=>
                      /\ ~at[R].failed /\ at[R].si = S
                      /\ \A i \in (at[R].pi + 1)..P : pattern[i] = Star
  BY GlobBy
<1>2. PICK r : Reaches(r, pattern, s) /\ (Covers(pattern, s) <=> S \in r[P])
  BY CoversBy
<1>3. Over(at[R], s)
  BY <1>1, OverAtEnd
<1>4. R \in 0..R
  BY RoundsNat
<1>5. ASSUME GlobMatch(pattern, s) PROVE Covers(pattern, s)
  <2> DEFINE I == {m \in Cursors : WellPlaced(m, pattern, s) /\ Sound(m, r)}
  <2>1. Unmoved \in I
    <3>1. Unmoved \in Cursors /\ WellPlaced(Unmoved, pattern, s)
      BY UnmovedWell DEF Unmoved, Cursors
    <3>2. 0 \in r[0]
      BY <1>2, ReachesValues
    <3>3. Sound(Unmoved, r)
      BY <3>2 DEF Sound, Unmoved
    <3> QED
      BY <3>1, <3>3
  <2>2. \A m \in I : ~Over(m, s) => Round(pattern, s, m) \in I
    BY <1>2, RoundIs, WellPlacedKept, SoundKept, Zenon
  <2>3. at[R] \in I
    <3> HIDE DEF I
    <3>1. \A n \in 0..Rounds(pattern, s) : at[n] \in I
      BY <1>1, <2>1, <2>2, RunKeeps
    <3> QED
      BY <1>4, <3>1
  <2>4. S \in r[at[R].pi] /\ \A i \in (at[R].pi + 1)..P : pattern[i] = Star
    BY <1>1, <1>5, <2>3, Zenon DEF Sound
  <2>5. at[R].pi \in 0..P
    BY <2>3, PlacedNumbers
  <2> QED
    BY <1>2, <2>4, <2>5, StarsTakeTheRest
<1>6. ASSUME \A i \in 1..Len(s) : s[i] # Star, Covers(pattern, s)
      PROVE  GlobMatch(pattern, s)
  <2>1. PICK c : IsCutting(c, pattern, s, P, S)
    BY <1>2, <1>6, CuttingExists
  <2> DEFINE I == {m \in Cursors : WellPlaced(m, pattern, s) /\ InStep(m, c)}
  <2>2. Unmoved \in I
    <3>1. Unmoved \in Cursors /\ WellPlaced(Unmoved, pattern, s)
      BY UnmovedWell DEF Unmoved, Cursors
    <3>2. c[0] = 0
      BY <2>1 DEF IsCutting
    <3>3. InStep(Unmoved, c)
      BY <3>2 DEF InStep, Unmoved
    <3> QED
      BY <3>1, <3>3
  <2>3. \A m \in I : ~Over(m, s) => Round(pattern, s, m) \in I
    BY <1>6, <2>1, RoundIs, WellPlacedKept, InStepKept, Zenon
  <2>4. at[R] \in I
    <3> HIDE DEF I
    <3>1. \A n \in 0..Rounds(pattern, s) : at[n] \in I
      BY <1>1, <2>2, <2>3, RunKeeps
    <3> QED
      BY <1>4, <3>1
  <2> DEFINE m == at[R]
  <2>5. WellPlaced(m, pattern, s) /\ InStep(m, c)
    BY <2>4
  <2> HIDE DEF m
  <2>6. ~m.failed /\ m.si = S
    BY <1>3, <2>5, Zenon DEF Over, InStep, m
  <2>7. m.pi \in 0..P /\ m.si <= c[m.pi]
    BY <2>1, <2>5, PlacedNumbers, InStepReaches
  <2>8. \A i \in (m.pi + 1)..P : pattern[i] = Star
    <3> SUFFICES ASSUME NEW i \in (m.pi + 1)..P, pattern[i] # Star PROVE FALSE
      OBVIOUS
    <3> DEFINE b == m.pi
    <3>1. b \in 0..P /\ i \in (b + 1)..P /\ P \in Nat /\ S <= c[b]
      BY <2>6, <2>7
    <3> HIDE DEF b, P
    <3>2. i \in 1..P /\ i - 1 \in b..P /\ b \in 0..P
      BY <3>1
    <3>3. c[b] <= c[i - 1]
      BY <2>1, <3>2, CuttingGoesOn DEF P
    <3>4. c[i - 1] \in 0..S /\ c[i] \in 0..S /\ c[i] = c[i - 1] + 1
      BY <2>1, <3>2, CuttingSteps DEF P
    <3>5. \A q \in 0..P : c[q] \in 0..S
      BY <2>1 DEF IsCutting
    <3>6. c[b] \in 0..S /\ S \in Nat
      BY <3>2, <3>5
    <3> QED
      BY <3>1, <3>3, <3>4, <3>6
  <2> QED
    BY <1>1, <2>6, <2>8, Zenon DEF m
<1> QED
  BY <1>5, <1>6

-----------------------------------------------------------------------------
(* A pair.                                                                 *)

\* A pair is no sign between pairs, and is read as it was meant.
LEMMA PairIs ==
    ASSUME NEW name \in Seq(Octets), name # <<>>, NEW value \in Seq(Octets)
    PROVE  /\ Pair(name, value) \in Seq(Nat) /\ Pair(name, value) # <<>>
           /\ \A i \in 1..Len(Pair(name, value)) : Pair(name, value)[i] \notin Ampersands
           /\ KeyOf(Pair(name, value)) = name /\ ValueOf(Pair(name, value)) = value
<1> DEFINE a == EscapeForm(name)
           b == EscapeForm(value)
           p == Pair(name, value)
<1>1. /\ a \in Seq(Nat) /\ UnescapeForm(a) = name /\ a # <<>>
      /\ \A i \in 1..Len(a) : a[i] \notin {Ampersand, Semicolon, Equals}
  BY EscapeFormIs
<1>2. /\ b \in Seq(Nat) /\ UnescapeForm(b) = value
      /\ \A i \in 1..Len(b) : b[i] \notin {Ampersand, Semicolon, Equals}
  BY EscapeFormIs
<1>3. Equals \in Nat /\ Equals \notin Ampersands /\ Ampersands = {Ampersand, Semicolon}
  BY DEF Equals, Ampersands, Ampersand, Semicolon
<1>4. CASE value = <<>>
  <2>1. p = a
    BY <1>4 DEF Pair
  <2>2. b = <<>>
    <3> DEFINE z == <<>>
    <3>1. ReplaceAll(z, Space, Plus) = z
      BY DEF ReplaceAll
    <3> HIDE DEF z
    <3>2. EscapeBy(z, UnescapedFormSet) = z
      BY EscapeByConcat DEF z
    <3>3. EscapeForm(z) = z
      BY <3>1, <3>2 DEF EscapeForm
    <3> QED
      BY <1>4, <3>3 DEF z
  <2> HIDE DEF p, a, b
  <2>3. Before(p, Next(p, 1, {Equals})) = a /\ From(p, Next(p, 1, {Equals}) + 1) = b
    BY <1>1, <1>3, <2>1, <2>2, NoSign
  <2>4. KeyOf(p) = name /\ ValueOf(p) = value
    BY <1>1, <1>2, <2>3 DEF KeyOf, ValueOf
  <2> QED
    BY <1>1, <1>3, <2>1, <2>4 DEF p
<1>5. CASE value # <<>>
  <2>1. p = (a \o <<Equals>>) \o b
    BY <1>5 DEF Pair
  <2> HIDE DEF p, a, b
  <2>2. \A i \in 1..Len(a) : a[i] # Equals
    BY <1>1
  <2>3. /\ p \in Seq(Nat) /\ Len(p) = Len(a) + 1 + Len(b)
        /\ \A i \in 1..Len(p) : p[i] = Equals \/ (\E j \in 1..Len(a) : p[i] = a[j])
                                              \/ (\E j \in 1..Len(b) : p[i] = b[j])
        /\ Before(p, Next(p, 1, {Equals})) = a
        /\ From(p, Next(p, 1, {Equals}) + 1) = b
    <3>1. a \in Seq(Nat)
      BY <1>1
    <3>2. b \in Seq(Nat)
      BY <1>2
    <3>3. Equals \in Nat
      BY <1>3
    <3>4. IsCut(p, a, Equals, b)
      BY <3>1, <3>2, <3>3, <2>1, <2>2, CutAtSign
    <3> QED
      BY <3>4 DEF IsCut
  <2>4. KeyOf(p) = name /\ ValueOf(p) = value
    BY <1>1, <1>2, <2>3 DEF KeyOf, ValueOf
  <2>5. p # <<>>
    <3>1. Len(a) \in Nat /\ Len(b) \in Nat
      BY <1>1, <1>2
    <3>2. Len(p) # 0
      BY <2>3, <3>1
    <3> QED
      BY <3>2
  <2>6. \A i \in 1..Len(p) : p[i] \notin Ampersands
    BY <1>1, <1>2, <1>3, <2>3
  <2> QED
    BY <2>3, <2>4, <2>5, <2>6 DEF p
<1> QED
  BY <1>4, <1>5

-----------------------------------------------------------------------------
(* Splitting.                                                              *)

Some(y) == IF y = <<>> THEN <<>> ELSE <<y>>

LEMMA NonEmptyAppend ==
    ASSUME NEW s \in Seq(Seq(Nat)), NEW y \in Seq(Nat)
    PROVE  NonEmpty(Append(s, y)) = NonEmpty(s) \o Some(y)
<1> DEFINE image(t) == [i \in DOMAIN t |-> Some(t[i])]
           t == Append(s, y)
           n == Len(s)
           f == image(s)
           g == image(t)
           x == Some(y)
<1>1. ASSUME NEW r PROVE NonEmpty(r) = FlattenSeq(image(r))
  BY DEF NonEmpty, Mapped, Some
<1>2. /\ n \in Nat /\ DOMAIN s = 1..n /\ t \in Seq(Seq(Nat)) /\ DOMAIN t = 1..(n + 1)
      /\ t[n + 1] = y /\ \A i \in 1..n : t[i] = s[i] /\ s[i] \in Seq(Nat)
  OBVIOUS
<1> HIDE DEF n, t
<1>3. f = [i \in 1..n |-> Some(s[i])] /\ g = [i \in 1..(n + 1) |-> Some(t[i])]
  BY <1>2
<1>4. \A r \in Seq(Nat) : Some(r) \in Seq(Seq(Nat))
  BY DEF Some
<1>5. /\ f \in Seq(Seq(Seq(Nat))) /\ Len(f) = n /\ g \in Seq(Seq(Seq(Nat)))
      /\ Len(g) = n + 1
      /\ g[n + 1] = x /\ \A i \in 1..n : g[i] = f[i]
  <2>1. n + 1 \in 1..(n + 1) /\ \A i \in 1..n : i \in 1..(n + 1)
    BY <1>2
  <2>2. \A i \in 1..(n + 1) : t[i] \in Seq(Nat)
    BY <1>2
  <2>3. \A i \in 1..(n + 1) : Some(t[i]) \in Seq(Seq(Nat))
    BY <1>4, <2>2
  <2>4. \A i \in 1..n : Some(s[i]) \in Seq(Seq(Nat))
    BY <1>2, <1>4
  <2> HIDE DEF image
  <2> QED
    BY <1>2, <1>3, <2>1, <2>3, <2>4
<1> HIDE DEF f, g, x, image
<1>6. FlattenSeq(g) = FlattenSeq(f) \o x
  BY <1>5, FlattenGrows
<1> QED
  BY <1>1, <1>6 DEF f, g, t, x

LEMMA NonEmptyType ==
    ASSUME NEW s \in Seq(Seq(Nat))
    PROVE  NonEmpty(s) \in Seq(Seq(Nat))
<1> DEFINE image == [i \in DOMAIN s |-> Some(s[i])]
<1>1. NonEmpty(s) = FlattenSeq(image)
  BY DEF NonEmpty, Mapped, Some
<1>2. \A r \in Seq(Nat) : Some(r) \in Seq(Seq(Nat))
  BY DEF Some
<1>3. Len(s) \in Nat /\ DOMAIN s = 1..Len(s) /\ \A i \in 1..Len(s) : s[i] \in Seq(Nat)
  OBVIOUS
<1>4. image \in Seq(Seq(Seq(Nat)))
  <2>1. \A i \in 1..Len(s) : Some(s[i]) \in Seq(Seq(Nat))
    BY <1>2, <1>3
  <2> QED
    BY <1>3, <2>1
<1> HIDE DEF image
<1> QED
  BY <1>1, <1>4, FlattenType

\* What is sent after one sign is one element more, or none.
LEMMA SplitGrows ==
    ASSUME NEW p \in Seq(Nat), NEW c \in Ampersands,
           NEW y \in Seq(Nat), \A i \in 1..Len(y) : y[i] \notin Ampersands
    PROVE  /\ SplitAmpSemi(p) \in Seq(Seq(Nat))
           /\ SplitAmpSemi(p \o (<<c>> \o y)) = SplitAmpSemi(p) \o Some(y)
<1>1. c \in Nat
  BY DEF Ampersands, Ampersand, Semicolon
<1>2. \A s : SplitAmpSemi(s) = NonEmpty(Pieces(s, Ampersands))
  BY DEF SplitAmpSemi, NonEmpty
<1>3. /\ Pieces(p, Ampersands) \in Seq(Seq(Nat))
      /\ Pieces(p \o (<<c>> \o y), Ampersands) = Append(Pieces(p, Ampersands), y)
  BY <1>1, PiecesGrow
<1>4. NonEmpty(Append(Pieces(p, Ampersands), y)) = NonEmpty(Pieces(p, Ampersands)) \o Some(y)
  BY <1>3, NonEmptyAppend
<1>5. NonEmpty(Pieces(p, Ampersands)) \in Seq(Seq(Nat))
  BY <1>3, NonEmptyType
<1> QED
  BY <1>2, <1>3, <1>4, <1>5

LEMMA SplitEmpty == SplitAmpSemi(<<>>) = <<>>
<1> DEFINE e == <<>>
           s == <<e>>
<1>1. Pieces(e, Ampersands) = s
  BY PiecesEmpty
<1> HIDE DEF s, e
<1>2. SplitAmpSemi(e) = NonEmpty(s)
  <2>1. \A r : SplitAmpSemi(r) = NonEmpty(Pieces(r, Ampersands))
    BY DEF SplitAmpSemi, NonEmpty
  <2> QED
    BY <1>1, <2>1
<1> USE DEF s, e
<1>3. e \in Seq(Seq(Nat)) /\ e \in Seq(Nat) /\ s = Append(e, e)
  OBVIOUS
<1>4. NonEmpty(s) = NonEmpty(e) \o Some(e)
  BY <1>3, NonEmptyAppend
<1>5. Some(e) = <<>>
  BY DEF Some
<1>6. NonEmpty(e) = <<>>
  <2> DEFINE image == [i \in DOMAIN e |-> Some(e[i])]
  <2>1. NonEmpty(e) = FlattenSeq(image)
    BY DEF NonEmpty, Mapped, Some
  <2>2. image = <<>>
    OBVIOUS
  <2> QED
    BY <2>1, <2>2, FlattenFew
<1>7. NonEmpty(e) \o Some(e) = <<>>
  BY <1>5, <1>6
<1> QED
  BY <1>2, <1>4, <1>7

\* A sequence that is not empty is one with a last member.
LEMMA LastOne ==
    ASSUME NEW S, NEW w \in Seq(S), w # <<>>
    PROVE  \E v \in Seq(S), c \in S : w = Append(v, c)
<1> DEFINE P == {u \in Seq(S) : u # <<>> => \E v \in Seq(S), c \in S : u = Append(v, c)}
<1>1. <<>> \in P
  OBVIOUS
<1>2. ASSUME NEW s \in Seq(S), NEW x \in S PROVE Append(s, x) \in P
  <2>1. Append(s, x) \in Seq(S)
    OBVIOUS
  <2>2. \E v \in Seq(S), c \in S : Append(s, x) = Append(v, c)
    OBVIOUS
  <2> QED
    BY <2>1, <2>2
<1> HIDE DEF P
<1>3. Seq(S) \subseteq P
  BY <1>1, <1>2, SeqInduction
<1> QED
  BY <1>3 DEF P

\* However many signs a pair comes after, it is the element that comes next.
LEMMA SplitSeparated ==
    ASSUME NEW p \in Seq(Nat), NEW w \in Seq(Ampersands), w # <<>>,
           NEW y \in Seq(Nat), y # <<>>, \A i \in 1..Len(y) : y[i] \notin Ampersands
    PROVE  /\ (p \o w) \o y \in Seq(Nat) /\ SplitAmpSemi(p) \in Seq(Seq(Nat))
           /\ SplitAmpSemi((p \o w) \o y) = Append(SplitAmpSemi(p), y)
<1> DEFINE P == {u \in Seq(Ampersands) : SplitAmpSemi(p \o u) = SplitAmpSemi(p)}
<1>1. Ampersands \subseteq Nat /\ Ampersand \in Ampersands
  BY DEF Ampersands, Ampersand, Semicolon
<1>2. Seq(Ampersands) \subseteq Seq(Nat)
  BY <1>1, SeqMonotonic
<1>3. SplitAmpSemi(p) \in Seq(Seq(Nat))
  <2>1. <<>> \in Seq(Nat) /\ \A i \in 1..Len(<<>>) : <<>>[i] \notin Ampersands
    OBVIOUS
  <2> QED
    BY <1>1, <2>1, SplitGrows
<1>4. <<>> \in P
  <2>1. p \o <<>> = p /\ <<>> \in Seq(Ampersands)
    OBVIOUS
  <2> QED
    BY <2>1
<1>5. ASSUME NEW u \in Seq(Ampersands), NEW c \in Ampersands, u \in P
      PROVE  Append(u, c) \in P
  <2> DEFINE e == <<>>
             q == p \o u
  <2>1. u \in Seq(Nat) /\ c \in Nat
    BY <1>1, <1>2
  <2>2. q \in Seq(Nat) /\ p \o Append(u, c) = q \o (<<c>> \o e) /\ Append(u, c) \in Seq(Ampersands)
    BY <2>1
  <2>3. e \in Seq(Nat) /\ \A i \in 1..Len(e) : e[i] \notin Ampersands
    OBVIOUS
  <2> HIDE DEF q, e
  <2>4. SplitAmpSemi(q \o (<<c>> \o e)) = SplitAmpSemi(q) \o Some(e)
    BY <2>2, <2>3, SplitGrows
  <2>5. SplitAmpSemi(q) \o Some(e) = SplitAmpSemi(p)
    <3>1. SplitAmpSemi(q) = SplitAmpSemi(p)
      BY <1>5 DEF q
    <3>2. Some(e) = <<>>
      BY DEF Some, e
    <3> QED
      BY <1>3, <3>1, <3>2
  <2> QED
    BY <2>2, <2>4, <2>5
<1>6. Seq(Ampersands) \subseteq P
  <2> HIDE DEF P
  <2> QED
    BY <1>4, <1>5, SeqInduction
<1>7. PICK v \in Seq(Ampersands), c \in Ampersands : w = Append(v, c)
  BY LastOne
<1> DEFINE q == p \o v
<1>8. q \in Seq(Nat) /\ (p \o w) \o y = q \o (<<c>> \o y) /\ (p \o w) \o y \in Seq(Nat)
  <2>1. v \in Seq(Nat) /\ c \in Nat /\ w \in Seq(Nat)
    BY <1>1, <1>2
  <2> DEFINE s == <<c>>
  <2>2. s \in Seq(Nat) /\ q \in Seq(Nat) /\ p \o w = q \o s
    BY <1>7, <2>1
  <2> HIDE DEF q, s
  <2>3. (q \o s) \o y = q \o (s \o y)
    BY <2>2, ConcatAssociative, SMTT(30)
  <2>4. q \o (s \o y) \in Seq(Nat)
    BY <2>2
  <2> QED
    BY <2>2, <2>3, <2>4 DEF s
<1>9. SplitAmpSemi(q) = SplitAmpSemi(p)
  BY <1>6
<1> HIDE DEF q
<1>10. SplitAmpSemi(q \o (<<c>> \o y)) = SplitAmpSemi(q) \o Some(y)
  BY <1>8, SplitGrows
<1>11. SplitAmpSemi(p) \o Some(y) = Append(SplitAmpSemi(p), y)
  <2>1. Some(y) = <<y>>
    BY DEF Some
  <2> QED
    BY <1>3, <2>1
<1> QED
  BY <1>3, <1>8, <1>9, <1>10, <1>11

-----------------------------------------------------------------------------
(* Reading.                                                                *)

\* The query of a sequence of elements.
Gathered(elements) ==
    LET upto[n \in 0..Len(elements)] ==
            IF n = 0 THEN NoQuery ELSE Taken(upto[n - 1], elements[n])
    IN upto[Len(elements)]

\* f is the function that ParseQuery's recursion defines on the elements s.
Reads(f, s) ==
    f = [n \in 0..Len(s) |-> IF n = 0 THEN NoQuery ELSE Taken(f[n - 1], s[n])]

\* What the recursion says, place by place.
LEMMA ReadsValues ==
    ASSUME NEW f, NEW s \in Seq(Seq(Nat)), Reads(f, s)
    PROVE  /\ f = [n \in 0..Len(s) |-> f[n]]
           /\ f[0] = NoQuery
           /\ \A n \in 1..Len(s) : f[n] = Taken(f[n - 1], s[n])
<1> DEFINE g == [n \in 0..Len(s) |-> IF n = 0 THEN NoQuery ELSE Taken(f[n - 1], s[n])]
<1>1. f = g
  BY DEF Reads
<1>2. 0 \in 0..Len(s) /\ \A n \in 1..Len(s) : n \in 0..Len(s) /\ n # 0
  OBVIOUS
<1>3. /\ g = [n \in 0..Len(s) |-> g[n]]
      /\ g[0] = NoQuery
      /\ \A n \in 1..Len(s) : g[n] = Taken(f[n - 1], s[n])
  BY <1>2
<1> HIDE DEF g
<1> QED
  BY <1>1, <1>3, Zenon

\* And the other way round.
LEMMA ReadsIs ==
    ASSUME NEW f, NEW s \in Seq(Seq(Nat)),
           f = [n \in 0..Len(s) |-> f[n]], f[0] = NoQuery,
           \A n \in 1..Len(s) : f[n] = Taken(f[n - 1], s[n])
    PROVE  Reads(f, s)
<1>1. \A n \in 0..Len(s) : f[n] = IF n = 0 THEN NoQuery ELSE Taken(f[n - 1], s[n])
  <2> TAKE n \in 0..Len(s)
  <2>1. n = 0 \/ (n # 0 /\ n \in 1..Len(s))
    OBVIOUS
  <2> QED
    BY <2>1
<1>2. f = [n \in 0..Len(s) |-> IF n = 0 THEN NoQuery ELSE Taken(f[n - 1], s[n])]
  BY <1>1
<1> QED
  BY <1>2, Zenon DEF Reads

\* A solution goes on by one step.
LEMMA ReadsExtends ==
    ASSUME NEW s \in Seq(Seq(Nat)), NEW x \in Seq(Nat), NEW f, Reads(f, s)
    PROVE  \E g : /\ Reads(g, Append(s, x))
                  /\ g[Len(s) + 1] = Taken(f[Len(s)], x)
<1> DEFINE l == Len(s)
           t == Append(s, x)
           g == [n \in 0..(l + 1) |-> IF n = l + 1 THEN Taken(f[l], x) ELSE f[n]]
<1>1. /\ l \in Nat /\ t \in Seq(Seq(Nat)) /\ Len(t) = l + 1 /\ t[l + 1] = x
      /\ \A n \in 1..l : t[n] = s[n]
  OBVIOUS
<1>2. f[0] = NoQuery /\ \A n \in 1..l : f[n] = Taken(f[n - 1], s[n])
  BY ReadsValues
<1> HIDE DEF l, t
<1>3. /\ g = [n \in 0..(l + 1) |-> g[n]]
      /\ g[l + 1] = Taken(f[l], x)
      /\ \A n \in 0..l : g[n] = f[n]
  <2>1. l + 1 \in 0..(l + 1) /\ \A n \in 0..l : n \in 0..(l + 1) /\ n # l + 1
    BY <1>1
  <2> QED
    BY <2>1
<1> HIDE DEF g
<1>4. g[0] = NoQuery
  <2>1. 0 \in 0..l
    BY <1>1
  <2> QED
    BY <1>2, <1>3, <2>1
<1>5. ASSUME NEW n \in 1..(l + 1) PROVE g[n] = Taken(g[n - 1], t[n])
  <2>1. n = l + 1 \/ n \in 1..l
    BY <1>1
  <2>2. CASE n = l + 1
    <3>1. n - 1 = l /\ l \in 0..l
      BY <1>1, <2>2
    <3>2. g[n - 1] = f[l] /\ g[n] = Taken(f[l], x) /\ t[n] = x
      BY <1>1, <1>3, <2>2, <3>1
    <3> QED
      BY <3>2
  <2>3. CASE n \in 1..l
    <3>1. n \in 0..l /\ n - 1 \in 0..l
      BY <1>1, <2>3
    <3>2. g[n - 1] = f[n - 1] /\ g[n] = f[n] /\ t[n] = s[n]
      BY <1>1, <1>3, <2>3, <3>1
    <3> QED
      BY <1>2, <2>3, <3>2
  <2> QED
    BY <2>1, <2>2, <2>3
<1>6. Reads(g, t)
  BY <1>1, <1>3, <1>4, <1>5, ReadsIs
<1> QED
  BY <1>3, <1>6 DEF l, t

\* There is a solution for every sequence of elements.
LEMMA ReadsExists ==
    ASSUME NEW s \in Seq(Seq(Nat))
    PROVE  \E f : Reads(f, s)
<1> DEFINE P == {t \in Seq(Seq(Nat)) : \E f : Reads(f, t)}
<1>1. <<>> \in P
  <2> DEFINE e == [n \in {0} |-> NoQuery]
             t == <<>>
  <2>1. t \in Seq(Seq(Nat)) /\ 0..Len(t) = {0} /\ 1..Len(t) = {}
    OBVIOUS
  <2>2. e[0] = NoQuery /\ e = [n \in {0} |-> e[n]]
    OBVIOUS
  <2> HIDE DEF e, t
  <2>3. Reads(e, t)
    BY <2>1, <2>2, ReadsIs
  <2> QED
    BY <2>1, <2>3 DEF t
<1>2. \A t \in Seq(Seq(Nat)) : \A x \in Seq(Nat) : t \in P => Append(t, x) \in P
  BY ReadsExtends
<1> HIDE DEF P
<1>3. Seq(Seq(Nat)) \subseteq P
  BY <1>1, <1>2, SeqInduction
<1> QED
  BY <1>3 DEF P

\* There is one only.
LEMMA ReadsUnique ==
    ASSUME NEW s \in Seq(Seq(Nat)), NEW f, NEW g, Reads(f, s), Reads(g, s)
    PROVE  f = g
<1> DEFINE N == {n \in Nat : n \in 0..Len(s) => f[n] = g[n]}
<1>1. /\ f = [n \in 0..Len(s) |-> f[n]] /\ g = [n \in 0..Len(s) |-> g[n]]
      /\ f[0] = NoQuery /\ g[0] = NoQuery
      /\ \A n \in 1..Len(s) : f[n] = Taken(f[n - 1], s[n])
      /\ \A n \in 1..Len(s) : g[n] = Taken(g[n - 1], s[n])
  BY ReadsValues
<1>2. 0 \in N
  BY <1>1
<1>3. ASSUME NEW n \in Nat, n \in N PROVE n + 1 \in N
  <2> SUFFICES ASSUME n + 1 \in 0..Len(s) PROVE f[n + 1] = g[n + 1]
    OBVIOUS
  <2>1. n + 1 \in 1..Len(s) /\ n \in 0..Len(s) /\ (n + 1) - 1 = n
    OBVIOUS
  <2>2. f[n] = g[n]
    BY <1>3, <2>1
  <2>3. /\ f[n + 1] = Taken(f[(n + 1) - 1], s[n + 1])
        /\ g[n + 1] = Taken(g[(n + 1) - 1], s[n + 1])
    BY <1>1, <2>1
  <2> QED
    BY <2>1, <2>2, <2>3
<1> HIDE DEF N
<1>4. Nat \subseteq N
  BY <1>2, <1>3, Induction
<1>5. \A n \in 0..Len(s) : f[n] = g[n]
  BY <1>4 DEF N
<1> QED
  BY <1>1, <1>5, Zenon

\* What is read is the last value of the one solution.
LEMMA ReadIs ==
    ASSUME NEW s \in Seq(Seq(Nat)), NEW f, Reads(f, s)
    PROVE  Gathered(s) = f[Len(s)]
<1> DEFINE c == CHOOSE g : Reads(g, s)
<1>1. Gathered(s) = c[Len(s)]
  BY DEF Gathered, Reads
<1>2. Reads(c, s)
  OBVIOUS
<1> HIDE DEF c
<1>3. c = f
  BY <1>2, ReadsUnique
<1> QED
  BY <1>1, <1>3

\* Reading begins with no query and goes on element by element.
LEMMA ReadAppend ==
    /\ Gathered(<<>>) = NoQuery
    /\ \A s \in Seq(Seq(Nat)), x \in Seq(Nat) : Gathered(Append(s, x)) = Taken(Gathered(s), x)
<1>1. Gathered(<<>>) = NoQuery
  <2> DEFINE e == <<>>
  <2>1. e \in Seq(Seq(Nat)) /\ Len(e) = 0
    OBVIOUS
  <2> HIDE DEF e
  <2>2. PICK f : Reads(f, e)
    BY <2>1, ReadsExists
  <2>3. Gathered(e) = f[0] /\ f[0] = NoQuery
    BY <2>1, <2>2, ReadIs, ReadsValues
  <2> QED
    BY <2>3 DEF e
<1>2. ASSUME NEW s \in Seq(Seq(Nat)), NEW x \in Seq(Nat)
      PROVE  Gathered(Append(s, x)) = Taken(Gathered(s), x)
  <2>1. PICK f : Reads(f, s)
    BY ReadsExists
  <2>2. PICK g : Reads(g, Append(s, x)) /\ g[Len(s) + 1] = Taken(f[Len(s)], x)
    BY <2>1, ReadsExtends
  <2>3. Append(s, x) \in Seq(Seq(Nat)) /\ Len(Append(s, x)) = Len(s) + 1
    OBVIOUS
  <2>4. Gathered(Append(s, x)) = g[Len(s) + 1] /\ Gathered(s) = f[Len(s)]
    BY <2>1, <2>2, <2>3, ReadIs
  <2> QED
    BY <2>2, <2>4
<1> QED
  BY <1>1, <1>2
\* A field is parsed pair by pair.
LEMMA ParseGrows ==
    ASSUME NEW p \in Seq(Nat), NEW w \in Seq(Ampersands), w # <<>>,
           NEW y \in Seq(Nat), y # <<>>, \A i \in 1..Len(y) : y[i] \notin Ampersands
    PROVE  /\ (p \o w) \o y \in Seq(Nat)
           /\ ParseQuery((p \o w) \o y) = Taken(ParseQuery(p), y)
<1>1. \A s : ParseQuery(s) = Gathered(SplitAmpSemi(s))
  BY DEF ParseQuery, Gathered
<1>2. /\ (p \o w) \o y \in Seq(Nat) /\ SplitAmpSemi(p) \in Seq(Seq(Nat))
      /\ SplitAmpSemi((p \o w) \o y) = Append(SplitAmpSemi(p), y)
  BY SplitSeparated
<1>3. Gathered(Append(SplitAmpSemi(p), y)) = Taken(Gathered(SplitAmpSemi(p)), y)
  BY <1>2, ReadAppend
<1> QED
  BY <1>1, <1>2, <1>3

LEMMA ParseEmpty == ParseQuery(<<>>) = NoQuery
<1>1. \A s : ParseQuery(s) = Gathered(SplitAmpSemi(s))
  BY DEF ParseQuery, Gathered
<1> QED
  BY <1>1, SplitEmpty, ReadAppend

-----------------------------------------------------------------------------
(* A query, and the form it is.                                            *)

Texts == Seq(Octets)
Pairs == [name : Texts, value : Texts]
Items == UNION {[D -> Seq(Texts)] : D \in SUBSET Texts}
Queries == [order : Seq(Texts), items : Items]

\* What a pair gives to a name.
Given(x, name) == IF x.name = name THEN <<x.value>> ELSE <<>>

LEMMA ValuesAppend ==
    ASSUME NEW name
    PROVE  /\ ValuesOf(<<>>, name) = <<>>
           /\ \A s \in Seq(Pairs), x \in Pairs :
                 ValuesOf(Append(s, x), name) = ValuesOf(s, name) \o Given(x, name)
<1> DEFINE image(t) == [i \in DOMAIN t |-> Given(t[i], name)]
<1>1. ASSUME NEW r PROVE ValuesOf(r, name) = FlattenSeq(image(r))
  BY DEF ValuesOf, Mapped, Given
<1>2. ValuesOf(<<>>, name) = <<>>
  <2>1. image(<<>>) = <<>>
    OBVIOUS
  <2> HIDE DEF image
  <2> QED
    BY <1>1, <2>1, FlattenFew
<1>3. ASSUME NEW s \in Seq(Pairs), NEW y \in Pairs
      PROVE  ValuesOf(Append(s, y), name) = ValuesOf(s, name) \o Given(y, name)
  <2> DEFINE t == Append(s, y)
             n == Len(s)
             f == image(s)
             g == image(t)
             x == Given(y, name)
  <2>1. /\ n \in Nat /\ DOMAIN s = 1..n /\ t \in Seq(Pairs) /\ DOMAIN t = 1..(n + 1)
        /\ t[n + 1] = y /\ \A i \in 1..n : t[i] = s[i] /\ s[i] \in Pairs
    OBVIOUS
  <2> HIDE DEF n, t
  <2>2. f = [i \in 1..n |-> Given(s[i], name)] /\ g = [i \in 1..(n + 1) |-> Given(t[i], name)]
    BY <2>1
  <2>3. \A r \in Pairs : Given(r, name) \in Seq(Texts)
    BY DEF Given, Pairs
  <2>4. /\ f \in Seq(Seq(Texts)) /\ Len(f) = n /\ g \in Seq(Seq(Texts)) /\ Len(g) = n + 1
        /\ g[n + 1] = x /\ \A i \in 1..n : g[i] = f[i]
    <3>1. n + 1 \in 1..(n + 1) /\ \A i \in 1..n : i \in 1..(n + 1)
      BY <2>1
    <3>2. \A i \in 1..(n + 1) : t[i] \in Pairs
      BY <2>1
    <3>3. \A i \in 1..(n + 1) : Given(t[i], name) \in Seq(Texts)
      BY <2>3, <3>2
    <3>4. \A i \in 1..n : Given(s[i], name) \in Seq(Texts)
      BY <2>1, <2>3
    <3> HIDE DEF image
    <3> QED
      BY <2>1, <2>2, <3>1, <3>3, <3>4
  <2> HIDE DEF f, g, x, image
  <2>6. FlattenSeq(g) = FlattenSeq(f) \o x
    BY <2>4, FlattenGrows
  <2> QED
    BY <1>1, <2>6 DEF f, g, t, x
<1> QED
  BY <1>2, <1>3

\* The values are texts, and there are none for a name nobody has.
LEMMA ValuesAre ==
    ASSUME NEW s \in Seq(Pairs), NEW name
    PROVE  /\ ValuesOf(s, name) \in Seq(Texts)
           /\ (\A k \in 1..Len(s) : s[k].name # name) => ValuesOf(s, name) = <<>>
<1> DEFINE None(t) == \A k \in 1..Len(t) : t[k].name # name
           P == {t \in Seq(Pairs) : /\ ValuesOf(t, name) \in Seq(Texts)
                                    /\ None(t) => ValuesOf(t, name) = <<>>}
<1>1. <<>> \in P
  <2>1. <<>> \in Seq(Pairs) /\ <<>> \in Seq(Texts)
    OBVIOUS
  <2> QED
    BY <2>1, ValuesAppend
<1>2. ASSUME NEW t \in Seq(Pairs), NEW x \in Pairs, t \in P PROVE Append(t, x) \in P
  <2> DEFINE u == Append(t, x)
  <2>1. /\ u \in Seq(Pairs) /\ Len(u) = Len(t) + 1 /\ Len(t) \in Nat
        /\ u[Len(t) + 1] = x /\ \A k \in 1..Len(t) : u[k] = t[k]
    OBVIOUS
  <2>2. ValuesOf(u, name) = ValuesOf(t, name) \o Given(x, name)
    BY ValuesAppend
  <2> HIDE DEF u
  <2>3. Given(x, name) \in Seq(Texts) /\ (x.name # name => Given(x, name) = <<>>)
    BY DEF Given, Pairs
  <2>4. ValuesOf(u, name) \in Seq(Texts)
    BY <1>2, <2>2, <2>3
  <2>5. ASSUME None(u) PROVE ValuesOf(u, name) = <<>>
    <3>1. None(t) /\ x.name # name
      BY <2>1, <2>5
    <3>2. ValuesOf(t, name) = <<>> /\ Given(x, name) = <<>>
      BY <1>2, <2>3, <3>1
    <3> QED
      BY <2>2, <3>2
  <2>6. u \in P
    BY <2>1, <2>4, <2>5
  <2> QED
    BY <2>6 DEF u
<1> HIDE DEF P
<1>3. Seq(Pairs) \subseteq P
  BY <1>1, <1>2, SeqInduction
<1> QED
  BY <1>3 DEF P

\* The names of a sequence of pairs.
NamesOf(pairs) == {pairs[k].name : k \in DOMAIN pairs}

\* The first of one name comes before the first of another.
Sooner(pairs, m, n) ==
    \E k \in DOMAIN pairs : pairs[k].name = m /\ \A l \in 1..k : pairs[l].name # n

LEMMA IsFormMeans ==
    ASSUME NEW query, NEW pairs
    PROVE  IsFormOf(query, pairs) <=>
              /\ Range(query.order) = NamesOf(pairs)
              /\ DOMAIN query.items = Range(query.order)
              /\ \A i, j \in DOMAIN query.order :
                    i < j => Sooner(pairs, query.order[i], query.order[j])
              /\ \A name \in DOMAIN query.items : query.items[name] = ValuesOf(pairs, name)
BY DEF IsFormOf, NamesOf, Sooner

\* The names of one pair more.
LEMMA NamesAppend ==
    ASSUME NEW s \in Seq(Pairs), NEW x \in Pairs
    PROVE  /\ NamesOf(Append(s, x)) = NamesOf(s) \cup {x.name}
           /\ \A m, n : Sooner(s, m, n) => Sooner(Append(s, x), m, n)
           /\ \A m \in NamesOf(s) : \A n : n \notin NamesOf(s) => Sooner(Append(s, x), m, n)
<1> DEFINE t == Append(s, x)
           l == Len(s)
<1>1. /\ l \in Nat /\ DOMAIN s = 1..l /\ DOMAIN t = 1..(l + 1)
      /\ t[l + 1] = x /\ \A k \in 1..l : t[k] = s[k]
  OBVIOUS
<1> HIDE DEF t, l
<1>2. 1..(l + 1) = (1..l) \cup {l + 1}
  BY <1>1
<1>3. NamesOf(t) = NamesOf(s) \cup {x.name}
  BY <1>1, <1>2 DEF NamesOf
<1>4. ASSUME NEW k \in 1..l, NEW n, \A i \in 1..k : s[i].name # n
      PROVE  k \in 1..(l + 1) /\ t[k].name = s[k].name /\ \A i \in 1..k : t[i].name # n
  <2>1. \A i \in 1..k : i \in 1..l
    BY <1>1
  <2> QED
    BY <1>1, <1>2, <1>4, <2>1
<1>5. ASSUME NEW m, NEW n, Sooner(s, m, n) PROVE Sooner(t, m, n)
  <2>1. PICK k \in 1..l : s[k].name = m /\ \A i \in 1..k : s[i].name # n
    BY <1>1, <1>5 DEF Sooner
  <2>2. k \in 1..(l + 1) /\ t[k].name = m /\ \A i \in 1..k : t[i].name # n
    BY <1>4, <2>1
  <2> QED
    BY <1>1, <2>2 DEF Sooner
<1>6. ASSUME NEW m \in NamesOf(s), NEW n, n \notin NamesOf(s) PROVE Sooner(t, m, n)
  <2>1. PICK k \in 1..l : s[k].name = m
    BY <1>1 DEF NamesOf
  <2>2. \A i \in 1..l : s[i].name # n
    BY <1>1, <1>6 DEF NamesOf
  <2>3. \A i \in 1..k : s[i].name # n
    BY <1>1, <2>2
  <2>4. k \in 1..(l + 1) /\ t[k].name = m /\ \A i \in 1..k : t[i].name # n
    BY <1>4, <2>1, <2>3
  <2> QED
    BY <1>1, <2>4 DEF Sooner
<1> QED
  BY <1>3, <1>5, <1>6 DEF t

LEMMA ItemsReplaced ==
    \A o, m, r : [[order |-> o, items |-> m] EXCEPT !.items = r] = [order |-> o, items |-> r]
<1> SUFFICES ASSUME NEW o, NEW m, NEW r
             PROVE  [[order |-> o, items |-> m] EXCEPT !.items = r] = [order |-> o, items |-> r]
  OBVIOUS
<1> DEFINE q == [[order |-> o, items |-> m] EXCEPT !.items = r]
           w == [order |-> o, items |-> r]
<1>1. DOMAIN q = {"order", "items"} /\ q.order = o /\ q.items = r
  OBVIOUS
<1>2. DOMAIN w = {"order", "items"} /\ w.order = o /\ w.items = r
  OBVIOUS
<1> QED
  BY <1>1, <1>2

\* A query that is a form becomes the form of one pair more.
LEMMA InsertedIs ==
    ASSUME NEW query \in Queries, NEW s \in Seq(Pairs), IsFormOf(query, s),
           NEW name \in Texts, NEW value \in Texts
    PROVE  /\ Inserted(query, name, value) \in Queries
           /\ IsFormOf(Inserted(query, name, value),
                       Append(s, [name |-> name, value |-> value]))
<1> DEFINE x == [name |-> name, value |-> value]
           t == Append(s, x)
           q == Inserted(query, name, value)
           o == query.order
           items == query.items
<1>1. x \in Pairs /\ x.name = name /\ x.value = value
  BY DEF Pairs
<1> HIDE DEF x
<1>2. t \in Seq(Pairs)
  BY <1>1
<1>3. /\ NamesOf(t) = NamesOf(s) \cup {name}
      /\ \A m, n : Sooner(s, m, n) => Sooner(t, m, n)
      /\ \A m \in NamesOf(s) : \A n : n \notin NamesOf(s) => Sooner(t, m, n)
  BY <1>1, NamesAppend
<1>4. ASSUME NEW n
      PROVE  ValuesOf(t, n) = ValuesOf(s, n) \o (IF n = name THEN <<value>> ELSE <<>>)
  <2>1. ValuesOf(t, n) = ValuesOf(s, n) \o Given(x, n)
    BY <1>1, ValuesAppend
  <2>2. Given(x, n) = IF n = name THEN <<value>> ELSE <<>>
    BY <1>1 DEF Given
  <2> QED
    BY <2>1, <2>2
<1>5. /\ Range(o) = NamesOf(s) /\ DOMAIN items = Range(o)
      /\ \A i, j \in DOMAIN o : i < j => Sooner(s, o[i], o[j])
      /\ \A n \in DOMAIN items : items[n] = ValuesOf(s, n)
  BY IsFormMeans
<1>6. o \in Seq(Texts) /\ items \in Items /\ query = [order |-> o, items |-> items]
  BY DEF Queries
<1>7. PICK D \in SUBSET Texts : items \in [D -> Seq(Texts)]
  BY <1>6 DEF Items
<1>8. \A n : ValuesOf(s, n) \in Seq(Texts)
  BY ValuesAre
<1>9. DOMAIN items = D
  BY <1>7
<1> HIDE DEF t, o, items
<1>10. CASE name \in D
  <2> DEFINE r == [items EXCEPT ![name] = Append(@, value)]
  <2>1. q = [order |-> o, items |-> r]
    <3>1. name \in DOMAIN query.items
      BY <1>9, <1>10 DEF items
    <3>2. q = [query EXCEPT !.items[name] = Append(@, value)]
      BY <3>1 DEF Inserted
    <3> DEFINE record == [order |-> o, items |-> items]
    <3>3. [record EXCEPT !.items[name] = Append(@, value)] = [order |-> o, items |-> r]
      <4>1. record.items = items
        OBVIOUS
      <4>2. [record EXCEPT !.items = r] = [order |-> o, items |-> r]
        BY ItemsReplaced
      <4> QED
        BY <4>1, <4>2
    <3>4. query = record
      BY <1>6
    <3> HIDE DEF record, r
    <3>5. [query EXCEPT !.items[name] = Append(@, value)] = [order |-> o, items |-> r]
      BY <3>3, <3>4
    <3> QED
      BY <3>2, <3>5
  <2>2. Append(items[name], value) \in Seq(Texts)
    BY <1>7, <1>10
  <2>3. /\ r \in [D -> Seq(Texts)] /\ r[name] = Append(items[name], value)
        /\ \A n \in D \ {name} : r[n] = items[n]
    BY <1>7, <1>10, <2>2
  <2> HIDE DEF r, q
  <2>4. q.order = o /\ q.items = r
    BY <2>1
  <2>5. r \in Items
    BY <2>3 DEF Items
  <2>6. q \in Queries
    BY <1>6, <2>1, <2>5 DEF Queries
  <2>7. NamesOf(t) = NamesOf(s)
    BY <1>3, <1>5, <1>9, <1>10
  <2>8. DOMAIN r = D
    BY <2>3
  <2>9. ASSUME NEW n \in D PROVE r[n] = ValuesOf(t, n)
    <3>1. CASE n = name
      <4>1. ValuesOf(t, n) = ValuesOf(s, n) \o <<value>>
        BY <1>4, <3>1
      <4>2. ValuesOf(s, n) \o <<value>> = Append(ValuesOf(s, n), value)
        BY <1>8
      <4>3. items[n] = ValuesOf(s, n)
        BY <1>5, <1>9
      <4> QED
        BY <2>3, <3>1, <4>1, <4>2, <4>3
    <3>2. CASE n # name
      <4>1. ValuesOf(t, n) = ValuesOf(s, n) \o <<>>
        BY <1>4, <3>2
      <4>2. ValuesOf(s, n) \o <<>> = ValuesOf(s, n)
        BY <1>8
      <4>3. items[n] = ValuesOf(s, n)
        BY <1>5, <1>9
      <4> QED
        BY <2>3, <3>2, <4>1, <4>2, <4>3
    <3> QED
      BY <3>1, <3>2
  <2>10. \A i, j \in DOMAIN o : i < j => Sooner(t, o[i], o[j])
    BY <1>3, <1>5
  <2>11. IsFormOf(q, t)
    BY <1>5, <1>9, <2>4, <2>7, <2>8, <2>9, <2>10, IsFormMeans
  <2> QED
    BY <2>6, <2>11 DEF t, x, q
<1>11. CASE name \notin D
  <2> DEFINE p == Append(o, name)
             l == Len(o)
             r == [n \in D \cup {name} |-> IF n = name THEN <<value>> ELSE items[n]]
  <2>1. q = [order |-> p, items |-> r]
    <3>1. name \notin DOMAIN query.items
      BY <1>9, <1>11 DEF items
    <3>2. q = [order |-> Append(query.order, name),
               items |-> [n \in DOMAIN query.items \cup {name} |->
                              IF n = name THEN <<value>> ELSE query.items[n]]]
      BY <3>1 DEF Inserted
    <3> QED
      BY <1>9, <3>2 DEF o, items
  <2>2. /\ p \in Seq(Texts) /\ l \in Nat /\ DOMAIN o = 1..l /\ DOMAIN p = 1..(l + 1)
        /\ p[l + 1] = name /\ \A i \in 1..l : p[i] = o[i]
    BY <1>6
  <2>3. /\ r \in [D \cup {name} -> Seq(Texts)] /\ DOMAIN r = D \cup {name}
        /\ r[name] = <<value>> /\ \A n \in D : r[n] = items[n]
    <3>1. <<value>> \in Seq(Texts) /\ \A n \in D : items[n] \in Seq(Texts) /\ n # name
      BY <1>7, <1>11
    <3> QED
      BY <3>1
  <2> HIDE DEF r, q, p, l
  <2>4. q.order = p /\ q.items = r
    BY <2>1
  <2>5. r \in Items
    <3>1. D \cup {name} \in SUBSET Texts
      OBVIOUS
    <3> QED
      BY <2>3, <3>1 DEF Items
  <2>6. q \in Queries
    BY <2>1, <2>2, <2>5 DEF Queries
  <2>7. Range(p) = NamesOf(t) /\ Range(p) = D \cup {name}
    <3>1. 1..(l + 1) = (1..l) \cup {l + 1}
      BY <2>2
    <3>2. Range(p) = Range(o) \cup {name}
      BY <2>2, <3>1 DEF Range
    <3> QED
      BY <1>3, <1>5, <1>9, <3>2
  <2>8. ASSUME NEW n \in D \cup {name} PROVE r[n] = ValuesOf(t, n)
    <3>1. CASE n = name
      <4>1. \A k \in 1..Len(s) : s[k].name # name
        <5>1. DOMAIN s = 1..Len(s)
          OBVIOUS
        <5> QED
          BY <1>5, <1>9, <1>11, <5>1 DEF NamesOf
      <4>2. ValuesOf(s, name) = <<>>
        BY <4>1, ValuesAre
      <4>3. ValuesOf(t, name) = <<>> \o <<value>>
        BY <1>4, <4>2
      <4>4. <<>> \o <<value>> = <<value>>
        OBVIOUS
      <4> QED
        BY <2>3, <3>1, <4>3, <4>4
    <3>2. CASE n # name
      <4>1. ValuesOf(t, n) = ValuesOf(s, n) \o <<>>
        BY <1>4, <3>2
      <4>2. ValuesOf(s, n) \o <<>> = ValuesOf(s, n)
        BY <1>8
      <4>3. n \in D /\ items[n] = ValuesOf(s, n)
        BY <1>5, <1>9, <3>2
      <4> QED
        BY <2>3, <4>1, <4>2, <4>3
    <3> QED
      BY <3>1, <3>2
  <2>9. ASSUME NEW i \in DOMAIN p, NEW j \in DOMAIN p, i < j
        PROVE  Sooner(t, p[i], p[j])
    <3>1. i \in 1..l /\ (j \in 1..l \/ j = l + 1)
      BY <2>2, <2>9
    <3>2. p[i] = o[i]
      BY <2>2, <3>1
    <3>3. CASE j \in 1..l
      BY <1>3, <1>5, <2>2, <2>9, <3>1, <3>2, <3>3
    <3>4. CASE j = l + 1
      <4>1. o[i] \in NamesOf(s)
        BY <1>5, <2>2, <3>1 DEF Range
      <4>2. name \notin NamesOf(s)
        BY <1>5, <1>9, <1>11
      <4>3. Sooner(t, o[i], name)
        BY <1>3, <4>1, <4>2
      <4> QED
        BY <2>2, <3>2, <3>4, <4>3
    <3> QED
      BY <3>1, <3>3, <3>4
  <2>10. IsFormOf(q, t)
    BY <2>3, <2>4, <2>7, <2>8, <2>9, IsFormMeans
  <2> QED
    BY <2>6, <2>10 DEF t, x, q
<1> QED
  BY <1>10, <1>11

-----------------------------------------------------------------------------
(* The invariant.                                                          *)

\* What is parsed of a field is the form behind it, and the query kept is the
\* form that was there at the first call.
FormInv ==
    /\ field \in [Fields -> Seq(Nat)] /\ sent \in [Fields -> Seq(Pairs)]
    /\ \A f \in Fields : ParseQuery(field[f]) \in Queries
    /\ FormArrives
    /\ QueryIsTheFirst

LEMMA NoQueryIs == NoQuery \in Queries /\ IsFormOf(NoQuery, <<>>)
<1> DEFINE e == <<>>
           m == [name \in {} |-> <<>>]
<1>1. NoQuery.order = e /\ NoQuery.items = m /\ NoQuery = [order |-> e, items |-> m]
  BY DEF NoQuery
<1>2. e \in Seq(Texts) /\ m \in [{} -> Seq(Texts)] /\ DOMAIN m = {} /\ DOMAIN e = {}
  OBVIOUS
<1>3. {} \in SUBSET Texts
  OBVIOUS
<1> HIDE DEF e, m
<1>4. m \in Items
  BY <1>2, <1>3 DEF Items
<1>5. Range(e) = {} /\ NamesOf(e) = {}
  BY <1>2 DEF Range, NamesOf
<1>6. IsFormOf(NoQuery, e)
  BY <1>1, <1>2, <1>5, IsFormMeans
<1> QED
  BY <1>1, <1>2, <1>4, <1>6 DEF Queries, e

LEMMA FormInvInit == FormInit => FormInv
<1> SUFFICES ASSUME FormInit PROVE FormInv
  OBVIOUS
<1> DEFINE e == <<>>
<1>1. /\ field = [f \in Fields |-> e] /\ sent = [f \in Fields |-> e] /\ memo = <<>>
      /\ e \in Seq(Nat) /\ e \in Seq(Pairs)
  BY DEF FormInit
<1>2. ParseQuery(e) = NoQuery /\ NoQuery \in Queries /\ IsFormOf(NoQuery, e)
  BY ParseEmpty, NoQueryIs
<1> HIDE DEF e
<1> QED
  BY <1>1, <1>2 DEF FormInv, FormArrives, QueryIsTheFirst

\* One pair more is one value more in the query.
LEMMA AssignKeeps ==
    ASSUME FormInv, NEW f \in Fields, Assign(f)
    PROVE  FormInv'
<1>1. PICK name \in FormNames, value \in FormValues, separator \in Separators :
         /\ field' = [field EXCEPT ![f] = @ \o separator \o Pair(name, value)]
         /\ sent' = [sent EXCEPT ![f] = Append(@, [name |-> name, value |-> value])]
  BY DEF Assign
<1> DEFINE p == field[f]
           s == sent[f]
           y == Pair(name, value)
           q == (p \o separator) \o y
           x == [name |-> name, value |-> value]
<1>2. /\ name \in Texts /\ name # <<>> /\ value \in Texts
      /\ separator \in Seq(Ampersands) /\ separator # <<>>
  BY TextsAssumption, NamesAssumption, SeparatorsAssumption DEF Texts, Octets
<1>3. /\ y \in Seq(Nat) /\ y # <<>> /\ \A i \in 1..Len(y) : y[i] \notin Ampersands
      /\ KeyOf(y) = name /\ ValueOf(y) = value
  BY <1>2, PairIs DEF Texts
<1>4. /\ p \in Seq(Nat) /\ s \in Seq(Pairs) /\ ParseQuery(p) \in Queries
      /\ IsFormOf(ParseQuery(p), s)
  BY DEF FormInv, FormArrives
<1> HIDE DEF y, p, s
<1>5. q \in Seq(Nat) /\ ParseQuery(q) = Taken(ParseQuery(p), y)
  BY <1>2, <1>3, <1>4, ParseGrows
<1>6. Taken(ParseQuery(p), y) = Inserted(ParseQuery(p), name, value)
  BY <1>3 DEF Taken
<1>7. ParseQuery(q) \in Queries /\ IsFormOf(ParseQuery(q), Append(s, x))
  BY <1>2, <1>4, <1>5, <1>6, InsertedIs
<1>8. Append(s, x) \in Seq(Pairs)
  <2>1. x \in Pairs
    BY <1>2 DEF Pairs
  <2> HIDE DEF x
  <2> QED
    BY <1>4, <2>1
<1>9. /\ field' = [field EXCEPT ![f] = q] /\ sent' = [sent EXCEPT ![f] = Append(s, x)]
      /\ UNCHANGED <<memo, first>>
  BY <1>1 DEF Assign, p, s, y
<1> HIDE DEF q, x
<1>10. field \in [Fields -> Seq(Nat)] /\ sent \in [Fields -> Seq(Pairs)]
  BY DEF FormInv
<1>11. field' \in [Fields -> Seq(Nat)] /\ sent' \in [Fields -> Seq(Pairs)]
  BY <1>5, <1>8, <1>9, <1>10
<1>12. ASSUME NEW g \in Fields
       PROVE  ParseQuery(field'[g]) \in Queries /\ IsFormOf(ParseQuery(field'[g]), sent'[g])
  <2>1. CASE g = f
    <3>1. field'[g] = q /\ sent'[g] = Append(s, x)
      BY <1>9, <1>10, <2>1
    <3> QED
      BY <1>7, <3>1 DEF x
  <2>2. CASE g # f
    <3>1. field'[g] = field[g] /\ sent'[g] = sent[g]
      BY <1>9, <1>10, <2>2
    <3> QED
      BY <3>1 DEF FormInv, FormArrives
  <2> QED
    BY <2>1, <2>2
<1>13. QueryIsTheFirst'
  <2>1. QueryIsTheFirst
    BY DEF FormInv
  <2> QED
    BY <1>9, <2>1 DEF QueryIsTheFirst
<1> QED
  BY <1>11, <1>12, <1>13 DEF FormInv, FormArrives

\* The first call keeps the form of its source; the others change nothing.
LEMMA QueryKeeps ==
    ASSUME FormInv, Query
    PROVE  FormInv'
<1>1. UNCHANGED <<field, sent>>
  BY DEF Query
<1>2. FormArrives' /\ (\A f \in Fields : ParseQuery(field[f]) \in Queries)'
  BY <1>1 DEF FormInv, FormArrives
<1>3. CASE memo # <<>>
  <2>1. UNCHANGED <<memo, first>>
    BY <1>3 DEF Query
  <2>2. QueryIsTheFirst
    BY DEF FormInv
  <2>3. QueryIsTheFirst'
    BY <2>1, <2>2 DEF QueryIsTheFirst
  <2> QED
    BY <1>1, <1>2, <2>3 DEF FormInv
<1>4. CASE memo = <<>>
  <2> DEFINE at == Sources(method, form)
  <2>1. memo' = <<Parsed>> /\ first' = <<[at |-> at, sent |-> sent]>>
    BY <1>4 DEF Query
  <2>2. memo'[1] = Parsed /\ first'[1].at = at /\ first'[1].sent = sent
    BY <2>1
  <2>3. CASE at = {}
    <3>1. Parsed = NoQuery
      BY <2>3 DEF Parsed
    <3>2. QueryIsTheFirst'
      BY <2>2, <2>3, <3>1 DEF QueryIsTheFirst
    <3> QED
      BY <1>1, <1>2, <3>2 DEF FormInv
  <2>4. CASE at # {}
    <3>1. PICK f \in Fields : at = {f}
      BY <2>4 DEF Sources, Fields
    <3>2. (CHOOSE g \in at : TRUE) = f
      BY <3>1
    <3>3. Parsed = ParseQuery(field[f])
      BY <2>4, <3>2 DEF Parsed
    <3>4. IsFormOf(Parsed, sent[f])
      BY <3>3 DEF FormInv, FormArrives
    <3> HIDE DEF at
    <3>5. \A g \in first'[1].at : IsFormOf(memo'[1], first'[1].sent[g])
      BY <2>2, <3>1, <3>4
    <3>6. QueryIsTheFirst'
      BY <2>2, <2>4, <3>5 DEF QueryIsTheFirst
    <3> QED
      BY <1>1, <1>2, <3>6 DEF FormInv
  <2> QED
    BY <2>3, <2>4
<1> QED
  BY <1>3, <1>4

LEMMA FormInvStep == FormInv /\ [QNext]_formvars => FormInv'
<1> SUFFICES ASSUME FormInv, [QNext]_formvars PROVE FormInv'
  OBVIOUS
<1>1. CASE \E f \in Fields : Assign(f)
  BY <1>1, AssignKeeps
<1>2. CASE Query
  BY <1>2, QueryKeeps
<1>3. CASE UNCHANGED formvars
  <2>1. UNCHANGED <<field, sent, memo, first>>
    BY <1>3 DEF formvars
  <2> QED
    BY <2>1 DEF FormInv, FormArrives, QueryIsTheFirst
<1> QED
  BY <1>1, <1>2, <1>3 DEF QNext

LEMMA FormInvHolds == FormSpec => []FormInv
<1>1. FormInit => FormInv
  BY FormInvInit
<1>2. FormInv /\ [QNext]_formvars => FormInv'
  BY FormInvStep
<1> QED
  BY <1>1, <1>2, PTL DEF FormSpec

(***************************************************************************)
(* What ParseQuery makes of a field is the form behind it, value by value  *)
(* and in the order sent: for forms of every length, of every text of      *)
(* bytes, under every run of separators.                                   *)
(***************************************************************************)
THEOREM EveryFormArrives == FormSpec => []FormArrives
<1>1. FormInv => FormArrives
  BY DEF FormInv
<1> QED
  BY <1>1, FormInvHolds, PTL

(***************************************************************************)
(* Request.Query stays what the first call found, whatever is assigned to  *)
(* QueryString and Body afterwards.                                        *)
(***************************************************************************)
THEOREM QueryStaysTheFirst == FormSpec => []QueryIsTheFirst
<1>1. FormInv => QueryIsTheFirst
  BY DEF FormInv
<1> QED
  BY <1>1, FormInvHolds, PTL

-----------------------------------------------------------------------------
(* The readers in one behaviour.                                           *)

\* A name is a text while it is put together.
NameIsText == kind = "name" => text \in Seq(Nat)

LEMMA NameIsTextHolds == VSpec => []NameIsText
<1>1. VInit => NameIsText
  <2>1. Begun0["name"] = <<>> /\ <<>> \in Seq(Nat)
    BY DEF Begun0
  <2> QED
    BY <2>1 DEF VInit, NameIsText
<1>2. NameIsText /\ [VNext]_all => NameIsText'
  <2> SUFFICES ASSUME NameIsText, [VNext]_all, kind' = "name" PROVE text' \in Seq(Nat)
    BY DEF NameIsText
  <2>1. CASE UNCHANGED client
    BY <2>1 DEF NameIsText, client
  <2>2. CASE ClientNext
    <3>1. CASE GrowName
      <4>1. PICK c \in NameCharacters : text' = Append(text, c)
        BY <3>1 DEF GrowName
      <4>2. text \in Seq(Nat) /\ c \in Nat
        BY <3>1, <4>1, PatternsAssumption DEF GrowName, NameIsText
      <4> QED
        BY <4>1, <4>2
    <3>2. CASE SendElement \/ SendEntry \/ SendRange
      BY <3>2 DEF SendElement, SendEntry, SendRange, Send
    <3>3. CASE NewField \/ AddItem \/ GrowTarget
      BY <3>3 DEF NewField, AddItem, GrowTarget
    <3> QED
      BY <2>2, <3>1, <3>2, <3>3 DEF ClientNext
  <2> QED
    BY <2>1, <2>2 DEF VNext, all
<1> QED
  BY <1>1, <1>2, PTL DEF VSpec

(***************************************************************************)
(* globMatch, which forgets every star but the last, says of a name what   *)
(* the cuttings of the name say: for patterns and names of any length and  *)
(* of any characters, a "*" in the name apart.                             *)
(***************************************************************************)
THEOREM PatternsAlwaysCover == VSpec => []PatternsCover
<1>1. NameIsText => PatternsCover
  <2> SUFFICES ASSUME text \in Seq(Nat), NEW pattern \in Patterns
               PROVE  IF Contains(text, Star)
                      THEN GlobMatch(pattern, text) => Covers(pattern, text)
                      ELSE GlobMatch(pattern, text) <=> Covers(pattern, text)
    BY Zenon DEF NameIsText, PatternsCover
  <2>1. pattern \in Seq(Nat)
    BY PatternsAssumption
  <2>2. ~Contains(text, Star) => \A i \in 1..Len(text) : text[i] # Star
    BY Zenon DEF Contains
  <2>3. /\ GlobMatch(pattern, text) => Covers(pattern, text)
        /\ (\A i \in 1..Len(text) : text[i] # Star) /\ Covers(pattern, text)
              => GlobMatch(pattern, text)
    BY <2>1, GlobCovers, Zenon
  <2> QED
    BY <2>2, <2>3, Zenon
<1> QED
  BY <1>1, NameIsTextHolds, PTL

\* A path is rewritten in a run of the readers as NormalizePath alone does it.
LEMMA NInvOfValues == VSpec => []NInv
<1>1. VInit => NInv
  BY NInvInit DEF VInit
<1>2. [VNext]_all => [NNext]_vars
  BY Zenon DEF VNext, all
<1>3. NInv /\ [VNext]_all => NInv'
  BY <1>2, NInvStep
<1> QED
  BY <1>1, <1>3, PTL DEF VSpec

\* No rewriting of a path changes what it means, whatever else is read.
THEOREM PathsKeepTheirMeaning == VSpec => []RewritingKeepsMeaning
<1>1. NInv => RewritingKeepsMeaning
  BY DEF NInv
<1> QED
  BY <1>1, NInvOfValues, PTL

\* A path is normalised as its walk says, whatever else is read.
THEOREM ValuesImplementMeaning == VSpec => ImplementsMeaning
<1>1. VInit => Asked!AInit
  BY NInitImplements DEF VInit
<1>2. [VNext]_all => [NNext]_vars
  BY Zenon DEF VNext, all
<1>3. NInv /\ NInv' /\ [VNext]_all
         => [Asked!Normalise]_<<path, IF stage = "returned" THEN <<ret>> ELSE <<>> >>
  BY <1>2, NStepImplements
<1> QED
  BY <1>1, <1>3, NInvOfValues, PTL DEF VSpec, ImplementsMeaning, Asked!ASpec

\* A form is read in a run of the readers as FormQuery alone does it.
LEMMA FormInvOfValues == VSpec => []FormInv
<1>1. VInit => FormInv
  BY FormInvInit DEF VInit
<1>2. [VNext]_all => [QNext]_formvars
  BY Zenon DEF VNext, all
<1>3. FormInv /\ [VNext]_all => FormInv'
  BY <1>2, FormInvStep
<1> QED
  BY <1>1, <1>3, PTL DEF VSpec

\* What ParseQuery makes of a field is the form behind it, whatever else is read.
THEOREM FormsArrive == VSpec => []FormArrives
<1>1. FormInv => FormArrives
  BY DEF FormInv
<1> QED
  BY <1>1, FormInvOfValues, PTL

\* Request.Query stays what the first call found, whatever else is read.
THEOREM QueriesStayTheFirst == VSpec => []QueryIsTheFirst
<1>1. FormInv => QueryIsTheFirst
  BY DEF FormInv
<1> QED
  BY <1>1, FormInvOfValues, PTL


\* A target is a text of bytes while it is put together.
TargetIsText == kind = "target" => text \in Seq(Octets)

LEMMA TargetIsTextHolds == VSpec => []TargetIsText
<1>1. VInit => TargetIsText
  <2>1. Begun0["target"] = <<>> /\ <<>> \in Seq(Octets)
    BY DEF Begun0
  <2> QED
    BY <2>1 DEF VInit, TargetIsText
<1>2. TargetIsText /\ [VNext]_all => TargetIsText'
  <2> SUFFICES ASSUME TargetIsText, [VNext]_all, kind' = "target" PROVE text' \in Seq(Octets)
    BY DEF TargetIsText
  <2>1. CASE UNCHANGED client
    BY <2>1 DEF TargetIsText, client
  <2>2. CASE ClientNext
    <3>1. CASE GrowTarget
      <4>1. kind = "target" /\ \E piece \in PathPieces["target"] : text' = text \o piece
        BY <3>1 DEF GrowTarget
      <4>2. PICK piece \in PathPieces["target"] : text' = text \o piece
        BY <4>1
      <4>3. text \in Seq(Octets) /\ piece \in Seq(Octets)
        BY <4>1, PathPiecesAssumption DEF TargetIsText, Octets
      <4> QED
        BY <4>2, <4>3
    <3>2. CASE SendElement \/ SendEntry \/ SendRange
      BY <3>2 DEF SendElement, SendEntry, SendRange, Send
    <3>3. CASE NewField \/ AddItem \/ GrowName
      BY <3>3 DEF NewField, AddItem, GrowName
    <3> QED
      BY <2>2, <3>1, <3>2, <3>3 DEF ClientNext
  <2> QED
    BY <2>1, <2>2 DEF VNext, all
<1> QED
  BY <1>1, <1>2, PTL DEF VSpec

(***************************************************************************)
(* Whatever normal path a client sends through EscapePath or Escape, any   *)
(* bytes in its names, is the path parseURI finds, and the query after it  *)
(* is the query.                                                           *)
(***************************************************************************)
THEOREM EncodedPathsArrive == VSpec => []EncodedPathArrives
<1>1. TargetIsText => EncodedPathArrives
  <2> SUFFICES ASSUME text \in Seq(Octets), text # <<>>, Meaning(text) = text
               PROVE  LET uri == ParseURI(EscapePath(text) \o <<Question>> \o text, <<>>)
                          bare == ParseURI(Escape(text), <<>>)
                      IN /\ uri.ok /\ uri.path = text
                         /\ uri.query = IF Escape8bitURI THEN Escape8bit(text) ELSE text
                         /\ ~Contains(text, Question) => bare.ok /\ bare.path = text
    BY Zenon DEF TargetIsText, EncodedPathArrives
  <2> DEFINE e == EscapePath(text)
             q == <<Question>>
             t == (e \o q) \o text
  <2>1. Absolute(text)
    BY DEF Meaning, Abnormal
  <2>2. text \in Paths /\ Abnormal = <<>> /\ Question \in Octets /\ Unasked \subseteq Octets
        /\ Question \in Nat
    BY <2>1, OctetsAre DEF Absolute, Paths, Abnormal, Question, Octets, Unasked
  <2>3. e \in Seq(Unasked) /\ Unescape(e) = text /\ Absolute(e)
    BY <2>2, EscapedPathIs
  <2> HIDE DEF e
  <2>4. e \in Seq(Octets) /\ e # <<>> /\ e[1] = Slash /\ q \in Seq(Octets)
    <3>1. e \in Seq(Octets)
      BY <2>2, <2>3, SeqWidens
    <3>2. e # <<>> /\ e[1] = Slash
      BY <2>3 DEF Absolute
    <3>3. q \in Seq(Octets)
      BY <2>2
    <3> QED
      BY <3>1, <3>2, <3>3
  <2>5. e \o q \in Seq(Octets) /\ e \o q # <<>> /\ (e \o q)[1] = Slash
    <3> HIDE DEF q
    <3> QED
      BY <2>4
  <2>6. t \in Seq(Octets) /\ Absolute(t)
    <3> DEFINE c == e \o q
    <3>1. c \in Seq(Octets) /\ c # <<>> /\ c[1] = Slash
      BY <2>5
    <3> HIDE DEF c
    <3>2. c \o text \in Seq(Octets) /\ c \o text # <<>> /\ (c \o text)[1] = Slash
      BY <3>1
    <3> QED
      BY <3>2 DEF c, Absolute
  <2>7. PathOf(t) = e /\ QueryOf(t) = text
    BY <2>3, PartsTarget
  <2> HIDE DEF t
  <2>8. Decoded(PathOf(t)) = text
    BY <2>3, <2>7 DEF Decoded
  <2> DEFINE uri == ParseURI(t, <<>>)
             place == Decoded(PathOf(t))
  <2>9. /\ uri.ok <=> place # Abnormal
        /\ uri.ok => /\ uri.path = place
                     /\ uri.query = IF Escape8bitURI THEN Escape8bit(QueryOf(t))
                                    ELSE QueryOf(t)
    BY <2>6, TargetIs
  <2> HIDE DEF uri
  <2>10. /\ uri.ok /\ uri.path = text
         /\ uri.query = IF Escape8bitURI THEN Escape8bit(text) ELSE text
    BY <2>2, <2>7, <2>8, <2>9
  <2> DEFINE b == Escape(text)
             bare == ParseURI(b, <<>>)
  <2>11. ASSUME ~Contains(text, Question) PROVE bare.ok /\ bare.path = text
    <3>1. \A i \in 1..Len(text) : text[i] # Question
      BY <2>11, Zenon DEF Contains
    <3>2. text \in Seq(Unasked)
      <4>1. \A i \in 1..Len(text) : text[i] \in Unasked
        BY <3>1 DEF Unasked
      <4> QED
        BY <4>1
    <3>3. b \in Seq(Unasked) /\ Unescape(b) = text /\ Absolute(b)
      BY <2>1, <3>2, EscapedTextIs
    <3> HIDE DEF b
    <3>4. b \in Seq(Octets) /\ PathOf(b) = b
      BY <2>2, <3>3, SeqWidens, PartsTarget
    <3>5. Decoded(PathOf(b)) = text
      BY <3>3, <3>4 DEF Decoded
    <3>6. /\ bare.ok <=> Decoded(PathOf(b)) # Abnormal
          /\ bare.ok => bare.path = Decoded(PathOf(b))
      BY <3>3, <3>4, TargetIs
    <3> HIDE DEF bare
    <3> QED
      BY <2>2, <3>5, <3>6
  <2> QED
    BY <2>10, <2>11, Zenon DEF uri, t, bare, b, e
<1> QED
  BY <1>1, TargetIsTextHolds, PTL

-----------------------------------------------------------------------------
(* Lists of elements.                                                      *)

\* The mode after the n-th character of a text.
Turn(before, s, n) ==
    CASE before = "quoted" /\ s[n] = Backslash /\ n < Len(s) -> "escaped"
      [] before # "escaped" /\ s[n] = Quotation ->
             IF before = "quoted" THEN "bare" ELSE "quoted"
      [] before = "bare" /\ s[n] # Quotation -> "bare"
      [] OTHER -> "quoted"

Modes == {"bare", "quoted", "escaped"}

LEMMA TurnIs ==
    ASSUME NEW before \in Modes, NEW s, NEW n
    PROVE  /\ Turn(before, s, n) \in Modes
           /\ before = "bare" => Turn(before, s, n) = IF s[n] = Quotation THEN "quoted" ELSE "bare"
           /\ before = "escaped" => Turn(before, s, n) = "quoted"
           /\ before = "quoted" => Turn(before, s, n) = IF s[n] = Quotation THEN "bare"
                                                        ELSE IF s[n] = Backslash /\ n < Len(s)
                                                        THEN "escaped" ELSE "quoted"
  BY DEF Turn, Modes, Quotation, Backslash

\* m gives the modes, from no character of the text to all of them.
Turns(m, s) == m = [n \in 0..Len(s) |-> IF n = 0 THEN "bare" ELSE Turn(m[n - 1], s, n)]

LEMMA TurnsExists ==
    ASSUME NEW s \in Seq(Nat)
    PROVE  \E m : Turns(m, s)
<1> DEFINE step == [n \in Nat |-> [b \in Modes |-> Turn(b, s, n)]]
<1>1. /\ "bare" \in Modes /\ Len(s) \in Nat /\ step \in [Nat -> [Modes -> Modes]]
      /\ \A n \in Nat : \A b \in Modes : step[n][b] = Turn(b, s, n)
  <2>1. "bare" \in Modes /\ Len(s) \in Nat
    BY DEF Modes
  <2>2. \A n \in Nat : \A b \in Modes : Turn(b, s, n) \in Modes
    BY TurnIs
  <2> QED
    BY <2>1, <2>2
<1>2. \E f : Solves(f, Modes, "bare", step, Len(s))
  <2> HIDE DEF step
  <2> QED
    BY <1>1, Recursion
<1> HIDE DEF step
<1>3. PICK f : /\ f \in [0..Len(s) -> Modes] /\ f[0] = "bare"
               /\ \A n \in 1..Len(s) : f[n] = step[n][f[n - 1]]
  BY <1>2 DEF Solves
<1>4. \A n \in 0..Len(s) : f[n] = IF n = 0 THEN "bare" ELSE Turn(f[n - 1], s, n)
  <2> TAKE n \in 0..Len(s)
  <2>1. CASE n = 0
    BY <1>3, <2>1
  <2>2. CASE n # 0
    <3>1. n \in 1..Len(s) /\ n \in Nat /\ n - 1 \in 0..Len(s)
      BY <2>2
    <3>2. f[n - 1] \in Modes
      BY <1>3, <3>1
    <3> QED
      BY <1>1, <1>3, <2>2, <3>1, <3>2
  <2> QED
    BY <2>1, <2>2
<1>5. f = [n \in 0..Len(s) |-> IF n = 0 THEN "bare" ELSE Turn(f[n - 1], s, n)]
  BY <1>3, <1>4
<1> QED
  BY <1>5, Zenon DEF Turns

\* What the recursion says, character by character.
LEMMA ModeIs ==
    ASSUME NEW s \in Seq(Nat)
    PROVE  /\ Mode(s)[0] = "bare"
           /\ \A n \in 1..Len(s) : Mode(s)[n] = Turn(Mode(s)[n - 1], s, n)
<1>1. Mode(s) = CHOOSE m : Turns(m, s)
  BY Zenon DEF Mode, Turns, Turn
<1>2. Turns(Mode(s), s)
  BY <1>1, TurnsExists, Zenon
<1> DEFINE m == Mode(s)
<1>3. m = [n \in 0..Len(s) |-> IF n = 0 THEN "bare" ELSE Turn(m[n - 1], s, n)]
  BY <1>2, Zenon DEF Turns
<1> HIDE DEF m
<1>4. \A n \in 0..Len(s) : m[n] = IF n = 0 THEN "bare" ELSE Turn(m[n - 1], s, n)
  BY <1>3
<1>5. 0 \in 0..Len(s) /\ \A n \in 1..Len(s) : n \in 0..Len(s) /\ n # 0
  OBVIOUS
<1> QED
  BY <1>4, <1>5 DEF m

LEMMA ModeType ==
    ASSUME NEW s \in Seq(Nat)
    PROVE  \A n \in 0..Len(s) : Mode(s)[n] \in Modes
<1> DEFINE P == {n \in Nat : n <= Len(s) => Mode(s)[n] \in Modes}
<1>1. 0 \in P
  BY ModeIs DEF Modes
<1>2. ASSUME NEW n \in Nat, n \in P PROVE n + 1 \in P
  <2> SUFFICES ASSUME n + 1 <= Len(s) PROVE Mode(s)[n + 1] \in Modes
    OBVIOUS
  <2>1. n + 1 \in 1..Len(s) /\ (n + 1) - 1 = n /\ Mode(s)[n] \in Modes
    BY <1>2
  <2> QED
    BY <2>1, ModeIs, TurnIs
<1> HIDE DEF P
<1>3. Nat \subseteq P
  BY <1>1, <1>2, Induction
<1>4. \A n \in 0..Len(s) : n \in Nat /\ n <= Len(s)
  OBVIOUS
<1> QED
  BY <1>3, <1>4 DEF P

\* A text that ends outside its quotes has no part in the modes of what follows.
LEMMA ModeConcat ==
    ASSUME NEW s \in Seq(Nat), NEW x \in Seq(Nat), Mode(s)[Len(s)] = "bare"
    PROVE  /\ \A n \in 0..Len(s) : Mode(s \o x)[n] = Mode(s)[n]
           /\ \A n \in 0..Len(x) : Mode(s \o x)[Len(s) + n] = Mode(x)[n]
<1> DEFINE t == s \o x
           l == Len(s)
           k == Len(x)
           P == {n \in Nat : n <= l => Mode(t)[n] = Mode(s)[n]}
           R == {n \in Nat : n <= k => Mode(t)[l + n] = Mode(x)[n]}
<1>1. /\ t \in Seq(Nat) /\ l \in Nat /\ k \in Nat /\ Len(t) = l + k /\ Len(s) = l /\ Len(x) = k
      /\ \A n \in 1..l : t[n] = s[n]
      /\ \A n \in 1..k : t[l + n] = x[n]
  OBVIOUS
<1> HIDE DEF t, l, k
<1>2. Mode(s)[l] = "bare"
  BY DEF l
<1>3. 0 \in P
  BY <1>1, ModeIs
<1>4. ASSUME NEW n \in Nat, n \in P PROVE n + 1 \in P
  <2> SUFFICES ASSUME n + 1 <= l PROVE Mode(t)[n + 1] = Mode(s)[n + 1]
    OBVIOUS
  <2> DEFINE b == Mode(s)[n]
  <2>1. /\ n + 1 \in 1..Len(s) /\ n + 1 \in 1..Len(t) /\ (n + 1) - 1 = n /\ n \in 0..Len(s)
        /\ Mode(t)[n] = b /\ t[n + 1] = s[n + 1]
    BY <1>1, <1>4
  <2>2. /\ Mode(s)[n + 1] = Turn(b, s, n + 1) /\ Mode(t)[n + 1] = Turn(b, t, n + 1)
        /\ b \in Modes
    BY <1>1, <2>1, ModeIs, ModeType
  <2> HIDE DEF b
  <2>3. ASSUME b = "quoted", s[n + 1] = Backslash PROVE n + 1 # l
    <3>1. Turn(b, s, n + 1) # "bare"
      BY <2>2, <2>3, TurnIs DEF Backslash, Quotation
    <3> QED
      BY <1>2, <2>2, <3>1
  <2>4. b = "quoted" /\ s[n + 1] = Backslash => n + 1 < Len(s) /\ n + 1 < Len(t)
    BY <1>1, <2>3
  <2>5. Turn(b, s, n + 1) = Turn(b, t, n + 1)
    BY <2>1, <2>2, <2>4, TurnIs DEF Modes
  <2> QED
    BY <2>2, <2>5
<1>5. 0 \in R
  <2>1. l \in P
    <3> HIDE DEF P
    <3> QED
      BY <1>1, <1>3, <1>4, Induction
  <2> QED
    BY <1>1, <1>2, <2>1, ModeIs
<1>6. ASSUME NEW n \in Nat, n \in R PROVE n + 1 \in R
  <2> SUFFICES ASSUME n + 1 <= k PROVE Mode(t)[l + (n + 1)] = Mode(x)[n + 1]
    OBVIOUS
  <2> DEFINE b == Mode(x)[n]
             j == l + (n + 1)
  <2>1. /\ n + 1 \in 1..Len(x) /\ j \in 1..Len(t) /\ (n + 1) - 1 = n /\ n \in 0..Len(x)
        /\ j - 1 = l + n /\ Mode(t)[l + n] = b /\ t[j] = x[n + 1]
        /\ (n + 1 < Len(x) <=> j < Len(t))
    BY <1>1, <1>6
  <2>2. /\ Mode(x)[n + 1] = Turn(b, x, n + 1) /\ Mode(t)[j] = Turn(b, t, j)
        /\ b \in Modes
    BY <1>1, <2>1, ModeIs, ModeType
  <2> HIDE DEF b, j
  <2>5. Turn(b, x, n + 1) = Turn(b, t, j)
    BY <2>1, <2>2, TurnIs DEF Modes
  <2> QED
    BY <2>2, <2>5 DEF j
<1> HIDE DEF P, R
<1>7. Nat \subseteq P /\ Nat \subseteq R
  BY <1>3, <1>4, <1>5, <1>6, Induction
<1>8. \A n \in 0..l : n \in Nat /\ n <= l
  BY <1>1
<1>9. \A n \in 0..k : n \in Nat /\ n <= k
  BY <1>1
<1> QED
  BY <1>7, <1>8, <1>9 DEF P, R, t, l, k

\* Blanks before a piece are left out.
LEMMA TrimmedIs ==
    /\ \A y \in Seq(Nat) : Trimmed(y) \in Seq(Nat)
    /\ Trimmed(<<>>) = <<>>
    /\ \A y \in Seq(Octets) : y # <<>> /\ y[1] \notin Blank =>
          /\ Trimmed(y) = y
          /\ Trimmed(<<Space>> \o y) = y
<1> DEFINE set == 0..255 \ Blank
<1>1. \A y : Trimmed(y) = SubSeq(y, Next(y, 1, set), Len(y))
  BY DEF Trimmed, From
<1> HIDE DEF set
<1>0. ASSUME NEW y \in Seq(Nat) PROVE Next(y, 1, set) \in 1..(Len(y) + 1)
  <2>1. 1 \in Nat \ {0} /\ 1 <= Len(y) + 1
    OBVIOUS
  <2> QED
    BY <2>1, NextPlace
<1>2. ASSUME NEW y \in Seq(Nat) PROVE Trimmed(y) \in Seq(Nat)
  <2>1. Len(y) \in 0..Len(y)
    OBVIOUS
  <2> QED
    BY <1>0, <1>1, <2>1, PartIs
<1>3. Trimmed(<<>>) = <<>>
  <2> DEFINE e == <<>>
  <2>1. e \in Seq(Nat) /\ Len(e) = 0
    OBVIOUS
  <2> HIDE DEF e
  <2>2. Next(e, 1, set) \in 1..(Len(e) + 1)
    BY <1>0, <2>1
  <2>3. Next(e, 1, set) = 1
    BY <2>1, <2>2
  <2>4. SubSeq(e, 1, Len(e)) = e
    BY <2>1
  <2> QED
    BY <1>1, <2>3, <2>4 DEF e
<1>4. ASSUME NEW y \in Seq(Octets), y # <<>>, y[1] \notin Blank
      PROVE  Trimmed(y) = y /\ Trimmed(<<Space>> \o y) = y
  <2>1. y \in Seq(Nat) /\ Len(y) \in Nat \ {0} /\ y[1] \in set
    <3>1. y \in Seq(Nat)
      BY OctetsAre
    <3>2. Len(y) \in Nat \ {0} /\ y[1] \in Octets
      BY <1>4
    <3> QED
      BY <1>4, <3>1, <3>2 DEF Octets, set
  <2> DEFINE z == <<Space>> \o y
  <2>2. /\ z \in Seq(Nat) /\ Len(z) = Len(y) + 1 /\ z[1] = Space /\ z[2] = y[1]
        /\ \A k \in 1..Len(y) : z[k + 1] = y[k]
    BY <2>1 DEF Space
  <2> HIDE DEF z
  <2>3. Next(y, 1, set) = 1
    <3>1. 1 \in Nat \ {0} /\ 1 \in 1..(Len(y) + 1)
      BY <2>1
    <3> QED
      BY <2>1, <3>1, NextIs
  <2>4. Next(z, 1, set) = 2
    <3>1. 1 \in Nat \ {0} /\ 2 \in 1..(Len(z) + 1) /\ \A j \in 1..(2 - 1) : j = 1
      BY <2>1, <2>2
    <3>2. Space \notin set
      BY DEF set, Blank
    <3>3. z[2] \in set /\ \A j \in 1..(2 - 1) : z[j] \notin set
      BY <2>1, <2>2, <3>1, <3>2
    <3> QED
      BY <2>2, <3>1, <3>3, NextIs, ZenonT(30)
  <2>5. SubSeq(y, 1, Len(y)) = y
    BY <2>1
  <2>6. SubSeq(z, 2, Len(z)) = y
    <3>1. /\ 2 \in 1..(Len(z) + 1) /\ Len(z) \in 0..Len(z) /\ (Len(z) - 2) + 1 = Len(y)
          /\ \A k \in 1..Len(y) : (2 + k) - 1 = k + 1
      BY <2>1, <2>2
    <3>2. SubSeq(z, 2, Len(z)) = [k \in 1..((Len(z) - 2) + 1) |-> z[(2 + k) - 1]]
      BY <2>2, <3>1, PartIs
    <3>3. SubSeq(z, 2, Len(z)) = [k \in 1..Len(y) |-> y[k]]
      BY <2>2, <3>1, <3>2
    <3>4. y = [k \in 1..Len(y) |-> y[k]]
      BY <2>1
    <3> QED
      BY <3>3, <3>4
  <2> QED
    BY <1>1, <2>3, <2>4, <2>5, <2>6 DEF z
<1> QED
  BY <1>2, <1>3, <1>4

\* A sequence with one member more, place by place.
LEMMA AppendIs ==
    ASSUME NEW S, NEW c \in Seq(S), NEW z \in S
    PROVE  Append(c, z) = [k \in 1..(Len(c) + 1) |-> IF k = Len(c) + 1 THEN z ELSE c[k]]
<1> DEFINE a == Append(c, z)
           n == Len(c)
<1>1. /\ a \in Seq(S) /\ n \in Nat /\ Len(a) = n + 1 /\ a[n + 1] = z
      /\ \A k \in 1..n : a[k] = c[k]
  OBVIOUS
<1> HIDE DEF a, n
<1>2. a = [k \in 1..(n + 1) |-> a[k]]
  BY <1>1
<1>3. \A k \in 1..(n + 1) : a[k] = IF k = n + 1 THEN z ELSE c[k]
  <2> TAKE k \in 1..(n + 1)
  <2>1. k = n + 1 \/ (k \in 1..n /\ k # n + 1)
    BY <1>1
  <2> QED
    BY <1>1, <2>1
<1> QED
  BY <1>2, <1>3 DEF a, n

\* One more separator, one more piece, without the blanks before it.
LEMMA CutAtGrows ==
    ASSUME NEW p \in Seq(Nat), NEW places \in SUBSET (1..Len(p)),
           NEW sep \in Nat, NEW y \in Seq(Nat)
    PROVE  /\ CutAt(p, places) \in Seq(Seq(Nat))
           /\ CutAt(p \o (<<sep>> \o y), places \cup {Len(p) + 1})
                 = Append(CutAt(p, places), Trimmed(y))
<1> DEFINE old == PartedAt(p, places)
           new == PartedAt(p \o (<<sep>> \o y), places \cup {Len(p) + 1})
           cut(s) == [k \in DOMAIN s |-> IF k = 1 THEN s[k] ELSE Trimmed(s[k])]
           z == Trimmed(y)
           n == Len(old)
<1>1. /\ old \in Seq(Seq(Nat)) /\ n \in Nat /\ n >= 1 /\ new = Append(old, y)
  <2>1. old \in Seq(Seq(Nat)) /\ n >= 1 /\ new = Append(old, y)
    BY PartsGrow, Zenon
  <2> HIDE DEF old, new
  <2>2. Len(old) \in Nat
    BY <2>1
  <2> QED
    BY <2>1, <2>2, Zenon
<1>2. /\ CutAt(p, places) = cut(old)
      /\ CutAt(p \o (<<sep>> \o y), places \cup {Len(p) + 1}) = cut(new)
  BY DEF CutAt
<1> HIDE DEF old, new
<1>3. /\ DOMAIN old = 1..n /\ DOMAIN new = 1..(n + 1) /\ new[n + 1] = y
      /\ \A k \in 1..n : new[k] = old[k] /\ old[k] \in Seq(Nat)
  BY <1>1
<1>4. z \in Seq(Nat)
  BY TrimmedIs
<1> HIDE DEF n, z
<1>5. \A k \in 1..n : old[k] \in Seq(Nat) /\ Trimmed(old[k]) \in Seq(Nat)
  BY <1>3, TrimmedIs
<1>6. cut(old) = [k \in 1..n |-> IF k = 1 THEN old[k] ELSE Trimmed(old[k])]
  BY <1>3
<1>7. cut(old) \in Seq(Seq(Nat)) /\ Len(cut(old)) = n
  BY <1>1, <1>5, <1>6
<1>8. cut(new) = [k \in 1..(n + 1) |-> IF k = n + 1 THEN z ELSE cut(old)[k]]
  <2>1. ASSUME NEW k \in 1..(n + 1)
        PROVE  (IF k = 1 THEN new[k] ELSE Trimmed(new[k])) = IF k = n + 1 THEN z ELSE cut(old)[k]
    <3>1. CASE k = n + 1
      BY <1>1, <1>3, <3>1 DEF z
    <3>2. CASE k \in 1..n /\ k # n + 1
      BY <1>3, <1>6, <3>2
    <3>3. k = n + 1 \/ (k \in 1..n /\ k # n + 1)
      BY <1>1
    <3> HIDE DEF cut
    <3> QED
      BY <3>1, <3>2, <3>3
  <2> QED
    BY <1>3, <2>1
<1> DEFINE c == cut(old)
<1>9. c \in Seq(Seq(Nat)) /\ Len(c) = n /\ n \in Nat
  BY <1>1, <1>7
<1>10. cut(new) = [k \in 1..(n + 1) |-> IF k = n + 1 THEN z ELSE c[k]]
  BY <1>8
<1> HIDE DEF c
<1>11. Append(c, z) = [k \in 1..(n + 1) |-> IF k = n + 1 THEN z ELSE c[k]]
  <2>1. Append(c, z) = [k \in 1..(Len(c) + 1) |-> IF k = Len(c) + 1 THEN z ELSE c[k]]
    <3> DEFINE V == Seq(Nat)
    <3>1. z \in V /\ c \in Seq(V)
      BY <1>4, <1>9
    <3> HIDE DEF V
    <3> QED
      BY <3>1, AppendIs
  <2> QED
    BY <1>9, <2>1
<1> QED
  BY <1>2, <1>9, <1>10, <1>11 DEF c, z, old, new, n

-----------------------------------------------------------------------------
\* The commas outside the quotes.
BareCommas(s) == {i \in Commas(s) : Mode(s)[i - 1] = "bare"}

LEMMA SplitIs == \A s : SplitHeaderValue(s) = NonEmpty(CutAt(s, BareCommas(s)))
BY Zenon DEF SplitHeaderValue, BareCommas

\* A comma and a text after another text, place by place.
LEMMA CommaThen ==
    ASSUME NEW p \in Seq(Nat), NEW y \in Seq(Nat)
    PROVE  LET x == <<Comma>> \o y
               q == p \o x
           IN /\ x \in Seq(Nat) /\ Len(x) = Len(y) + 1
              /\ x[1] = Comma /\ \A i \in 1..Len(y) : x[1 + i] = y[i]
              /\ q \in Seq(Nat) /\ Len(q) = Len(p) + (Len(y) + 1)
              /\ \A i \in 1..Len(p) : q[i] = p[i]
              /\ \A i \in 1..(Len(y) + 1) : q[Len(p) + i] = x[i]
<1> DEFINE x == <<Comma>> \o y
<1>1. /\ x \in Seq(Nat) /\ Len(x) = Len(y) + 1
      /\ x[1] = Comma /\ \A i \in 1..Len(y) : x[1 + i] = y[i]
  BY DEF Comma
<1> HIDE DEF x
<1>2. /\ p \o x \in Seq(Nat) /\ Len(p \o x) = Len(p) + (Len(y) + 1)
      /\ \A i \in 1..Len(p) : (p \o x)[i] = p[i]
      /\ \A i \in 1..(Len(y) + 1) : (p \o x)[Len(p) + i] = x[i]
  <2>1. x \in Seq(Nat)
    BY <1>1
  <2>2. /\ p \o x \in Seq(Nat) /\ Len(p \o x) = Len(p) + Len(x)
        /\ \A i \in 1..Len(p) : (p \o x)[i] = p[i]
        /\ \A i \in 1..Len(x) : (p \o x)[Len(p) + i] = x[i]
    BY <2>1
  <2>3. Len(x) = Len(y) + 1
    BY <1>1
  <2> DEFINE q == p \o x
  <2> HIDE DEF q
  <2> QED
    BY <2>2, <2>3, Zenon DEF q
<1> QED
  BY <1>1, <1>2, Zenon DEF x

\* A comma outside quotes, and a text with none there that closes its quotes,
\* are one element more, or none.
LEMMA SplitHeaderGrows ==
    ASSUME NEW p \in Seq(Nat), Mode(p)[Len(p)] = "bare",
           NEW y \in Seq(Nat), Mode(y)[Len(y)] = "bare", BareCommas(y) = {}
    PROVE  LET q == p \o (<<Comma>> \o y)
           IN /\ q \in Seq(Nat) /\ Mode(q)[Len(q)] = "bare"
              /\ SplitHeaderValue(p) \in Seq(Seq(Nat))
              /\ SplitHeaderValue(q) = SplitHeaderValue(p) \o Some(Trimmed(y))
<1> DEFINE sep == <<Comma>>
           x == sep \o y
           q == p \o x
           l == Len(p)
           k == Len(y)
<1>1. /\ sep \in Seq(Nat) /\ Len(sep) = 1 /\ sep[1] = Comma /\ Comma # Quotation
      /\ Comma \in Nat
  BY DEF Comma, Quotation
<1>2. Mode(sep)[0] = "bare" /\ Mode(sep)[1] = "bare"
  <2> HIDE DEF sep
  <2>1. 1 \in 1..Len(sep) /\ 1 - 1 = 0
    BY <1>1
  <2>2. Mode(sep)[0] = "bare" /\ Mode(sep)[1] = Turn(Mode(sep)[0], sep, 1)
    BY <1>1, <2>1, ModeIs
  <2> QED
    BY <1>1, <2>2, TurnIs DEF Modes
<1> HIDE DEF sep
<1>3. /\ x \in Seq(Nat) /\ Len(x) = k + 1 /\ k \in Nat /\ l \in Nat /\ Len(y) = k /\ Len(p) = l
      /\ x[1] = Comma /\ \A i \in 1..k : x[1 + i] = y[i]
  <2>1. /\ x \in Seq(Nat) /\ Len(x) = Len(y) + 1
        /\ x[1] = Comma /\ \A i \in 1..Len(y) : x[1 + i] = y[i]
    BY CommaThen, Zenon DEF sep
  <2>2. Len(y) \in Nat /\ Len(p) \in Nat
    OBVIOUS
  <2> HIDE DEF x
  <2> QED
    BY <2>1, <2>2, Zenon
<1>4. /\ \A n \in 0..1 : Mode(x)[n] = "bare"
      /\ \A n \in 0..k : Mode(x)[1 + n] = Mode(y)[n]
  <2>1. Mode(sep)[Len(sep)] = "bare"
    BY <1>1, <1>2
  <2>2. /\ \A n \in 0..Len(sep) : Mode(x)[n] = Mode(sep)[n]
        /\ \A n \in 0..Len(y) : Mode(x)[Len(sep) + n] = Mode(y)[n]
    BY <1>1, <2>1, ModeConcat
  <2> HIDE DEF x
  <2> QED
    BY <1>1, <1>2, <2>2
<1> HIDE DEF x
<1>5. /\ q \in Seq(Nat) /\ Len(q) = l + (k + 1)
      /\ \A i \in 1..l : q[i] = p[i]
      /\ \A i \in 1..(k + 1) : q[l + i] = x[i]
  BY CommaThen, Zenon DEF sep, x
<1>6. /\ \A n \in 0..l : Mode(q)[n] = Mode(p)[n]
      /\ \A n \in 0..(k + 1) : Mode(q)[l + n] = Mode(x)[n]
  BY <1>3, ModeConcat
<1> HIDE DEF q
<1> HIDE DEF l, k
<1>7. Mode(q)[Len(q)] = "bare"
  <2>1. k + 1 \in 0..(k + 1) /\ k \in 0..k /\ 1 + k = k + 1
    BY <1>3
  <2> QED
    BY <1>3, <1>4, <1>5, <1>6, <2>1
<1>8. BareCommas(p) \in SUBSET (1..l)
  BY <1>3 DEF BareCommas, Commas
<1>9. BareCommas(q) = BareCommas(p) \cup {l + 1}
  <2>1. ASSUME NEW i \in 1..l PROVE i \in BareCommas(q) <=> i \in BareCommas(p)
    <3>1. /\ i \in 1..Len(q) /\ i - 1 \in 0..l /\ q[i] = p[i] /\ Mode(q)[i - 1] = Mode(p)[i - 1]
          /\ i \in DOMAIN p /\ i \in DOMAIN q
      BY <1>3, <1>5, <1>6
    <3> QED
      BY <3>1 DEF BareCommas, Commas
  <2>2. l + 1 \in BareCommas(q)
    <3>1. /\ l + 1 \in 1..Len(q) /\ (l + 1) - 1 = l /\ l + 0 = l /\ q[l + 1] = Comma
          /\ 0 \in 0..(k + 1) /\ 0 \in 0..1 /\ l + 1 \in DOMAIN q
      BY <1>3, <1>5
    <3>2. Mode(q)[l] = "bare"
      BY <1>4, <1>6, <3>1
    <3> QED
      BY <3>1, <3>2 DEF BareCommas, Commas
  <2>3. ASSUME NEW i \in 1..k PROVE (l + 1) + i \notin BareCommas(q)
    <3>1. l \in Nat /\ k \in Nat /\ i \in 1..k /\ i \in DOMAIN y
      BY <1>3
    <3>2. (l + 1) + i = l + (1 + i) /\ ((l + 1) + i) - 1 = l + (1 + (i - 1))
      BY <3>1
    <3>3. 1 + i \in 1..(k + 1) /\ i - 1 \in 0..k /\ 1 + (i - 1) \in 0..(k + 1)
      BY <3>1
    <3>4. /\ (l + 1) + i = l + (1 + i) /\ 1 + i \in 1..(k + 1) /\ i - 1 \in 0..k /\ i \in DOMAIN y
          /\ ((l + 1) + i) - 1 = l + (1 + (i - 1)) /\ 1 + (i - 1) \in 0..(k + 1)
      BY <3>1, <3>2, <3>3
    <3>5. q[(l + 1) + i] = y[i]
      BY <1>3, <1>5, <3>4
    <3>6. Mode(q)[((l + 1) + i) - 1] = Mode(x)[1 + (i - 1)]
      BY <1>6, <3>4
    <3>7. Mode(x)[1 + (i - 1)] = Mode(y)[i - 1]
      BY <1>4, <3>4
    <3> QED
      BY <3>4, <3>5, <3>6, <3>7 DEF BareCommas, Commas
  <2>4. \A i \in 1..Len(q) : i \in 1..l \/ i = l + 1 \/ \E j \in 1..k : i = (l + 1) + j
    <3> TAKE i \in 1..Len(q)
    <3>1. l \in Nat /\ k \in Nat /\ i \in 1..(l + (k + 1))
      BY <1>3, <1>5
    <3>2. i - (l + 1) \in Int /\ i = (l + 1) + (i - (l + 1))
      BY <3>1
    <3>3. i \in 1..l \/ i = l + 1 \/ i - (l + 1) \in 1..k
      BY <3>1
    <3>4. i \in 1..l \/ i = l + 1 \/ (i - (l + 1) \in 1..k /\ i = (l + 1) + (i - (l + 1)))
      BY <3>2, <3>3
    <3> QED
      BY <3>4
  <2>5. BareCommas(q) \subseteq 1..Len(q)
    BY <1>5 DEF BareCommas, Commas
  <2> QED
    BY <1>8, <2>1, <2>2, <2>3, <2>4, <2>5
<1>10. /\ CutAt(p, BareCommas(p)) \in Seq(Seq(Nat))
       /\ CutAt(q, BareCommas(q)) = Append(CutAt(p, BareCommas(p)), Trimmed(y))
  <2>1. /\ CutAt(p, BareCommas(p)) \in Seq(Seq(Nat))
        /\ CutAt(p \o (<<Comma>> \o y), BareCommas(p) \cup {Len(p) + 1})
             = Append(CutAt(p, BareCommas(p)), Trimmed(y))
    BY <1>1, <1>3, <1>8, CutAtGrows
  <2> QED
    BY <1>3, <1>9, <2>1, Zenon DEF q, x, sep
<1>11. /\ NonEmpty(Append(CutAt(p, BareCommas(p)), Trimmed(y)))
            = NonEmpty(CutAt(p, BareCommas(p))) \o Some(Trimmed(y))
       /\ NonEmpty(CutAt(p, BareCommas(p))) \in Seq(Seq(Nat))
  <2>1. Trimmed(y) \in Seq(Nat)
    BY TrimmedIs
  <2> QED
    BY <1>10, <2>1, NonEmptyAppend, NonEmptyType, Zenon
<1> QED
  BY <1>5, <1>7, <1>10, <1>11, SplitIs, Zenon DEF q, x, sep

\* A text with no comma outside its quotes is one element, or none.
LEMMA SplitHeaderOne ==
    ASSUME NEW y \in Seq(Nat), BareCommas(y) = {}
    PROVE  SplitHeaderValue(y) = Some(y)
<1> DEFINE none == <<>>
           one == <<y>>
<1>1. PartedAt(y, {}) = one
  BY PartsNone
<1>2. CutAt(y, {}) = one
  <2>1. DOMAIN one = 1..1 /\ \A k \in 1..1 : k = 1
    OBVIOUS
  <2>2. CutAt(y, {}) = [k \in 1..1 |-> IF k = 1 THEN one[k] ELSE Trimmed(one[k])]
    BY <1>1, <2>1, Zenon DEF CutAt
  <2>3. CutAt(y, {}) = [k \in 1..1 |-> one[k]]
    BY <2>1, <2>2
  <2> QED
    BY <2>3
<1>3. NonEmpty(one) = Some(y)
  <2>1. none \in Seq(Seq(Nat)) /\ one = Append(none, y)
    OBVIOUS
  <2> HIDE DEF none, one
  <2>2. NonEmpty(one) = NonEmpty(none) \o Some(y)
    BY <2>1, NonEmptyAppend
  <2>3. NonEmpty(none) = <<>>
    <3> DEFINE image == [k \in DOMAIN none |-> IF none[k] = <<>> THEN <<>> ELSE <<none[k]>>]
    <3>1. NonEmpty(none) = FlattenSeq(image)
      BY DEF NonEmpty, Mapped
    <3>2. image = <<>>
      BY DEF none
    <3> QED
      BY <3>1, <3>2, FlattenFew
  <2>4. <<>> \o Some(y) = Some(y)
    BY DEF Some
  <2> QED
    BY <2>2, <2>3, <2>4
<1> QED
  BY <1>2, <1>3, SplitIs

\* The quotes before a place, and before the next one.
LEMMA InsideNext ==
    ASSUME NEW e \in Seq(Nat), NEW escaping, NEW n \in 1..Len(e)
    PROVE  Inside(e, escaping, n + 1)
             <=> IF e[n] = Quotation /\ n - 1 \notin escaping THEN ~Inside(e, escaping, n)
                 ELSE Inside(e, escaping, n)
<1> DEFINE quote(i) == e[i] = Quotation /\ i - 1 \notin escaping
           Quotes(k) == {i \in 1..(k - 1) : quote(i)}
<1>1. IsFiniteSet(Quotes(n)) /\ Cardinality(Quotes(n)) \in Nat
  <2>1. 1 \in Int /\ n - 1 \in Int
    OBVIOUS
  <2>2. IsFiniteSet(1..(n - 1))
    BY <2>1, FS_Interval, Zenon
  <2>3. Quotes(n) \subseteq 1..(n - 1)
    OBVIOUS
  <2> HIDE DEF Quotes
  <2>4. IsFiniteSet(Quotes(n))
    BY <2>2, <2>3, FS_Subset
  <2> QED
    BY <2>4, FS_CardinalityType
<1>2. n \notin Quotes(n) /\ Quotes(n + 1) = IF quote(n) THEN Quotes(n) \cup {n} ELSE Quotes(n)
  <2> HIDE DEF quote
  <2> QED
    OBVIOUS
<1>3. \A k : Inside(e, escaping, k) <=> Cardinality(Quotes(k)) % 2 = 1
  BY DEF Inside
<1> HIDE DEF Quotes
<1>4. Cardinality(Quotes(n) \cup {n}) = Cardinality(Quotes(n)) + 1
  BY <1>1, <1>2, FS_AddElement
<1>5. \A c \in Nat : (c + 1) % 2 = 1 <=> c % 2 # 1
  OBVIOUS
<1>6. CASE quote(n)
  <2>1. Cardinality(Quotes(n + 1)) = Cardinality(Quotes(n)) + 1
    BY <1>2, <1>4, <1>6
  <2> QED
    BY <1>1, <1>3, <1>5, <1>6, <2>1
<1>7. CASE ~quote(n)
  BY <1>2, <1>3, <1>7
<1> QED
  BY <1>6, <1>7

\* The commas of an element are inside its quotes, and its quotes are closed.
LEMMA ElementIs ==
    ASSUME NEW e \in Elements
    PROVE  /\ e \in Seq(Octets) /\ e \in Seq(Nat) /\ e # <<>> /\ e[1] \notin Blank
           /\ Mode(e)[Len(e)] = "bare" /\ BareCommas(e) = {}
<1>1. /\ e \in Seq(Octets) /\ e # <<>> /\ e[1] \notin Blank
      /\ \E escaping \in SUBSET {i \in DOMAIN e : e[i] = Backslash} :
            /\ ~Inside(e, escaping, Len(e) + 1)
            /\ \A i \in DOMAIN e :
                  /\ e[i] = Comma => Inside(e, escaping, i)
                  /\ e[i] = Backslash =>
                        (i \in escaping <=> Inside(e, escaping, i) /\ i - 1 \notin escaping)
  BY ElementsAssumption, Zenon DEF Octets
<1>2. e \in Seq(Nat) /\ Len(e) \in Nat /\ DOMAIN e = 1..Len(e)
  BY <1>1, OctetsAre
<1>3. PICK escaping \in SUBSET {i \in 1..Len(e) : e[i] = Backslash} :
            /\ ~Inside(e, escaping, Len(e) + 1)
            /\ \A i \in 1..Len(e) :
                  /\ e[i] = Comma => Inside(e, escaping, i)
                  /\ e[i] = Backslash =>
                        (i \in escaping <=> Inside(e, escaping, i) /\ i - 1 \notin escaping)
  BY <1>1, <1>2, Zenon
<1> DEFINE in(n) == Inside(e, escaping, n)
           place(n) == IF n \in escaping THEN "escaped" ELSE IF in(n + 1) THEN "quoted" ELSE "bare"
           P == {n \in Nat : n <= Len(e) => Mode(e)[n] = place(n)}
<1>4. /\ \A i \in escaping : i \in 1..Len(e) /\ e[i] = Backslash
      /\ \A i \in 1..Len(e) : e[i] = Backslash => (i \in escaping <=> in(i) /\ i - 1 \notin escaping)
      /\ ~in(Len(e) + 1)
      /\ \A i \in 1..Len(e) : e[i] = Comma => in(i)
  BY <1>3
<1>5. \A n \in 1..Len(e) : in(n + 1) <=> IF e[n] = Quotation /\ n - 1 \notin escaping THEN ~in(n)
                                         ELSE in(n)
  BY <1>2, InsideNext
<1>6. ~in(1)
  <2>1. {i \in 1..(1 - 1) : e[i] = Quotation /\ i - 1 \notin escaping} = {} /\ Cardinality({}) = 0
    BY FS_EmptySet
  <2> QED
    BY <2>1 DEF Inside
<1> HIDE DEF in
<1>7. 0 \in P
  <2>1. 0 \notin escaping /\ 0 + 1 = 1
    BY <1>4
  <2> QED
    BY <1>2, <1>6, <2>1, ModeIs
<1>8. ASSUME NEW n \in Nat, n \in P PROVE n + 1 \in P
  <2> SUFFICES ASSUME n + 1 <= Len(e) PROVE Mode(e)[n + 1] = place(n + 1)
    OBVIOUS
  <2> DEFINE b == Mode(e)[n]
             c == e[n + 1]
             m == n + 1
  <2>1. m \in 1..Len(e) /\ m - 1 = n /\ b = place(n) /\ n \in 0..Len(e) /\ n <= Len(e)
    BY <1>2, <1>8
  <2>2. Mode(e)[m] = Turn(b, e, m) /\ b \in Modes
    BY <1>2, <2>1, ModeIs, ModeType
  <2>3. /\ in(m + 1) <=> IF c = Quotation /\ n \notin escaping THEN ~in(m) ELSE in(m)
        /\ c = Backslash => (m \in escaping <=> in(m) /\ n \notin escaping)
        /\ m \in escaping => c = Backslash
        /\ Backslash # Quotation
    BY <1>4, <1>5, <2>1 DEF Backslash, Quotation
  <2>4. ASSUME n \in escaping PROVE in(m)
    <3>1. n \in 1..Len(e) /\ e[n] = Backslash /\ in(n)
      BY <1>4, <2>4
    <3>2. e[n] # Quotation
      BY <2>3, <3>1
    <3> QED
      BY <1>5, <3>1, <3>2
  <2>5. c = Backslash /\ in(m) /\ n \notin escaping => m < Len(e)
    <3>1. m = Len(e) => ~in(m + 1)
      BY <1>4
    <3> QED
      BY <2>1, <2>3, <3>1
  <2>6. /\ b = "bare" => Turn(b, e, m) = IF c = Quotation THEN "quoted" ELSE "bare"
        /\ b = "escaped" => Turn(b, e, m) = "quoted"
        /\ b = "quoted" => Turn(b, e, m) = IF c = Quotation THEN "bare"
                                           ELSE IF c = Backslash /\ m < Len(e)
                                           THEN "escaped" ELSE "quoted"
    BY <2>2, TurnIs
  <2>7. b = IF n \in escaping THEN "escaped" ELSE IF in(m) THEN "quoted" ELSE "bare"
    BY <2>1
  <2> HIDE DEF b, c, m
  <2>8. Turn(b, e, m) = place(m)
    <3>1. CASE n \in escaping
      <4>1. b = "escaped" /\ Turn(b, e, m) = "quoted"
        BY <2>6, <2>7, <3>1
      <4>2. m \notin escaping /\ in(m + 1)
        BY <2>3, <2>4, <3>1
      <4> QED
        BY <4>1, <4>2
    <3>2. CASE n \notin escaping /\ in(m)
      BY <2>3, <2>5, <2>6, <2>7, <3>2
    <3>3. CASE n \notin escaping /\ ~in(m)
      BY <2>3, <2>6, <2>7, <3>3
    <3> QED
      BY <3>1, <3>2, <3>3
  <2> QED
    BY <2>2, <2>8 DEF m
<1> HIDE DEF P
<1>9. Nat \subseteq P
  BY <1>7, <1>8, Induction
<1>10. \A n \in 0..Len(e) : Mode(e)[n] = place(n)
  <2>1. \A n \in 0..Len(e) : n \in Nat /\ n <= Len(e)
    BY <1>2
  <2> QED
    BY <1>9, <2>1 DEF P
<1>11. Mode(e)[Len(e)] = "bare"
  <2>1. Len(e) \notin escaping
    <3>1. CASE Len(e) \in escaping
      <4>1. Len(e) \in 1..Len(e) /\ e[Len(e)] = Backslash
        BY <1>4, <3>1
      <4>2. in(Len(e)) /\ e[Len(e)] # Quotation
        BY <1>4, <3>1, <4>1 DEF Backslash, Quotation
      <4> QED
        BY <1>4, <1>5, <4>1, <4>2
    <3> QED
      BY <3>1
  <2>2. Len(e) \in 0..Len(e)
    BY <1>2
  <2> QED
    BY <1>4, <1>10, <2>1, <2>2
<1>12. BareCommas(e) = {}
  <2> SUFFICES ASSUME NEW i \in 1..Len(e), e[i] = Comma PROVE Mode(e)[i - 1] # "bare"
    BY <1>2 DEF BareCommas, Commas
  <2>1. i - 1 \in 0..Len(e) /\ (i - 1) + 1 = i /\ in(i)
    BY <1>2, <1>4
  <2> QED
    BY <1>10, <2>1
<1> QED
  BY <1>1, <1>2, <1>11, <1>12

\* What SplitHeaderValue takes for one element, and for the end of others.
IsElement(e) ==
    /\ e \in Seq(Octets) /\ e \in Seq(Nat) /\ e # <<>> /\ e[1] \notin Blank
    /\ Mode(e)[Len(e)] = "bare" /\ BareCommas(e) = {}
Closed(s) == s \in Seq(Nat) /\ Mode(s)[Len(s)] = "bare"

\* An element after a blank is closed like the element, with no bare comma either.
LEMMA BlankBefore ==
    ASSUME NEW e, IsElement(e)
    PROVE  Closed(<<Space>> \o e) /\ BareCommas(<<Space>> \o e) = {}
<1> DEFINE b == <<Space>>
           y == b \o e
           k == Len(e)
<1>1. /\ e \in Seq(Nat) /\ Mode(e)[k] = "bare" /\ k \in Nat /\ Len(e) = k
      /\ \A i \in 1..k : e[i] = Comma => Mode(e)[i - 1] # "bare"
  BY DEF IsElement, BareCommas, Commas
<1>2. b \in Seq(Nat) /\ Len(b) = 1 /\ b[1] = Space /\ Space # Quotation /\ Space # Comma
  BY DEF Space, Quotation, Comma
<1>3. y \in Seq(Nat) /\ Len(y) = 1 + k /\ y[1] = Space /\ \A i \in 1..k : y[1 + i] = e[i]
  BY <1>1 DEF Space
<1> HIDE DEF k
<1>4. Mode(b)[0] = "bare" /\ Mode(b)[1] = "bare"
  <2> HIDE DEF b
  <2>1. 1 \in 1..Len(b) /\ 1 - 1 = 0
    BY <1>2
  <2>2. Mode(b)[0] = "bare" /\ Mode(b)[1] = Turn(Mode(b)[0], b, 1)
    BY <1>2, <2>1, ModeIs
  <2> QED
    BY <1>2, <2>2, TurnIs DEF Modes
<1> HIDE DEF b
<1>5. \A n \in 0..k : Mode(y)[1 + n] = Mode(e)[n]
  <2>1. Mode(b)[Len(b)] = "bare"
    BY <1>2, <1>4
  <2>2. \A n \in 0..Len(e) : Mode(y)[Len(b) + n] = Mode(e)[n]
    BY <1>1, <1>2, <2>1, ModeConcat
  <2> HIDE DEF y
  <2> QED
    BY <1>1, <1>2, <2>2
<1> HIDE DEF y
<1>6. Mode(y)[Len(y)] = "bare"
  <2>1. k \in 0..k
    BY <1>1
  <2> QED
    BY <1>1, <1>3, <1>5, <2>1
<1>7. BareCommas(y) = {}
  <2> SUFFICES ASSUME NEW i \in 1..Len(y), y[i] = Comma PROVE Mode(y)[i - 1] # "bare"
    BY <1>3 DEF BareCommas, Commas
  <2>1. i # 1
    BY <1>2, <1>3
  <2> DEFINE j == i - 1
  <2>2. j \in 1..k /\ 1 + j = i /\ j - 1 \in 0..k /\ 1 + (j - 1) = i - 1
    BY <1>1, <1>3, <2>1
  <2> HIDE DEF j
  <2>3. e[j] = Comma /\ Mode(y)[i - 1] = Mode(e)[j - 1]
    BY <1>3, <1>5, <2>2
  <2> QED
    BY <1>1, <2>2, <2>3
<1> QED
  BY <1>3, <1>6, <1>7 DEF y, b, Closed

\* Three texts put together.
LEMMA TextsRegroup ==
    ASSUME NEW p \in Seq(Nat), NEW q \in Seq(Nat), NEW r \in Seq(Nat)
    PROVE  (p \o q) \o r = p \o (q \o r)
BY ConcatAssociative, SMTT(30)

\* How the writing of an element is put together.
LEMMA WrittenIs ==
    ASSUME NEW s \in Seq(Nat), NEW e \in Seq(Nat)
    PROVE  /\ (s \o (<<Comma>> \o <<>>)) \o e = s \o (<<Comma>> \o e)
           /\ (s \o (<<Comma>> \o <<Space>>)) \o e = s \o (<<Comma>> \o (<<Space>> \o e))
           /\ (s \o (<<Comma>> \o <<Comma, Space>>)) \o e
                 = (s \o (<<Comma>> \o <<>>)) \o (<<Comma>> \o (<<Space>> \o e))
<1> DEFINE c == <<Comma>>
           b == <<Space>>
           d == <<Comma, Space>>
           none == <<>>
<1>1. c \in Seq(Nat) /\ b \in Seq(Nat) /\ none \in Seq(Nat) /\ d = c \o b /\ c \o none = c
  BY DEF Comma, Space
<1> HIDE DEF c, b, d, none
<1>2. b \o e \in Seq(Nat) /\ c \o b \in Seq(Nat) /\ s \o c \in Seq(Nat)
  BY <1>1
<1>3. (s \o c) \o e = s \o (c \o e)
  BY <1>1, TextsRegroup
<1>4. (c \o b) \o e = c \o (b \o e)
  BY <1>1, TextsRegroup
<1>5. (s \o (c \o b)) \o e = s \o (c \o (b \o e))
  <2>1. (s \o (c \o b)) \o e = s \o ((c \o b) \o e)
    <3> DEFINE v == c \o b
    <3>1. v \in Seq(Nat)
      BY <1>2
    <3> HIDE DEF v
    <3>2. (s \o v) \o e = s \o (v \o e)
      BY <3>1, TextsRegroup
    <3> QED
      BY <3>2 DEF v
  <2> QED
    BY <1>4, <2>1
<1>6. (s \o (c \o (c \o b))) \o e = (s \o c) \o (c \o (b \o e))
  <2> DEFINE v == c \o b
             u == s \o c
  <2>1. u \in Seq(Nat) /\ v \in Seq(Nat) /\ v \o e = c \o (b \o e)
    BY <1>2, <1>4
  <2>2. s \o (c \o v) = u \o v
    <3> HIDE DEF v
    <3>1. (s \o c) \o v = s \o (c \o v)
      BY <1>1, <2>1, TextsRegroup
    <3> QED
      BY <3>1
  <2> HIDE DEF v, u
  <2>3. (u \o v) \o e = u \o (v \o e)
    BY <2>1, TextsRegroup
  <2>4. (s \o (c \o v)) \o e = u \o (c \o (b \o e))
    BY <2>1, <2>2, <2>3
  <2> QED
    BY <2>4 DEF u, v
<1> QED
  BY <1>1, <1>3, <1>5, <1>6, Zenon DEF c, b, d, none

\* An element after a comma and whatever blanks or empty elements arrives.
LEMMA ElementGrows ==
    ASSUME NEW s, Closed(s), NEW e, IsElement(e),
           NEW blanks \in {<<>>, <<Space>>, <<Comma, Space>>}
    PROVE  LET t == (s \o (<<Comma>> \o blanks)) \o e
           IN /\ Closed(t)
              /\ SplitHeaderValue(s) \in Seq(Seq(Nat))
              /\ SplitHeaderValue(t) = SplitHeaderValue(s) \o <<e>>
<1> DEFINE Grows(r, y) ==
              /\ Closed(r \o (<<Comma>> \o y))
              /\ SplitHeaderValue(r) \in Seq(Seq(Nat))
              /\ SplitHeaderValue(r \o (<<Comma>> \o y)) = SplitHeaderValue(r) \o Some(Trimmed(y))
           c == <<Comma>>
           b == <<Space>>
           none == <<>>
<1>1. \A r, y : Closed(r) /\ Closed(y) /\ BareCommas(y) = {} => Grows(r, y)
  BY SplitHeaderGrows, Zenon DEF Closed
<1>2. s \in Seq(Nat) /\ e \in Seq(Nat)
  BY DEF Closed, IsElement
<1>3. Closed(e) /\ BareCommas(e) = {} /\ Closed(b \o e) /\ BareCommas(b \o e) = {}
  BY BlankBefore DEF Closed, IsElement
<1>4. Closed(none) /\ BareCommas(none) = {}
  <2>1. none \in Seq(Nat) /\ Len(none) = 0 /\ DOMAIN none = {}
    OBVIOUS
  <2> HIDE DEF none
  <2> QED
    BY <2>1, ModeIs DEF Closed, BareCommas, Commas
<1>5. /\ Some(Trimmed(e)) = <<e>> /\ Some(Trimmed(b \o e)) = <<e>>
      /\ Some(Trimmed(none)) = none
  BY TrimmedIs DEF Some, IsElement
<1> HIDE DEF Grows
<1>6. Grows(s, e) /\ Grows(s, b \o e) /\ Grows(s, none)
  BY <1>1, <1>3, <1>4, Zenon
<1>7. Grows(s \o (c \o none), b \o e)
  BY <1>1, <1>3, <1>6, Zenon DEF Grows
<1>8. CASE blanks = none
  BY <1>2, <1>5, <1>6, <1>8, WrittenIs, Zenon DEF Grows
<1>9. CASE blanks = b
  BY <1>2, <1>5, <1>6, <1>9, WrittenIs, Zenon DEF Grows
<1>10. CASE blanks = <<Comma, Space>>
  <2>1. SplitHeaderValue(s) \o none = SplitHeaderValue(s)
    BY <1>6, ConcatEmptySeq DEF Grows
  <2> DEFINE r == s \o (<<Comma>> \o none)
             t == (s \o (<<Comma>> \o blanks)) \o e
  <2>2. t = r \o (<<Comma>> \o (b \o e))
    BY <1>2, <1>10, WrittenIs, Zenon
  <2>3. SplitHeaderValue(r) = SplitHeaderValue(s) \o Some(Trimmed(none))
    BY <1>6, Zenon DEF Grows
  <2>4. SplitHeaderValue(r) = SplitHeaderValue(s) /\ SplitHeaderValue(s) \in Seq(Seq(Nat))
    BY <1>5, <1>6, <2>1, <2>3, Zenon DEF Grows
  <2>5. /\ Closed(r \o (<<Comma>> \o (b \o e)))
        /\ SplitHeaderValue(r \o (<<Comma>> \o (b \o e)))
              = SplitHeaderValue(r) \o Some(Trimmed(b \o e))
    BY <1>7, Zenon DEF Grows
  <2> HIDE DEF r, t
  <2>6. Closed(t) /\ SplitHeaderValue(t) = SplitHeaderValue(s) \o <<e>>
    BY <1>5, <2>2, <2>4, <2>5, Zenon
  <2> QED
    BY <2>4, <2>6, Zenon DEF t
<1> QED
  BY <1>8, <1>9, <1>10

\* A sequence and one member more.
LEMMA OneMore ==
    ASSUME NEW S, NEW s \in Seq(S), NEW e \in S
    PROVE  Append(s, e) = s \o <<e>> /\ Append(s, e) \in Seq(S) /\ Append(s, e) # <<>>
OBVIOUS

-----------------------------------------------------------------------------
\* A list is closed while it is put together, and is read as it is meant.
ListKept ==
    kind = "list" => /\ Closed(text) /\ SplitHeaderValue(text) = meant
                     /\ meant \in Seq(Seq(Nat))
                     /\ meant = <<>> => text = <<>>

LEMMA ListKeptHolds == VSpec => []ListKept
<1>1. VInit => ListKept
  <2> SUFFICES ASSUME VInit, kind = "list" PROVE Closed(text) /\ SplitHeaderValue(text) = meant
                                                 /\ meant \in Seq(Seq(Nat)) /\ text = <<>>
    BY DEF ListKept
  <2>1. text = <<>> /\ meant = <<>>
    BY DEF VInit, Begun0
  <2>2. text \in Seq(Nat) /\ Len(text) = 0 /\ DOMAIN text = {} /\ meant \in Seq(Seq(Nat))
    BY <2>1
  <2>3. Closed(text) /\ BareCommas(text) = {}
    BY <2>2, ModeIs DEF Closed, BareCommas, Commas
  <2>4. SplitHeaderValue(text) = Some(text)
    BY <2>2, <2>3, SplitHeaderOne
  <2> QED
    BY <2>1, <2>2, <2>3, <2>4 DEF Some
<1>2. ListKept /\ [VNext]_all => ListKept'
  <2> SUFFICES ASSUME ListKept, [VNext]_all, kind' = "list"
               PROVE  /\ Closed(text') /\ SplitHeaderValue(text') = meant'
                      /\ meant' \in Seq(Seq(Nat))
                      /\ meant' = <<>> => text' = <<>>
    BY DEF ListKept, Closed, SplitHeaderValue, Mode
  <2>1. CASE UNCHANGED client
    BY <2>1 DEF ListKept, client
  <2>2. CASE SendElement
    <3>1. PICK e \in Elements : Send(e, e)
      BY <2>2 DEF SendElement
    <3>2. PICK blanks \in {<<>>, <<Space>>, <<Comma, Space>>} :
             /\ kind = "list" /\ meant' = Append(meant, e)
             /\ text' = text \o (IF meant = <<>> THEN <<>> ELSE <<Comma>> \o blanks) \o e
      BY <2>2, <3>1 DEF Send, SendElement
    <3>3. IsElement(e) /\ e \in Seq(Nat)
      BY ElementIs DEF IsElement
    <3>4. /\ Closed(text) /\ SplitHeaderValue(text) = meant /\ meant \in Seq(Seq(Nat))
          /\ meant = <<>> => text = <<>>
      BY <3>2 DEF ListKept
    <3>5. meant' = meant \o <<e>> /\ meant' \in Seq(Seq(Nat)) /\ meant' # <<>>
      <4> DEFINE V == Seq(Nat)
      <4>1. meant \in Seq(V) /\ e \in V /\ meant' = Append(meant, e)
        BY <3>2, <3>3, <3>4
      <4> HIDE DEF V
      <4>2. meant' = meant \o <<e>> /\ meant' \in Seq(V) /\ meant' # <<>>
        BY <4>1, OneMore
      <4> QED
        BY <4>2 DEF V
    <3>6. CASE meant = <<>>
      <4>1. text' = e
        <5>1. text' = (<<>> \o <<>>) \o e
          BY <3>2, <3>4, <3>6
        <5> QED
          BY <3>3, <5>1
      <4>2. SplitHeaderValue(e) = <<e>> /\ Closed(e)
        BY <3>3, SplitHeaderOne DEF IsElement, Some, Closed
      <4>3. meant' = <<e>>
        BY <3>2, <3>3, <3>6
      <4> QED
        BY <3>5, <4>1, <4>2, <4>3
    <3>7. CASE meant # <<>>
      <4>1. text' = (text \o (<<Comma>> \o blanks)) \o e
        BY <3>2, <3>7
      <4>2. Closed(text') /\ SplitHeaderValue(text') = SplitHeaderValue(text) \o <<e>>
        BY <3>3, <3>4, <4>1, ElementGrows, Zenon
      <4> QED
        BY <3>4, <3>5, <4>2
    <3> QED
      BY <3>6, <3>7
  <2>3. CASE ClientNext /\ ~SendElement
    <3>1. kind # "list"
      BY <2>3 DEF ClientNext, SendEntry, SendRange, NewField, AddItem, GrowName, GrowTarget
    <3>2. kind' = kind
      BY <2>3 DEF ClientNext, SendEntry, SendRange, NewField, AddItem, GrowName, GrowTarget, Send
    <3> QED
      BY <3>1, <3>2
  <2> QED
    BY <2>1, <2>2, <2>3 DEF VNext, all
<1> QED
  BY <1>1, <1>2, PTL DEF VSpec

(***************************************************************************)
(* Whatever elements a client sends in one value, with any bytes in their  *)
(* quotes and any blanks between them, SplitHeaderValue gives them as they *)
(* were sent; an empty element is passed over and ends nothing, unlike the *)
(* scan in the comment of SplitHeaderValue.                                *)
(***************************************************************************)
THEOREM ElementsAlwaysArrive == VSpec => []ElementsArrive
<1>1. ListKept => ElementsArrive
  BY Zenon DEF ListKept, ElementsArrive
<1> QED
  BY <1>1, ListKeptHolds, PTL

-----------------------------------------------------------------------------
(* Byte ranges.                                                            *)

\* A sequence of sequences of one member each.
LEMMA FlattenOnes ==
    ASSUME NEW S, NEW f \in Seq(S)
    PROVE  FlattenSeq([k \in DOMAIN f |-> <<f[k]>>]) = f
<1> DEFINE ones(g) == [k \in DOMAIN g |-> <<g[k]>>]
           P == {g \in Seq(S) : FlattenSeq(ones(g)) = g}
<1>1. <<>> \in P
  <2>1. ones(<<>>) = <<>>
    OBVIOUS
  <2> QED
    BY <2>1, FlattenFew
<1>2. ASSUME NEW g \in Seq(S), NEW x \in S, g \in P PROVE Append(g, x) \in P
  <2> DEFINE h == Append(g, x)
             n == Len(g)
             one == <<x>>
  <2>1. /\ h \in Seq(S) /\ n \in Nat /\ DOMAIN g = 1..n /\ DOMAIN h = 1..(n + 1) /\ h[n + 1] = x
        /\ \A k \in 1..n : h[k] = g[k] /\ g[k] \in S
        /\ h = g \o one
    OBVIOUS
  <2> HIDE DEF h, n
  <2>2. ones(g) = [k \in 1..n |-> <<g[k]>>] /\ ones(h) = [k \in 1..(n + 1) |-> <<h[k]>>]
    BY <2>1
  <2>3. \A k \in 1..(n + 1) : <<h[k]>> \in Seq(S)
    BY <2>1
  <2>4. \A k \in 1..n : <<g[k]>> \in Seq(S)
    BY <2>1
  <2> DEFINE u == ones(g)
             v == ones(h)
  <2>5. /\ u \in Seq(Seq(S)) /\ v \in Seq(Seq(S)) /\ Len(u) = n /\ Len(v) = n + 1
        /\ v[n + 1] = one
        /\ \A k \in 1..n : v[k] = u[k]
    BY <2>1, <2>2, <2>3, <2>4
  <2> HIDE DEF u, v, one
  <2>6. FlattenSeq(v) = FlattenSeq(u) \o one
    BY <2>5, FlattenGrows
  <2>7. FlattenSeq(u) = g
    BY <1>2 DEF u
  <2> QED
    BY <2>1, <2>6, <2>7 DEF v, h
<1> HIDE DEF P
<1>3. Seq(S) \subseteq P
  BY <1>1, <1>2, SeqInduction
<1> QED
  BY <1>3 DEF P

\* v gives what the first n digits come to.
Amounts(v, d) ==
    v = [n \in 0..Len(d) |-> IF n = 0 THEN 0 ELSE 10 * v[n - 1] + d[n] - 48]

\* A text of digits is a natural number.
LEMMA DecimalIs ==
    ASSUME NEW d \in Seq(Nat), \A i \in 1..Len(d) : d[i] \in Digits
    PROVE  Decimal(d) \in Nat
<1> DEFINE Step(n, v) == 10 * v + d[n] - 48
           step == [n \in Nat |-> [v \in Nat |-> IF n \in 1..Len(d) THEN Step(n, v) ELSE v]]
<1>1. /\ 0 \in Nat /\ Len(d) \in Nat /\ step \in [Nat -> [Nat -> Nat]]
      /\ \A n \in 1..Len(d) : n \in Nat /\ \A v \in Nat : step[n][v] = Step(n, v)
  <2>1. \A n \in 1..Len(d) : \A v \in Nat : Step(n, v) \in Nat
    <3> SUFFICES ASSUME NEW n \in 1..Len(d), NEW v \in Nat PROVE Step(n, v) \in Nat
      OBVIOUS
    <3>1. d[n] \in Digits
      OBVIOUS
    <3> DEFINE x == d[n]
    <3> HIDE DEF x
    <3>2. x \in Nat /\ x >= 48
      BY <3>1 DEF Digits, x
    <3>3. 10 * v + x - 48 \in Nat
      BY <3>2
    <3> QED
      BY <3>3 DEF x
  <2> HIDE DEF Step
  <2>2. 0 \in Nat /\ Len(d) \in Nat /\ \A n \in 1..Len(d) : n \in Nat
    OBVIOUS
  <2>3. \A n \in Nat : \A v \in Nat : (IF n \in 1..Len(d) THEN Step(n, v) ELSE v) \in Nat
    BY <2>1
  <2>4. step \in [Nat -> [Nat -> Nat]]
    BY <2>3, Zenon
  <2>5. \A n \in 1..Len(d) : n \in Nat /\ \A v \in Nat : step[n][v] = Step(n, v)
    BY <2>2
  <2> QED
    BY <2>2, <2>4, <2>5
<1>2. \E f : Solves(f, Nat, 0, step, Len(d))
  <2> HIDE DEF step
  <2> QED
    BY <1>1, Recursion
<1> HIDE DEF step
<1>3. PICK f : /\ f \in [0..Len(d) -> Nat] /\ f[0] = 0
               /\ \A n \in 1..Len(d) : f[n] = step[n][f[n - 1]]
  BY <1>2 DEF Solves
<1>4. \A n \in 0..Len(d) : f[n] = IF n = 0 THEN 0 ELSE Step(n, f[n - 1])
  <2> HIDE DEF Step
  <2> TAKE n \in 0..Len(d)
  <2>1. CASE n = 0
    BY <1>3, <2>1
  <2>2. CASE n # 0
    <3>1. n \in 1..Len(d) /\ n - 1 \in 0..Len(d)
      BY <2>2
    <3>2. f[n - 1] \in Nat
      BY <1>3, <3>1
    <3> QED
      BY <1>1, <1>3, <2>2, <3>1, <3>2
  <2> QED
    BY <2>1, <2>2
<1>5. f = [n \in 0..Len(d) |-> IF n = 0 THEN 0 ELSE Step(n, f[n - 1])]
  <2> HIDE DEF Step
  <2> QED
    BY <1>3, <1>4
<1>6. Amounts(f, d)
  BY <1>5, Zenon DEF Amounts
<1> DEFINE c == CHOOSE v : Amounts(v, d)
<1>7. Decimal(d) = c[Len(d)]
  BY Zenon DEF Decimal, Amounts
<1>8. c = [n \in 0..Len(d) |-> IF n = 0 THEN 0 ELSE Step(n, c[n - 1])]
  <2>1. Amounts(c, d)
    BY <1>6, Zenon
  <2> HIDE DEF c
  <2> QED
    BY <2>1, Zenon DEF Amounts
<1> HIDE DEF c
<1> DEFINE P == {n \in Nat : n <= Len(d) => c[n] \in Nat}
<1>9. \A n \in 0..Len(d) : c[n] = IF n = 0 THEN 0 ELSE Step(n, c[n - 1])
  <2> HIDE DEF Step
  <2> QED
    BY <1>8
<1>10. 0 \in P
  BY <1>9
<1>11. ASSUME NEW n \in Nat, n \in P PROVE n + 1 \in P
  <2> SUFFICES ASSUME n + 1 <= Len(d) PROVE c[n + 1] \in Nat
    OBVIOUS
  <2>1. n + 1 \in 0..Len(d) /\ n + 1 # 0 /\ (n + 1) - 1 = n /\ c[n] \in Nat /\ n + 1 \in 1..Len(d)
    BY <1>11
  <2>2. c[n + 1] = Step(n + 1, c[n])
    BY <1>9, <2>1
  <2>3. d[n + 1] \in Digits
    BY <2>1
  <2> DEFINE x == d[n + 1]
             y == c[n]
  <2>4. c[n + 1] = 10 * y + x - 48 /\ y \in Nat
    BY <2>1, <2>2
  <2>5. x \in Nat /\ x >= 48
    BY <2>3 DEF Digits
  <2> HIDE DEF x, y
  <2>6. 10 * y + x - 48 \in Nat
    BY <2>4, <2>5
  <2> QED
    BY <2>4, <2>6
<1> HIDE DEF P
<1>12. Nat \subseteq P
  BY <1>10, <1>11, Induction
<1>13. Len(d) \in Nat /\ Len(d) <= Len(d)
  OBVIOUS
<1> QED
  BY <1>7, <1>12, <1>13 DEF P

\* A text with no quote and no comma is an element.
LEMMA PlainIsElement ==
    ASSUME NEW x \in Seq(Octets), x # <<>>, x[1] \notin Blank,
           \A i \in 1..Len(x) : x[i] \notin {Quotation, Comma}
    PROVE  IsElement(x)
<1>1. x \in Seq(Nat) /\ Len(x) \in Nat /\ DOMAIN x = 1..Len(x)
  BY OctetsAre
<1> DEFINE P == {n \in Nat : n <= Len(x) => Mode(x)[n] = "bare"}
<1>2. 0 \in P
  BY <1>1, ModeIs
<1>3. ASSUME NEW n \in Nat, n \in P PROVE n + 1 \in P
  <2> SUFFICES ASSUME n + 1 <= Len(x) PROVE Mode(x)[n + 1] = "bare"
    OBVIOUS
  <2>1. n + 1 \in 1..Len(x) /\ (n + 1) - 1 = n /\ Mode(x)[n] = "bare"
    BY <1>1, <1>3
  <2>2. Mode(x)[n + 1] = Turn("bare", x, n + 1) /\ x[n + 1] # Quotation
    BY <1>1, <2>1, ModeIs
  <2> QED
    BY <2>2, TurnIs DEF Modes
<1> HIDE DEF P
<1>4. Nat \subseteq P
  BY <1>2, <1>3, Induction
<1>5. Mode(x)[Len(x)] = "bare"
  BY <1>1, <1>4 DEF P
<1>6. BareCommas(x) = {}
  BY <1>1 DEF BareCommas, Commas
<1> QED
  BY <1>1, <1>5, <1>6 DEF IsElement

\* A byte range is an element, and is read as what selects its bytes.
LEMMA OneRangeIs ==
    ASSUME NEW r \in ByteRanges
    PROVE  /\ IsElement(r.text)
           /\ \E g \in [first : Int, last : Int] :
                 /\ ParseOneRange(r.text) = <<g>>
                 /\ Selected(g) = IF r.zero THEN 0..(BodyLength - 1)
                                  ELSE r.bytes \cap 0..(BodyLength - 1)
<1> DEFINE x == r.text
<1>1. PICK dash \in DOMAIN x :
         LET a == Before(x, dash)
             b == From(x, dash + 1)
         IN /\ x \in Seq(Octets) /\ x[dash] = Dash
            /\ Range(a) \cup Range(b) \subseteq Digits /\ a \o b # <<>>
            /\ r.zero <=> a = <<>> /\ Decimal(b) = 0
            /\ \A i \in 0..(BodyLength - 1) :
                  i \in r.bytes <=>
                     IF a = <<>> THEN i >= BodyLength - Decimal(b)
                     ELSE i >= Decimal(a) /\ (b # <<>> => i <= Decimal(b))
  BY ByteRangesAssumption, Zenon DEF Octets
<1> DEFINE a == Before(x, dash)
           b == From(x, dash + 1)
<1>2. /\ x[dash] = Dash /\ x \in Seq(Octets)
      /\ Range(a) \cup Range(b) \subseteq Digits /\ a \o b # <<>>
      /\ r.zero <=> a = <<>> /\ Decimal(b) = 0
      /\ \A i \in 0..(BodyLength - 1) :
            i \in r.bytes <=>
               IF a = <<>> THEN i >= BodyLength - Decimal(b)
               ELSE i >= Decimal(a) /\ (b # <<>> => i <= Decimal(b))
  BY <1>1, Zenon
<1> HIDE DEF x
<1>3. x \in Seq(Nat) /\ Len(x) \in Nat /\ dash \in 1..Len(x)
  BY <1>1, OctetsAre
<1>4. /\ a \in Seq(Nat) /\ Len(a) = dash - 1 /\ \A i \in 1..(dash - 1) : a[i] = x[i]
      /\ b \in Seq(Nat) /\ Len(b) = Len(x) - dash /\ \A i \in 1..(Len(x) - dash) : b[i] = x[dash + i]
  <2> DEFINE n == Len(x)
  <2>0. n \in Nat /\ dash \in 1..n
    BY <1>3
  <2>1. /\ 1 \in 1..(n + 1) /\ dash - 1 \in 0..n
        /\ dash + 1 \in 1..(n + 1) /\ n \in 0..n
        /\ (dash - 1) - 1 + 1 = dash - 1 /\ (n - (dash + 1)) + 1 = n - dash
        /\ \A i \in 1..(dash - 1) : (1 + i) - 1 = i
        /\ \A i \in 1..(n - dash) : ((dash + 1) + i) - 1 = dash + i
        /\ n - dash \in Nat /\ dash - 1 \in Nat
    <3> HIDE DEF n
    <3> QED
      BY <2>0
  <2>2. /\ SubSeq(x, 1, dash - 1) \in Seq(Nat)
        /\ SubSeq(x, 1, dash - 1) = [k \in 1..(((dash - 1) - 1) + 1) |-> x[(1 + k) - 1]]
    BY <1>3, <2>1, PartIs
  <2>3. /\ SubSeq(x, dash + 1, n) \in Seq(Nat)
        /\ SubSeq(x, dash + 1, n) = [k \in 1..((n - (dash + 1)) + 1) |-> x[((dash + 1) + k) - 1]]
    BY <1>3, <2>1, PartIs
  <2>4. a \in Seq(Nat) /\ a = [k \in 1..(dash - 1) |-> x[k]]
    BY <2>1, <2>2 DEF Before
  <2>5. b \in Seq(Nat) /\ b = [k \in 1..(n - dash) |-> x[dash + k]]
    BY <2>1, <2>3 DEF From
  <2> HIDE DEF a, b, n
  <2>6. Len(a) = dash - 1
    BY <2>1, <2>4
  <2>7. Len(b) = n - dash
    BY <2>1, <2>5
  <2> QED
    BY <2>4, <2>5, <2>6, <2>7 DEF n
<1> HIDE DEF a, b
<1>5. (\A i \in 1..Len(a) : a[i] \in Digits) /\ (\A i \in 1..Len(b) : b[i] \in Digits)
  <2>1. DOMAIN a = 1..Len(a) /\ DOMAIN b = 1..Len(b)
    BY <1>4
  <2> QED
    BY <1>2, <2>1, Zenon DEF Range
<1>6. a # <<>> \/ b # <<>>
  BY <1>2
<1>7. \A i \in 1..Len(x) : x[i] \in Digits \cup {Dash}
  <2> SUFFICES ASSUME NEW i \in 1..Len(x), i # dash PROVE x[i] \in Digits
    BY <1>2
  <2>1. CASE i < dash
    <3>1. i \in 1..(dash - 1) /\ i \in 1..Len(a)
      BY <1>3, <1>4, <2>1
    <3> QED
      BY <1>4, <1>5, <3>1
  <2>2. CASE i > dash
    <3> DEFINE j == i - dash
    <3>1. j \in 1..(Len(x) - dash) /\ j \in 1..Len(b) /\ dash + j = i
      BY <1>3, <1>4, <2>2
    <3> HIDE DEF j
    <3> QED
      BY <1>4, <1>5, <3>1
  <2> QED
    BY <1>3, <2>1, <2>2
<1>8. IsElement(x)
  <2>1. Len(x) >= 1 /\ 1 \in 1..Len(x) /\ x # <<>>
    BY <1>3
  <2>2. \A c \in Digits \cup {Dash} : c \notin Blank /\ c \notin {Quotation, Comma}
    BY DEF Digits, Dash, Blank, Space, Quotation, Comma
  <2>3. x[1] \notin Blank /\ \A i \in 1..Len(x) : x[i] \notin {Quotation, Comma}
    BY <1>7, <2>1, <2>2, Zenon
  <2> QED
    BY <1>2, <2>1, <2>3, PlainIsElement
<1>9. Next(x, 1, {Dash}) = dash
  <2>1. \A j \in 1..(dash - 1) : x[j] \notin {Dash}
    <3> SUFFICES ASSUME NEW j \in 1..(dash - 1) PROVE x[j] # Dash
      OBVIOUS
    <3>1. a[j] \in Digits /\ a[j] = x[j]
      BY <1>4, <1>5
    <3> QED
      BY <3>1 DEF Digits, Dash
  <2>2. 1 \in Nat \ {0} /\ dash \in 1..(Len(x) + 1) /\ x[dash] \in {Dash}
    BY <1>2, <1>3
  <2> QED
    BY <1>3, <2>1, <2>2, NextIs
<1>10. (AllDigits(a) <=> a # <<>>) /\ (AllDigits(b) <=> b # <<>>)
  BY <1>2, Zenon DEF AllDigits
<1>11. Decimal(a) \in Nat /\ Decimal(b) \in Nat
  BY <1>4, <1>5, DecimalIs
<1>12. ParseOneRange(x) = IF a # <<>> THEN ByteRange(Decimal(a), IF b # <<>> THEN Decimal(b) ELSE -1)
                          ELSE ByteRange(-Decimal(b), -1)
  <2>1. ParseOneRange(x) =
           CASE dash <= Len(x) /\ AllDigits(a) ->
                   ByteRange(Decimal(a), IF AllDigits(b) THEN Decimal(b) ELSE -1)
             [] dash = 1 /\ AllDigits(b) -> ByteRange(-Decimal(b), -1)
             [] OTHER -> NoRange
    BY <1>9, Zenon DEF ParseOneRange, a, b
  <2>2. CASE a # <<>>
    <3>1. dash <= Len(x) /\ AllDigits(a)
      BY <1>3, <1>10, <2>2
    <3>2. dash # 1
      BY <1>4, <2>2
    <3> QED
      BY <1>10, <2>1, <2>2, <3>1, <3>2
  <2>3. CASE a = <<>>
    <3>1. ~AllDigits(a) /\ AllDigits(b) /\ dash = 1
      <4>1. Len(a) = 0
        BY <2>3
      <4> QED
        BY <1>3, <1>4, <1>6, <1>10, <2>3, <4>1
    <3> QED
      BY <2>1, <2>3, <3>1
  <2> QED
    BY <2>2, <2>3
<1> DEFINE m == Decimal(a)
           n == Decimal(b)
           g == IF a # <<>> THEN [first |-> m, last |-> IF b # <<>> THEN n ELSE -1]
                ELSE [first |-> -n, last |-> -1]
<1>13. ParseOneRange(x) = <<g>>
  BY <1>12 DEF ByteRange
<1> HIDE DEF m, n
<1>14. m \in Nat /\ n \in Nat /\ BodyLength \in Nat
  BY <1>11, ByteRangesAssumption DEF m, n
<1>15. g \in [first : Int, last : Int]
  BY <1>14
<1>16. \A i \in 0..(BodyLength - 1) :
          i \in r.bytes <=> IF a = <<>> THEN i >= BodyLength - n
                            ELSE i >= m /\ (b # <<>> => i <= n)
  BY <1>2 DEF m, n
<1>17. r.zero <=> a = <<>> /\ n = 0
  BY <1>2 DEF n
<1>18. Selected(g) = IF r.zero THEN 0..(BodyLength - 1) ELSE r.bytes \cap 0..(BodyLength - 1)
  <2>1. CASE a = <<>>
    <3>1. g.first = -n /\ g.last = -1
      BY <2>1
    <3> HIDE DEF g
    <3>2. \A i \in 0..(BodyLength - 1) :
             i >= (IF g.first < 0 THEN BodyLength + g.first ELSE g.first)
                <=> n = 0 \/ i >= BodyLength - n
      BY <1>14, <3>1
    <3>3. Selected(g) = {i \in 0..(BodyLength - 1) : n = 0 \/ i >= BodyLength - n}
      BY <3>1, <3>2 DEF Selected
    <3> QED
      BY <1>16, <1>17, <2>1, <3>3
  <2>2. CASE a # <<>>
    <3>1. g.first = m /\ g.last = IF b # <<>> THEN n ELSE -1
      BY <2>2
    <3> HIDE DEF g
    <3>2. \A i \in 0..(BodyLength - 1) :
             /\ i >= (IF g.first < 0 THEN BodyLength + g.first ELSE g.first) <=> i >= m
             /\ (g.last # -1 => i <= g.last) <=> (b # <<>> => i <= n)
      BY <1>14, <3>1
    <3>3. Selected(g) = {i \in 0..(BodyLength - 1) : i >= m /\ (b # <<>> => i <= n)}
      BY <3>2 DEF Selected
    <3> QED
      BY <1>16, <1>17, <2>2, <3>3
  <2> QED
    BY <2>1, <2>2
<1> QED
  BY <1>8, <1>13, <1>15, <1>18, Zenon DEF x

\* A text behind another one.
LEMMA Behind ==
    ASSUME NEW p \in Seq(Nat), NEW s \in Seq(Nat)
    PROVE  IsPrefix(p, p \o s) /\ From(p \o s, Len(p) + 1) = s
<1> DEFINE t == p \o s
           l == Len(p)
           n == Len(t)
<1>1. /\ t \in Seq(Nat) /\ l \in Nat /\ n = l + Len(s) /\ Len(s) \in Nat
      /\ \A i \in 1..l : t[i] = p[i]
      /\ \A i \in 1..Len(s) : t[l + i] = s[i]
  BY LenProperties, ConcatProperties
<1> HIDE DEF t
<1>2. l <= n /\ SubSeq(p, 1, l) = SubSeq(t, 1, l)
  <2>1. l \in 0..Len(p) /\ l <= Len(t) /\ 1 \in 1..(l + 1)
    BY <1>1
  <2> QED
    BY <1>1, <2>1, SamePart
<1>3. From(t, l + 1) = s
  <2>1. l + 1 \in 1..(n + 1) /\ n \in 0..n /\ (n - (l + 1)) + 1 = Len(s)
        /\ \A k \in 1..Len(s) : ((l + 1) + k) - 1 = l + k
    BY <1>1
  <2>2. SubSeq(t, l + 1, n) = [k \in 1..((n - (l + 1)) + 1) |-> t[((l + 1) + k) - 1]]
    BY <1>1, <2>1, PartIs
  <2>3. SubSeq(t, l + 1, n) = [k \in 1..Len(s) |-> s[k]]
    BY <1>1, <2>1, <2>2
  <2>4. s = [k \in 1..Len(s) |-> s[k]]
    OBVIOUS
  <2> QED
    BY <2>3, <2>4 DEF From
<1> QED
  BY <1>2, <1>3 DEF IsPrefix, t

\* A sequence of images, and one image more.
Images(h, s) == [k \in DOMAIN s |-> h[s[k]]]

LEMMA ImagesGrow ==
    ASSUME NEW S, NEW V, NEW h \in [S -> V], NEW s \in Seq(S), NEW e \in S
    PROVE  Images(h, s \o <<e>>) = Images(h, s) \o <<h[e]>>
<1> DEFINE t == s \o <<e>>
           n == Len(s)
           a == [k \in 1..n |-> h[s[k]]]
<1>1. /\ t \in Seq(S) /\ n \in Nat /\ DOMAIN s = 1..n /\ DOMAIN t = 1..(n + 1) /\ t[n + 1] = e
      /\ \A k \in 1..n : t[k] = s[k] /\ s[k] \in S
  OBVIOUS
<1> HIDE DEF t, n
<1>2. \A k \in 1..n : h[s[k]] \in V
  BY <1>1
<1>3. a \in Seq(V) /\ Len(a) = n /\ \A k \in 1..n : a[k] = h[s[k]]
  BY <1>1, <1>2
<1> HIDE DEF a
<1> DEFINE z == h[e]
<1>4. z \in V
  OBVIOUS
<1>5. a \o <<z>> = Append(a, z)
  <2> HIDE DEF z
  <2> QED
    BY <1>3, <1>4, OneMore
<1>6. Append(a, z) = [k \in 1..(n + 1) |-> IF k = n + 1 THEN z ELSE a[k]]
  <2> HIDE DEF z
  <2> QED
    BY <1>3, <1>4, AppendIs
<1>7. \A k \in 1..(n + 1) : h[t[k]] = IF k = n + 1 THEN z ELSE a[k]
  BY <1>1, <1>3
<1>8. Images(h, t) = [k \in 1..(n + 1) |-> IF k = n + 1 THEN z ELSE a[k]]
  BY <1>1, <1>7 DEF Images
<1>9. Images(h, s) = a
  BY <1>1 DEF Images, a
<1> QED
  BY <1>5, <1>6, <1>8, <1>9, Zenon DEF t

\* The texts of byte ranges.
TextOf == [r \in ByteRanges |-> r.text]
TextsOf(m) == Images(TextOf, m)

\* A Range value is "bytes=" and a list of the ranges that are meant.
RangesAre(m, s) == /\ m \in Seq(ByteRanges) /\ Closed(s)
                   /\ SplitHeaderValue(s) = TextsOf(m)
                   /\ m = <<>> => s = <<>>
RangeKept == kind = "range" => \E s : text = Bytes \o s /\ RangesAre(meant, s)

LEMMA RangeSent ==
    ASSUME NEW m, NEW s, RangesAre(m, s), NEW r \in ByteRanges,
           NEW blanks \in {<<>>, <<Space>>, <<Comma, Space>>}
    PROVE  RangesAre(Append(m, r),
                     (s \o (IF m = <<>> THEN <<>> ELSE <<Comma>> \o blanks)) \o r.text)
<1> DEFINE e == r.text
<1>1. IsElement(e) /\ e \in Seq(Nat) /\ TextOf[r] = e
  BY OneRangeIs DEF IsElement, TextOf
<1>2. m \in Seq(ByteRanges) /\ Closed(s) /\ SplitHeaderValue(s) = TextsOf(m) /\ s \in Seq(Nat)
      /\ (m = <<>> => s = <<>>)
  BY DEF RangesAre, Closed
<1> HIDE DEF e
<1>3. Append(m, r) = m \o <<r>> /\ Append(m, r) \in Seq(ByteRanges) /\ Append(m, r) # <<>>
  BY <1>2, OneMore
<1>4. TextsOf(Append(m, r)) = TextsOf(m) \o <<e>>
  <2> DEFINE V == Seq(Nat)
  <2>1. \A q \in ByteRanges : q.text \in V
    BY OneRangeIs DEF IsElement
  <2>2. TextOf \in [ByteRanges -> V]
    BY <2>1, Zenon DEF TextOf
  <2> HIDE DEF V
  <2> QED
    BY <1>1, <1>2, <1>3, <2>2, ImagesGrow DEF TextsOf
<1>5. CASE m = <<>>
  <2>1. (s \o <<>>) \o e = e
    <3>1. s = <<>>
      BY <1>2, <1>5
    <3> QED
      BY <1>1, <3>1
  <2>2. SplitHeaderValue(e) = <<e>> /\ Closed(e)
    BY <1>1, SplitHeaderOne DEF IsElement, Some, Closed
  <2>3. TextsOf(m) \o <<e>> = <<e>>
    <3>1. TextsOf(m) = <<>>
      BY <1>5 DEF TextsOf, Images
    <3> QED
      BY <1>1, <3>1
  <2> QED
    BY <1>3, <1>4, <1>5, <2>1, <2>2, <2>3, Zenon DEF RangesAre, e
<1>6. CASE m # <<>>
  <2> DEFINE t == (s \o (<<Comma>> \o blanks)) \o e
  <2>1. Closed(t) /\ SplitHeaderValue(t) = SplitHeaderValue(s) \o <<e>>
    BY <1>1, <1>2, ElementGrows, Zenon
  <2> QED
    BY <1>2, <1>3, <1>4, <1>6, <2>1, Zenon DEF RangesAre, e
<1> QED
  BY <1>5, <1>6

LEMMA RangeKeptHolds == VSpec => []RangeKept
<1>1. VInit => RangeKept
  <2> SUFFICES ASSUME VInit, kind = "range" PROVE text = Bytes \o <<>> /\ RangesAre(meant, <<>>)
    BY Zenon DEF RangeKept
  <2> DEFINE none == <<>>
  <2>1. text = Bytes /\ meant = none
    BY DEF VInit, Begun0
  <2>2. none \in Seq(Nat) /\ Len(none) = 0 /\ DOMAIN none = {} /\ meant \in Seq(ByteRanges)
    BY <2>1
  <2>3. Bytes \o none = Bytes
    BY DEF Bytes, Equals
  <2>4. TextsOf(none) = none
    BY DEF TextsOf, Images
  <2> HIDE DEF none
  <2>5. Closed(none) /\ BareCommas(none) = {}
    BY <2>2, ModeIs DEF Closed, BareCommas, Commas
  <2>6. SplitHeaderValue(none) = none
    <3>1. SplitHeaderValue(none) = Some(none)
      BY <2>2, <2>5, SplitHeaderOne
    <3> QED
      BY <3>1 DEF Some, none
  <2>7. RangesAre(meant, none)
    BY <2>1, <2>2, <2>4, <2>5, <2>6, Zenon DEF RangesAre
  <2> QED
    BY <2>1, <2>3, <2>7 DEF none
<1>2. RangeKept /\ [VNext]_all => RangeKept'
  <2> SUFFICES ASSUME RangeKept, [VNext]_all, kind' = "range"
               PROVE  \E s : text' = Bytes \o s /\ RangesAre(meant', s)
    BY Zenon DEF RangeKept, RangesAre, TextsOf, Images, TextOf, Closed, SplitHeaderValue, Mode
  <2>1. CASE UNCHANGED client
    BY <2>1, Zenon DEF RangeKept, client
  <2>2. CASE SendRange
    <3>1. PICK r \in ByteRanges : Send(r, r.text)
      BY <2>2 DEF SendRange
    <3>2. PICK blanks \in {<<>>, <<Space>>, <<Comma, Space>>} :
             /\ kind = "range" /\ meant' = Append(meant, r)
             /\ text' = text \o (IF meant = <<>> THEN <<>> ELSE <<Comma>> \o blanks) \o r.text
      BY <2>2, <3>1 DEF Send, SendRange
    <3>3. PICK s : text = Bytes \o s /\ RangesAre(meant, s)
      BY <3>2 DEF RangeKept
    <3> DEFINE x == IF meant = <<>> THEN <<>> ELSE <<Comma>> \o blanks
               e == r.text
    <3>4. RangesAre(meant', (s \o x) \o e)
      BY <3>2, <3>3, RangeSent, Zenon
    <3>5. x \in Seq(Nat)
      <4>1. /\ <<Comma>> \in Seq(Nat) /\ <<>> \in Seq(Nat)
            /\ <<Space>> \in Seq(Nat) /\ <<Comma, Space>> \in Seq(Nat)
        BY DEF Comma, Space
      <4>2. blanks = <<>> \/ blanks = <<Space>> \/ blanks = <<Comma, Space>>
        OBVIOUS
      <4>3. blanks \in Seq(Nat)
        BY <4>1, <4>2, Zenon
      <4> DEFINE c == <<Comma>>
      <4> HIDE DEF c
      <4>4. c \o blanks \in Seq(Nat)
        BY <4>1, <4>3 DEF c
      <4> QED
        BY <4>1, <4>4, Zenon DEF c
    <3>6. s \in Seq(Nat) /\ e \in Seq(Nat) /\ Bytes \in Seq(Nat)
      BY <3>3, OneRangeIs DEF RangesAre, Closed, IsElement, Bytes, Equals
    <3>7. text' = ((Bytes \o s) \o x) \o e
      BY <3>2, <3>3, Zenon
    <3> HIDE DEF x, e
    <3>8. ((Bytes \o s) \o x) \o e = Bytes \o ((s \o x) \o e)
      <4> DEFINE y == s \o x
                 p == Bytes
      <4>1. y \in Seq(Nat) /\ p \in Seq(Nat)
        BY <3>5, <3>6
      <4> HIDE DEF p
      <4>2. (p \o s) \o x = p \o y
        BY <3>5, <3>6, <4>1, TextsRegroup
      <4> HIDE DEF y
      <4>3. (p \o y) \o e = p \o (y \o e)
        BY <3>6, <4>1, TextsRegroup
      <4> QED
        BY <4>2, <4>3, Zenon DEF y, p
    <3> QED
      BY <3>4, <3>7, <3>8, Zenon
  <2>3. CASE ClientNext /\ ~SendRange
    <3>1. kind # "range"
      BY <2>3 DEF ClientNext, SendEntry, SendElement, NewField, AddItem, GrowName, GrowTarget
    <3>2. kind' = kind
      BY <2>3 DEF ClientNext, SendEntry, SendElement, NewField, AddItem, GrowName, GrowTarget, Send
    <3> QED
      BY <3>1, <3>2
  <2> QED
    BY <2>1, <2>2, <2>3 DEF VNext, all
<1> QED
  BY <1>1, <1>2, PTL DEF VSpec

(***************************************************************************)
(* Whatever byte ranges a client asks for in one Range value, each is read *)
(* as a range that selects its bytes of the resource, "-0" as all of them  *)
(* (ParseRangeHeader), with any blanks between them and no end of the list *)
(* at an empty element.                                                    *)
(***************************************************************************)
THEOREM RangesAlwaysSelectTheirBytes == VSpec => []RangesSelectTheirBytes
<1>1. RangeKept => RangesSelectTheirBytes
  <2> SUFFICES ASSUME RangeKept, kind = "range"
               PROVE  LET read == ParseRangeHeader(text)
                      IN /\ read.ok /\ Len(read.ranges) = Len(meant)
                         /\ \A k \in DOMAIN meant :
                               Selected(read.ranges[k])
                                  = IF meant[k].zero THEN 0..(BodyLength - 1)
                                    ELSE meant[k].bytes \cap 0..(BodyLength - 1)
    BY Zenon DEF RangesSelectTheirBytes
  <2>1. PICK s : text = Bytes \o s /\ RangesAre(meant, s)
    BY DEF RangeKept
  <2>2. s \in Seq(Nat) /\ Bytes \in Seq(Nat) /\ meant \in Seq(ByteRanges)
        /\ SplitHeaderValue(s) = TextsOf(meant)
    BY <2>1 DEF RangesAre, Closed, Bytes, Equals
  <2>3. IsPrefix(Bytes, text) /\ From(text, Len(Bytes) + 1) = s
    BY <2>1, <2>2, Behind
  <2> DEFINE G == [first : Int, last : Int]
             n == Len(meant)
             f == [k \in 1..n |-> ParseOneRange(meant[k].text)[1]]
             specs == SplitHeaderValue(From(text, Len(Bytes) + 1))
             out == [k \in DOMAIN specs |-> ParseOneRange(specs[k])]
  <2>4. n \in Nat /\ DOMAIN meant = 1..n /\ \A k \in 1..n : meant[k] \in ByteRanges
    BY <2>2
  <2>5. specs = [k \in 1..n |-> meant[k].text]
    BY <2>2, <2>3, <2>4 DEF TextsOf, Images, TextOf
  <2> HIDE DEF specs, n
  <2>6. \A k \in 1..n : /\ f[k] \in G /\ ParseOneRange(meant[k].text) = <<f[k]>>
                        /\ Selected(f[k]) = IF meant[k].zero THEN 0..(BodyLength - 1)
                                            ELSE meant[k].bytes \cap 0..(BodyLength - 1)
    <3> TAKE k \in 1..n
    <3>1. PICK g \in G :
             /\ ParseOneRange(meant[k].text) = <<g>>
             /\ Selected(g) = IF meant[k].zero THEN 0..(BodyLength - 1)
                              ELSE meant[k].bytes \cap 0..(BodyLength - 1)
      BY <2>4, OneRangeIs
    <3>2. f[k] = g
      BY <3>1
    <3> QED
      BY <3>1, <3>2, Zenon
  <2>7. f \in Seq(G) /\ Len(f) = n /\ DOMAIN f = 1..n
    <3>1. f = [k \in 1..n |-> f[k]] /\ \A k \in 1..n : f[k] \in G
      BY <2>6, Zenon
    <3> HIDE DEF f, G
    <3> QED
      BY <2>4, <3>1
  <2>8. out = [k \in DOMAIN f |-> <<f[k]>>]
    <3>1. DOMAIN specs = 1..n /\ \A k \in 1..n : specs[k] = meant[k].text
      BY <2>5
    <3>2. \A k \in 1..n : ParseOneRange(specs[k]) = <<f[k]>>
      BY <2>6, <3>1, Zenon
    <3> HIDE DEF f
    <3> QED
      BY <2>7, <3>1, <3>2
  <2> HIDE DEF f, out, G
  <2>9. FlattenSeq(out) = f
    BY <2>7, <2>8, FlattenOnes
  <2>10. NoRange \notin Range(out)
    <3>1. \A k \in DOMAIN out : out[k] = <<f[k]>>
      BY <2>8
    <3>2. \A g : <<g>> # <<>>
      OBVIOUS
    <3> QED
      BY <3>1, <3>2, Zenon DEF NoRange, Range
  <2>11. ParseRangeHeader(text) = [ok |-> TRUE, ranges |-> f]
    <3> DEFINE accepted == IsPrefix(Bytes, text) /\ NoRange \notin Range(out)
    <3>1. ParseRangeHeader(text) = [ok |-> accepted, ranges |-> IF accepted THEN FlattenSeq(out) ELSE <<>>]
      BY Zenon DEF ParseRangeHeader, out, specs
    <3>2. accepted = TRUE
      BY <2>3, <2>10, Zenon
    <3> HIDE DEF accepted
    <3> QED
      BY <2>9, <3>1, <3>2
  <2> QED
    BY <2>4, <2>6, <2>7, <2>11 DEF n
<1> QED
  BY <1>1, RangeKeptHolds, PTL

-----------------------------------------------------------------------------
(* The two forms of a target.                                              *)

\* The last place of a character, 0 if there is none.
LEMMA LastOfIs ==
    ASSUME NEW s \in Seq(Nat), NEW c
    PROVE  /\ LastOf(s, c) \in 0..Len(s)
           /\ LastOf(s, c) # 0 => s[LastOf(s, c)] = c
           /\ \A i \in 1..Len(s) : s[i] = c => i <= LastOf(s, c)
<1> DEFINE S == {0} \cup {i \in DOMAIN s : s[i] = c}
<1>1. S \in SUBSET (0..Len(s)) /\ S # {} /\ Len(s) \in Nat /\ DOMAIN s = 1..Len(s)
  OBVIOUS
<1>2. Max(S) \in S /\ \A n \in S : n <= Max(S)
  <2> HIDE DEF S
  <2> QED
    BY <1>1, MaxIs
<1>3. LastOf(s, c) = Max(S)
  BY DEF LastOf
<1> QED
  BY <1>1, <1>2, <1>3

LEMMA DecimalNone == Decimal(<<>>) = 0
<1> DEFINE d == <<>>
           f == [n \in {0} |-> 0]
           c == CHOOSE v : Amounts(v, d)
<1>1. Len(d) = 0 /\ 0..Len(d) = {0}
  OBVIOUS
<1> HIDE DEF d
<1>2. f = [n \in 0..Len(d) |-> IF n = 0 THEN 0 ELSE 10 * f[n - 1] + d[n] - 48]
  BY <1>1
<1>3. Amounts(f, d)
  BY <1>2, Zenon DEF Amounts
<1>4. Decimal(d) = c[Len(d)]
  BY Zenon DEF Decimal, Amounts
<1>5. Amounts(c, d)
  BY <1>3, Zenon
<1> HIDE DEF c
<1>6. c[0] = 0
  <2>1. c = [n \in 0..Len(d) |-> IF n = 0 THEN 0 ELSE 10 * c[n - 1] + d[n] - 48]
    BY <1>5, Zenon DEF Amounts
  <2>2. 0 \in 0..Len(d)
    BY <1>1
  <2> QED
    BY <2>1, <2>2
<1> QED
  BY <1>1, <1>4, <1>6 DEF d

\* An authority that ends with a colon: "h:" and "[v6]:".
Open(a) == a # <<>> /\ Last(a) = Colon

\* The whole of a text.
LEMMA WholeText ==
    ASSUME NEW s \in Seq(Nat)
    PROVE  Before(s, Len(s) + 1) = s /\ From(s, Len(s) + 1) = <<>>
<1> DEFINE n == Len(s)
<1>1. n \in Nat /\ (n + 1) - 1 = n /\ n + 1 \in 1..(n + 1) /\ n \in 0..n /\ 1 \in 1..(n + 1)
      /\ (n - (n + 1)) + 1 = 0 /\ (n - 1) + 1 = n /\ \A k \in 1..n : (1 + k) - 1 = k
  OBVIOUS
<1>2. SubSeq(s, 1, n) = [k \in 1..((n - 1) + 1) |-> s[(1 + k) - 1]]
  BY <1>1, PartIs
<1>3. SubSeq(s, n + 1, n) \in Seq(Nat)
      /\ SubSeq(s, n + 1, n) = [k \in 1..((n - (n + 1)) + 1) |-> s[((n + 1) + k) - 1]]
  BY <1>1, PartIs
<1>4. SubSeq(s, 1, n) = s
  <2>1. SubSeq(s, 1, n) = [k \in 1..n |-> s[k]]
    BY <1>1, <1>2
  <2>2. s = [k \in 1..n |-> s[k]]
    OBVIOUS
  <2> QED
    BY <2>1, <2>2
<1>5. SubSeq(s, n + 1, n) = <<>>
  <2>1. DOMAIN SubSeq(s, n + 1, n) = {}
    BY <1>1, <1>3
  <2> QED
    BY <1>3, <2>1
<1> QED
  BY <1>1, <1>4, <1>5 DEF Before, From

\* The text without a character is the one of length 0.
LEMMA EmptyText ==
    ASSUME NEW s \in Seq(Nat)
    PROVE  s = <<>> <=> Len(s) = 0
OBVIOUS

\* The part from a place on is empty past the end only.
LEMMA FromIs ==
    ASSUME NEW s \in Seq(Nat), NEW i \in 1..(Len(s) + 1)
    PROVE  /\ From(s, i) \in Seq(Nat) /\ Len(From(s, i)) = (Len(s) + 1) - i
           /\ From(s, i) = <<>> <=> i = Len(s) + 1
           /\ i <= Len(s) => From(s, i) # <<>> /\ s[Len(s)] \in Range(From(s, i))
<1> DEFINE n == Len(s)
           f == From(s, i)
<1>1. n \in Nat /\ n \in 0..n /\ i \in Nat
  OBVIOUS
<1>2. f \in Seq(Nat) /\ f = [k \in 1..((n - i) + 1) |-> s[(i + k) - 1]]
  BY <1>1, PartIs DEF From
<1> HIDE DEF f
<1>3. (n - i) + 1 = (n + 1) - i /\ (n + 1) - i \in Nat
  BY <1>1
<1>4. Len(f) = (n + 1) - i /\ DOMAIN f = 1..((n + 1) - i)
  BY <1>2, <1>3
<1>5. f = <<>> <=> i = n + 1
  <2>1. f = <<>> <=> Len(f) = 0
    BY <1>2, EmptyText, Zenon
  <2>2. (n + 1) - i = 0 <=> i = n + 1
    BY <1>1
  <2> QED
    BY <1>4, <2>1, <2>2
<1>6. ASSUME i <= n PROVE s[n] \in Range(f)
  <2>1. (n + 1) - i \in DOMAIN f /\ (i + ((n + 1) - i)) - 1 = n
    BY <1>1, <1>4, <1>6
  <2>2. f[(n + 1) - i] = s[n]
    BY <1>2, <1>3, <1>4, <2>1
  <2> QED
    BY <2>1, <2>2 DEF Range
<1> QED
  BY <1>1, <1>2, <1>4, <1>5, <1>6 DEF f

LEMMA SchemesAre ==
    /\ Http \in Seq(Nat) /\ Http # Https /\ Http # <<>> /\ Https # <<>>
    /\ \A n : Ported(Http, n) = IF n # 0 THEN n ELSE 80
    /\ \A n : Ported(<<>>, n) = IF n # 0 THEN n ELSE 80
<1>1. Http \in Seq(Nat) /\ Len(Http) = 4 /\ Len(Https) = 5
  BY DEF Http, Https
<1>2. Http # Https /\ Http # <<>> /\ Https # <<>>
  <2>1. Len(<<>>) = 0 /\ 4 # 5 /\ 4 # 0 /\ 5 # 0
    OBVIOUS
  <2> QED
    BY <1>1, <2>1, Zenon
<1> QED
  BY <1>1, <1>2 DEF Ported

(***************************************************************************)
(* The two readers of an authority, splitAuthority and parseHostHeader:    *)
(* what the one takes, the other takes for the same host and port, unless  *)
(* the port is empty and no bracket is before it.                          *)
(***************************************************************************)
LEMMA AuthoritiesAgree ==
    ASSUME NEW a \in Seq(Nat), SplitAuthority(a).ok
    PROVE  /\ ParseHostHeader(a).host
                 = IF Open(a) /\ ~Bracketed(a) THEN a ELSE SplitAuthority(a).host
           /\ Ported(<<>>, ParseHostHeader(a).port) = Ported(Http, SplitAuthority(a).port)
<1> DEFINE n == Len(a)
           at == SplitAuthority(a)
           h == ParseHostHeader(a)
           end == BracketEnd(a)
           colon == LastOf(a, Colon)
<1>1. n \in Nat /\ end \in 1..(n + 1) /\ Unauthorised.ok = FALSE
  BY NextPlace DEF BracketEnd, Unauthorised
<1>2. /\ colon \in 0..n
      /\ colon # 0 => a[colon] = Colon
      /\ \A i \in 1..n : a[i] = Colon => i <= colon
  BY LastOfIs
<1>3. Open(a) => n # 0 /\ a[n] = Colon
  BY DEF Open, Last
<1>4. \A host, port : WithPort(host, port).ok =>
         /\ WithPort(host, port) = [host |-> host, port |-> Decimal(port), ok |-> TRUE]
         /\ port = <<>> \/ AllDigits(port)
  BY <1>1 DEF WithPort
<1>5. ~AllDigits(<<>>) /\ Decimal(<<>>) = 0
  BY DecimalNone DEF AllDigits
<1>6. \A m : /\ Ported(Http, m) = IF m # 0 THEN m ELSE 80
             /\ Ported(<<>>, m) = IF m # 0 THEN m ELSE 80
  BY SchemesAre
<1> HIDE DEF end, colon, n
<1>7. at = CASE Bracketed(a) /\ end > n -> Unauthorised
             [] Bracketed(a) /\ end = n -> WithPort(a, <<>>)
             [] Bracketed(a) /\ end < n ->
                    IF a[end + 1] = Colon THEN WithPort(Before(a, end + 1), From(a, end + 2))
                    ELSE Unauthorised
             [] ~Bracketed(a) /\ colon > 0 -> WithPort(Before(a, colon), From(a, colon + 1))
             [] OTHER -> WithPort(a, <<>>)
  BY Zenon DEF SplitAuthority, end, colon, n
<1> DEFINE bracketed == Bracketed(a) /\ end <= n
           place == IF bracketed THEN end + 1 ELSE colon
           port == From(a, place + 1)
           ported == place \in DOMAIN a /\ a[place] = Colon /\ AllDigits(port)
           bare == IF bracketed THEN Before(a, place) ELSE a
<1>8. h = IF ported THEN [host |-> Before(a, place), port |-> Decimal(port)]
          ELSE [host |-> bare, port |-> 80]
  BY Zenon DEF ParseHostHeader, end, colon, n
<1>9. DOMAIN a = 1..n
  BY DEF n
<1> HIDE DEF at, h
<1>10. at.ok
  BY DEF at
<1>11. CASE Bracketed(a)
  <2>1. end <= n
    BY <1>1, <1>7, <1>10, <1>11
  <2>2. bracketed /\ place = end + 1
    BY <1>11, <2>1
  <2>3. CASE end = n
    <3>1. at = WithPort(a, <<>>)
      BY <1>7, <1>11, <2>3, <1>1
    <3>2. at.host = a /\ at.port = 0
      BY <1>4, <1>5, <1>10, <3>1
    <3>3. place \notin DOMAIN a /\ Before(a, place) = a
      BY <1>1, <1>9, <2>2, <2>3, WholeText DEF n
    <3>4. h = [host |-> a, port |-> 80]
      BY <1>8, <2>2, <3>3
    <3> QED
      BY <1>6, <1>11, <3>2, <3>4 DEF at, h
  <2>4. CASE end < n
    <3> DEFINE p == From(a, end + 2)
               b == Before(a, end + 1)
    <3>1. a[end + 1] = Colon /\ at = WithPort(b, p)
      <4>1. at = IF a[end + 1] = Colon THEN WithPort(b, p) ELSE Unauthorised
        BY <1>1, <1>7, <1>11, <2>4
      <4> QED
        BY <1>1, <1>10, <4>1
    <3>2. at.host = b /\ at.port = Decimal(p) /\ (p = <<>> \/ AllDigits(p))
      BY <1>4, <1>10, <3>1
    <3>3. place \in DOMAIN a /\ a[place] = Colon /\ place + 1 = end + 2
      BY <1>1, <1>9, <2>2, <2>4, <3>1
    <3>4. h = IF AllDigits(p) THEN [host |-> b, port |-> Decimal(p)]
              ELSE [host |-> b, port |-> 80]
      <4>1. port = p /\ Before(a, place) = b
        BY <2>2, <3>3
      <4> HIDE DEF p, b
      <4> QED
        BY <1>8, <2>2, <3>3, <4>1
    <3> HIDE DEF p, b
    <3>5. h.host = at.host /\ Ported(<<>>, h.port) = Ported(Http, at.port)
      <4>1. CASE AllDigits(p)
        BY <1>6, <3>2, <3>4, <4>1
      <4>2. CASE p = <<>>
        <5>1. h = [host |-> b, port |-> 80] /\ at.port = 0
          BY <1>5, <3>2, <3>4, <4>2
        <5> QED
          BY <1>6, <3>2, <5>1
      <4> QED
        BY <3>2, <4>1, <4>2
    <3> QED
      BY <1>11, <3>5 DEF at, h
  <2> QED
    BY <1>1, <2>1, <2>3, <2>4
<1>12. CASE ~Bracketed(a)
  <2>1. ~bracketed /\ place = colon /\ bare = a
    BY <1>12
  <2>2. CASE colon = 0
    <3>1. at = WithPort(a, <<>>)
      BY <1>7, <1>12, <2>2
    <3>2. at.host = a /\ at.port = 0
      BY <1>4, <1>5, <1>10, <3>1
    <3>3. h = [host |-> a, port |-> 80]
      BY <1>8, <1>9, <2>1, <2>2
    <3> QED
      BY <1>6, <3>2, <3>3 DEF at, h
  <2>3. CASE colon > 0
    <3> DEFINE p == From(a, colon + 1)
               b == Before(a, colon)
    <3>1. at = WithPort(b, p)
      BY <1>7, <1>12, <2>3
    <3>2. at.host = b /\ at.port = Decimal(p) /\ (p = <<>> \/ AllDigits(p))
      BY <1>4, <1>10, <3>1
    <3>3. colon \in DOMAIN a /\ a[colon] = Colon /\ colon + 1 \in 1..(n + 1)
      BY <1>1, <1>2, <1>9, <2>3
    <3>4. p = <<>> <=> Open(a)
      <4>1. p = <<>> <=> colon = n
        <5>1. p = <<>> <=> colon + 1 = n + 1
          BY <3>3, FromIs DEF n
        <5> QED
          BY <1>1, <1>2, <5>1
      <4>2. a # <<>> /\ Last(a) = a[n]
        BY <3>3 DEF Last, n
      <4>3. Open(a) <=> a[n] = Colon
        BY <4>2, Zenon DEF Open
      <4>4. a[n] = Colon <=> colon = n
        BY <1>1, <1>2, <2>3, <3>3
      <4> QED
        BY <4>1, <4>3, <4>4
    <3>5. h = IF AllDigits(p) THEN [host |-> b, port |-> Decimal(p)]
              ELSE [host |-> a, port |-> 80]
      BY <1>8, <2>1, <3>3
    <3> HIDE DEF p, b
    <3>6. CASE p = <<>>
      <4>1. h = [host |-> a, port |-> 80] /\ at.port = 0 /\ Open(a)
        BY <1>5, <3>2, <3>4, <3>5, <3>6
      <4> QED
        BY <1>6, <1>12, <4>1 DEF at, h
    <3>7. CASE p # <<>>
      <4>1. h = [host |-> b, port |-> Decimal(p)] /\ ~Open(a)
        BY <3>2, <3>4, <3>5, <3>7
      <4> QED
        BY <1>6, <3>2, <4>1 DEF at, h
    <3> QED
      BY <3>6, <3>7
  <2> QED
    BY <1>1, <1>2, <2>2, <2>3
<1> QED
  BY <1>11, <1>12

\* What parseURI makes of a target that it accepts.
Requested(place, query, host, port) ==
    [ok |-> TRUE, path |-> place, path_info |-> place, script_name |-> <<>>,
     query |-> query, host |-> host, port |-> port]

\* A target as parseURI reads it: the bytes beyond ASCII escaped, if it is to.
AsRead(t) == IF Escape8bitURI THEN Escape8bit(t) ELSE t

LEMMA AsReadIs ==
    ASSUME NEW t \in Seq(Octets), Absolute(t)
    PROVE  AsRead(t) \in Seq(Octets) /\ Absolute(AsRead(t)) /\ PathOf(AsRead(t)) # <<>>
<1>1. AsRead(t) \in Seq(Octets) /\ Absolute(AsRead(t))
  BY PartsEscaped DEF AsRead
<1> QED
  BY <1>1, OneSlash

\* The form that begins with a slash: the authority is the one in the Host field.
LEMMA OriginFormIs ==
    ASSUME NEW t \in Seq(Octets), Absolute(t), NEW a
    PROVE  LET place == Decoded(PathOf(AsRead(t)))
               h == ParseHostHeader(a)
           IN ParseURI(t, <<a>>) =
                 IF place = Abnormal THEN BadRequest
                 ELSE Requested(place, QueryOf(AsRead(t)), h.host, Ported(<<>>, h.port))
<1> DEFINE e == AsRead(t)
           c == CollapseLeadingSlashes(e)
           uri == SplitURI(c)
           h == ParseHostHeader(a)
           at == IF uri.scheme # <<>> THEN uri
                 ELSE IF <<a>> # <<>> THEN ParseHostHeader(<<a>>[1])
                 ELSE [host |-> ServerName, port |-> ConfigPort]
           place == Decoded(PathOf(e))
<1>1. e \in Seq(Octets) /\ Absolute(e)
  BY AsReadIs
<1> HIDE DEF e
<1>2. /\ Absolute(c) /\ Decoded(PathOf(c)) = place /\ QueryOf(c) = QueryOf(e)
  BY <1>1, LeadingSlashesIs, Zenon
<1> HIDE DEF c
<1>3. ~HasScheme(c)
  <2>1. c[1] = Slash /\ Slash \notin Letters
    BY <1>2 DEF Absolute, Slash, Letters
  <2>2. SchemeEnd(c) = 0
    BY <2>1 DEF SchemeEnd
  <2> QED
    BY <2>2 DEF HasScheme
<1>4. uri.scheme = <<>> /\ uri.ok /\ uri.path = PathOf(c) /\ uri.query = QueryOf(e)
  BY <1>2, <1>3 DEF SplitURI
<1>5. ParseURI(t, <<a>>) =
         IF ~uri.ok \/ Decoded(uri.path) = Abnormal THEN BadRequest
         ELSE Requested(Decoded(uri.path), uri.query, at.host, Ported(uri.scheme, at.port))
  BY Zenon DEF ParseURI, Requested, AsRead, c, e
<1> HIDE DEF uri, h, place
<1>6. at = h
  BY <1>4 DEF h
<1> HIDE DEF at
<1> QED
  BY <1>2, <1>4, <1>5, <1>6, Zenon DEF h, place, e

\* What an authority in either form is put together from: it is cut off at a
\* slash or a question sign, a Host field is trimmed, and bytes beyond ASCII are
\* escaped in a target only.
Plain == 33..126 \ {Slash, Question}

LEMMA PlainIs ==
    /\ Plain \subseteq Nat /\ Plain \subseteq Octets
    /\ \A c \in Plain : c \notin NonAsc /\ c \notin {Slash, Question}
BY DEF Plain, Octets, NonAsc

\* A text all of whose characters are in a set.
LEMMA AllWithin ==
    ASSUME NEW S, NEW s \in Seq(Nat), \A i \in 1..Len(s) : s[i] \in S
    PROVE  s \in Seq(S)
OBVIOUS

LEMMA SchemeTexts ==
    /\ Http \in Seq(Nat) /\ Len(Http) = 4
    /\ \A i \in 1..4 : Http[i] \in Letters /\ Http[i] \in Octets /\ Http[i] \notin NonAsc
    /\ Separator \in Seq(Nat) /\ Len(Separator) = 3 /\ Separator[1] = Colon
    /\ \A i \in 1..3 : Separator[i] \in Octets /\ Separator[i] \notin NonAsc
    /\ Http \in Seq(Octets) /\ Separator \in Seq(Octets)
    /\ Lower(Http) = Http
<1>1. /\ Http \in Seq(Nat) /\ Len(Http) = 4 /\ Http[1] = 104 /\ Http[2] = 116
      /\ Http[3] = 116 /\ Http[4] = 112 /\ DOMAIN Http = 1..4
  BY DEF Http
<1>2. /\ Separator \in Seq(Nat) /\ Len(Separator) = 3 /\ Separator[1] = Colon
      /\ Separator[2] = Slash /\ Separator[3] = Slash
  BY DEF Separator, Colon, Slash
<1>3. /\ \A i \in 1..4 : i = 1 \/ i = 2 \/ i = 3 \/ i = 4
      /\ \A i \in 1..3 : i = 1 \/ i = 2 \/ i = 3
  OBVIOUS
<1> DEFINE L == {104, 116, 112}
           P == {Colon, Slash}
<1>4. /\ \A c \in L : c \in Letters /\ c \in Octets /\ c \notin NonAsc /\ c \notin 65..90
      /\ \A c \in P : c \in Octets /\ c \notin NonAsc
  BY DEF Letters, Octets, NonAsc, Colon, Slash
<1>5. \A i \in 1..4 : Http[i] \in L
  BY <1>1, <1>3
<1>6. \A i \in 1..3 : Separator[i] \in P
  BY <1>2, <1>3
<1> HIDE DEF L, P
<1>7. \A i \in 1..4 : Http[i] \in Letters /\ Http[i] \in Octets /\ Http[i] \notin NonAsc
                       /\ Http[i] \notin 65..90
  BY <1>4, <1>5
<1>8. \A i \in 1..3 : Separator[i] \in Octets /\ Separator[i] \notin NonAsc
  BY <1>4, <1>6
<1>9. Http \in Seq(Octets)
  BY <1>1, <1>7, AllWithin
<1>10. Separator \in Seq(Octets)
  BY <1>2, <1>8, AllWithin
<1>11. Lower(Http) = Http
  <2>1. Lower(Http) = [i \in 1..4 |-> Http[i]]
    BY <1>1, <1>7 DEF Lower
  <2>2. Http = [i \in 1..4 |-> Http[i]]
    BY <1>1
  <2> QED
    BY <2>1, <2>2
<1> QED
  BY <1>1, <1>2, <1>7, <1>8, <1>9, <1>10, <1>11

\* Two texts put together, place by place.
LEMMA TwoTexts ==
    ASSUME NEW p \in Seq(Nat), NEW v \in Seq(Nat)
    PROVE  /\ p \o v \in Seq(Nat) /\ Len(p \o v) = Len(p) + Len(v)
           /\ \A i \in 1..Len(p) : (p \o v)[i] = p[i]
           /\ \A i \in 1..Len(v) : (p \o v)[Len(p) + i] = v[i]
OBVIOUS

\* A target with a scheme, part by part.
LEMMA SchemeIs ==
    ASSUME NEW a \in Seq(Plain), NEW e \in Seq(Octets), Absolute(e)
    PROVE  LET s == ((Http \o Separator) \o a) \o e
               rest == a \o e
               cut == Next(rest, 1, {Slash, Question})
           IN /\ SchemeEnd(s) = 4 /\ HasScheme(s) /\ From(s, 8) = rest /\ Before(s, 5) = Http
              /\ CollapseLeadingSlashes(s) = s
              /\ Before(rest, cut) = a /\ From(rest, cut) = e
<1> DEFINE rest == a \o e
           p == Http
           q == Separator
           s == ((p \o q) \o a) \o e
<1>1. /\ p \in Seq(Nat) /\ Len(p) = 4 /\ \A i \in 1..4 : p[i] \in Letters
      /\ q \in Seq(Nat) /\ Len(q) = 3 /\ q[1] = Colon
  BY SchemeTexts
<1>2. a \in Seq(Nat) /\ e \in Seq(Nat) /\ e # <<>> /\ e[1] = Slash /\ Plain \subseteq Nat
  <2>1. Plain \subseteq Nat
    BY PlainIs
  <2>2. a \in Seq(Nat)
    BY <2>1, SeqWidens
  <2> QED
    BY <2>1, <2>2, OctetsAre DEF Absolute
<1>3. rest \in Seq(Nat)
  BY <1>2
<1>4. s = (p \o q) \o rest /\ s = p \o (q \o rest) /\ p \o q \in Seq(Nat) /\ q \o rest \in Seq(Nat)
  <2> DEFINE u == p \o q
  <2>1. u \in Seq(Nat) /\ q \o rest \in Seq(Nat)
    <3> HIDE DEF p, q, rest
    <3> QED
      BY <1>1, <1>3
  <2>2. (u \o a) \o e = u \o (a \o e)
    <3> HIDE DEF u
    <3> QED
      BY <1>2, <2>1, TextsRegroup
  <2>3. (p \o q) \o rest = p \o (q \o rest)
    <3> HIDE DEF p, q, rest
    <3> QED
      BY <1>1, <1>3, TextsRegroup
  <2> QED
    BY <2>1, <2>2, <2>3, Zenon
<1> HIDE DEF rest, p, q, s
<1>5. /\ From(s, 5) = q \o rest /\ IsPrefix(p, s)
  <2>1. IsPrefix(p, p \o (q \o rest)) /\ From(p \o (q \o rest), Len(p) + 1) = q \o rest
    BY <1>1, <1>4, Behind
  <2>2. Len(p) + 1 = 5
    BY <1>1
  <2> QED
    BY <1>4, <2>1, <2>2, Zenon
<1>6. IsPrefix(q, q \o rest)
  BY <1>1, <1>3, Behind
<1>7. From(s, 8) = rest
  <2>1. From((p \o q) \o rest, Len(p \o q) + 1) = rest
    BY <1>3, <1>4, Behind
  <2>2. Len(p \o q) + 1 = 8
    <3>1. Len(p \o q) = Len(p) + Len(q)
      BY <1>1, TwoTexts
    <3> QED
      BY <1>1, <3>1
  <2> QED
    BY <1>4, <2>1, <2>2, Zenon
<1>8. Before(s, 5) = p
  <2>1. SubSeq(p, 1, Len(p)) = SubSeq(s, 1, Len(p))
    BY <1>5 DEF IsPrefix
  <2>2. Before(p, Len(p) + 1) = p
    BY <1>1, WholeText
  <2>3. (Len(p) + 1) - 1 = Len(p) /\ 5 - 1 = Len(p)
    BY <1>1
  <2> QED
    BY <2>1, <2>2, <2>3 DEF Before
<1>9. /\ s \in Seq(Nat) /\ Len(s) >= 8 /\ s[5] = Colon /\ \A i \in 1..4 : s[i] \in Letters
  <2> DEFINE v == q \o rest
  <2>1. v \in Seq(Nat) /\ Len(v) >= 4 /\ v[1] = Colon
    <3>1. Len(rest) >= 1
      <4>1. Len(a \o e) = Len(a) + Len(e) /\ Len(e) >= 1 /\ Len(a) \in Nat
        BY <1>2
      <4> QED
        BY <4>1 DEF rest
    <3>2. Len(v) = 3 + Len(rest) /\ v[1] = q[1]
      <4>1. Len(v) = Len(q) + Len(rest) /\ \A i \in 1..Len(q) : v[i] = q[i]
        BY <1>1, <1>3, TwoTexts
      <4>2. 1 \in 1..Len(q)
        BY <1>1
      <4> QED
        BY <1>1, <4>1, <4>2, Zenon
    <3> QED
      BY <1>1, <1>3, <1>4, <3>1, <3>2
  <2> HIDE DEF v
  <2>2. s = p \o v
    BY <1>4 DEF v
  <2>3. /\ s \in Seq(Nat) /\ Len(s) = Len(p) + Len(v) /\ \A i \in 1..Len(p) : s[i] = p[i]
        /\ \A i \in 1..Len(v) : s[Len(p) + i] = v[i]
    BY <1>1, <2>1, <2>2, TwoTexts
  <2>4. s[4 + 1] = v[1]
    <3>1. 1 \in 1..Len(v)
      BY <2>1
    <3> QED
      BY <1>1, <2>3, <3>1, Zenon
  <2>5. Len(s) = 4 + Len(v) /\ \A i \in 1..4 : s[i] = p[i]
    BY <1>1, <2>3, Zenon
  <2>6. Len(v) \in Nat /\ 4 + 1 = 5
    BY <2>1
  <2>7. Len(s) >= 8
    BY <2>1, <2>5, <2>6
  <2> QED
    BY <1>1, <2>1, <2>3, <2>4, <2>5, <2>6, <2>7, Zenon
<1>10. SchemeEnd(s) = 4
  <2> DEFINE ends == 0..255 \ (Letters \cup Digits \cup {Plus, Dash, Dot})
  <2>1. Colon \in ends /\ \A c \in Letters : c \notin ends
    BY DEF Colon, Letters, Digits, Plus, Dash, Dot
  <2> HIDE DEF ends
  <2>2. Next(s, 1, ends) = 5
    <3>1. 1 \in Nat \ {0} /\ 5 \in 1..(Len(s) + 1) /\ s[5] \in ends
      BY <1>9, <2>1
    <3>2. \A j \in 1..(5 - 1) : s[j] \notin ends
      BY <1>9, <2>1
    <3> QED
      BY <1>9, <3>1, <3>2, NextIs
  <2>3. s # <<>> /\ s[1] \in Letters /\ 5 <= Len(s)
    BY <1>9
  <2> QED
    BY <1>9, <2>2, <2>3 DEF SchemeEnd, ends
<1>11. HasScheme(s)
  <2>1. SchemeEnd(s) > 0 /\ SchemeEnd(s) + 1 = 5
    BY <1>10
  <2> QED
    BY <1>5, <1>6, <2>1, Zenon DEF HasScheme, q
<1>12. CollapseLeadingSlashes(s) = s
  <2>1. s[1] # Slash
    <3>1. s[1] \in Letters
      BY <1>9
    <3>2. \A c \in Letters : c # Slash
      BY DEF Letters, Slash
    <3> QED
      BY <3>1, <3>2
  <2> QED
    BY <2>1 DEF CollapseLeadingSlashes, Absolute
<1> DEFINE cut == Next(rest, 1, {Slash, Question})
<1>13. cut = Len(a) + 1
  <2> DEFINE k == Len(a) + 1
  <2>1. /\ Len(rest) = Len(a) + Len(e) /\ rest[k] = e[1] /\ Len(a) \in Nat /\ Len(e) >= 1
        /\ \A i \in 1..Len(a) : rest[i] = a[i] /\ a[i] \in Plain
    BY <1>2 DEF rest
  <2>2. 1 \in Nat \ {0} /\ k \in 1..(Len(rest) + 1) /\ rest[k] \in {Slash, Question}
    BY <1>2, <2>1
  <2>3. \A j \in 1..(k - 1) : rest[j] \notin {Slash, Question}
    <3>1. \A j \in 1..(k - 1) : j \in 1..Len(a)
      BY <2>1
    <3> QED
      BY <2>1, <3>1, PlainIs, Zenon
  <2> HIDE DEF k
  <2>4. Next(rest, 1, {Slash, Question}) = k
    BY <1>3, <2>2, <2>3, NextIs
  <2> QED
    BY <2>4 DEF k
<1>14. From(rest, cut) = e
  <2>1. From(a \o e, Len(a) + 1) = e
    BY <1>2, Behind
  <2> QED
    BY <1>13, <2>1 DEF rest
<1>15. Before(rest, cut) = a
  <2>1. SubSeq(a, 1, Len(a)) = SubSeq(a \o e, 1, Len(a))
    BY <1>2, Behind DEF IsPrefix
  <2>2. Before(a, Len(a) + 1) = a /\ (Len(a) + 1) - 1 = Len(a)
    BY <1>2, WholeText
  <2> QED
    BY <1>13, <2>1, <2>2 DEF Before, rest
<1> QED
  BY <1>7, <1>8, <1>10, <1>11, <1>12, <1>14, <1>15 DEF rest, s, p, q

\* The absolute form: the authority is in the target.
LEMMA AbsoluteFormIs ==
    ASSUME NEW t \in Seq(Octets), Absolute(t), NEW a \in Seq(Plain)
    PROVE  LET place == Decoded(PathOf(AsRead(t)))
               at == SplitAuthority(a)
           IN ParseURI(((Http \o Separator) \o a) \o t, <<>>) =
                 IF ~at.ok \/ place = Abnormal THEN BadRequest
                 ELSE Requested(place, QueryOf(AsRead(t)), at.host, Ported(Http, at.port))
<1> DEFINE e == AsRead(t)
           x == ((Http \o Separator) \o a) \o t
           s == ((Http \o Separator) \o a) \o e
           at == SplitAuthority(a)
           place == Decoded(PathOf(e))
<1>1. e \in Seq(Octets) /\ Absolute(e) /\ PathOf(e) # <<>>
  BY AsReadIs
<1>2. AsRead(x) = s
  <2> DEFINE h == Http \o Separator
             u == h \o a
  <2>1. u \in Seq(Octets) /\ \A i \in 1..Len(u) : u[i] \notin NonAsc
    <3>1. /\ Http \in Seq(Octets) /\ \A i \in 1..Len(Http) : Http[i] \notin NonAsc
      BY SchemeTexts, Zenon
    <3>2. /\ Separator \in Seq(Octets) /\ \A i \in 1..Len(Separator) : Separator[i] \notin NonAsc
      BY SchemeTexts, Zenon
    <3>3. /\ a \in Seq(Octets) /\ \A i \in 1..Len(a) : a[i] \notin NonAsc
      <4>1. Plain \subseteq Octets /\ \A c \in Plain : c \notin NonAsc
        BY PlainIs
      <4>2. a \in Seq(Octets)
        BY <4>1, SeqWidens
      <4>3. \A i \in 1..Len(a) : a[i] \in Plain
        OBVIOUS
      <4> QED
        BY <4>1, <4>2, <4>3
    <3>4. ASSUME NEW v \in Seq(Octets), \A i \in 1..Len(v) : v[i] \notin NonAsc,
                 NEW w \in Seq(Octets), \A i \in 1..Len(w) : w[i] \notin NonAsc
          PROVE  v \o w \in Seq(Octets) /\ \A i \in 1..Len(v \o w) : (v \o w)[i] \notin NonAsc
      <4>1. /\ v \o w \in Seq(Octets) /\ Len(v \o w) = Len(v) + Len(w)
            /\ Len(v) \in Nat /\ Len(w) \in Nat
            /\ \A i \in 1..(Len(v) + Len(w)) :
                  (v \o w)[i] = IF i <= Len(v) THEN v[i] ELSE w[i - Len(v)]
        BY ConcatProperties
      <4>2. \A i \in 1..(Len(v) + Len(w)) : i <= Len(v) \/ i - Len(v) \in 1..Len(w)
        BY <4>1
      <4>3. \A i \in 1..(Len(v) + Len(w)) : i <= Len(v) => i \in 1..Len(v)
        BY <4>1
      <4> HIDE DEF NonAsc
      <4> QED
        BY <3>4, <4>1, <4>2, <4>3, Zenon
    <3>5. h \in Seq(Octets) /\ \A i \in 1..Len(h) : h[i] \notin NonAsc
      BY <3>1, <3>2, <3>4, Zenon
    <3> HIDE DEF h
    <3> QED
      BY <3>3, <3>4, <3>5, Zenon
  <2> HIDE DEF u
  <2>2. EscapeBy(u, NonAsc) = u
    BY <2>1, EscapeNone
  <2>3. Escape8bit(u \o t) = u \o Escape8bit(t)
    BY <2>1, <2>2, EscapeByConcat, Zenon DEF Escape8bit
  <2>4. AsRead(u \o t) = u \o AsRead(t)
    BY <2>3, Zenon DEF AsRead
  <2> QED
    BY <2>4 DEF u
<1> DEFINE rest == a \o e
           cut == Next(rest, 1, {Slash, Question})
<1>3. /\ SchemeEnd(s) = 4 /\ HasScheme(s) /\ From(s, 8) = rest /\ Before(s, 5) = Http
      /\ CollapseLeadingSlashes(s) = s
      /\ Before(rest, cut) = a /\ From(rest, cut) = e
  BY <1>1, SchemeIs, Zenon
<1>4. Lower(Http) = Http
  BY SchemeTexts
<1> HIDE DEF e, s, rest, x
<1> DEFINE uri == SplitURI(s)
<1>5. uri = [scheme |-> Http, host |-> at.host, port |-> at.port, ok |-> at.ok,
             path |-> PathOf(e), query |-> QueryOf(e)]
  <2>1. SchemeEnd(s) + 4 = 8 /\ SchemeEnd(s) + 1 = 5
    BY <1>3
  <2>2. uri = [scheme |-> Lower(Before(s, 5)), host |-> at.host, port |-> at.port, ok |-> at.ok,
               path |-> IF PathOf(e) = <<>> THEN <<Slash>> ELSE PathOf(e),
               query |-> QueryOf(e)]
    BY <1>3, <2>1, Zenon DEF SplitURI
  <2> QED
    BY <1>1, <1>3, <1>4, <2>2, Zenon
<1>6. ParseURI(x, <<>>) =
         IF ~uri.ok \/ Decoded(uri.path) = Abnormal THEN BadRequest
         ELSE Requested(Decoded(uri.path), uri.query,
                      (IF uri.scheme # <<>> THEN uri
                       ELSE IF <<>> # <<>> THEN ParseHostHeader(<<>>[1])
                       ELSE [host |-> ServerName, port |-> ConfigPort]).host,
                      Ported(uri.scheme,
                             (IF uri.scheme # <<>> THEN uri
                              ELSE IF <<>> # <<>> THEN ParseHostHeader(<<>>[1])
                              ELSE [host |-> ServerName, port |-> ConfigPort]).port))
  BY <1>2, <1>3, Zenon DEF ParseURI, Requested, AsRead
<1>7. /\ uri.scheme = Http /\ uri.host = at.host /\ uri.port = at.port /\ uri.ok = at.ok
      /\ uri.path = PathOf(e) /\ uri.query = QueryOf(e)
  <2> HIDE DEF uri, at
  <2> QED
    BY <1>5
<1>8. Http # <<>>
  BY SchemesAre
<1> HIDE DEF uri, at
<1> QED
  BY <1>6, <1>7, <1>8, Zenon DEF at, e, x

\* The authority a client has chosen, and what it has written of the rest.
AuthorityIsText == kind = "authority" => meant \in Seq(Plain) /\ text \in Seq(Octets)

LEMMA AuthorityIsTextHolds == VSpec => []AuthorityIsText
<1>1. VInit => AuthorityIsText
  <2> SUFFICES ASSUME VInit, kind = "authority" PROVE meant \in Seq(Plain) /\ text \in Seq(Octets)
    BY DEF AuthorityIsText
  <2>1. kind \notin DOMAIN Begun0
    BY DEF Begun0
  <2>2. meant \in Authorities /\ text = <<>>
    BY <2>1 DEF VInit
  <2>3. <<>> \in Seq(Octets)
    OBVIOUS
  <2> QED
    BY <2>2, <2>3, AuthoritiesAssumption DEF Plain
<1>2. AuthorityIsText /\ [VNext]_all => AuthorityIsText'
  <2> SUFFICES ASSUME AuthorityIsText, [VNext]_all, kind' = "authority"
               PROVE  meant' \in Seq(Plain) /\ text' \in Seq(Octets)
    BY DEF AuthorityIsText
  <2>1. CASE UNCHANGED client
    BY <2>1 DEF AuthorityIsText, client
  <2>2. CASE ClientNext
    <3>1. CASE GrowTarget
      <4>1. /\ kind = "authority" /\ meant' = meant
            /\ \E piece \in PathPieces["authority"] : text' = text \o piece
        BY <3>1 DEF GrowTarget
      <4>2. PICK piece \in PathPieces["authority"] : text' = text \o piece
        BY <4>1
      <4>3. text \in Seq(Octets) /\ meant \in Seq(Plain) /\ piece \in Seq(Octets)
        BY <4>1, PathPiecesAssumption DEF AuthorityIsText, Octets
      <4>4. text \o piece \in Seq(Octets)
        BY <4>3
      <4> QED
        BY <4>1, <4>2, <4>3, <4>4
    <3>2. CASE SendElement \/ SendEntry \/ SendRange
      BY <3>2 DEF SendElement, SendEntry, SendRange, Send
    <3>3. CASE NewField \/ AddItem \/ GrowName
      BY <3>3 DEF NewField, AddItem, GrowName
    <3> QED
      BY <2>2, <3>1, <3>2, <3>3 DEF ClientNext
  <2> QED
    BY <2>1, <2>2 DEF VNext, all
<1> QED
  BY <1>1, <1>2, PTL DEF VSpec

\* A request with another host.
WithHost(r, h) == [r EXCEPT !.host = h]

\* Two requests that differ in their hosts only.
LEMMA AnotherHost ==
    ASSUME NEW p, NEW q, NEW i, NEW j, NEW n
    PROVE  Requested(p, q, j, n) = WithHost(Requested(p, q, i, n), j)
<1> DEFINE F == {"ok", "path", "path_info", "script_name", "query", "host", "port"}
           r == Requested(p, q, i, n)
           s == Requested(p, q, j, n)
           u == [r EXCEPT !.host = j]
<1>1. DOMAIN r = F /\ DOMAIN s = F
  BY DEF Requested
<1>2. s = [f \in DOMAIN s |-> s[f]]
  BY DEF Requested
<1>3. s.host = j
  BY DEF Requested
<1>4. /\ r.ok = s.ok /\ r.path = s.path /\ r.path_info = s.path_info
      /\ r.script_name = s.script_name /\ r.query = s.query /\ r.port = s.port
  BY DEF Requested
<1> HIDE DEF r, s
<1>5. \A f \in F \ {"host"} : r[f] = s[f]
  BY <1>4
<1>6. u = [f \in F |-> IF f = "host" THEN j ELSE r[f]]
  BY <1>1
<1> HIDE DEF u, F
<1>7. u = [f \in F |-> s[f]]
  BY <1>3, <1>5, <1>6
<1> QED
  BY <1>1, <1>2, <1>7 DEF r, s, u, WithHost

(***************************************************************************)
(* Whatever authority a client names and whatever path and query it asks   *)
(* for, parseURI makes the same of both forms of the target, but for the   *)
(* three kinds of authority that FormsAgree lists.                         *)
(***************************************************************************)
THEOREM FormsAlwaysAgree == VSpec => []FormsAgree
<1>1. AuthorityIsText => FormsAgree
  <2> SUFFICES ASSUME meant \in Seq(Plain), text \in Seq(Octets), Absolute(text)
               PROVE  /\ Malformed => ~AbsoluteForm(text).ok
                      /\ ~Malformed /\ (EmptyPort => Bracketed(meant)) =>
                            AbsoluteForm(text) = OriginForm(text)
                      /\ ~Malformed /\ EmptyPort /\ ~Bracketed(meant) /\ OriginForm(text).ok =>
                            OriginForm(text) = [AbsoluteForm(text) EXCEPT !.host = meant]
    BY Zenon DEF AuthorityIsText, FormsAgree
  <2> DEFINE place == Decoded(PathOf(AsRead(text)))
             query == QueryOf(AsRead(text))
             at == SplitAuthority(meant)
             h == ParseHostHeader(meant)
  <2>1. AbsoluteForm(text) = IF ~at.ok \/ place = Abnormal THEN BadRequest
                             ELSE Requested(place, query, at.host, Ported(Http, at.port))
    BY AbsoluteFormIs, Zenon DEF AbsoluteForm
  <2>2. OriginForm(text) = IF place = Abnormal THEN BadRequest
                           ELSE Requested(place, query, h.host, Ported(<<>>, h.port))
    BY OriginFormIs, Zenon DEF OriginForm
  <2>3. Malformed <=> ~at.ok
    BY DEF Malformed
  <2>4. EmptyPort <=> Open(meant)
    BY DEF EmptyPort, Open
  <2>5. at.ok => /\ h.host = IF EmptyPort /\ ~Bracketed(meant) THEN meant ELSE at.host
                 /\ Ported(<<>>, h.port) = Ported(Http, at.port)
    <3>1. meant \in Seq(Nat)
      <4>1. Plain \subseteq Nat
        BY PlainIs
      <4> QED
        BY <4>1, SeqWidens
    <3> QED
      BY <2>4, <3>1, AuthoritiesAgree, Zenon
  <2>6. BadRequest.ok = FALSE
    BY DEF BadRequest
  <2> HIDE DEF place, query, at, h
  <2>7. CASE ~at.ok
    BY <2>1, <2>3, <2>6, <2>7
  <2>8. CASE at.ok /\ place = Abnormal
    BY <2>1, <2>2, <2>3, <2>6, <2>8
  <2>9. CASE at.ok /\ place # Abnormal
    <3> DEFINE n == Ported(Http, at.port)
    <3>1. /\ AbsoluteForm(text) = Requested(place, query, at.host, n)
          /\ OriginForm(text) = Requested(place, query, h.host, n)
      BY <2>1, <2>2, <2>5, <2>9, Zenon
    <3>2. CASE EmptyPort /\ ~Bracketed(meant)
      <4>1. OriginForm(text) = Requested(place, query, meant, n)
        BY <2>5, <2>9, <3>1, <3>2, Zenon
      <4>2. OriginForm(text) = [AbsoluteForm(text) EXCEPT !.host = meant]
        <5>1. Requested(place, query, meant, n)
                = WithHost(Requested(place, query, at.host, n), meant)
          BY AnotherHost, SMT
        <5>2. OriginForm(text) = WithHost(AbsoluteForm(text), meant)
          BY <3>1, <4>1, <5>1, Zenon
        <5> QED
          BY <5>2 DEF WithHost
      <4> QED
        BY <2>3, <2>9, <3>2, <4>2, Zenon
    <3>3. CASE EmptyPort => Bracketed(meant)
      <4>1. OriginForm(text) = AbsoluteForm(text)
        BY <2>5, <2>9, <3>1, <3>3, Zenon
      <4> QED
        BY <2>3, <2>9, <3>3, <4>1, Zenon
    <3> QED
      BY <3>2, <3>3
  <2> QED
    BY <2>7, <2>8, <2>9
<1> QED
  BY <1>1, AuthorityIsTextHolds, PTL

-----------------------------------------------------------------------------
(* Preferences: the entries by weight, equal weights in their order.       *)

\* A number in its order has all the smaller ones before it.
LEMMA OrderedRanks ==
    ASSUME NEW b \in Nat, NEW N \in SUBSET (0..b)
    PROVE  \A k \in 1..Cardinality(N) : Cardinality({j \in N : j < Ordered(N)[k]}) = k - 1
<1> DEFINE Ranks(M) ==
              \A k \in 1..Cardinality(M) : Cardinality({j \in M : j < Ordered(M)[k]}) = k - 1
           P == {c \in Nat : \A M \in SUBSET Nat : (\A i \in M : i < c) => Ranks(M)}
<1>1. 0 \in P
  <2> SUFFICES ASSUME NEW M \in SUBSET Nat, \A i \in M : i < 0 PROVE Ranks(M)
    OBVIOUS
  <2>1. M = {} /\ Cardinality({}) = 0
    BY FS_EmptySet
  <2> QED
    BY <2>1
<1>2. ASSUME NEW c \in Nat, c \in P PROVE c + 1 \in P
  <2> SUFFICES ASSUME NEW M \in SUBSET Nat, \A i \in M : i < c + 1
               PROVE  Ranks(M)
    OBVIOUS
  <2> DEFINE L == M \ {c}
             o == Ordered(L)
             n == Cardinality(L)
  <2>1. L \in SUBSET Nat /\ \A i \in L : i < c
    OBVIOUS
  <2>2. Ranks(L)
    BY <1>2, <2>1
  <2>3. CASE c \notin M
    <3>1. L = M
      BY <2>3
    <3> HIDE DEF Ranks
    <3> QED
      BY <2>2, <3>1
  <2>4. CASE c \in M
    <3>1. L \in SUBSET (0..c)
      BY <2>1
    <3>2. IsFiniteSet(L) /\ o \in Seq(L) /\ Len(o) = n
      BY <3>1, OrderedLists
    <3>3. M = L \cup {c}
      BY <2>4
    <3>4. /\ n \in Nat /\ Cardinality(M) = n + 1
          /\ Ordered(M) = [k \in 1..(n + 1) |-> IF k = n + 1 THEN c ELSE o[k]]
      BY <2>1, <3>2, <3>3, OrderedGrows
    <3>5. \A k \in 1..n : o[k] \in L /\ Cardinality({j \in L : j < o[k]}) = k - 1
      <4>1. \A k \in 1..n : Cardinality({j \in L : j < o[k]}) = k - 1
        BY <2>2
      <4> HIDE DEF L, o
      <4>2. \A k \in 1..n : o[k] \in L
        BY <3>2
      <4> QED
        BY <4>1, <4>2
    <3> HIDE DEF L, o
    <3>6. \A k \in 1..n : {j \in M : j < o[k]} = {j \in L : j < o[k]}
      <4> TAKE k \in 1..n
      <4>1. o[k] \in Nat /\ o[k] < c
        BY <2>1, <3>5
      <4>2. ~(c < o[k])
        BY <4>1
      <4> QED
        BY <3>3, <4>2, Zenon
    <3>7. {j \in M : j < c} = L
      <4>1. ~(c < c)
        OBVIOUS
      <4> QED
        BY <2>1, <3>3, <4>1, Zenon
    <3> SUFFICES ASSUME NEW k \in 1..(n + 1)
                 PROVE  Cardinality({j \in M : j < Ordered(M)[k]}) = k - 1
      BY <3>4
    <3>8. CASE k = n + 1
      <4>1. Ordered(M)[k] = c /\ k - 1 = n
        BY <3>4, <3>8
      <4> QED
        BY <3>7, <4>1 DEF n
    <3>9. CASE k \in 1..n /\ k # n + 1
      <4>1. Ordered(M)[k] = o[k]
        BY <3>4, <3>9
      <4> QED
        BY <3>5, <3>6, <3>9, <4>1
    <3>10. k = n + 1 \/ (k \in 1..n /\ k # n + 1)
      BY <3>4
    <3> QED
      BY <3>8, <3>9, <3>10
  <2> QED
    BY <2>3, <2>4
<1> HIDE DEF P
<1>3. Nat \subseteq P
  BY <1>1, <1>2, Induction
<1>4. N \in SUBSET Nat /\ \A i \in N : i < b + 1
  OBVIOUS
<1>5. b + 1 \in P
  BY <1>3
<1> HIDE DEF Ranks
<1>6. Ranks(N)
  BY <1>4, <1>5, Zenon DEF P
<1> QED
  BY <1>6 DEF Ranks

\* Numbers in their order rise.
LEMMA OrderedRises ==
    ASSUME NEW b \in Nat, NEW N \in SUBSET (0..b),
           NEW k \in 1..Cardinality(N), NEW l \in 1..Cardinality(N)
    PROVE  k < l <=> Ordered(N)[k] < Ordered(N)[l]
<1> DEFINE o == Ordered(N)
           Under(i) == {j \in N : j < i}
<1>1. IsFiniteSet(N) /\ o \in Seq(N) /\ Len(o) = Cardinality(N)
  BY OrderedLists
<1>2. o[k] \in Nat /\ o[l] \in Nat
  <2> HIDE DEF o
  <2>1. o[k] \in N /\ o[l] \in N
    BY <1>1
  <2>2. \A i \in N : i \in Nat
    OBVIOUS
  <2> QED
    BY <2>1, <2>2, Zenon
<1>3. Cardinality(Under(o[k])) = k - 1 /\ Cardinality(Under(o[l])) = l - 1
  BY OrderedRanks
<1>4. ASSUME NEW x \in Nat, NEW y \in Nat, x <= y
      PROVE  Cardinality(Under(x)) <= Cardinality(Under(y))
  <2>1. Under(x) \in SUBSET Under(y) /\ Under(y) \in SUBSET N
    <3>1. \A j \in N : j < x => j < y
      BY <1>4
    <3> QED
      BY <3>1, Zenon
  <2>2. IsFiniteSet(Under(y))
    BY <1>1, <2>1, FS_Subset
  <2> HIDE DEF Under
  <2> QED
    BY <2>1, <2>2, FS_Subset
<1> HIDE DEF o, Under
<1>5. k < l => o[k] < o[l]
  <2>1. o[l] <= o[k] => l - 1 <= k - 1
    BY <1>2, <1>3, <1>4
  <2> QED
    BY <1>2, <2>1
<1>6. o[k] < o[l] => k < l
  <2>1. l <= k => l # k \/ l = k
    OBVIOUS
  <2>2. o[k] <= o[l] => k - 1 <= l - 1
    BY <1>2, <1>3, <1>4
  <2>3. k = l => ~(o[k] < o[l])
    BY <1>2
  <2> QED
    BY <1>2, <2>2, <2>3
<1> QED
  BY <1>5, <1>6 DEF o

\* Places are finitely many.
LEMMA PlacesFinite ==
    ASSUME NEW N \in Nat, NEW K \in SUBSET (1..N)
    PROVE  IsFiniteSet(K)
<1>1. IsFiniteSet(1..N)
  BY FS_Interval
<1> QED
  BY <1>1, FS_Subset

\* The places that come before a place: of more weight, or of the same and earlier.
Foremost(w, i) == {j \in DOMAIN w : w[j] > w[i] \/ (w[j] = w[i] /\ j < i)}
Rank(w, i) == Cardinality(Foremost(w, i))

\* No two places have the same number of places before them.
LEMMA RanksDiffer ==
    ASSUME NEW N \in Nat, NEW K \in SUBSET (1..N), NEW w \in [K -> Nat],
           NEW i \in K, NEW j \in K, Rank(w, i) = Rank(w, j)
    PROVE  i = j
<1>1. IsFiniteSet(K) /\ DOMAIN w = K
  BY PlacesFinite
<1>2. ASSUME NEW x \in K, NEW y \in K, x \in Foremost(w, y)
      PROVE  Rank(w, x) # Rank(w, y)
  <2>1. /\ w[x] \in Nat /\ w[y] \in Nat /\ x \in Nat /\ y \in Nat
        /\ w[x] > w[y] \/ (w[x] = w[y] /\ x < y)
        /\ \A z \in K : w[z] \in Nat /\ z \in Nat
    BY <1>2 DEF Foremost
  <2>2. Foremost(w, x) \in SUBSET Foremost(w, y)
    <3> SUFFICES ASSUME NEW z \in Foremost(w, x) PROVE z \in Foremost(w, y)
      OBVIOUS
    <3>1. z \in K /\ w[z] \in Nat /\ z \in Nat /\ (w[z] > w[x] \/ (w[z] = w[x] /\ z < x))
      BY <1>1, <2>1 DEF Foremost
    <3>2. w[z] > w[y] \/ (w[z] = w[y] /\ z < y)
      BY <2>1, <3>1
    <3> QED
      BY <1>1, <3>1, <3>2 DEF Foremost
  <2>3. x \notin Foremost(w, x)
    BY <2>1 DEF Foremost
  <2>4. Foremost(w, y) \in SUBSET K
    BY <1>1 DEF Foremost
  <2>5. IsFiniteSet(Foremost(w, y))
    BY <1>1, <2>4, FS_Subset
  <2>6. Cardinality(Foremost(w, y)) = Cardinality(Foremost(w, x))
           => Foremost(w, y) = Foremost(w, x)
    BY <2>2, <2>5, FS_Subset
  <2> QED
    BY <1>2, <2>3, <2>6 DEF Rank
<1>3. i = j \/ i \in Foremost(w, j) \/ j \in Foremost(w, i)
  <2>1. w[i] \in Nat /\ w[j] \in Nat /\ i \in Nat /\ j \in Nat
    OBVIOUS
  <2>2. i = j \/ (w[i] > w[j] \/ (w[i] = w[j] /\ i < j)) \/ (w[j] > w[i] \/ (w[j] = w[i] /\ j < i))
    BY <2>1
  <2> QED
    BY <1>1, <2>2 DEF Foremost
<1> QED
  BY <1>2, <1>3

\* What some places hold, by weight.
At(w, h) == {k \in DOMAIN w : w[k] = h}
Above(w, hs, m) == {k \in DOMAIN w : \E l \in 1..m : w[k] = hs[l]}
Earlier(N, i) == {j \in N : j < i}
Block(w, h) == Ordered(At(w, h))
Blocks(w, v, hs) == [m \in DOMAIN hs |-> [n \in DOMAIN Block(w, hs[m]) |-> v[Block(w, hs[m])[n]]]]

Weights(w) == {w[k] : k \in DOMAIN w}
SortedBy(w, v) ==
    [n \in 1..Cardinality(DOMAIN w) |-> v[CHOOSE i \in DOMAIN w : Rank(w, i) = n - 1]]

\* The weights are bounded.
LEMMA WeightsBounded ==
    ASSUME NEW N \in Nat, NEW K \in SUBSET (1..N), NEW w \in [K -> Nat]
    PROVE  \E b \in Nat : {w[k] : k \in K} \in SUBSET (0..b)
<1> DEFINE P == {n \in Nat : \E b \in Nat : \A k \in K : k <= n => w[k] <= b}
<1>1. 0 \in P
  <2>1. \A k \in K : ~(k <= 0)
    OBVIOUS
  <2> QED
    BY <2>1
<1>2. ASSUME NEW n \in Nat, n \in P PROVE n + 1 \in P
  <2>1. PICK b \in Nat : \A k \in K : k <= n => w[k] <= b
    BY <1>2
  <2>2. PICK c \in Nat : b <= c /\ (n + 1 \in K => w[n + 1] <= c)
    <3>1. CASE n + 1 \in K
      <4>1. w[n + 1] \in Nat
        BY <3>1
      <4>2. w[n + 1] <= b \/ b <= w[n + 1]
        BY <4>1
      <4> QED
        BY <4>1, <4>2
    <3>2. CASE n + 1 \notin K
      BY <3>2
    <3> QED
      BY <3>1, <3>2
  <2>3. \A k \in K : k <= n + 1 => w[k] <= c
    <3> SUFFICES ASSUME NEW k \in K, k <= n + 1 PROVE w[k] <= c
      OBVIOUS
    <3>1. k <= n \/ k = n + 1
      OBVIOUS
    <3>2. k <= n => w[k] <= c
      <4>1. w[k] \in Nat
        OBVIOUS
      <4> QED
        BY <2>1, <2>2, <4>1
    <3> QED
      BY <2>2, <3>1, <3>2
  <2> QED
    BY <2>3
<1>3. Nat \subseteq P
  <2> HIDE DEF P
  <2> QED
    BY <1>1, <1>2, Induction
<1>4. PICK b \in Nat : \A k \in K : k <= N => w[k] <= b
  BY <1>3
<1>5. \A k \in K : w[k] \in 0..b
  BY <1>4
<1> QED
  BY <1>5

\* Numbers from the greatest to the least.
LEMMA FallingIs ==
    ASSUME NEW b \in Nat, NEW W \in SUBSET (0..b)
    PROVE  LET hs == Reverse(Ordered(W))
           IN /\ hs \in Seq(W)
              /\ \A i \in W : \E m \in 1..Len(hs) : hs[m] = i
              /\ \A k \in 1..Len(hs), l \in 1..Len(hs) : k < l <=> hs[l] < hs[k]
<1> DEFINE o == Ordered(W)
           n == Cardinality(W)
           hs == Reverse(Ordered(W))
<1>1. o \in Seq(W) /\ Len(o) = n /\ \A i \in W : \E k \in 1..Len(o) : o[k] = i
  BY OrderedLists
<1>2. \A k \in 1..n, l \in 1..n : k < l <=> o[k] < o[l]
  BY OrderedRises
<1>3. hs = [i \in 1..Len(o) |-> o[(Len(o) - i) + 1]]
  BY DEF Reverse
<1> HIDE DEF o, n, hs
<1>4. n \in Nat /\ \A i \in 1..n : (n - i) + 1 \in 1..n /\ o[i] \in W
  BY <1>1
<1>5. hs = [i \in 1..n |-> o[(n - i) + 1]]
  BY <1>1, <1>3
<1>6. hs \in Seq(W) /\ Len(hs) = n
  BY <1>4, <1>5
<1>7. ASSUME NEW i \in W PROVE \E m \in 1..n : hs[m] = i
  <2>1. PICK k \in 1..n : o[k] = i
    BY <1>1
  <2>2. (n - k) + 1 \in 1..n /\ (n - ((n - k) + 1)) + 1 = k
    BY <1>4
  <2> QED
    BY <1>5, <2>1, <2>2
<1>8. ASSUME NEW k \in 1..n, NEW l \in 1..n PROVE k < l <=> hs[l] < hs[k]
  <2>1. (n - k) + 1 \in 1..n /\ (n - l) + 1 \in 1..n
        /\ (k < l <=> (n - l) + 1 < (n - k) + 1)
    BY <1>4
  <2> QED
    BY <1>2, <1>5, <2>1
<1> QED
  BY <1>6, <1>7, <1>8 DEF hs, o

\* The places of one weight, in their order.
LEMMA BlockIs ==
    ASSUME NEW N \in Nat, NEW K \in SUBSET (1..N), NEW w \in [K -> Nat], NEW h
    PROVE  /\ IsFiniteSet(At(w, h)) /\ Block(w, h) \in Seq(At(w, h))
           /\ Len(Block(w, h)) = Cardinality(At(w, h))
           /\ \A n \in 1..Cardinality(At(w, h)) :
                 Cardinality(Earlier(At(w, h), Block(w, h)[n])) = n - 1
<1> DEFINE B == At(w, h)
<1>1. B \in SUBSET (0..N)
  <2>1. \A k \in B : k \in 1..N
    BY DEF At
  <2>2. \A k \in 1..N : k \in 0..N
    OBVIOUS
  <2> QED
    BY <2>1, <2>2, Zenon
<1>2. Block(w, h) = Ordered(B)
  BY DEF Block
<1> HIDE DEF B
<1>3. /\ IsFiniteSet(B) /\ Ordered(B) \in Seq(B) /\ Len(Ordered(B)) = Cardinality(B)
      /\ \A n \in 1..Cardinality(B) : Cardinality({j \in B : j < Ordered(B)[n]}) = n - 1
  BY <1>1, OrderedLists, OrderedRanks
<1> QED
  BY <1>2, <1>3, Zenon DEF B, Earlier

\* Before a place come those of more weight and the earlier ones of the same.
LEMMA RankInBlock ==
    ASSUME NEW N \in Nat, NEW K \in SUBSET (1..N), NEW w \in [K -> Nat],
           NEW hs \in Seq(Nat), \A k \in K : \E m \in 1..Len(hs) : hs[m] = w[k],
           \A k \in 1..Len(hs), l \in 1..Len(hs) : k < l <=> hs[l] < hs[k],
           NEW m \in 1..Len(hs), NEW i \in At(w, hs[m])
    PROVE  Rank(w, i) = Cardinality(Above(w, hs, m - 1))
                           + Cardinality(Earlier(At(w, hs[m]), i))
<1> DEFINE A == Above(w, hs, m - 1)
           B == At(w, hs[m])
           C == Earlier(B, i)
<1>0. /\ i \in K /\ w[i] = hs[m] /\ B = {k \in K : w[k] = hs[m]} /\ C = {j \in B : j < i}
      /\ A = {k \in K : \E l \in 1..(m - 1) : w[k] = hs[l]}
  <2>1. DOMAIN w = K
    OBVIOUS
  <2> QED
    BY <2>1, Zenon DEF At, Above, Earlier
<1> HIDE DEF A, B, C
<1>1. IsFiniteSet(K) /\ DOMAIN w = K /\ \A k \in K : w[k] \in Nat /\ k \in Nat
  <2>1. \A k \in K : w[k] \in Nat /\ k \in 1..N
    OBVIOUS
  <2>2. \A k \in 1..N : k \in Nat
    OBVIOUS
  <2>3. IsFiniteSet(K)
    BY PlacesFinite
  <2> QED
    BY <2>1, <2>2, <2>3
<1>2. /\ \A l \in 1..(m - 1) : l \in 1..Len(hs) /\ l < m
      /\ \A l \in 1..Len(hs) : l < m => l \in 1..(m - 1)
      /\ \A l \in 1..Len(hs) : hs[l] \in Nat
      /\ m \in 1..Len(hs)
  OBVIOUS
<1>3. \A j \in K : w[j] > w[i] <=> j \in A
  <2> TAKE j \in K
  <2>1. PICK l \in 1..Len(hs) : hs[l] = w[j]
    OBVIOUS
  <2>2. w[j] > w[i] <=> l < m
    BY <1>0, <1>1, <1>2, <2>1
  <2>3. ASSUME w[j] > w[i] PROVE j \in A
    BY <1>0, <1>2, <2>1, <2>2, <2>3
  <2>4. ASSUME j \in A PROVE w[j] > w[i]
    <3>1. PICK p \in 1..(m - 1) : w[j] = hs[p]
      BY <1>0, <2>4
    <3>2. p \in 1..Len(hs) /\ p < m
      BY <1>2, <3>1
    <3>3. hs[m] < hs[p]
      BY <1>2, <3>2
    <3> QED
      BY <1>0, <1>1, <3>1, <3>3
  <2> QED
    BY <2>3, <2>4
<1>4. Foremost(w, i) = A \cup C /\ A \cap C = {}
  <2>1. A \subseteq K /\ C \subseteq K
    BY <1>0, Zenon
  <2>2. \A j \in K : j \in C <=> w[j] = w[i] /\ j < i
    BY <1>0, Zenon
  <2>3. \A j \in K : j \in A => w[j] # w[i]
    BY <1>0, <1>1, <1>3
  <2>4. Foremost(w, i) = A \cup C
    BY <1>1, <1>3, <2>1, <2>2 DEF Foremost
  <2> QED
    BY <2>1, <2>2, <2>3, <2>4
<1>5. IsFiniteSet(A) /\ IsFiniteSet(C)
  <2>1. A \in SUBSET K /\ C \in SUBSET K
    BY <1>0, Zenon
  <2> QED
    BY <1>1, <2>1, FS_Subset
<1>6. /\ Cardinality(A \cup C) = Cardinality(A) + Cardinality(C) - Cardinality(A \cap C)
      /\ Cardinality({}) = 0 /\ Cardinality(A) \in Nat /\ Cardinality(C) \in Nat
  BY <1>5, FS_Union, FS_EmptySet, FS_CardinalityType
<1>7. Rank(w, i) = Cardinality(A \cup C) /\ Cardinality(A \cap C) = 0
  BY <1>4, <1>6, Zenon DEF Rank
<1> QED
  BY <1>6, <1>7 DEF A, B, C

\* The first m blocks, one after the other, are what comes foremost.
Sorted(w, v, hs, m) ==
    LET f == FlattenSeq([n \in 1..m |-> Blocks(w, v, hs)[n]])
    IN /\ Len(f) = Cardinality(Above(w, hs, m))
       /\ \A n \in 1..Len(f) : \E i \in DOMAIN w : Rank(w, i) = n - 1 /\ f[n] = v[i]

\* A block holds its places' values in their order.
Fills(w, v, h, x) ==
    /\ Len(x) = Cardinality(At(w, h)) /\ IsFiniteSet(At(w, h))
    /\ \A n \in 1..Len(x) : \E i \in At(w, h) :
          x[n] = v[i] /\ Cardinality(Earlier(At(w, h), i)) = n - 1

LEMMA BlockValues ==
    ASSUME NEW N \in Nat, NEW K \in SUBSET (1..N), NEW w \in [K -> Nat],
           NEW V, NEW v, \A k \in K : v[k] \in V,
           NEW hs \in Seq(Nat), NEW m \in 1..Len(hs)
    PROVE  Blocks(w, v, hs)[m] \in Seq(V) /\ Fills(w, v, hs[m], Blocks(w, v, hs)[m])
<1> DEFINE B == At(w, hs[m])
           o == Block(w, hs[m])
           x == Blocks(w, v, hs)[m]
<1>1. /\ IsFiniteSet(B) /\ o \in Seq(B) /\ Len(o) = Cardinality(B)
      /\ \A n \in 1..Cardinality(B) : Cardinality(Earlier(B, o[n])) = n - 1
  BY BlockIs
<1>2. x = [n \in DOMAIN o |-> v[o[n]]]
  BY DEF Blocks
<1>3. \A i \in B : v[i] \in V
  BY DEF At
<1> HIDE DEF B, o, x
<1>4. DOMAIN o = 1..Len(o) /\ Len(o) \in Nat /\ \A n \in 1..Len(o) : o[n] \in B
  BY <1>1
<1>5. \A n \in 1..Len(o) : v[o[n]] \in V
  BY <1>3, <1>4
<1>6. x \in Seq(V) /\ Len(x) = Len(o)
  BY <1>2, <1>4, <1>5
<1>7. \A n \in 1..Len(x) : \E i \in B : x[n] = v[i] /\ Cardinality(Earlier(B, i)) = n - 1
  BY <1>1, <1>2, <1>4, <1>6
<1> QED
  BY <1>1, <1>6, <1>7 DEF B, x, Fills

LEMMA BlockFills ==
    ASSUME NEW N \in Nat, NEW K \in SUBSET (1..N), NEW w \in [K -> Nat],
           NEW v, NEW hs \in Seq(Nat), NEW m \in 1..Len(hs)
    PROVE  Fills(w, v, hs[m], Blocks(w, v, hs)[m])
<1> DEFINE V == {v[k] : k \in K}
<1>1. \A k \in K : v[k] \in V
  OBVIOUS
<1> HIDE DEF V
<1> QED
  BY <1>1, BlockValues

\* One sequence more to put together.
LEMMA FlattenMore ==
    ASSUME NEW V, NEW m \in Nat, NEW s, \A n \in 1..(m + 1) : s[n] \in Seq(V)
    PROVE  LET f == FlattenSeq([n \in 1..m |-> s[n]])
           IN /\ f \in Seq(V)
              /\ FlattenSeq([n \in 1..(m + 1) |-> s[n]]) = f \o s[m + 1]
<1> DEFINE U == Seq(V)
           x == s[m + 1]
           p == [n \in 1..m |-> s[n]]
           q == [n \in 1..(m + 1) |-> s[n]]
<1>1. \A n \in 1..(m + 1) : s[n] \in U
  OBVIOUS
<1>2. \A n \in 1..m : n \in 1..(m + 1)
  OBVIOUS
<1> HIDE DEF U
<1>3. p \in Seq(U) /\ q \in Seq(U) /\ Len(p) = m /\ Len(q) = m + 1
      /\ q[m + 1] = x /\ \A n \in 1..m : q[n] = p[n]
  BY <1>1, <1>2
<1> HIDE DEF p, q, x
<1>4. FlattenSeq(q) = FlattenSeq(p) \o x
  BY <1>3, FlattenGrows DEF U
<1>5. FlattenSeq(p) \in Seq(V)
  BY <1>3, FlattenType DEF U
<1> QED
  BY <1>4, <1>5 DEF p, q, x

\* Block after block: one more.
LEMMA SortedStep ==
    ASSUME NEW N \in Nat, NEW K \in SUBSET (1..N), NEW w \in [K -> Nat],
           NEW V, NEW v, \A k \in K : v[k] \in V,
           NEW hs \in Seq(Nat), \A k \in K : \E m \in 1..Len(hs) : hs[m] = w[k],
           \A k \in 1..Len(hs), l \in 1..Len(hs) : k < l <=> hs[l] < hs[k],
           NEW m \in Nat, m + 1 <= Len(hs), Sorted(w, v, hs, m)
    PROVE  Sorted(w, v, hs, m + 1)
<1> DEFINE A == Above(w, hs, m)
           B == At(w, hs[m + 1])
           D == Above(w, hs, m + 1)
           s == Blocks(w, v, hs)
           x == s[m + 1]
           f == FlattenSeq([n \in 1..m |-> s[n]])
           g == FlattenSeq([n \in 1..(m + 1) |-> s[n]])
<1>0. DOMAIN w = K /\ IsFiniteSet(K) /\ m + 1 \in 1..Len(hs) /\ (m + 1) - 1 = m
      /\ \A n \in 1..(m + 1) : n \in 1..Len(hs)
  <2>1. IsFiniteSet(K)
    BY PlacesFinite
  <2>2. Len(hs) \in Nat /\ m + 1 \in 1..Len(hs) /\ (m + 1) - 1 = m
    OBVIOUS
  <2>3. \A n \in 1..(m + 1) : n \in 1..Len(hs)
    BY <2>2
  <2> QED
    BY <2>1, <2>2, <2>3
<1>1. /\ \A n \in 1..(m + 1) : s[n] \in Seq(V)
      /\ Len(x) = Cardinality(B) /\ IsFiniteSet(B)
      /\ \A n \in 1..Len(x) : \E i \in B : x[n] = v[i] /\ Cardinality(Earlier(B, i)) = n - 1
  <2>1. \A n \in 1..(m + 1) : s[n] \in Seq(V)
    BY <1>0, BlockValues
  <2>2. /\ Len(x) = Cardinality(B) /\ IsFiniteSet(B)
        /\ \A n \in 1..Len(x) : \E i \in B : x[n] = v[i] /\ Cardinality(Earlier(B, i)) = n - 1
    <3>1. Fills(w, v, hs[m + 1], x)
      BY <1>0, BlockFills
    <3> QED
      BY <3>1 DEF Fills
  <2> QED
    BY <2>1, <2>2
<1>2. /\ Len(f) = Cardinality(A)
      /\ \A n \in 1..Len(f) : \E i \in K : Rank(w, i) = n - 1 /\ f[n] = v[i]
  BY <1>0, Zenon DEF Sorted
<1>3. \A i \in B : Rank(w, i) = Cardinality(A) + Cardinality(Earlier(B, i))
  <2>1. \A p \in 1..Len(hs) : \A i \in At(w, hs[p]) :
           Rank(w, i) = Cardinality(Above(w, hs, p - 1)) + Cardinality(Earlier(At(w, hs[p]), i))
    BY RankInBlock
  <2> QED
    BY <1>0, <2>1, Zenon
<1>4. f \in Seq(V) /\ x \in Seq(V) /\ g = f \o x
  <2> HIDE DEF s
  <2>1. f \in Seq(V) /\ g = f \o s[m + 1]
    BY <1>1, FlattenMore
  <2>2. x \in Seq(V)
    BY <1>0, <1>1
  <2> QED
    BY <2>1, <2>2
<1>5. A \cup B = D /\ A \cap B = {}
  <2>1. \A l : l \in 1..(m + 1) <=> l \in 1..m \/ l = m + 1
    OBVIOUS
  <2>2. \A l \in 1..m : hs[l] # hs[m + 1]
    <3> TAKE l \in 1..m
    <3>1. l \in 1..Len(hs) /\ l < m + 1 /\ hs[l] \in Nat /\ hs[m + 1] \in Nat
      BY <1>0
    <3>2. hs[m + 1] < hs[l]
      BY <1>0, <3>1
    <3> QED
      BY <3>1, <3>2
  <2>3. /\ A = {k \in K : \E l \in 1..m : w[k] = hs[l]}
        /\ B = {k \in K : w[k] = hs[m + 1]}
        /\ D = {k \in K : \E l \in 1..(m + 1) : w[k] = hs[l]}
    BY <1>0, Zenon DEF At, Above
  <2> HIDE DEF A, B, D
  <2> QED
    BY <2>1, <2>2, <2>3, Zenon
<1>6. /\ Cardinality(A) \in Nat /\ Cardinality(B) \in Nat
      /\ Cardinality(D) = Cardinality(A) + Cardinality(B)
  <2>1. A \in SUBSET K
    BY <1>0, Zenon DEF Above
  <2> HIDE DEF A, B, D
  <2>2. IsFiniteSet(A) /\ IsFiniteSet(B)
    BY <1>0, <1>1, <2>1, FS_Subset
  <2>3. Cardinality(A \cup B) = Cardinality(A) + Cardinality(B) - Cardinality(A \cap B)
        /\ Cardinality({}) = 0 /\ Cardinality(A) \in Nat /\ Cardinality(B) \in Nat
    BY <2>2, FS_Union, FS_EmptySet, FS_CardinalityType
  <2>4. Cardinality(A \cup B) = Cardinality(D) /\ Cardinality(A \cap B) = Cardinality({})
    BY <1>5, Zenon
  <2> QED
    BY <2>3, <2>4
<1>7. B \subseteq K
  BY <1>0, Zenon DEF At
<1> HIDE DEF A, B, f, g, x
<1>8. /\ Len(g) = Len(f) + Len(x) /\ Len(f) \in Nat /\ Len(x) \in Nat
      /\ \A n \in 1..Len(f) : g[n] = f[n]
      /\ \A n \in 1..Len(x) : g[Len(f) + n] = x[n]
  <2>1. /\ Len(f \o x) = Len(f) + Len(x) /\ Len(f) \in Nat /\ Len(x) \in Nat
        /\ \A n \in 1..Len(f) : (f \o x)[n] = f[n]
        /\ \A n \in 1..Len(x) : (f \o x)[Len(f) + n] = x[n]
    BY <1>4
  <2> QED
    BY <1>4, <2>1
<1>9. ASSUME NEW n \in 1..Len(g) PROVE \E i \in K : Rank(w, i) = n - 1 /\ g[n] = v[i]
  <2>1. CASE n \in 1..Len(f)
    BY <1>2, <1>8, <2>1
  <2>2. CASE n \notin 1..Len(f)
    <3> DEFINE k == n - Len(f)
    <3>1. k \in 1..Len(x) /\ n = Len(f) + k
      BY <1>8, <2>2
    <3> HIDE DEF k
    <3>2. PICK i \in B : x[k] = v[i] /\ Cardinality(Earlier(B, i)) = k - 1
      BY <1>1, <3>1
    <3>3. Rank(w, i) = Cardinality(A) + (k - 1)
      BY <1>3, <3>2
    <3>4. Rank(w, i) = n - 1
      BY <1>2, <1>8, <3>1, <3>3
    <3> QED
      BY <1>7, <1>8, <3>1, <3>2, <3>4
  <2> QED
    BY <2>1, <2>2
<1>10. Len(g) = Cardinality(D)
  BY <1>1, <1>2, <1>6, <1>8
<1> QED
  BY <1>0, <1>9, <1>10, Zenon DEF Sorted, g, D

\* The blocks from the greatest weight to the least are the places sorted.
LEMMA SortIs ==
    ASSUME NEW N \in Nat, NEW K \in SUBSET (1..N), NEW w \in [K -> Nat],
           NEW v
    PROVE  /\ \A n \in 1..Cardinality(K) : \E i \in K : Rank(w, i) = n - 1
           /\ FlattenSeq(Blocks(w, v, Reverse(Ordered(Weights(w))))) = SortedBy(w, v)
<1> DEFINE W == {w[k] : k \in K}
           V == {v[k] : k \in K}
           hs == Reverse(Ordered(W))
           s == Blocks(w, v, hs)
           M == Len(hs)
           P == {m \in Nat : m <= M => Sorted(w, v, hs, m)}
<1>0. \A k \in K : v[k] \in V
  OBVIOUS
<1> HIDE DEF V
<1>1. PICK b \in Nat : W \in SUBSET (0..b)
  BY WeightsBounded
<1>2. /\ hs \in Seq(W)
      /\ \A i \in W : \E m \in 1..Len(hs) : hs[m] = i
      /\ \A k \in 1..Len(hs), l \in 1..Len(hs) : k < l <=> hs[l] < hs[k]
  <2> HIDE DEF W
  <2> QED
    BY <1>1, FallingIs
<1>3. hs \in Seq(Nat) /\ \A k \in K : \E m \in 1..Len(hs) : hs[m] = w[k]
  <2>1. W \subseteq Nat
    OBVIOUS
  <2>2. \A k \in K : w[k] \in W
    OBVIOUS
  <2> HIDE DEF W, hs
  <2> QED
    BY <1>2, <2>1, <2>2, SeqWidens
<1> HIDE DEF hs
<1>4. M \in Nat /\ DOMAIN w = K
  BY <1>3
<1>5. 0 \in P
  <2> DEFINE none == [n \in 1..0 |-> s[n]]
             A == Above(w, hs, 0)
  <2>1. none = <<>> /\ A = {}
    BY DEF Above
  <2>2. FlattenSeq(none) = <<>> /\ Cardinality(A) = 0
    BY <2>1, FlattenFew, FS_EmptySet
  <2>3. Len(<<>>) = 0 /\ 1..0 = {}
    OBVIOUS
  <2> QED
    BY <1>4, <2>2, <2>3 DEF Sorted
<1>6. ASSUME NEW m \in Nat, m \in P PROVE m + 1 \in P
  <2> SUFFICES ASSUME m + 1 <= M PROVE Sorted(w, v, hs, m + 1)
    OBVIOUS
  <2>1. m <= M
    BY <1>4
  <2> QED
    BY <1>0, <1>2, <1>3, <1>6, <2>1, SortedStep
<1>7. Sorted(w, v, hs, M)
  <2> HIDE DEF P
  <2>1. Nat \subseteq P
    BY <1>5, <1>6, Induction
  <2> QED
    BY <1>4, <2>1 DEF P
<1> DEFINE f == FlattenSeq(s)
<1>8. s = [n \in 1..M |-> s[n]] /\ \A n \in 1..M : s[n] \in Seq(V)
  <2>1. DOMAIN s = 1..M /\ s = [n \in DOMAIN s |-> s[n]]
    BY <1>3 DEF Blocks
  <2>2. \A n \in 1..M : s[n] \in Seq(V)
    BY <1>0, <1>3, BlockValues
  <2> HIDE DEF s
  <2> QED
    BY <2>1, <2>2
<1>9. f \in Seq(V)
  <2> DEFINE U == Seq(V)
  <2>1. \A n \in 1..M : s[n] \in U
    BY <1>8
  <2> HIDE DEF U, s
  <2>2. s \in Seq(U)
    BY <1>4, <1>8, <2>1
  <2> QED
    BY <2>2, FlattenType DEF U
<1>10. /\ Len(f) = Cardinality(Above(w, hs, M))
       /\ \A n \in 1..Len(f) : \E i \in K : Rank(w, i) = n - 1 /\ f[n] = v[i]
  BY <1>4, <1>7, <1>8, Zenon DEF Sorted
<1>11. Above(w, hs, M) = K
  BY <1>3, <1>4 DEF Above
<1> HIDE DEF f
<1>12. \A n \in 1..Len(f) : f[n] = v[CHOOSE i \in K : Rank(w, i) = n - 1]
  <2> TAKE n \in 1..Len(f)
  <2>1. PICK i \in K : Rank(w, i) = n - 1 /\ f[n] = v[i]
    BY <1>10
  <2> DEFINE c == CHOOSE j \in K : Rank(w, j) = n - 1
  <2>2. c \in K /\ Rank(w, c) = n - 1
    BY <2>1
  <2> HIDE DEF c
  <2>3. c = i
    BY <2>1, <2>2, RanksDiffer
  <2> QED
    BY <2>1, <2>3 DEF c
<1>13. Len(f) = Cardinality(K)
  BY <1>10, <1>11
<1>14. f = [n \in 1..Len(f) |-> f[n]]
  BY <1>9
<1>15. f = [n \in 1..Cardinality(K) |-> v[CHOOSE i \in K : Rank(w, i) = n - 1]]
  BY <1>12, <1>13, <1>14
<1>16. Weights(w) = W
  BY DEF Weights
<1>17. \A n \in 1..Cardinality(K) : \E i \in K : Rank(w, i) = n - 1
  BY <1>10, <1>13
<1> QED
  BY <1>4, <1>15, <1>16, <1>17, Zenon DEF f, s, hs, SortedBy

\* What is behind a place of a text, and what before it.
LEMMA PartOf ==
    ASSUME NEW s \in Seq(Nat), NEW i \in 1..(Len(s) + 1)
    PROVE  /\ From(s, i) \in Seq(Nat) /\ Len(From(s, i)) = (Len(s) + 1) - i
           /\ Before(s, i) \in Seq(Nat) /\ Len(Before(s, i)) = i - 1
           /\ \A k \in 1..((Len(s) + 1) - i) : From(s, i)[k] = s[(i + k) - 1]
           /\ \A k \in 1..(i - 1) : Before(s, i)[k] = s[k]
<1> DEFINE n == Len(s)
           f == From(s, i)
           b == Before(s, i)
<1>1. /\ n \in Nat /\ i \in Nat /\ n \in 0..n /\ 1 \in 1..(n + 1) /\ i - 1 \in 0..n
      /\ (n - i) + 1 = (n + 1) - i /\ (n + 1) - i \in Nat /\ ((i - 1) - 1) + 1 = i - 1
      /\ \A k \in 1..((n + 1) - i) : (i + k) - 1 \in 1..n
      /\ \A k \in 1..(i - 1) : k \in 1..n /\ (1 + k) - 1 = k
  OBVIOUS
<1>2. f \in Seq(Nat) /\ f = [k \in 1..((n - i) + 1) |-> s[(i + k) - 1]]
  BY <1>1, PartIs DEF From
<1>3. b \in Seq(Nat) /\ b = [k \in 1..(((i - 1) - 1) + 1) |-> s[(1 + k) - 1]]
  BY <1>1, PartIs DEF Before
<1> HIDE DEF n, f, b
<1>4. f = [k \in 1..((n + 1) - i) |-> s[(i + k) - 1]]
  BY <1>1, <1>2
<1>5. b = [k \in 1..(i - 1) |-> s[(1 + k) - 1]]
  BY <1>1, <1>3
<1>6. /\ Len(f) = (n + 1) - i /\ Len(b) = i - 1
      /\ \A k \in 1..((n + 1) - i) : f[k] = s[(i + k) - 1]
      /\ \A k \in 1..(i - 1) : b[k] = s[k]
  BY <1>1, <1>2, <1>3, <1>4, <1>5
<1> QED
  BY <1>1, <1>2, <1>3, <1>6 DEF n, f, b

\* They hold what the text holds.
LEMMA PartAmong ==
    ASSUME NEW C, NEW s \in Seq(Nat), \A k \in 1..Len(s) : s[k] \in C,
           NEW i \in 1..(Len(s) + 1)
    PROVE  /\ \A k \in 1..Len(From(s, i)) : From(s, i)[k] \in C
           /\ \A k \in 1..Len(Before(s, i)) : Before(s, i)[k] \in C
<1> DEFINE n == Len(s)
           f == From(s, i)
           b == Before(s, i)
<1>1. /\ Len(f) = (n + 1) - i /\ Len(b) = i - 1
      /\ \A k \in 1..((n + 1) - i) : f[k] = s[(i + k) - 1]
      /\ \A k \in 1..(i - 1) : b[k] = s[k]
  BY PartOf
<1>2. /\ \A k \in 1..((n + 1) - i) : (i + k) - 1 \in 1..n
      /\ \A k \in 1..(i - 1) : k \in 1..n
  OBVIOUS
<1> HIDE DEF n, f, b
<1>3. \A k \in 1..n : s[k] \in C
  BY DEF n
<1> QED
  BY <1>1, <1>2, <1>3 DEF f, b

\* From a place on, and from a place of that on.
LEMMA FromFrom ==
    ASSUME NEW s \in Seq(Nat), NEW i \in 1..(Len(s) + 1), NEW j \in 1..(Len(From(s, i)) + 1)
    PROVE  From(From(s, i), j) = From(s, (i + j) - 1)
<1> DEFINE f == From(s, i)
           g == From(f, j)
           h == From(s, (i + j) - 1)
           n == Len(s)
<1>1. n \in Nat /\ i \in Nat /\ \A k \in 1..n : s[k] \in Nat
  OBVIOUS
<1>2. /\ f \in Seq(Nat) /\ Len(f) = (n + 1) - i
      /\ \A k \in 1..((n + 1) - i) : f[k] = s[(i + k) - 1]
  BY PartOf
<1> HIDE DEF f, n
<1>3. j \in Nat /\ j \in 1..(Len(f) + 1) /\ (i + j) - 1 \in 1..(n + 1)
  BY <1>1, <1>2 DEF f, n
<1> DEFINE m == (i + j) - 1
           l == (Len(f) + 1) - j
<1>4. /\ l \in Nat /\ (n + 1) - m = l /\ m \in Nat
      /\ \A k \in 1..l : (j + k) - 1 \in 1..((n + 1) - i)
                         /\ (i + ((j + k) - 1)) - 1 = (m + k) - 1
  BY <1>1, <1>2, <1>3
<1>5. g \in Seq(Nat) /\ Len(g) = l /\ \A k \in 1..l : g[k] = f[(j + k) - 1]
  BY <1>2, <1>3, PartOf
<1>6. h \in Seq(Nat) /\ Len(h) = (n + 1) - m /\ \A k \in 1..((n + 1) - m) : h[k] = s[(m + k) - 1]
  BY <1>1, <1>3, PartOf DEF n
<1> HIDE DEF g, h, l, m
<1>7. \A k \in 1..l : g[k] = h[k]
  BY <1>2, <1>4, <1>5, <1>6
<1>8. g = [k \in 1..l |-> g[k]] /\ h = [k \in 1..l |-> h[k]]
  BY <1>4, <1>5, <1>6
<1> QED
  BY <1>7, <1>8 DEF f, g, h, m

\* The members of a text.
LEMMA MembersAre ==
    ASSUME NEW s \in Seq(Nat), NEW C
    PROVE  Range(s) \subseteq C <=> \A k \in 1..Len(s) : s[k] \in C
BY DEF Range

\* A text of digits behind an optional whole part is a natural number.
LEMMA WeightIsNatural ==
    ASSUME NEW num \in Seq(Nat), ValidQNumber(num)
    PROVE  QNumber(num) \in Nat
<1> DEFINE dot == Next(num, 1, {Dot})
           n == Len(num)
           a == Before(num, dot)
           b == From(num, dot + 1)
           zeros == <<48, 48, 48>>
           z == b \o zeros
           c == SubSeq(z, 1, 3)
<1>1. n \in Nat /\ dot \in 1..(n + 1) /\ (dot <= n => num[dot] = Dot)
  <2>1. 1 \in Nat \ {0} /\ 1 <= Len(num) + 1
    OBVIOUS
  <2> QED
    BY <2>1, NextPlace
<1>2. \A k \in 1..Len(num) : num[k] \in Nat
  OBVIOUS
<1> HIDE DEF dot
<1>3. /\ Whole(num) = a /\ Fraction(num) = b
      /\ QNumber(num) = 1000 * Decimal(a) + Decimal(c)
  BY DEF Whole, Fraction, QNumber, Thousandths, dot
<1>4. Decimal(a) \in Nat
  <2>1. a \in Seq(Nat)
    BY <1>1, PartOf
  <2>2. Range(a) \subseteq Digits
    BY <1>3 DEF ValidQNumber, AllDigits
  <2> HIDE DEF a
  <2>3. \A k \in 1..Len(a) : a[k] \in Digits
    BY <2>1, <2>2, MembersAre
  <2> QED
    BY <2>1, <2>3, DecimalIs
<1>5. b \in Seq(Nat) /\ \A k \in 1..Len(b) : b[k] \in Digits
  <2>1. CASE dot <= n
    <3>1. dot + 1 \in 1..(Len(num) + 1)
      BY <1>1, <2>1
    <3>2. b \in Seq(Nat)
      BY <3>1, PartOf
    <3>3. Contains(num, Dot)
      <4>1. dot \in 1..Len(num) /\ num[dot] = Dot
        BY <1>1, <2>1
      <4> QED
        BY <4>1 DEF Contains
    <3>4. Range(b) \subseteq Digits
      BY <1>3, <3>3 DEF ValidQNumber, AllDigits
    <3> HIDE DEF b
    <3> QED
      BY <3>2, <3>4, MembersAre
  <2>2. CASE dot = n + 1
    <3>1. b = <<>>
      <4>1. b = SubSeq(num, n + 2, n)
        BY <1>1, <2>2 DEF From
      <4>2. 1..((n - (n + 2)) + 1) = {}
        BY <1>1
      <4> QED
        BY <1>1, <4>1
    <3> HIDE DEF b
    <3>2. Len(b) = 0 /\ 1..0 = {} /\ b \in Seq(Nat)
      BY <3>1
    <3> QED
      BY <3>2
  <2> QED
    BY <1>1, <2>1, <2>2
<1> HIDE DEF a, b
<1>6. zeros \in Seq(Nat) /\ Len(zeros) = 3 /\ \A k \in 1..3 : zeros[k] \in Digits
  <2>1. zeros \in Seq(Nat) /\ Len(zeros) = 3 /\ zeros[1] = 48 /\ zeros[2] = 48 /\ zeros[3] = 48
    OBVIOUS
  <2>2. 48 \in Digits /\ \A k \in 1..3 : k = 1 \/ k = 2 \/ k = 3
    BY DEF Digits
  <2> HIDE DEF zeros
  <2> QED
    BY <2>1, <2>2
<1> HIDE DEF zeros
<1>7. z \in Seq(Nat) /\ Len(z) = Len(b) + 3 /\ Len(b) \in Nat
      /\ \A k \in 1..Len(z) : z[k] \in Digits
  <2>1. /\ z \in Seq(Nat) /\ Len(z) = Len(b) + 3 /\ Len(b) \in Nat
        /\ \A k \in 1..Len(b) : z[k] = b[k]
        /\ \A k \in 1..3 : z[Len(b) + k] = zeros[k]
    <3>1. \A u \in Seq(Nat), t \in Seq(Nat) :
             /\ u \o t \in Seq(Nat) /\ Len(u \o t) = Len(u) + Len(t)
             /\ \A k \in 1..Len(u) : (u \o t)[k] = u[k]
             /\ \A k \in 1..Len(t) : (u \o t)[Len(u) + k] = t[k]
      OBVIOUS
    <3>2. Len(b) \in Nat
      BY <1>5
    <3> QED
      <4>1. /\ z \in Seq(Nat) /\ Len(z) = Len(b) + Len(zeros)
            /\ \A k \in 1..Len(b) : z[k] = b[k]
            /\ \A k \in 1..Len(zeros) : z[Len(b) + k] = zeros[k]
        BY <1>5, <1>6, <3>1, Zenon
      <4> HIDE DEF z
      <4> QED
        BY <1>6, <3>2, <4>1
  <2> HIDE DEF z
  <2>2. ASSUME NEW k \in 1..Len(z) PROVE z[k] \in Digits
    <3>1. CASE k \in 1..Len(b)
      BY <1>5, <2>1, <3>1
    <3>2. CASE k \notin 1..Len(b)
      <4>1. k - Len(b) \in 1..3 /\ Len(b) + (k - Len(b)) = k
        BY <2>1, <3>2
      <4>2. z[Len(b) + (k - Len(b))] = zeros[k - Len(b)] /\ zeros[k - Len(b)] \in Digits
        BY <1>6, <2>1, <4>1
      <4> QED
        BY <4>1, <4>2
    <3> QED
      BY <3>1, <3>2
  <2> QED
    BY <2>1, <2>2
<1> HIDE DEF z
<1>8. c \in Seq(Nat) /\ \A k \in 1..Len(c) : c[k] \in Digits
  <2>1. 4 \in 1..(Len(z) + 1) /\ 4 - 1 = 3
    BY <1>7
  <2>2. c = Before(z, 4)
    BY <2>1 DEF Before
  <2> HIDE DEF c
  <2>3. c \in Seq(Nat)
    BY <1>7, <2>1, <2>2, PartOf
  <2>4. \A k \in 1..Len(c) : c[k] \in Digits
    BY <1>7, <2>1, <2>2, PartAmong
  <2> QED
    BY <2>3, <2>4
<1>9. Decimal(c) \in Nat
  BY <1>8, DecimalIs
<1> QED
  <2> DEFINE x == Decimal(a)
             y == Decimal(c)
  <2> HIDE DEF x, y
  <2>1. x \in Nat /\ y \in Nat => 1000 * x + y \in Nat
    OBVIOUS
  <2> QED
    BY <1>3, <1>4, <1>9, <2>1 DEF x, y

\* Where a parameter holds a weight is where MatchQValue looks for it.
LEMMA WeightPlace ==
    ASSUME NEW p \in Seq(Octets)
    PROVE  LET tail == Trimmed(p)
               holds == IsPrefix(Q, tail) /\ ValidQNumber(From(tail, 3))
           IN /\ holds <=> \E i \in DOMAIN p : Weight(p, i)
              /\ \A i \in DOMAIN p : Weight(p, i) => From(p, i + 2) = From(tail, 3)
              /\ holds => QNumber(From(tail, 3)) \in Nat
<1> DEFINE set == 0..255 \ Blank
           s == Next(p, 1, set)
           n == Len(p)
           tail == Trimmed(p)
           good == IsPrefix(Q, tail) /\ ValidQNumber(From(tail, 3))
<1>1. p \in Seq(Nat) /\ n \in Nat /\ DOMAIN p = 1..n /\ \A k \in 1..n : p[k] \in Octets
  BY OctetsAre
<1>2. /\ s \in 1..(n + 1) /\ (s <= n => p[s] \in set)
      /\ \A j \in 1..(s - 1) : p[j] \notin set
  <2>1. 1 \in Nat \ {0} /\ 1 <= Len(p) + 1
    BY <1>1
  <2> HIDE DEF set
  <2> QED
    BY <1>1, <2>1, NextPlace
<1>3. tail = From(p, s)
  BY DEF Trimmed
<1>4. Q \in Seq(Nat) /\ Len(Q) = 2 /\ Q[1] = 113
  BY DEF Q, Equals
\* A text that begins with "q=" at a place.
<1>5. ASSUME NEW i \in 1..(n + 1), IsPrefix(Q, From(p, i))
      PROVE  i <= n /\ p[i] = 113 /\ i + 2 \in 1..(n + 1)
             /\ From(From(p, i), 3) = From(p, i + 2)
  <2> DEFINE f == From(p, i)
  <2>1. f \in Seq(Nat) /\ Len(f) = (n + 1) - i
        /\ \A k \in 1..((n + 1) - i) : f[k] = p[(i + k) - 1]
    BY <1>1, PartOf
  <2>2. 2 <= Len(f) /\ SubSeq(Q, 1, 2) = SubSeq(f, 1, 2)
    BY <1>4, <1>5 DEF IsPrefix
  <2> HIDE DEF f
  <2>3. SubSeq(Q, 1, 2)[1] = Q[1] /\ SubSeq(f, 1, 2)[1] = f[1]
    <3>1. \A t \in Seq(Nat) : 2 <= Len(t) => SubSeq(t, 1, 2)[1] = t[1]
      OBVIOUS
    <3> QED
      BY <1>4, <2>1, <2>2, <3>1
  <2>4. f[1] = p[i] /\ i <= n /\ i + 2 \in 1..(n + 1) /\ 3 \in 1..(Len(f) + 1) /\ (i + 3) - 1 = i + 2
    <3>1. i <= n /\ i + 2 \in 1..(n + 1) /\ 3 \in 1..(Len(f) + 1) /\ (i + 3) - 1 = i + 2
          /\ 1 \in 1..((n + 1) - i) /\ (i + 1) - 1 = i
      BY <1>1, <2>1, <2>2
    <3> QED
      BY <2>1, <3>1
  <2>5. From(f, 3) = From(p, i + 2)
    <3>1. From(f, 3) = From(p, (i + 3) - 1)
      BY <1>1, <2>4, FromFrom DEF f
    <3> QED
      BY <2>4, <3>1
  <2> QED
    BY <1>4, <2>2, <2>3, <2>4, <2>5 DEF f
<1>6. 113 \in set /\ \A c \in Octets : c \in set <=> c \notin Blank
  BY DEF set, Blank, Octets, Space
<1>7. ASSUME NEW i \in 1..n, Weight(p, i)
      PROVE  i = s
  <2>1. Range(Before(p, i)) \subseteq Blank /\ IsPrefix(Q, From(p, i))
    BY <1>7 DEF Weight
  <2>2. i \in 1..(n + 1) /\ p[i] = 113
    BY <1>1, <1>5, <2>1
  <2>3. \A k \in 1..(i - 1) : p[k] \in Blank
    <3>1. Before(p, i) \in Seq(Nat) /\ Len(Before(p, i)) = i - 1
          /\ \A k \in 1..(i - 1) : Before(p, i)[k] = p[k]
      BY <1>1, <2>2, PartOf
    <3>2. \A k \in 1..(i - 1) : Before(p, i)[k] \in Blank
      BY <2>1, <3>1, MembersAre
    <3> QED
      BY <3>1, <3>2
  <2>4. \A k \in 1..(i - 1) : p[k] \notin set
    <3>1. \A k \in 1..(i - 1) : k \in 1..n
      BY <1>1
    <3> QED
      BY <1>1, <1>6, <2>3, <3>1
  <2>5. 1 \in Nat \ {0} /\ i \in 1..(Len(p) + 1) /\ p[i] \in set
    BY <1>6, <2>2
  <2> HIDE DEF set
  <2> QED
    BY <1>1, <2>4, <2>5, NextIs
<1>8. ASSUME good PROVE s \in 1..n /\ Weight(p, s)
  <2>1. IsPrefix(Q, From(p, s)) /\ ValidQNumber(From(From(p, s), 3))
    BY <1>3, <1>8, Zenon
  <2> HIDE DEF s
  <2>2. s <= n /\ From(From(p, s), 3) = From(p, s + 2)
    BY <1>2, <1>5, <2>1
  <2>3. Range(Before(p, s)) \subseteq Blank
    <3>1. Before(p, s) \in Seq(Nat) /\ Len(Before(p, s)) = s - 1
          /\ \A k \in 1..(s - 1) : Before(p, s)[k] = p[k]
      BY <1>1, <1>2, PartOf
    <3>2. \A k \in 1..(s - 1) : k \in 1..n
      BY <1>1, <1>2
    <3>3. \A k \in 1..(s - 1) : Before(p, s)[k] \in Blank
      BY <1>1, <1>2, <1>6, <3>1, <3>2
    <3> QED
      BY <3>1, <3>3, MembersAre
  <2> QED
    BY <1>1, <1>2, <2>1, <2>2, <2>3 DEF Weight
<1>9. ASSUME NEW i \in 1..n, Weight(p, i)
      PROVE  good /\ From(p, i + 2) = From(tail, 3)
  <2>1. i = s /\ i \in 1..(n + 1)
    <3> HIDE DEF s
    <3>1. i = s
      BY <1>7, <1>9
    <3> QED
      BY <1>1, <3>1
  <2>2. IsPrefix(Q, From(p, i)) /\ ValidQNumber(From(p, i + 2))
    BY <1>9 DEF Weight
  <2>3. From(From(p, i), 3) = From(p, i + 2)
    BY <1>5, <2>1, <2>2
  <2>4. From(p, i) = tail
    BY <1>3, <2>1, Zenon
  <2> HIDE DEF tail, s
  <2> QED
    BY <2>2, <2>3, <2>4, Zenon
<1>10. good => QNumber(From(tail, 3)) \in Nat
  <2> SUFFICES ASSUME good PROVE QNumber(From(tail, 3)) \in Nat
    OBVIOUS
  <2>1. From(tail, 3) \in Seq(Nat)
    <3>1. s \in 1..n /\ Weight(p, s)
      BY <1>8
    <3>2. s \in 1..(n + 1) /\ IsPrefix(Q, From(p, s))
      BY <1>1, <3>1 DEF Weight
    <3>3. s + 2 \in 1..(n + 1) /\ From(From(p, s), 3) = From(p, s + 2)
      BY <1>5, <3>2
    <3> HIDE DEF s
    <3>4. From(p, s + 2) \in Seq(Nat)
      BY <1>1, <3>3, PartOf
    <3> QED
      BY <1>3, <3>3, <3>4
  <2> HIDE DEF tail
  <2> QED
    BY <2>1, WeightIsNatural
<1> HIDE DEF s, tail
<1> QED
  BY <1>1, <1>8, <1>9, <1>10, Zenon DEF tail

\* An entry of an Accept value, and what MatchQValue makes of it.
LEMMA EntryIs ==
    ASSUME NEW e \in Entries
    PROVE  /\ e.text \in Seq(Octets) /\ e.text # <<>> /\ e.text[1] \notin Blank
           /\ Commas(e.text) = {}
           /\ MatchQValue(e.text).ok <=> e.q # -2
           /\ MatchQValue(e.text).ok => /\ e.q \in Nat
                                        /\ MatchQValue(e.text).q = e.q
                                        /\ MatchQValue(e.text).val = e.val
<1> DEFINE x == e.text
           n == Len(x)
<1>1. PICK semi \in 1..(n + 1) :
         LET parameter == From(x, semi + 1)
             weights == {i \in DOMAIN parameter : Weight(parameter, i)}
         IN /\ x \in Seq(0..255 \ {Comma}) /\ e.val = Before(x, semi) /\ e.val # <<>>
            /\ Range(e.val) \cap (Blank \cup {Semicolon}) = {}
            /\ IF semi > n THEN e.q = 1000
               ELSE /\ x[semi] = Semicolon
                    /\ IF weights = {} THEN e.q = -2
                       ELSE \E i \in weights : e.q = QNumber(From(parameter, i + 2))
  BY EntriesAssumption, Zenon
<1> DEFINE p == From(x, semi + 1)
           W == {i \in DOMAIN p : Weight(p, i)}
           head == Before(x, semi)
           tail == Trimmed(p)
           good == IsPrefix(Q, tail) /\ ValidQNumber(From(tail, 3))
<1>2. /\ x \in Seq(0..255 \ {Comma}) /\ e.val = head /\ head # <<>>
      /\ Range(head) \cap (Blank \cup {Semicolon}) = {}
      /\ semi > n => e.q = 1000
      /\ ~(semi > n) => x[semi] = Semicolon
      /\ ~(semi > n) /\ W = {} => e.q = -2
      /\ ~(semi > n) /\ W # {} => \E i \in W : e.q = QNumber(From(p, i + 2))
  <2>1. /\ x \in Seq(0..255 \ {Comma}) /\ e.val = head /\ e.val # <<>>
        /\ Range(e.val) \cap (Blank \cup {Semicolon}) = {}
        /\ IF semi > n THEN e.q = 1000
           ELSE /\ x[semi] = Semicolon
                /\ IF W = {} THEN e.q = -2
                   ELSE \E i \in W : e.q = QNumber(From(p, i + 2))
    BY <1>1
  <2> HIDE DEF x, n, p, W, head
  <2> DEFINE held == \E i \in W : e.q = QNumber(From(p, i + 2))
             long == semi > n
  <2> HIDE DEF held, long
  <2>2. IF long THEN e.q = 1000
        ELSE x[semi] = Semicolon /\ IF W = {} THEN e.q = -2 ELSE held
    BY <2>1, Zenon DEF held, long
  <2>3. /\ long => e.q = 1000
        /\ ~long => x[semi] = Semicolon
        /\ ~long /\ W = {} => e.q = -2
        /\ ~long /\ W # {} => held
    BY <2>2
  <2> QED
    BY <2>1, <2>3, Zenon DEF held, long
<1> HIDE DEF x, n
<1>3. /\ x \in Seq(Octets) /\ x \in Seq(Nat) /\ n \in Nat /\ DOMAIN x = 1..n
      /\ \A k \in 1..n : x[k] \in Octets /\ x[k] # Comma
  <2>1. 0..255 \ {Comma} \subseteq Octets
    BY DEF Octets
  <2>2. x \in Seq(Octets)
    BY <1>2, <2>1, SeqWidens
  <2>3. \A k \in 1..n : x[k] \in 0..255 \ {Comma}
    BY <1>2 DEF n
  <2>4. n \in Nat /\ DOMAIN x = 1..n
    BY <1>2 DEF n
  <2> QED
    BY <2>1, <2>2, <2>3, <2>4, OctetsAre
<1>4. /\ head \in Seq(Nat) /\ Len(head) = semi - 1
      /\ \A k \in 1..(semi - 1) : head[k] = x[k]
      /\ \A k \in 1..Len(head) : head[k] \in Octets \ {Comma}
  <2>1. \A k \in 1..Len(x) : x[k] \in Octets \ {Comma}
    BY <1>3 DEF n
  <2>2. semi \in 1..(Len(x) + 1)
    BY <1>1 DEF n
  <2>3. /\ head \in Seq(Nat) /\ Len(head) = semi - 1
        /\ \A k \in 1..(semi - 1) : head[k] = x[k]
    BY <1>3, <2>2, PartOf
  <2>4. \A k \in 1..Len(head) : head[k] \in Octets \ {Comma}
    BY <1>3, <2>1, <2>2, PartAmong
  <2> QED
    BY <2>3, <2>4, Zenon
<1> HIDE DEF head
<1>5. \A k \in 1..(semi - 1) : x[k] # Semicolon /\ x[k] \notin Blank
  <2>1. \A k \in 1..(semi - 1) : head[k] \in Range(head)
    BY <1>4 DEF Range
  <2> QED
    BY <1>2, <1>4, <2>1
<1>6. x # <<>> /\ x[1] \notin Blank
  <2>1. Len(head) # 0
    BY <1>2, <1>4, EmptyText
  <2>2. 1 \in 1..(semi - 1) /\ n # 0
    BY <1>1, <1>3, <1>4, <2>1
  <2> QED
    BY <1>3, <1>5, <2>2, EmptyText DEF n
<1>7. Commas(x) = {}
  BY <1>3 DEF Commas
<1>8. Next(x, 1, {Semicolon}) = semi
  <2>1. 1 \in Nat \ {0} /\ semi \in 1..(Len(x) + 1) /\ (semi <= Len(x) => ~(semi > n))
    BY <1>1, <1>3 DEF n
  <2>2. /\ semi <= Len(x) => x[semi] \in {Semicolon}
        /\ \A k \in 1..(semi - 1) : x[k] \notin {Semicolon}
    BY <1>2, <1>5, <2>1
  <2> QED
    BY <1>3, <2>1, <2>2, NextIs
<1>9. Range(head) \cap (Blank \cup {Comma}) = {}
  <2>1. \A c \in Range(head) : c # Comma
    BY <1>4 DEF Range
  <2> QED
    BY <1>2, <2>1
<1>10. /\ MatchQValue(x).ok <=> (semi <= n => good)
       /\ MatchQValue(x).val = head
       /\ MatchQValue(x).q = IF semi > n THEN 1000 ELSE QNumber(From(tail, 3))
  <2> DEFINE m == MatchQValue(x)
             fits == (semi <= n => good) /\ head # <<>> /\ Range(head) \cap (Blank \cup {Comma}) = {}
             q == IF semi > n THEN 1000 ELSE QNumber(From(tail, 3))
  <2>1. m = [ok |-> fits, val |-> head, q |-> q]
    BY <1>8, Zenon DEF MatchQValue, head, n
  <2> HIDE DEF m, q, fits
  <2>2. m.ok = fits /\ m.val = head /\ m.q = q
    BY <2>1
  <2>3. fits <=> (semi <= n => good)
    BY <1>2, <1>9, Zenon DEF fits
  <2> QED
    BY <2>2, <2>3, Zenon DEF m, q
<1>11. CASE semi > n
  <2>1. ~(semi <= n)
    BY <1>1, <1>3, <1>11
  <2>2. e.q = 1000 /\ MatchQValue(x).ok /\ MatchQValue(x).q = 1000
    BY <1>2, <1>10, <1>11, <2>1, Zenon
  <2>3. 1000 # -2 /\ 1000 \in Nat
    OBVIOUS
  <2> QED
    BY <1>2, <1>3, <1>6, <1>7, <1>10, <2>2, <2>3 DEF x
<1>12. CASE semi <= n
  <2>1. ~(semi > n)
    BY <1>1, <1>3, <1>12
  <2>2. p \in Seq(Octets)
    <3>1. semi + 1 \in 1..(Len(x) + 1) /\ \A k \in 1..Len(x) : x[k] \in Octets
      BY <1>1, <1>3, <1>12 DEF n
    <3>2. p \in Seq(Nat)
      BY <1>3, <3>1, PartOf
    <3>3. \A k \in 1..Len(p) : p[k] \in Octets
      BY <1>3, <3>1, PartAmong
    <3> HIDE DEF p
    <3> QED
      BY <3>2, <3>3, AllWithin
  <2> HIDE DEF p
  <2>3. /\ good <=> \E i \in DOMAIN p : Weight(p, i)
        /\ \A i \in DOMAIN p : Weight(p, i) => From(p, i + 2) = From(tail, 3)
        /\ good => QNumber(From(tail, 3)) \in Nat
    BY <2>2, WeightPlace, Zenon
  <2> HIDE DEF tail, good
  <2>4. MatchQValue(x).ok <=> good
    BY <1>10, <1>12
  <2>5. MatchQValue(x).q = QNumber(From(tail, 3))
    BY <1>10, <2>1
  <2>6. good => e.q = QNumber(From(tail, 3)) /\ e.q \in Nat
    BY <1>2, <2>1, <2>3
  <2>7. ~good => e.q = -2
    BY <1>2, <2>1, <2>3
  <2>8. good => e.q # -2
    <3>1. \A k \in Nat : k # -2
      OBVIOUS
    <3> QED
      BY <2>6, <3>1
  <2>9. /\ MatchQValue(x).ok <=> e.q # -2
        /\ MatchQValue(x).ok => e.q \in Nat /\ MatchQValue(x).q = e.q
    BY <2>4, <2>5, <2>6, <2>7, <2>8, Zenon
  <2>10. MatchQValue(x).val = e.val
    BY <1>2, <1>10, Zenon
  <2> QED
    BY <1>3, <1>6, <1>7, <2>9, <2>10, Zenon DEF x
<1> QED
  BY <1>1, <1>3, <1>11, <1>12

-----------------------------------------------------------------------------
\* The texts of entries.
EntryText == [e \in Entries |-> e.text]
EntryTexts(m) == Images(EntryText, m)

\* An Accept value is cut where its entries were joined.
EntriesAre(m, s) == /\ m \in Seq(Entries) /\ s \in Seq(Nat)
                    /\ m = <<>> => s = <<>>
                    /\ m # <<>> => CutAt(s, Commas(s)) = EntryTexts(m)
AcceptKept == kind = "accept" => EntriesAre(meant, text)

LEMMA EntrySent ==
    ASSUME NEW m, NEW s, EntriesAre(m, s), NEW e \in Entries
    PROVE  EntriesAre(Append(m, e), (s \o (IF m = <<>> THEN <<>> ELSE <<Comma>> \o <<>>)) \o e.text)
<1> DEFINE x == e.text
<1>1. /\ x \in Seq(Octets) /\ x # <<>> /\ x[1] \notin Blank /\ Commas(x) = {}
      /\ EntryText[e] = x
  BY EntryIs DEF EntryText
<1>2. x \in Seq(Nat)
  BY <1>1, OctetsAre
<1>3. m \in Seq(Entries) /\ s \in Seq(Nat) /\ (m = <<>> => s = <<>>)
      /\ (m # <<>> => CutAt(s, Commas(s)) = EntryTexts(m))
  BY DEF EntriesAre
<1> HIDE DEF x
<1>4. Append(m, e) = m \o <<e>> /\ Append(m, e) \in Seq(Entries) /\ Append(m, e) # <<>>
  BY <1>3, OneMore
<1>5. EntryTexts(Append(m, e)) = EntryTexts(m) \o <<x>>
  <2> DEFINE V == Seq(Nat)
  <2>1. \A q \in Entries : q.text \in V
    BY EntryIs, OctetsAre
  <2>2. EntryText \in [Entries -> V]
    BY <2>1, Zenon DEF EntryText
  <2> HIDE DEF V
  <2>3. Images(EntryText, m \o <<e>>) = Images(EntryText, m) \o <<EntryText[e]>>
    BY <1>3, <2>2, ImagesGrow
  <2> QED
    BY <1>1, <1>4, <2>3, Zenon DEF EntryTexts
<1>6. CASE m = <<>>
  <2>1. (s \o <<>>) \o x = x
    <3>1. s = <<>>
      BY <1>3, <1>6
    <3> QED
      BY <1>2, <3>1
  <2>2. EntryTexts(m) \o <<x>> = <<x>>
    <3>1. EntryTexts(m) = <<>>
      BY <1>6 DEF EntryTexts, Images
    <3> QED
      BY <1>2, <3>1
  <2>3. CutAt(x, {}) = <<x>>
    <3>1. PartedAt(x, {}) = <<x>>
      BY <1>2, PartsNone
    <3>2. CutAt(x, {}) = [k \in DOMAIN <<x>> |-> IF k = 1 THEN <<x>>[k] ELSE Trimmed(<<x>>[k])]
      BY <3>1, Zenon DEF CutAt
    <3>3. DOMAIN <<x>> = 1..1 /\ <<x>>[1] = x /\ \A k \in 1..1 : k = 1
      OBVIOUS
    <3>4. <<x>> = [k \in 1..1 |-> x]
      OBVIOUS
    <3> QED
      BY <3>2, <3>3, <3>4
  <2> QED
    BY <1>1, <1>2, <1>4, <1>5, <1>6, <2>1, <2>2, <2>3, Zenon DEF EntriesAre, x
<1>7. CASE m # <<>>
  <2> DEFINE t == s \o (<<Comma>> \o x)
             n == Len(s)
  <2>1. (s \o (<<Comma>> \o <<>>)) \o x = t
    BY <1>2, <1>3, WrittenIs
  <2>2. Commas(t) = Commas(s) \cup {n + 1} /\ t \in Seq(Nat) /\ Commas(s) \in SUBSET (1..Len(s))
    <3> DEFINE y == <<Comma>> \o x
    <3>1. /\ y \in Seq(Nat) /\ Len(y) = Len(x) + 1
          /\ y[1] = Comma /\ \A i \in 1..Len(x) : y[1 + i] = x[i]
          /\ t \in Seq(Nat) /\ Len(t) = n + (Len(x) + 1)
          /\ \A i \in 1..n : t[i] = s[i]
          /\ \A i \in 1..(Len(x) + 1) : t[n + i] = y[i]
      BY <1>2, <1>3, CommaThen, Zenon
    <3>2. n \in Nat /\ Len(x) \in Nat /\ DOMAIN s = 1..n /\ DOMAIN x = 1..Len(x)
      BY <1>2, <1>3
    <3> HIDE DEF t, y, n
    <3>3. DOMAIN t = 1..(n + (Len(x) + 1))
      BY <3>1
    <3>4. \A i \in 1..Len(x) : x[i] # Comma
      BY <1>1, <3>2 DEF Commas
    <3>5. ASSUME NEW i \in 1..(n + (Len(x) + 1))
          PROVE  t[i] = Comma <=> i \in Commas(s) \cup {n + 1}
      <4>1. CASE i \in 1..n
        <5>1. i # n + 1 /\ t[i] = s[i]
          BY <3>1, <3>2, <4>1
        <5> QED
          BY <3>2, <4>1, <5>1 DEF Commas
      <4>2. CASE i = n + 1
        <5>1. 1 \in 1..(Len(x) + 1)
          BY <3>2
        <5> QED
          BY <3>1, <4>2, <5>1
      <4>3. CASE i > n + 1
        <5> DEFINE j == i - (n + 1)
        <5>1. j \in 1..Len(x) /\ 1 + j \in 1..(Len(x) + 1) /\ n + (1 + j) = i /\ i \notin 1..n /\ i # n + 1
          BY <3>2, <4>3
        <5> HIDE DEF j
        <5>2. t[i] = x[j]
          BY <3>1, <5>1
        <5> QED
          BY <3>2, <3>4, <5>1, <5>2 DEF Commas
      <4> QED
        BY <3>2, <4>1, <4>2, <4>3
    <3>6. \A i \in Commas(s) \cup {n + 1} : i \in 1..(n + (Len(x) + 1))
      BY <3>2 DEF Commas
    <3>7. Commas(t) = Commas(s) \cup {n + 1}
      BY <3>3, <3>5, <3>6 DEF Commas
    <3>8. Commas(s) \in SUBSET (1..n)
      BY <3>2 DEF Commas
    <3> QED
      BY <3>1, <3>7, <3>8 DEF n
  <2>3. Comma \in Nat /\ Trimmed(x) = x
    BY <1>1, TrimmedIs DEF Comma
  <2>4. /\ CutAt(s, Commas(s)) \in Seq(Seq(Nat))
        /\ CutAt(t, Commas(s) \cup {n + 1}) = Append(CutAt(s, Commas(s)), x)
    <3>1. /\ CutAt(s, Commas(s)) \in Seq(Seq(Nat))
          /\ CutAt(t, Commas(s) \cup {n + 1}) = Append(CutAt(s, Commas(s)), Trimmed(x))
      <4> DEFINE c == Commas(s)
      <4>1. c \in SUBSET (1..Len(s))
        BY <2>2
      <4> HIDE DEF c
      <4> QED
        BY <1>2, <1>3, <2>3, <4>1, CutAtGrows DEF c
    <3> QED
      BY <2>3, <3>1, Zenon
  <2>5. Append(CutAt(s, Commas(s)), x) = CutAt(s, Commas(s)) \o <<x>>
    <3> DEFINE V == Seq(Nat)
               c == CutAt(s, Commas(s))
    <3>1. c \in Seq(V) /\ x \in V
      BY <1>2, <2>4
    <3> HIDE DEF V, c
    <3>2. Append(c, x) = c \o <<x>>
      BY <3>1, OneMore
    <3> QED
      BY <3>2 DEF c
  <2> HIDE DEF t, n
  <2>6. CutAt(t, Commas(t)) = EntryTexts(Append(m, e))
    BY <1>3, <1>5, <1>7, <2>2, <2>4, <2>5, Zenon
  <2> QED
    BY <1>4, <1>7, <2>1, <2>2, <2>6, Zenon DEF EntriesAre, x
<1> QED
  BY <1>6, <1>7

LEMMA AcceptKeptHolds == VSpec => []AcceptKept
<1>1. VInit => AcceptKept
  <2> SUFFICES ASSUME VInit, kind = "accept" PROVE EntriesAre(meant, text)
    BY DEF AcceptKept
  <2>1. text = <<>> /\ meant = <<>>
    BY DEF VInit, Begun0
  <2>2. <<>> \in Seq(Entries) /\ <<>> \in Seq(Nat)
    OBVIOUS
  <2> QED
    BY <2>1, <2>2, Zenon DEF EntriesAre
<1>2. AcceptKept /\ [VNext]_all => AcceptKept'
  <2> SUFFICES ASSUME AcceptKept, [VNext]_all, kind' = "accept" PROVE EntriesAre(meant', text')
    BY DEF AcceptKept, EntriesAre, EntryTexts, Images, EntryText, CutAt, Commas
  <2>1. CASE UNCHANGED client
    BY <2>1 DEF AcceptKept, client
  <2>2. CASE SendEntry
    <3>1. PICK e \in Entries : Send(e, e.text)
      BY <2>2 DEF SendEntry
    <3>2. kind = "accept" /\ EntriesAre(meant, text)
      BY <2>2 DEF SendEntry, AcceptKept
    <3>3. /\ meant' = Append(meant, e)
          /\ text' = text \o (IF meant = <<>> THEN <<>> ELSE <<Comma>> \o <<>>) \o e.text
      BY <3>1, <3>2, Zenon DEF Send
    <3> QED
      BY <3>2, <3>3, EntrySent, Zenon
  <2>3. CASE ClientNext /\ ~SendEntry
    <3>1. kind # "accept"
      BY <2>3 DEF ClientNext, SendElement, SendRange, NewField, AddItem, GrowName, GrowTarget
    <3>2. kind' = kind
      BY <2>3 DEF ClientNext, SendElement, SendRange, NewField, AddItem, GrowName, GrowTarget, Send
    <3> QED
      BY <3>1, <3>2
  <2> QED
    BY <2>1, <2>2, <2>3 DEF VNext, all
<1> QED
  BY <1>1, <1>2, PTL DEF VSpec

\* No entry is meant by nothing.
LEMMA NoEntryIs == ParseQValues(<<>>) = <<>>
<1> DEFINE none == <<>>
           parts == CutAt(none, Commas(none))
           pairs == [k \in DOMAIN parts |-> MatchQValue(parts[k])]
           tmp == {k \in DOMAIN pairs : pairs[k].ok}
           pick(n) == CHOOSE i \in tmp : Cardinality({j \in tmp : Ahead(pairs, j, i)}) = n - 1
<1>1. none \in Seq(Nat) /\ Len(none) = 0 /\ DOMAIN none = {} /\ none = <<>>
  OBVIOUS
<1> HIDE DEF none
<1>2. Commas(none) = {}
  BY <1>1 DEF Commas
<1>3. PartedAt(none, {}) = <<none>>
  BY <1>1, PartsNone
<1>4. DOMAIN parts = {1} /\ parts[1] = none
  <2>1. parts = [k \in DOMAIN <<none>> |-> IF k = 1 THEN <<none>>[k] ELSE Trimmed(<<none>>[k])]
    BY <1>2, <1>3, Zenon DEF CutAt
  <2>2. DOMAIN <<none>> = {1} /\ <<none>>[1] = none
    OBVIOUS
  <2> HIDE DEF parts
  <2> QED
    BY <2>1, <2>2
<1> HIDE DEF parts
<1>5. ~MatchQValue(none).ok
  <2>1. \A i \in Nat : SubSeq(none, 1, i - 1) = <<>> \/ i > 1
    <3> TAKE i \in Nat
    <3>1. 1..(i - 1) = {} \/ i > 1
      OBVIOUS
    <3> QED
      BY <1>1, <3>1
  <2>2. Next(none, 1, {Semicolon}) \in 1..(Len(none) + 1)
    <3>1. 1 \in Nat \ {0} /\ 1 <= Len(none) + 1
      BY <1>1
    <3> QED
      BY <1>1, <3>1, NextPlace
  <2> DEFINE semi == Next(none, 1, {Semicolon})
  <2>3. semi = 1
    BY <1>1, <2>2
  <2>4. Before(none, semi) = <<>>
    BY <1>1, <2>3 DEF Before
  <2> HIDE DEF semi
  <2> DEFINE head == Before(none, semi)
             tail == Trimmed(From(none, semi + 1))
             fits == /\ semi <= Len(none) => IsPrefix(Q, tail) /\ ValidQNumber(From(tail, 3))
                     /\ head # <<>> /\ Range(head) \cap (Blank \cup {Comma}) = {}
             m == MatchQValue(none)
  <2> DEFINE weight == IF semi > Len(none) THEN 1000 ELSE QNumber(From(tail, 3))
  <2>5. m = [ok |-> fits, val |-> head, q |-> weight]
    BY Zenon DEF MatchQValue, semi
  <2>6. ~fits
    BY <2>4
  <2> HIDE DEF m, fits, head, weight
  <2> QED
    BY <2>5, <2>6 DEF m
<1>6. tmp = {}
  BY <1>4, <1>5
<1>7. ParseQValues(none) = [n \in 1..Cardinality(tmp) |-> pairs[pick(n)].val]
  BY Zenon DEF ParseQValues, parts
<1> HIDE DEF tmp, pairs
<1>8. Cardinality(tmp) = 0 /\ 1..0 = {}
  BY <1>6, FS_EmptySet
<1> QED
  BY <1>1, <1>7, <1>8

\* Some entries, read and sorted.
LEMMA EntriesSorted ==
    ASSUME NEW m \in Seq(Entries), NEW s, CutAt(s, Commas(s)) = EntryTexts(m)
    PROVE  LET K == {k \in DOMAIN m : m[k].q # -2}
               w == [k \in K |-> m[k].q]
               v == [k \in K |-> m[k].val]
           IN /\ K \in SUBSET (1..Len(m)) /\ w \in [K -> Nat]
              /\ ParseQValues(s) = SortedBy(w, v)
<1> DEFINE K == {k \in DOMAIN m : m[k].q # -2}
           w == [k \in K |-> m[k].q]
           v == [k \in K |-> m[k].val]
           parts == CutAt(s, Commas(s))
           pairs == [k \in DOMAIN parts |-> MatchQValue(parts[k])]
           tmp == {k \in DOMAIN pairs : pairs[k].ok}
           pick(n) == CHOOSE i \in tmp : Cardinality({j \in tmp : Ahead(pairs, j, i)}) = n - 1
<1>1. DOMAIN m = 1..Len(m) /\ Len(m) \in Nat /\ \A k \in DOMAIN m : m[k] \in Entries
  OBVIOUS
<1>2. /\ DOMAIN pairs = DOMAIN m
      /\ \A k \in DOMAIN m : pairs[k] = MatchQValue(m[k].text)
  <2>1. DOMAIN parts = DOMAIN m /\ \A k \in DOMAIN m : parts[k] = m[k].text
    BY <1>1 DEF EntryTexts, Images, EntryText
  <2> HIDE DEF parts
  <2> QED
    BY <2>1
<1>3. \A k \in DOMAIN m :
         /\ pairs[k].ok <=> m[k].q # -2
         /\ pairs[k].ok => m[k].q \in Nat /\ pairs[k].q = m[k].q /\ pairs[k].val = m[k].val
  BY <1>1, <1>2, EntryIs
<1>4. ParseQValues(s) = [n \in 1..Cardinality(tmp) |-> pairs[pick(n)].val]
  BY Zenon DEF ParseQValues
<1> HIDE DEF pairs
<1>5. tmp = K /\ \A k \in K : m[k].q \in Nat /\ pairs[k].q = m[k].q /\ pairs[k].val = m[k].val
  BY <1>2, <1>3
<1>6. K \in SUBSET (1..Len(m)) /\ w \in [K -> Nat] /\ IsFiniteSet(K)
  <2>1. K \in SUBSET (1..Len(m))
    BY <1>1
  <2>2. w \in [K -> Nat]
    BY <1>5
  <2> QED
    <3> HIDE DEF K, w
    <3>1. IsFiniteSet(K)
      BY <1>1, <2>1, PlacesFinite
    <3> QED
      BY <2>1, <2>2, <3>1
<1> HIDE DEF K, tmp
<1>7. \A i \in K : Cardinality({j \in K : Ahead(pairs, j, i)}) = Rank(w, i)
  <2> SUFFICES ASSUME NEW i \in K PROVE {j \in K : Ahead(pairs, j, i)} = Foremost(w, i)
    BY DEF Rank
  <2>1. \A j \in K : w[j] = pairs[j].q
    BY <1>5
  <2>2. DOMAIN w = K
    OBVIOUS
  <2> HIDE DEF w
  <2> QED
    BY <2>1, <2>2 DEF Ahead, Foremost
<1>8. \A i \in K : pairs[i].val = v[i]
  BY <1>5
<1>9. ASSUME NEW n \in 1..Cardinality(K)
      PROVE  pairs[pick(n)].val = v[CHOOSE i \in K : Rank(w, i) = n - 1]
  <2> DEFINE R == {i \in K : Rank(w, i) = n - 1}
             T == {i \in K : Cardinality({j \in K : Ahead(pairs, j, i)}) = n - 1}
  <2>1. T = R
    BY <1>7
  <2>2. pick(n) = (CHOOSE i : i \in T) /\ (CHOOSE i \in K : Rank(w, i) = n - 1) = CHOOSE i : i \in R
    BY <1>5
  <2>3. \E i \in K : Rank(w, i) = n - 1
    <3> HIDE DEF w
    <3> QED
      BY <1>1, <1>6, SortIs
  <2> QED
    BY <1>8, <2>1, <2>2, <2>3
<1>10. ParseQValues(s) = SortedBy(w, v)
  <2>1. DOMAIN w = K
    OBVIOUS
  <2> HIDE DEF w, v
  <2>2. SortedBy(w, v) = [n \in 1..Cardinality(K) |-> v[CHOOSE i \in K : Rank(w, i) = n - 1]]
    BY <2>1 DEF SortedBy
  <2> HIDE DEF pick
  <2>3. ParseQValues(s) = [n \in 1..Cardinality(K) |-> pairs[pick(n)].val]
    BY <1>4, <1>5
  <2> QED
    BY <1>9, <2>2, <2>3
<1> QED
  BY <1>6, <1>10, Zenon DEF K

(***************************************************************************)
(* Whatever entries a client sends, with whatever values, weights and      *)
(* other parameters, ParseQValues gives the values that have a weight, the *)
(* heaviest first and those of one weight in the order they were sent in.  *)
(***************************************************************************)
THEOREM PreferencesAlwaysArrive == VSpec => []PreferencesArrive
<1>1. AcceptKept => PreferencesArrive
  <2> SUFFICES ASSUME EntriesAre(meant, text)
               PROVE  ParseQValues(text) = FlattenSeq([n \in DOMAIN Heaviest |-> Weighing(Heaviest[n])])
    BY DEF AcceptKept, PreferencesArrive
  <2> DEFINE K == {k \in DOMAIN meant : meant[k].q # -2}
             w == [k \in K |-> meant[k].q]
             v == [k \in K |-> meant[k].val]
             W == Weights(w)
             hs == Reverse(Ordered(W))
             sorted == SortedBy(w, v)
  <2>1. meant \in Seq(Entries) /\ Len(meant) \in Nat
    BY DEF EntriesAre
  <2>2. ParseQValues(text) = sorted /\ K \in SUBSET (1..Len(meant)) /\ w \in [K -> Nat]
    <3>1. CASE meant # <<>>
      <4>1. CutAt(text, Commas(text)) = EntryTexts(meant)
        BY <3>1 DEF EntriesAre
      <4> QED
        BY <2>1, <4>1, EntriesSorted, Zenon
    <3>2. CASE meant = <<>>
      <4>1. text = <<>>
        BY <3>2 DEF EntriesAre
      <4>2. K = {} /\ 1..0 = {}
        BY <3>2
      <4>3. Cardinality(K) = 0
        BY <4>2, FS_EmptySet
      <4>4. sorted = <<>>
        <5>1. DOMAIN w = K
          OBVIOUS
        <5> HIDE DEF K, w, v
        <5>2. sorted = [n \in {} |-> v[CHOOSE i \in K : Rank(w, i) = n - 1]]
          BY <4>2, <4>3, <5>1 DEF SortedBy
        <5> QED
          BY <5>2
      <4> HIDE DEF sorted
      <4>5. ParseQValues(text) = sorted
        BY <4>1, <4>4, NoEntryIs
      <4>6. K \in SUBSET (1..Len(meant)) /\ w \in [K -> Nat]
        BY <4>2
      <4> QED
        BY <4>5, <4>6
    <3> QED
      BY <3>1, <3>2
  <2>3. FlattenSeq(Blocks(w, v, hs)) = sorted
    <3> HIDE DEF K, w, v
    <3> QED
      BY <2>1, <2>2, SortIs
  <2>4. Heaviest = hs
    <3>1. {meant[k].q : k \in DOMAIN meant} \ {-2} = W
      BY DEF Weights
    <3> HIDE DEF W
    <3> QED
      BY <3>1 DEF Heaviest
  <2>5. \A n \in DOMAIN hs : hs[n] \in W /\ hs[n] # -2
    <3>1. PICK b \in Nat : W \in SUBSET (0..b)
      <4> HIDE DEF K, w
      <4>1. DOMAIN w = K
        BY <2>2
      <4> QED
        BY <2>1, <2>2, <4>1, WeightsBounded DEF Weights
    <3>2. hs \in Seq(W)
      <4> HIDE DEF W
      <4> QED
        BY <3>1, FallingIs
    <3>3. \A h \in W : h # -2
      BY <3>1
    <3> HIDE DEF W, hs
    <3> QED
      BY <3>2, <3>3
  <2>6. ASSUME NEW h, h # -2
        PROVE  Weighing(h) = [n \in DOMAIN Block(w, h) |-> v[Block(w, h)[n]]]
    <3> DEFINE B == {k \in K : w[k] = h}
               o == Block(w, h)
    <3>0. DOMAIN w = K
      OBVIOUS
    <3>1. o = Ordered(B) /\ {k \in DOMAIN meant : meant[k].q = h} = B
      <4>2. o = Ordered(B)
        <5> HIDE DEF K, w
        <5> QED
          BY <3>0, Zenon DEF Block, At
      <4>3. {k \in DOMAIN meant : meant[k].q = h} = B
        BY <2>6
      <4> QED
        BY <4>2, <4>3
    <3>2. o \in Seq(B)
      <4> HIDE DEF K, w
      <4>1. o \in Seq(At(w, h))
        BY <2>1, <2>2, BlockIs
      <4>2. At(w, h) = B
        BY <3>0, Zenon DEF At
      <4> QED
        BY <4>1, <4>2, Zenon
    <3>3. \A k \in B : v[k] = meant[k].val
      OBVIOUS
    <3>4. Weighing(h) = [n \in DOMAIN o |-> meant[o[n]].val]
      <4> HIDE DEF B, o
      <4> QED
        BY <3>1, Zenon DEF Weighing
    <3> HIDE DEF B, o, v
    <3>5. \A n \in DOMAIN o : v[o[n]] = meant[o[n]].val
      BY <3>2, <3>3
    <3> QED
      BY <3>4, <3>5 DEF o
  <2> HIDE DEF K, w, v, W, hs, sorted
  <2>7. [n \in DOMAIN hs |-> Weighing(hs[n])] = Blocks(w, v, hs)
    BY <2>5, <2>6, Zenon DEF Blocks
  <2> QED
    BY <2>2, <2>3, <2>4, <2>7, Zenon
<1> QED
  BY <1>1, AcceptKeptHolds, PTL
=============================================================================
