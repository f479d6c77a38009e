-------------------------- MODULE RequestURI_proofs --------------------------
(***************************************************************************)
(* What parseURI makes of a target that begins with a slash, for every     *)
(* text of bytes: escaping its bytes beyond ASCII and collapsing its first *)
(* slashes change neither where its path ends nor what it means.           *)
(***************************************************************************)
EXTENDS RequestURI, Characters_proofs

-----------------------------------------------------------------------------
(* Bytes beyond ASCII.                                                     *)

\* An escape at the head of a text, and any other byte there.
LEMMA UnescapeHead ==
    ASSUME NEW x \in Seq(Nat)
    PROVE  /\ \A h, k \in HexDigits :
                 Unescape(<<Percent, h, k>> \o x)
                    = <<16 * HexVal(h) + HexVal(k)>> \o Unescape(x)
           /\ \A c \in Nat : ~EscapeAt(<<c>> \o x, 1) =>
                 Unescape(<<c>> \o x) = <<c>> \o Unescape(x)
<1>1. ASSUME NEW h \in HexDigits, NEW k \in HexDigits
      PROVE  Unescape(<<Percent, h, k>> \o x)
                = <<16 * HexVal(h) + HexVal(k)>> \o Unescape(x)
  <2> DEFINE a == <<Percent, h, k>>
             z == <<>>
             v == <<16 * HexVal(h) + HexVal(k)>>
  <2>1. h \in Nat \ {Percent} /\ k \in Nat \ {Percent} /\ Percent \in Nat
    BY DEF HexDigits, Digits, Percent
  <2>2. a \in Seq(Nat) /\ Len(a) = 3 /\ a[1] = Percent /\ a[2] = h /\ a[3] = k
    BY <2>1
  <2>3. HexVal(h) \in Nat /\ HexVal(k) \in Nat
    BY DEF HexDigits, HexVal, Digits
  <2>4. v \in Seq(Nat)
    <3> DEFINE n == 16 * HexVal(h) + HexVal(k)
    <3>1. n \in Nat
      BY <2>3
    <3> HIDE DEF n
    <3>2. <<n>> \in Seq(Nat)
      BY <3>1
    <3> QED
      BY <3>2 DEF n
  <2>5. Unescape(a) = v
    <3>1. z \in Seq(Nat) /\ [i \in DOMAIN z |-> Image(z, i)] = z /\ 1..Len(z) = {}
      OBVIOUS
    <3>2. z \o a = a /\ z \o v = v
      <4> HIDE DEF v, a
      <4> QED
        BY <2>2, <2>4
    <3> HIDE DEF z
    <3>3. Unescape(z) = z
      BY <3>1, UnescapeIs, FlattenFew DEF z
    <3>4. Complete(z)
      BY <3>1 DEF Complete
    <3>5. Unescape(z \o <<Percent, h, k>>) = Unescape(z) \o <<16 * HexVal(h) + HexVal(k)>>
      BY <3>1, <3>4, UnescapeEscaped
    <3> QED
      BY <3>2, <3>3, <3>5
  <2> HIDE DEF a, v
  <2>6. ASSUME NEW i \in 1..Len(a), EscapeAt(a \o x, i) PROVE i + 2 <= Len(a)
    <3>1. (a \o x)[i] = a[i]
      BY <2>2, TwoParts
    <3>2. a[i] = Percent
      BY <2>6, <3>1 DEF EscapeAt
    <3>3. i = 1
      BY <2>1, <2>2, <3>2
    <3> QED
      BY <2>2, <3>3
  <2>7. Unescape(a \o x) = Unescape(a) \o Unescape(x)
    BY <2>2, <2>6, UnescapeConcat
  <2> QED
    BY <2>5, <2>7 DEF a, v
<1>2. ASSUME NEW c \in Nat, ~EscapeAt(<<c>> \o x, 1)
      PROVE  Unescape(<<c>> \o x) = <<c>> \o Unescape(x)
  <2> DEFINE a == <<c>>
  <2>1. a \in Seq(Nat) /\ Len(a) = 1 /\ DOMAIN a = {1} /\ a[1] = c
    OBVIOUS
  <2>2. Unescape(a) = a
    <3>1. Image(a, 1) = a
      <4> HIDE DEF a
      <4>1. ~EscapeAt(a, 1) /\ ~EscapeAt(a, 1 - 1) /\ ~EscapeAt(a, 1 - 2)
        BY <2>1 DEF EscapeAt
      <4>2. Image(a, 1) = <<a[1]>>
        BY <4>1, Zenon DEF Image
      <4> QED
        BY <2>1, <4>2 DEF a
    <3>2. [i \in DOMAIN a |-> Image(a, i)] = <<a>>
      BY <2>1, <3>1
    <3> HIDE DEF a
    <3> QED
      BY <2>1, <3>2, UnescapeIs, FlattenFew
  <2> HIDE DEF a
  <2>3. ASSUME NEW i \in 1..Len(a), EscapeAt(a \o x, i) PROVE i + 2 <= Len(a)
    <3>1. i = 1
      BY <2>1
    <3> QED
      BY <1>2, <2>3, <3>1 DEF a
  <2>4. Unescape(a \o x) = Unescape(a) \o Unescape(x)
    BY <2>1, <2>3, UnescapeConcat
  <2> QED
    BY <2>2, <2>4 DEF a
<1> QED
  BY <1>1, <1>2

\* A text by its first byte.
LEMMA HeadEscaped ==
    ASSUME NEW b \in Seq(Octets), b # <<>>
    PROVE  /\ b[1] \in Octets /\ Tail(b) \in Seq(Octets) /\ Len(Tail(b)) = Len(b) - 1
           /\ \A i \in 1..(Len(b) - 1) : Tail(b)[i] = b[i + 1]
           /\ b = <<b[1]>> \o Tail(b)
           /\ Escape8bit(b) \in Seq(Octets) /\ Escape8bit(Tail(b)) \in Seq(Octets)
           /\ Escape8bit(b) = Escaped(b[1], NonAsc) \o Escape8bit(Tail(b))
<1> DEFINE c == b[1]
           r == Tail(b)
           a == <<c>>
<1>1. /\ c \in Octets /\ r \in Seq(Octets) /\ Len(r) = Len(b) - 1 /\ a \in Seq(Octets)
      /\ \A i \in 1..(Len(b) - 1) : r[i] = b[i + 1]
      /\ b = a \o r
  <2> HIDE DEF c, r
  <2>1. c \in Octets /\ r \in Seq(Octets) /\ Len(r) = Len(b) - 1
    BY DEF c, r
  <2>2. \A i \in 1..(Len(b) - 1) : r[i] = b[i + 1]
    BY DEF r
  <2>3. /\ a \o r \in Seq(Octets) /\ Len(a \o r) = Len(b) /\ Len(b) \in Nat
        /\ (a \o r)[1] = c /\ \A i \in 1..(Len(b) - 1) : (a \o r)[1 + i] = r[i]
    BY <2>1
  <2>4. \A i \in 1..Len(b) : (a \o r)[i] = b[i]
    <3> TAKE i \in 1..Len(b)
    <3>1. CASE i = 1
      BY <2>3, <3>1 DEF c
    <3>2. CASE i # 1
      <4>1. i - 1 \in 1..(Len(b) - 1) /\ 1 + (i - 1) = i /\ (i - 1) + 1 = i
        BY <2>3, <3>2
      <4> QED
        BY <2>2, <2>3, <4>1
    <3> QED
      BY <3>1, <3>2
  <2> HIDE DEF a
  <2>5. b = a \o r
    BY <2>3, <2>4, SeqEqual
  <2> QED
    BY <2>1, <2>2, <2>5 DEF a
<1> HIDE DEF c, r
<1>2. Escape8bit(a \o r) = Escape8bit(a) \o Escape8bit(r) /\ Escape8bit(a) = Escaped(c, NonAsc)
  BY <1>1, EscapeByConcat DEF Escape8bit
<1>3. Escape8bit(b) \in Seq(Octets) /\ Escape8bit(r) \in Seq(Octets)
  BY <1>1, EscapeByConcat DEF Escape8bit
<1> QED
  BY <1>1, <1>2, <1>3 DEF c, r

\* A digit at the head of what is written stood there before.
LEMMA DigitStays ==
    ASSUME NEW b \in Seq(Octets), Escape8bit(b) # <<>>, Escape8bit(b)[1] \in HexDigits
    PROVE  /\ b # <<>> /\ b[1] = Escape8bit(b)[1]
           /\ Escape8bit(b) = <<b[1]>> \o Escape8bit(Tail(b))
<1>1. b # <<>>
  <2>1. Escape8bit(<<>>) = <<>>
    BY EscapeByConcat DEF Escape8bit
  <2> QED
    BY <2>1
<1> DEFINE c == b[1]
           e == Escaped(c, NonAsc)
           r == Escape8bit(Tail(b))
<1>2. c \in Octets /\ r \in Seq(Octets) /\ Escape8bit(b) = e \o r
  BY <1>1, HeadEscaped
<1>3. /\ e \in Seq(Octets) /\ Len(e) >= 1
      /\ c \notin NonAsc => e = <<c>>
      /\ c \in NonAsc => \E h, k \in HexDigits : e = <<Percent, h, k>>
  <2>1. e \in Seq(Octets) /\ Len(e) >= 1
    BY <1>2, EscapedIs, Zenon
  <2>2. c \notin NonAsc => e = <<c>>
    BY <1>2, EscapedIs, Zenon
  <2>3. ASSUME c \in NonAsc PROVE \E h, k \in HexDigits : e = <<Percent, h, k>>
    <3> HIDE DEF c
    <3>1. \E h, k \in HexDigits : /\ Escaped(c, NonAsc) = <<Percent, h, k>>
                                  /\ 16 * HexVal(h) + HexVal(k) = c
      BY <1>2, <2>3, EscapedIs
    <3> QED
      BY <3>1
  <2> QED
    BY <2>1, <2>2, <2>3
<1>4. Escape8bit(b)[1] = e[1]
  <2> HIDE DEF e, r
  <2>1. 1 \in 1..Len(e) /\ e \in Seq(Nat) /\ r \in Seq(Nat)
    BY <1>2, <1>3, OctetsAre
  <2>2. (e \o r)[1] = e[1]
    BY <2>1, TwoParts
  <2> QED
    BY <1>2, <2>2
<1>5. c \notin NonAsc
  <2> SUFFICES ASSUME c \in NonAsc PROVE FALSE
    OBVIOUS
  <2>1. PICK h \in HexDigits, k \in HexDigits : e = <<Percent, h, k>>
    BY <1>3
  <2>2. e[1] = Percent
    BY <2>1
  <2>3. Percent \notin HexDigits
    BY DEF Percent, HexDigits, Digits
  <2> QED
    BY <1>4, <2>2, <2>3
<1> HIDE DEF e, r, c
<1>6. e = <<c>> /\ e[1] = c
  <2>1. <<c>>[1] = c
    OBVIOUS
  <2> QED
    BY <1>3, <1>5, <2>1
<1> QED
  BY <1>1, <1>2, <1>4, <1>6 DEF c, r

\* A text that holds none of the bytes is written as it is.
LEMMA EscapeNone ==
    ASSUME NEW set, NEW s \in Seq(Octets), \A i \in 1..Len(s) : s[i] \notin set
    PROVE  EscapeBy(s, set) = s
<1> DEFINE P == {r \in Seq(Octets) :
                    (\A i \in 1..Len(r) : r[i] \notin set) => EscapeBy(r, set) = r}
<1>1. <<>> \in P
  BY EscapeByConcat
<1>2. ASSUME NEW r \in Seq(Octets), NEW c \in Octets, r \in P PROVE Append(r, c) \in P
  <2> DEFINE q == Append(r, c)
  <2>1. q \in Seq(Octets) /\ q = r \o <<c>> /\ <<c>> \in Seq(Octets)
    OBVIOUS
  <2>2. ASSUME \A i \in 1..Len(q) : q[i] \notin set PROVE EscapeBy(q, set) = q
    <3>1. Len(q) = Len(r) + 1 /\ q[Len(r) + 1] = c /\ \A i \in 1..Len(r) : q[i] = r[i]
      OBVIOUS
    <3>2. \A i \in 1..Len(r) : i \in 1..(Len(r) + 1)
      OBVIOUS
    <3>3. Len(r) + 1 \in 1..(Len(r) + 1)
      OBVIOUS
    <3> HIDE DEF q
    <3>4. c \notin set /\ \A i \in 1..Len(r) : r[i] \notin set
      BY <2>2, <3>1, <3>2, <3>3
    <3>5. EscapeBy(r, set) = r
      BY <1>2, <3>4
    <3>6. EscapeBy(<<c>>, set) = <<c>>
      <4>1. Escaped(c, set) = <<c>>
        BY <3>4, EscapedIs
      <4> QED
        BY <4>1, EscapeByConcat
    <3>7. EscapeBy(r \o <<c>>, set) = EscapeBy(r, set) \o EscapeBy(<<c>>, set)
      BY <2>1, EscapeByConcat
    <3> QED
      BY <2>1, <3>5, <3>6, <3>7
  <2> HIDE DEF q
  <2> QED
    BY <2>1, <2>2 DEF q
<1> HIDE DEF P
<1>3. Seq(Octets) \subseteq P
  BY <1>1, <1>2, SeqInduction
<1> QED
  BY <1>3 DEF P

\* The bytes beyond ASCII are read as they were, and no escape comes of them or
\* is lost in them.
LEMMA Unescape8bit ==
    ASSUME NEW p \in Seq(Octets)
    PROVE  Unescape(Escape8bit(p)) = Unescape(p)
<1> DEFINE S == {n \in Nat : \A q \in Seq(Octets) :
                                Len(q) <= n => Unescape(Escape8bit(q)) = Unescape(q)}
<1>0. Escape8bit(<<>>) = <<>>
  BY EscapeByConcat DEF Escape8bit
<1>1. 0 \in S
  <2>1. \A q \in Seq(Octets) : Len(q) <= 0 => q = <<>>
    OBVIOUS
  <2> QED
    BY <1>0, <2>1
<1>2. ASSUME NEW n \in Nat, n \in S PROVE n + 1 \in S
  <2> SUFFICES ASSUME NEW q \in Seq(Octets), Len(q) <= n + 1
               PROVE  Unescape(Escape8bit(q)) = Unescape(q)
    OBVIOUS
  <2>1. CASE q = <<>>
    BY <1>0, <2>1
  <2>2. CASE q # <<>>
    <3> DEFINE c == q[1]
               r == Tail(q)
               x == Escape8bit(r)
    <3>1. /\ c \in Octets /\ r \in Seq(Octets) /\ Len(r) = Len(q) - 1
          /\ \A i \in 1..(Len(q) - 1) : r[i] = q[i + 1]
          /\ q = <<c>> \o r
          /\ x \in Seq(Octets)
          /\ Escape8bit(q) = Escaped(c, NonAsc) \o x
      BY <2>2, HeadEscaped
    <3>2. c \in Nat /\ r \in Seq(Nat) /\ x \in Seq(Nat) /\ q \in Seq(Nat)
      BY <3>1, OctetsAre
    <3>3. Len(q) \in Nat
      OBVIOUS
    <3> HIDE DEF c, r, x
    <3>4. Unescape(x) = Unescape(r)
      <4>1. Len(r) <= n
        BY <3>1, <3>3
      <4> QED
        BY <1>2, <3>1, <4>1 DEF x
    <3>5. CASE ~EscapeAt(q, 1)
      <4>1. Unescape(q) = <<c>> \o Unescape(r)
        BY <3>1, <3>2, <3>5, UnescapeHead
      <4>2. CASE c \in NonAsc
        <5>1. PICK h \in HexDigits, k \in HexDigits :
                 Escaped(c, NonAsc) = <<Percent, h, k>> /\ 16 * HexVal(h) + HexVal(k) = c
          BY <3>1, <4>2, EscapedIs
        <5>2. Unescape(<<Percent, h, k>> \o x)
                 = <<16 * HexVal(h) + HexVal(k)>> \o Unescape(x)
          BY <3>2, UnescapeHead
        <5> QED
          BY <3>1, <3>4, <4>1, <5>1, <5>2
      <4>3. CASE c \notin NonAsc
        <5>1. Escape8bit(q) = <<c>> \o x
          BY <3>1, <4>3, EscapedIs
        <5>2. ~EscapeAt(<<c>> \o x, 1)
          <6> DEFINE y == <<c>> \o x
          <6>1. /\ y \in Seq(Nat) /\ Len(y) = 1 + Len(x) /\ y[1] = c /\ Len(x) \in Nat
                /\ \A i \in 1..Len(x) : y[1 + i] = x[i]
            BY <3>2
          <6> HIDE DEF y
          <6> SUFFICES ASSUME EscapeAt(y, 1) PROVE FALSE
            BY DEF y
          <6>2. /\ Len(x) >= 2 /\ c = Percent
                /\ x[1] \in HexDigits /\ x[2] \in HexDigits
            <7>1. 1 \in 1..(Len(y) - 2) /\ y[1] = Percent /\ y[1 + 1] \in HexDigits
                  /\ y[1 + 2] \in HexDigits
              BY DEF EscapeAt
            <7>2. Len(x) >= 2
              BY <6>1, <7>1
            <7>3. 1 \in 1..Len(x) /\ 2 \in 1..Len(x)
              BY <6>1, <7>2
            <7> QED
              BY <6>1, <7>1, <7>2, <7>3
          <6>3. r # <<>> /\ r[1] = x[1] /\ x = <<r[1]>> \o Escape8bit(Tail(r))
            <7>1. x # <<>>
              BY <3>2, <6>2
            <7> QED
              BY <3>1, <6>2, <7>1, DigitStays DEF x
          <6> DEFINE s == Tail(r)
                     z == Escape8bit(s)
          <6>4. /\ s \in Seq(Octets) /\ Len(s) = Len(r) - 1 /\ r[1] \in Octets
                /\ \A i \in 1..(Len(r) - 1) : s[i] = r[i + 1]
                /\ z \in Seq(Octets)
            BY <3>1, <6>3, HeadEscaped
          <6>5. x = <<r[1]>> \o z
            BY <6>3
          <6> HIDE DEF s, z
          <6>6. z # <<>> /\ z[1] = x[2]
            <7>1. /\ Len(x) = 1 + Len(z) /\ Len(z) \in Nat
                  /\ \A i \in 1..Len(z) : x[1 + i] = z[i]
              BY <6>4, <6>5
            <7>2. Len(z) # 0 /\ 1 \in 1..Len(z) /\ 1 + 1 = 2
              BY <6>2, <7>1
            <7> QED
              BY <6>4, <7>1, <7>2
          <6>7. s # <<>> /\ s[1] = z[1]
            BY <6>2, <6>4, <6>6, DigitStays DEF z
          <6>8. Len(s) # 0 /\ Len(s) \in Nat
            BY <6>4, <6>7
          <6>9. Len(q) >= 3 /\ q[2] = r[1] /\ q[3] = s[1]
            <7>1. Len(r) >= 2 /\ Len(r) \in Nat
              BY <3>1, <6>4, <6>8
            <7>2. 1 \in 1..(Len(q) - 1) /\ 2 \in 1..(Len(q) - 1) /\ 1 \in 1..(Len(r) - 1)
              BY <3>1, <3>3, <7>1
            <7>3. q[1 + 1] = r[1] /\ q[2 + 1] = r[2] /\ s[1] = r[1 + 1]
              BY <3>1, <6>4, <7>2
            <7> QED
              BY <3>1, <3>3, <7>1, <7>3
          <6>10. EscapeAt(q, 1)
            <7>1. 1 \in 1..(Len(q) - 2)
              BY <3>3, <6>9
            <7>2. q[1] = Percent /\ q[1 + 1] \in HexDigits /\ q[1 + 2] \in HexDigits
              BY <6>2, <6>3, <6>6, <6>7, <6>9 DEF c
            <7> QED
              BY <7>1, <7>2 DEF EscapeAt
          <6> QED
            BY <3>5, <6>10
        <5>3. Unescape(<<c>> \o x) = <<c>> \o Unescape(x)
          BY <3>2, <5>2, UnescapeHead
        <5> QED
          BY <3>4, <4>1, <5>1, <5>3
      <4> QED
        BY <4>2, <4>3
    <3>6. CASE EscapeAt(q, 1)
      <4> DEFINE h == q[2]
                 k == q[3]
                 a == <<Percent, h, k>>
                 l == Len(q)
                 b == SubSeq(q, 4, l)
      <4>1. l >= 3 /\ l \in Nat /\ q[1] = Percent /\ h \in HexDigits /\ k \in HexDigits
        <5>1. 1 \in 1..(Len(q) - 2) /\ q[1] = Percent /\ q[1 + 1] \in HexDigits
              /\ q[1 + 2] \in HexDigits
          BY <3>6 DEF EscapeAt
        <5> QED
          BY <3>3, <5>1
      <4>2. HexDigits \subseteq Octets \ NonAsc /\ Percent \in Octets \ NonAsc
        BY DEF HexDigits, Digits, Octets, NonAsc, Percent
      <4>3. /\ a \in Seq(Octets) /\ Len(a) = 3 /\ a[1] = Percent /\ a[2] = h /\ a[3] = k
            /\ \A i \in 1..3 : a[i] \notin NonAsc
        <5> HIDE DEF h, k, b
        <5>1. h \in Octets /\ k \in Octets /\ Percent \in Octets
          BY <4>1, <4>2
        <5>2. a \in Seq(Octets) /\ Len(a) = 3 /\ a[1] = Percent /\ a[2] = h /\ a[3] = k
          BY <5>1
        <5>3. \A i \in 1..3 : a[i] \in {Percent, h, k}
          BY <5>2
        <5> QED
          BY <4>1, <4>2, <5>2, <5>3
      <4>4. /\ b \in Seq(Octets) /\ Len(b) = l - 3
            /\ \A i \in 1..(l - 3) : b[i] = q[i + 3]
        <5> HIDE DEF l
        <5>1. q \in Seq(Octets) /\ l = Len(q) /\ 4 \in Nat
          BY DEF l
        <5> QED
          BY <4>1, <5>1
      <4>5. q = a \o b
        <5> HIDE DEF a, b
        <5>1. /\ a \o b \in Seq(Octets) /\ Len(a \o b) = 3 + (l - 3)
              /\ \A i \in 1..(3 + (l - 3)) : (a \o b)[i] = IF i <= 3 THEN a[i] ELSE b[i - 3]
          <6>1. a \in Seq(Octets) /\ b \in Seq(Octets) /\ Len(a) = 3 /\ Len(b) = l - 3
            BY <4>3, <4>4
          <6> HIDE DEF l
          <6>2. /\ a \o b \in Seq(Octets) /\ Len(a \o b) = Len(a) + Len(b)
                /\ \A i \in 1..(Len(a) + Len(b)) :
                      (a \o b)[i] = IF i <= Len(a) THEN a[i] ELSE b[i - Len(a)]
            BY <6>1, ConcatProperties
          <6> QED
            BY <6>1, <6>2
        <5>2. \A i \in 1..l : q[i] = (a \o b)[i]
          <6> TAKE i \in 1..l
          <6>1. CASE i <= 3
            <7>1. i \in {1, 2, 3}
              BY <4>1, <6>1
            <7> QED
              BY <4>1, <4>3, <5>1, <6>1, <7>1
          <6>2. CASE ~(i <= 3)
            <7>1. i - 3 \in 1..(l - 3) /\ (i - 3) + 3 = i /\ i \in 1..(3 + (l - 3))
              BY <4>1, <6>2
            <7> QED
              BY <4>4, <5>1, <6>2, <7>1
          <6> QED
            BY <6>1, <6>2
        <5>3. Len(a \o b) = l
          BY <4>1, <5>1
        <5> QED
          BY <5>1, <5>2, <5>3, SeqEqual
      <4> HIDE DEF h, k, b, l
      <4>6. Escape8bit(a) = a
        BY <4>3, EscapeNone DEF Escape8bit
      <4>7. Escape8bit(q) = a \o Escape8bit(b)
        <5>1. a \in Seq(Octets) /\ b \in Seq(Octets)
          BY <4>3, <4>4
        <5>2. Escape8bit(a \o b) = Escape8bit(a) \o Escape8bit(b)
          BY <5>1, EscapeByConcat, Zenon DEF Escape8bit
        <5> QED
          BY <4>5, <4>6, <5>2, Zenon
      <4>8. Unescape(Escape8bit(b)) = Unescape(b)
        <5>1. Len(b) <= n
          BY <4>1, <4>4 DEF l
        <5> QED
          BY <1>2, <4>4, <5>1
      <4>9. b \in Seq(Nat) /\ Escape8bit(b) \in Seq(Nat)
        BY <4>4, EscapeByConcat, OctetsAre DEF Escape8bit
      <4>10. /\ Unescape(a \o b) = <<16 * HexVal(h) + HexVal(k)>> \o Unescape(b)
             /\ Unescape(a \o Escape8bit(b))
                   = <<16 * HexVal(h) + HexVal(k)>> \o Unescape(Escape8bit(b))
        BY <4>1, <4>9, UnescapeHead
      <4> QED
        BY <4>5, <4>7, <4>8, <4>10
    <3> QED
      BY <3>5, <3>6
  <2> QED
    BY <2>1, <2>2
<1> HIDE DEF S
<1>3. Nat \subseteq S
  BY <1>1, <1>2, Induction
<1>4. Len(p) \in S
  BY <1>3
<1> QED
  BY <1>4 DEF S

-----------------------------------------------------------------------------
(* The path and the query of a target.                                     *)

Unasked == Octets \ {Question}

\* A target is its path, or its path, a query sign and its query.
LEMMA TargetParts ==
    ASSUME NEW t \in Seq(Octets)
    PROVE  /\ PathOf(t) \in Seq(Unasked) /\ QueryOf(t) \in Seq(Octets)
           /\ \/ t = PathOf(t) /\ QueryOf(t) = <<>>
              \/ t = (PathOf(t) \o <<Question>>) \o QueryOf(t)
<1> DEFINE l == Len(t)
           n == Next(t, 1, {Question})
           a == PathOf(t)
           b == QueryOf(t)
<1>1. t \in Seq(Nat) /\ l \in Nat /\ \A i \in 1..l : t[i] \in Octets
  BY OctetsAre, SeqFacts
<1>2. /\ n \in 1..(l + 1)
      /\ n <= l => t[n] = Question
      /\ \A j \in 1..(n - 1) : t[j] # Question
  <2>1. 1 \in Nat \ {0} /\ 1 <= Len(t) + 1
    BY <1>1
  <2>2. /\ n \in 1..(Len(t) + 1)
        /\ n <= Len(t) => t[n] \in {Question}
        /\ \A j \in 1..(n - 1) : t[j] \notin {Question}
    BY <1>1, <2>1, NextPlace
  <2> QED
    BY <2>2
<1>3. a = SubSeq(t, 1, n - 1) /\ b = SubSeq(t, n + 1, l)
  BY DEF PathOf, QueryOf, Before, From
<1> HIDE DEF n, a, b
<1>4. a = [k \in 1..(n - 1) |-> t[k]] /\ a \in Seq(Unasked) /\ Len(a) = n - 1
  <2>1. a = [k \in 1..(n - 1) |-> t[k]]
    <3>1. 1 \in 1..(Len(t) + 1) /\ n - 1 \in 0..Len(t)
      BY <1>1, <1>2
    <3>2. SubSeq(t, 1, n - 1) = [k \in 1..(((n - 1) - 1) + 1) |-> t[(1 + k) - 1]]
      BY <1>1, <3>1, PartIs
    <3>3. ((n - 1) - 1) + 1 = n - 1 /\ \A k \in 1..(n - 1) : (1 + k) - 1 = k
      BY <1>2
    <3> QED
      BY <1>3, <3>2, <3>3
  <2>2. \A k \in 1..(n - 1) : t[k] \in Unasked
    BY <1>1, <1>2 DEF Unasked
  <2>3. n - 1 \in Nat
    BY <1>1, <1>2
  <2> QED
    BY <2>1, <2>2, <2>3
<1>5. CASE n = l + 1
  <2>1. b = <<>>
    BY <1>1, <1>3, <1>5
  <2>2. t = [k \in 1..l |-> t[k]]
    BY DEF l
  <2>3. t = a
    <3>1. n - 1 = l
      BY <1>1, <1>5
    <3> QED
      BY <1>4, <2>2, <3>1
  <2> QED
    BY <1>4, <2>1, <2>3 DEF a, b
<1>6. CASE n # l + 1
  <2>1. n \in 1..l /\ t[n] = Question
    BY <1>1, <1>2, <1>6
  <2>2. /\ b \in Seq(Octets) /\ Len(b) = l - n
        /\ \A k \in 1..(l - n) : b[k] = t[n + k]
    <3>1. n + 1 \in 1..(Len(t) + 1) /\ l \in 0..Len(t)
      BY <1>1, <2>1
    <3>2. SubSeq(t, n + 1, l) = [k \in 1..((l - (n + 1)) + 1) |-> t[((n + 1) + k) - 1]]
      BY <1>1, <3>1, PartIs
    <3>3. (l - (n + 1)) + 1 = l - n /\ \A k \in 1..(l - n) : ((n + 1) + k) - 1 = n + k
      BY <1>1, <2>1
    <3>4. b = [k \in 1..(l - n) |-> t[n + k]]
      BY <1>3, <3>2, <3>3
    <3>5. \A k \in 1..(l - n) : t[n + k] \in Octets
      BY <1>1, <2>1
    <3>6. l - n \in Nat
      BY <1>1, <2>1
    <3> QED
      BY <3>4, <3>5, <3>6
  <2> DEFINE d == a \o <<Question>>
             u == d \o b
  <2>3. /\ d \in Seq(Octets) /\ Len(d) = n /\ d[n] = Question
        /\ \A i \in 1..(n - 1) : d[i] = a[i]
    <3>1. a \in Seq(Octets) /\ <<Question>> \in Seq(Octets)
      <4>1. Unasked \subseteq Octets
        BY DEF Unasked
      <4>2. Question \in Octets
        BY DEF Question, Octets
      <4> QED
        BY <1>4, <4>1, <4>2, SeqWidens
    <3>2. (n - 1) + 1 = n
      BY <1>1, <1>2
    <3>3. n - 1 \in Nat
      BY <1>1, <1>2
    <3> QED
      BY <1>4, <3>1, <3>2, <3>3
  <2> HIDE DEF d
  <2>4. /\ u \in Seq(Octets) /\ Len(u) = n + (l - n)
        /\ \A i \in 1..(n + (l - n)) : u[i] = IF i <= n THEN d[i] ELSE b[i - n]
    <3>1. /\ u \in Seq(Octets) /\ Len(u) = Len(d) + Len(b)
          /\ \A i \in 1..(Len(d) + Len(b)) : u[i] = IF i <= Len(d) THEN d[i] ELSE b[i - Len(d)]
      BY <2>2, <2>3, ConcatProperties
    <3> HIDE DEF u, l
    <3> QED
      BY <2>2, <2>3, <3>1
  <2> HIDE DEF u, l
  <2>5. n + (l - n) = l
    BY <1>1, <2>1
  <2>6. \A i \in 1..l : t[i] = u[i]
    <3> TAKE i \in 1..l
    <3>1. CASE i <= n - 1
      <4>1. i \in 1..(n - 1) /\ i <= n
        BY <2>1, <3>1
      <4> QED
        BY <1>4, <2>3, <2>4, <2>5, <4>1
    <3>2. CASE i = n
      BY <2>1, <2>3, <2>4, <2>5, <3>2
    <3>3. CASE i > n
      <4>1. i - n \in 1..(l - n) /\ n + (i - n) = i /\ ~(i <= n)
        BY <1>1, <2>1, <3>3
      <4> QED
        BY <2>2, <2>4, <2>5, <4>1
    <3> QED
      BY <2>1, <3>1, <3>2, <3>3
  <2>7. t = u
    <3>1. Len(t) = l
      BY DEF l
    <3> QED
      BY <2>4, <2>5, <2>6, <3>1, SeqEqual
  <2> QED
    BY <1>4, <2>2, <2>7 DEF u, d, a, b
<1> QED
  BY <1>5, <1>6

\* A text without a query sign is all path; what follows the first query sign
\* is the query.
LEMMA PartsTarget ==
    ASSUME NEW a \in Seq(Unasked), NEW b \in Seq(Octets)
    PROVE  /\ PathOf(a) = a /\ QueryOf(a) = <<>>
           /\ PathOf((a \o <<Question>>) \o b) = a
           /\ QueryOf((a \o <<Question>>) \o b) = b
<1>1. a \in Seq(Nat) /\ b \in Seq(Nat) /\ Question \in Nat
  <2>1. Unasked \subseteq Nat
    BY OctetsAre DEF Unasked
  <2> QED
    BY <2>1, OctetsAre, SeqWidens DEF Question
<1>2. \A i \in 1..Len(a) : a[i] # Question
  <2>1. \A i \in 1..Len(a) : a[i] \in Unasked
    BY SeqFacts
  <2> QED
    BY <2>1 DEF Unasked
<1> DEFINE p == (a \o <<Question>>) \o b
<1>3. IsCut(p, a, Question, b)
  <2>1. p = (a \o <<Question>>) \o b
    OBVIOUS
  <2> HIDE DEF p
  <2> QED
    BY <1>1, <1>2, <2>1, CutAtSign
<1>4. Before(a, Next(a, 1, {Question})) = a /\ From(a, Next(a, 1, {Question}) + 1) = <<>>
  BY <1>1, <1>2, NoSign
<1> HIDE DEF p
<1> QED
  BY <1>3, <1>4 DEF PathOf, QueryOf, IsCut, p

\* Bytes beyond ASCII are escaped in the path and in the query by themselves.
LEMMA PartsEscaped ==
    ASSUME NEW t \in Seq(Octets)
    PROVE  /\ Escape8bit(t) \in Seq(Octets)
           /\ PathOf(Escape8bit(t)) = Escape8bit(PathOf(t))
           /\ QueryOf(Escape8bit(t)) = Escape8bit(QueryOf(t))
           /\ Absolute(t) => Absolute(Escape8bit(t))
<1> DEFINE a == PathOf(t)
           b == QueryOf(t)
           q == <<Question>>
<1>1. a \in Seq(Unasked) /\ b \in Seq(Octets) /\ ((t = a /\ b = <<>>) \/ t = (a \o q) \o b)
  BY TargetParts
<1> HIDE DEF a, b
<1>2. Unasked \subseteq Octets /\ Question \in Octets /\ Question \notin NonAsc
  BY DEF Unasked, Question, Octets, NonAsc
<1>3. a \in Seq(Octets) /\ q \in Seq(Octets) /\ a \o q \in Seq(Octets)
  <2>1. a \in Seq(Octets)
    BY <1>1, <1>2, SeqWidens
  <2> QED
    BY <1>2, <2>1
<1>4. /\ Escape8bit(q) = q /\ Escape8bit(<<>>) = <<>>
      /\ Escape8bit(b) \in Seq(Octets)
      /\ Escape8bit(a) \in Seq(Octets)
      /\ Escape8bit(t) \in Seq(Octets)
  <2>1. EscapeBy(<<Question>>, NonAsc) = <<Question>>
    <3>1. Escaped(Question, NonAsc) = <<Question>>
      BY <1>2, EscapedIs
    <3> QED
      BY <1>2, <3>1, EscapeByConcat
  <2> QED
    BY <1>1, <1>3, <2>1, EscapeByConcat DEF Escape8bit
<1>5. Escape8bit(a) \in Seq(Unasked)
  <2> DEFINE e == Escape8bit(a)
  <2>1. \A i \in 1..Len(e) : e[i] \in {Percent} \cup HexDigits \cup (Unasked \ NonAsc)
    BY <1>1, <1>2, EscapeByType DEF Escape8bit
  <2>2. {Percent} \cup HexDigits \subseteq Unasked
    BY DEF Percent, HexDigits, Digits, Unasked, Octets, Question
  <2>3. e \in Seq(Octets)
    BY <1>4
  <2> HIDE DEF e
  <2>4. e \in [1..Len(e) -> Unasked] /\ Len(e) \in Nat
    BY <2>1, <2>2, <2>3
  <2>5. e \in Seq(Unasked)
    BY <2>4
  <2> QED
    BY <2>5 DEF e
<1>6. Escape8bit((a \o q) \o b) = (Escape8bit(a) \o q) \o Escape8bit(b)
  <2>1. Escape8bit((a \o q) \o b) = Escape8bit(a \o q) \o Escape8bit(b)
    BY <1>1, <1>3, EscapeByConcat DEF Escape8bit
  <2>2. Escape8bit(a \o q) = Escape8bit(a) \o Escape8bit(q)
    BY <1>3, EscapeByConcat DEF Escape8bit
  <2> QED
    BY <1>4, <2>1, <2>2, Zenon
<1>7. PathOf(Escape8bit(t)) = Escape8bit(a) /\ QueryOf(Escape8bit(t)) = Escape8bit(b)
  <2>1. CASE t = a /\ b = <<>>
    BY <1>4, <1>5, <2>1, PartsTarget
  <2>2. CASE t = (a \o q) \o b
    <3>1. /\ PathOf((Escape8bit(a) \o q) \o Escape8bit(b)) = Escape8bit(a)
          /\ QueryOf((Escape8bit(a) \o q) \o Escape8bit(b)) = Escape8bit(b)
      BY <1>4, <1>5, PartsTarget
    <3> QED
      BY <1>6, <2>2, <3>1
  <2> QED
    BY <1>1, <2>1, <2>2
<1>8. ASSUME Absolute(t) PROVE Absolute(Escape8bit(t))
  <2>1. t # <<>> /\ t[1] = Slash
    BY <1>8 DEF Absolute
  <2> DEFINE e == Escaped(Slash, NonAsc)
             r == Escape8bit(Tail(t))
  <2>2. Escape8bit(t) = e \o r /\ r \in Seq(Octets)
    BY <2>1, HeadEscaped
  <2>3. Slash \in Octets /\ Slash \notin NonAsc
    BY DEF Slash, Octets, NonAsc
  <2>4. e = <<Slash>>
    BY <2>3, EscapedIs
  <2> HIDE DEF e, r
  <2>5. <<Slash>> \o r # <<>> /\ (<<Slash>> \o r)[1] = Slash
    BY <2>2
  <2> QED
    BY <2>2, <2>4, <2>5 DEF Absolute
<1> QED
  BY <1>4, <1>7, <1>8 DEF a, b

-----------------------------------------------------------------------------
(* The slashes a target begins with.                                       *)

\* A slash alone does not move a walk.
LEMMA SlashStays == <<Slash>> \in Segs /\ Walk(<<Slash>>) = Walk(<<>>)
<1> DEFINE x == <<Slash>>
<1>1. x \in Segs /\ Tail(x) = <<>>
  BY DEF Segs, Slash
<1>2. <<>> \o x = x
  <2>1. x \in Paths
    BY <1>1, PathsConcat
  <2> QED
    BY <2>1, PathsAlgebra
<1>3. Walk(<<>> \o x) = Stepped(Walk(<<>>), Tail(x))
  <2>1. <<>> \in Paths
    BY PathsConcat
  <2> HIDE DEF x
  <2> QED
    BY <1>1, <2>1, WalkAppend
<1>4. Stepped(Walk(<<>>), <<>>) = Walk(<<>>)
  BY Steps
<1> QED
  BY <1>1, <1>2, <1>3, <1>4

\* One slash more before an absolute target.
LEMMA OneSlash ==
    ASSUME NEW t \in Seq(Octets), Absolute(t)
    PROVE  /\ Decoded(PathOf(<<Slash>> \o t)) = Decoded(PathOf(t))
           /\ QueryOf(<<Slash>> \o t) = QueryOf(t)
           /\ PathOf(t) # <<>> /\ Unescape(PathOf(t)) \in Paths
           /\ Absolute(Unescape(PathOf(t)))
<1> DEFINE a == PathOf(t)
           b == QueryOf(t)
           q == <<Question>>
           s == <<Slash>>
           d == s \o a
<1>1. a \in Seq(Unasked) /\ b \in Seq(Octets) /\ ((t = a /\ b = <<>>) \/ t = (a \o q) \o b)
  BY TargetParts
<1>2. /\ Unasked \subseteq Octets /\ Question \in Octets /\ Slash \in Unasked
      /\ Slash \in Nat /\ Slash # Question /\ Slash # Percent
  BY DEF Unasked, Question, Octets, Slash, Percent
<1>3. t # <<>> /\ t[1] = Slash
  BY DEF Absolute
<1> HIDE DEF a, b
<1>4. a \in Seq(Octets) /\ a \in Seq(Nat)
  BY <1>1, <1>2, SeqWidens, OctetsAre
<1>5. a # <<>> /\ a[1] = Slash
  <2>1. CASE t = a
    BY <1>3, <2>1
  <2>2. CASE t = (a \o q) \o b
    <3>1. a # <<>>
      <4> SUFFICES ASSUME a = <<>> PROVE FALSE
        OBVIOUS
      <4>1. t = q \o b
        BY <2>2
      <4>2. (q \o b)[1] = Question
        BY <1>1
      <4> QED
        BY <1>2, <1>3, <4>1, <4>2
    <3>2. a \o q \in Seq(Octets) /\ Len(a) \in Nat /\ Len(a) # 0
      <4>1. q \in Seq(Octets)
        BY <1>2
      <4> QED
        BY <1>4, <3>1, <4>1
    <3>3. Len(a \o q) = Len(a) + 1 /\ (a \o q)[1] = a[1]
      BY <1>4, <3>2
    <3> DEFINE c == a \o q
    <3> HIDE DEF c
    <3>4. c \in Seq(Nat) /\ b \in Seq(Nat) /\ 1 \in 1..Len(c)
      <4>1. c \in Seq(Octets) /\ Len(c) = Len(a) + 1
        BY <3>2, <3>3 DEF c
      <4>2. c \in Seq(Nat) /\ b \in Seq(Nat)
        BY <1>1, <4>1, OctetsAre
      <4> QED
        BY <3>2, <4>1, <4>2
    <3>5. (c \o b)[1] = c[1]
      BY <3>4, TwoParts
    <3> QED
      BY <1>3, <2>2, <3>1, <3>3, <3>5 DEF c
  <2> QED
    BY <1>1, <2>1, <2>2
<1>6. d \in Seq(Unasked)
  <2>1. s \in Seq(Unasked)
    BY <1>2
  <2> HIDE DEF s
  <2> QED
    BY <1>1, <2>1
<1>7. PathOf(s \o t) = d /\ QueryOf(s \o t) = b
  <2>1. CASE t = a /\ b = <<>>
    <3> HIDE DEF d
    <3>1. PathOf(d) = d /\ QueryOf(d) = <<>>
      BY <1>1, <1>6, PartsTarget
    <3> QED
      BY <2>1, <3>1 DEF d
  <2>2. CASE t = (a \o q) \o b
    <3>1. s \o ((a \o q) \o b) = ((s \o a) \o q) \o b
      <4>1. s \in Seq(Octets) /\ q \in Seq(Octets)
        BY <1>2
      <4> HIDE DEF s, q
      <4>2. a \o q \in Seq(Octets)
        BY <1>4, <4>1
      <4> DEFINE c == a \o q
      <4>a. c \in Seq(Octets)
        BY <4>2
      <4> HIDE DEF c
      <4>b. b \in Seq(Octets) /\ s \in Seq(Octets)
        BY <1>1, <4>1
      <4>3. s \o (c \o b) = (s \o c) \o b
        BY <4>a, <4>b, ConcatAssociative
      <4>4. s \o (a \o q) = (s \o a) \o q
        BY <1>4, <4>1, ConcatAssociative
      <4> QED
        BY <4>3, <4>4, Zenon DEF c
    <3> HIDE DEF d
    <3>2. PathOf((d \o q) \o b) = d /\ QueryOf((d \o q) \o b) = b
      BY <1>1, <1>6, PartsTarget
    <3> QED
      BY <2>2, <3>1, <3>2 DEF d
  <2> QED
    BY <1>1, <2>1, <2>2
<1>8. \A x \in Seq(Nat) : Unescape(s \o x) = s \o Unescape(x)
  <2> TAKE x \in Seq(Nat)
  <2>1. ~EscapeAt(s \o x, 1)
    <3>1. (s \o x)[1] = Slash
      OBVIOUS
    <3> QED
      BY <1>2, <3>1 DEF EscapeAt
  <2> QED
    BY <1>2, <2>1, UnescapeHead
<1>9. \A x \in Seq(Nat) : Unescape(x) \in Seq(Nat)
  <2> TAKE x \in Seq(Nat)
  <2> DEFINE z == <<>>
  <2>1. z \in Seq(Nat) /\ x \o z = x
    OBVIOUS
  <2>2. \A i \in 1..Len(x) : EscapeAt(x \o z, i) => i + 2 <= Len(x)
    <3> HIDE DEF z
    <3>1. Len(x) \in Nat
      OBVIOUS
    <3> QED
      BY <2>1, <3>1 DEF EscapeAt
  <2> HIDE DEF z
  <2> QED
    BY <2>1, <2>2, UnescapeConcat
<1> DEFINE r == Tail(a)
           u == Unescape(a)
<1>10. a = s \o r /\ r \in Seq(Nat)
  BY <1>4, <1>5, HeadEscaped, OctetsAre
<1>11. u = s \o Unescape(r) /\ Unescape(r) \in Seq(Nat)
  BY <1>8, <1>9, <1>10
<1>12. u \in Paths /\ u # <<>> /\ Absolute(u)
  <2> DEFINE v == Unescape(r)
  <2>1. v \in Seq(Nat) /\ u = s \o v
    BY <1>11
  <2> HIDE DEF v, u
  <2>2. s \o v \in Seq(Nat) /\ (s \o v)[1] = Slash /\ s \o v # <<>>
    BY <1>2, <2>1
  <2> QED
    BY <2>1, <2>2 DEF Paths, Absolute
<1>13. Unescape(d) = s \o u
  BY <1>4, <1>8
<1>14. Meaning(s \o u) = Meaning(u)
  <2>1. s \in Paths /\ <<>> \in Paths /\ Walk(s) = Walk(<<>>)
    BY SlashStays, PathsConcat
  <2> HIDE DEF s, u
  <2>2. Meaning(s \o u) = Meaning(<<>> \o u)
    BY <1>12, <2>1, MeaningConcat
  <2>3. <<>> \o u = u
    BY <1>12, PathsAlgebra
  <2> QED
    BY <2>2, <2>3
<1> HIDE DEF d, u
<1>15. Decoded(PathOf(s \o t)) = Decoded(a)
  BY <1>7, <1>13, <1>14 DEF Decoded, u
<1> QED
  BY <1>5, <1>7, <1>12, <1>15 DEF a, b, u

\* However many slashes a target begins with, one means the same.
LEMMA LeadingSlashesIs ==
    ASSUME NEW t \in Seq(Octets), Absolute(t)
    PROVE  LET c == CollapseLeadingSlashes(t)
           IN  /\ c \in Seq(Octets) /\ Absolute(c)
               /\ Decoded(PathOf(c)) = Decoded(PathOf(t)) /\ QueryOf(c) = QueryOf(t)
<1> DEFINE l == Len(t)
           n == Next(t, 1, 0..255 \ {Slash})
           Rest(i) == SubSeq(t, i, l)
           s == <<Slash>>
<1>1. t \in Seq(Nat) /\ l \in Nat /\ t # <<>> /\ t[1] = Slash /\ \A i \in 1..l : t[i] \in Octets
  BY OctetsAre, SeqFacts DEF Absolute
<1>2. l >= 1
  BY <1>1
<1>3. /\ n \in 1..(l + 1)
      /\ \A j \in 1..(n - 1) : t[j] = Slash
  <2>1. 1 \in Nat \ {0} /\ 1 <= Len(t) + 1
    BY <1>1
  <2>2. /\ n \in 1..(Len(t) + 1)
        /\ n <= Len(t) => t[n] \in 0..255 \ {Slash}
        /\ \A j \in 1..(n - 1) : t[j] \notin 0..255 \ {Slash}
    BY <1>1, <2>1, NextPlace
  <2>3. \A j \in 1..(n - 1) : j \in 1..l
    BY <1>1, <2>2
  <2> QED
    BY <1>1, <2>2, <2>3 DEF Octets
<1>4. n # 1
  <2>1. n = 1 => t[1] # Slash
    <3>1. 1 \in Nat \ {0} /\ 1 <= Len(t) + 1
      BY <1>1
    <3>2. n <= Len(t) => t[n] \in 0..255 \ {Slash}
      BY <1>1, <3>1, NextPlace
    <3> QED
      BY <1>2, <3>2
  <2> QED
    BY <1>1, <2>1
<1>5. n \in 2..(l + 1)
  <2> HIDE DEF n
  <2> QED
    BY <1>1, <1>3, <1>4
<1>6. CollapseLeadingSlashes(t) = s \o Rest(n)
  BY DEF CollapseLeadingSlashes, From
<1> HIDE DEF n
<1>7. ASSUME NEW i \in 1..(l + 1)
      PROVE  Rest(i) \in Seq(Octets) /\ Rest(i) = [k \in 1..((l - i) + 1) |-> t[(i + k) - 1]]
             /\ Len(Rest(i)) = (l - i) + 1
  <2>1. l \in 0..Len(t)
    BY <1>1
  <2>2. Rest(i) = [k \in 1..((l - i) + 1) |-> t[(i + k) - 1]]
    BY <1>1, <2>1, PartIs
  <2>3. (l - i) + 1 \in Nat /\ \A k \in 1..((l - i) + 1) : (i + k) - 1 \in 1..l
    BY <1>1
  <2> HIDE DEF l
  <2>4. \A k \in 1..((l - i) + 1) : t[(i + k) - 1] \in Octets
    BY <1>1, <2>3
  <2> HIDE DEF Rest
  <2> QED
    BY <2>2, <2>3, <2>4
<1> HIDE DEF Rest
<1>8. ASSUME NEW i \in 1..(n - 1) PROVE Rest(i) = s \o Rest(i + 1)
  <2> DEFINE a == Rest(i)
             b == Rest(i + 1)
             m == l - i
  <2>1. i \in 1..(l + 1) /\ i + 1 \in 1..(l + 1) /\ m \in Nat /\ (l - (i + 1)) + 1 = m
    BY <1>1, <1>5
  <2>2. /\ a \in Seq(Octets) /\ Len(a) = m + 1
        /\ \A k \in 1..(m + 1) : a[k] = t[(i + k) - 1]
    BY <1>7, <2>1
  <2>3. /\ b \in Seq(Octets) /\ Len(b) = m
        /\ \A k \in 1..m : b[k] = t[((i + 1) + k) - 1]
    BY <1>7, <2>1
  <2>4. Slash \in Octets
    BY DEF Slash, Octets
  <2> HIDE DEF a, b, m
  <2>5. /\ s \o b \in Seq(Octets) /\ Len(s \o b) = m + 1
        /\ (s \o b)[1] = Slash /\ \A k \in 1..m : (s \o b)[1 + k] = b[k]
    BY <2>1, <2>3, <2>4
  <2> DEFINE u == s \o b
  <2> HIDE DEF u
  <2>6. \A k \in 1..(m + 1) : a[k] = u[k]
    <3> TAKE k \in 1..(m + 1)
    <3>1. CASE k = 1
      <4>1. (i + 1) - 1 = i
        OBVIOUS
      <4> QED
        BY <1>3, <2>2, <2>5, <3>1, <4>1 DEF u
    <3>2. CASE k # 1
      <4>1. k - 1 \in 1..m /\ 1 + (k - 1) = k /\ ((i + 1) + (k - 1)) - 1 = (i + k) - 1
        BY <2>1, <3>2
      <4> QED
        BY <2>2, <2>3, <2>5, <4>1 DEF u
    <3> QED
      BY <3>1, <3>2
  <2>7. a = u
    BY <2>2, <2>5, <2>6, SeqEqual DEF u
  <2> QED
    BY <2>7 DEF a, b, u
<1> DEFINE Same(i) == /\ Rest(i) \in Seq(Octets) /\ Absolute(Rest(i))
                      /\ Decoded(PathOf(Rest(i))) = Decoded(PathOf(t))
                      /\ QueryOf(Rest(i)) = QueryOf(t)
           S == {k \in Nat : k + 1 <= n - 1 => Same(k + 1)}
<1>9. Rest(1) = t
  <2>1. SubSeq(t, 1, Len(t)) = t
    BY <1>1
  <2> QED
    BY <2>1 DEF Rest
<1>10. 0 \in S
  BY <1>9
<1>11. ASSUME NEW k \in Nat, k \in S PROVE k + 1 \in S
  <2> SUFFICES ASSUME (k + 1) + 1 <= n - 1 PROVE Same((k + 1) + 1)
    BY DEF S
  <2> DEFINE i == k + 1
             b == Rest(i + 1)
  <2>1. i \in 1..(n - 1) /\ i + 1 \in 1..(n - 1) /\ i + 1 \in 1..(l + 1)
    BY <1>1, <1>5
  <2>2. Same(i)
    <3>1. k + 1 <= n - 1
      BY <1>5
    <3> QED
      BY <1>11, <3>1
  <2>3. Rest(i) = s \o b /\ b \in Seq(Octets)
    BY <1>7, <1>8, <2>1
  <2>4. Absolute(b)
    <3>1. b = s \o Rest((i + 1) + 1)
      BY <1>8, <2>1
    <3>2. Rest((i + 1) + 1) \in Seq(Octets)
      <4>1. (i + 1) + 1 \in 1..(l + 1)
        BY <1>1, <1>5, <2>1
      <4> QED
        BY <1>7, <4>1
    <3> DEFINE y == Rest((i + 1) + 1)
    <3> HIDE DEF y, b
    <3>3. s \o y # <<>> /\ (s \o y)[1] = Slash
      BY <3>2 DEF y
    <3> QED
      BY <3>1, <3>3 DEF Absolute, y
  <2> HIDE DEF b, i
  <2>5. /\ Decoded(PathOf(s \o b)) = Decoded(PathOf(b))
        /\ QueryOf(s \o b) = QueryOf(b)
    BY <2>3, <2>4, OneSlash
  <2>6. Same(i + 1)
    BY <2>2, <2>3, <2>4, <2>5 DEF b
  <2> QED
    BY <2>6 DEF i
<1> HIDE DEF S
<1>12. Nat \subseteq S
  BY <1>10, <1>11, Induction
<1>13. Same(n - 1)
  <2>1. n - 2 \in Nat /\ (n - 2) + 1 = n - 1
    BY <1>1, <1>5
  <2>2. n - 2 \in S
    BY <1>12, <2>1
  <2> QED
    BY <2>1, <2>2 DEF S
<1>14. CollapseLeadingSlashes(t) = Rest(n - 1)
  <2>1. n - 1 \in 1..(n - 1) /\ (n - 1) + 1 = n
    BY <1>1, <1>5
  <2>2. Rest(n - 1) = s \o Rest((n - 1) + 1)
    BY <1>8, <2>1
  <2> QED
    BY <1>6, <2>1, <2>2
<1> QED
  BY <1>13, <1>14

(***************************************************************************)
(* A target that begins with a slash means what its path, decoded once,    *)
(* means; bytes beyond ASCII and slashes too many change nothing of it.    *)
(***************************************************************************)
THEOREM TargetIs ==
    ASSUME NEW t \in Seq(Octets), Absolute(t), NEW host_field
    PROVE  LET uri == ParseURI(t, host_field)
               path == Decoded(PathOf(t))
           IN  /\ uri.ok <=> path # Abnormal
               /\ uri.ok => /\ uri.path = path
                            /\ uri.query = IF Escape8bitURI THEN Escape8bit(QueryOf(t))
                                           ELSE QueryOf(t)
<1> DEFINE e == IF Escape8bitURI THEN Escape8bit(t) ELSE t
           c == CollapseLeadingSlashes(e)
           uri == SplitURI(c)
           q == IF Escape8bitURI THEN Escape8bit(QueryOf(t)) ELSE QueryOf(t)
<1>1. e \in Seq(Octets) /\ Absolute(e) /\ QueryOf(e) = q
  BY PartsEscaped
<1>2. Decoded(PathOf(e)) = Decoded(PathOf(t))
  <2>1. PathOf(t) \in Seq(Octets)
    <3>1. PathOf(t) \in Seq(Unasked) /\ Unasked \subseteq Octets
      BY TargetParts DEF Unasked
    <3> QED
      BY <3>1, SeqWidens
  <2>2. Unescape(Escape8bit(PathOf(t))) = Unescape(PathOf(t))
    BY <2>1, Unescape8bit
  <2>3. PathOf(Escape8bit(t)) = Escape8bit(PathOf(t))
    BY PartsEscaped
  <2> QED
    BY <2>2, <2>3 DEF Decoded
<1> HIDE DEF e
<1>3. /\ c \in Seq(Octets) /\ Absolute(c)
      /\ Decoded(PathOf(c)) = Decoded(PathOf(t)) /\ QueryOf(c) = q
  BY <1>1, <1>2, LeadingSlashesIs, Zenon
<1> HIDE DEF c, q
<1>4. ~HasScheme(c)
  <2>1. c[1] = Slash /\ Slash \notin Letters
    BY <1>3 DEF Absolute, Slash, Letters
  <2>2. SchemeEnd(c) = 0
    BY <2>1 DEF SchemeEnd
  <2> QED
    BY <2>2 DEF HasScheme
<1>5. /\ uri.scheme = <<>> /\ uri.ok /\ uri.path = PathOf(c) /\ uri.query = q
  BY <1>3, <1>4 DEF SplitURI
<1> HIDE DEF uri
<1>6. \/ /\ Decoded(uri.path) = Abnormal /\ ParseURI(t, host_field) = BadRequest
      \/ /\ Decoded(uri.path) # Abnormal
         /\ ParseURI(t, host_field).ok = TRUE
         /\ ParseURI(t, host_field).path = Decoded(uri.path)
         /\ ParseURI(t, host_field).query = uri.query
  BY <1>5 DEF ParseURI, uri, c, e
<1>7. BadRequest.ok = FALSE
  BY DEF BadRequest
<1> QED
  BY <1>3, <1>5, <1>6, <1>7 DEF q


-----------------------------------------------------------------------------
(* What is sent escaped.                                                   *)

\* A segment as EscapePath sends it.
Encoded(x) == <<Slash>> \o EscapeBy(Tail(x), UnescapedPChar)

LEMMA EscapePathIs ==
    \A p : EscapePath(p) = FlattenSeq([k \in DOMAIN ScanSegments(p) |-> Encoded(ScanSegments(p)[k])])
  BY DEF EscapePath, Encoded

LEMMA EncodedIs ==
    ASSUME NEW x \in Segs, x \in Seq(Octets)
    PROVE  /\ Encoded(x) \in Seq(Unasked) /\ Encoded(x) \in Seq(Nat)
           /\ Encoded(x)[1] = Slash /\ Len(Encoded(x)) \in Nat \ {0}
           /\ Complete(Encoded(x)) /\ Unescape(Encoded(x)) = x
<1> DEFINE y == Tail(x)
           e == EscapeBy(y, UnescapedPChar)
           s == <<Slash>>
<1>1. /\ Slash \in Unasked /\ Slash \in Nat /\ Slash # Percent /\ Unasked \subseteq Octets
      /\ Percent \in UnescapedPChar
      /\ {Percent} \cup HexDigits \cup (Octets \ UnescapedPChar) \subseteq Unasked
  BY DEF Slash, Unasked, Octets, Percent, Question, UnescapedPChar, HexDigits, Digits,
         Unreserved, Letters, Mark
<1>2. y \in Seq(Octets) /\ x = s \o y
  BY NameOf
<1> HIDE DEF y
<1>3. e \in Seq(Unasked)
  <2>1. /\ e \in Seq(Octets)
        /\ \A i \in 1..Len(e) : e[i] \in {Percent} \cup HexDigits \cup (Octets \ UnescapedPChar)
    BY <1>2, EscapeByType
  <2> HIDE DEF e
  <2> QED
    BY <1>1, <2>1
<1>4. Unescape(e) = y /\ Complete(e)
  BY <1>1, <1>2, UnescapeEscapeBy
<1>5. e \in Seq(Nat) /\ y \in Seq(Nat)
  BY <1>1, <1>2, <1>3, SeqWidens, OctetsAre
<1> HIDE DEF e
<1>6. /\ s \o e \in Seq(Unasked) /\ s \o e \in Seq(Nat) /\ (s \o e)[1] = Slash
      /\ Len(s \o e) = Len(e) + 1 /\ Len(e) \in Nat
      /\ \A i \in 1..Len(e) : (s \o e)[1 + i] = e[i]
  BY <1>1, <1>3, <1>5
<1>7. Unescape(s \o e) = x
  <2>1. ~EscapeAt(s \o e, 1)
    BY <1>1, <1>6 DEF EscapeAt
  <2> QED
    BY <1>1, <1>2, <1>4, <1>5, <2>1, UnescapeHead
<1>8. Complete(s \o e)
  <2> SUFFICES ASSUME NEW i \in 1..Len(s \o e), (s \o e)[i] = Percent
               PROVE  i <= Len(s \o e) - 2
    BY DEF Complete
  <2>1. i # 1 /\ i - 1 \in 1..Len(e) /\ i = 1 + (i - 1)
    BY <1>1, <1>6
  <2>2. e[i - 1] = Percent
    BY <1>6, <2>1
  <2>3. i - 1 <= Len(e) - 2
    BY <1>4, <2>1, <2>2 DEF Complete
  <2> QED
    BY <1>6, <2>1, <2>3
<1> QED
  BY <1>6, <1>7, <1>8 DEF Encoded, e, y

(***************************************************************************)
(* EscapePath of a path is a path whose decoding is the path, and nothing  *)
(* in it is taken for a query.                                             *)
(***************************************************************************)
LEMMA EscapedPathIs ==
    ASSUME NEW t \in Paths, t \in Seq(Octets)
    PROVE  /\ EscapePath(t) \in Seq(Unasked) /\ Unescape(EscapePath(t)) = t
           /\ t # <<>> => Absolute(EscapePath(t))
<1> DEFINE Sent(p) == [k \in DOMAIN ScanSegments(p) |-> Encoded(ScanSegments(p)[k])]
           Good(p) == /\ Sent(p) \in Seq(Seq(Unasked)) /\ Complete(EscapePath(p))
                      /\ EscapePath(p) \in Seq(Unasked) /\ Unescape(EscapePath(p)) = p
                      /\ p # <<>> => Absolute(EscapePath(p))
           P == {p \in Paths : p \in Seq(Octets) => Good(p)}
<1>1. <<>> \in P
  <2> DEFINE e == <<>>
  <2>1. e \in Paths /\ ScanSegments(e) = e
    BY PathsConcat, ScanEmpty
  <2>2. e \in Seq(Seq(Unasked)) /\ e \in Seq(Unasked) /\ 1..Len(e) = {}
        /\ Sent(e) = e /\ [i \in DOMAIN e |-> Image(e, i)] = e
    BY <2>1
  <2> HIDE DEF Sent, e
  <2>3. FlattenSeq(e) = e
    BY FlattenFew DEF e
  <2>4. EscapePath(e) = e
    BY <2>2, <2>3, EscapePathIs DEF Sent
  <2>5. Unescape(e) = e
    BY <2>2, <2>3, UnescapeIs
  <2>6. Complete(e)
    BY <2>2 DEF Complete
  <2>7. e # <<>> => Absolute(e)
    BY DEF e
  <2> QED
    BY <2>1, <2>2, <2>4, <2>5, <2>6, <2>7 DEF e
<1>2. ASSUME NEW p \in Paths, NEW x \in Segs, p \in P PROVE p \o x \in P
  <2>0. p \o x \in Paths
    BY PathsConcat
  <2>1. p \o x \in Paths /\ p \in Seq(Nat) /\ x \in Seq(Nat) /\ Unasked \subseteq Octets
        /\ Unasked \subseteq Nat
    <3>1. p \in Seq(Nat) /\ x \in Seq(Nat)
      BY DEF Paths, Segs
    <3>2. Unasked \subseteq Octets
      BY DEF Unasked
    <3>3. Unasked \subseteq Nat
      BY <3>2, OctetsAre
    <3> QED
      BY <2>0, <3>1, <3>2, <3>3
  <2> SUFFICES ASSUME p \o x \in Seq(Octets) PROVE Good(p \o x)
    BY <2>1
  <2>2. p \in Seq(Octets) /\ x \in Seq(Octets)
    <3>1. /\ Len(p \o x) = Len(p) + Len(x) /\ Len(p) \in Nat /\ Len(x) \in Nat
          /\ \A i \in 1..Len(p) : (p \o x)[i] = p[i]
          /\ \A i \in 1..Len(x) : (p \o x)[Len(p) + i] = x[i]
      BY <2>1, TwoParts
    <3>2. \A i \in 1..(Len(p) + Len(x)) : (p \o x)[i] \in Octets
      BY <3>1
    <3>3. \A i \in 1..Len(p) : p[i] \in Octets
      BY <3>1, <3>2
    <3>4. \A i \in 1..Len(x) : x[i] \in Octets
      BY <3>1, <3>2
    <3> QED
      BY <2>1, <3>3, <3>4
  <2>3. Good(p)
    BY <1>2, <2>2
  <2> DEFINE a == EscapePath(p)
             b == Encoded(x)
  <2>4. /\ b \in Seq(Unasked) /\ b \in Seq(Nat) /\ b[1] = Slash /\ Len(b) \in Nat \ {0}
        /\ Complete(b) /\ Unescape(b) = x
    BY <2>2, EncodedIs
  <2>5. a \in Seq(Unasked) /\ a \in Seq(Nat) /\ Complete(a) /\ Unescape(a) = p
        /\ (p # <<>> => Absolute(a)) /\ Sent(p) \in Seq(Seq(Unasked))
    BY <2>1, <2>3, SeqWidens
  <2>6. /\ DOMAIN Sent(p) = 1..Len(ScanSegments(p)) /\ Len(ScanSegments(p)) \in Nat
        /\ Len(Sent(p)) = Len(ScanSegments(p))
        /\ Sent(p \o x) \in Seq(Seq(Unasked))
        /\ Len(Sent(p \o x)) = Len(Sent(p)) + 1 /\ Sent(p \o x)[Len(Sent(p)) + 1] = b
        /\ \A k \in 1..Len(Sent(p)) : Sent(p \o x)[k] = Sent(p)[k]
    <3> DEFINE f == ScanSegments(p)
               g == ScanSegments(p \o x)
               n == Len(f)
               u == Sent(p)
               w == Sent(p \o x)
    <3>1. f \in Seq(Segs) /\ g = Append(f, x)
      BY <2>1, FlattenScan, ScanAppend
    <3>2. u = [k \in DOMAIN f |-> Encoded(f[k])] /\ w = [k \in DOMAIN g |-> Encoded(g[k])]
      OBVIOUS
    <3> HIDE DEF f, g, u, w, b
    <3>3. /\ n \in Nat /\ DOMAIN f = 1..n /\ DOMAIN g = 1..(n + 1) /\ g[n + 1] = x
          /\ \A k \in 1..n : g[k] = f[k]
      BY <3>1
    <3>4. DOMAIN u = 1..n /\ u \in Seq(Seq(Unasked))
      BY <2>5, <3>2, <3>3 DEF u
    <3>5. Len(u) = n /\ \A k \in 1..n : u[k] \in Seq(Unasked)
      BY <3>3, <3>4
    <3>6. /\ DOMAIN w = 1..(n + 1) /\ w[n + 1] = b /\ \A k \in 1..n : w[k] = u[k]
      BY <3>2, <3>3 DEF b
    <3>7. \A k \in 1..(n + 1) : w[k] \in Seq(Unasked)
      <4> TAKE k \in 1..(n + 1)
      <4>1. k = n + 1 \/ k \in 1..n
        BY <3>3
      <4> HIDE DEF n
      <4> QED
        BY <2>4, <3>5, <3>6, <4>1
    <3>8. w = [k \in 1..(n + 1) |-> w[k]]
      BY <3>2, <3>3
    <3>9. w \in Seq(Seq(Unasked)) /\ Len(w) = n + 1
      BY <3>3, <3>7, <3>8
    <3> QED
      BY <3>3, <3>4, <3>5, <3>6, <3>9 DEF f, u, w
  <2>7. EscapePath(p \o x) = a \o b
    <3> HIDE DEF Sent, b
    <3>1. FlattenSeq(Sent(p \o x)) = FlattenSeq(Sent(p)) \o b
      BY <2>5, <2>6, FlattenGrows
    <3> QED
      BY <3>1, EscapePathIs DEF Sent
  <2> HIDE DEF a, b
  <2>8. /\ a \o b \in Seq(Unasked) /\ Len(a \o b) = Len(a) + Len(b)
        /\ Len(a) \in Nat /\ Len(b) \in Nat
        /\ \A i \in 1..Len(a) : (a \o b)[i] = a[i]
        /\ \A i \in 1..Len(b) : (a \o b)[Len(a) + i] = b[i]
    BY <2>4, <2>5, TwoParts
  <2>9. Unescape(a \o b) = p \o x
    <3> SUFFICES ASSUME NEW i \in 1..Len(a), EscapeAt(a \o b, i) PROVE i + 2 <= Len(a)
      BY <2>4, <2>5, UnescapeConcat
    <3>1. a[i] = Percent
      BY <2>8 DEF EscapeAt
    <3> QED
      BY <2>5, <3>1 DEF Complete
  <2>10. Complete(a \o b)
    <3> SUFFICES ASSUME NEW i \in 1..Len(a \o b), (a \o b)[i] = Percent
                 PROVE  i + 2 <= Len(a \o b)
      BY DEF Complete
    <3>1. CASE i \in 1..Len(a)
      <4>1. a[i] = Percent
        BY <2>8, <3>1
      <4>2. i + 2 <= Len(a)
        BY <2>5, <3>1, <4>1 DEF Complete
      <4> QED
        BY <2>8, <4>2
    <3>2. CASE i \notin 1..Len(a)
      <4>1. i - Len(a) \in 1..Len(b) /\ i = Len(a) + (i - Len(a))
        BY <2>8, <3>2
      <4>2. b[i - Len(a)] = Percent
        BY <2>8, <4>1
      <4>3. (i - Len(a)) + 2 <= Len(b)
        BY <2>4, <4>1, <4>2 DEF Complete
      <4> QED
        BY <2>8, <4>1, <4>3
    <3> QED
      BY <3>1, <3>2
  <2>11. Absolute(a \o b)
    <3>1. CASE p = <<>>
      <4>1. Len(a) = 0 => (a \o b)[1] = Slash
        BY <2>4, <2>8
      <4>2. Len(a) # 0 => (a \o b)[1] = a[1] /\ a # <<>>
        BY <2>8
      <4>3. Len(a) = 0
        <5>1. a = <<>>
          <6> DEFINE e == <<>>
          <6>1. ScanSegments(e) = e /\ Sent(e) = e
            BY ScanEmpty
          <6>2. EscapePath(e) = FlattenSeq(Sent(e))
            BY EscapePathIs
          <6> HIDE DEF Sent
          <6> QED
            BY <3>1, <6>1, <6>2, FlattenFew DEF a
        <5> QED
          BY <5>1
      <4> QED
        BY <2>4, <2>8, <4>1, <4>3 DEF Absolute
    <3>2. CASE p # <<>>
      <4>1. a # <<>> /\ a[1] = Slash /\ Len(a) # 0
        BY <2>5, <3>2 DEF Absolute
      <4> QED
        BY <2>8, <4>1 DEF Absolute
    <3> QED
      BY <3>1, <3>2
  <2> HIDE DEF Sent
  <2> QED
    BY <2>6, <2>7, <2>8, <2>9, <2>10, <2>11
<1> HIDE DEF P
<1>3. Paths \subseteq P
  BY <1>1, <1>2, PathInduction
<1> QED
  BY <1>3 DEF P

\* A text with no query sign in it, escaped as a whole.
LEMMA EscapedTextIs ==
    ASSUME NEW t \in Seq(Unasked), Absolute(t)
    PROVE  /\ Escape(t) \in Seq(Unasked) /\ Unescape(Escape(t)) = t
           /\ Absolute(Escape(t))
<1>1. /\ Unasked \subseteq Octets /\ Percent \in UnescapedSet /\ Slash \notin UnescapedSet
      /\ {Percent} \cup HexDigits \cup (Unasked \ UnescapedSet) \subseteq Unasked
  BY DEF Unasked, Octets, Percent, Slash, Question, HexDigits, Digits, UnescapedSet,
         DelimsAndUnwise, Control, NonAsc, Space
<1>2. t \in Seq(Octets) /\ t # <<>> /\ t[1] = Slash
  BY <1>1, SeqWidens DEF Absolute
<1> DEFINE e == EscapeBy(t, UnescapedSet)
<1>3. e = Escape(t)
  BY DEF Escape
<1>4. e \in Seq(Unasked)
  <2>1. /\ e \in Seq(Octets)
        /\ \A i \in 1..Len(e) : e[i] \in {Percent} \cup HexDigits \cup (Unasked \ UnescapedSet)
    BY <1>1, EscapeByType
  <2> HIDE DEF e
  <2> QED
    BY <1>1, <2>1
<1>5. Unescape(e) = t
  BY <1>1, <1>2, UnescapeEscapeBy
<1>6. Absolute(e)
  <2> DEFINE y == Tail(t)
             s == <<Slash>>
             r == EscapeBy(y, UnescapedSet)
  <2>1. y \in Seq(Octets) /\ t = s \o y /\ s \in Seq(Octets) /\ Slash \in Octets
    BY <1>2, HeadEscaped
  <2>2. EscapeBy(s, UnescapedSet) = s /\ r \in Seq(Octets) /\ e = EscapeBy(s, UnescapedSet) \o r
    <3>1. EscapeBy(s, UnescapedSet) = Escaped(Slash, UnescapedSet)
      BY <2>1, EscapeByConcat
    <3>2. Escaped(Slash, UnescapedSet) = s
      BY <1>1 DEF Escaped
    <3> HIDE DEF s, y
    <3> QED
      BY <2>1, <3>1, <3>2, EscapeByConcat
  <2> HIDE DEF r, e
  <2>3. (s \o r)[1] = Slash /\ s \o r # <<>>
    BY <2>1, <2>2
  <2> QED
    BY <2>2, <2>3 DEF Absolute
<1> QED
  BY <1>3, <1>4, <1>5, <1>6
=============================================================================
