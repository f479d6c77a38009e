------------------------ MODULE HTTPResponse_proofs -------------------------
(***************************************************************************)
(* Proofs about the response.  First the operators of ResponseOps: what    *)
(* the header operations return and preserve, and what the setup_header    *)
(* pass makes of a response.  Then HTTPResponse, for every set of          *)
(* requests, fields, bodies, error values and bound on the calls: IInv is  *)
(* inductive, and the invariants and the action property of the runs       *)
(* follow from it.                                                         *)
(***************************************************************************)
EXTENDS HTTPResponse, SequenceTheorems, TLAPS

\* RemoveFirst of a duplicate-free sequence: the rest, in the same order.
LEMMA RemoveFirstUnique ==
    ASSUME NEW S, NEW s \in Seq(S), NEW k \in 1..Len(s),
           \A i, j \in 1..Len(s) : s[i] = s[j] => i = j
    PROVE  LET t == RemoveFirst(s, s[k])
           IN  /\ t \in Seq(S)
               /\ Len(t) = Len(s) - 1
               /\ \A i \in 1..Len(t) : t[i] = IF i < k THEN s[i] ELSE s[i + 1]
<1> DEFINE I == {i \in 1..Len(s) : s[i] = s[k]}
<1>1. I = {k}
  OBVIOUS
<1>2. Min(I) = k
  BY <1>1 DEF Min
<1>3. SelectInSeq(s, LAMBDA v : v = s[k]) = k
  BY <1>1, <1>2 DEF SelectInSeq
<1>4. RemoveFirst(s, s[k]) = SubSeq(s, 1, k - 1) \o SubSeq(s, k + 1, Len(s))
  BY <1>3 DEF RemoveFirst, RemoveAt
<1> DEFINE a == SubSeq(s, 1, k - 1)
           b == SubSeq(s, k + 1, Len(s))
<1>5. /\ a \in Seq(S) /\ Len(a) = k - 1
      /\ \A i \in 1..(k - 1) : a[i] = s[i]
  OBVIOUS
<1>6. /\ b \in Seq(S) /\ Len(b) = Len(s) - k
      /\ \A i \in 1..(Len(s) - k) : b[i] = s[k + i]
  OBVIOUS
<1> HIDE DEF a, b
<1>7. Len(s) \in Nat /\ k \in Nat \ {0} /\ k <= Len(s)
  OBVIOUS
<1>8. /\ a \o b \in Seq(S)
      /\ Len(a \o b) = (k - 1) + (Len(s) - k)
      /\ \A i \in 1..((k - 1) + (Len(s) - k)) :
            (a \o b)[i] = IF i <= k - 1 THEN a[i] ELSE b[i - (k - 1)]
  <2>1. /\ a \o b \in Seq(S)
        /\ Len(a \o b) = Len(a) + Len(b)
        /\ \A i \in 1..(Len(a) + Len(b)) :
              (a \o b)[i] = IF i <= Len(a) THEN a[i] ELSE b[i - Len(a)]
    <3>1. a \in Seq(S) /\ b \in Seq(S)
      BY <1>5, <1>6
    <3> QED
      BY <3>1, ConcatProperties, Zenon
  <2> QED
    BY <2>1, <1>5, <1>6
<1>9. ASSUME NEW i \in 1..(Len(s) - 1)
      PROVE  (a \o b)[i] = IF i < k THEN s[i] ELSE s[i + 1]
  <2>1. (a \o b)[i] = IF i <= k - 1 THEN a[i] ELSE b[i - (k - 1)]
    <3>1. i \in 1..((k - 1) + (Len(s) - k))
      BY <1>7
    <3> QED
      BY <1>8, <3>1, Zenon
  <2>2. CASE i < k
    BY <2>1, <2>2, <1>5, <1>7
  <2>3. CASE ~(i < k)
    <3>1. PICK m \in 1..(Len(s) - k) : m = i - (k - 1) /\ k + m = i + 1
      BY <2>3, <1>7
    <3>2. (a \o b)[i] = b[m]
      BY <2>1, <2>3, <3>1, <1>7
    <3> QED
      BY <2>3, <3>1, <3>2, <1>6
  <2> QED
    BY <2>2, <2>3
<1>10. Len(a \o b) = Len(s) - 1
  BY <1>7, <1>8
<1> QED
  BY <1>4, <1>8, <1>9, <1>10 DEF a, b

-----------------------------------------------------------------------------
\* Setting a field keeps the header well formed and its order a listing.
LEMMA SetSingleOrdered ==
    ASSUME NEW h, HeaderType(h), Ordered(h), NEW field \in FieldNames, NEW v \in Values
    PROVE  LET g == SetSingle(h, field, v)
           IN  /\ HeaderType(g)
               /\ Ordered(g)
               /\ DOMAIN g.single = DOMAIN h.single \cup {field}
               /\ g.single[field] = v
               /\ \A f \in DOMAIN h.single \ {field} : g.single[f] = h.single[f]
<1> DEFINE g == SetSingle(h, field, v)
<1>1. /\ g.single = [f \in DOMAIN h.single \cup {field} |->
                        IF f = field THEN v ELSE h.single[f]]
      /\ g.order = IF Has(h, field) THEN h.order ELSE Append(h.order, field)
      /\ g = [single |-> g.single, order |-> g.order]
  BY DEF SetSingle
<1> HIDE DEF g
<1>2. h.order \in Seq(FieldNames) /\ DOMAIN h.single \subseteq FieldNames
  BY DEF HeaderType
<1>3. HeaderType(g)
  <2>1. g.order \in Seq(FieldNames)
    <3>1. Append(h.order, field) \in Seq(FieldNames)
      BY <1>2, AppendProperties, Zenon
    <3> QED
      BY <1>1, <1>2, <3>1, Zenon
  <2>2. \A f \in DOMAIN g.single : g.single[f] \in Values
    BY <1>1 DEF HeaderType
  <2> QED
    BY <1>1, <1>2, <2>1, <2>2 DEF HeaderType
<1>4. Ordered(g)
  <2>1. CASE Has(h, field)
    <3>1. g.order = h.order /\ DOMAIN g.single = DOMAIN h.single
      BY <1>1, <2>1 DEF Has
    <3> QED
      BY <3>1 DEF Ordered, Has
  <2>2. CASE ~Has(h, field)
    <3>1. /\ Len(g.order) = Len(h.order) + 1
          /\ g.order[Len(h.order) + 1] = field
          /\ \A i \in 1..Len(h.order) : g.order[i] = h.order[i]
          /\ Len(h.order) \in Nat
      BY <1>1, <1>2, <2>2
    <3>2. \A i \in 1..Len(h.order) : h.order[i] # field
      BY <2>2 DEF Ordered, Has
    <3>3. DOMAIN g.single = DOMAIN h.single \cup {field}
      BY <1>1
    <3>4. \A i \in 1..Len(g.order) : Has(g, g.order[i])
      BY <3>1, <3>3, SMTT(30) DEF Ordered, Has
    <3>5. \A f \in DOMAIN g.single : \E i \in 1..Len(g.order) : g.order[i] = f
      BY <3>1, <3>3 DEF Ordered
    <3>6. \A i, j \in 1..Len(g.order) : g.order[i] = g.order[j] => i = j
      BY <3>1, <3>2, SMTT(30) DEF Ordered
    <3> QED
      BY <3>4, <3>5, <3>6 DEF Ordered
  <2> QED
    BY <2>1, <2>2
<1> QED
  BY <1>1, <1>3, <1>4 DEF g

\* Deleting a field keeps the header well formed and its order a listing.
LEMMA DeleteFieldOrdered ==
    ASSUME NEW h, HeaderType(h), Ordered(h), NEW field \in FieldNames
    PROVE  LET g == DeleteField(h, field)
           IN  /\ HeaderType(g)
               /\ Ordered(g)
               /\ DOMAIN g.single = DOMAIN h.single \ {field}
               /\ \A f \in DOMAIN h.single \ {field} : g.single[f] = h.single[f]
<1> DEFINE g == DeleteField(h, field)
<1>1. CASE ~Has(h, field)
  BY <1>1 DEF DeleteField, Has
<1>2. CASE Has(h, field)
  <2>1. /\ g.single = [f \in DOMAIN h.single \ {field} |-> h.single[f]]
        /\ g.order = RemoveFirst(h.order, field)
        /\ g = [single |-> g.single, order |-> g.order]
    BY <1>2 DEF DeleteField
  <2> HIDE DEF g
  <2>2. PICK k \in 1..Len(h.order) : h.order[k] = field
    BY <1>2 DEF Ordered, Has
  <2>3. h.order \in Seq(FieldNames) /\ DOMAIN h.single \subseteq FieldNames
    BY DEF HeaderType
  <2>4. \A i, j \in 1..Len(h.order) : h.order[i] = h.order[j] => i = j
    BY DEF Ordered
  <2>5. /\ g.order \in Seq(FieldNames)
        /\ Len(g.order) = Len(h.order) - 1
        /\ \A i \in 1..Len(g.order) :
              g.order[i] = IF i < k THEN h.order[i] ELSE h.order[i + 1]
    <3>1. LET t == RemoveFirst(h.order, h.order[k])
          IN  /\ t \in Seq(FieldNames)
              /\ Len(t) = Len(h.order) - 1
              /\ \A i \in 1..Len(t) :
                    t[i] = IF i < k THEN h.order[i] ELSE h.order[i + 1]
      BY <2>3, <2>4, RemoveFirstUnique
    <3> QED
      BY <2>1, <2>2, <3>1
  <2>6. HeaderType(g)
    BY <2>1, <2>3, <2>5 DEF HeaderType
  <2>7. Len(h.order) \in Nat
    BY <2>3
  <2>8. \A i \in 1..Len(g.order) : Has(g, g.order[i])
    <3> TAKE i \in 1..Len(g.order)
    <3>1. PICK j \in 1..Len(h.order) : g.order[i] = h.order[j] /\ j # k
      BY <2>5, <2>7
    <3>2. h.order[j] \in DOMAIN h.single
      BY DEF Ordered, Has
    <3>3. h.order[j] # field
      BY <2>2, <2>4, <3>1
    <3> QED
      BY <2>1, <3>1, <3>2, <3>3 DEF Has
  <2>9. \A f \in DOMAIN g.single : \E i \in 1..Len(g.order) : g.order[i] = f
    <3> TAKE f \in DOMAIN g.single
    <3>1. PICK m \in 1..Len(h.order) : h.order[m] = f
      BY <2>1 DEF Ordered
    <3>2. m # k
      BY <2>1, <2>2, <3>1
    <3>3. CASE m < k
      BY <3>1, <3>3, <2>5, <2>7
    <3>4. CASE m > k
      <4>1. m - 1 \in 1..Len(g.order) /\ ~(m - 1 < k) /\ (m - 1) + 1 = m
        BY <3>4, <2>5, <2>7
      <4> QED
        BY <3>1, <4>1, <2>5
    <3> QED
      BY <3>2, <3>3, <3>4
  <2>10. \A i, j \in 1..Len(g.order) : g.order[i] = g.order[j] => i = j
    BY <2>4, <2>5, <2>7, SMTT(30)
  <2>11. Ordered(g)
    BY <2>8, <2>9, <2>10 DEF Ordered
  <2> QED
    BY <2>1, <2>6, <2>11 DEF g
<1> QED
  BY <1>1, <1>2

-----------------------------------------------------------------------------
(* WellFormed is what every operator on responses preserves.               *)

WellFormed(r) == ResponseType(r) /\ Ordered(r.header)

\* Texts and decimal numbers are header values.
LEMMA ValuesType ==
    /\ \A s \in Texts : Text(s) \in Values
    /\ \A n \in Nat : Decimal(n) \in Values
  BY TextsAssumption DEF Text, Decimal, Values

\* NewResponse makes a well-formed response with an empty header.
LEMMA NewResponseWellFormed == WellFormed(NewResponse)
<1>1. HeaderType(EmptyHeader) /\ Ordered(EmptyHeader)
  BY DEF HeaderType, Ordered, EmptyHeader, Has
<1>2. Versions = [major : Nat, minor : Nat] /\ ConfigVersion \in Versions
  BY ConfigVersionAssumption DEF Versions
<1>3. "none" \in Methods /\ <<>> \in Seq(Nat) /\ 200 \in Int
  BY MethodsAssumption
<1>4. /\ NewResponse.header = EmptyHeader
      /\ NewResponse.httpVersion = ConfigVersion
      /\ NewResponse.requestVersion = ConfigVersion
      /\ NewResponse.status = 200 /\ NewResponse.body = <<>>
      /\ NewResponse.cookies = {} /\ NewResponse.requestMethod = "none"
      /\ NewResponse.chunked = FALSE /\ NewResponse.keepAlive = TRUE
  BY DEF NewResponse
<1>5. ResponseType(NewResponse)
  <2>1. NewResponse =
          [httpVersion |-> NewResponse.httpVersion, status |-> NewResponse.status,
           header |-> NewResponse.header, body |-> NewResponse.body,
           cookies |-> NewResponse.cookies,
           requestMethod |-> NewResponse.requestMethod,
           requestVersion |-> NewResponse.requestVersion,
           chunked |-> NewResponse.chunked, keepAlive |-> NewResponse.keepAlive]
    BY DEF NewResponse
  <2> QED
    BY <1>1, <1>2, <1>3, <1>4, <2>1, Zenon DEF ResponseType
<1> QED
  BY <1>1, <1>4, <1>5 DEF WellFormed

\* A well-formed response with a well-formed header put in its place.
LEMMA HeaderReplaced ==
    ASSUME NEW r, WellFormed(r), NEW h, HeaderType(h), Ordered(h)
    PROVE  WellFormed([r EXCEPT !.header = h])
  BY DEF WellFormed, ResponseType

\* A well-formed response with another body put in its place.
LEMMA BodyReplaced ==
    ASSUME NEW r, WellFormed(r), NEW body \in Seq(Nat)
    PROVE  LET s == [r EXCEPT !.body = body]
           IN  /\ WellFormed(s)
               /\ s.keepAlive = r.keepAlive
               /\ s.httpVersion = r.httpVersion
               /\ s.requestVersion = r.requestVersion
  BY SMTT(30) DEF WellFormed, ResponseType

\* Set keeps a response well formed and leaves its connection flag, status,
\* version and body alone.
LEMMA SetWellFormed ==
    ASSUME NEW r, WellFormed(r), NEW field \in FieldNames, NEW v \in Values
    PROVE  /\ WellFormed(Set(r, field, v))
           /\ Set(r, field, v).keepAlive = r.keepAlive
           /\ Set(r, field, v).status = r.status
           /\ Set(r, field, v).httpVersion = r.httpVersion
           /\ Set(r, field, v).requestVersion = r.requestVersion
<1> DEFINE h == SetSingle(r.header, field, v)
<1>1. HeaderType(h) /\ Ordered(h)
  BY SetSingleOrdered DEF WellFormed, ResponseType
<1> HIDE DEF h
<1>2. Set(r, field, v) =
        [r EXCEPT !.header = h,
                  !.chunked = IF field = "transfer-encoding"
                              THEN v = Text("chunked") ELSE @]
  BY DEF Set, h
<1> QED
  BY <1>1, <1>2 DEF WellFormed, ResponseType

\* SetRequest keeps a response well formed and its own version.
LEMMA SetRequestWellFormed ==
    ASSUME NEW r, WellFormed(r), NEW req, req.method \in Methods,
           req.version \in Versions, req.keepAlive \in BOOLEAN
    PROVE  /\ WellFormed(SetRequest(r, req))
           /\ SetRequest(r, req).httpVersion = r.httpVersion
<1> DEFINE m == req.method
           v == req.version
           k == req.keepAlive
           s == [r EXCEPT !.requestMethod = m, !.requestVersion = v,
                          !.keepAlive = k]
<1> HIDE DEF m, v, k
<1>1. m \in Methods /\ v \in Versions /\ k \in BOOLEAN
  BY DEF m, v, k
<1>2. /\ s.header = r.header /\ s.httpVersion = r.httpVersion
      /\ s.status = r.status /\ s.body = r.body /\ s.cookies = r.cookies
      /\ s.chunked = r.chunked /\ s.requestMethod = m
      /\ s.requestVersion = v /\ s.keepAlive = k
  BY DEF WellFormed, ResponseType
<1>3. s = [r EXCEPT !.requestMethod = m, !.requestVersion = v, !.keepAlive = k]
  OBVIOUS
<1>4. SetRequest(r, req) = s
  BY DEF SetRequest, m, v, k
<1> HIDE DEF s
<1>5. WellFormed(s)
  <2>1. /\ HeaderType(s.header) /\ Ordered(s.header)
        /\ s.httpVersion \in Versions /\ s.status \in Int
        /\ s.body \in Seq(Nat) /\ s.cookies \subseteq {"plain", "crlf"}
        /\ s.chunked \in BOOLEAN
    BY <1>2 DEF WellFormed, ResponseType
  <2>2. /\ s.requestMethod \in Methods /\ s.requestVersion \in Versions
        /\ s.keepAlive \in BOOLEAN
    BY <1>1, <1>2
  <2>3. r = [httpVersion |-> r.httpVersion, status |-> r.status,
             header |-> r.header, body |-> r.body, cookies |-> r.cookies,
             requestMethod |-> r.requestMethod,
             requestVersion |-> r.requestVersion,
             chunked |-> r.chunked, keepAlive |-> r.keepAlive]
    BY DEF WellFormed, ResponseType
  <2>4. s = [httpVersion |-> s.httpVersion, status |-> s.status,
             header |-> s.header, body |-> s.body, cookies |-> s.cookies,
             requestMethod |-> s.requestMethod,
             requestVersion |-> s.requestVersion,
             chunked |-> s.chunked, keepAlive |-> s.keepAlive]
    BY <1>3, <2>3
  <2> QED
    BY <2>1, <2>2, <2>4, Zenon DEF WellFormed, ResponseType
<1> QED
  BY <1>2, <1>4, <1>5

\* SetError keeps a response well formed, and an error status it records
\* leaves the connection flag cleared.
LEMMA SetErrorWellFormed ==
    ASSUME NEW r, WellFormed(r), NEW err \in Int
    PROVE  LET e == SetError(r, err)
               code == SetErrorStatus(r, err).status
           IN  /\ WellFormed(e)
               /\ e.keepAlive => r.keepAlive /\ ~IsError(code)
               /\ e.httpVersion = r.httpVersion
               /\ e.requestVersion = r.requestVersion
<1> DEFINE s == SetErrorStatus(r, err)
           t == Set(s, "content-type", Text("text/html"))
<1>1. /\ WellFormed(s)
      /\ s.keepAlive => r.keepAlive /\ ~IsError(s.status)
      /\ s.httpVersion = r.httpVersion
      /\ s.requestVersion = r.requestVersion
  <2>1. CASE IsStatus(err)
    <3>1. s = [r EXCEPT !.keepAlive = @ /\ ~IsError(err), !.status = err]
      BY <2>1 DEF SetErrorStatus
    <3> QED
      BY <3>1 DEF WellFormed, ResponseType
  <2>2. CASE ~IsStatus(err)
    <3>1. s = [r EXCEPT !.keepAlive = FALSE, !.status = 500]
      BY <2>2 DEF SetErrorStatus
    <3>2. /\ s.keepAlive = FALSE /\ s.httpVersion = r.httpVersion
          /\ s.requestVersion = r.requestVersion
      BY <3>1 DEF WellFormed, ResponseType
    <3>3. WellFormed(s)
      <4>1. PICK k \in BOOLEAN : k = FALSE
        OBVIOUS
      <4>2. PICK c \in Int : c = 500
        OBVIOUS
      <4>3. s = [r EXCEPT !.keepAlive = k, !.status = c]
        BY <3>1, <4>1, <4>2
      <4> QED
        BY <4>3 DEF WellFormed, ResponseType
    <3> QED
      BY <3>2, <3>3
  <2> QED
    BY <2>1, <2>2
<1> HIDE DEF s
<1>2. /\ WellFormed(t) /\ t.keepAlive = s.keepAlive
      /\ t.status = s.status /\ t.httpVersion = s.httpVersion
      /\ t.requestVersion = s.requestVersion
  BY <1>1, SetWellFormed, ValuesType, FieldNamesAssumption, TextsAssumption
<1> HIDE DEF t
<1>3. SetError(r, err) = IF ErrorBodyPanics(err) THEN t
                         ELSE [t EXCEPT !.body = ErrorPage]
  BY DEF SetError, SetBody, s, t
<1> QED
  BY <1>1, <1>2, <1>3, PagesAssumption DEF WellFormed, ResponseType, s

-----------------------------------------------------------------------------
(* The setup_header pass, phase by phase.                                  *)

\* Setting a field to the value it has changes nothing.
LEMMA SetSingleSame ==
    ASSUME NEW h, HeaderType(h), NEW field, Has(h, field)
    PROVE  SetSingle(h, field, h.single[field]) = h
<1>1. DOMAIN h.single \cup {field} = DOMAIN h.single
  BY DEF Has
<1>2. [f \in DOMAIN h.single \cup {field} |->
          IF f = field THEN h.single[field] ELSE h.single[f]] = h.single
  BY <1>1 DEF HeaderType
<1> QED
  BY <1>2 DEF SetSingle, HeaderType

\* Deleting a field that is not there changes nothing.
LEMMA DeleteAbsent ==
    ASSUME NEW h, NEW field, ~Has(h, field)
    PROVE  DeleteField(h, field) = h
  BY DEF DeleteField

\* A version older than HTTP/1.0 is older than HTTP/1.1.
LEMMA VersionFacts ==
    ASSUME NEW v \in Versions
    PROVE  /\ Less(v, Version(1, 0)) \in BOOLEAN
           /\ Less(v, Version(1, 1)) \in BOOLEAN
           /\ Less(v, Version(1, 0)) => Less(v, Version(1, 1))
           /\ Version(0, 9) \in Versions
  BY DEF Less, Compare, Version, Versions

\* The first paragraph of setupHeader only adds a Server field.
LEMMA SeedServerFacts ==
    ASSUME NEW r, WellFormed(r)
    PROVE  LET s == SeedServer(r)
           IN  /\ WellFormed(s)
               /\ Has(s.header, "server")
               /\ s.keepAlive = r.keepAlive /\ s.httpVersion = r.httpVersion
               /\ s.requestVersion = r.requestVersion
<1> DEFINE h == SetSingle(r.header, "server", Text("software"))
<1>1. HeaderType(h) /\ Ordered(h) /\ Has(h, "server")
  <2>1. "server" \in FieldNames /\ Text("software") \in Values
    BY FieldNamesAssumption, TextsAssumption, ValuesType
  <2> QED
    BY <2>1, SetSingleOrdered DEF WellFormed, ResponseType, Has
<1>2. CASE Has(r.header, "server")
  BY <1>2 DEF SeedServer
<1>3. CASE ~Has(r.header, "server")
  <2> HIDE DEF h
  <2>1. SeedServer(r) = [r EXCEPT !.header = h]
    BY <1>3 DEF SeedServer, h
  <2> QED
    BY <1>1, <2>1, HeaderReplaced DEF WellFormed, ResponseType
<1> QED
  BY <1>2, <1>3

\* The downgrade touches no field, only version and flags, and only downwards.
LEMMA DowngradeFacts ==
    ASSUME NEW r, WellFormed(r)
    PROVE  LET s == Downgrade(r)
           IN  /\ WellFormed(s)
               /\ s.header = r.header
               /\ Less(s.requestVersion, Version(1, 0)) =>
                      s.httpVersion = Version(0, 9) /\ ~s.keepAlive
               /\ Less(s.requestVersion, Version(1, 1)) => ~s.chunked
               /\ s.keepAlive => r.keepAlive
               /\ s.requestVersion = r.requestVersion
               /\ s.httpVersion # r.httpVersion =>
                      ~s.keepAlive /\ Less(s.requestVersion, Version(1, 0))
<1> DEFINE old == Less(r.requestVersion, Version(1, 0))
           elder == Less(r.requestVersion, Version(1, 1))
           ver == IF old THEN Version(0, 9) ELSE r.httpVersion
           keep == r.keepAlive /\ ~old
           chunk == r.chunked /\ ~elder
<1>1. ver \in Versions /\ keep \in BOOLEAN /\ chunk \in BOOLEAN
  BY VersionFacts DEF WellFormed, ResponseType
<1>2. Downgrade(r) = [r EXCEPT !.httpVersion = ver, !.keepAlive = keep,
                               !.chunked = chunk]
  BY DEF Downgrade
<1> HIDE DEF ver, keep, chunk
<1>3. /\ WellFormed(Downgrade(r))
      /\ Downgrade(r).header = r.header
      /\ Downgrade(r).httpVersion = ver
      /\ Downgrade(r).keepAlive = keep
      /\ Downgrade(r).chunked = chunk
      /\ Downgrade(r).requestVersion = r.requestVersion
  BY <1>1, <1>2 DEF WellFormed, ResponseType
<1> QED
  BY <1>3 DEF ver, keep, chunk

\* The message-length paragraph leaves the response framed and the connection
\* flag alone.
LEMMA FrameMessageFacts ==
    ASSUME NEW r, WellFormed(r)
    PROVE  LET s == FrameMessage(r)
           IN  /\ WellFormed(s)
               /\ Framed(s)
               /\ Has(r.header, "server") => Has(s.header, "server")
               /\ s.httpVersion = r.httpVersion
               /\ s.requestVersion = r.requestVersion
               /\ s.chunked = r.chunked /\ s.keepAlive = r.keepAlive
<1> DEFINE h == r.header
           del == DeleteField(h, "content-length")
           coded == SetSingle(h, "transfer-encoding", Text("chunked"))
           codedDel == DeleteField(coded, "content-length")
           measured == SetSingle(h, "content-length", MeasuredLength(r))
<1>1. /\ HeaderType(h) /\ Ordered(h)
      /\ Len(r.body) \in Nat
  BY DEF WellFormed, ResponseType
<1>2. /\ Text("chunked") \in Values /\ MeasuredLength(r) \in Values
      /\ {"server", "content-type", "content-length", "transfer-encoding"}
             \subseteq FieldNames
  BY <1>1, ValuesType, TextsAssumption, FieldNamesAssumption DEF MeasuredLength
<1>3. /\ HeaderType(del) /\ Ordered(del)
      /\ DOMAIN del.single = DOMAIN h.single \ {"content-length"}
      /\ \A f \in DOMAIN h.single \ {"content-length"} :
            del.single[f] = h.single[f]
  BY <1>1, <1>2, DeleteFieldOrdered
<1>4. /\ HeaderType(coded) /\ Ordered(coded)
      /\ DOMAIN coded.single = DOMAIN h.single \cup {"transfer-encoding"}
      /\ coded.single["transfer-encoding"] = Text("chunked")
  <2>1. "transfer-encoding" \in FieldNames
    BY <1>2
  <2> HIDE DEF h
  <2> QED
    <3>1. HeaderType(h) /\ Ordered(h) /\ Text("chunked") \in Values
      BY <1>1, <1>2
    <3>2. LET g == SetSingle(h, "transfer-encoding", Text("chunked"))
          IN  /\ HeaderType(g)
              /\ Ordered(g)
              /\ DOMAIN g.single = DOMAIN h.single \cup {"transfer-encoding"}
              /\ g.single["transfer-encoding"] = Text("chunked")
      BY <2>1, <3>1, SetSingleOrdered
    <3> QED
      BY <3>2
<1> HIDE DEF coded
<1>5. /\ HeaderType(codedDel) /\ Ordered(codedDel)
      /\ DOMAIN codedDel.single = DOMAIN coded.single \ {"content-length"}
      /\ \A f \in DOMAIN coded.single \ {"content-length"} :
            codedDel.single[f] = coded.single[f]
  BY <1>2, <1>4, DeleteFieldOrdered
<1>6. /\ HeaderType(measured) /\ Ordered(measured)
      /\ DOMAIN measured.single = DOMAIN h.single \cup {"content-length"}
      /\ \A f \in DOMAIN h.single \ {"content-length"} :
            measured.single[f] = h.single[f]
  <2> DEFINE length == MeasuredLength(r)
  <2>1. "content-length" \in FieldNames /\ length \in Values
    BY <1>2
  <2>2. HeaderType(h) /\ Ordered(h)
    BY <1>1
  <2> HIDE DEF h, length
  <2>3. LET g == SetSingle(h, "content-length", length)
        IN  /\ HeaderType(g)
            /\ Ordered(g)
            /\ DOMAIN g.single = DOMAIN h.single \cup {"content-length"}
            /\ \A f \in DOMAIN h.single \ {"content-length"} :
                  g.single[f] = h.single[f]
    BY <2>1, <2>2, SetSingleOrdered
  <2> QED
    BY <2>3 DEF length
<1> HIDE DEF del, codedDel, measured, h
<1>7. CASE BodylessStatus(r.status)
  <2>1. FrameMessage(r) = [r EXCEPT !.header = del, !.body = <<>>]
    BY <1>7 DEF FrameMessage, del, h
  <2>2. <<>> \in Seq(Nat)
    OBVIOUS
  <2>3. /\ WellFormed(FrameMessage(r))
        /\ FrameMessage(r).header = del
        /\ FrameMessage(r).body = <<>> /\ FrameMessage(r).status = r.status
        /\ FrameMessage(r).httpVersion = r.httpVersion
        /\ FrameMessage(r).requestVersion = r.requestVersion
        /\ FrameMessage(r).chunked = r.chunked
        /\ FrameMessage(r).keepAlive = r.keepAlive
    BY <1>3, <2>1, <2>2 DEF WellFormed, ResponseType
  <2> QED
    BY <1>3, <1>7, <2>3 DEF Framed, Has, h
<1>8. ASSUME NEW g, HeaderType(g), Ordered(g),
             FrameMessage(r) = [r EXCEPT !.header = g]
      PROVE  /\ WellFormed(FrameMessage(r))
             /\ FrameMessage(r).header = g
             /\ FrameMessage(r).body = r.body
             /\ FrameMessage(r).status = r.status
             /\ FrameMessage(r).httpVersion = r.httpVersion
             /\ FrameMessage(r).requestVersion = r.requestVersion
             /\ FrameMessage(r).chunked = r.chunked
             /\ FrameMessage(r).keepAlive = r.keepAlive
  BY <1>8 DEF WellFormed, ResponseType
<1>9. CASE ~BodylessStatus(r.status) /\ r.chunked
  <2>1. FrameMessage(r) = [r EXCEPT !.header = codedDel]
    BY <1>9 DEF FrameMessage, codedDel, coded, h
  <2> QED
    BY <1>4, <1>5, <1>8, <1>9, <2>1 DEF Framed, Has, h
<1>10. CASE /\ ~BodylessStatus(r.status) /\ ~r.chunked
            /\ Lookup(h, "content-type") = Text("multipart/byteranges")
  <2>1. FrameMessage(r) = [r EXCEPT !.header = del]
    BY <1>10 DEF FrameMessage, del, h
  <2>2. Lookup(del, "content-type") = Lookup(h, "content-type")
    BY <1>3 DEF Lookup, Has
  <2> QED
    BY <1>3, <1>8, <1>10, <2>1, <2>2 DEF Framed, Has, h
<1>11. CASE /\ ~BodylessStatus(r.status) /\ ~r.chunked
            /\ Lookup(h, "content-type") # Text("multipart/byteranges")
            /\ ~Has(h, "content-length")
  <2>1. FrameMessage(r) = [r EXCEPT !.header = measured]
    BY <1>11 DEF FrameMessage, measured, h
  <2>2. Lookup(measured, "content-type") = Lookup(h, "content-type")
    BY <1>6 DEF Lookup, Has
  <2> QED
    BY <1>6, <1>8, <1>11, <2>1, <2>2 DEF Framed, Has, h
<1>12. CASE /\ ~BodylessStatus(r.status) /\ ~r.chunked
            /\ Lookup(h, "content-type") # Text("multipart/byteranges")
            /\ Has(h, "content-length")
  <2>1. FrameMessage(r) = r
    BY <1>12 DEF FrameMessage, h
  <2> QED
    BY <1>12, <2>1 DEF Framed, h
<1> QED
  BY <1>7, <1>9, <1>10, <1>11, <1>12

\* The last paragraph makes flag and Connection field agree and undoes none of
\* the framing.
LEMMA DecideConnectionFacts ==
    ASSUME NEW r, WellFormed(r), Framed(r), Has(r.header, "server")
    PROVE  LET s == DecideConnection(r)
           IN  /\ WellFormed(s) /\ Framed(s)
               /\ Has(s.header, "server") /\ Has(s.header, "connection")
               /\ s.header.single["connection"] =
                      Text(IF s.keepAlive THEN "Keep-Alive" ELSE "close")
               /\ s.keepAlive => SelfDelimiting(s) /\ r.keepAlive
               /\ s.httpVersion = r.httpVersion
               /\ s.requestVersion = r.requestVersion
               /\ s.chunked = r.chunked
<1> DEFINE h == r.header
           s == DecideConnection(r)
<1>1. HeaderType(h) /\ Ordered(h) /\ "connection" \in FieldNames
  BY FieldNamesAssumption DEF WellFormed, ResponseType
<1>2. CASE Lookup(h, "connection") = Text("close")
  <2>1. Has(h, "connection") /\ h.single["connection"] = Text("close")
    BY <1>2 DEF Lookup, Text
  <2>2. s = [r EXCEPT !.keepAlive = FALSE]
    BY <1>2 DEF DecideConnection
  <2> HIDE DEF s
  <2>3. PICK k \in BOOLEAN : k = FALSE
    OBVIOUS
  <2>4. s = [r EXCEPT !.keepAlive = k]
    BY <2>2, <2>3
  <2>5. /\ WellFormed(s) /\ s.keepAlive = FALSE
        /\ s.header = h /\ s.status = r.status /\ s.body = r.body
        /\ s.httpVersion = r.httpVersion
        /\ s.requestVersion = r.requestVersion /\ s.chunked = r.chunked
    BY <2>3, <2>4 DEF WellFormed, ResponseType
  <2> QED
    BY <2>1, <2>5 DEF Framed, s
<1>3. CASE Lookup(h, "connection") # Text("close")
  <2> DEFINE keep == r.keepAlive /\ SelfDelimiting(r)
             val == Text(IF keep THEN "Keep-Alive" ELSE "close")
             g == SetSingle(h, "connection", val)
  <2>1. keep \in BOOLEAN /\ val \in Values
    BY ValuesType, TextsAssumption DEF WellFormed, ResponseType
  <2>2. s = [r EXCEPT !.keepAlive = keep, !.header = g]
    BY <1>3 DEF DecideConnection
  <2> HIDE DEF h, keep, val
  <2>3. /\ HeaderType(g) /\ Ordered(g)
        /\ DOMAIN g.single = DOMAIN h.single \cup {"connection"}
        /\ g.single["connection"] = val
        /\ \A f \in DOMAIN h.single \ {"connection"} : g.single[f] = h.single[f]
    BY <1>1, <2>1, SetSingleOrdered
  <2> HIDE DEF g, s
  <2>4. /\ WellFormed(s) /\ s.keepAlive = keep /\ s.header = g
        /\ s.status = r.status /\ s.body = r.body
        /\ s.httpVersion = r.httpVersion
        /\ s.requestVersion = r.requestVersion /\ s.chunked = r.chunked
    BY <2>1, <2>2, <2>3 DEF WellFormed, ResponseType
  <2>5. /\ \A f \in {"server", "content-length", "transfer-encoding"} :
              Has(g, f) <=> Has(h, f)
        /\ Has(h, "transfer-encoding") =>
              g.single["transfer-encoding"] = h.single["transfer-encoding"]
        /\ Lookup(g, "content-type") = Lookup(h, "content-type")
    BY <2>3 DEF Has, Lookup
  <2>6. Framed(s)
    BY <2>4, <2>5 DEF Framed, h
  <2>7. SelfDelimiting(r) <=> SelfDelimiting(s)
    BY <2>4, <2>5 DEF SelfDelimiting, h
  <2>8. Has(g, "connection")
    BY <2>3 DEF Has
  <2> QED
    BY <2>3, <2>4, <2>5, <2>6, <2>7, <2>8 DEF s, keep, val, h
<1> QED
  BY <1>2, <1>3

\* Bytes' first step settles any response; it never revives keepAlive, and
\* only a client older than HTTP/1.0 has it turn a response headless.
THEOREM SetupHeaderSettles ==
    ASSUME NEW r, WellFormed(r)
    PROVE  LET s == SetupHeader(r)
           IN  /\ WellFormed(s)
               /\ Settled(s)
               /\ s.keepAlive => r.keepAlive /\ s.httpVersion = r.httpVersion
               /\ s.requestVersion = r.requestVersion
               /\ s.httpVersion # r.httpVersion =>
                      Less(s.requestVersion, Version(1, 0))
<1> DEFINE a == SeedServer(r)
           b == Downgrade(a)
           c == FrameMessage(b)
           d == DecideConnection(c)
<1>1. /\ WellFormed(a) /\ Has(a.header, "server")
      /\ a.keepAlive = r.keepAlive /\ a.httpVersion = r.httpVersion
      /\ a.requestVersion = r.requestVersion
  BY SeedServerFacts
<1> HIDE DEF a
<1>2. /\ WellFormed(b) /\ b.header = a.header
      /\ Less(b.requestVersion, Version(1, 0)) =>
             b.httpVersion = Version(0, 9) /\ ~b.keepAlive
      /\ Less(b.requestVersion, Version(1, 1)) => ~b.chunked
      /\ b.keepAlive => a.keepAlive
      /\ b.requestVersion = a.requestVersion
      /\ b.httpVersion # a.httpVersion =>
             ~b.keepAlive /\ Less(b.requestVersion, Version(1, 0))
  BY <1>1, DowngradeFacts
<1> HIDE DEF b
<1>3. /\ WellFormed(c) /\ Framed(c)
      /\ Has(b.header, "server") => Has(c.header, "server")
      /\ c.httpVersion = b.httpVersion
      /\ c.requestVersion = b.requestVersion
      /\ c.chunked = b.chunked /\ c.keepAlive = b.keepAlive
  BY <1>2, FrameMessageFacts
<1> HIDE DEF c
<1>4. /\ WellFormed(d) /\ Framed(d)
      /\ Has(d.header, "server") /\ Has(d.header, "connection")
      /\ d.header.single["connection"] =
             Text(IF d.keepAlive THEN "Keep-Alive" ELSE "close")
      /\ d.keepAlive => SelfDelimiting(d) /\ c.keepAlive
      /\ d.httpVersion = c.httpVersion
      /\ d.requestVersion = c.requestVersion
      /\ d.chunked = c.chunked
  BY <1>1, <1>2, <1>3, DecideConnectionFacts
<1> HIDE DEF d
<1>5. SetupHeader(r) = d
  BY DEF SetupHeader, a, b, c, d
<1>6. Settled(d)
  BY <1>2, <1>3, <1>4 DEF Settled
<1> QED
  BY <1>1, <1>2, <1>3, <1>4, <1>5, <1>6

\* A settled response is a fixed point of the pass.
THEOREM SettledIsFixed ==
    ASSUME NEW r, WellFormed(r), Settled(r)
    PROVE  SetupHeader(r) = r
<1> DEFINE h == r.header
<1>1. HeaderType(h)
  BY DEF WellFormed, ResponseType
<1>2. \A g : g = h => [r EXCEPT !.header = g] = r
  BY DEF WellFormed, ResponseType
<1>3. SeedServer(r) = r
  BY DEF SeedServer, Settled
<1>4. Downgrade(r) = r
  <2> DEFINE old == Less(r.requestVersion, Version(1, 0))
             ver == IF old THEN Version(0, 9) ELSE r.httpVersion
             keep == r.keepAlive /\ ~old
             chunk == r.chunked /\ ~Less(r.requestVersion, Version(1, 1))
  <2>1. ver = r.httpVersion /\ keep = r.keepAlive /\ chunk = r.chunked
    BY DEF Settled, WellFormed, ResponseType
  <2>2. Downgrade(r) = [r EXCEPT !.httpVersion = ver, !.keepAlive = keep,
                                 !.chunked = chunk]
    BY DEF Downgrade
  <2> HIDE DEF ver, keep, chunk
  <2> QED
    BY <2>1, <2>2 DEF WellFormed, ResponseType
<1>5. FrameMessage(r) = r
  <2>1. CASE BodylessStatus(r.status)
    <3>1. ~Has(h, "content-length") /\ r.body = <<>>
      BY <2>1 DEF Settled, Framed
    <3>2. FrameMessage(r) = [r EXCEPT !.header = h, !.body = r.body]
      BY <2>1, <3>1, DeleteAbsent DEF FrameMessage
    <3> QED
      BY <3>2 DEF WellFormed, ResponseType
  <2>2. CASE ~BodylessStatus(r.status) /\ r.chunked
    <3>1. /\ ~Has(h, "content-length") /\ Has(h, "transfer-encoding")
          /\ h.single["transfer-encoding"] = Text("chunked")
      BY <2>2 DEF Settled, Framed
    <3>2. SetSingle(h, "transfer-encoding", Text("chunked")) = h
      BY <1>1, <3>1, SetSingleSame
    <3>3. FrameMessage(r) = [r EXCEPT !.header = h]
      BY <2>2, <3>1, <3>2, DeleteAbsent DEF FrameMessage
    <3> QED
      BY <1>2, <3>3
  <2>3. CASE ~BodylessStatus(r.status) /\ ~r.chunked
    <3>1. Has(h, "content-length") <=>
            Lookup(h, "content-type") # Text("multipart/byteranges")
      BY <2>3 DEF Settled, Framed
    <3>2. CASE Lookup(h, "content-type") = Text("multipart/byteranges")
      <4>1. FrameMessage(r) = [r EXCEPT !.header = h]
        BY <2>3, <3>1, <3>2, DeleteAbsent DEF FrameMessage
      <4> QED
        BY <1>2, <4>1
    <3>3. CASE Lookup(h, "content-type") # Text("multipart/byteranges")
      BY <2>3, <3>1, <3>3 DEF FrameMessage
    <3> QED
      BY <3>2, <3>3
  <2> QED
    BY <2>1, <2>2, <2>3
<1>6. DecideConnection(r) = r
  <2>1. Has(h, "connection") /\ r.keepAlive \in BOOLEAN
    BY DEF Settled, WellFormed, ResponseType
  <2>2. CASE r.keepAlive
    <3>1. h.single["connection"] = Text("Keep-Alive") /\ SelfDelimiting(r)
      BY <2>2 DEF Settled
    <3>2. Lookup(h, "connection") # Text("close")
      BY <2>1, <3>1 DEF Lookup, Text
    <3>3. SetSingle(h, "connection", Text("Keep-Alive")) = h
      BY <1>1, <2>1, <3>1, SetSingleSame
    <3>4. DecideConnection(r) = [r EXCEPT !.keepAlive = r.keepAlive, !.header = h]
      BY <2>2, <3>1, <3>2, <3>3 DEF DecideConnection
    <3> QED
      BY <3>4 DEF WellFormed, ResponseType
  <2>3. CASE ~r.keepAlive
    <3>1. Lookup(h, "connection") = Text("close")
      BY <2>1, <2>3 DEF Settled, Lookup
    <3>2. DecideConnection(r) = [r EXCEPT !.keepAlive = r.keepAlive]
      BY <2>1, <2>3, <3>1 DEF DecideConnection
    <3> QED
      BY <3>2 DEF WellFormed, ResponseType
  <2> QED
    BY <2>2, <2>3
<1> QED
  BY <1>3, <1>4, <1>5, <1>6 DEF SetupHeader

\* Rendering a response a second time changes nothing: the pass is idempotent.
THEOREM SetupHeaderIdempotent ==
    ASSUME NEW r, WellFormed(r)
    PROVE  SetupHeader(SetupHeader(r)) = SetupHeader(r)
  BY SetupHeaderSettles, SettledIsFixed

-----------------------------------------------------------------------------
(* The recipient.  Its recursion over places is a function that satisfies  *)
(* an equation: a lemma exhibits one that does, and unfolds the equation   *)
(* only where a chunk starts.                                              *)

\* What payloads are sequences of.
Atoms == [kind : {"byte", "size", "crlf"}, val : Nat]

\* What the atoms are made of.
LEMMA AtomFacts ==
    /\ \A b : Byte(b).kind = "byte" /\ Byte(b).val = b
    /\ \A n : Size(n).kind = "size" /\ Size(n).val = n
    /\ CrLf.kind = "crlf" /\ CrLf.val = 0
  BY DEF Byte, Size, CrLf

\* A body is the content of its own bytes, and bytes are all there is to it.
LEMMA PayloadOfBody ==
    ASSUME NEW body \in Seq(Nat)
    PROVE  /\ AsPayload(body) \in Seq(Atoms)
           /\ Len(AsPayload(body)) = Len(body)
           /\ \A i \in 1..Len(body) : AsPayload(body)[i] = Byte(body[i])
           /\ AllBytes(AsPayload(body))
           /\ Content(AsPayload(body)) = body
<1> DEFINE p == AsPayload(body)
           n == Len(body)
<1>1. /\ n \in Nat /\ body = [i \in 1..n |-> body[i]]
      /\ \A i \in 1..n : body[i] \in Nat
  OBVIOUS
<1>2. p = [i \in 1..n |-> Byte(body[i])]
  BY DEF AsPayload
<1>3. \A i \in 1..n : p[i] = Byte(body[i]) /\ Byte(body[i]) \in Atoms
  BY <1>1, <1>2 DEF Byte, Atoms
<1>4. p \in Seq(Atoms) /\ Len(p) = n
  BY <1>1, <1>2, <1>3
<1> HIDE DEF p, n
<1>5. /\ \A i \in 1..n : p[i].kind = "byte" /\ p[i].val = body[i]
      /\ AllBytes(p)
  <2>1. \A i \in 1..n : p[i].kind = "byte" /\ p[i].val = body[i]
    <3> TAKE i \in 1..n
    <3>1. p[i] = Byte(body[i])
      BY <1>3
    <3> QED
      BY <3>1, AtomFacts, Zenon
  <2> QED
    BY <1>4, <2>1, Zenon DEF AllBytes
<1>6. Content(p) = body
  <2>1. Content(p) = [i \in 1..n |-> p[i].val]
    BY <1>4 DEF Content
  <2>2. [i \in 1..n |-> p[i].val] = [i \in 1..n |-> body[i]]
    BY <1>5
  <2> QED
    BY <1>1, <2>1, <2>2
<1> QED
  BY <1>3, <1>4, <1>5, <1>6 DEF p, n

\* Dechunk unfolds: whatever function satisfies its recursion shows that one
\* does, and then Dechunk is what some such function gives for the first place.
LEMMA DechunkUnfolds ==
    ASSUME NEW p, NEW e, e = [i \in 1..(Len(p) + 1) |-> ReadChunk(p, e, i)]
    PROVE  \E d : /\ d = [i \in 1..(Len(p) + 1) |-> ReadChunk(p, d, i)]
                  /\ Dechunk(p) = d[1]
  BY DEF Dechunk

\* Without a chunk size in it a payload makes no sense as chunks.
LEMMA DechunkOfBytes ==
    ASSUME NEW p \in Seq(Atoms), AllBytes(p)
    PROVE  Dechunk(p) = Garbled
<1> DEFINE e == [i \in 1..(Len(p) + 1) |-> Garbled]
<1>1. Len(p) \in Nat
  OBVIOUS
<1>2. \A i \in 1..(Len(p) + 1) : ~SizeAt(p, i)
  BY <1>1 DEF SizeAt, AllBytes
<1>3. \A f : \A i \in 1..(Len(p) + 1) : ReadChunk(p, f, i) = Garbled
  BY <1>2 DEF ReadChunk
<1>4. e = [i \in 1..(Len(p) + 1) |-> ReadChunk(p, e, i)]
  <2>1. \A i \in 1..(Len(p) + 1) : ReadChunk(p, e, i) = Garbled
    BY <1>3
  <2> HIDE DEF e
  <2>2. [i \in 1..(Len(p) + 1) |-> ReadChunk(p, e, i)]
          = [i \in 1..(Len(p) + 1) |-> Garbled]
    BY <2>1
  <2> QED
    BY <2>2 DEF e
<1> HIDE DEF e
<1>5. PICK d : /\ d = [i \in 1..(Len(p) + 1) |-> ReadChunk(p, d, i)]
               /\ Dechunk(p) = d[1]
  BY <1>4, DechunkUnfolds
<1>6. d[1] = ReadChunk(p, d, 1)
  BY <1>1, <1>5
<1> QED
  BY <1>1, <1>3, <1>5, <1>6

\* One chunk holding the body and the chunk that ends the message: what comes
\* out is the body, and nothing is left over.
LEMMA DechunkOfOneChunk ==
    ASSUME NEW body \in Seq(Nat), NEW p \in Seq(Atoms),
           NEW n, n = Len(body), n > 0, Len(p) = n + 6,
           p[1] = Size(n), p[2] = CrLf, p[n + 3] = CrLf,
           p[n + 4] = Size(0), p[n + 5] = CrLf, p[n + 6] = CrLf,
           \A i \in 1..n : p[i + 2] = Byte(body[i])
    PROVE  Dechunk(p) = Reads(body, <<>>)
<1> DEFINE places == 1..(Len(p) + 1)
<1>1. n \in Nat /\ places = 1..(n + 7) /\ 1 \in places /\ n + 4 \in places
  OBVIOUS
<1>2. /\ SizeAt(p, 1) /\ ChunkEnd(p, 1) = n + 3 /\ p[1].val = n
      /\ SizeAt(p, n + 4) /\ ChunkEnd(p, n + 4) = n + 6 /\ p[n + 4].val = 0
  <2>1. /\ p[1].kind = "size" /\ p[1].val = n
        /\ p[n + 4].kind = "size" /\ p[n + 4].val = 0
    BY DEF Size
  <2>2. (n + 4) + 2 + 0 = n + 6 /\ 1 + 2 + n = n + 3 /\ (n + 4) + 1 = n + 5
    BY <1>1
  <2> QED
    BY <1>1, <2>1, <2>2 DEF SizeAt, ChunkEnd
<1>3. \A i \in places : i # 1 /\ i # n + 4 => ~SizeAt(p, i)
  <2> SUFFICES ASSUME NEW i \in places, i # 1, i # n + 4, i < Len(p)
               PROVE  p[i].kind # "size"
    BY DEF SizeAt
  <2>1. CASE i = 2 \/ i = n + 3 \/ i = n + 5
    BY <2>1 DEF CrLf
  <2>2. CASE i \in 3..(n + 2)
    <3>1. PICK j \in 1..n : i = j + 2
      BY <1>1, <2>2
    <3>2. p[i] = Byte(body[j])
      BY <3>1
    <3> QED
      BY <3>2, AtomFacts
  <2> QED
    BY <1>1, <2>1, <2>2
<1>4. From(p, n + 7) = <<>>
  BY <1>1 DEF From
<1>5. /\ Chunk(p, 1) = AsPayload(body)
      /\ AllBytes(Chunk(p, 1)) /\ Content(Chunk(p, 1)) = body
  <2>1. Chunk(p, 1) = SubSeq(p, 3, n + 2)
    BY <1>1, <1>2 DEF Chunk
  <2>2. SubSeq(p, 3, n + 2) = [i \in 1..n |-> p[i + 2]]
    BY <1>1
  <2>3. [i \in 1..n |-> p[i + 2]] = [i \in 1..n |-> Byte(body[i])]
    OBVIOUS
  <2> QED
    BY <2>1, <2>2, <2>3, PayloadOfBody DEF AsPayload
<1>6. \A f : ReadChunk(p, f, n + 4) = Reads(<<>>, <<>>)
  <2>1. (n + 4) + 3 = n + 7 /\ ~(n + 6 > Len(p))
    BY <1>1
  <2> QED
    BY <1>2, <1>4, <2>1 DEF ReadChunk
<1>7. ASSUME NEW f, f[n + 4] = Reads(<<>>, <<>>)
      PROVE  ReadChunk(p, f, 1) = Reads(body, <<>>)
  <2>1. /\ ~(ChunkEnd(p, 1) > Len(p)) /\ p[ChunkEnd(p, 1)] = CrLf
        /\ p[1].val # 0 /\ ChunkEnd(p, 1) + 1 = n + 4
    BY <1>1, <1>2
  <2>2. ReadChunk(p, f, 1)
          = [f[ChunkEnd(p, 1) + 1] EXCEPT !.body = Content(Chunk(p, 1)) \o @]
    BY <1>2, <1>5, <2>1, Zenon DEF ReadChunk
  <2>3. ReadChunk(p, f, 1) = [Reads(<<>>, <<>>) EXCEPT !.body = body \o @]
    BY <1>5, <1>7, <2>1, <2>2
  <2>4. body \o <<>> = body
    OBVIOUS
  <2> QED
    BY <2>3, <2>4 DEF Reads
<1>8. \A f : \A i \in places : i # 1 /\ i # n + 4 => ReadChunk(p, f, i) = Garbled
  BY <1>3 DEF ReadChunk
<1> DEFINE e == [i \in places |->
                   IF i = 1 THEN Reads(body, <<>>)
                   ELSE IF i = n + 4 THEN Reads(<<>>, <<>>) ELSE Garbled]
<1>9. e = [i \in places |-> ReadChunk(p, e, i)]
  <2>1. e[n + 4] = Reads(<<>>, <<>>)
    BY <1>1
  <2>2. \A i \in places : ReadChunk(p, e, i) = e[i]
    <3> TAKE i \in places
    <3>1. e[i] = IF i = 1 THEN Reads(body, <<>>)
                 ELSE IF i = n + 4 THEN Reads(<<>>, <<>>) ELSE Garbled
      OBVIOUS
    <3> HIDE DEF e
    <3>2. ReadChunk(p, e, 1) = Reads(body, <<>>)
      BY <1>7, <2>1
    <3> QED
      BY <1>6, <1>8, <3>1, <3>2
  <2>3. e = [i \in places |-> e[i]]
    OBVIOUS
  <2> HIDE DEF e
  <2> QED
    BY <2>2, <2>3
<1> HIDE DEF e
<1>10. PICK d : /\ d = [i \in places |-> ReadChunk(p, d, i)]
                /\ Dechunk(p) = d[1]
  BY <1>9, DechunkUnfolds
<1>11. d[1] = ReadChunk(p, d, 1) /\ d[n + 4] = ReadChunk(p, d, n + 4)
  BY <1>1, <1>10
<1> QED
  BY <1>6, <1>7, <1>10, <1>11

\* The chunk that ends the message, and no other: an empty body.
LEMMA DechunkOfNoChunk ==
    Dechunk(<<Size(0), CrLf, CrLf>>) = Reads(<<>>, <<>>)
<1> DEFINE p == <<Size(0), CrLf, CrLf>>
           e == [i \in 1..(Len(p) + 1) |->
                   IF i = 1 THEN Reads(<<>>, <<>>) ELSE Garbled]
<1>1. /\ Len(p) = 3 /\ p[1] = Size(0) /\ p[2] = CrLf /\ p[3] = CrLf
      /\ From(p, 4) = <<>>
  BY DEF From
<1> HIDE DEF p
<1>2. SizeAt(p, 1) /\ ChunkEnd(p, 1) = 3 /\ p[1].val = 0
  BY <1>1 DEF SizeAt, ChunkEnd, Size
<1>3. \A i \in 1..(Len(p) + 1) : i # 1 => ~SizeAt(p, i)
  BY <1>1 DEF SizeAt, CrLf
<1>4. \A f : /\ ReadChunk(p, f, 1) = Reads(<<>>, <<>>)
             /\ \A i \in 1..(Len(p) + 1) : i # 1 => ReadChunk(p, f, i) = Garbled
  BY <1>1, <1>2, <1>3 DEF ReadChunk
<1>5. e = [i \in 1..(Len(p) + 1) |-> ReadChunk(p, e, i)]
  <2>1. \A i \in 1..(Len(p) + 1) :
           ReadChunk(p, e, i) = IF i = 1 THEN Reads(<<>>, <<>>) ELSE Garbled
    <3> HIDE DEF e
    <3> QED BY <1>4
  <2> QED
    BY <2>1
<1> HIDE DEF e
<1>6. PICK d : /\ d = [i \in 1..(Len(p) + 1) |-> ReadChunk(p, d, i)]
               /\ Dechunk(p) = d[1]
  BY <1>5, DechunkUnfolds
<1>7. d[1] = ReadChunk(p, d, 1)
  BY <1>1, <1>6
<1> QED
  BY <1>4, <1>6, <1>7 DEF p

-----------------------------------------------------------------------------
(* The component.                                                          *)
USE DEF WellFormed

\* A message with a head carries exactly the fields of the response.
LEMMA WireCarries ==
    ASSUME NEW r, WellFormed(r), ~HeadOmitted(r), NEW field
    PROVE  /\ Carries(Wire(r), field) <=> Has(r.header, field)
           /\ Has(r.header, field) =>
                FieldOf(Wire(r), field) = r.header.single[field]
<1> DEFINE w == Wire(r)
           n == Len(r.header.order)
<1>1. w.fields = [i \in 1..n |->
                    [name |-> r.header.order[i],
                     val |-> Lookup(r.header, r.header.order[i])]]
  BY DEF Wire
<1>2. n \in Nat
  BY DEF ResponseType, HeaderType
<1>3. /\ Len(w.fields) = n
      /\ \A i \in 1..n : /\ w.fields[i].name = r.header.order[i]
                         /\ w.fields[i].val = Lookup(r.header, r.header.order[i])
  BY <1>1, <1>2
<1> HIDE DEF w, n
<1>4. Carries(w, field) <=> Has(r.header, field)
  <2>1. ASSUME Carries(w, field) PROVE Has(r.header, field)
    <3>1. PICK i \in 1..n : w.fields[i].name = field
      BY <1>3, <2>1 DEF Carries
    <3>2. Has(r.header, r.header.order[i])
      BY DEF Ordered, n
    <3> QED
      BY <1>3, <3>1, <3>2
  <2>2. ASSUME Has(r.header, field) PROVE Carries(w, field)
    <3>1. PICK i \in 1..n : r.header.order[i] = field
      BY <2>2 DEF Ordered, Has, n
    <3> QED
      BY <1>3, <3>1 DEF Carries
  <2>3. Carries(w, field) \in BOOLEAN /\ Has(r.header, field) \in BOOLEAN
    BY DEF Carries, Has
  <2> QED
    BY <2>1, <2>2, <2>3
<1>5. ASSUME Has(r.header, field)
      PROVE  FieldOf(w, field) = r.header.single[field]
  <2> DEFINE k == CHOOSE i \in 1..n : w.fields[i].name = field
  <2>1. \E i \in 1..n : w.fields[i].name = field
    BY <1>3, <1>5, SMTT(30) DEF Ordered, Has, n
  <2>2. k \in 1..n /\ w.fields[k].name = field
    BY <2>1
  <2>3. FieldOf(w, field) = w.fields[k].val
    BY <1>3 DEF FieldOf
  <2> HIDE DEF k
  <2> QED
    BY <1>3, <1>5, <2>2, <2>3 DEF Lookup
<1> QED
  BY <1>4, <1>5 DEF w

\* A new response satisfies the inductive invariant.
LEMMA InitIInv == Init => IInv
<1> SUFFICES ASSUME Init PROVE IInv
  OBVIOUS
<1>1. ResponseType(res) /\ Ordered(res.header)
  BY NewResponseWellFormed DEF Init
<1>2. res.httpVersion = ConfigVersion /\ ConfigVersion.major # 0
  BY ConfigVersionAssumption DEF Init, NewResponse, Versions
<1>3. TypeOK /\ HeaderOrdered
  <2>1. calls \in 0..MaxCalls
    BY MaxCallsAssumption DEF Init
  <2>2. /\ stage \in {"new", "servlet", "sent", "rejected", "panicked"}
        /\ failed \in BOOLEAN
    BY DEF Init
  <2> QED
    BY <1>1, <2>1, <2>2, Zenon DEF TypeOK, HeaderOrdered
<1>4. ~failed /\ stage # "sent"
  BY DEF Init
<1> QED
  BY <1>2, <1>3, <1>4 DEF IInv

\* What every call that fills the response in keeps, whatever it computes:
\* the response stays well formed and no call sets keepAlive.
LEMMA CallKeepsIInv ==
    ASSUME IInv, NEW r, WellFormed(r), Call(r),
           r.keepAlive => res.keepAlive, r.httpVersion = res.httpVersion,
           r.requestVersion = res.requestVersion,
           failed' \in BOOLEAN, failed' => failed \/ ~r.keepAlive
    PROVE  IInv'
<1> USE DEF IInv, Call
<1>1. calls \in 0..MaxCalls /\ calls' = calls + 1 /\ calls < MaxCalls /\ res' = r
  BY DEF TypeOK
<1>2. stage' \in {"new", "servlet"}
  OBVIOUS
<1>3. TypeOK'
  BY <1>1, <1>2, MaxCallsAssumption DEF TypeOK
<1>4. HeaderOrdered'
  BY <1>1 DEF HeaderOrdered
<1>5. ~(stage' = "new" /\ calls' = 0)
  BY <1>1
<1>6. stage' = "new" => res'.httpVersion = ConfigVersion
  BY <1>1
<1> QED
  BY <1>1, <1>2, <1>3, <1>4, <1>5, <1>6

\* Bytes leaves a settled response and the message written from it.
LEMMA RenderKeepsIInv == IInv /\ Bytes => IInv'
<1> SUFFICES ASSUME IInv, Bytes PROVE IInv'
  OBVIOUS
<1> DEFINE r == SetupHeader(res)
<1>1. WellFormed(res)
  BY DEF IInv, TypeOK, HeaderOrdered
<1>2. /\ WellFormed(r) /\ Settled(r)
      /\ r.keepAlive => res.keepAlive /\ r.httpVersion = res.httpVersion
      /\ r.requestVersion = res.requestVersion
      /\ r.httpVersion # res.httpVersion => Less(r.requestVersion, Version(1, 0))
  BY <1>1, SetupHeaderSettles
<1> HIDE DEF r
<1>3. /\ res' = r /\ failed' = failed /\ calls' = calls
      /\ stage' \in {"rejected", "sent"}
      /\ stage' = "sent" => wire' = Wire(r)
  BY DEF Bytes, r
<1>4. TypeOK' /\ HeaderOrdered'
  BY <1>2, <1>3 DEF IInv, TypeOK, HeaderOrdered
<1>5. r.httpVersion.major = 0 =>
         ~r.keepAlive /\ Less(r.requestVersion, Version(1, 0))
  BY <1>2 DEF IInv
<1>6. failed => ~r.keepAlive
  BY <1>2 DEF IInv
<1> QED
  BY <1>2, <1>3, <1>4, <1>5, <1>6 DEF IInv

\* SetRequest comes before any call, when nothing has failed yet.
LEMMA WireRequestKeepsIInv ==
    ASSUME IInv, NEW req \in Requests, WireRequest(req)
    PROVE  IInv'
<1>1. ~failed /\ res.httpVersion = ConfigVersion /\ WellFormed(res)
  BY DEF IInv, WireRequest, TypeOK, HeaderOrdered
<1>2. /\ req.method \in Methods /\ req.version \in Versions
      /\ req.keepAlive \in BOOLEAN
  BY RequestsAssumption
<1>3. /\ res' = SetRequest(res, req) /\ stage' = "servlet"
      /\ failed' = failed /\ calls' = calls
  BY DEF WireRequest
<1>4. /\ WellFormed(SetRequest(res, req))
      /\ SetRequest(res, req).httpVersion = res.httpVersion
  BY <1>1, <1>2, SetRequestWellFormed
<1>5. TypeOK' /\ HeaderOrdered'
  <2>1. stage' \in {"new", "servlet", "sent", "rejected", "panicked"}
    BY <1>3
  <2> QED
    BY <1>3, <1>4, <2>1 DEF IInv, TypeOK, HeaderOrdered
<1>6. ConfigVersion.major # 0
  BY ConfigVersionAssumption DEF Versions
<1> QED
  BY <1>1, <1>3, <1>4, <1>5, <1>6 DEF IInv

-----------------------------------------------------------------------------
\* One lemma per call: CallKeepsIInv with the response the call computes.
LEMMA SetFieldKeepsIInv ==
    ASSUME IInv, NEW f \in AppFields, SetField(f[1], f[2])
    PROVE  IInv'
<1>1. f[1] \in FieldNames /\ f[2] \in Values /\ WellFormed(res)
  BY AppFieldsAssumption DEF IInv, TypeOK, HeaderOrdered
<1>2. Call(Set(res, f[1], f[2])) /\ failed' = failed
  BY DEF SetField
<1>3. failed \in BOOLEAN
  BY DEF IInv, TypeOK
<1> QED
  BY <1>1, <1>2, <1>3, SetWellFormed, CallKeepsIInv

\* Delete disturbs the header only.
LEMMA DropFieldKeepsIInv ==
    ASSUME IInv, NEW field \in Deletable, DropField(field)
    PROVE  IInv'
<1> DEFINE h == DeleteField(res.header, field)
           r == [res EXCEPT !.header = h]
<1>1. field \in FieldNames /\ WellFormed(res) /\ failed \in BOOLEAN
  BY AppFieldsAssumption DEF IInv, TypeOK, HeaderOrdered
<1>2. HeaderType(h) /\ Ordered(h)
  BY <1>1, DeleteFieldOrdered DEF ResponseType
<1>3. Call(r) /\ failed' = failed
  BY DEF DropField, Delete
<1> HIDE DEF h
<1>4. /\ WellFormed(r) /\ r.keepAlive = res.keepAlive
      /\ r.httpVersion = res.httpVersion
      /\ r.requestVersion = res.requestVersion
  BY <1>1, <1>2, HeaderReplaced DEF ResponseType
<1> QED
  BY <1>1, <1>3, <1>4, CallKeepsIInv

\* SetStatus does not bring a failed response's connection back.
LEMMA ChooseStatusKeepsIInv ==
    ASSUME IInv, NEW code \in Codes, ChooseStatus(code)
    PROVE  IInv'
<1> DEFINE r == [res EXCEPT !.status = code]
<1>1. code \in Int /\ WellFormed(res) /\ failed \in BOOLEAN
  BY CodesAssumption DEF IInv, TypeOK, HeaderOrdered
<1>2. Call(r) /\ failed' = failed
  BY DEF ChooseStatus, SetStatus
<1>3. /\ WellFormed(r) /\ r.keepAlive = res.keepAlive
      /\ r.httpVersion = res.httpVersion
      /\ r.requestVersion = res.requestVersion
  BY <1>1 DEF ResponseType
<1> QED
  BY <1>1, <1>2, <1>3, CallKeepsIInv

\* SetChunked changes the framing flag only.
LEMMA ToggleChunkedKeepsIInv ==
    ASSUME IInv, NEW v \in BOOLEAN, ToggleChunked(v)
    PROVE  IInv'
<1> DEFINE r == [res EXCEPT !.chunked = v]
<1>1. WellFormed(res) /\ failed \in BOOLEAN
  BY DEF IInv, TypeOK, HeaderOrdered
<1>2. Call(r) /\ failed' = failed
  BY DEF ToggleChunked, SetChunked
<1>3. /\ WellFormed(r) /\ r.keepAlive = res.keepAlive
      /\ r.httpVersion = res.httpVersion
      /\ r.requestVersion = res.requestVersion
  BY <1>1, SMTT(30) DEF ResponseType
<1> QED
  BY <1>1, <1>2, <1>3, CallKeepsIInv

\* Assigning Body changes the body only.
LEMMA AssignBodyKeepsIInv ==
    ASSUME IInv, NEW body \in Bodies, AssignBody(body)
    PROVE  IInv'
<1> DEFINE r == [res EXCEPT !.body = body]
<1>1. body \in Seq(Nat) /\ WellFormed(res) /\ failed \in BOOLEAN
  BY BodiesAssumption DEF IInv, TypeOK, HeaderOrdered
<1>2. Call(r) /\ failed' = failed
  BY DEF AssignBody, SetBody
<1>3. /\ WellFormed(r) /\ r.keepAlive = res.keepAlive
      /\ r.httpVersion = res.httpVersion
      /\ r.requestVersion = res.requestVersion
  BY <1>1, BodyReplaced
<1> QED
  BY <1>1, <1>2, <1>3, CallKeepsIInv

\* Appending a cookie changes the cookies only.
LEMMA AppendCookieKeepsIInv ==
    ASSUME IInv, NEW c \in {"plain", "crlf"}, AppendCookie(c)
    PROVE  IInv'
<1> DEFINE kinds == res.cookies \cup {c}
           r == [res EXCEPT !.cookies = kinds]
<1>1. WellFormed(res) /\ failed \in BOOLEAN /\ kinds \subseteq {"plain", "crlf"}
  BY DEF IInv, TypeOK, HeaderOrdered, ResponseType
<1>2. Call(r) /\ failed' = failed
  BY DEF AppendCookie, AddCookie
<1> HIDE DEF kinds
<1>3. /\ WellFormed(r) /\ r.keepAlive = res.keepAlive
      /\ r.httpVersion = res.httpVersion
      /\ r.requestVersion = res.requestVersion
  BY <1>1 DEF ResponseType
<1> QED
  BY <1>1, <1>2, <1>3, CallKeepsIInv

\* SetRedirect sets the body and the Location field.
LEMMA RedirectKeepsIInv ==
    ASSUME IInv, NEW url \in Urls, Redirect(url)
    PROVE  IInv'
<1> DEFINE b == [res EXCEPT !.body = RedirectPage]
           r == Set(b, "location", url)
<1>1. WellFormed(res) /\ failed \in BOOLEAN
  BY DEF IInv, TypeOK, HeaderOrdered
<1>2. Call(r) /\ failed' = failed
  BY DEF Redirect, SetRedirect, SetBody
<1>3. /\ WellFormed(b) /\ b.keepAlive = res.keepAlive
      /\ b.httpVersion = res.httpVersion
      /\ b.requestVersion = res.requestVersion
  BY <1>1, PagesAssumption, BodyReplaced
<1> HIDE DEF b
<1>4. "location" \in FieldNames /\ url \in Values
  BY FieldNamesAssumption, UrlsAssumption
<1>5. /\ WellFormed(r) /\ r.keepAlive = b.keepAlive
      /\ r.httpVersion = b.httpVersion
      /\ r.requestVersion = b.requestVersion
  BY <1>3, <1>4, SetWellFormed
<1> QED
  BY <1>1, <1>2, <1>3, <1>5, CallKeepsIInv

\* SetError with an error that has a message: an error status clears the
\* connection flag.
LEMMA FillErrorKeepsIInv ==
    ASSUME IInv, NEW err \in Errors, FillError(err)
    PROVE  IInv'
<1> DEFINE r == SetError(res, err)
           code == SetErrorStatus(res, err).status
<1>1. err \in Int /\ WellFormed(res) /\ failed \in BOOLEAN
  BY CodesAssumption DEF IInv, TypeOK, HeaderOrdered
<1>2. Call(r) /\ failed' = (failed \/ IsError(code))
  BY DEF FillError
<1>3. /\ WellFormed(r)
      /\ r.keepAlive => res.keepAlive /\ ~IsError(code)
      /\ r.httpVersion = res.httpVersion
      /\ r.requestVersion = res.requestVersion
  BY <1>1, SetErrorWellFormed
<1>4. IsError(code) \in BOOLEAN
  BY DEF IsError
<1> HIDE DEF r, code
<1>5. failed' \in BOOLEAN
  BY <1>1, <1>2, <1>4, Zenon
<1>6. failed' => failed \/ ~r.keepAlive
  BY <1>2, <1>3, Zenon
<1> QED
  BY <1>2, <1>3, <1>5, <1>6, CallKeepsIInv

\* SetError with a nil status: the fields assigned before the panic are those
\* of a failed response.
LEMMA PanicKeepsIInv ==
    ASSUME IInv, NEW err \in Errors, PanicInSetError(err)
    PROVE  IInv'
<1> DEFINE r == SetError(res, err)
           code == SetErrorStatus(res, err).status
<1>1. err \in Int /\ WellFormed(res)
  BY CodesAssumption DEF IInv, TypeOK, HeaderOrdered
<1>2. /\ res' = r /\ stage' = "panicked" /\ failed' = TRUE
      /\ calls' = calls + 1 /\ calls < MaxCalls
  BY DEF PanicInSetError
<1>3. IsError(code)
  <2>1. code = 500
    BY <1>1 DEF PanicInSetError, ErrorBodyPanics, SetErrorStatus, IsStatus,
                ResponseType
  <2> QED
    BY <2>1 DEF IsError
<1>4. WellFormed(r) /\ ~r.keepAlive
  BY <1>1, <1>3, SetErrorWellFormed
<1> HIDE DEF r, code
<1>5. calls' \in 0..MaxCalls /\ calls' # 0
  BY <1>2, MaxCallsAssumption DEF IInv, TypeOK
<1>6. /\ stage' \in {"new", "servlet", "sent", "rejected", "panicked"}
      /\ failed' \in BOOLEAN
  BY <1>2
<1>7. TypeOK' /\ HeaderOrdered'
  BY <1>2, <1>4, <1>5, <1>6, Zenon DEF TypeOK, HeaderOrdered
<1>8. /\ r.httpVersion = res.httpVersion
      /\ r.requestVersion = res.requestVersion
  BY <1>1, SetErrorWellFormed DEF r
<1> QED
  BY <1>2, <1>4, <1>5, <1>7, <1>8 DEF IInv

\* Every step keeps the inductive invariant.
LEMMA NextIInv == IInv /\ [Next]_vars => IInv'
<1> SUFFICES ASSUME IInv, [Next]_vars PROVE IInv'
  OBVIOUS
<1>1. ASSUME NEW req \in Requests, WireRequest(req) PROVE IInv'
  BY <1>1, WireRequestKeepsIInv
<1>2. ASSUME NEW f \in AppFields, SetField(f[1], f[2]) PROVE IInv'
  BY <1>2, SetFieldKeepsIInv
<1>3. ASSUME NEW f \in Deletable, DropField(f) PROVE IInv'
  BY <1>3, DropFieldKeepsIInv
<1>4. ASSUME NEW code \in Codes, ChooseStatus(code) PROVE IInv'
  BY <1>4, ChooseStatusKeepsIInv
<1>5. ASSUME NEW v \in BOOLEAN, ToggleChunked(v) PROVE IInv'
  BY <1>5, ToggleChunkedKeepsIInv
<1>6. ASSUME NEW body \in Bodies, AssignBody(body) PROVE IInv'
  BY <1>6, AssignBodyKeepsIInv
<1>7. ASSUME NEW c \in {"plain", "crlf"}, AppendCookie(c) PROVE IInv'
  BY <1>7, AppendCookieKeepsIInv
<1>8. ASSUME NEW url \in Urls, Redirect(url) PROVE IInv'
  BY <1>8, RedirectKeepsIInv
<1>9. ASSUME NEW err \in Errors, FillError(err) PROVE IInv'
  BY <1>9, FillErrorKeepsIInv
<1>10. ASSUME NEW err \in Errors, PanicInSetError(err) PROVE IInv'
  BY <1>10, PanicKeepsIInv
<1>11. CASE Bytes
  BY <1>11, RenderKeepsIInv
<1>12. CASE UNCHANGED vars
  BY <1>12 DEF vars, IInv, TypeOK, HeaderOrdered
<1> QED
  BY <1>1, <1>2, <1>3, <1>4, <1>5, <1>6, <1>7, <1>8, <1>9, <1>10, <1>11, <1>12
     DEF Next

\* IInv holds in every reachable state.
THEOREM IInvHolds == Spec => []IInv
<1>1. Init => IInv
  BY InitIInv
<1>2. IInv /\ [Next]_vars => IInv'
  BY NextIInv
<1> QED
  BY <1>1, <1>2, PTL DEF Spec

-----------------------------------------------------------------------------
\* A settled response and the message written from it agree on the connection.
LEMMA SettledAgrees ==
    ASSUME NEW r, WellFormed(r), Settled(r),
           r.httpVersion.major = 0 => ~r.keepAlive
    PROVE  /\ r.keepAlive <=> KeepsOpen(Wire(r))
           /\ r.keepAlive =>
                \/ BodylessStatus(Wire(r).status)
                \/ Carries(Wire(r), "content-length")
                \/ /\ Carries(Wire(r), "transfer-encoding")
                   /\ FieldOf(Wire(r), "transfer-encoding") = Text("chunked")
<1>1. /\ Wire(r).simple = HeadOmitted(r) /\ Wire(r).status = r.status
      /\ HeadOmitted(r) => ~r.keepAlive
      /\ r.keepAlive \in BOOLEAN
  BY DEF Wire, HeadOmitted, ResponseType
<1>2. CASE HeadOmitted(r)
  BY <1>1, <1>2 DEF KeepsOpen
<1>3. CASE ~HeadOmitted(r)
  <2>1. /\ Carries(Wire(r), "connection")
        /\ FieldOf(Wire(r), "connection") =
              Text(IF r.keepAlive THEN "Keep-Alive" ELSE "close")
    BY <1>3, WireCarries DEF Settled
  <2>2. r.keepAlive <=> FieldOf(Wire(r), "connection").text # "close"
    <3>1. CASE r.keepAlive
      <4>1. FieldOf(Wire(r), "connection") = Text("Keep-Alive")
        BY <2>1, <3>1
      <4> QED
        BY <3>1, <4>1 DEF Text
    <3>2. CASE ~r.keepAlive
      <4>1. FieldOf(Wire(r), "connection") = Text("close")
        BY <2>1, <3>2
      <4> QED
        BY <3>2, <4>1 DEF Text
    <3> QED
      BY <1>1, <3>1, <3>2
  <2>3. r.keepAlive <=> KeepsOpen(Wire(r))
    BY <1>1, <1>3, <2>1, <2>2 DEF KeepsOpen
  <2>4. ASSUME r.keepAlive, ~BodylessStatus(r.status),
               ~Has(r.header, "content-length")
        PROVE  /\ Has(r.header, "transfer-encoding")
               /\ r.header.single["transfer-encoding"] = Text("chunked")
    <3>1. r.chunked
      BY <2>4 DEF Settled, SelfDelimiting
    <3> QED
      BY <2>4, <3>1 DEF Settled, Framed
  <2> QED
    BY <1>1, <1>3, <2>3, <2>4, WireCarries
<1> QED
  BY <1>2, <1>3

\* Every variable keeps its shape, for all values of the constants.
THEOREM TypeCorrect == Spec => []TypeOK
<1>1. IInv => TypeOK
  BY DEF IInv
<1> QED
  BY <1>1, IInvHolds, PTL

\* The order of the header lists its fields, each once, after any calls.
THEOREM HeaderStaysOrdered == Spec => []HeaderOrdered
<1>1. IInv => HeaderOrdered
  BY DEF IInv
<1> QED
  BY <1>1, IInvHolds, PTL

\* The host closes exactly the connections it has announced it will close.
THEOREM ConnectionAlwaysAgrees == Spec => []ConnectionAgrees
<1>1. IInv => ConnectionAgrees
  BY SettledAgrees DEF IInv, TypeOK, HeaderOrdered, ConnectionAgrees
<1> QED
  BY <1>1, IInvHolds, PTL

\* A message on a connection that stays open says where it ends.
THEOREM KeptAliveAlwaysDelimited == Spec => []KeptAliveIsDelimited
<1>1. IInv => KeptAliveIsDelimited
  <2> SUFFICES ASSUME IInv, stage = "sent", res.keepAlive
               PROVE  \/ BodylessStatus(wire.status)
                      \/ Carries(wire, "content-length")
                      \/ /\ Carries(wire, "transfer-encoding")
                         /\ FieldOf(wire, "transfer-encoding") = Text("chunked")
    BY DEF KeptAliveIsDelimited
  <2>1. WellFormed(res) /\ Settled(res) /\ wire = Wire(res)
    BY DEF IInv, TypeOK, HeaderOrdered
  <2> QED
    BY <2>1, SettledAgrees DEF IInv
<1> QED
  BY <1>1, IInvHolds, PTL

\* Once SetError has recorded an error, nothing sent leaves the connection open.
THEOREM FailureAlwaysCloses == Spec => []FailureCloses
<1>1. IInv => FailureCloses
  BY SettledAgrees DEF IInv, TypeOK, HeaderOrdered, FailureCloses
<1> QED
  BY <1>1, IInvHolds, PTL

\* A host that renders a response again with no call in between gets the same
\* message and the same response.
THEOREM RenderingAlwaysStable == Spec => RenderingIsStable
<1>1. IInv /\ [Next]_vars =>
        [stage = "sent" /\ stage' = "sent" => res' = res /\ wire' = wire]_vars
  <2> SUFFICES ASSUME IInv, [Next]_vars, stage = "sent", stage' = "sent"
               PROVE  res' = res /\ wire' = wire
    OBVIOUS
  <2>1. CASE Bytes
    <3>1. WellFormed(res) /\ Settled(res) /\ wire = Wire(res)
      BY DEF IInv, TypeOK, HeaderOrdered
    <3>2. SetupHeader(res) = res
      BY <3>1, SettledIsFixed
    <3> QED
      BY <2>1, <3>1, <3>2 DEF Bytes
  <2>2. CASE UNCHANGED vars
    BY <2>2 DEF vars
  <2>3. ASSUME NEW r, Call(r) PROVE FALSE
    BY <2>3 DEF Call
  <2>4. CASE Next /\ ~Bytes
    BY <2>3, <2>4 DEF Next, WireRequest, SetField, DropField, ChooseStatus,
         ToggleChunked, AssignBody, AppendCookie, Redirect, FillError,
         PanicInSetError
  <2> QED
    BY <2>1, <2>2, <2>4
<1> QED
  BY <1>1, IInvHolds, PTL DEF Spec, RenderingIsStable

-----------------------------------------------------------------------------
(* Framing: what the peer reads of what SendBody wrote.                    *)

\* A peer that decodes chunks gets the body out of what chunked mode writes.
LEMMA ChunkedPayload ==
    ASSUME NEW r, WellFormed(r), r.chunked, r.requestMethod # "HEAD"
    PROVE  Dechunk(SendBody(r)) = Reads(r.body, <<>>)
<1> DEFINE body == r.body
           last == <<Size(0), CrLf, CrLf>>
<1>1. body \in Seq(Nat)
  BY DEF ResponseType
<1>2. CASE body = <<>>
  <2>1. SendBody(r) = last
    <3>1. SendBody(r) = <<>> \o last
      BY <1>2 DEF SendBody
    <3> QED
      BY <3>1
  <2> QED
    BY <1>2, <2>1, DechunkOfNoChunk
<1>3. CASE body # <<>>
  <2> DEFINE n == Len(body)
             q == AsPayload(body)
             a == <<Size(n), CrLf>>
             p == ((a \o q) \o <<CrLf>>) \o last
  <2>1. n \in Nat /\ n > 0
    BY <1>1, <1>3
  <2>2. /\ q \in Seq(Atoms) /\ Len(q) = n
        /\ \A i \in 1..n : q[i] = Byte(body[i])
    BY <1>1, PayloadOfBody
  <2>3. SendBody(r) = p
    BY <1>3 DEF SendBody
  <2>4. /\ a \in Seq(Atoms) /\ Len(a) = 2 /\ a[1] = Size(n) /\ a[2] = CrLf
        /\ last \in Seq(Atoms) /\ Len(last) = 3
        /\ last[1] = Size(0) /\ last[2] = CrLf /\ last[3] = CrLf
        /\ <<CrLf>> \in Seq(Atoms)
    BY <2>1 DEF Size, CrLf, Atoms
  <2> HIDE DEF q, a, last, body, n
  <2> DEFINE b == a \o q
             c == b \o <<CrLf>>
  <2>5. /\ b \in Seq(Atoms) /\ Len(b) = n + 2
        /\ b[1] = Size(n) /\ b[2] = CrLf
        /\ \A i \in 1..n : b[i + 2] = q[i]
    <3>1. /\ b \in Seq(Atoms) /\ Len(b) = Len(a) + Len(q)
          /\ \A i \in 1..(Len(a) + Len(q)) :
                b[i] = IF i <= Len(a) THEN a[i] ELSE q[i - Len(a)]
      <4>1. a \in Seq(Atoms) /\ q \in Seq(Atoms)
        BY <2>2, <2>4
      <4> QED
        BY <4>1, ConcatProperties, Zenon
    <3> HIDE DEF b
    <3>2. \A i \in 1..(n + 2) : b[i] = IF i <= 2 THEN a[i] ELSE q[i - 2]
      BY <2>1, <2>2, <2>4, <3>1
    <3>3. \A i \in 1..n : b[i + 2] = q[i]
      <4> TAKE i \in 1..n
      <4>1. i + 2 \in 1..(n + 2) /\ ~(i + 2 <= 2) /\ (i + 2) - 2 = i
        BY <2>1
      <4> QED
        BY <3>2, <4>1
    <3>4. 1 \in 1..(n + 2) /\ 2 \in 1..(n + 2) /\ Len(b) = n + 2
      BY <2>1, <2>2, <2>4, <3>1
    <3> QED
      BY <2>4, <3>1, <3>2, <3>3, <3>4
  <2> HIDE DEF b
  <2>6. /\ c \in Seq(Atoms) /\ Len(c) = n + 3 /\ c[n + 3] = CrLf
        /\ \A i \in 1..(n + 2) : c[i] = b[i]
    BY <2>1, <2>4, <2>5
  <2> HIDE DEF c
  <2>7. /\ c \o last \in Seq(Atoms) /\ Len(c \o last) = n + 6
        /\ \A i \in 1..(n + 3) : (c \o last)[i] = c[i]
        /\ \A i \in 1..3 : (c \o last)[n + 3 + i] = last[i]
    <3> DEFINE e == c \o last
    <3>1. /\ e \in Seq(Atoms) /\ Len(e) = Len(c) + Len(last)
          /\ \A i \in 1..(Len(c) + Len(last)) :
                e[i] = IF i <= Len(c) THEN c[i] ELSE last[i - Len(c)]
      <4>1. c \in Seq(Atoms) /\ last \in Seq(Atoms)
        BY <2>4, <2>6
      <4> QED
        BY <4>1, ConcatProperties, Zenon
    <3> HIDE DEF e
    <3>2. /\ Len(e) = n + 6
          /\ \A i \in 1..(n + 6) :
                e[i] = IF i <= n + 3 THEN c[i] ELSE last[i - (n + 3)]
      BY <2>1, <2>4, <2>6, <3>1
    <3>3. \A i \in 1..(n + 3) : i \in 1..(n + 6) /\ i <= n + 3
      BY <2>1
    <3>4. \A i \in 1..3 : /\ n + 3 + i \in 1..(n + 6) /\ ~(n + 3 + i <= n + 3)
                          /\ (n + 3 + i) - (n + 3) = i
      BY <2>1
    <3>5. \A i \in 1..(n + 3) : e[i] = c[i]
      BY <3>2, <3>3
    <3>6. \A i \in 1..3 : e[n + 3 + i] = last[i]
      BY <3>2, <3>4
    <3> QED
      BY <3>1, <3>2, <3>5, <3>6 DEF e
  <2>8. p = c \o last
    BY DEF b, c
  <2> HIDE DEF p
  <2>9. /\ p[1] = Size(n) /\ p[2] = CrLf /\ p[n + 3] = CrLf
        /\ p[n + 4] = Size(0) /\ p[n + 5] = CrLf /\ p[n + 6] = CrLf
    <3>1. /\ n + 3 + 1 = n + 4 /\ n + 3 + 2 = n + 5 /\ n + 3 + 3 = n + 6
          /\ 1 \in 1..(n + 2) /\ 2 \in 1..(n + 2) /\ n + 3 \in 1..(n + 3)
          /\ 1 \in 1..(n + 3) /\ 2 \in 1..(n + 3)
      BY <2>1
    <3> QED
      BY <2>4, <2>5, <2>6, <2>7, <2>8, <3>1, SMTT(30)
  <2>10. \A i \in 1..n : p[i + 2] = Byte(body[i])
    <3> TAKE i \in 1..n
    <3>1. i + 2 \in 1..(n + 2) /\ i + 2 \in 1..(n + 3)
      BY <2>1
    <3> QED
      BY <2>2, <2>5, <2>6, <2>7, <2>8, <3>1, SMTT(30)
  <2>11. n = Len(body)
    BY DEF n
  <2>12. Dechunk(p) = Reads(body, <<>>)
    BY <1>1, <2>1, <2>7, <2>8, <2>9, <2>10, <2>11, DechunkOfOneChunk
  <2> QED
    BY <2>3, <2>12 DEF body
<1> QED
  BY <1>2, <1>3

\* A body of the length the head gives is read whole; of any other, not.
LEMMA FixedLengthExact ==
    ASSUME NEW body \in Seq(Nat), NEW v \in Values
    PROVE  FixedLength(AsPayload(body), v) = Reads(body, <<>>)
             <=> v = Decimal(Len(body))
<1> DEFINE p == AsPayload(body)
           n == v.num
<1>1. /\ p \in Seq(Atoms) /\ Len(p) = Len(body)
      /\ AllBytes(p) /\ Content(p) = body
  BY PayloadOfBody
<1>2. /\ n \in Nat /\ v = [text |-> v.text, num |-> n]
      /\ Len(body) \in Nat
  BY DEF Values
<1>3. v = Decimal(Len(body)) <=> v.text = "decimal" /\ n = Len(body)
  BY <1>2 DEF Decimal
<1>4. Garbled # Reads(body, <<>>)
  BY DEF Garbled, Reads
<1> HIDE DEF p, n
<1>5. CASE v.text # "decimal" \/ n > Len(p)
  <2>1. FixedLength(p, v) = Garbled
    BY <1>5 DEF FixedLength, n
  <2> QED
    BY <1>1, <1>2, <1>3, <1>4, <1>5, <2>1 DEF p
<1>6. CASE v.text = "decimal" /\ n < Len(p)
  <2>1. From(p, n + 1) # <<>>
    <3>1. Len(SubSeq(p, n + 1, Len(p))) = Len(p) - n
      BY <1>1, <1>2, <1>6
    <3>2. Len(p) - n # 0 /\ Len(<<>>) = 0
      BY <1>1, <1>2, <1>6
    <3> QED
      BY <3>1, <3>2, Zenon DEF From
  <2>2. FixedLength(p, v) # Reads(body, <<>>)
    BY <1>4, <2>1 DEF FixedLength, Reads, n
  <2> QED
    BY <1>1, <1>2, <1>3, <1>6, <2>2 DEF p
<1>7. CASE v.text = "decimal" /\ n = Len(p)
  <2>1. SubSeq(p, 1, n) = p /\ From(p, n + 1) = <<>> /\ ~(n > Len(p))
    BY <1>1, <1>2, <1>7 DEF From
  <2>2. FixedLength(p, v) = Reads(body, <<>>)
    BY <1>1, <1>7, <2>1, Zenon DEF FixedLength, n
  <2> QED
    BY <1>1, <1>3, <1>7, <2>2 DEF p
<1> QED
  BY <1>1, <1>2, <1>5, <1>6, <1>7

\* Head and payload of a rendered response meet, but for the three causes.
LEMMA FramedMeets == IInv => FramingExact
<1> SUFFICES ASSUME IInv, stage = "sent"
             PROVE  InSync <=> ~(BodylessChunked \/ StaleCoding \/ StaleLength)
  BY DEF FramingExact
<1> DEFINE body == res.body
           h == res.header
           m == res.requestMethod
           p == SendBody(res)
<1>1. WellFormed(res) /\ Settled(res) /\ wire = Wire(res)
  BY DEF IInv, TypeOK, HeaderOrdered
<1>2. /\ body \in Seq(Nat) /\ res.chunked \in BOOLEAN
      /\ \A f \in DOMAIN h.single : h.single[f] \in Values
  BY <1>1 DEF ResponseType, HeaderType
<1>3. /\ wire.simple = HeadOmitted(res) /\ wire.status = res.status
      /\ wire.payload = p
  BY <1>1 DEF Wire
<1>4. /\ HeadOmitted(res) => ~res.chunked
      /\ BodylessStatus(res.status) => body = <<>>
      /\ ~BodylessStatus(res.status) /\ res.chunked =>
            /\ Has(h, "transfer-encoding")
            /\ h.single["transfer-encoding"] = Text("chunked")
  <2>1. res.requestVersion \in Versions
    BY <1>1 DEF ResponseType
  <2> QED
    BY <1>1, <2>1, VersionFacts DEF IInv, HeadOmitted, Settled, Framed
<1>5. /\ m = "HEAD" => p = <<>>
      /\ m # "HEAD" /\ ~res.chunked => p = AsPayload(body)
  BY DEF SendBody
<1>6. /\ AsPayload(body) \in Seq(Atoms)
      /\ AllBytes(AsPayload(body)) /\ Content(AsPayload(body)) = body
      /\ UntilClose(<<>>) = Reads(<<>>, <<>>)
      /\ AsPayload(<<>>) = <<>>
  <2>1. AsPayload(<<>>) = <<>>
    BY DEF AsPayload
  <2>2. <<>> \in Seq(Nat)
    OBVIOUS
  <2> QED
    BY <1>2, <2>1, <2>2, PayloadOfBody DEF UntilClose
<1>7. \A x, y : Garbled # Reads(x, y)
  BY DEF Garbled, Reads
<1>8. Expected = IF m = "HEAD" THEN <<>> ELSE body
  BY DEF Expected
<1>9. CASE HeadOmitted(res)
  <2>1. ~BodylessChunked /\ ~StaleCoding /\ ~StaleLength
    BY <1>3, <1>9 DEF BodylessChunked, StaleCoding, StaleLength, ReadsPayload
  <2>2. Receive(m, wire) = UntilClose(p)
    BY <1>3, <1>9 DEF Receive
  <2>3. UntilClose(p) = Reads(Expected, <<>>)
    BY <1>4, <1>5, <1>6, <1>8, <1>9 DEF UntilClose
  <2> QED
    BY <2>1, <2>2, <2>3 DEF InSync
<1>10. CASE ~HeadOmitted(res) /\ m = "HEAD"
  <2>1. ~BodylessChunked /\ ~StaleCoding /\ ~StaleLength
    BY <1>10 DEF BodylessChunked, StaleCoding, StaleLength, ReadsPayload
  <2>2. Receive(m, wire) = Reads(<<>>, <<>>)
    BY <1>3, <1>5, <1>10 DEF Receive
  <2> QED
    BY <1>8, <1>10, <2>1, <2>2 DEF InSync
<1>11. CASE ~HeadOmitted(res) /\ m # "HEAD" /\ BodylessStatus(res.status)
  <2>1. ~StaleCoding /\ ~StaleLength /\ (BodylessChunked <=> res.chunked)
    BY <1>2, <1>3, <1>11 DEF BodylessChunked, StaleCoding, StaleLength, ReadsPayload
  <2>2. Receive(m, wire) = Reads(<<>>, p)
    BY <1>3, <1>11 DEF Receive
  <2>3. p = <<>> <=> ~res.chunked
    <3>1. CASE res.chunked
      <4>1. p = <<>> \o <<Size(0), CrLf, CrLf>>
        BY <1>4, <1>11, <3>1 DEF SendBody
      <4> QED
        BY <3>1, <4>1
    <3>2. CASE ~res.chunked
      BY <1>4, <1>5, <1>6, <1>11, <3>2
    <3> QED
      BY <3>1, <3>2
  <2>4. Reads(<<>>, p) = Reads(<<>>, <<>>) <=> p = <<>>
    BY DEF Reads
  <2> QED
    BY <1>4, <1>8, <1>11, <2>1, <2>2, <2>3, <2>4 DEF InSync
<1>12. CASE ~HeadOmitted(res) /\ m # "HEAD" /\ ~BodylessStatus(res.status)
  <2>1. /\ \A f : Carries(wire, f) <=> Has(h, f)
        /\ \A f : Has(h, f) => FieldOf(wire, f) = h.single[f]
    BY <1>1, <1>12, WireCarries
  <2>2. /\ ~BodylessChunked
        /\ StaleCoding <=> ~res.chunked /\ CodedField
        /\ StaleLength <=> /\ ~CodedField /\ Carries(wire, "content-length")
                           /\ FieldOf(wire, "content-length") # Decimal(Len(body))
    BY <1>3, <1>12 DEF BodylessChunked, StaleCoding, StaleLength, ReadsPayload
  <2>3. Receive(m, wire) =
          IF CodedField THEN Dechunk(p)
          ELSE IF Carries(wire, "content-length")
          THEN FixedLength(p, FieldOf(wire, "content-length"))
          ELSE UntilClose(p)
    BY <1>3, <1>12, Zenon DEF Receive, CodedField
  <2>4. InSync <=> Receive(m, wire) = Reads(body, <<>>)
    BY <1>8, <1>12 DEF InSync
  <2>5. CASE res.chunked
    <3>1. CodedField
      BY <1>4, <1>12, <2>1, <2>5 DEF CodedField, Text
    <3>2. Dechunk(p) = Reads(body, <<>>)
      BY <1>1, <1>12, <2>5, ChunkedPayload
    <3> QED
      BY <2>2, <2>3, <2>4, <2>5, <3>1, <3>2
  <2>6. CASE ~res.chunked /\ CodedField
    <3>1. Dechunk(p) = Garbled
      BY <1>5, <1>6, <1>12, <2>6, DechunkOfBytes
    <3> QED
      BY <1>7, <2>2, <2>3, <2>4, <2>6, <3>1
  <2>7. CASE ~res.chunked /\ ~CodedField /\ Carries(wire, "content-length")
    <3>1. FieldOf(wire, "content-length") \in Values
      BY <1>2, <2>1, <2>7 DEF Has
    <3>2. FixedLength(p, FieldOf(wire, "content-length")) = Reads(body, <<>>)
            <=> FieldOf(wire, "content-length") = Decimal(Len(body))
      BY <1>2, <1>5, <1>12, <2>7, <3>1, FixedLengthExact
    <3> QED
      BY <2>2, <2>3, <2>4, <2>7, <3>2
  <2>8. CASE ~res.chunked /\ ~CodedField /\ ~Carries(wire, "content-length")
    <3>1. UntilClose(p) = Reads(body, <<>>)
      BY <1>5, <1>6, <1>12, <2>8 DEF UntilClose
    <3> QED
      BY <2>2, <2>3, <2>4, <2>8, <3>1
  <2>9. CodedField \in BOOLEAN /\ Carries(wire, "content-length") \in BOOLEAN
    BY DEF CodedField, Carries
  <2> QED
    BY <1>2, <2>5, <2>6, <2>7, <2>8, <2>9
<1> QED
  BY <1>9, <1>10, <1>11, <1>12

\* Whatever the calls before it, a rendered message is received as exactly the
\* body the response held, unless one of the three named causes applies, and
\* each of those really loses the framing.
THEOREM FramingAlwaysExact == Spec => []FramingExact
  BY FramedMeets, IInvHolds, PTL

\* A client older than HTTP/1.1 is never sent chunks, one older than HTTP/1.0
\* never a head.
THEOREM OldClientsAlwaysGetPlainBytes == Spec => []OldClientsGetPlainBytes
<1>1. IInv => OldClientsGetPlainBytes
  <2> SUFFICES ASSUME IInv, stage = "sent"
               PROVE  /\ Less(res.requestVersion, Version(1, 1)) => AllBytes(wire.payload)
                      /\ Less(res.requestVersion, Version(1, 0)) => wire.simple
    BY DEF OldClientsGetPlainBytes
  <2>1. WellFormed(res) /\ Settled(res) /\ wire = Wire(res)
    BY DEF IInv, TypeOK, HeaderOrdered
  <2>2. wire.simple = HeadOmitted(res) /\ wire.payload = SendBody(res)
    BY <2>1 DEF Wire
  <2>3. ASSUME Less(res.requestVersion, Version(1, 1)) PROVE AllBytes(wire.payload)
    <3>1. ~res.chunked /\ res.body \in Seq(Nat)
      BY <2>1, <2>3 DEF Settled, ResponseType
    <3>2. AllBytes(AsPayload(res.body)) /\ AllBytes(<<>>)
      BY <3>1, PayloadOfBody DEF AllBytes
    <3> QED
      BY <2>2, <3>1, <3>2 DEF SendBody
  <2>4. ASSUME Less(res.requestVersion, Version(1, 0)) PROVE wire.simple
    <3>1. res.httpVersion = Version(0, 9) /\ Version(0, 9).major = 0
      BY <2>1, <2>4 DEF Settled, Version
    <3> QED
      BY <2>2, <3>1 DEF HeadOmitted
  <2> QED
    BY <2>3, <2>4
<1> QED
  BY <1>1, IInvHolds, PTL
=============================================================================
