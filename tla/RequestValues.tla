--------------------------- MODULE RequestValues ----------------------------
(***************************************************************************)
(* The values a request carries besides its framing, and their readers: a  *)
(* client puts one value together, element by element, and whatever it has *)
(* written so far is read.  Each behaviour is about one kind of value; one *)
(* of kind "path" is about a call of NormalizePath on a raw path instead.  *)
(***************************************************************************)
EXTENDS RequestURI, NormalizePath, Cookies, FormQuery, Glob

CONSTANTS
    MaxElements,   \* bound on the elements of a value
    MaxLength,     \* bound on the characters of a plain text
    MaxFields,     \* bound on the Cookie fields
    BodyLength,    \* of the resource a byte range selects from
    Elements,      \* quoted and bare elements of a list
    Entries,       \* [val, q, text] of an Accept field
    ByteRanges,    \* [bytes, text]
    CookieItems,   \* [name, value, text], directives among them
    Patterns, NameCharacters,      \* of NondisclosureName and of the names
    Authorities,
    PathPieces     \* of a target, and of a target after an authority

ASSUME PatternsAssumption == Patterns \subseteq Seq(Nat) /\ NameCharacters \subseteq Nat
\* Place n is inside a quoted string, if these backslashes escape what follows.
Inside(e, escaping, n) ==
    Cardinality({i \in 1..(n - 1) : e[i] = Quotation /\ i - 1 \notin escaping}) % 2 = 1

\* One element: its quotes are closed, its commas inside them; in quotes a
\* backslash that is not escaped itself escapes.
ASSUME ElementsAssumption ==
    \A e \in Elements :
        /\ e \in Seq(0..255) /\ e # <<>> /\ e[1] \notin Blank
        /\ \E escaping \in SUBSET {i \in DOMAIN e : e[i] = Backslash} :
              /\ ~Inside(e, escaping, Len(e) + 1)
              /\ \A i \in DOMAIN e :
                    /\ e[i] = Comma => Inside(e, escaping, i)
                    /\ e[i] = Backslash =>
                          (i \in escaping <=> Inside(e, escaping, i) /\ i - 1 \notin escaping)
\* A q-value from place i on, after blanks only.
Weight(parameter, i) == /\ Range(Before(parameter, i)) \subseteq Blank
                        /\ IsPrefix(Q, From(parameter, i))
                        /\ ValidQNumber(From(parameter, i + 2))

\* A value and nothing else, which weighs 1000, or a value, a semicolon and a
\* parameter, which weighs -2 if it is no q-value.
ASSUME EntriesAssumption ==
    \A e \in Entries : \E semi \in 1..(Len(e.text) + 1) :
        LET parameter == From(e.text, semi + 1)
            weights == {i \in DOMAIN parameter : Weight(parameter, i)}
        IN /\ e.text \in Seq(0..255 \ {Comma}) /\ e.val = Before(e.text, semi) /\ e.val # <<>>
           /\ Range(e.val) \cap (Blank \cup {Semicolon}) = {}
           /\ IF semi > Len(e.text) THEN e.q = 1000
              ELSE /\ e.text[semi] = Semicolon
                   /\ IF weights = {} THEN e.q = -2
                      ELSE \E i \in weights : e.q = QNumber(From(parameter, i + 2))
\* "a-b", "a-" or "-n", and what it asks for of the bytes that there are.
ASSUME ByteRangesAssumption ==
    /\ BodyLength \in Nat
    /\ \A r \in ByteRanges : \E dash \in DOMAIN r.text :
          LET a == Before(r.text, dash)
              b == From(r.text, dash + 1)
          IN /\ r.text \in Seq(0..255) /\ r.text[dash] = Dash
             /\ Range(a) \cup Range(b) \subseteq Digits /\ a \o b # <<>>
             /\ r.zero <=> a = <<>> /\ Decimal(b) = 0
             /\ \A i \in 0..(BodyLength - 1) :
                   i \in r.bytes <=>
                      IF a = <<>> THEN i >= BodyLength - Decimal(b)
                      ELSE i >= Decimal(a) /\ (b # <<>> => i <= Decimal(b))
\* Neither sign that ends an authority, nothing a header field is trimmed of, and
\* nothing beyond ASCII, which is escaped in a target only.
ASSUME AuthoritiesAssumption == Authorities \subseteq Seq(33..126 \ {Slash, Question})
ASSUME PathPiecesAssumption ==
    PathPieces["target"] \cup PathPieces["authority"] \subseteq Seq(0..255)

VARIABLES
    kind,    \* of the value
    meant,   \* what the client means by it
    text     \* what it has written; the fields, for cookies
client == <<kind, meant, text>>
all == <<client, vars, formvars>>

Begun0 == [list |-> <<>>, accept |-> <<>>, range |-> Bytes, cookie |-> <<>>,
           name |-> <<>>, target |-> <<>>, path |-> <<>>, form |-> <<>>]

VInit ==
    /\ \/ kind \in DOMAIN Begun0 /\ meant = <<>> /\ text = Begun0[kind]
       \/ kind = "authority" /\ meant \in Authorities /\ text = <<>>
    /\ Init /\ (kind # "path" => path = <<>>)
    /\ FormInit /\ (kind # "form" => method = "GET" /\ form = FALSE)

\* The next element after a comma and whatever blanks or empty elements.
Send(element, symbols) ==
    /\ Len(meant) < MaxElements
    /\ meant' = Append(meant, element)
    /\ \E blanks \in {<<>>, <<Space>>, <<Comma, Space>>} :
          /\ blanks = <<>> \/ (meant # <<>> /\ kind # "accept")
          /\ text' = text \o (IF meant = <<>> THEN <<>> ELSE <<Comma>> \o blanks) \o symbols
    /\ UNCHANGED kind

SendElement == kind = "list" /\ \E e \in Elements : Send(e, e)
SendEntry == kind = "accept" /\ \E e \in Entries : Send(e, e.text)
SendRange == kind = "range" /\ \E r \in ByteRanges : Send(r, r.text)

\* A cookie or directive, in the field being written or in a new one.
NewField ==
    /\ kind = "cookie" /\ Len(FlattenSeq(meant)) < MaxElements /\ Len(text) < MaxFields
    /\ \E item \in CookieItems : /\ text' = Append(text, item.text)
                                 /\ meant' = Append(meant, <<item>>)
    /\ UNCHANGED kind
AddItem ==
    /\ kind = "cookie" /\ text # <<>> /\ Len(FlattenSeq(meant)) < MaxElements
    /\ \E item \in CookieItems, blanks \in {<<Space>>, <<9, Space>>} :
          /\ text' = Append(Front(text), Last(text) \o <<Semicolon>> \o blanks \o item.text)
          /\ meant' = Append(Front(meant), Append(Last(meant), item))
    /\ UNCHANGED kind

GrowName ==
    /\ kind = "name" /\ Len(text) < MaxLength
    /\ \E c \in NameCharacters : text' = Append(text, c)
    /\ UNCHANGED <<kind, meant>>
GrowTarget ==
    /\ kind \in {"target", "authority"} /\ Len(text) < MaxLength
    /\ \E piece \in PathPieces[kind] : text' = text \o piece
    /\ UNCHANGED <<kind, meant>>

ClientNext == \/ SendElement \/ SendEntry \/ SendRange
              \/ NewField \/ AddItem \/ GrowName \/ GrowTarget

\* The reader of a path is NormalizePath's loop; the other values find it idle.
VNext == \/ NNext /\ UNCHANGED <<client, formvars>>
         \/ stage = "returned" /\ ClientNext /\ UNCHANGED <<vars, formvars>>
         \/ stage = "returned" /\ kind = "form" /\ QNext /\ UNCHANGED <<client, vars>>
VSpec == VInit /\ [][VNext]_all /\ WF_all(NNext /\ UNCHANGED <<client, formvars>>)

-----------------------------------------------------------------------------
Directives == {DollarVersion, DollarPath, DollarDomain, DollarPort}

(***************************************************************************)
(* The elements of a list arrive as they were sent, with the commas and    *)
(* the escaped quotes inside their quoted parts, and blanks before an      *)
(* element are none of it (SplitHeaderValue).  An empty element between    *)
(* commas is passed over and those behind it arrive: so the code has it;   *)
(* the scan quoted in its comment (httputils.go:441) would end there, and  *)
(* give only the elements before.                                          *)
(***************************************************************************)
ElementsArrive == kind = "list" => SplitHeaderValue(text) = meant

\* The values meant with one weight, in their order.
Weighing(q) ==
    LET places == Ordered({k \in DOMAIN meant : meant[k].q = q})
    IN [n \in DOMAIN places |-> meant[places[n]].val]
Heaviest == Reverse(Ordered({meant[k].q : k \in DOMAIN meant} \ {-2}))

(***************************************************************************)
(* ParseQValues gives the client's preferences in their order: by weight,  *)
(* equal weights as they were sent, no weight as the greatest; an entry    *)
(* with any other parameter is dropped and leaves the others in place.     *)
(***************************************************************************)
PreferencesArrive ==
    kind = "accept" =>
        ParseQValues(text) = FlattenSeq([n \in DOMAIN Heaviest |-> Weighing(Heaviest[n])])

Selected(range) ==
    {i \in 0..(BodyLength - 1) :
        /\ i >= (IF range.first < 0 THEN BodyLength + range.first ELSE range.first)
        /\ range.last # -1 => i <= range.last}

(***************************************************************************)
(* Each range selects, by ByteRange's convention of negative bounds, the   *)
(* bytes the client asked for, with one exception: "-0", which asks for    *)
(* none, is read as "0-" and selects all.  As in every list, the ranges    *)
(* behind an empty element count, which the scan of httputils.go:441 would *)
(* not reach.                                                              *)
(***************************************************************************)
RangesSelectTheirBytes ==
    kind = "range" /\ meant # <<>> =>
        LET read == ParseRangeHeader(text)
        IN /\ read.ok /\ Len(read.ranges) = Len(meant)
           /\ \A k \in DOMAIN meant :
                 Selected(read.ranges[k]) = IF meant[k].zero THEN 0..(BodyLength - 1)
                                            ELSE meant[k].bytes \cap 0..(BodyLength - 1)

\* The places of the cookies in a list of items.
CookieAt(list) == {i \in DOMAIN list : list[i].name \notin Directives}
\* The value of the last item of a name among the items first..last.
LastValue(list, name, from, to) ==
    LET places == {i \in from..to : list[i].name = name}
    IN IF places = {} THEN <<>> ELSE list[Max(places)].value

\* The cookie at place i: the version stated before it, and the attributes
\* between it and the next cookie.
Meant(list, i) ==
    LET end == Min({j \in CookieAt(list) : j > i} \cup {Len(list) + 1}) - 1
    IN [name |-> list[i].name, value |-> list[i].value,
        version |-> Decimal(LastValue(list, DollarVersion, 1, i)),
        path |-> LastValue(list, DollarPath, i, end),
        domain |-> LastValue(list, DollarDomain, i, end),
        port |-> LastValue(list, DollarPort, i, end)]
MeantBy(list) ==
    LET places == Ordered(CookieAt(list)) IN [n \in DOMAIN places |-> Meant(list, places[n])]

(***************************************************************************)
(* Every cookie arrives once and in its place, with the version stated     *)
(* before it in its field and the $Path, $Domain and $Port between it and  *)
(* the next cookie; a directive before the field's first cookie, whatever  *)
(* the fields before say, reaches none (ParseCookies per field).           *)
(***************************************************************************)
CookiesArrive ==
    kind = "cookie" =>
        RequestCookies(text) = FlattenSeq([k \in DOMAIN meant |-> MeantBy(meant[k])])

Http == <<104, 116, 116, 112>>
AbsoluteForm(rest) == ParseURI(Http \o Separator \o meant \o rest, <<>>)
OriginForm(rest) == ParseURI(rest, <<meant>>)

\* "h:" and "[v6]:"
EmptyPort == meant # <<>> /\ Last(meant) = Colon
\* What follows the host is neither a port nor nothing.
Malformed == ~SplitAuthority(meant).ok

(***************************************************************************)
(* A request means the same in both forms, "GET http://a/p" and "GET /p"   *)
(* with "Host: a", which uri.go reads with two different parsers: the same *)
(* path, query, host and port, or the same refusal.  Exactly three kinds   *)
(* of authority part them: an empty port (which Host takes for part of the *)
(* name), and what the absolute form refuses and Host puts up with: a port *)
(* that is not a number, and a bracket not closed or followed by more.     *)
(***************************************************************************)
FormsAgree ==
    kind = "authority" /\ Absolute(text) =>
        /\ Malformed => ~AbsoluteForm(text).ok
        /\ ~Malformed /\ (EmptyPort => Bracketed(meant)) =>
              AbsoluteForm(text) = OriginForm(text)
        /\ ~Malformed /\ EmptyPort /\ ~Bracketed(meant) /\ OriginForm(text).ok =>
              OriginForm(text) = [AbsoluteForm(text) EXCEPT !.host = meant]

(***************************************************************************)
(* A path that is its own normal form, sent through EscapePath with any    *)
(* query after it, or through Escape if no query sign is in it, arrives as *)
(* it was: nothing in it is taken for a query, a dot segment or an escape. *)
(***************************************************************************)
EncodedPathArrives ==
    kind = "target" /\ text # <<>> /\ Meaning(text) = text =>
        LET uri == ParseURI(EscapePath(text) \o <<Question>> \o text, <<>>)
            bare == ParseURI(Escape(text), <<>>)
        IN /\ uri.ok /\ uri.path = text
           /\ uri.query = IF Escape8bitURI THEN Escape8bit(text) ELSE text
           /\ ~Contains(text, Question) => bare.ok /\ bare.path = text

\* Some cutting of the name gives every character of the pattern its due.
Covers(pattern, name) ==
    LET reached[p \in 0..Len(pattern)] ==
            IF p = 0 THEN {0}
            ELSE {n \in 0..Len(name) :
                    \/ pattern[p] = Star /\ \E k \in reached[p - 1] : k <= n
                    \/ n - 1 \in reached[p - 1] /\ pattern[p] \in {Question, name[n]}}
    IN Len(name) \in reached[Len(pattern)]

(***************************************************************************)
(* globMatch forgets every star but the last one and still finds a cutting *)
(* of the name whenever there is one, but for a name with a "*" of its     *)
(* own, which the loop takes for the pattern's; and where it says yes      *)
(* there is one, whatever the name.                                        *)
(***************************************************************************)
PatternsCover ==
    kind = "name" =>
        \A pattern \in Patterns :
            IF Contains(text, Star) THEN GlobMatch(pattern, text) => Covers(pattern, text)
            ELSE GlobMatch(pattern, text) <=> Covers(pattern, text)
=============================================================================
