----------------------------- MODULE FormQuery ------------------------------
(***************************************************************************)
(* Request.Query (httprequest.go) and ParseQuery (header.go): a form in    *)
(* the query string or in the body, parsed at the first call and kept.     *)
(* The fields of a request are exported: its host may assign them at any   *)
(* time.                                                                   *)
(***************************************************************************)
EXTENDS Escapes

CONSTANTS
    FormNames, FormValues, \* of the form, not yet escaped
    Separators,      \* between two pairs
    MaxPairs         \* bound on the pairs sent

Ampersands == {Ampersand, Semicolon}

ASSUME TextsAssumption == FormNames \cup FormValues \subseteq Seq(0..255)
ASSUME NamesAssumption == <<>> \notin FormNames
ASSUME SeparatorsAssumption == Separators \subseteq Seq(Ampersands) \ {<<>>}

VARIABLES
    method,   \* RequestMethod
    form,     \* Content-Type: application/x-www-form-urlencoded
    field,    \* QueryString and Body
    memo,     \* the query kept: none or one
    sent,     \* the pairs behind each field
    first     \* method, form and pairs at the first call: none or one
formvars == <<method, form, field, memo, sent, first>>

NoQuery == [order |-> <<>>, items |-> [name \in {} |-> <<>>]]

\* Mutant of Inserted: a repeated name takes the place of the earlier one.
Inserted_Replacing(query, name, value) ==
    IF name \in DOMAIN query.items THEN [query EXCEPT !.items[name] = <<value>>]
    ELSE [order |-> Append(query.order, name), items |-> query.items @@ (name :> <<value>>)]

\* A repeated name is chained to the tail of the first; Order has each once.
Inserted(query, name, value) ==
    IF name \in DOMAIN query.items THEN [query EXCEPT !.items[name] = Append(@, value)]
    ELSE [order |-> Append(query.order, name),
          items |-> [n \in DOMAIN query.items \cup {name} |->
                        IF n = name THEN <<value>> ELSE query.items[n]]]

SplitAmpSemi(s) == NonEmpty(Pieces(s, Ampersands))
KeyOf(x) == UnescapeForm(Before(x, Next(x, 1, {Equals})))
ValueOf(x) == UnescapeForm(From(x, Next(x, 1, {Equals}) + 1))

Taken(query, x) == Inserted(query, KeyOf(x), ValueOf(x))

ParseQuery(s) ==
    LET elements == SplitAmpSemi(s)
        upto[n \in 0..Len(elements)] ==
            IF n = 0 THEN NoQuery ELSE Taken(upto[n - 1], elements[n])
    IN upto[Len(elements)]

Fields == {"QueryString", "Body"}

FormInit ==
    /\ method \in {"GET", "HEAD", "POST"} /\ form \in BOOLEAN
    /\ field = [f \in Fields |-> <<>>] /\ sent = [f \in Fields |-> <<>>]
    /\ memo = <<>> /\ first = <<>>

Pair(name, value) ==
    IF value = <<>> THEN EscapeForm(name)
    ELSE EscapeForm(name) \o <<Equals>> \o EscapeForm(value)

\* The client's form grows (external); after a first call, it is the host that
\* assigns the field.
Assign(f) ==
    /\ Len(sent.QueryString) + Len(sent.Body) < MaxPairs
    /\ \E name \in FormNames, value \in FormValues, separator \in Separators :
          /\ field' = [field EXCEPT ![f] = @ \o separator \o Pair(name, value)]
          /\ sent' = [sent EXCEPT ![f] = Append(@, [name |-> name, value |-> value])]
    /\ UNCHANGED <<method, form, memo, first>>

\* Where the form is: the query string for GET and HEAD, or else a body of the
\* form's type, or nowhere.
Sources(m, isForm) ==
    IF m \in {"GET", "HEAD"} THEN {"QueryString"} ELSE IF isForm THEN {"Body"} ELSE {}

Parsed == IF Sources(method, form) = {} THEN NoQuery
          ELSE ParseQuery(field[CHOOSE f \in Sources(method, form) : TRUE])

\* Mutant of Query: an empty query is parsed again.
Query_EmptyIsNone ==
    /\ memo' = IF memo # <<>> /\ memo[1] # NoQuery THEN memo ELSE <<Parsed>>
    /\ first' = IF memo = <<>> THEN <<[at |-> Sources(method, form), sent |-> sent]>> ELSE first
    /\ UNCHANGED <<method, form, field, sent>>

Query ==
    /\ memo' = IF memo = <<>> THEN <<Parsed>> ELSE memo
    /\ first' = IF memo = <<>> THEN <<[at |-> Sources(method, form), sent |-> sent]>> ELSE first
    /\ UNCHANGED <<method, form, field, sent>>

QNext == (\E f \in Fields : Assign(f)) \/ Query

FormSpec == FormInit /\ [][QNext]_formvars

-----------------------------------------------------------------------------
\* The values that a form gives to a name, in their order.
ValuesOf(pairs, name) ==
    Mapped(pairs, LAMBDA k : IF pairs[k].name = name THEN <<pairs[k].value>> ELSE <<>>)

\* The pairs of a form, by name, as a client means them.
IsFormOf(query, pairs) ==
    /\ Range(query.order) = {pairs[k].name : k \in DOMAIN pairs}
    /\ DOMAIN query.items = Range(query.order)
    /\ \A i, j \in DOMAIN query.order :
          i < j => \E k \in DOMAIN pairs :
                      /\ pairs[k].name = query.order[i]
                      /\ \A l \in 1..k : pairs[l].name # query.order[j]
    /\ \A name \in DOMAIN query.items : query.items[name] = ValuesOf(pairs, name)

(***************************************************************************)
(* A form's pairs arrive: every value under its name, repeated names in    *)
(* the order they were sent, names in the order they first came, whichever *)
(* separators are mixed and whatever =, &, ; and + the texts hold.         *)
(***************************************************************************)
FormArrives == \A f \in Fields : IsFormOf(ParseQuery(field[f]), sent[f])

(***************************************************************************)
(* "The result is memoised": however the host assigns Body and QueryString *)
(* afterwards, Query stays the form of the first call, an empty one too,   *)
(* and takes nothing from a field that is not the method's.                *)
(***************************************************************************)
QueryIsTheFirst ==
    memo # <<>> =>
        IF first[1].at = {} THEN memo[1] = NoQuery
        ELSE \A f \in first[1].at : IsFormOf(memo[1], first[1].sent[f])
=============================================================================
