---------------------------- MODULE ResponseOps -----------------------------
(***************************************************************************)
(* Response as a value (httpresponse.go): what each exported method makes  *)
(* of it, and the setup_header / send_header / send_body pass of Bytes.    *)
(*                                                                         *)
(* Kept: the header map with its separate insertion order, the framing and *)
(* connection decisions, the version downgrade, which values hold CR/LF.   *)
(* Left out: wording (reason phrase, server string, page text, header-name *)
(* capitalisation) and the request host/port that only end up in a page.   *)
(***************************************************************************)
EXTENDS HTTPVersion, Recipient, SequencesExt

CONSTANTS
    FieldNames,     \* header names (downcased) in use
    Texts,          \* header values in use, other than decimal numbers
    Methods,        \* request methods in use, "none" before SetRequest
    ConfigVersion,  \* Config.HTTPVersion
    ErrorPage,      \* the bytes errorBody generates
    RedirectPage    \* the bytes SetRedirect generates

ASSUME FieldNamesAssumption ==
    {"server", "content-type", "content-length", "transfer-encoding",
     "connection", "location"} \subseteq FieldNames
ASSUME TextsAssumption ==
    {"empty", "decimal", "crlf", "software", "text/html", "multipart/byteranges",
     "chunked", "Keep-Alive", "close"} \subseteq Texts
ASSUME MethodsAssumption == {"none", "HEAD"} \subseteq Methods

\* A server is configured to speak HTTP/1.0 or later (the default is 1.1).
ASSUME ConfigVersionAssumption ==
    ConfigVersion \in Versions /\ ConfigVersion.major > 0
ASSUME PagesAssumption == ErrorPage \in Seq(Nat) /\ RedirectPage \in Seq(Nat)

-----------------------------------------------------------------------------
\* A header value is a text or a decimal number; the text "crlf" stands for
\* every value with a CR or LF in it.
Text(s) == [text |-> s, num |-> 0]
Decimal(n) == [text |-> "decimal", num |-> n]
Values == [text : Texts, num : Nat]

HasCRLF(v) == v.text = "crlf"

EmptyHeader == [single |-> [f \in {} |-> Text("empty")], order |-> <<>>]

Has(h, field) == field \in DOMAIN h.single
\* An absent field reads as the empty string, Go's zero value.
Lookup(h, field) == IF Has(h, field) THEN h.single[field] ELSE Text("empty")

\* Mutant of SetSingle: the order grows even when the field is there already.
SetSingle_AlwaysAppends(h, field, v) ==
    [single |-> [f \in DOMAIN h.single \cup {field} |->
                    IF f = field THEN v ELSE h.single[f]],
     order  |-> Append(h.order, field)]

SetSingle(h, field, v) ==
    [single |-> [f \in DOMAIN h.single \cup {field} |->
                    IF f = field THEN v ELSE h.single[f]],
     order  |-> IF Has(h, field) THEN h.order ELSE Append(h.order, field)]

\* Only the first occurrence leaves the order, as the loop's break says.
DeleteField(h, field) ==
    IF Has(h, field)
    THEN [single |-> [f \in DOMAIN h.single \ {field} |-> h.single[f]],
          order  |-> RemoveFirst(h.order, field)]
    ELSE h

HeaderType(h) ==
    /\ h = [single |-> h.single, order |-> h.order]
    /\ h.single = [f \in DOMAIN h.single |-> h.single[f]]
    /\ DOMAIN h.single \subseteq FieldNames
    /\ \A f \in DOMAIN h.single : h.single[f] \in Values
    /\ h.order \in Seq(FieldNames)

\* The order is a duplicate-free listing of the map's keys.
Ordered(h) ==
    /\ \A i \in 1..Len(h.order) : Has(h, h.order[i])
    /\ \A f \in DOMAIN h.single : \E i \in 1..Len(h.order) : h.order[i] = f
    /\ \A i, j \in 1..Len(h.order) : h.order[i] = h.order[j] => i = j

-----------------------------------------------------------------------------
ResponseType(r) ==
    /\ r = [httpVersion |-> r.httpVersion, status |-> r.status,
            header |-> r.header, body |-> r.body, cookies |-> r.cookies,
            requestMethod |-> r.requestMethod,
            requestVersion |-> r.requestVersion,
            chunked |-> r.chunked, keepAlive |-> r.keepAlive]
    /\ r.httpVersion \in Versions
    /\ r.status \in Int
    /\ HeaderType(r.header)
    /\ r.body \in Seq(Nat)
    /\ r.cookies \subseteq {"plain", "crlf"}
    /\ r.requestMethod \in Methods
    /\ r.requestVersion \in Versions
    /\ r.chunked \in BOOLEAN
    /\ r.keepAlive \in BOOLEAN

NewResponse ==
    [httpVersion |-> ConfigVersion, status |-> 200, header |-> EmptyHeader,
     body |-> <<>>, cookies |-> {}, requestMethod |-> "none",
     requestVersion |-> ConfigVersion, chunked |-> FALSE, keepAlive |-> TRUE]

SetRequest(r, req) ==
    [r EXCEPT !.requestMethod = req.method,
              !.requestVersion = req.version,
              !.keepAlive = req.keepAlive]

Set(r, field, v) ==
    [r EXCEPT !.header = SetSingle(@, field, v),
              !.chunked = IF field = "transfer-encoding"
                          THEN v = Text("chunked") ELSE @]

Delete(r, field) == [r EXCEPT !.header = DeleteField(@, field)]
SetStatus(r, code) == [r EXCEPT !.status = code]
SetChunked(r, v) == [r EXCEPT !.chunked = v]
SetBody(r, body) == [r EXCEPT !.body = body]
AddCookie(r, c) == [r EXCEPT !.cookies = @ \cup {c}]

SetRedirect(r, url) == Set(SetBody(r, RedirectPage), "location", url)

\* What SetError is handed: a *Status (by its code, Nil for a typed nil), or
\* an error of another type.
PlainError == -2
IsStatus(err) == err \notin {PlainError, Nil, EOFStatus}

\* Mutant of SetErrorStatus: keepAlive is assigned instead of only cleared.
SetErrorStatus_Revives(r, err) ==
    IF IsStatus(err)
    THEN [r EXCEPT !.keepAlive = ~IsError(err), !.status = err]
    ELSE [r EXCEPT !.keepAlive = FALSE, !.status = 500]

SetErrorStatus(r, err) ==
    IF IsStatus(err)
    THEN [r EXCEPT !.keepAlive = @ /\ ~IsError(err), !.status = err]
    ELSE [r EXCEPT !.keepAlive = FALSE, !.status = 500]

\* errorBody asks the error for its message: a nil *Status has none to give.
ErrorBodyPanics(err) == err = Nil

SetError(r, err) ==
    LET titled == Set(SetErrorStatus(r, err), "content-type", Text("text/html"))
    IN  IF ErrorBodyPanics(err) THEN titled ELSE SetBody(titled, ErrorPage)

-----------------------------------------------------------------------------
(* setupHeader, in the order of its paragraphs.                            *)

SeedServer(r) ==
    IF Has(r.header, "server") THEN r
    ELSE [r EXCEPT !.header = SetSingle(@, "server", Text("software"))]

\* Mutant of Downgrade: chunked mode is only dropped for HTTP/0.9.
Downgrade_ChunkedFor10(r) ==
    LET old == Less(r.requestVersion, Version(1, 0))
    IN  [r EXCEPT !.httpVersion = IF old THEN Version(0, 9) ELSE @,
                  !.keepAlive = @ /\ ~old,
                  !.chunked = @ /\ ~old]

Downgrade(r) ==
    LET old == Less(r.requestVersion, Version(1, 0))
    IN  [r EXCEPT !.httpVersion = IF old THEN Version(0, 9) ELSE @,
                  !.keepAlive = @ /\ ~old,
                  !.chunked = @ /\ ~Less(r.requestVersion, Version(1, 1))]

\* Mutant of MeasuredLength: off by one.
MeasuredLength_Short(r) == Decimal(Len(r.body) - 1)

MeasuredLength(r) == Decimal(Len(r.body))

FrameMessage(r) ==
    LET h == r.header
    IN  IF BodylessStatus(r.status)
        THEN [r EXCEPT !.header = DeleteField(h, "content-length"),
                       !.body = <<>>]
        ELSE IF r.chunked
        THEN [r EXCEPT !.header =
                DeleteField(SetSingle(h, "transfer-encoding", Text("chunked")),
                            "content-length")]
        ELSE IF Lookup(h, "content-type") = Text("multipart/byteranges")
        THEN [r EXCEPT !.header = DeleteField(h, "content-length")]
        ELSE IF ~Has(h, "content-length")
        THEN [r EXCEPT !.header = SetSingle(h, "content-length", MeasuredLength(r))]
        ELSE r

\* Mutant of SelfDelimiting: an empty body is taken to need no length.
SelfDelimiting_EmptyBody(r) ==
    \/ r.chunked
    \/ Has(r.header, "content-length")
    \/ BodylessStatus(r.status)
    \/ r.body = <<>>

SelfDelimiting(r) ==
    \/ r.chunked
    \/ Has(r.header, "content-length")
    \/ BodylessStatus(r.status)

\* Mutant of DecideConnection: announces the close and forgets the flag.
DecideConnection_KeepsFlag(r) ==
    IF Lookup(r.header, "connection") = Text("close")
    THEN [r EXCEPT !.keepAlive = FALSE]
    ELSE LET keep == r.keepAlive /\ SelfDelimiting(r)
         IN  [r EXCEPT !.header = SetSingle(@, "connection",
                           Text(IF keep THEN "Keep-Alive" ELSE "close"))]

DecideConnection(r) ==
    IF Lookup(r.header, "connection") = Text("close")
    THEN [r EXCEPT !.keepAlive = FALSE]
    ELSE LET keep == r.keepAlive /\ SelfDelimiting(r)
         IN  [r EXCEPT !.keepAlive = keep,
                       !.header = SetSingle(@, "connection",
                           Text(IF keep THEN "Keep-Alive" ELSE "close"))]

\* Mutant of SetupHeader: the message is framed before the downgrade.
SetupHeader_LateDowngrade(r) ==
    DecideConnection(Downgrade(FrameMessage(SeedServer(r))))

SetupHeader(r) == DecideConnection(FrameMessage(Downgrade(SeedServer(r))))

\* What the message-length paragraph leaves behind.
Framed(r) ==
    \/ /\ BodylessStatus(r.status)
       /\ ~Has(r.header, "content-length") /\ r.body = <<>>
    \/ /\ ~BodylessStatus(r.status) /\ r.chunked
       /\ ~Has(r.header, "content-length")
       /\ Has(r.header, "transfer-encoding")
       /\ r.header.single["transfer-encoding"] = Text("chunked")
    \/ /\ ~BodylessStatus(r.status) /\ ~r.chunked
       /\ Has(r.header, "content-length") <=>
            Lookup(r.header, "content-type") # Text("multipart/byteranges")

\* What setupHeader leaves behind, and would leave alone.
Settled(r) ==
    /\ Has(r.header, "server")
    /\ Less(r.requestVersion, Version(1, 0)) =>
           r.httpVersion = Version(0, 9) /\ ~r.keepAlive
    /\ Less(r.requestVersion, Version(1, 1)) => ~r.chunked
    /\ Framed(r)
    /\ Has(r.header, "connection")
    /\ r.header.single["connection"] =
          Text(IF r.keepAlive THEN "Keep-Alive" ELSE "close")
    /\ r.keepAlive => SelfDelimiting(r)

-----------------------------------------------------------------------------
(* sendHeader and sendBody, run on a response setupHeader has been over.   *)

HeadOmitted(r) == r.httpVersion.major = 0

InvalidHeader(r) ==
    /\ ~HeadOmitted(r)
    /\ \/ \E i \in 1..Len(r.header.order) :
              HasCRLF(Lookup(r.header, r.header.order[i]))
       \/ "crlf" \in r.cookies

\* Mutant of SendBody: chunked mode is looked at before HEAD.
SendBody_ChunkedHead(r) ==
    IF r.chunked
    THEN (IF r.body = <<>> THEN <<>>
          ELSE <<Size(Len(r.body)), CrLf>> \o AsPayload(r.body) \o <<CrLf>>)
         \o <<Size(0), CrLf, CrLf>>
    ELSE IF r.requestMethod = "HEAD" THEN <<>>
    ELSE AsPayload(r.body)

SendBody(r) ==
    IF r.requestMethod = "HEAD" THEN <<>>
    ELSE IF r.chunked
    THEN (IF r.body = <<>> THEN <<>>
          ELSE <<Size(Len(r.body)), CrLf>> \o AsPayload(r.body) \o <<CrLf>>)
         \o <<Size(0), CrLf, CrLf>>
    ELSE AsPayload(r.body)

\* The fields appear on the wire in insertion order, by their names.
Wire(r) ==
    [simple |-> HeadOmitted(r),
     status |-> r.status,
     fields |-> IF HeadOmitted(r) THEN <<>>
                ELSE [i \in 1..Len(r.header.order) |->
                        [name |-> r.header.order[i],
                         val |-> Lookup(r.header, r.header.order[i])]],
     payload |-> SendBody(r)]
=============================================================================
