---------------------------- MODULE HTTPRequest -----------------------------
(***************************************************************************)
(* ParseRequest (httprequest.go) over the bytes a host has read from a     *)
(* connection: a request, perhaps cut short, perhaps with the bytes of     *)
(* what comes after it.  One action per read, up to the verdict: the       *)
(* *Status returned, or a Request.                                         *)
(***************************************************************************)
EXTENDS RequestSender

CONSTANTS
    Requests,       \* requests clients send (see RequestSender)
    After,          \* what may follow a request in the bytes read
    MaxURILength,   \* cap on the request line
    MaxLineLength,  \* cap of readLine in the header, chunk and trailer lines
    MaxHeaderLength \* cap on the request line and header block together

Arrivals(bytes) ==
    {SubSeq(bytes, 1, n) : n \in 0..(Len(bytes) - 1)} \cup {bytes \o more : more \in After}

\* Clients keep to the grammar, and the bytes read have a length; a number that
\* states how much data there is states it rightly, or more than ever comes.
States(m, number, data) ==
    number \in DOMAIN NumberOf =>
        \/ NumberOf[number] = Len(data)
        \/ \A bytes \in Arrivals(Wire(m)) : NumberOf[number] > Len(bytes)
Lengths(m) == IF HasHead(m) THEN Sent(m, ContentLength) ELSE <<>>
ASSUME ClientsAssumption ==
    /\ After \subseteq Seq(STRING)
    /\ \A m \in Requests :
          /\ Grammar(m)
          /\ \A bytes \in Arrivals(Wire(m)) : Len(bytes) <= MaxInt
          /\ \A i \in DOMAIN m.chunks : States(m, m.chunks[i].size, m.chunks[i].data)
          /\ ~m.chunked =>
                /\ Lengths(m) = <<>> => m.data = <<>>
                /\ \A n \in DOMAIN NumberOf : Lengths(m) = << <<n>> >> => States(m, n, m.data)
ASSUME CapsAssumption ==
    /\ MaxURILength \in Nat \ {0} /\ MaxLineLength \in Nat /\ MaxLineLength > 2
    /\ MaxHeaderLength \in Nat /\ MaxURILength <= MaxHeaderLength

VARIABLES
    sent,      \* the request the client means
    input,     \* the bytes ParseRequest is given
    pos,       \* the cursor
    phase,     \* what is read next
    line,      \* RequestMethod, UnparsedURI and HTTPVersion
    rawHeader, \* RawHeader, joined
    counted,   \* requestBytes
    header,    \* the header model
    size,      \* size of the chunk in hand
    body,      \* Body, or the chunks gathered so far
    keepAlive,
    bodyParsed,
    verdict    \* "none" until ParseRequest returns

vars == <<sent, input, pos, phase, line, rawHeader, counted, header, size,
          body, keepAlive, bodyParsed, verdict>>

NoLine == [method |-> "none", target |-> <<>>, version |-> Version(0, 9)]

Init ==
    /\ sent \in Requests
    /\ input \in Arrivals(Wire(sent))
    /\ pos = 0
    /\ phase = "line"
    /\ line = NoLine
    /\ rawHeader = <<>> /\ counted = 0 /\ header = NoHeader
    /\ size = 0 /\ body = <<>>
    /\ keepAlive = FALSE /\ bodyParsed = FALSE
    /\ verdict = "none"

Return(v) == phase' = "done" /\ verdict' = v
Goto(p) == phase' = p /\ UNCHANGED verdict
Accept == Return("accepted") /\ bodyParsed' = TRUE
Refuse(v) == Return(v) /\ UNCHANGED bodyParsed
Continue(p) == Goto(p) /\ UNCHANGED bodyParsed

-----------------------------------------------------------------------------
(* readRequestLine                                                         *)

Spaced == {SP, CR, LF} \cup Methods \cup DOMAIN VersionOf

Versioned(text) == Last(WithoutEnd(text)) \in DOMAIN VersionOf
TargetIn(text) ==
    LET t == WithoutEnd(text)
    IN  SubSeq(t, 2, IF Versioned(text) THEN Len(t) - 1 ELSE Len(t))
IsRequestLine(text) ==
    /\ EndsLine(text) /\ Len(text) > 3
    /\ text[1] \in Methods
    /\ TargetIn(text) # <<>>
    /\ \A i \in DOMAIN TargetIn(text) : TargetIn(text)[i] \notin Spaced

ReadRequestLine ==
    /\ phase = "line"
    /\ LET text == Line(input, pos, MaxURILength)
           version == IF Versioned(text)
                      THEN VersionOf[Last(WithoutEnd(text))] ELSE Version(0, 9)
       IN  /\ pos' = pos + Len(text)
           /\ IF text = <<>> THEN Refuse("EOF") /\ UNCHANGED <<line, counted>>
              ELSE IF Len(text) >= MaxURILength /\ Last(text) # LF
              THEN Refuse("TooLarge") /\ UNCHANGED <<line, counted>>
              ELSE IF ~IsRequestLine(text)
              THEN Refuse("BadRequest") /\ UNCHANGED <<line, counted>>
              ELSE /\ line' = [method |-> text[1], target |-> TargetIn(text),
                               version |-> version]
                   /\ counted' = Len(text)
                   /\ Continue(IF version.major > 0 THEN "header" ELSE "target")
    /\ UNCHANGED <<sent, input, rawHeader, header, size, body, keepAlive>>

-----------------------------------------------------------------------------
(* readHeader                                                              *)

\* Mutant of TooMuch: one symbol too many is let through.
TooMuch_OffByOne(n) == n > MaxHeaderLength + 1
\* The limit on the request line and the header block together.
TooMuch(n) == n > MaxHeaderLength

ReadHeaderLine ==
    /\ phase = "header"
    /\ LET text == Line(input, pos, MaxLineLength)
       IN  /\ text # EndOfLine
           /\ pos' = pos + Len(text)
           /\ counted' = counted + Len(text)
           /\ IF text = <<>> THEN Refuse("EOF") /\ UNCHANGED rawHeader
              ELSE IF TooMuch(counted')
              THEN Refuse("TooLarge") /\ UNCHANGED rawHeader
              ELSE IF Contains(text, NUL)
              THEN Refuse("BadRequest") /\ UNCHANGED rawHeader
              ELSE rawHeader' = rawHeader \o text /\ Continue("header")
    /\ UNCHANGED <<sent, input, line, header, size, body, keepAlive>>

\* Mutant of LengthSound: a repeated content-length is let through.
LengthSound_Repeated(h) ==
    \A i \in DOMAIN Values(h, ContentLength) :
        Values(h, ContentLength)[i] \in {<<n>> : n \in DOMAIN NumberOf}

\* The content-length checks at the end of readHeader: at most one value, and
\* it is a number.
LengthSound(h) ==
    Values(h, ContentLength) \in {<<>>} \cup {<< <<n>> >> : n \in DOMAIN NumberOf}

EndHeader ==
    /\ phase = "header"
    /\ Line(input, pos, MaxLineLength) = EndOfLine
    /\ pos' = pos + 2
    /\ LET h == ParseHeader(rawHeader)
       IN  IF h.ok /\ LengthSound(h)
           THEN header' = h /\ Continue("target")
           ELSE Refuse("BadRequest") /\ UNCHANGED header
    /\ UNCHANGED <<sent, input, line, rawHeader, counted, size, body, keepAlive>>

-----------------------------------------------------------------------------
(* parseURI, computeKeepAlive: the rest of ParseRequest up to the body     *)

Unrouted == line.method = "CONNECT" \/ line.target = <<"*">>

\* Of parseURI only that it refuses a target in neither of its two forms.
TargetParses == line.target[1] = "/"

ComputeKeepAlive ==
    LET connection == Joined(header, Connection)
    IN  CASE connection = <<"close">> -> FALSE
          [] connection = <<"keep-alive">> -> TRUE
          [] OTHER -> ~Less(line.version, Version(1, 1))

ParseTarget ==
    /\ phase = "target"
    /\ IF Unrouted THEN Return("accepted") /\ UNCHANGED <<bodyParsed, keepAlive>>
       ELSE IF ~TargetParses THEN Refuse("BadRequest") /\ UNCHANGED keepAlive
       ELSE keepAlive' = ComputeKeepAlive /\ Continue("body")
    /\ UNCHANGED <<sent, input, pos, line, rawHeader, counted, header, size, body>>

-----------------------------------------------------------------------------
(* readBody and readChunked                                                *)

\* Atoi: the largest int for a number that does not fit (its error is dropped).
Atoi(text) == IF NumberOf[text[1]] > MaxInt THEN MaxInt ELSE NumberOf[text[1]]

\* Mutant of ReadFixed: a body that stops early is taken as it is.
ReadFixed_Short(n) ==
    LET k == Min({n, Len(input) - pos})
    IN  pos' = pos + k /\ body' = Taken(input, pos, k) /\ Accept

ReadFixed(n) ==
    IF ~Enough(input, pos, n) THEN Refuse("BadRequest") /\ UNCHANGED <<pos, body>>
    ELSE IF Overruns(input, pos, n) THEN Refuse("panic") /\ UNCHANGED <<pos, body>>
    ELSE pos' = pos + n /\ body' = Taken(input, pos, n) /\ Accept

ReadBody ==
    /\ phase = "body"
    /\ LET coding == Joined(header, TransferEncoding)
           length == Joined(header, ContentLength)
       IN  IF coding # <<>>
           THEN /\ IF length # <<>> THEN Refuse("BadRequest")
                   ELSE IF coding # <<Chunked>> THEN Refuse("NotImplemented")
                   ELSE Continue("size")
                /\ UNCHANGED <<pos, body>>
           ELSE IF length # <<>> THEN ReadFixed(Atoi(length))
           ELSE /\ IF line.method \in {"POST", "PUT"} THEN Refuse("LengthRequired")
                   ELSE Accept
                /\ UNCHANGED <<pos, body>>
    /\ UNCHANGED <<sent, input, line, rawHeader, counted, header, size, keepAlive>>

SoundExtension(ext) == Len(ext) > 1 /\ \A i \in DOMAIN ext : ext[i] \notin Spaced
IsSizeLine(text) ==
    /\ EndsLine(text) /\ Len(text) > 2
    /\ text[1] \in DOMAIN NumberOf /\ NumberOf[text[1]] <= MaxInt
    /\ Len(text) > 3 => text[2] = ";" /\ SoundExtension(Tail(WithoutEnd(text)))

ReadChunkSize ==
    /\ phase = "size"
    /\ LET text == Line(input, pos, MaxLineLength)
       IN  /\ pos' = pos + Len(text)
           /\ IF ~IsSizeLine(text) THEN Refuse("BadRequest") /\ UNCHANGED size
              ELSE /\ size' = NumberOf[text[1]]
                   /\ Continue(IF size' = 0 THEN "trailer" ELSE "data")
    /\ UNCHANGED <<sent, input, line, rawHeader, counted, header, body, keepAlive>>

\* Mutant of ReadChunkData: the end of the chunk is skipped unread.
ReadChunkData_Skips ==
    /\ phase = "data"
    /\ IF ~Enough(input, pos, size) THEN Refuse("BadRequest") /\ UNCHANGED <<pos, body>>
       ELSE IF Overruns(input, pos, size) THEN Refuse("panic") /\ UNCHANGED <<pos, body>>
       ELSE /\ pos' = pos + size + 2
            /\ body' = body \o Taken(input, pos, size)
            /\ Continue("size")
    /\ UNCHANGED <<sent, input, line, rawHeader, counted, header, size, keepAlive>>

ReadChunkData ==
    /\ phase = "data"
    /\ IF ~Enough(input, pos, size) THEN Refuse("BadRequest") /\ UNCHANGED <<pos, body>>
       ELSE IF Overruns(input, pos, size) THEN Refuse("panic") /\ UNCHANGED <<pos, body>>
       ELSE /\ pos' = pos + size
            /\ body' = body \o Taken(input, pos, size)
            /\ Continue("chunkEnd")
    /\ UNCHANGED <<sent, input, line, rawHeader, counted, header, size, keepAlive>>

ReadChunkEnd ==
    /\ phase = "chunkEnd"
    /\ LET text == Line(input, pos, MaxLineLength)
       IN  /\ pos' = pos + Len(text)
           /\ IF text = EndOfLine THEN Continue("size") ELSE Refuse("BadRequest")
    /\ UNCHANGED <<sent, input, line, rawHeader, counted, header, size, body, keepAlive>>

\* Mutant of ReadTrailerLine: the trailer is left in the input.
ReadTrailerLine_Left ==
    /\ phase = "trailer"
    /\ Accept
    /\ UNCHANGED <<sent, input, pos, line, rawHeader, counted, header, size, body, keepAlive>>

\* Mutant of ReadTrailerLine: the end of the input does not end the trailer.
ReadTrailerLine_Waits ==
    /\ phase = "trailer"
    /\ LET text == Line(input, pos, MaxLineLength)
       IN  /\ pos' = pos + Len(text)
           /\ IF text = EndOfLine THEN Accept ELSE Continue("trailer")
    /\ UNCHANGED <<sent, input, line, rawHeader, counted, header, size, body, keepAlive>>

ReadTrailerLine ==
    /\ phase = "trailer"
    /\ LET text == Line(input, pos, MaxLineLength)
       IN  /\ pos' = pos + Len(text)
           /\ IF text \in {<<>>, EndOfLine} THEN Accept ELSE Continue("trailer")
    /\ UNCHANGED <<sent, input, line, rawHeader, counted, header, size, body, keepAlive>>

Next ==
    \/ ReadRequestLine \/ ReadHeaderLine \/ EndHeader \/ ParseTarget \/ ReadBody
    \/ ReadChunkSize \/ ReadChunkData \/ ReadChunkEnd \/ ReadTrailerLine

\* ParseRequest is a call: it runs to its end.
Spec == Init /\ [][Next]_vars /\ WF_vars(Next)

-----------------------------------------------------------------------------
\* The type invariant: every variable keeps its shape (of sent and input, which
\* never change, and of header, which FieldsArrive speaks of, nothing is said).
Verdicts == {"none", "accepted", "EOF", "BadRequest", "TooLarge",
             "LengthRequired", "NotImplemented", "panic"}
TypeOK ==
    /\ input \in Seq(STRING) /\ body \in Seq(STRING) /\ rawHeader \in Seq(STRING)
    /\ pos \in 0..Len(input)
    /\ phase \in {"line", "header", "target", "body", "size", "data", "chunkEnd",
                  "trailer", "done"}
    /\ line \in [method : Methods \cup {"none"}, target : Seq(STRING), version : Versions]
    /\ counted \in Nat /\ size \in Nat
    /\ keepAlive \in BOOLEAN /\ bodyParsed \in BOOLEAN
    /\ verdict \in Verdicts

-----------------------------------------------------------------------------
(* What may be wrong with a request that has arrived whole, by the grammar *)
(* and the library's limits; none of it knows of the order of the reads.   *)

Complete == IsPrefix(Wire(sent), input)

\* A line that is cut so that its last piece is a bare end of line.
CutToBlank(text) == Len(text) > MaxLineLength /\ Len(text) % MaxLineLength = 2
CutFields(fields) ==
    \E i \in DOMAIN fields : \E j \in DOMAIN fields[i].parts :
        CutToBlank(FieldLines(fields[i])[j])

TooLarge(m) ==
    \/ Len(LineOf(m)) > MaxURILength
    \/ HasHead(m) /\ Len(HeadOf(m)) > MaxHeaderLength

BadField(f) == f.name \notin FieldNames \/ \E i \in DOMAIN f.parts : Contains(f.parts[i], NUL)
BadLengths(lengths) ==
    \/ Len(lengths) > 1
    \/ lengths # <<>> /\ ~(Len(lengths[1]) = 1 /\ lengths[1][1] \in DOMAIN NumberOf)

BadHead(m) ==
    \/ m.method \notin Methods
    \/ \E i \in DOMAIN m.target : m.target[i] \in Spaced
    \/ HasHead(m) /\ \/ \E i \in DOMAIN m.fields : BadField(m.fields[i])
                     \/ BadLengths(Sent(m, ContentLength))
                     \/ CutFields(m.fields)

\* CONNECT and the asterisk form are handed over without their payload.
Routable(m) == m.method # "CONNECT" /\ m.target # <<"*">>

\* A coding given as an empty value counts as none.
Codings(m) == IF Sent(m, TransferEncoding) = << <<>> >> THEN <<>> ELSE Sent(m, TransferEncoding)
Coded(m) == HasHead(m) /\ Codings(m) # <<>>

LengthsStated(m) ==
    {NumberOf[s] : s \in DOMAIN NumberOf \cap UNION {ToSet(v) : v \in ToSet(Lengths(m))}}
SizesStated(m) ==
    {NumberOf[c.size] : c \in {d \in ToSet(m.chunks) : d.size \in DOMAIN NumberOf}}

\* It states a length that does not come and reaches, from the cursor, past the
\* largest int.
Overlong(m) ==
    \E n \in LengthsStated(m) \cup SizesStated(m) : n > Len(input) /\ n > MaxInt - Len(input)

BadChunk(c) ==
    \/ c.size \notin DOMAIN NumberOf \/ NumberOf[c.size] # Len(c.data)
    \/ c.ext # <<>> /\ \/ c.ext[1] # ";" \/ Len(c.ext) = 1
                       \/ \E i \in DOMAIN c.ext : c.ext[i] \in Spaced
    \/ Len(SizeLine(c)) > MaxLineLength

BadPayload(m) ==
    \/ m.target[1] # "/"
    \/ Coded(m) /\ Lengths(m) # <<>>
    \/ Coded(m) /\ m.chunked /\ \E i \in DOMAIN m.chunks : BadChunk(m.chunks[i])
    \/ ~Coded(m) /\ \E n \in LengthsStated(m) : n # Len(m.data)

Faults(m) ==
    {v \in Verdicts :
        \/ v = "TooLarge" /\ TooLarge(m)
        \/ v = "BadRequest" /\ (BadHead(m) \/ (Routable(m) /\ BadPayload(m)))
        \/ v = "NotImplemented" /\ Routable(m) /\ Coded(m) /\ Codings(m) # << <<Chunked>> >>
        \/ v = "LengthRequired" /\ Routable(m) /\ m.method \in {"POST", "PUT"}
                                /\ ~Coded(m) /\ Lengths(m) = <<>>
        \/ v = "panic" /\ Routable(m) /\ Overlong(m)}

-----------------------------------------------------------------------------
\* A request that has arrived whole, whatever bytes follow it, is accepted if
\* nothing is wrong with it, and is otherwise refused for one of its faults.
VerdictIsDeserved ==
    verdict # "none" /\ Complete =>
        IF Faults(sent) = {} THEN verdict = "accepted" ELSE verdict \in Faults(sent)

\* The input stops inside the trailer section of a chunked request, or a
\* trailer line is cut so that it seems to end.
TrailerCut == ~Complete /\ sent.chunked /\ IsPrefix(UpToTrailer(sent), input)
TrailerSplit == sent.chunked /\ CutFields(sent.trailer)

\* A body that is handed over is the body the client meant, of one chunk or of
\* many, whatever follows it; a request cut short anywhere but in its trailer
\* is never handed over, and one whose payload is left unread (CONNECT, "*")
\* does not keep its connection.
AcceptedIsWhole ==
    verdict = "accepted" =>
        IF bodyParsed THEN body = Meant(sent) /\ (Complete \/ TrailerCut)
                      ELSE ~Routable(sent) /\ ~keepAlive

\* On a connection that is kept, the cursor stands at the end of the request
\* and not in the middle of it or of the next one.
KeptAliveIsDrained ==
    verdict = "accepted" /\ keepAlive /\ ~TrailerCut /\ ~TrailerSplit =>
        pos = Len(Wire(sent))

\* The values of every field are those sent, in their order, continuation
\* lines and lines longer than the cap put together again, and trimmed.
FieldsArrive ==
    verdict = "accepted" /\ HasHead(sent) =>
        \A name \in FieldNames :
            LET got == Values(header, name)
            IN  /\ [i \in DOMAIN got |-> Ink(got[i])] = Sent(sent, name)
                /\ \A i \in DOMAIN got : got[i] # <<>> => SP \notin {got[i][1], Last(got[i])}
                /\ Contains(header.order, name) <=> got # <<>>

\* However long the header block is, no more of it is read than the limit and
\* one line.
Reach == Max({MaxURILength, MaxHeaderLength})
HeaderReadIsBounded ==
    /\ phase = "header" => pos = counted /\ counted <= Reach
    /\ verdict = "TooLarge" => pos <= Reach + MaxLineLength

\* The inductive invariant the proofs use: it adds where the cursor stands
\* before the header block is over, that a verdict ends the call, and that the
\* length readBody takes has passed the checks of readHeader.
IInv ==
    /\ TypeOK
    /\ phase = "line" => pos = 0
    /\ phase = "done" <=> verdict # "none"
    /\ LengthSound(header)
    /\ HeaderReadIsBounded

\* ParseRequest returns, whatever it is given: no loop waits at the end of the
\* input for a line that does not come.
Returns == <>(verdict # "none")

-----------------------------------------------------------------------------
(* What the repository says of the program, and the code does not keep.    *)

\* readN's comment: "returns exactly n bytes; ok=false if fewer remain"; and
\* ParseRequest's: "returns a *Status on any malformed input".
NeverPanics == verdict # "panic"
=============================================================================
