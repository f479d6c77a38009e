--------------------------- MODULE MCHTTPRequest ----------------------------
(***************************************************************************)
(* Instances of HTTPRequest for TLC.                                       *)
(***************************************************************************)
EXTENDS HTTPRequest

MCFieldNames == {ContentLength, TransferEncoding, Connection, "x"}
MCMethods == {"GET", "POST", "CONNECT"}
MCVersionOf ==
    [v \in {"0.9", "1.0", "1.1"} |->
        CASE v = "0.9" -> Version(0, 9) [] v = "1.0" -> Version(1, 0)
          [] v = "1.1" -> Version(1, 1)]
\* Two numbers of ordinary size and two at the largest int and beyond.
MCNumberOf ==
    [n \in {"0", "1", "2", "max", "huge"} |->
        CASE n = "0" -> 0 [] n = "1" -> 1 [] n = "2" -> 2
          [] n = "max" -> MaxInt [] n = "huge" -> MaxInt + 5]

Field(name, v) == [name |-> name, parts |-> <<v>>]
Folded(name, v, w) == [name |-> name, parts |-> <<v, w>>]
Fill(n) == [i \in 1..n |-> "a"]

LengthFields == {Field(ContentLength, <<n>>) : n \in {"0", "2", "max", "huge", "a"}}
CodingFields ==
    {Field(TransferEncoding, <<"chunked">>), Folded(TransferEncoding, <<>>, <<"chunked">>),
     Field(TransferEncoding, <<"gzip">>), Field(TransferEncoding, <<>>)}
OtherFields ==
    {Field(Connection, <<c>>) : c \in {"close", "keep-alive"}}
    \cup {Field("x", Fill(n)) : n \in {0, 2, 3, 4}}
    \cup {Folded("x", <<"a", SP>>, <<"a", SP>>), Field("x", <<"a", NUL>>), Field("bad", <<"a">>)}

Blocks ==
    {<<>>} \cup {<<f>> : f \in LengthFields \cup CodingFields \cup OtherFields}
    \cup {<<f, g>> : f \in LengthFields \cup CodingFields, g \in OtherFields}
    \cup {<<f, g>> : f \in LengthFields, g \in CodingFields}
    \cup {<<f, f>> : f \in LengthFields \cup CodingFields \cup OtherFields}
    \cup {<<Field("x", <<"a">>), Field("x", <<"a">>), Field("x", Fill(n))>> : n \in {1, 2}}
    \cup {<<Field("x", <<"a">>), Folded("x", <<"a">>, <<"a">>)>>}

Start(method, target, version) == [method |-> method, target |-> target, version |-> version]
Plain == Start("GET", <<"/">>, "1.1")
Starts ==
    {Start("POST", <<"/">>, "1.0"), Start("GET", <<"/", "a">>, "1.1"),
     Start("GET", <<"/", "a", "a">>, "1.1"), Start("GET", <<"/", SP>>, "1.1"),
     Start("GET", <<"*">>, "1.1"), Start("GET", <<"a">>, "1.1"),
     Start("CONNECT", <<"a">>, "1.1"), Start("BAD", <<"/">>, "1.1")}
Simple == {Start(m, <<"/">>, v) : m \in {"GET", "POST"}, v \in {"none", "0.9"}}

Request(start, fields, chunked, data, chunks, trailer) ==
    [method |-> start.method, target |-> start.target, version |-> start.version,
     fields |-> fields, chunked |-> chunked, data |-> data, chunks |-> chunks,
     trailer |-> trailer]

Chunk(s, ext, data) == [size |-> s, ext |-> ext, data |-> data]
ChunkLists ==
    {<<>>, <<Chunk("1", <<>>, <<"a">>)>>,
     <<Chunk("2", <<>>, <<CR, LF>>), Chunk("1", <<>>, <<"0">>)>>,
     <<Chunk("1", <<";", "a">>, <<LF>>)>>, <<Chunk("1", <<";">>, <<"a">>)>>,
     <<Chunk("max", <<>>, <<"a">>)>>, <<Chunk("huge", <<>>, <<>>)>>}
Trailers == {<<>>, <<Field("x", <<>>)>>, <<Field("x", Fill(3)), Field("x", <<>>)>>}

\* What the client sends after a head: chunks if it has announced them, as many
\* bytes as it has announced otherwise.
Announced(fields, name) == \E i \in DOMAIN fields : fields[i].name = name
Payloads(start, fields) ==
    IF Announced(fields, TransferEncoding) /\ Ink(FlattenSeq([i \in DOMAIN fields |->
            IF fields[i].name = TransferEncoding THEN FlattenSeq(fields[i].parts) ELSE <<>>]))
         = <<Chunked>>
    THEN {Request(start, fields, TRUE, <<>>, c, t) : c \in ChunkLists, t \in Trailers}
    ELSE {Request(start, fields, FALSE,
                  IF Field(ContentLength, <<"2">>) \in ToSet(fields) THEN <<CR, LF>> ELSE <<>>,
                  <<>>, <<>>)}

MCRequests ==
    UNION {Payloads(Plain, b) : b \in Blocks}
    \cup UNION {Payloads(s, b) : s \in Starts, b \in {c \in Blocks : Len(c) <= 1}}
    \cup UNION {Payloads(s, <<>>) : s \in Simple}
\* Few enough for a temporal property: no body, a fixed one, a chunked one.
FewRequests ==
    UNION {Payloads(Plain, b) : b \in {<<>>} \cup {<<Field(ContentLength, <<"2">>)>>}
                                    \cup {<<f>> : f \in CodingFields}}
MCAfter == {<<>>, <<"GET", "/", "1.1", CR, LF>>, <<CR, LF, "a">>}
=============================================================================
