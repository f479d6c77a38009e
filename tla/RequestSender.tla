--------------------------- MODULE RequestSender ----------------------------
(***************************************************************************)
(* The client at the other end: the requests it means and the bytes it     *)
(* sends for them, by the grammar of HTTP/1.1 (RFC 2616) and not by the    *)
(* parser.  A request is a record of                                       *)
(*   method, target, version   symbols; version "none" for a simple request*)
(*   fields, trailer           sequences of [name, parts]: parts are the   *)
(*                             value and its continuation lines            *)
(*   chunked                   how the payload is sent                     *)
(*   chunks                    of a chunked payload: [size, ext, data]     *)
(*   data                      of any other payload                        *)
(***************************************************************************)
EXTENDS RequestHeader, HTTPVersion

CONSTANTS
    Methods,     \* method symbols, each with the space after it
    VersionOf,   \* version symbols " HTTP/x.y" -> version
    NumberOf     \* number symbols -> value

\* CR and LF end lines and are found elsewhere in payloads only.
Symbols == STRING \ {CR, LF}

Chunked == "chunked"
ContentLength == "content-length"
TransferEncoding == "transfer-encoding"
Connection == "connection"

ASSUME SymbolsAssumption ==
    /\ Methods \subseteq STRING
    /\ VersionOf \in [DOMAIN VersionOf -> Versions] /\ DOMAIN VersionOf \subseteq Symbols
    /\ NumberOf \in [DOMAIN NumberOf -> Nat] /\ DOMAIN NumberOf \subseteq Symbols
    /\ "0" \in DOMAIN NumberOf /\ NumberOf["0"] = 0
    /\ {ContentLength, TransferEncoding, Connection} \subseteq FieldNames

LineOf(m) ==
    <<m.method>> \o m.target
        \o (IF m.version = "none" THEN <<>> ELSE <<m.version>>) \o EndOfLine

FieldLines(f) ==
    [i \in DOMAIN f.parts |->
        (IF i = 1 THEN <<f.name>> ELSE <<SP>>) \o f.parts[i] \o EndOfLine]
Block(fields) == FlattenSeq([i \in DOMAIN fields |-> FlattenSeq(FieldLines(fields[i]))])

VersionMeant(m) == IF m.version = "none" THEN Version(0, 9) ELSE VersionOf[m.version]
HasHead(m) == VersionMeant(m).major > 0
HeadOf(m) == LineOf(m) \o (IF HasHead(m) THEN Block(m.fields) ELSE <<>>)

SizeLine(c) == <<c.size>> \o c.ext \o EndOfLine
ChunkBytes(c) == SizeLine(c) \o c.data \o EndOfLine
LastChunk == <<"0">> \o EndOfLine

\* The bytes up to the trailer, and all of them.
UpToTrailer(m) ==
    HeadOf(m) \o (IF HasHead(m) THEN EndOfLine ELSE <<>>)
        \o (IF m.chunked
            THEN FlattenSeq([i \in DOMAIN m.chunks |-> ChunkBytes(m.chunks[i])]) \o LastChunk
            ELSE m.data)
Wire(m) == UpToTrailer(m) \o (IF m.chunked THEN Block(m.trailer) \o EndOfLine ELSE <<>>)

\* The body meant.
Meant(m) ==
    IF m.chunked THEN FlattenSeq([i \in DOMAIN m.chunks |-> m.chunks[i].data]) ELSE m.data

\* The values of a field in the order sent, without the white space.
Ink(text) == FlattenSeq([i \in DOMAIN text |-> IF text[i] = SP THEN <<>> ELSE <<text[i]>>])
SentIn(fields, name) ==
    FlattenSeq([i \in DOMAIN fields |->
        IF fields[i].name = name THEN <<Ink(FlattenSeq(fields[i].parts))>> ELSE <<>>])
Sent(m, name) == SentIn(m.fields, name)

\* The grammar.  A field has a value, and its name is no space; a payload is
\* sent in chunks just when the head says so, and only the last chunk is empty.
Fields == Seq([name : Symbols \ {SP}, parts : Seq(Seq(Symbols)) \ {<<>>}])
Chunks == Seq([size : Symbols, ext : Seq(Symbols), data : Seq(STRING)])
Grammar(m) ==
    /\ m \in [method : Symbols, target : Seq(Symbols \ DOMAIN VersionOf) \ {<<>>},
              version : DOMAIN VersionOf \cup {"none"}, fields : Fields, trailer : Fields,
              chunked : BOOLEAN, chunks : Chunks, data : Seq(STRING)]
    /\ m.chunked <=> HasHead(m) /\ Sent(m, TransferEncoding) = << <<Chunked>> >>
    /\ IF m.chunked THEN m.data = <<>> ELSE m.chunks = <<>> /\ m.trailer = <<>>
    /\ \A i \in DOMAIN m.chunks :
          m.chunks[i].size \in DOMAIN NumberOf => NumberOf[m.chunks[i].size] # 0
=============================================================================
