----------------------------- MODULE Recipient ------------------------------
(***************************************************************************)
(* The HTTP/1.1 recipient at the other end of the connection (RFC 2616     *)
(* section 4.4, which setupHeader cites): how far it reads a message, from *)
(* the request method, the status, the message-length headers and the      *)
(* payload.  It is no part of the library: it is what the bytes returned   *)
(* by Response.Bytes must make sense to.                                   *)
(*                                                                         *)
(* A payload is a sequence of atoms: one per body byte, one per chunk-size *)
(* number, one per CRLF of the chunked framing.                            *)
(***************************************************************************)
EXTENDS HTTPStatus, Sequences

Byte(b) == [kind |-> "byte", val |-> b]
Size(n) == [kind |-> "size", val |-> n]
CrLf == [kind |-> "crlf", val |-> 0]

AsPayload(body) == [i \in 1..Len(body) |-> Byte(body[i])]
Content(atoms) == [i \in 1..Len(atoms) |-> atoms[i].val]
AllBytes(atoms) == \A i \in 1..Len(atoms) : atoms[i].kind = "byte"

Garbled == [ok |-> FALSE, body |-> <<>>, rest |-> <<>>]
Reads(body, rest) == [ok |-> TRUE, body |-> body, rest |-> rest]

From(p, i) == SubSeq(p, i, Len(p))

\* The whole payload belongs to the message: read until the peer closes.
UntilClose(p) == IF AllBytes(p) THEN Reads(Content(p), <<>>) ELSE Garbled

\* A length that is no number is no length.
FixedLength(p, length) ==
    LET n == length.num
    IN  IF length.text # "decimal" \/ n > Len(p) \/ ~AllBytes(SubSeq(p, 1, n))
        THEN Garbled
        ELSE Reads(Content(SubSeq(p, 1, n)), From(p, n + 1))

\* A chunk's size at place i, and the place after the chunk's bytes.
SizeAt(p, i) == i < Len(p) /\ p[i].kind = "size" /\ p[i + 1] = CrLf
ChunkEnd(p, i) == i + 2 + p[i].val
Chunk(p, i) == SubSeq(p, i + 2, ChunkEnd(p, i) - 1)

\* What the chunk at place i adds, read[k] being what is read from place k on.
ReadChunk(p, read, i) ==
    LET end == ChunkEnd(p, i)
    IN  IF ~SizeAt(p, i) THEN Garbled
        ELSE IF end > Len(p) \/ p[end] # CrLf THEN Garbled
        ELSE IF p[i].val = 0 THEN Reads(<<>>, From(p, i + 3))
        ELSE IF ~AllBytes(Chunk(p, i)) THEN Garbled
        ELSE [read[end + 1] EXCEPT !.body = Content(Chunk(p, i)) \o @]

\* Chunks up to the zero-sized one, then the CRLF that ends the trailer.
Dechunk(p) ==
    LET read[i \in 1..(Len(p) + 1)] == ReadChunk(p, read, i)
    IN  read[1]

-----------------------------------------------------------------------------
(* A message w is what Wire(_) of ResponseOps gives: simple (no head at    *)
(* all, HTTP/0.9), status, fields (name and value, in order), payload.     *)

Carries(w, name) == \E i \in 1..Len(w.fields) : w.fields[i].name = name
FieldOf(w, name) ==
    w.fields[CHOOSE i \in 1..Len(w.fields) : w.fields[i].name = name].val

\* RFC 2616 4.4, in its order of precedence; "identity" is no coding at all.
Receive(method, w) ==
    IF w.simple THEN UntilClose(w.payload)
    ELSE IF method = "HEAD" \/ BodylessStatus(w.status)
    THEN Reads(<<>>, w.payload)
    ELSE IF /\ Carries(w, "transfer-encoding")
            /\ FieldOf(w, "transfer-encoding").text # "identity"
    THEN Dechunk(w.payload)
    ELSE IF Carries(w, "content-length")
    THEN FixedLength(w.payload, FieldOf(w, "content-length"))
    ELSE UntilClose(w.payload)

\* The recipient keeps the connection exactly when the head tells it to.
KeepsOpen(w) ==
    ~w.simple /\ Carries(w, "connection")
              /\ FieldOf(w, "connection").text # "close"
=============================================================================
