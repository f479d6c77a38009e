---------------------------- MODULE HTTPResponse ----------------------------
(***************************************************************************)
(* The life of one Response: the host creates it, wires the request in     *)
(* (SetRequest), servlets and handlers call its methods in any order, and  *)
(* the host renders it with Bytes, possibly more than once: after a        *)
(* rejected header, or after changing it again.                            *)
(*                                                                         *)
(* One action per exported method (or exported field the callers assign).  *)
(***************************************************************************)
EXTENDS ResponseOps

CONSTANTS
    Requests,    \* what SetRequest may be given: records of method, version, keepAlive
    AppFields,   \* <<field, value>> pairs servlets pass to Set
    Deletable,   \* fields servlets pass to Delete
    Codes,       \* status codes servlets pass to SetStatus
    Errors,      \* errors the host passes to SetError
    Bodies,      \* what servlets assign to Body
    Urls,        \* redirect targets
    MaxCalls     \* bound: calls made on the response before it is abandoned

ASSUME RequestsAssumption ==
    Requests \subseteq [method : Methods, version : Versions, keepAlive : BOOLEAN]
ASSUME AppFieldsAssumption == AppFields \subseteq FieldNames \X Values /\ Deletable \subseteq FieldNames
ASSUME CodesAssumption == Codes \subseteq Int /\ Errors \subseteq Int
ASSUME BodiesAssumption == Bodies \subseteq Seq(Nat)
ASSUME UrlsAssumption == Urls \subseteq Values
ASSUME MaxCallsAssumption == MaxCalls \in Nat

VARIABLES
    res,     \* the Response
    stage,   \* "new", "servlet", "sent", "rejected" (InvalidHeader), "panicked"
    wire,    \* the message of the last successful Bytes
    failed,  \* history: SetError has recorded an error status
    calls    \* calls made so far

vars == <<res, stage, wire, failed, calls>>

NoWire == [simple |-> TRUE, status |-> 0, fields |-> <<>>, payload |-> <<>>]

Init ==
    /\ res = NewResponse
    /\ stage = "new"
    /\ wire = NoWire
    /\ failed = FALSE
    /\ calls = 0

-----------------------------------------------------------------------------
\* A method call that does not render: the response is being filled in again.
Call(r) ==
    /\ stage # "panicked"
    /\ calls < MaxCalls
    /\ calls' = calls + 1
    /\ res' = r
    /\ stage' = IF stage = "new" THEN "new" ELSE "servlet"
    /\ UNCHANGED wire

\* The host wires the request in before servicing, hence before any call.
WireRequest(req) ==
    /\ stage = "new" /\ calls = 0
    /\ res' = SetRequest(res, req)
    /\ stage' = "servlet"
    /\ UNCHANGED <<wire, failed, calls>>

SetField(field, v) == Call(Set(res, field, v)) /\ UNCHANGED failed
DropField(field) == Call(Delete(res, field)) /\ UNCHANGED failed
ChooseStatus(code) == Call(SetStatus(res, code)) /\ UNCHANGED failed
ToggleChunked(v) == Call(SetChunked(res, v)) /\ UNCHANGED failed
AssignBody(body) == Call(SetBody(res, body)) /\ UNCHANGED failed
AppendCookie(c) == Call(AddCookie(res, c)) /\ UNCHANGED failed
Redirect(url) == Call(SetRedirect(res, url)) /\ UNCHANGED failed

FillError(err) ==
    /\ ~ErrorBodyPanics(err)
    /\ Call(SetError(res, err))
    /\ failed' = (failed \/ IsError(SetErrorStatus(res, err).status))

\* The panic unwinds out of SetError: the fields assigned before it stay.
PanicInSetError(err) ==
    /\ ErrorBodyPanics(err)
    /\ stage # "panicked"
    /\ calls < MaxCalls
    /\ calls' = calls + 1
    /\ res' = SetError(res, err)
    /\ stage' = "panicked"
    /\ failed' = TRUE
    /\ UNCHANGED wire

Bytes ==
    /\ stage # "panicked"
    /\ LET r == SetupHeader(res)
       IN  /\ res' = r
           /\ IF InvalidHeader(r)
              THEN stage' = "rejected" /\ UNCHANGED wire
              ELSE stage' = "sent" /\ wire' = Wire(r)
    /\ UNCHANGED <<failed, calls>>

Next ==
    \/ \E req \in Requests : WireRequest(req)
    \/ \E f \in AppFields : SetField(f[1], f[2])
    \/ \E f \in Deletable : DropField(f)
    \/ \E code \in Codes : ChooseStatus(code)
    \/ \E v \in BOOLEAN : ToggleChunked(v)
    \/ \E body \in Bodies : AssignBody(body)
    \/ \E c \in {"plain", "crlf"} : AppendCookie(c)
    \/ \E url \in Urls : Redirect(url)
    \/ \E err \in Errors : FillError(err)
    \/ \E err \in Errors : PanicInSetError(err)
    \/ Bytes

Spec == Init /\ [][Next]_vars

-----------------------------------------------------------------------------
\* The type invariant: every variable keeps its shape.
TypeOK ==
    /\ ResponseType(res)
    /\ stage \in {"new", "servlet", "sent", "rejected", "panicked"}
    /\ failed \in BOOLEAN
    /\ calls \in 0..MaxCalls

\* The header is a map and a separate list of its keys, updated apart by Set
\* and Delete: the list must stay a duplicate-free listing of the map's keys,
\* or a field would be sent twice, or not at all, or after being deleted.
HeaderOrdered == Ordered(res.header)

\* What the peer reads in the head and what the host reads in KeepAlive() are
\* two separate outcomes of setupHeader: the host closes exactly the
\* connections it has announced it will close (with no head, it closes).
ConnectionAgrees ==
    stage = "sent" => (res.keepAlive <=> KeepsOpen(wire))

\* A message on a connection that stays open says where it ends.
KeptAliveIsDelimited ==
    stage = "sent" /\ res.keepAlive =>
        \/ BodylessStatus(wire.status)
        \/ Carries(wire, "content-length")
        \/ /\ Carries(wire, "transfer-encoding")
           /\ FieldOf(wire, "transfer-encoding") = Text("chunked")

\* Once SetError has recorded an error status, no later call makes the
\* response keep its connection: neither a Connection field set by hand, nor
\* another status, nor rendering it again.
FailureCloses ==
    failed => ~res.keepAlive /\ (stage = "sent" => ~KeepsOpen(wire))

-----------------------------------------------------------------------------
(* Framing: the recipient finds the end of the message from the head, the  *)
(* library wrote the payload from its own flags; do they meet?             *)

Expected == IF res.requestMethod = "HEAD" THEN <<>> ELSE res.body

InSync == Receive(res.requestMethod, wire) = Reads(Expected, <<>>)

\* The three ways a legal sequence of calls parts head and payload.
ReadsPayload == ~wire.simple /\ res.requestMethod # "HEAD"

BodylessChunked ==
    ReadsPayload /\ BodylessStatus(wire.status) /\ res.chunked

CodedField ==
    /\ Carries(wire, "transfer-encoding")
    /\ FieldOf(wire, "transfer-encoding").text # "identity"

StaleCoding ==
    /\ ReadsPayload /\ ~BodylessStatus(wire.status)
    /\ ~res.chunked /\ CodedField

StaleLength ==
    /\ ReadsPayload /\ ~BodylessStatus(wire.status)
    /\ ~CodedField
    /\ Carries(wire, "content-length")
    /\ FieldOf(wire, "content-length") # Decimal(Len(res.body))

\* Whatever the calls before it, a rendered message is received as exactly the
\* body the response held, with nothing left over for the next message on the
\* connection, unless one of the three causes applies; and each of them is a
\* real loss of framing.
FramingExact ==
    stage = "sent" => (InSync <=> ~(BodylessChunked \/ StaleCoding \/ StaleLength))

\* A client older than HTTP/1.1 is never sent chunked framing, whichever of
\* SetChunked, Set and a second rendering turned chunked mode on, and one older
\* than HTTP/1.0 never sees a head.
OldClientsGetPlainBytes ==
    stage = "sent" =>
        /\ Less(res.requestVersion, Version(1, 1)) => AllBytes(wire.payload)
        /\ Less(res.requestVersion, Version(1, 0)) => wire.simple

\* Bytes changes the response it renders; rendering it again with no call in
\* between (a host retrying its write) gives the same message and response.
RenderingIsStable ==
    [][stage = "sent" /\ stage' = "sent" => res' = res /\ wire' = wire]_vars

\* The inductive invariant the proofs use: it adds that a rendered response is
\* settled and is the one the message was written from, and that no response
\* has lost its head but for a client older than HTTP/1.0.
IInv ==
    /\ TypeOK
    /\ HeaderOrdered
    /\ stage = "new" /\ calls = 0 => ~failed
    /\ stage = "new" => res.httpVersion = ConfigVersion
    /\ res.httpVersion.major = 0 =>
           ~res.keepAlive /\ Less(res.requestVersion, Version(1, 0))
    /\ failed => ~res.keepAlive
    /\ stage = "sent" => Settled(res) /\ wire = Wire(res)

-----------------------------------------------------------------------------
(* What the repository says of the program, and the code does not keep.    *)

\* setupHeader's comment: framing is "Content-Length vs chunked vs
\* delete-for-bodyless"; the test: "204 no-content clears the body".  So a
\* bodyless answer carries no payload.
BodylessSendsNothing ==
    stage = "sent" /\ ~wire.simple /\ BodylessStatus(wire.status)
        => wire.payload = <<>>

\* setupHeader's comment: "HTTP/0.9 + HTTP/1.0 feature downgrades"; the test:
\* "chunked should be downgraded for HTTP/1.0".  So a client older than
\* HTTP/1.1 is not told of a chunked coding.
DowngradeIsComplete ==
    stage = "sent" /\ Less(res.requestVersion, Version(1, 1))
        => \A i \in 1..Len(wire.fields) :
              wire.fields[i] # [name |-> "transfer-encoding",
                                val |-> Text("chunked")]

\* SetError's comment: a status sets that status, "anything else becomes 500",
\* and the default error page is generated.  So it answers whatever it is given.
SetErrorAnswers == stage # "panicked"

\* SetError's comment: it "generates the default error-page HTML"; the README's
\* usage: "default error page + status".  So, to a client that reads a body, an
\* error answer delivers the page.
ErrorPageArrives ==
    stage = "sent" /\ failed /\ res.body = ErrorPage /\ ReadsPayload
        => Receive(res.requestMethod, wire).body = ErrorPage
=============================================================================
