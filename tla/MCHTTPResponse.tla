--------------------------- MODULE MCHTTPResponse ---------------------------
(***************************************************************************)
(* Instances of HTTPResponse for TLC.                                      *)
(***************************************************************************)
EXTENDS HTTPResponse

\* What ParseRequest can hand over: keepAlive is false for HTTP/0.9 (it has no
\* headers), and either for 1.0 and 1.1 (computeKeepAlive).
MCRequests ==
    [method : {"GET"}, version : {Version(0, 9)}, keepAlive : {FALSE}]
    \cup [method : {"GET", "HEAD"}, version : {Version(1, 0), Version(1, 1)},
          keepAlive : BOOLEAN]

MCFieldNames ==
    {"server", "content-type", "content-length", "transfer-encoding",
     "connection", "location", "allow"}
MCTexts ==
    {"empty", "decimal", "crlf", "software", "text/html", "multipart/byteranges",
     "chunked", "identity", "Keep-Alive", "close", "url"}
MCMethods == {"none", "GET", "HEAD"}
MCConfigVersion == Version(1, 1)
MCErrorPage == <<5, 6, 7>>
MCRedirectPage == <<4, 4>>

MCAppFields ==
    {<<"connection", Text("close")>>,
     <<"connection", Text("Keep-Alive")>>,
     <<"transfer-encoding", Text("chunked")>>,
     <<"transfer-encoding", Text("identity")>>,
     <<"content-length", Decimal(1)>>,
     <<"content-length", Text("empty")>>,
     <<"content-type", Text("multipart/byteranges")>>,
     <<"allow", Text("crlf")>>}
MCDeletable == {"connection", "transfer-encoding", "content-length", "allow"}
MCCodes == {200, 204, 404}
MCErrors == {NewStatus(404), NewStatus(304), NewStatus(418), EOFStatus, PlainError}
MCBodies == {<<>>, <<1>>, <<2, 2>>}
MCUrls == {Text("url"), Text("crlf")}
=============================================================================
