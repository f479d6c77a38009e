---------------------------- MODULE MCHTTPServer ----------------------------
(***************************************************************************)
(* Instances of HTTPServer for TLC.  A character is its code: "/" is 47,   *)
(* "-" is 45 and sorts before it, "a" is 97 and sorts after it.            *)
(***************************************************************************)
EXTENDS HTTPServer

CONSTANTS web, api   \* two servlets

Dash == 45
A == 97
Root == <<Slash>>
DirA == <<Slash, A>>
DirASlash == <<Slash, A, Slash>>
DirAA == <<Slash, A, A>>
DirADash == <<Slash, A, Dash>>
DirAInA == <<Slash, A, Slash, A>>

MCMethods == {"GET", "get", "HEAD", "POST", "PUT", "OPTIONS", "DELETE"}
MCUpper == [m \in MCMethods |-> IF m = "get" THEN "GET" ELSE m]
MCNames == {web, api}
MCProcs == {web}
MCHandled == {"get", "POST", "OPTIONS"}

Gets(paths) == [method : {"GET"}, asterisk : {FALSE}, path : paths]
Asterisks == [method : {"GET", "OPTIONS"}, asterisk : {TRUE}, path : {<<>>}]

\* One worker, every table over four mounts, two of which start alike.
RacingDirs == {Root, DirA, DirASlash, DirADash, DirAInA}
RacingRequests == Gets({Root, DirA, DirADash, DirAA, DirAInA \o DirA}) \cup Asterisks

\* Two workers, two mounts.
SharedDirs == {Root, DirASlash}
SharedRequests ==
    Gets({DirA, DirASlash})
    \cup [method : {"HEAD", "OPTIONS", "get"}, asterisk : {FALSE}, path : {DirAInA}]
    \cup Asterisks
=============================================================================
