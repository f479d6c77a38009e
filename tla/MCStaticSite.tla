---------------------------- MODULE MCStaticSite ----------------------------
(***************************************************************************)
(* StaticSite below /r, mounted on /f: a directory or file whose name      *)
(* holds a query sign, an escape and a byte beyond ASCII, in it the        *)
(* indices i and j and the name ~, which is not disclosed; other servlets  *)
(* on a prefix, on a neighbour and below.                                  *)
(***************************************************************************)
EXTENDS StaticSite

S == <<Slash>>
R == S \o <<114>>
F == S \o <<102>>
A == S \o <<Question, Percent, 54, 49, 233>>
I == S \o <<105>>
J == S \o <<106>>
Backup == S \o <<126>>

MCRoot == R
MCDirectoryIndex == <<Tail(I), Tail(J)>>
MCNondisclosureName == <<<<46, 104, 116, Star>>, <<Star, 126>>>>    \* .ht*, *~
MCEntries == {R, R \o A, R \o A \o I, R \o A \o J, R \o A \o Backup}
MCPathInfos == {<<>>}    \* before a request is routed
MCServerName == <<115>>
MCHandled == F
MCOthers == {<<>>, F \o A, F \o <<97>>}

Plain == {F \o info : info \in {<<>>, S, A, A \o S, A \o I, A \o J \o S, A \o Backup,
                                A \o Backup \o S}}

\* Spellings of one path: every slash as a detour that ends where it began, its
\* dots escaped or not; the first letter escaped; a query.
Detours == {S, S \o S, S \o <<Dot>> \o S, J \o S \o <<Dot, Dot>> \o S}
HiddenDots(text) ==
    Mapped(text, LAMBDA i : IF text[i] = Dot THEN <<Percent, 50, 101>> ELSE <<text[i]>>)
Spelt(path, detour) ==
    EscapePath(Mapped(path, LAMBDA i : IF path[i] = Slash THEN detour ELSE <<path[i]>>))
Spellings(path) ==
    LET sent == EscapePath(path)
    IN {Spelt(path, detour) : detour \in Detours}
       \cup {HiddenDots(Spelt(path, detour)) : detour \in Detours}
       \cup {S \o <<Percent, 54, 54>> \o From(sent, 3), sent \o <<Question>> \o J}

Sent(path, target) == [meant |-> path, target |-> target]
MCRequests == UNION {{Sent(path, target) : target \in Spellings(path)} :
                        path \in Plain \cup {F \o <<97>>}}
MCDisturbed == {Sent(path, EscapePath(path)) : path \in Plain}
=============================================================================
