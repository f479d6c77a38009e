----------------------------- MODULE HTTPStatus -----------------------------
(***************************************************************************)
(* The status table of httpstatus.go and the *Status values the library    *)
(* "raises".  A *Status is represented by its Code; a nil pointer and the  *)
(* hand-made EOF status (Code 0) get values of their own.  The reason      *)
(* phrase is a function of the code, so it is left out.                    *)
(***************************************************************************)
EXTENDS Integers

StatusCodes ==
    (100..101) \cup (200..207) \cup (300..305) \cup {307} \cup (400..417)
        \cup (422..424) \cup {426, 428, 429, 431, 451}
        \cup (500..505) \cup {507, 511}

IsInfo(code) == code \in 100..199
IsError(code) == code \in 400..599

Nil == -1       \* a nil *Status
EOFStatus == 0  \* &Status{Code: 0, ReasonPhrase: "EOF"}

\* NewStatus(code, msg): nil for a code that is not in the table.
NewStatus(code) == IF code \in StatusCodes THEN code ELSE Nil

\* The statuses after which a message has no body, whatever its headers say
\* (the first case of setupHeader's switch).
BodylessStatus(code) == code \in {204, 304} \/ IsInfo(code)
=============================================================================
