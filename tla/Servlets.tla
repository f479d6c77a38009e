------------------------------ MODULE Servlets ------------------------------
(***************************************************************************)
(* The servlets of httpservlet.go: which handler a method reaches, and the *)
(* Allow list they announce.  An AbstractServlet is its handler table (the *)
(* set of methods registered), a ProcServlet wraps one proc.               *)
(***************************************************************************)
CONSTANTS
    Methods,   \* request methods in use
    Upper      \* strings.ToUpper on them, a function

ASSUME DefaultMethods == {"GET", "HEAD", "POST", "PUT", "OPTIONS"} \subseteq Methods
ASSUME UpperAssumption == Upper \in [Methods -> Methods]

Proc == [kind |-> "proc", handlers |-> {}]
Abstract(handlers) == [kind |-> "abstract", handlers |-> handlers]
ServletType == {Proc} \cup {Abstract(h) : h \in SUBSET Methods}

\* The default do_GET; the other defaults are cases of Dispatch.
NewAbstractServlet == Abstract({"GET"})

Handle(servlet, method) == Abstract(servlet.handlers \cup {Upper[method]})

ProcMethods == {"GET", "POST", "PUT", "HEAD"}

\* Mutant of AllowList: HEAD is announced only when it has a handler of its own.
AllowList_NoHead(servlet) ==
    IF servlet.kind = "proc" THEN {"GET", "HEAD", "OPTIONS", "POST", "PUT"}
    ELSE servlet.handlers \cup {"OPTIONS"}

\* allowList, and the constant list of ProcServlet.
AllowList(servlet) ==
    IF servlet.kind = "proc" THEN {"GET", "HEAD", "OPTIONS", "POST", "PUT"}
    ELSE servlet.handlers \cup {"OPTIONS"}
            \cup (IF "GET" \in servlet.handlers THEN {"HEAD"} ELSE {})

\* The answer to OPTIONS * is the server's, not a servlet's.
ServerAllowList == {"GET", "HEAD", "POST", "OPTIONS"}

\* What Service does with a method: run a handler (and which), announce the
\* Allow list, or raise MethodNotAllowed.
Runs(handler) == [does |-> "run", handler |-> handler]
Announces == [does |-> "announce", handler |-> "none"]
NotAllowed == [does |-> "not_allowed", handler |-> "none"]

Dispatch(servlet, method) ==
    CASE servlet.kind = "proc" /\ method \in ProcMethods -> Runs("proc")
      [] servlet.kind = "abstract" /\ method \in servlet.handlers -> Runs(method)
      [] servlet.kind = "abstract" /\ method = "HEAD"
            /\ {"HEAD", "GET"} \cap servlet.handlers = {"GET"} -> Runs("GET")
      [] method = "OPTIONS" /\ method \notin servlet.handlers -> Announces
      [] OTHER -> NotAllowed
=============================================================================
