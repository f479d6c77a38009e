----------------------------- MODULE HTTPServer -----------------------------
(***************************************************************************)
(* HTTPServer.Service on the host's worker threads, while the host mounts  *)
(* and unmounts servlets and registers handlers (httpserver.go,            *)
(* httpservlet.go).  The mount table is a plain Go map without a lock:     *)
(*   - a search is two accesses, Scan's walk over the keys and Get;        *)
(*   - a key added or removed while Scan walks the map may or may not be   *)
(*     seen by the walk;                                                   *)
(*   - a write that meets a walk or a read may also be caught by the Go    *)
(*     runtime, which kills the process.                                   *)
(* Serialised says whether the host keeps table writes and searches apart; *)
(* the library leaves threads to the host and asks it for nothing.         *)
(***************************************************************************)
EXTENDS MountTable, Servlets

CONSTANTS
    Workers,    \* the host's worker threads
    Names,      \* the servlets, by name
    Procs,      \* those made by NewProcServlet, the rest by NewAbstractServlet
    Handled,    \* methods the host passes to Handle
    Dirs,       \* what the host passes to Mount and Unmount
    Requests,   \* requests: method, asterisk (UnparsedURI = "*"), path
    Serialised, \* the host keeps table writes and searches apart
    MaxWrites   \* bound: table writes in a run

ASSUME DirsAssumption == Dirs \subseteq Seq(Nat)
ASSUME RequestsAssumption ==
    Requests \subseteq [method : Methods, asterisk : BOOLEAN, path : Seq(Nat)]
ASSUME HostAssumption == Serialised \in BOOLEAN /\ MaxWrites \in Nat
ASSUME NamesAssumption == "none" \notin Names /\ Procs \subseteq Names
ASSUME HandledAssumption == Handled \subseteq Methods

VARIABLES
    table,     \* MountTable.tab: mount directory -> servlet name
    servlets,  \* servlet name -> the servlet
    writing,   \* the table write in progress
    writes,    \* table writes begun
    alive,     \* FALSE once the Go runtime has thrown
    pc,        \* worker -> "idle", "walking", "found", "answered"
    req,       \* worker -> the request in hand
    script,    \* worker -> the mount Scan returned
    touched,   \* worker -> what changed at which mount since it began
    answer     \* worker -> how Service ended

hostVars == <<table, servlets, writing, writes, alive>>
workVars == <<pc, req, script, touched, answer>>
vars == <<hostVars, workVars>>

MountDirs == {NormalizeMount(dir) : dir \in Dirs}
Paths == {r.path : r \in Requests}
Tables == UNION {[keys -> Names] : keys \in SUBSET MountDirs}

NoWrite == [op |-> "none", dir |-> <<>>, servlet |-> "none"]
NoRequest == [method |-> "GET", asterisk |-> FALSE, path |-> <<>>]
\* An answer the server gives by itself: no servlet is involved.
Unrouted(status, allow) ==
    [status |-> status, handler |-> "none", allow |-> allow, route |-> NoRoute]
NoAnswer == Unrouted(0, {})
NotFound == Unrouted(404, {})

\* The host has mounted some servlets before it starts to serve.
Init ==
    /\ table \in Tables
    /\ servlets = [n \in Names |-> IF n \in Procs THEN Proc ELSE NewAbstractServlet]
    /\ writing = NoWrite
    /\ writes = 0
    /\ alive = TRUE
    /\ pc = [w \in Workers |-> "idle"]
    /\ req = [w \in Workers |-> NoRequest]
    /\ script = [w \in Workers |-> <<>>]
    /\ touched = [w \in Workers |-> {}]
    /\ answer = [w \in Workers |-> NoAnswer]

Searching(w) == pc[w] \in {"walking", "found"}

-----------------------------------------------------------------------------
(* The host's other threads, or a servlet's own handler: Mount, MountProc, *)
(* Unmount and Handle.                                                     *)

BeginWrite(op, dir, name) ==
    /\ alive
    /\ writing = NoWrite /\ writes < MaxWrites
    /\ Serialised => \A w \in Workers : ~Searching(w)
    /\ writing' = [op |-> op, dir |-> dir, servlet |-> name]
    /\ writes' = writes + 1
    /\ UNCHANGED <<table, servlets, alive, workVars>>

\* Mutant of Mount: the directory is stored as it was given.
Mount_Raw(dir, name) == BeginWrite("mount", dir, name)

Mount(dir, name) == BeginWrite("mount", NormalizeMount(dir), name)
Unmount(dir) == BeginWrite("unmount", NormalizeMount(dir), "none")

\* What a finished write changes: a set, empty when the key was not there.
Effect ==
    LET dir == writing.dir
    IN  IF writing.op = "mount"
        THEN {<<IF dir \in DOMAIN table THEN "replace" ELSE "add", dir>>}
        ELSE {<<"remove", dir>> : d \in DOMAIN table \cap {dir}}

EndWrite ==
    /\ alive
    /\ writing # NoWrite
    /\ table' = IF writing.op = "mount"
                THEN Mounted(table, writing.dir, writing.servlet)
                ELSE Unmounted(table, writing.dir)
    /\ touched' = [w \in Workers |->
                      IF pc[w] = "idle" THEN {} ELSE touched[w] \cup Effect]
    /\ writing' = NoWrite
    /\ UNCHANGED <<servlets, writes, alive, pc, req, script, answer>>

Register(name, method) ==
    /\ alive
    /\ servlets[name].kind = "abstract"
    /\ servlets' = [servlets EXCEPT ![name] = Handle(@, method)]
    /\ UNCHANGED <<table, writing, writes, alive, workVars>>

\* "fatal error: concurrent map iteration (read) and map write".
Throw ==
    /\ alive
    /\ writing # NoWrite /\ \E w \in Workers : Searching(w)
    /\ alive' = FALSE
    /\ UNCHANGED <<table, servlets, writing, writes, workVars>>

-----------------------------------------------------------------------------
(* A worker in Service.                                                    *)

Reply(w, ans) ==
    /\ pc' = [pc EXCEPT ![w] = "answered"]
    /\ answer' = [answer EXCEPT ![w] = ans]

\* UnparsedURI = "*": the server answers by itself.
ServeAsterisk(w, r) ==
    /\ alive /\ pc[w] = "idle" /\ r.asterisk
    /\ req' = [req EXCEPT ![w] = r]
    /\ Reply(w, IF r.method = "OPTIONS"
                THEN Unrouted(200, ServerAllowList)
                ELSE NotFound)
    /\ UNCHANGED <<hostVars, script, touched>>

BeginSearch(w, r) ==
    /\ alive /\ pc[w] = "idle" /\ ~r.asterisk
    /\ Serialised => writing = NoWrite
    /\ pc' = [pc EXCEPT ![w] = "walking"]
    /\ req' = [req EXCEPT ![w] = r]
    /\ UNCHANGED <<hostVars, script, touched, answer>>

\* The keys whose presence changed under the walk.
Unsteady(w) ==
    {dir \in MountDirs : <<"add", dir>> \in touched[w] \/ <<"remove", dir>> \in touched[w]}

\* The rest of Scan: the walk ends, the sorted keys are tried from the back.
Scan(w) ==
    /\ alive /\ pc[w] = "walking"
    /\ \E seen \in SUBSET Unsteady(w) :
          LET keys == (DOMAIN table \ Unsteady(w)) \cup seen
              path == req[w].path
          IN  \/ /\ Matching(keys, path) = {}
                 /\ Reply(w, NotFound)
                 /\ UNCHANGED script
              \/ /\ \E key \in keys :
                       /\ ScanFinds(keys, path, key)
                       /\ script' = [script EXCEPT ![w] = key]
                 /\ pc' = [pc EXCEPT ![w] = "found"]
                 /\ UNCHANGED answer
    /\ UNCHANGED <<hostVars, req, touched>>

\* Service past SearchServlet: script_name and path_info are set and the
\* servlet's Service is called.
Served(route, method) ==
    LET servlet == servlets[route.servlet]
        does == Dispatch(servlet, method)
    IN  [status |-> IF does = NotAllowed THEN 405 ELSE 0,
         handler |-> does.handler,
         allow |-> IF does = Announces THEN AllowList(servlet) ELSE {},
         route |-> route]

Get(w) ==
    /\ alive /\ pc[w] = "found"
    /\ LET dir == NormalizeMount(script[w])
           path == req[w].path
       IN  Reply(w, IF dir \in DOMAIN table
                    THEN Served(RouteTo(table[dir], path, script[w]), req[w].method)
                    ELSE NotFound)
    /\ UNCHANGED <<hostVars, req, script, touched>>

\* The host is done with the answer (and the handler, if one ran, with the
\* request).
Finish(w) ==
    /\ alive /\ pc[w] = "answered"
    /\ pc' = [pc EXCEPT ![w] = "idle"]
    /\ req' = [req EXCEPT ![w] = NoRequest]
    /\ script' = [script EXCEPT ![w] = <<>>]
    /\ touched' = [touched EXCEPT ![w] = {}]
    /\ answer' = [answer EXCEPT ![w] = NoAnswer]
    /\ UNCHANGED hostVars

Next ==
    \/ \E dir \in Dirs, name \in Names : Mount(dir, name)
    \/ \E dir \in Dirs : Unmount(dir)
    \/ EndWrite
    \/ \E name \in Names, method \in Handled : Register(name, method)
    \/ Throw
    \/ \E w \in Workers, r \in Requests : ServeAsterisk(w, r)
    \/ \E w \in Workers, r \in Requests : BeginSearch(w, r)
    \/ \E w \in Workers : Scan(w)
    \/ \E w \in Workers : Get(w)
    \/ \E w \in Workers : Finish(w)

Spec == Init /\ [][Next]_vars

-----------------------------------------------------------------------------
\* What a worker is doing, seen as the promise of the mount table: an asterisk
\* request is not routed.
RoutedCall(w) ==
    IF pc[w] = "idle" \/ req[w].asterisk
    THEN [stage |-> "idle", path |-> <<>>, route |-> NoRoute]
    ELSE [stage |-> IF pc[w] = "answered" THEN "answered" ELSE "asked",
          path |-> req[w].path, route |-> answer[w].route]

Promise == INSTANCE Routing WITH call <- [w \in Workers |-> RoutedCall(w)]

\* Under a host that keeps writes and searches apart, Scan over sorted keys and
\* the second lookup amount to one step that takes the longest mount.
ImplementsRouting == Promise!RSpec

\* The type invariant: every variable keeps its shape.
AnswerType ==
    [status : {0, 200, 404, 405}, handler : Methods \cup {"none", "proc"},
     allow : SUBSET Methods,
     route : [servlet : Names \cup {"none"}, script : Seq(Nat), info : Seq(Nat)]]

TypeOK ==
    /\ table \in Tables
    /\ servlets \in [Names -> ServletType]
    /\ writing \in {NoWrite}
            \cup [op : {"mount"}, dir : MountDirs, servlet : Names]
            \cup [op : {"unmount"}, dir : MountDirs, servlet : {"none"}]
    /\ writes \in 0..MaxWrites
    /\ alive \in BOOLEAN
    /\ pc \in [Workers -> {"idle", "walking", "found", "answered"}]
    /\ req \in [Workers -> Requests \cup {NoRequest}]
    /\ script \in [Workers -> MountDirs \cup {<<>>}]
    /\ touched \in [Workers -> SUBSET ({"add", "remove", "replace"} \X MountDirs)]
    /\ answer \in [Workers -> AnswerType]

Routed(w) == pc[w] = "answered" /\ ~req[w].asterisk

\* SearchServlet's comment: "Scan only returns a prefix that is a live key, so
\* Get always succeeds".  The servlet a search has found is still mounted when
\* it comes to fetch it: true of a host that serialises, and of no other.
GetSucceeds ==
    \A w \in Workers :
        alive /\ pc[w] = "found" => NormalizeMount(script[w]) \in DOMAIN table

Exact(w) ==
    Routed(w) /\ touched[w] = {} =>
        answer[w].route = Promise!Route(table, req[w].path)

\* A search no write has touched is answered by the servlet on the longest
\* mount the path lies under, and by NotFound only when there is none: the
\* order of the sorted keys and the boundary check give the longest prefix.
UntouchedSearchIsExact == \A w \in Workers : Exact(w)

Unhidden(w) ==
    Routed(w) =>
        \A dir \in Promise!Over(DOMAIN table, req[w].path) :
            \/ <<"add", dir>> \in touched[w]
            \/ /\ answer[w].route # NoRoute
               /\ Len(dir) <= Len(answer[w].route.script)
            \/ \E gone \in Promise!Over(MountDirs, req[w].path) :
                  <<"remove", gone>> \in touched[w] /\ Len(dir) < Len(gone)

\* Writes that run into a search hide no servlet but one: for every mount that
\* was there all along, the answer is at least as long a match, unless a longer
\* match was unmounted between Scan and Get (the request is then NotFound, and
\* does not fall back to the shorter mount).
OnlyUnmountHides == \A w \in Workers : Unhidden(w)

\* The methods a servlet announces are those it does not refuse, whatever was
\* registered and whenever: no answer to OPTIONS is ever proved wrong by a
\* MethodNotAllowed later on, and no method is left unannounced.
AllowIsKept ==
    /\ \A n \in Names, m \in Methods :
          m \in AllowList(servlets[n]) <=> Dispatch(servlets[n], m) # NotAllowed
    /\ \A w \in Workers : Routed(w) /\ answer[w].route # NoRoute =>
          \A m \in answer[w].allow :
              Dispatch(servlets[answer[w].route.servlet], m) # NotAllowed

\* The inductive invariant the proofs use: a worker that has found a mount, and
\* no write has touched its search, has found what Scan would find now; and a
\* host that serialises leaves every search untouched.
Steady(w) ==
    /\ pc[w] = "idle" => touched[w] = {}
    /\ pc[w] # "idle" => req[w] \in Requests
    /\ pc[w] # "answered" => answer[w] = NoAnswer
    /\ Searching(w) => ~req[w].asterisk
    /\ Serialised /\ Searching(w) => touched[w] = {} /\ writing = NoWrite
    /\ pc[w] = "found" /\ touched[w] = {} =>
           ScanFinds(DOMAIN table, req[w].path, script[w])

IInv ==
    /\ TypeOK
    /\ \A w \in Workers : Steady(w)
    /\ UntouchedSearchIsExact

\* What the proof of OnlyUnmountHides adds for a search that writes do touch:
\* a mount that came or went is on record until its latest change, and the
\* mount that Scan has returned is mounted or on record as gone, and hides no
\* longer one but those that came meanwhile.
Recorded(w) ==
    \A dir \in MountDirs :
        /\ <<"add", dir>> \in touched[w] =>
               dir \in DOMAIN table \/ <<"remove", dir>> \in touched[w]
        /\ <<"remove", dir>> \in touched[w] =>
               dir \notin DOMAIN table \/ <<"add", dir>> \in touched[w]

Chosen(w) ==
    pc[w] = "found" =>
        /\ script[w] \in Promise!Over(MountDirs, req[w].path)
        /\ script[w] \in DOMAIN table \/ <<"remove", script[w]>> \in touched[w]
        /\ \A dir \in Promise!Over(DOMAIN table, req[w].path) :
              <<"add", dir>> \in touched[w] \/ Len(dir) <= Len(script[w])

RaceInv == \A w \in Workers : Recorded(w) /\ Chosen(w) /\ Unhidden(w)

\* What the proof of AllowIsKept adds: a route leads to a servlet.
AllowInv ==
    /\ AllowIsKept
    /\ \A w \in Workers :
          Routed(w) /\ answer[w].route # NoRoute => answer[w].route.servlet \in Names
=============================================================================
