------------------------------ MODULE Routing -------------------------------
(***************************************************************************)
(* What the mount table promises a request: it is answered, in one step,   *)
(* by the servlet on the longest mount that its path lies under, with the  *)
(* path split there into script_name and path_info.  No scan, no sorting   *)
(* and no second lookup: HTTPServer is shown to implement this.            *)
(***************************************************************************)
EXTENDS MountTable

CONSTANTS
    Workers,   \* the host's worker threads
    Names,     \* servlets that can be mounted
    MountDirs, \* normalised mount directories
    Paths      \* request paths

VARIABLES
    table,   \* mount directory -> servlet
    call     \* worker -> the request it is routing

IdleCall == [stage |-> "idle", path |-> <<>>, route |-> NoRoute]

\* A path lies under a mount when it is the mount, or goes on below it.
Under(path, dir) == path = dir \/ IsPrefix(Append(dir, Slash), path)
Over(dirs, path) == {dir \in dirs : Under(path, dir)}

Longest(dirs, path) ==
    CHOOSE k \in Over(dirs, path) : \A j \in Over(dirs, path) : Len(j) <= Len(k)

Route(t, path) ==
    IF Over(DOMAIN t, path) = {} THEN NoRoute
    ELSE LET key == Longest(DOMAIN t, path) IN RouteTo(t[key], path, key)

Tables == UNION {[keys -> Names] : keys \in SUBSET MountDirs}

RInit == table \in Tables /\ call = [w \in Workers |-> IdleCall]

Change ==
    /\ \E dir \in MountDirs :
          \/ \E n \in Names : table' = Mounted(table, dir, n)
          \/ table' = Unmounted(table, dir)
    /\ UNCHANGED call

Ask(w) ==
    /\ call[w].stage = "idle"
    /\ \E path \in Paths :
          call' = [call EXCEPT ![w] =
                      [stage |-> "asked", path |-> path, route |-> NoRoute]]
    /\ UNCHANGED table

Answer(w) ==
    /\ call[w].stage = "asked"
    /\ call' = [call EXCEPT ![w] =
                   [stage |-> "answered", path |-> call[w].path,
                    route |-> Route(table, call[w].path)]]
    /\ UNCHANGED table

Finish(w) ==
    /\ call[w].stage = "answered"
    /\ call' = [call EXCEPT ![w] = IdleCall]
    /\ UNCHANGED table

RNext == Change \/ \E w \in Workers : Ask(w) \/ Answer(w) \/ Finish(w)

RSpec == RInit /\ [][RNext]_<<table, call>>
=============================================================================
