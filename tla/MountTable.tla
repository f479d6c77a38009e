----------------------------- MODULE MountTable -----------------------------
(***************************************************************************)
(* The mount registry of httpserver.go as operators: a table is a function *)
(* from mount directories to servlets, and directories and paths are       *)
(* sequences of character codes (sorting them is part of the algorithm).   *)
(***************************************************************************)
EXTENDS Integers, SequencesExt

Slash == 47

\* normalizeMount: a trailing run of slashes goes.
NormalizeMount(dir) ==
    SubSeq(dir, 1, Min({n \in 0..Len(dir) :
                            \A i \in (n + 1)..Len(dir) : dir[i] = Slash}))

\* Mutant of MatchMountPrefix: any prefix will do.
MatchMountPrefix_AnyPrefix(path, key) == IsPrefix(key, path)

\* Mutant of MatchMountPrefix: the mount's own path is not under it.
MatchMountPrefix_NeedsSlash(path, key) ==
    IsPrefix(key, path) /\ Len(key) < Len(path) /\ path[Len(key) + 1] = Slash

\* matchMountPrefix: key is a prefix of path that ends at a path boundary.
MatchMountPrefix(path, key) ==
    /\ IsPrefix(key, path)
    /\ Len(key) < Len(path) => path[Len(key) + 1] = Slash

\* The order of sort.Strings.
SortsBefore(s, t) ==
    \E n \in 1..Len(t) :
        /\ n <= Len(s) + 1
        /\ \A i \in 1..(n - 1) : s[i] = t[i]
        /\ n <= Len(s) => s[n] < t[n]

Matching(keys, path) == {k \in keys : MatchMountPrefix(path, k)}

\* Mutant of ScanFinds: the sorted keys are walked from the front.
ScanFinds_Forwards(keys, path, key) ==
    /\ key \in Matching(keys, path)
    /\ \A k \in Matching(keys, path) : k = key \/ SortsBefore(key, k)

\* Scan over the collected keys: sorted, walked from the back, the first match.
ScanFinds(keys, path, key) ==
    /\ key \in Matching(keys, path)
    /\ \A k \in Matching(keys, path) : k = key \/ SortsBefore(k, key)

\* path[len(k):]
PathInfo(path, key) == SubSeq(path, Len(key) + 1, Len(path))

\* What SearchServlet hands to Service: the servlet, script_name, path_info.
NoRoute == [servlet |-> "none", script |-> <<>>, info |-> <<>>]
RouteTo(servlet, path, key) ==
    [servlet |-> servlet, script |-> key, info |-> PathInfo(path, key)]

Mounted(table, dir, servlet) ==
    [k \in DOMAIN table \cup {dir} |-> IF k = dir THEN servlet ELSE table[k]]
Unmounted(table, dir) == [k \in DOMAIN table \ {dir} |-> table[k]]
=============================================================================
