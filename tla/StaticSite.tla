----------------------------- MODULE StaticSite -----------------------------
(***************************************************************************)
(* A request for a file, through all the parts that touch its path:        *)
(* parseURI decodes and normalises the target, HTTPServer.Service finds    *)
(* the mount and takes its directory off the path, and FileHandler walks   *)
(* what is left, on a file system that may change meanwhile.               *)
(***************************************************************************)
EXTENDS RequestURI, FileHandler

Table == INSTANCE MountTable

CONSTANTS
    Handled,    \* the directory FileHandler is mounted on
    Others,     \* directories other servlets may be mounted on
    Requests,   \* [meant |-> a normal path, target |-> how it is sent]
    Disturbed   \* bound: the requests during which the file system changes

ASSUME MountsAssumption == {Handled} \cup Others \subseteq Seq(Nat)

\* A target means the place that its path names, the escapes in it taken once.
ASSUME RequestsAssumption ==
    \A sent \in Requests :
        /\ sent.target \in Seq(0..255) /\ Absolute(sent.target)
        /\ sent.meant = Meaning(Unescape(PathOf(sent.target))) /\ sent.meant # Abnormal

VARIABLES
    request,
    mounts,     \* the directories of the mount table
    phase       \* "asked", "handled" by FileHandler, "elsewhere"
site == <<request, mounts, phase>>

SInit ==
    /\ Init
    /\ request \in Requests /\ phase = "asked"
    /\ \E others \in SUBSET Others : mounts = {Handled} \cup others

\* Service: the longest mount; script_name and path_info are split there.
Route ==
    /\ phase = "asked"
    /\ LET uri == ParseURI(request.target, <<>>)
       IN IF uri.ok /\ Table!ScanFinds(mounts, uri.path, Handled)
          THEN /\ phase' = "handled"
               /\ path_info' = Table!PathInfo(uri.path, Handled)
               /\ segments' = Dummied(path_info')
               /\ truths' = {Resolved(fs, path_info')}
          ELSE phase' = "elsewhere" /\ UNCHANGED <<path_info, segments, truths>>
    /\ UNCHANGED <<fs, filename, script, stage, index, answer, changes, request, mounts>>

SNext == \/ Route
         \/ /\ phase = "handled"
            /\ Resolve \/ (request \in Disturbed /\ mounts = {Handled} /\ Disturb)
            /\ UNCHANGED site
SSpec == SInit /\ [][SNext]_<<vars, site>>

-----------------------------------------------------------------------------
IsUnder(path, dir) == path = dir \/ IsPrefix(Append(dir, Slash), path)
MeantForHandler ==
    /\ IsUnder(request.meant, Handled)
    /\ \A dir \in mounts :
          Len(dir) > Len(Handled) => ~IsUnder(request.meant, dir)
InfoMeant == From(request.meant, Len(Handled) + 1)
PlaceMeant == ExpandPath(Root \o InfoMeant)

(***************************************************************************)
(* A request reaches the handler iff its path, however it is spelt and     *)
(* whatever its names hold, lies under the handler's mount and under no    *)
(* longer one; and if the file system keeps still, a request for the path  *)
(* of a file is served that file, unless a name on the way, the root's     *)
(* among them, is not to be disclosed.                                     *)
(***************************************************************************)
FileArrives ==
    /\ phase # "asked" => (phase = "handled" <=> MeantForHandler)
    /\ phase = "handled" => path_info = InfoMeant
    /\ /\ Done /\ changes = Untouched /\ Kind(fs, PlaceMeant) = "file"
       /\ InfoMeant # <<>> => Last(InfoMeant) # Slash
       => answer = IF \/ Concealed(BaseName(Root))
                      \/ \E name \in Range(ScanSegments(InfoMeant)) : Concealed(Tail(name))
                   THEN NotFound
                   ELSE Answer("file", PlaceMeant, InfoMeant, <<>>)
=============================================================================
