---------------------------- MODULE FileHandler -----------------------------
(***************************************************************************)
(* FileHandler.ResolveFile (filehandler.go) on a file system that other    *)
(* programs change while the handler asks about it: the code asks IsDir    *)
(* and IsFile one path at a time and keeps nothing but the path walked.    *)
(* Names, paths and path_info are texts; a path is normalised before it    *)
(* gets here.                                                              *)
(***************************************************************************)
EXTENDS Glob

CONSTANTS
    Root,              \* the expanded root
    DirectoryIndex,    \* index names in their order
    NondisclosureName, \* patterns of names never served
    Entries,           \* paths from the root on at which something may exist
    PathInfos,         \* path_info of the request
    MaxChanges         \* bound on what happens to the file system meanwhile

-----------------------------------------------------------------------------
(* Paths and names. *)

\* expandPath (path.Clean) on absolute paths without "..".
Cleaned(path) ==
    LET segs == ScanSegments(path)
    IN FlattenSeq([k \in DOMAIN segs |->
                      IF segs[k] \in {<<Slash>>, <<Slash, Dot>>} THEN <<>> ELSE segs[k]])
ExpandPath(path) == IF Cleaned(path) = <<>> THEN <<Slash>> ELSE Cleaned(path)

\* path.Base of an expanded path.
BaseName(path) ==
    IF path = <<Slash>> THEN path ELSE Tail(Last(ScanSegments(path)))

Data == <<58, 58, 36, 68, 65, 84, 65>>    \* ::$DATA
WindowsAmbiguousName(name) ==
    name # <<>> /\ (Last(name) \in {Dot, Space} \/ IsSuffix(Data, name))

\* checkFilename: the names that are answered as if they were not there.
Concealed(name) ==
    \/ \E i \in DOMAIN NondisclosureName : FnmatchCasefold(NondisclosureName[i], name)
    \/ WindowsAmbiguousName(name)

-----------------------------------------------------------------------------
(* The file system, and the answer it calls for when it keeps still. *)

Kinds == {"none", "dir", "file"}
Kind(tree, path) == IF path \in DOMAIN tree THEN tree[path] ELSE "none"
Parent(path) == ExpandPath(FlattenSeq(Front(ScanSegments(path))))
Below(path) == {e \in Entries \ {path} : path = <<Slash>> \/ IsPrefix(Append(path, Slash), e)}
Based(tree, path) == path = Root \/ Kind(tree, Parent(path)) = "dir"
Trees == {tree \in [Entries -> Kinds] :
             \A e \in Entries : tree[e] # "none" => Based(tree, e)}

Without(tree, gone) ==
    [e \in DOMAIN tree |-> IF \E g \in gone : e = g \/ e \in Below(g)
                           THEN "none" ELSE tree[e]]

Answer(kind, filename, script, info) ==
    [kind |-> kind, filename |-> filename, script |-> script, info |-> info]
NotFound == Answer("missing", <<>>, <<>>, <<>>)

Indexed(i) == <<Slash>> \o DirectoryIndex[i]
IndexAt(place, i) == ExpandPath(place \o Indexed(i))
Dummied(path_info) == <<<<>>>> \o ScanSegments(path_info)

\* The place n segments below the root, and how many of them are directories.
Walked(segs, n) == FlattenSeq(SubSeq(segs, 1, n))
Place(segs, n) == ExpandPath(Root \o Walked(segs, n))
Depth(tree, segs) ==
    Max({0} \cup {n \in DOMAIN segs :
                     \A k \in 1..n : /\ segs[k] # <<Slash>>
                                     /\ Kind(tree, Place(segs, k)) = "dir"})

Served(script, info) ==
    LET filename == ExpandPath(Root \o script)
    IN IF Concealed(BaseName(filename)) THEN NotFound
       ELSE Answer("file", filename, script, info)

\* What set_filename is meant to find: the deepest directory on the way, then
\* the file in it that the next segment or the directory index names.
Resolved(tree, path_info) ==
    LET segs == Dummied(path_info)
        n == Depth(tree, segs)
        rest == SubSeq(segs, n + 1, Len(segs))
        info == FlattenSeq(Tail(rest))
        indices == {i \in DOMAIN DirectoryIndex :
                       Kind(tree, IndexAt(Place(segs, n), i)) = "file"}
    IN IF \E k \in 1..n : Concealed(BaseName(Place(segs, k))) THEN NotFound
       ELSE IF rest = <<>> THEN Answer("listing", Place(segs, n), Walked(segs, n), <<>>)
       ELSE CASE rest[1] = <<Slash>> /\ indices # {} ->
                     Served(Walked(segs, n) \o Indexed(Min(indices)), info)
              [] rest[1] = <<Slash>> /\ indices = {} ->
                     Answer("listing", Place(segs, n), Walked(segs, n + 1), info)
              [] rest[1] # <<Slash>> /\ Kind(tree, Place(segs, n + 1)) = "file" ->
                     Served(Walked(segs, n + 1), info)
              [] OTHER -> NotFound

-----------------------------------------------------------------------------
(* What the configuration and the callers of ResolveFile provide. *)

\* An expanded path: the host has cleaned it of ".." too.
Expanded(path) ==
    /\ path \in Seq(Nat) /\ path # <<>> /\ path[1] = Slash
    /\ ExpandPath(path) = path
    /\ <<Slash, Dot, Dot>> \notin Range(ScanSegments(path))

\* A normalised path_info: names, and at most one slash at its end.
Normal(info) ==
    /\ info \in Seq(Nat) /\ (info # <<>> => info[1] = Slash)
    /\ LET segs == ScanSegments(info)
       IN \A k \in DOMAIN segs :
             /\ segs[k] \notin {<<Slash, Dot>>, <<Slash, Dot, Dot>>}
             /\ segs[k] = <<Slash>> => k = Len(segs)

ASSUME RootAssumption == Expanded(Root)
ASSUME EntriesAssumption ==
    \A e \in Entries : Expanded(e) /\ (e = Root \/ e \in Below(Root))
ASSUME DirectoryIndexAssumption ==
    /\ DirectoryIndex \in Seq(Seq(Nat))
    /\ \A i \in DOMAIN DirectoryIndex :
          /\ DirectoryIndex[i] \notin {<<>>, <<Dot>>, <<Dot, Dot>>}
          /\ Slash \notin Range(DirectoryIndex[i])
ASSUME PathInfosAssumption == \A info \in PathInfos : Normal(info)

-----------------------------------------------------------------------------
VARIABLES
    fs,         \* what exists
    path_info,  \* of the call
    segments,   \* those not yet consumed
    filename,   \* the directory reached
    script,     \* script_name so far
    stage,      \* "walk", "index", "search", "done"
    index,      \* the next of DirectoryIndex
    answer,     \* FileResolution or the NotFound status
    truths,     \* the answers that were right at some moment of the call
    changes     \* what has happened to the file system since the call began

call == <<path_info, segments, filename, script, stage, index, answer>>
vars == <<fs, call, truths, changes>>

Untouched == [created |-> {}, removed |-> {}, moved |-> {}]

Init ==
    /\ fs \in Trees
    /\ path_info \in PathInfos
    /\ segments = Dummied(path_info)
    /\ filename = Root /\ script = <<>>
    /\ stage = "walk" /\ index = 1 /\ answer = NotFound
    /\ truths = {Resolved(fs, path_info)}
    /\ changes = Untouched

Still == UNCHANGED <<fs, truths, changes>>
IsDir(path) == Kind(fs, path) = "dir"
IsFile(path) == Kind(fs, ExpandPath(path)) = "file"

\* The path the next question is about.
Asked ==
    CASE stage = "walk" -> ExpandPath(filename \o Head(segments))
      [] stage = "index" -> filename \o Indexed(index)
      [] stage = "search" -> filename \o Head(segments)

\* Mutant of Shift: script_name is set instead of accumulated.
Shift_Overwrites(text) ==
    /\ segments' = Tail(segments)
    /\ script' = text
    /\ filename' = ExpandPath(filename \o text)

\* shift_path_info: text is consumed in place of the first segment.
Shift(text) ==
    /\ segments' = Tail(segments)
    /\ script' = script \o text
    /\ filename' = ExpandPath(filename \o text)

Return(result) ==
    /\ stage' = "done" /\ answer' = result
    /\ Still /\ UNCHANGED <<path_info, index>>
Asking(next) ==
    /\ stage' = next
    /\ Still /\ UNCHANGED <<path_info, answer>>

Walking == stage = "walk" /\ segments # <<>> /\ Head(segments) # <<Slash>>

\* Mutant of Descend: the directory's name is not looked at.
Descend_Unchecked ==
    /\ Walking /\ IsDir(Asked)
    /\ Shift(Head(segments))
    /\ Asking("walk") /\ UNCHANGED index

Descend ==
    /\ Walking /\ IsDir(Asked)
    /\ Shift(Head(segments))
    /\ IF Concealed(BaseName(filename')) THEN Return(NotFound)
       ELSE Asking("walk") /\ UNCHANGED index

\* Mutant of LeaveWalk: what is not a directory is not there.
LeaveWalk_Missing ==
    /\ Walking /\ ~IsDir(Asked)
    /\ Return(NotFound) /\ UNCHANGED <<segments, script, filename>>

LeaveWalk ==
    /\ Walking /\ ~IsDir(Asked)
    /\ Asking("search") /\ UNCHANGED <<segments, script, filename, index>>

\* Mutant of MeetSlash: the search begins at the second index.
MeetSlash_Second ==
    /\ stage = "walk" /\ segments # <<>> /\ Head(segments) = <<Slash>>
    /\ index' = 2
    /\ Asking("index") /\ UNCHANGED <<segments, script, filename>>

\* The walk meets a bare slash: searchIndexFile, from the first index.
MeetSlash ==
    /\ stage = "walk" /\ segments # <<>> /\ Head(segments) = <<Slash>>
    /\ index' = 1
    /\ Asking("index") /\ UNCHANGED <<segments, script, filename>>

\* Every segment is consumed: the directory is the host's to list.
WalkEnds ==
    /\ stage = "walk" /\ segments = <<>>
    /\ Return(Answer("listing", filename, script, <<>>))
    /\ UNCHANGED <<segments, script, filename>>

Serve(text) ==
    /\ Shift(text)
    /\ Return(IF Concealed(BaseName(filename')) THEN NotFound
              ELSE Answer("file", filename', script', FlattenSeq(segments')))

FindIndex ==
    /\ stage = "index" /\ index <= Len(DirectoryIndex) /\ IsFile(Asked)
    /\ Serve(Indexed(index))

MissIndex ==
    /\ stage = "index" /\ index <= Len(DirectoryIndex) /\ ~IsFile(Asked)
    /\ index' = index + 1
    /\ Asking("index") /\ UNCHANGED <<segments, script, filename>>

\* Mutant of NoIndex: the slash is not consumed.
NoIndex_KeepsSlash ==
    /\ stage = "index" /\ index > Len(DirectoryIndex)
    /\ Return(Answer("listing", filename, script, <<>>))
    /\ UNCHANGED <<segments, script, filename>>

NoIndex ==
    /\ stage = "index" /\ index > Len(DirectoryIndex)
    /\ Shift(<<Slash>>)
    /\ Return(Answer("listing", filename', script', FlattenSeq(segments')))

\* Mutant of SearchFile: what exists is taken for a file.
SearchFile_Exists ==
    /\ stage = "search" /\ Kind(fs, Asked) # "none"
    /\ Serve(Head(segments))

SearchFile ==
    /\ stage = "search" /\ IsFile(Asked)
    /\ Serve(Head(segments))

MissFile ==
    /\ stage = "search" /\ ~IsFile(Asked)
    /\ Return(NotFound) /\ UNCHANGED <<segments, script, filename>>

Resolve == \/ Descend \/ LeaveWalk \/ MeetSlash \/ WalkEnds \/ FindIndex
           \/ MissIndex \/ NoIndex \/ SearchFile \/ MissFile

-----------------------------------------------------------------------------
(* Other programs (the host's file system is external). *)

Spent == Cardinality(changes.created) + Cardinality(changes.removed)
             + Cardinality(changes.moved)
Change(how, path, tree) ==
    /\ stage # "done" /\ Spent < MaxChanges
    /\ path \notin changes[how]
    /\ fs' = tree
    /\ changes' = [changes EXCEPT ![how] = @ \cup {path}]
    /\ truths' = truths \cup {Resolved(tree, path_info)}
    /\ UNCHANGED call

Create(path) ==
    /\ fs[path] = "none" /\ Based(fs, path)
    /\ \E kind \in {"dir", "file"} :
          Change("created", path, [fs EXCEPT ![path] = kind])

\* unlink, or rmdir of an empty directory
Unlink(path) ==
    /\ fs[path] # "none"
    /\ \A e \in Below(path) : fs[e] = "none"
    /\ Change("removed", path, [fs EXCEPT ![path] = "none"])

\* A directory is renamed out of the tree with all there is in it.
MoveAway(path) ==
    /\ \E e \in Below(path) : fs[e] # "none"
    /\ Change("moved", path, Without(fs, {path}))

Disturb == \E path \in Entries : Create(path) \/ Unlink(path) \/ MoveAway(path)

FNext == Resolve \/ Disturb

Spec == Init /\ [][FNext]_vars
-----------------------------------------------------------------------------
(* What a resolution promises. *)

Done == stage = "done"

(***************************************************************************)
(* Each variable has its type; a walk in progress has left its path_info   *)
(* whole: what is consumed and what is left are the path_info.             *)
(***************************************************************************)
TypeOK ==
    /\ fs \in Trees
    /\ stage \in {"walk", "index", "search", "done"}
    /\ index \in 1..(Len(DirectoryIndex) + 1)
    /\ answer.kind \in {"missing", "file", "listing"}
    /\ ~Done => /\ script \o FlattenSeq(segments) = path_info
                /\ filename = ExpandPath(Root \o script)

\* A later index was found, and by now an earlier one is there.
Overtaken ==
    /\ answer.kind # "listing" /\ path_info # <<>> /\ Last(path_info) = Slash
    /\ \E i \in 1..(index - 1) :
          Kind(fs, IndexAt(ExpandPath(Root \o Front(path_info)), i)) = "file"

(***************************************************************************)
(* ResolveFile asks one question after the other.  While other programs    *)
(* only add entries, its answer is still the right one of a single moment  *)
(* of the call, except that an index may be overtaken: a later index was   *)
(* found after an earlier one had been asked for and before it was made.   *)
(***************************************************************************)
GrowingTreeIsRead ==
    Done /\ changes.removed = {} /\ changes.moved = {} => answer \in truths \/ Overtaken

(***************************************************************************)
(* While other programs only unlink, one entry at a time, the answer is    *)
(* the right one of a single moment of the call.  (Not so when they also   *)
(* create, or rename a directory away with what is in it.)                 *)
(***************************************************************************)
ShrinkingTreeIsRead ==
    Done /\ changes.created = {} /\ changes.moved = {} => answer \in truths

\* All a resolution may ask about.
Way ==
    LET places == {Place(Dummied(path_info), n) : n \in DOMAIN Dummied(path_info)}
    IN places \cup {IndexAt(place, i) : place \in places, i \in DOMAIN DirectoryIndex}
Touched == changes.created \cup changes.removed
              \cup UNION {{path} \cup Below(path) : path \in changes.moved}

(***************************************************************************)
(* What happens elsewhere in the tree meanwhile makes no difference.       *)
(***************************************************************************)
OnlyTheWayMatters == Done /\ Touched \cap Way = {} => truths = {answer}

ConcealedEntries ==
    {e \in Entries : e # Root /\ Concealed(BaseName(e))}

(***************************************************************************)
(* checkFilename comes after IsDir and IsFile, but nothing shows of it: a  *)
(* name that is not to be disclosed is answered as if there were nothing,  *)
(* whatever is there and whatever becomes of it during the call - as long  *)
(* as no index name is one of them: the first index found is not passed    *)
(* over for a later one.                                                   *)
(***************************************************************************)
ConcealedIsAbsent ==
    Done /\ Touched \subseteq ConcealedEntries
         /\ (\A i \in DOMAIN DirectoryIndex : ~Concealed(DirectoryIndex[i]))
        => answer = Resolved(Without(fs, ConcealedEntries), path_info)

(***************************************************************************)
(* However the tree changes, script_name and path_info account for the     *)
(* request path, with at most an index name put after its last slash; the  *)
(* file is where script_name says, below the root, and a name not to be    *)
(* disclosed is on no way to it.                                           *)
(***************************************************************************)
AnswerAccountsForPath ==
    Done /\ answer.kind # "missing" =>
        /\ answer.filename = ExpandPath(Root \o answer.script)
        /\ IsPrefix(Root, answer.filename)
        /\ \A name \in Range(ScanSegments(answer.script)) \ {<<Slash>>} :
              ~Concealed(Tail(name))
        /\ \/ answer.script \o answer.info = path_info
           \/ /\ Last(path_info) = Slash /\ answer.info = <<>>
              /\ \E i \in DOMAIN DirectoryIndex :
                    answer.script = Front(path_info) \o Indexed(i)
=============================================================================
