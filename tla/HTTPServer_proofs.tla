-------------------------- MODULE HTTPServer_proofs --------------------------
(***************************************************************************)
(* Theorems about HTTPServer, for all mount directories, paths, servlets,  *)
(* workers and schedules: a search no write touches is answered by the     *)
(* longest mount, and under a host that serialises writes and searches     *)
(* the server implements Routing, where an answer is one step.             *)
(***************************************************************************)
EXTENDS HTTPServer, SequenceTheorems, TLAPS

\* For the least-element principle.
Texts == INSTANCE Characters_proofs

-----------------------------------------------------------------------------
(* The operators of MountTable, for every path and every set of keys: what *)
(* Scan finds is the longest match, though it looks for the last in        *)
(* sorting order; and a normalised directory is a fixed point.             *)

\* The first n characters of a string.
LEMMA Beginning ==
    ASSUME NEW s \in Seq(Nat), NEW n \in 0..Len(s)
    PROVE  /\ SubSeq(s, 1, n) \in Seq(Nat)
           /\ Len(SubSeq(s, 1, n)) = n
           /\ \A i \in 1..n : SubSeq(s, 1, n)[i] = s[i]
<1>1. \A i \in 1..n : s[i] \in Nat
  BY ElementOfSeq
<1>2. 1 \in Int /\ n \in Int
  OBVIOUS
<1>3. /\ SubSeq(s, 1, n) \in Seq(Nat)
      /\ Len(SubSeq(s, 1, n)) = IF 1 <= n THEN n - 1 + 1 ELSE 0
      /\ \A i \in 1..(n - 1 + 1) : SubSeq(s, 1, n)[i] = s[1 + i - 1]
  BY <1>1, <1>2, SubSeqProperties
<1> QED BY <1>3

\* What being a prefix says of the characters.
LEMMA PrefixChars ==
    ASSUME NEW s \in Seq(Nat), NEW t \in Seq(Nat)
    PROVE  IsPrefix(s, t) <=> /\ Len(s) <= Len(t)
                              /\ \A i \in 1..Len(s) : s[i] = t[i]
<1>1. CASE ~(Len(s) <= Len(t))
  BY <1>1 DEF IsPrefix
<1>2. CASE Len(s) <= Len(t)
  <2> DEFINE a == SubSeq(s, 1, Len(s))
             b == SubSeq(t, 1, Len(s))
  <2>1. Len(s) \in 0..Len(s) /\ Len(s) \in 0..Len(t)
    BY <1>2
  <2>2. a \in Seq(Nat) /\ Len(a) = Len(s) /\ \A i \in 1..Len(s) : a[i] = s[i]
    BY <2>1, Beginning
  <2>3. b \in Seq(Nat) /\ Len(b) = Len(s) /\ \A i \in 1..Len(s) : b[i] = t[i]
    BY <2>1, Beginning
  <2>4. IsPrefix(s, t) <=> a = b
    BY <1>2 DEF IsPrefix
  <2> HIDE DEF a, b
  <2>5. a = b <=> \A i \in 1..Len(s) : a[i] = b[i]
    <3>1. ASSUME \A i \in 1..Len(s) : a[i] = b[i] PROVE a = b
      BY <2>2, <2>3, <3>1, SeqEqual
    <3> QED BY <3>1
  <2> QED BY <1>2, <2>2, <2>3, <2>4, <2>5
<1> QED BY <1>1, <1>2

\* Two prefixes of one path sort as their lengths do: this is why the last
\* match in sorting order is the longest one.
LEMMA PrefixesSortByLength ==
    ASSUME NEW path \in Seq(Nat), NEW s \in Seq(Nat), NEW t \in Seq(Nat),
           IsPrefix(s, path), IsPrefix(t, path), SortsBefore(s, t)
    PROVE  Len(s) < Len(t)
<1>1. /\ Len(s) <= Len(path) /\ \A i \in 1..Len(s) : s[i] = path[i]
      /\ Len(t) <= Len(path) /\ \A i \in 1..Len(t) : t[i] = path[i]
  BY PrefixChars
<1>2. PICK n \in 1..Len(t) : n <= Len(s) + 1 /\ (n <= Len(s) => s[n] < t[n])
  BY DEF SortsBefore
<1>3. ~(n <= Len(s))
  <2>1. SUFFICES ASSUME n <= Len(s) PROVE FALSE
    OBVIOUS
  <2>2. n \in 1..Len(s)
    BY <2>1
  <2>3. s[n] = path[n] /\ t[n] = path[n]
    BY <1>1, <2>2
  <2>4. path[n] \in Nat
    BY <1>1, <2>2, SMTT(30)
  <2> QED BY <1>2, <2>1, <2>3, <2>4
<1> QED BY <1>2, <1>3

\* Prefixes of one path that are equally long are the same.
LEMMA PrefixesOfOneLength ==
    ASSUME NEW path \in Seq(Nat), NEW s \in Seq(Nat), NEW t \in Seq(Nat),
           IsPrefix(s, path), IsPrefix(t, path), Len(s) = Len(t)
    PROVE  s = t
<1>1. \A i \in 1..Len(s) : s[i] = t[i]
  BY PrefixChars
<1> QED BY <1>1, SeqEqual

\* What Scan finds is the longest of the matching keys and the only one of its
\* length: walking the sorted keys from the back is a longest-prefix search.
THEOREM ScanFindsLongest ==
    ASSUME NEW keys \in SUBSET Seq(Nat), NEW path \in Seq(Nat), NEW key,
           ScanFinds(keys, path, key)
    PROVE  /\ key \in Matching(keys, path)
           /\ \A k \in Matching(keys, path) :
                 Len(k) <= Len(key) /\ (Len(k) = Len(key) => k = key)
<1>1. key \in Matching(keys, path)
  BY DEF ScanFinds
<1>2. ASSUME NEW k \in Matching(keys, path)
      PROVE  Len(k) <= Len(key) /\ (Len(k) = Len(key) => k = key)
  <2>1. /\ k \in Seq(Nat) /\ IsPrefix(k, path)
        /\ key \in Seq(Nat) /\ IsPrefix(key, path)
    BY <1>1 DEF Matching, MatchMountPrefix
  <2>2. CASE k = key
    BY <2>1, <2>2
  <2>3. CASE SortsBefore(k, key)
    <3>1. Len(k) < Len(key)
      BY <2>1, <2>3, PrefixesSortByLength
    <3> QED BY <2>1, <3>1
  <2> QED BY <2>2, <2>3 DEF ScanFinds
<1> QED BY <1>1, <1>2

\* normalizeMount strips slashes until none is left at the end, so Get's second
\* normalisation of a key Scan returned changes nothing.
THEOREM NormalizedIsFixed ==
    ASSUME NEW dir \in Seq(Nat)
    PROVE  /\ NormalizeMount(dir) \in Seq(Nat)
           /\ NormalizeMount(NormalizeMount(dir)) = NormalizeMount(dir)
<1> DEFINE Ends(d) == {n \in 0..Len(d) : \A i \in (n + 1)..Len(d) : d[i] = Slash}
<1>1. ASSUME NEW d \in Seq(Nat)
      PROVE  /\ Min(Ends(d)) \in Ends(d)
             /\ \A n \in Ends(d) : Min(Ends(d)) <= n
             /\ NormalizeMount(d) = SubSeq(d, 1, Min(Ends(d)))
  <2>1. Ends(d) \subseteq Nat /\ Len(d) \in Ends(d)
    OBVIOUS
  <2>2. \E m \in Ends(d) : \A n \in Ends(d) : m <= n
    <3> HIDE DEF Ends
    <3> QED BY <2>1, Texts!LeastNatural
  <2>3. Min(Ends(d)) = CHOOSE m \in Ends(d) : \A n \in Ends(d) : m <= n
    BY DEF Min
  <2>4. NormalizeMount(d) = SubSeq(d, 1, Min(Ends(d)))
    BY DEF NormalizeMount
  <2> HIDE DEF Ends
  <2> QED BY <2>2, <2>3, <2>4
<1> DEFINE end == Min(Ends(dir))
           norm == NormalizeMount(dir)
           again == Min(Ends(norm))
<1>2. /\ end \in 0..Len(dir)
      /\ norm \in Seq(Nat) /\ Len(norm) = end
      /\ \A i \in 1..end : norm[i] = dir[i]
  <2>1. end \in 0..Len(dir) /\ norm = SubSeq(dir, 1, end)
    BY <1>1
  <2> HIDE DEF end, norm
  <2> QED BY <2>1, Beginning
<1>3. end > 0 => dir[end] # Slash
  <2>1. SUFFICES ASSUME end > 0, dir[end] = Slash PROVE FALSE
    OBVIOUS
  <2>2. end \in Ends(dir) /\ \A n \in Ends(dir) : end <= n
    BY <1>1
  <2> HIDE DEF end
  <2>3. \A i \in (end + 1)..Len(dir) : dir[i] = Slash
    BY <2>2
  <2>4. \A i \in end..Len(dir) : dir[i] = Slash
    BY <1>2, <2>1, <2>3
  <2>5. end - 1 \in Ends(dir)
    BY <1>2, <2>1, <2>4, SMTT(30)
  <2> HIDE DEF Ends
  <2> QED BY <1>2, <2>2, <2>5
<1>4. again = end
  <2>1. again \in Ends(norm)
    BY <1>1, <1>2
  <2> HIDE DEF end, norm, again
  <2>2. again \in 0..end /\ \A i \in (again + 1)..end : norm[i] = Slash
    BY <1>2, <2>1
  <2>3. SUFFICES ASSUME again < end PROVE FALSE
    BY <1>2, <2>2
  <2>4. end \in (again + 1)..end /\ end \in 1..end
    BY <1>2, <2>2, <2>3
  <2>5. norm[end] = Slash /\ norm[end] = dir[end]
    BY <1>2, <2>2, <2>4
  <2> QED BY <1>3, <2>4, <2>5
<1>5. NormalizeMount(norm) = SubSeq(norm, 1, end)
  BY <1>1, <1>2, <1>4
<1>6. SubSeq(norm, 1, end) = norm
  <2> HIDE DEF norm, end
  <2> QED BY <1>2, SubSeqFull
<1> QED BY <1>2, <1>5, <1>6

-----------------------------------------------------------------------------
(* Facts about tables, routes and answers.                                 *)

\* Mount directories are strings, and normalised.
LEMMA MountDirsFixed ==
    \A dir \in MountDirs : dir \in Seq(Nat) /\ NormalizeMount(dir) = dir
BY NormalizedIsFixed, DirsAssumption DEF MountDirs

\* The reference notion of lying under a mount is what matchMountPrefix tests.
LEMMA UnderIsMatch ==
    ASSUME NEW path \in Seq(Nat), NEW dir \in Seq(Nat)
    PROVE  Promise!Under(path, dir) <=> MatchMountPrefix(path, dir)
<1> DEFINE below == Append(dir, Slash)
<1>1. /\ below \in Seq(Nat) /\ Len(below) = Len(dir) + 1
      /\ \A i \in 1..Len(dir) : below[i] = dir[i]
      /\ below[Len(dir) + 1] = Slash
  <2>1. Slash \in Nat
    BY DEF Slash
  <2> QED BY <2>1, AppendProperties
<1> HIDE DEF below
<1>2. IsPrefix(below, path) <=>
        /\ Len(dir) + 1 <= Len(path)
        /\ \A i \in 1..(Len(dir) + 1) : below[i] = path[i]
  BY <1>1, PrefixChars
<1>3. IsPrefix(dir, path) <=>
        /\ Len(dir) <= Len(path)
        /\ \A i \in 1..Len(dir) : dir[i] = path[i]
  BY PrefixChars
<1>4. path = dir <=> IsPrefix(dir, path) /\ Len(dir) = Len(path)
  <2>1. ASSUME IsPrefix(dir, path), Len(dir) = Len(path) PROVE dir = path
    BY <1>3, <2>1, SeqEqual
  <2>2. ASSUME path = dir PROVE IsPrefix(dir, path) /\ Len(dir) = Len(path)
    BY <1>3, <2>2
  <2> QED BY <2>1, <2>2
<1>5. Promise!Under(path, dir) <=> path = dir \/ IsPrefix(below, path)
  BY DEF Promise!Under, below, Promise!IsPrefix, IsPrefix, Promise!Slash, Slash
<1>6. IsPrefix(below, path) <=>
        IsPrefix(dir, path) /\ Len(dir) < Len(path) /\ path[Len(dir) + 1] = Slash
  <2>1. Len(dir) \in Nat /\ Len(path) \in Nat
    OBVIOUS
  <2>2. (\A i \in 1..(Len(dir) + 1) : below[i] = path[i])
          <=> /\ \A i \in 1..Len(dir) : dir[i] = path[i]
              /\ path[Len(dir) + 1] = Slash
    <3>1. \A i : i \in 1..(Len(dir) + 1) <=> i \in 1..Len(dir) \/ i = Len(dir) + 1
      BY <2>1
    <3>2. (\A i \in 1..(Len(dir) + 1) : below[i] = path[i])
            <=> /\ \A i \in 1..Len(dir) : below[i] = path[i]
                /\ below[Len(dir) + 1] = path[Len(dir) + 1]
      BY <3>1, Zenon
    <3>3. (\A i \in 1..Len(dir) : below[i] = path[i])
            <=> \A i \in 1..Len(dir) : dir[i] = path[i]
      BY <1>1
    <3> QED BY <1>1, <3>2, <3>3
  <2> QED BY <1>2, <1>3, <2>1, <2>2
<1> QED BY <1>3, <1>4, <1>5, <1>6 DEF MatchMountPrefix

\* What Scan finds is where Routing sends the request.
LEMMA ScanIsRoute ==
    ASSUME NEW t, DOMAIN t \subseteq MountDirs, NEW path \in Seq(Nat), NEW key,
           ScanFinds(DOMAIN t, path, key)
    PROVE  Promise!Route(t, path) = RouteTo(t[key], path, key)
<1>1. DOMAIN t \in SUBSET Seq(Nat)
  BY MountDirsFixed
<1>2. Promise!Over(DOMAIN t, path) = Matching(DOMAIN t, path)
  BY <1>1, UnderIsMatch DEF Promise!Over, Matching
<1>3. /\ key \in Matching(DOMAIN t, path)
      /\ \A k \in Matching(DOMAIN t, path) :
            Len(k) <= Len(key) /\ (Len(k) = Len(key) => k = key)
  BY <1>1, ScanFindsLongest
<1>4. \A k \in Matching(DOMAIN t, path) : Len(k) \in Nat
  BY <1>1 DEF Matching
<1>5. Promise!Longest(DOMAIN t, path) = key
  <2>1. ASSUME NEW k \in Matching(DOMAIN t, path),
               \A j \in Matching(DOMAIN t, path) : Len(j) <= Len(k)
        PROVE  k = key
    BY <1>3, <1>4, <2>1
  <2> QED BY <1>2, <1>3, <2>1 DEF Promise!Longest
<1>6. Promise!Route(t, path) = Promise!RouteTo(t[key], path, key)
  BY <1>2, <1>3, <1>5 DEF Promise!Route
<1> QED BY <1>6 DEF Promise!RouteTo, RouteTo, Promise!PathInfo, PathInfo

\* When no key matches, Routing has no answer either.
LEMMA NoMatchIsNoRoute ==
    ASSUME NEW t, DOMAIN t \subseteq MountDirs, NEW path \in Seq(Nat),
           Matching(DOMAIN t, path) = {}
    PROVE  Promise!Route(t, path) = NoRoute
<1>1. Promise!Over(DOMAIN t, path) = {}
  BY MountDirsFixed, UnderIsMatch DEF Promise!Over, Matching
<1> QED BY <1>1 DEF Promise!Route, Promise!NoRoute, NoRoute

\* Tables stay tables when a servlet is mounted or unmounted, and unmounting
\* what is not mounted changes nothing.
LEMMA TableFacts ==
    ASSUME NEW t \in Tables, NEW dir \in MountDirs
    PROVE  /\ DOMAIN t \subseteq MountDirs
           /\ \A k \in DOMAIN t : t[k] \in Names
           /\ \A n \in Names : Mounted(t, dir, n) \in Tables
           /\ Unmounted(t, dir) \in Tables
           /\ dir \notin DOMAIN t => Unmounted(t, dir) = t
<1>1. PICK keys \in SUBSET MountDirs : t \in [keys -> Names]
  BY DEF Tables
<1>2. ASSUME NEW n \in Names PROVE Mounted(t, dir, n) \in Tables
  <2>1. Mounted(t, dir, n) \in [keys \cup {dir} -> Names]
    BY <1>1 DEF Mounted
  <2>2. keys \cup {dir} \in SUBSET MountDirs
    OBVIOUS
  <2> QED BY <2>1, <2>2 DEF Tables
<1>3. Unmounted(t, dir) \in Tables
  <2>1. Unmounted(t, dir) \in [keys \ {dir} -> Names]
    BY <1>1 DEF Unmounted
  <2>2. keys \ {dir} \in SUBSET MountDirs
    OBVIOUS
  <2> QED BY <2>1, <2>2 DEF Tables
<1>4. ASSUME dir \notin DOMAIN t PROVE Unmounted(t, dir) = t
  BY <1>1, <1>4 DEF Unmounted
<1> QED BY <1>1, <1>2, <1>3, <1>4

\* path_info is a string.
LEMMA PathInfoType ==
    ASSUME NEW path \in Seq(Nat), NEW key \in Seq(Nat)
    PROVE  PathInfo(path, key) \in Seq(Nat)
<1>1. Len(key) + 1 \in Int /\ Len(path) \in Int
  OBVIOUS
<1>2. \A i \in (Len(key) + 1)..Len(path) : path[i] \in Nat
  <2>1. \A i \in (Len(key) + 1)..Len(path) : i \in 1..Len(path)
    OBVIOUS
  <2> QED BY <2>1, ElementOfSeq
<1> QED BY <1>1, <1>2, SubSeqProperties DEF PathInfo

\* Every answer Service gives is an answer.
LEMMA AnswerTypes ==
    ASSUME NEW ss \in [Names -> ServletType], NEW n \in Names,
           NEW route \in [servlet : Names \cup {"none"}, script : Seq(Nat), info : Seq(Nat)],
           NEW method \in Methods
    PROVE  /\ AllowList(ss[n]) \subseteq Methods
           /\ Dispatch(ss[n], method).handler \in Methods \cup {"none", "proc"}
           /\ NoAnswer \in AnswerType /\ NotFound \in AnswerType
           /\ Unrouted(200, ServerAllowList) \in AnswerType
<1>1. ss[n] \in ServletType
  OBVIOUS
<1>2. ss[n].handlers \subseteq Methods
  BY <1>1 DEF ServletType, Proc, Abstract
<1>3. AllowList(ss[n]) \subseteq Methods
  BY <1>2, DefaultMethods DEF AllowList
<1>4. Dispatch(ss[n], method).handler \in Methods \cup {"none", "proc"}
  BY DefaultMethods DEF Dispatch, Runs, Announces, NotAllowed
<1>5. NoRoute \in [servlet : Names \cup {"none"}, script : Seq(Nat), info : Seq(Nat)]
  BY DEF NoRoute
<1>6. ServerAllowList \in SUBSET Methods
  BY DefaultMethods DEF ServerAllowList
<1>7. ASSUME NEW status \in {0, 200, 404, 405}, NEW allow \in SUBSET Methods
      PROVE  Unrouted(status, allow) \in AnswerType
  BY <1>5 DEF Unrouted, AnswerType
<1>8. {0, 200, 404} \subseteq {0, 200, 404, 405} /\ {} \in SUBSET Methods
  OBVIOUS
<1> QED BY <1>3, <1>4, <1>6, <1>7, <1>8 DEF NoAnswer, NotFound

-----------------------------------------------------------------------------
(* The inductive invariant.                                                *)

\* A host about to serve: no search is on, so every one is steady.
LEMMA InitIInv == Init => IInv
<1> SUFFICES ASSUME Init PROVE IInv
  OBVIOUS
<1>1. TypeOK
  <2>1. servlets \in [Names -> ServletType]
    BY DefaultMethods DEF Init, ServletType, Proc, NewAbstractServlet, Abstract
  <2>2. NoAnswer \in AnswerType
    BY EmptySeq DEF NoAnswer, Unrouted, AnswerType, NoRoute
  <2>3. writes \in 0..MaxWrites
    BY HostAssumption DEF Init
  <2> QED BY <2>1, <2>2, <2>3 DEF Init, TypeOK
<1>2. \A w \in Workers : Steady(w) /\ Exact(w)
  BY DEF Init, Steady, Exact, Routed, Searching
<1> QED BY <1>1, <1>2 DEF IInv, UntouchedSearchIsExact

\* A write begins: nothing a search looks at has changed yet.
LEMMA BeginWriteKeepsIInv ==
    ASSUME IInv, NEW op, NEW dir, NEW name, BeginWrite(op, dir, name),
           \/ op = "mount" /\ dir \in MountDirs /\ name \in Names
           \/ op = "unmount" /\ dir \in MountDirs /\ name = "none"
    PROVE  IInv'
<1>1. TypeOK'
  <2>1. writing' \in {NoWrite}
            \cup [op : {"mount"}, dir : MountDirs, servlet : Names]
            \cup [op : {"unmount"}, dir : MountDirs, servlet : {"none"}]
    BY DEF BeginWrite
  <2>2. writes' \in 0..MaxWrites
    BY HostAssumption DEF BeginWrite, IInv, TypeOK
  <2> QED BY <2>1, <2>2 DEF BeginWrite, IInv, TypeOK, workVars
<1>2. ASSUME NEW w \in Workers PROVE Steady(w)' /\ Exact(w)'
  BY DEF IInv, UntouchedSearchIsExact, BeginWrite, workVars, Steady, Exact, Routed, Searching
<1> QED BY <1>1, <1>2 DEF IInv, UntouchedSearchIsExact

\* A write ends: a search it does not touch sees the table it saw before.
LEMMA EndWriteKeepsIInv ==
    ASSUME IInv, EndWrite
    PROVE  IInv'
<1> DEFINE dir == writing.dir
<1>1. /\ dir \in MountDirs
      /\ writing.op = "mount" => writing.servlet \in Names
  BY DEF IInv, TypeOK, EndWrite
<1>2. /\ table' \in Tables
      /\ Effect = {} => table' = table
  <2>1. table \in Tables
    BY DEF IInv, TypeOK
  <2>2. CASE writing.op = "mount"
    <3>1. Effect # {}
      BY <2>2 DEF Effect
    <3> QED BY <1>1, <2>1, <2>2, <3>1, TableFacts DEF EndWrite
  <2>3. CASE writing.op # "mount"
    <3>1. Effect = {} => dir \notin DOMAIN table
      BY <2>3 DEF Effect
    <3> QED BY <1>1, <2>1, <2>3, <3>1, TableFacts DEF EndWrite
  <2> QED BY <2>2, <2>3
<1>3. Effect \subseteq {"add", "remove", "replace"} \X MountDirs
  BY <1>1 DEF Effect
<1>4. TypeOK'
  <2>1. touched' \in [Workers -> SUBSET ({"add", "remove", "replace"} \X MountDirs)]
    BY <1>3 DEF IInv, TypeOK, EndWrite
  <2> QED BY <1>2, <2>1 DEF IInv, TypeOK, EndWrite
<1>5. ASSUME NEW w \in Workers PROVE Steady(w)' /\ Exact(w)'
  <2>1. Steady(w) /\ Exact(w)
    BY DEF IInv, UntouchedSearchIsExact
  <2>2. touched'[w] = IF pc[w] = "idle" THEN {} ELSE touched[w] \cup Effect
    BY DEF EndWrite
  <2>3. UNCHANGED <<pc, req, script, answer>> /\ writing # NoWrite
    BY DEF EndWrite
  <2>4. Searching(w) => ~Serialised
    BY <2>1, <2>3 DEF Steady
  <2>5. touched'[w] = {} /\ pc[w] # "idle" => touched[w] = {} /\ table' = table
    BY <1>2, <2>2
  <2>6. Steady(w)'
    BY <2>1, <2>2, <2>3, <2>4, <2>5 DEF Steady, Searching
  <2>7. Exact(w)'
    BY <2>1, <2>3, <2>5 DEF Exact, Routed
  <2> QED BY <2>6, <2>7
<1> QED BY <1>4, <1>5 DEF IInv, UntouchedSearchIsExact

\* Registering a handler concerns no search.
LEMMA RegisterKeepsIInv ==
    ASSUME IInv, NEW name \in Names, NEW method \in Handled, Register(name, method)
    PROVE  IInv'
<1>1. Handle(servlets[name], method) \in ServletType
  <2>1. servlets[name] \in ServletType
    BY DEF IInv, TypeOK
  <2>2. servlets[name].handlers \subseteq Methods
    BY <2>1 DEF ServletType, Proc, Abstract
  <2>3. Upper[method] \in Methods
    BY UpperAssumption, HandledAssumption
  <2> QED BY <2>2, <2>3 DEF Handle, ServletType
<1>2. TypeOK'
  BY <1>1 DEF IInv, TypeOK, Register, workVars
<1>3. ASSUME NEW w \in Workers PROVE Steady(w)' /\ Exact(w)'
  BY DEF IInv, UntouchedSearchIsExact, Register, workVars, Steady, Exact, Routed, Searching
<1> QED BY <1>2, <1>3 DEF IInv, UntouchedSearchIsExact

\* A throw stops everything and changes nothing else.
LEMMA ThrowKeepsIInv ==
    ASSUME IInv, Throw
    PROVE  IInv'
<1>1. TypeOK'
  BY DEF IInv, TypeOK, Throw, workVars
<1>2. ASSUME NEW w \in Workers PROVE Steady(w)' /\ Exact(w)'
  BY DEF IInv, UntouchedSearchIsExact, Throw, workVars, Steady, Exact, Routed, Searching
<1> QED BY <1>1, <1>2 DEF IInv, UntouchedSearchIsExact

\* A worker's step leaves the searches of the others as they are.
LEMMA OthersKept ==
    ASSUME IInv, NEW w \in Workers, NEW u \in Workers, u # w, UNCHANGED hostVars,
           pc'[u] = pc[u], req'[u] = req[u], script'[u] = script[u],
           touched'[u] = touched[u], answer'[u] = answer[u]
    PROVE  Steady(u)' /\ Exact(u)'
BY DEF IInv, UntouchedSearchIsExact, hostVars, Steady, Exact, Routed, Searching

\* The requests are requests.
LEMMA RequestFacts ==
    ASSUME NEW r \in Requests
    PROVE  r.method \in Methods /\ r.asterisk \in BOOLEAN /\ r.path \in Seq(Nat)
BY RequestsAssumption

\* An asterisk request is answered without a search.
LEMMA ServeAsteriskKeepsIInv ==
    ASSUME IInv, NEW w \in Workers, NEW r \in Requests, ServeAsterisk(w, r)
    PROVE  IInv'
<1> DEFINE ans == IF r.method = "OPTIONS" THEN Unrouted(200, ServerAllowList) ELSE NotFound
<1>1. ans \in AnswerType
  <2>1. Unrouted(200, ServerAllowList) \in AnswerType /\ NotFound \in AnswerType
    <3>1. NoRoute \in [servlet : Names \cup {"none"}, script : Seq(Nat), info : Seq(Nat)]
      BY EmptySeq DEF NoRoute
    <3>2. ServerAllowList \in SUBSET Methods
      BY DefaultMethods DEF ServerAllowList
    <3> QED BY <3>1, <3>2 DEF Unrouted, NotFound, AnswerType
  <2> QED BY <2>1
<1>2. /\ pc' = [pc EXCEPT ![w] = "answered"]
      /\ req' = [req EXCEPT ![w] = r]
      /\ answer' = [answer EXCEPT ![w] = ans]
      /\ UNCHANGED <<hostVars, script, touched>>
      /\ pc[w] = "idle" /\ r.asterisk
  BY DEF ServeAsterisk, Reply
<1> HIDE DEF ans
<1>3. TypeOK'
  BY <1>1, <1>2 DEF IInv, TypeOK, hostVars
<1>4. Steady(w)' /\ Exact(w)'
  BY <1>2 DEF IInv, TypeOK, Steady, Exact, Routed, Searching
<1>5. ASSUME NEW u \in Workers, u # w PROVE Steady(u)' /\ Exact(u)'
  <2>1. /\ pc'[u] = pc[u] /\ req'[u] = req[u] /\ script'[u] = script[u]
        /\ touched'[u] = touched[u] /\ answer'[u] = answer[u] /\ UNCHANGED hostVars
    BY <1>2, <1>5 DEF IInv, TypeOK
  <2> QED BY <2>1, <1>5, OthersKept
<1> QED BY <1>3, <1>4, <1>5 DEF IInv, UntouchedSearchIsExact

\* A search begins untouched.
LEMMA BeginSearchKeepsIInv ==
    ASSUME IInv, NEW w \in Workers, NEW r \in Requests, BeginSearch(w, r)
    PROVE  IInv'
<1>1. TypeOK'
  BY DEF IInv, TypeOK, BeginSearch, hostVars
<1>2. Steady(w)' /\ Exact(w)'
  BY DEF IInv, TypeOK, BeginSearch, hostVars, Steady, Exact, Routed, Searching
<1>3. ASSUME NEW u \in Workers, u # w PROVE Steady(u)' /\ Exact(u)'
  <2>1. /\ pc'[u] = pc[u] /\ req'[u] = req[u] /\ script'[u] = script[u]
        /\ touched'[u] = touched[u] /\ answer'[u] = answer[u] /\ UNCHANGED hostVars
    BY <1>3 DEF IInv, TypeOK, BeginSearch
  <2> QED BY <2>1, <1>3, OthersKept
<1> QED BY <1>1, <1>2, <1>3 DEF IInv, UntouchedSearchIsExact

\* What an untouched walk collects is the table's keys.
LEMMA UntouchedWalk ==
    ASSUME IInv, NEW w \in Workers, NEW seen \in SUBSET Unsteady(w)
    PROVE  /\ (DOMAIN table \ Unsteady(w)) \cup seen \subseteq MountDirs
           /\ touched[w] = {} => (DOMAIN table \ Unsteady(w)) \cup seen = DOMAIN table
<1>1. DOMAIN table \subseteq MountDirs
  BY DEF IInv, TypeOK, Tables
<1> QED BY <1>1 DEF Unsteady

\* Scan: an untouched search finds the mount Routing names, or rightly none.
LEMMA ScanKeepsIInv ==
    ASSUME IInv, NEW w \in Workers, Scan(w)
    PROVE  IInv'
<1> DEFINE path == req[w].path
           Keys(seen) == (DOMAIN table \ Unsteady(w)) \cup seen
<1>1. PICK seen \in SUBSET Unsteady(w) :
        \/ /\ Matching(Keys(seen), path) = {}
           /\ Reply(w, NotFound)
           /\ UNCHANGED script
        \/ /\ \E key \in Keys(seen) :
                 /\ ScanFinds(Keys(seen), path, key)
                 /\ script' = [script EXCEPT ![w] = key]
           /\ pc' = [pc EXCEPT ![w] = "found"]
           /\ UNCHANGED answer
  BY Zenon DEF Scan
<1>2. pc[w] = "walking" /\ UNCHANGED <<hostVars, req, touched>>
  BY DEF Scan
<1>3. /\ Keys(seen) \subseteq MountDirs
      /\ touched[w] = {} => Keys(seen) = DOMAIN table
  BY UntouchedWalk
<1>4. Steady(w) /\ req[w] \in Requests /\ path \in Seq(Nat) /\ DOMAIN table \subseteq MountDirs
  BY <1>2, RequestFacts DEF IInv, Steady, TypeOK, Tables
<1> HIDE DEF Keys
<1>5. CASE /\ Matching(Keys(seen), path) = {}
           /\ Reply(w, NotFound)
           /\ UNCHANGED script
  <2>1. NotFound \in AnswerType /\ NotFound.route = NoRoute
    BY EmptySeq DEF NotFound, Unrouted, AnswerType, NoRoute
  <2>2. /\ pc' = [pc EXCEPT ![w] = "answered"]
        /\ answer' = [answer EXCEPT ![w] = NotFound]
    BY <1>5 DEF Reply
  <2>3. TypeOK'
    BY <1>2, <1>5, <2>1, <2>2 DEF IInv, TypeOK, hostVars
  <2>4. touched[w] = {} => Promise!Route(table, path) = NoRoute
    BY <1>3, <1>4, <1>5, NoMatchIsNoRoute
  <2>5. Steady(w)' /\ Exact(w)'
    BY <1>2, <1>4, <2>1, <2>2, <2>4
       DEF IInv, TypeOK, Steady, Exact, Routed, Searching, hostVars
  <2>6. ASSUME NEW u \in Workers, u # w PROVE Steady(u)' /\ Exact(u)'
    <3>1. /\ pc'[u] = pc[u] /\ req'[u] = req[u] /\ script'[u] = script[u]
          /\ touched'[u] = touched[u] /\ answer'[u] = answer[u] /\ UNCHANGED hostVars
      BY <1>2, <1>5, <2>2, <2>6 DEF IInv, TypeOK
    <3> QED BY <3>1, <2>6, OthersKept
  <2> QED BY <2>3, <2>5, <2>6 DEF IInv, UntouchedSearchIsExact
<1>6. CASE /\ \E key \in Keys(seen) :
                 /\ ScanFinds(Keys(seen), path, key)
                 /\ script' = [script EXCEPT ![w] = key]
           /\ pc' = [pc EXCEPT ![w] = "found"]
           /\ UNCHANGED answer
  <2>1. PICK key \in Keys(seen) :
          /\ ScanFinds(Keys(seen), path, key)
          /\ script' = [script EXCEPT ![w] = key]
    BY <1>6
  <2>2. TypeOK'
    BY <1>2, <1>3, <1>6, <2>1 DEF IInv, TypeOK, hostVars
  <2>3. Steady(w)' /\ Exact(w)'
    BY <1>2, <1>3, <1>4, <1>6, <2>1
       DEF IInv, TypeOK, Steady, Exact, Routed, Searching, hostVars
  <2>4. ASSUME NEW u \in Workers, u # w PROVE Steady(u)' /\ Exact(u)'
    <3>1. /\ pc'[u] = pc[u] /\ req'[u] = req[u] /\ script'[u] = script[u]
          /\ touched'[u] = touched[u] /\ answer'[u] = answer[u] /\ UNCHANGED hostVars
      BY <1>2, <1>6, <2>1, <2>4 DEF IInv, TypeOK
    <3> QED BY <3>1, <2>4, OthersKept
  <2> QED BY <2>2, <2>3, <2>4 DEF IInv, UntouchedSearchIsExact
<1> QED BY <1>1, <1>5, <1>6

\* Get fetches the servlet of an untouched search where Routing does.
LEMMA GetAnswer ==
    ASSUME IInv, NEW w \in Workers, Get(w)
    PROVE  \E ans \in AnswerType :
              /\ pc' = [pc EXCEPT ![w] = "answered"]
              /\ answer' = [answer EXCEPT ![w] = ans]
              /\ touched[w] = {} => ans.route = Promise!Route(table, req[w].path)
<1> DEFINE path == req[w].path
           dir == NormalizeMount(script[w])
           route == RouteTo(table[dir], path, script[w])
           ans == IF dir \in DOMAIN table THEN Served(route, req[w].method) ELSE NotFound
<1>1. /\ pc[w] = "found" /\ req[w] \in Requests /\ path \in Seq(Nat)
      /\ req[w].method \in Methods /\ script[w] \in Seq(Nat)
      /\ table \in Tables /\ DOMAIN table \subseteq MountDirs
      /\ \A k \in DOMAIN table : table[k] \in Names
      /\ servlets \in [Names -> ServletType]
  <2>1. pc[w] = "found" /\ req[w] \in Requests
    BY DEF Get, IInv, Steady
  <2>2. script[w] \in Seq(Nat)
    <3>1. script[w] \in MountDirs \cup {<<>>}
      BY DEF IInv, TypeOK
    <3>2. <<>> \in Seq(Nat)
      BY EmptySeq
    <3> QED BY <3>1, <3>2, MountDirsFixed
  <2>3. DOMAIN table \subseteq MountDirs /\ \A k \in DOMAIN table : table[k] \in Names
    BY DEF IInv, TypeOK, Tables
  <2> QED BY <2>1, <2>2, <2>3, RequestFacts DEF IInv, TypeOK
<1>2. ASSUME dir \in DOMAIN table
      PROVE  Served(route, req[w].method) \in AnswerType
             /\ Served(route, req[w].method).route = route
  <2>1. route \in [servlet : Names \cup {"none"}, script : Seq(Nat), info : Seq(Nat)]
    BY <1>1, <1>2, PathInfoType DEF RouteTo
  <2>2. route.servlet \in Names
    BY <1>1, <1>2 DEF RouteTo
  <2> HIDE DEF route, dir, path
  <2>3. /\ AllowList(servlets[route.servlet]) \subseteq Methods
        /\ Dispatch(servlets[route.servlet], req[w].method).handler
              \in Methods \cup {"none", "proc"}
    BY <1>1, <2>1, <2>2, AnswerTypes
  <2> QED BY <2>1, <2>3 DEF Served, AnswerType
<1>3. NotFound \in AnswerType
  BY EmptySeq DEF NotFound, Unrouted, AnswerType, NoRoute
<1>4. ans \in AnswerType
  BY <1>2, <1>3
<1>5. ASSUME touched[w] = {} PROVE ans.route = Promise!Route(table, path)
  <2>1. ScanFinds(DOMAIN table, path, script[w])
    BY <1>1, <1>5 DEF IInv, Steady
  <2>2. script[w] \in DOMAIN table
    BY <2>1 DEF ScanFinds, Matching
  <2>3. dir = script[w]
    BY <1>1, <2>2, MountDirsFixed
  <2>4. Promise!Route(table, path) = route
    BY <1>1, <2>1, <2>3, ScanIsRoute
  <2> HIDE DEF dir, route
  <2> QED BY <1>2, <2>2, <2>3, <2>4
<1>6. /\ pc' = [pc EXCEPT ![w] = "answered"]
      /\ answer' = [answer EXCEPT ![w] = ans]
  BY DEF Get, Reply
<1> HIDE DEF ans
<1> QED BY <1>4, <1>5, <1>6

\* Get: the answer of an untouched search is Routing's.
LEMMA GetKeepsIInv ==
    ASSUME IInv, NEW w \in Workers, Get(w)
    PROVE  IInv'
<1>1. PICK ans \in AnswerType :
        /\ pc' = [pc EXCEPT ![w] = "answered"]
        /\ answer' = [answer EXCEPT ![w] = ans]
        /\ touched[w] = {} => ans.route = Promise!Route(table, req[w].path)
  BY GetAnswer
<1>2. pc[w] = "found" /\ UNCHANGED <<hostVars, req, script, touched>>
  BY DEF Get
<1>3. TypeOK'
  BY <1>1, <1>2 DEF IInv, TypeOK, hostVars
<1>4. Steady(w)' /\ Exact(w)'
  BY <1>1, <1>2 DEF IInv, TypeOK, Steady, Exact, Routed, Searching, hostVars
<1>5. ASSUME NEW u \in Workers, u # w PROVE Steady(u)' /\ Exact(u)'
  <2>1. /\ pc'[u] = pc[u] /\ req'[u] = req[u] /\ script'[u] = script[u]
        /\ touched'[u] = touched[u] /\ answer'[u] = answer[u] /\ UNCHANGED hostVars
    BY <1>1, <1>2, <1>5 DEF IInv, TypeOK
  <2> QED BY <2>1, <1>5, OthersKept
<1> QED BY <1>3, <1>4, <1>5 DEF IInv, UntouchedSearchIsExact

\* Finish: the worker is as it was in the beginning.
LEMMA FinishKeepsIInv ==
    ASSUME IInv, NEW w \in Workers, Finish(w)
    PROVE  IInv'
<1>1. TypeOK'
  <2>1. NoAnswer \in AnswerType
    BY EmptySeq DEF NoAnswer, Unrouted, AnswerType, NoRoute
  <2> QED BY <2>1 DEF IInv, TypeOK, Finish, hostVars
<1>2. Steady(w)' /\ Exact(w)'
  BY DEF IInv, TypeOK, Finish, hostVars, Steady, Exact, Routed, Searching
<1>3. ASSUME NEW u \in Workers, u # w PROVE Steady(u)' /\ Exact(u)'
  <2>1. /\ pc'[u] = pc[u] /\ req'[u] = req[u] /\ script'[u] = script[u]
        /\ touched'[u] = touched[u] /\ answer'[u] = answer[u] /\ UNCHANGED hostVars
    BY <1>3 DEF IInv, TypeOK, Finish
  <2> QED BY <2>1, <1>3, OthersKept
<1> QED BY <1>1, <1>2, <1>3 DEF IInv, UntouchedSearchIsExact

\* Every step keeps the inductive invariant.
LEMMA NextIInv == IInv /\ [Next]_vars => IInv'
<1> SUFFICES ASSUME IInv, [Next]_vars PROVE IInv'
  OBVIOUS
<1>1. ASSUME NEW dir \in Dirs, NEW name \in Names, Mount(dir, name) PROVE IInv'
  <2>1. NormalizeMount(dir) \in MountDirs
    BY DEF MountDirs
  <2> QED BY <1>1, <2>1, BeginWriteKeepsIInv DEF Mount
<1>2. ASSUME NEW dir \in Dirs, Unmount(dir) PROVE IInv'
  <2>1. NormalizeMount(dir) \in MountDirs
    BY DEF MountDirs
  <2> QED BY <1>2, <2>1, BeginWriteKeepsIInv DEF Unmount
<1>3. CASE EndWrite
  BY <1>3, EndWriteKeepsIInv
<1>4. ASSUME NEW name \in Names, NEW method \in Handled, Register(name, method) PROVE IInv'
  BY <1>4, RegisterKeepsIInv
<1>5. CASE Throw
  BY <1>5, ThrowKeepsIInv
<1>6. ASSUME NEW w \in Workers, NEW r \in Requests, ServeAsterisk(w, r) PROVE IInv'
  BY <1>6, ServeAsteriskKeepsIInv
<1>7. ASSUME NEW w \in Workers, NEW r \in Requests, BeginSearch(w, r) PROVE IInv'
  BY <1>7, BeginSearchKeepsIInv
<1>8. ASSUME NEW w \in Workers, Scan(w) PROVE IInv'
  BY <1>8, ScanKeepsIInv
<1>9. ASSUME NEW w \in Workers, Get(w) PROVE IInv'
  BY <1>9, GetKeepsIInv
<1>10. ASSUME NEW w \in Workers, Finish(w) PROVE IInv'
  BY <1>10, FinishKeepsIInv
<1>11. CASE UNCHANGED vars
  <2>1. TypeOK'
    BY <1>11 DEF IInv, TypeOK, vars, hostVars, workVars
  <2>2. ASSUME NEW w \in Workers PROVE Steady(w)' /\ Exact(w)'
    BY <1>11 DEF IInv, UntouchedSearchIsExact, vars, hostVars, workVars, Steady, Exact,
                 Routed, Searching
  <2> QED BY <2>1, <2>2 DEF IInv, UntouchedSearchIsExact
<1> QED BY <1>1, <1>2, <1>3, <1>4, <1>5, <1>6, <1>7, <1>8, <1>9, <1>10, <1>11 DEF Next

\* The inductive invariant holds throughout.
THEOREM IInvHolds == Spec => []IInv
<1>1. Init => IInv
  BY InitIInv
<1>2. IInv /\ [Next]_vars => IInv'
  BY NextIInv
<1> QED BY <1>1, <1>2, PTL DEF Spec

\* The variables keep their types.
THEOREM TypeCorrect == Spec => []TypeOK
<1>1. IInv => TypeOK
  BY DEF IInv
<1> QED BY <1>1, IInvHolds, PTL

\* A search that no write has touched is answered by the servlet on the longest
\* mount over its path, or by NotFound if there is none, for every table, path
\* and interleaving.
THEOREM UntouchedSearchAlwaysExact == Spec => []UntouchedSearchIsExact
<1>1. IInv => UntouchedSearchIsExact
  BY DEF IInv
<1> QED BY <1>1, IInvHolds, PTL

\* Under a host that serialises, the comment in SearchServlet is right: Get
\* finds what Scan found.
THEOREM SerialisedGetSucceeds ==
    ASSUME Serialised
    PROVE  Spec => []GetSucceeds
<1>1. IInv => GetSucceeds
  <2> SUFFICES ASSUME IInv, NEW w \in Workers, alive, pc[w] = "found"
               PROVE  NormalizeMount(script[w]) \in DOMAIN table
    BY DEF GetSucceeds
  <2>1. ScanFinds(DOMAIN table, req[w].path, script[w])
    BY DEF IInv, Steady, Searching
  <2>2. script[w] \in DOMAIN table
    BY <2>1 DEF ScanFinds, Matching
  <2>3. script[w] \in MountDirs
    BY <2>2 DEF IInv, TypeOK, Tables
  <2> QED BY <2>2, <2>3, MountDirsFixed
<1> QED BY <1>1, IInvHolds, PTL

-----------------------------------------------------------------------------
(* Searches that table writes run into.                                    *)

\* The mounts over a path are those that matchMountPrefix accepts.
LEMMA OverIsMatching ==
    ASSUME NEW keys \in SUBSET MountDirs, NEW path \in Seq(Nat)
    PROVE  Promise!Over(keys, path) = Matching(keys, path)
BY MountDirsFixed, UnderIsMatch DEF Promise!Over, Matching

\* A step that leaves the host's side and one worker alone leaves what is known
\* of its search.
LEMMA OthersUnhidden ==
    ASSUME RaceInv, NEW u \in Workers, UNCHANGED table,
           pc'[u] = pc[u], req'[u] = req[u], script'[u] = script[u],
           touched'[u] = touched[u], answer'[u] = answer[u]
    PROVE  Recorded(u)' /\ Chosen(u)' /\ Unhidden(u)'
<1>1. Recorded(u)'
  BY DEF RaceInv, Recorded
<1>2. Chosen(u)'
  BY DEF RaceInv, Chosen
<1>3. Unhidden(u)'
  BY DEF RaceInv, Unhidden, Routed
<1> QED BY <1>1, <1>2, <1>3

\* A finished write: what it did is on the record of every search in progress.
LEMMA EndWriteKeepsRaceInv ==
    ASSUME IInv, RaceInv, EndWrite
    PROVE  RaceInv'
<1> DEFINE dir == writing.dir
<1>1. /\ dir \in MountDirs
      /\ DOMAIN table \subseteq MountDirs
  BY DEF IInv, TypeOK, EndWrite, Tables
<1>2. /\ DOMAIN table' = IF writing.op = "mount" THEN DOMAIN table \cup {dir}
                         ELSE DOMAIN table \ {dir}
      /\ Effect = IF writing.op = "mount"
                  THEN {<<IF dir \in DOMAIN table THEN "replace" ELSE "add", dir>>}
                  ELSE {<<"remove", dir>> : d \in DOMAIN table \cap {dir}}
  BY DEF EndWrite, Mounted, Unmounted, Effect
<1>3. SUFFICES ASSUME NEW w \in Workers
               PROVE  Recorded(w)' /\ Chosen(w)' /\ Unhidden(w)'
  BY DEF RaceInv
<1>4. /\ Recorded(w) /\ Chosen(w) /\ Unhidden(w)
      /\ pc[w] = "idle" => touched[w] = {}
      /\ UNCHANGED <<pc, req, script, answer>>
      /\ touched'[w] = IF pc[w] = "idle" THEN {} ELSE touched[w] \cup Effect
  BY DEF RaceInv, IInv, Steady, EndWrite
<1> HIDE DEF dir
<1>5. CASE pc[w] = "idle"
  BY <1>4, <1>5 DEF Recorded, Chosen, Unhidden, Routed
<1>6. CASE pc[w] # "idle"
  <2>1. touched[w] \subseteq touched'[w] /\ Effect \subseteq touched'[w]
        /\ touched'[w] = touched[w] \cup Effect
    BY <1>4, <1>6
  <2>2. \A k : k \in DOMAIN table' =>
            k \in DOMAIN table \/ <<"add", k>> \in touched'[w]
    <3>1. ASSUME writing.op = "mount", dir \notin DOMAIN table
          PROVE  <<"add", dir>> \in touched'[w]
      BY <1>2, <2>1, <3>1
    <3> QED BY <1>2, <3>1
  <2>3. \A k : k \in DOMAIN table =>
            k \in DOMAIN table' \/ <<"remove", k>> \in touched'[w]
    <3>1. ASSUME writing.op # "mount", dir \in DOMAIN table
          PROVE  <<"remove", dir>> \in touched'[w]
      BY <1>2, <2>1, <3>1
    <3> QED BY <1>2, <3>1
  <2>4. ASSUME NEW k \in MountDirs, <<"add", k>> \in touched'[w]
        PROVE  k \in DOMAIN table' \/ <<"remove", k>> \in touched'[w]
    <3>1. CASE <<"add", k>> \in touched[w]
      BY <1>4, <2>1, <2>3, <3>1 DEF Recorded
    <3>2. CASE <<"add", k>> \in Effect
      BY <1>2, <3>2
    <3> QED BY <2>1, <2>4, <3>1, <3>2
  <2>5. ASSUME NEW k \in MountDirs, <<"remove", k>> \in touched'[w]
        PROVE  k \notin DOMAIN table' \/ <<"add", k>> \in touched'[w]
    <3>1. CASE <<"remove", k>> \in touched[w]
      BY <1>4, <2>1, <2>2, <3>1 DEF Recorded
    <3>2. CASE <<"remove", k>> \in Effect
      <4>1. writing.op # "mount" /\ k = dir
        BY <1>2, <3>2
      <4> QED BY <1>2, <4>1
    <3> QED BY <2>1, <2>5, <3>1, <3>2
  <2>6. Recorded(w)'
    BY <2>4, <2>5 DEF Recorded
  <2>7. ASSUME NEW path, NEW k \in Promise!Over(DOMAIN table', path)
        PROVE  k \in Promise!Over(DOMAIN table, path) \/ <<"add", k>> \in touched'[w]
    BY <2>2, <2>7 DEF Promise!Over
  <2>8. Chosen(w)'
    BY <1>4, <2>1, <2>3, <2>7 DEF Chosen
  <2>9. Unhidden(w)'
    <3> SUFFICES ASSUME Routed(w)', NEW k \in Promise!Over(DOMAIN table', req[w].path),
                        <<"add", k>> \notin touched'[w]
                 PROVE  \/ /\ answer[w].route # NoRoute
                           /\ Len(k) <= Len(answer[w].route.script)
                        \/ \E gone \in Promise!Over(MountDirs, req[w].path) :
                              <<"remove", gone>> \in touched'[w] /\ Len(k) < Len(gone)
      BY <1>4 DEF Unhidden
    <3>1. k \in Promise!Over(DOMAIN table, req[w].path)
      BY <2>7
    <3>2. Routed(w) /\ <<"add", k>> \notin touched[w]
      BY <1>4, <2>1 DEF Routed
    <3> QED BY <1>4, <2>1, <3>1, <3>2 DEF Unhidden
  <2> QED BY <2>6, <2>8, <2>9
<1> QED BY <1>5, <1>6

\* The end of a walk: a mount that the walk missed had just come or gone.
LEMMA ScanKeepsRaceInv ==
    ASSUME IInv, RaceInv, NEW w \in Workers, Scan(w)
    PROVE  RaceInv'
<1> DEFINE path == req[w].path
           Keys(seen) == (DOMAIN table \ Unsteady(w)) \cup seen
<1>1. PICK seen \in SUBSET Unsteady(w) :
        \/ /\ Matching(Keys(seen), path) = {}
           /\ Reply(w, NotFound)
           /\ UNCHANGED script
        \/ /\ \E key \in Keys(seen) :
                 /\ ScanFinds(Keys(seen), path, key)
                 /\ script' = [script EXCEPT ![w] = key]
           /\ pc' = [pc EXCEPT ![w] = "found"]
           /\ UNCHANGED answer
  BY Zenon DEF Scan
<1>2. pc[w] = "walking" /\ UNCHANGED <<hostVars, req, touched>> /\ UNCHANGED table
  BY DEF Scan, hostVars
<1>3. Keys(seen) \subseteq MountDirs /\ Keys(seen) \in SUBSET Seq(Nat)
  BY UntouchedWalk, MountDirsFixed
<1>4. req[w] \in Requests /\ path \in Seq(Nat) /\ DOMAIN table \subseteq MountDirs
  BY <1>2, RequestFacts DEF IInv, Steady, TypeOK, Tables
<1>5. \A k \in DOMAIN table : k \in Keys(seen) \/ <<"add", k>> \in touched[w]
  <2>1. ASSUME NEW k \in DOMAIN table, k \in Unsteady(w)
        PROVE  <<"add", k>> \in touched[w]
    BY <1>4, <2>1 DEF RaceInv, Recorded, Unsteady
  <2> QED BY <2>1
<1>6. \A k \in Keys(seen) : k \in DOMAIN table \/ <<"remove", k>> \in touched[w]
  BY <1>3 DEF RaceInv, Recorded, Unsteady
<1>7. Recorded(w)'
  BY <1>2 DEF RaceInv, Recorded
<1>8. ASSUME NEW k \in Promise!Over(DOMAIN table, path), <<"add", k>> \notin touched[w]
      PROVE  k \in Matching(Keys(seen), path)
  <2>1. k \in Keys(seen)
    BY <1>5, <1>8 DEF Promise!Over
  <2>2. k \in Matching(DOMAIN table, path)
    BY <1>4, OverIsMatching
  <2> QED BY <2>1, <2>2 DEF Matching
<1>9. ASSUME NEW u \in Workers, u # w,
             pc'[u] = pc[u], script'[u] = script[u], answer'[u] = answer[u]
      PROVE  Recorded(u)' /\ Chosen(u)' /\ Unhidden(u)'
  <2>1. req'[u] = req[u] /\ touched'[u] = touched[u]
    BY <1>2
  <2> QED BY <1>2, <1>9, <2>1, OthersUnhidden
<1> HIDE DEF Keys
<1>10. CASE /\ Matching(Keys(seen), path) = {}
            /\ Reply(w, NotFound)
            /\ UNCHANGED script
  <2>1. pc'[w] = "answered" /\ \A u \in Workers : u # w =>
             pc'[u] = pc[u] /\ script'[u] = script[u] /\ answer'[u] = answer[u]
    BY <1>10 DEF Reply, IInv, TypeOK
  <2>2. Chosen(w)'
    BY <2>1 DEF Chosen
  <2>3. Unhidden(w)'
    BY <1>2, <1>8, <1>10 DEF Unhidden
  <2> QED BY <1>7, <1>9, <2>1, <2>2, <2>3 DEF RaceInv
<1>11. CASE /\ \E key \in Keys(seen) :
                  /\ ScanFinds(Keys(seen), path, key)
                  /\ script' = [script EXCEPT ![w] = key]
            /\ pc' = [pc EXCEPT ![w] = "found"]
            /\ UNCHANGED answer
  <2>1. PICK key \in Keys(seen) :
          /\ ScanFinds(Keys(seen), path, key)
          /\ script' = [script EXCEPT ![w] = key]
    BY <1>11
  <2>2. /\ pc'[w] = "found" /\ script'[w] = key
        /\ \A u \in Workers : u # w =>
             pc'[u] = pc[u] /\ script'[u] = script[u] /\ answer'[u] = answer[u]
    BY <1>11, <2>1 DEF IInv, TypeOK
  <2>3. /\ key \in Matching(Keys(seen), path)
        /\ \A k \in Matching(Keys(seen), path) : Len(k) <= Len(key)
    BY <1>3, <1>4, <2>1, ScanFindsLongest
  <2>4. key \in Promise!Over(MountDirs, path)
    <3>1. key \in Matching(MountDirs, path)
      BY <1>3, <2>3 DEF Matching
    <3> QED BY <1>4, <3>1, OverIsMatching
  <2>5. Chosen(w)'
    <3>1. script'[w] \in DOMAIN table' \/ <<"remove", script'[w]>> \in touched'[w]
      BY <1>2, <1>6, <2>2
    <3>2. ASSUME NEW k \in Promise!Over(DOMAIN table, path), <<"add", k>> \notin touched[w]
          PROVE  Len(k) <= Len(key)
      BY <1>8, <2>3, <3>2
    <3>3. \A k \in Promise!Over(DOMAIN table, path) :
             <<"add", k>> \in touched[w] \/ Len(k) <= Len(key)
      BY <3>2
    <3> QED BY <1>2, <2>2, <2>4, <3>1, <3>3 DEF Chosen
  <2>6. Unhidden(w)'
    BY <2>2 DEF Unhidden, Routed
  <2> QED BY <1>7, <1>9, <2>2, <2>5, <2>6 DEF RaceInv
<1> QED BY <1>1, <1>10, <1>11

\* The second lookup: it takes the mount Scan returned, or finds it gone.
LEMMA GetKeepsRaceInv ==
    ASSUME IInv, RaceInv, NEW w \in Workers, Get(w)
    PROVE  RaceInv'
<1> DEFINE path == req[w].path
           key == script[w]
           route == RouteTo(table[key], path, key)
           ans == IF key \in DOMAIN table THEN Served(route, req[w].method) ELSE NotFound
<1>1. /\ pc[w] = "found" /\ UNCHANGED table
      /\ UNCHANGED <<req, script, touched>>
      /\ req[w] \in Requests /\ path \in Seq(Nat)
      /\ DOMAIN table \subseteq MountDirs
      /\ \A k \in DOMAIN table : table[k] \in Names
  <2>1. pc[w] = "found" /\ req[w] \in Requests
    BY DEF Get, IInv, Steady
  <2>2. DOMAIN table \subseteq MountDirs /\ \A k \in DOMAIN table : table[k] \in Names
    BY DEF IInv, TypeOK, Tables
  <2> QED BY <2>1, <2>2, RequestFacts DEF Get, hostVars
<1>2. /\ key \in Promise!Over(MountDirs, path) /\ key \in MountDirs
      /\ key \in DOMAIN table \/ <<"remove", key>> \in touched[w]
      /\ \A dir \in Promise!Over(DOMAIN table, path) :
            <<"add", dir>> \in touched[w] \/ Len(dir) <= Len(key)
  BY <1>1 DEF RaceInv, Chosen, Promise!Over
<1>3. NormalizeMount(key) = key /\ key \in Seq(Nat)
  BY <1>2, MountDirsFixed
<1>4. /\ pc' = [pc EXCEPT ![w] = "answered"]
      /\ answer' = [answer EXCEPT ![w] = ans]
  BY <1>3 DEF Get, Reply
<1>5. key \in DOMAIN table => ans.route # NoRoute /\ ans.route.script = key
  <2>1. ASSUME key \in DOMAIN table PROVE route.servlet \in Names /\ route.script = key
    BY <1>1, <2>1 DEF RouteTo
  <2>2. key \in DOMAIN table => ans.route = route
    BY DEF Served
  <2> QED BY <2>1, <2>2, NamesAssumption DEF NoRoute
<1>6. ASSUME NEW dir \in Promise!Over(DOMAIN table, path), Len(dir) = Len(key)
      PROVE  dir = key
  <2>1. dir \in Matching(DOMAIN table, path) /\ key \in Matching(MountDirs, path)
    BY <1>1, <1>2, OverIsMatching
  <2>2. dir \in Seq(Nat) /\ IsPrefix(dir, path) /\ IsPrefix(key, path)
    BY <1>1, <2>1, MountDirsFixed DEF Matching, MatchMountPrefix
  <2> QED BY <1>1, <1>3, <1>6, <2>2, PrefixesOfOneLength
<1>7. /\ pc'[w] = "answered" /\ answer'[w] = ans
      /\ \A u \in Workers : u # w => pc'[u] = pc[u] /\ answer'[u] = answer[u]
  BY <1>4 DEF IInv, TypeOK
<1>8. Unhidden(w)'
  <2> SUFFICES ASSUME NEW dir \in Promise!Over(DOMAIN table, path),
                      <<"add", dir>> \notin touched[w]
               PROVE  \/ ans.route # NoRoute /\ Len(dir) <= Len(ans.route.script)
                      \/ \E gone \in Promise!Over(MountDirs, path) :
                            <<"remove", gone>> \in touched[w] /\ Len(dir) < Len(gone)
    BY <1>1, <1>7 DEF Unhidden
  <2>1. Len(dir) <= Len(key)
    BY <1>2
  <2>2. CASE key \in DOMAIN table
    BY <1>5, <2>1, <2>2
  <2>3. CASE key \notin DOMAIN table
    <3>1. dir # key /\ Len(dir) # Len(key)
      BY <1>6, <2>3 DEF Promise!Over
    <3>2. dir \in Seq(Nat)
      BY <1>1, MountDirsFixed DEF Promise!Over
    <3>3. Len(dir) < Len(key)
      BY <1>3, <2>1, <3>1, <3>2
    <3> QED BY <1>2, <2>3, <3>3
  <2> QED BY <2>2, <2>3
<1>9. Recorded(w)' /\ Chosen(w)'
  BY <1>1, <1>7 DEF RaceInv, Recorded, Chosen
<1>10. ASSUME NEW u \in Workers, u # w
       PROVE  Recorded(u)' /\ Chosen(u)' /\ Unhidden(u)'
  <2>1. /\ pc'[u] = pc[u] /\ answer'[u] = answer[u] /\ req'[u] = req[u]
        /\ script'[u] = script[u] /\ touched'[u] = touched[u]
    BY <1>1, <1>7, <1>10
  <2> QED BY <1>1, <2>1, OthersUnhidden
<1> QED BY <1>8, <1>9, <1>10 DEF RaceInv

\* Every step keeps the record of the searches that writes run into.
LEMMA NextRaceInv == IInv /\ RaceInv /\ [Next]_vars => RaceInv'
<1> SUFFICES ASSUME IInv, RaceInv, [Next]_vars PROVE RaceInv'
  OBVIOUS
<1>1. ASSUME UNCHANGED <<table, pc, req, script, touched, answer>> PROVE RaceInv'
  BY <1>1, OthersUnhidden DEF RaceInv
<1>2. CASE \/ \E dir \in Dirs, name \in Names : Mount(dir, name)
           \/ \E dir \in Dirs : Unmount(dir)
           \/ \E name \in Names, method \in Handled : Register(name, method)
           \/ Throw
           \/ UNCHANGED vars
  BY <1>1, <1>2 DEF Mount, Unmount, BeginWrite, Register, Throw, vars, hostVars, workVars
<1>3. CASE EndWrite
  BY <1>3, EndWriteKeepsRaceInv
<1>4. ASSUME NEW w \in Workers, UNCHANGED table, pc'[w] # "found", ~Routed(w)',
             touched'[w] = {},
             \A u \in Workers : u # w =>
                /\ pc'[u] = pc[u] /\ req'[u] = req[u] /\ script'[u] = script[u]
                /\ touched'[u] = touched[u] /\ answer'[u] = answer[u]
      PROVE  RaceInv'
  <2>1. Recorded(w)' /\ Chosen(w)' /\ Unhidden(w)'
    BY <1>4 DEF Recorded, Chosen, Unhidden
  <2>2. ASSUME NEW u \in Workers, u # w
        PROVE  Recorded(u)' /\ Chosen(u)' /\ Unhidden(u)'
    BY <1>4, <2>2, OthersUnhidden
  <2> QED BY <2>1, <2>2 DEF RaceInv
<1>5. ASSUME NEW w \in Workers, NEW r \in Requests, ServeAsterisk(w, r) PROVE RaceInv'
  BY <1>4, <1>5 DEF ServeAsterisk, Reply, IInv, TypeOK, Steady, hostVars, Routed
<1>6. ASSUME NEW w \in Workers, NEW r \in Requests, BeginSearch(w, r) PROVE RaceInv'
  BY <1>4, <1>6 DEF BeginSearch, IInv, TypeOK, Steady, hostVars, Routed
<1>7. ASSUME NEW w \in Workers, Scan(w) PROVE RaceInv'
  BY <1>7, ScanKeepsRaceInv
<1>8. ASSUME NEW w \in Workers, Get(w) PROVE RaceInv'
  BY <1>8, GetKeepsRaceInv
<1>9. ASSUME NEW w \in Workers, Finish(w) PROVE RaceInv'
  BY <1>4, <1>9 DEF Finish, IInv, TypeOK, hostVars, Routed
<1> QED BY <1>2, <1>3, <1>5, <1>6, <1>7, <1>8, <1>9 DEF Next

\* Whatever table writes run into a search, they hide no mount that was there all
\* along but by unmounting a longer one between Scan and Get.
THEOREM OnlyUnmountEverHides == Spec => []OnlyUnmountHides
<1>1. Init => RaceInv
  BY DEF Init, RaceInv, Recorded, Chosen, Unhidden, Routed
<1>2. IInv /\ RaceInv /\ [Next]_vars => RaceInv'
  BY NextRaceInv
<1>3. RaceInv => OnlyUnmountHides
  BY DEF RaceInv, OnlyUnmountHides
<1> QED BY <1>1, <1>2, <1>3, IInvHolds, PTL DEF Spec

-----------------------------------------------------------------------------
(* The methods announced.                                                  *)

\* A servlet refuses exactly the methods that are not in its Allow list.
LEMMA AllowedIsDispatched ==
    ASSUME NEW servlet \in ServletType, NEW m \in Methods
    PROVE  m \in AllowList(servlet) <=> Dispatch(servlet, m) # NotAllowed
<1>1. CASE servlet = Proc
  BY <1>1 DEF AllowList, Dispatch, Proc, ProcMethods, Runs, Announces, NotAllowed
<1>2. ASSUME NEW h \in SUBSET Methods, servlet = Abstract(h)
      PROVE  m \in AllowList(servlet) <=> Dispatch(servlet, m) # NotAllowed
  <2>1. servlet.kind = "abstract" /\ servlet.handlers = h
    BY <1>2 DEF Abstract
  <2>2. {"HEAD", "GET"} \cap h = {"GET"} <=> "GET" \in h /\ "HEAD" \notin h
    OBVIOUS
  <2>3. m \in AllowList(servlet) <=> m \in h \/ m = "OPTIONS" \/ (m = "HEAD" /\ "GET" \in h)
    BY <2>1 DEF AllowList
  <2>4. CASE m \in h
    BY <2>1, <2>3, <2>4 DEF Dispatch, Runs, NotAllowed
  <2>5. CASE m \notin h /\ m = "HEAD"
    BY <2>1, <2>2, <2>3, <2>5 DEF Dispatch, Runs, NotAllowed
  <2>6. CASE m \notin h /\ m = "OPTIONS"
    BY <2>1, <2>3, <2>6 DEF Dispatch, Announces, NotAllowed
  <2>7. CASE m \notin h /\ m \notin {"HEAD", "OPTIONS"}
    BY <2>1, <2>3, <2>7 DEF Dispatch, NotAllowed
  <2> QED BY <2>4, <2>5, <2>6, <2>7
<1> QED BY <1>1, <1>2 DEF ServletType

\* A method once dispatched stays so when a handler is registered.
LEMMA HandlingKeepsMethods ==
    ASSUME IInv, NEW name \in Names, NEW method \in Handled, Register(name, method),
           NEW n \in Names, NEW m \in Methods, Dispatch(servlets[n], m) # NotAllowed
    PROVE  Dispatch(servlets'[n], m) # NotAllowed
<1>1. servlets \in [Names -> ServletType] /\ servlets' \in [Names -> ServletType]
  BY RegisterKeepsIInv DEF IInv, TypeOK
<1>2. m \in AllowList(servlets[n])
  BY <1>1, AllowedIsDispatched
<1>3. m \in AllowList(servlets'[n])
  <2>1. CASE n # name
    BY <1>1, <1>2, <2>1 DEF Register
  <2>2. CASE n = name
    <3>1. servlets'[n] = Abstract(servlets[n].handlers \cup {Upper[method]})
          /\ servlets[n].kind = "abstract"
      BY <1>1, <2>2 DEF Register, Handle
    <3> QED BY <1>2, <3>1 DEF AllowList, Abstract
  <2> QED BY <2>1, <2>2
<1> QED BY <1>1, <1>3, AllowedIsDispatched

\* What a routed answer announces comes from the Allow list of its servlet.
LEMMA ServedAllow ==
    ASSUME IInv, NEW w \in Workers, Get(w), answer'[w].route # NoRoute
    PROVE  /\ answer'[w].route.servlet \in Names
           /\ answer'[w].allow \subseteq AllowList(servlets[answer'[w].route.servlet])
<1> DEFINE dir == NormalizeMount(script[w])
           route == RouteTo(table[dir], req[w].path, script[w])
<1>1. answer'[w] = IF dir \in DOMAIN table THEN Served(route, req[w].method) ELSE NotFound
  BY DEF Get, Reply, IInv, TypeOK
<1>2. dir \in DOMAIN table
  BY <1>1 DEF NotFound, Unrouted
<1>3. table[dir] \in Names
  BY <1>2 DEF IInv, TypeOK, Tables
<1>4. route.servlet = table[dir]
  BY DEF RouteTo
<1> HIDE DEF dir, route
<1>5. /\ answer'[w].route = route
      /\ answer'[w].allow \subseteq AllowList(servlets[route.servlet])
  BY <1>1, <1>2 DEF Served
<1> QED BY <1>3, <1>4, <1>5

\* Every step keeps what has been announced.
LEMMA NextAllowInv == IInv /\ AllowInv /\ [Next]_vars => AllowInv'
<1> SUFFICES ASSUME IInv, AllowInv, [Next]_vars PROVE AllowInv'
  OBVIOUS
<1> DEFINE Kept(w) == Routed(w) /\ answer[w].route # NoRoute =>
              /\ answer[w].route.servlet \in Names
              /\ \A m \in answer[w].allow :
                    Dispatch(servlets[answer[w].route.servlet], m) # NotAllowed
<1>1. TypeOK /\ TypeOK' /\ \A w \in Workers : Kept(w)
  BY NextIInv DEF IInv, AllowInv, AllowIsKept
<1>2. \A n \in Names, m \in Methods :
         m \in AllowList(servlets'[n]) <=> Dispatch(servlets'[n], m) # NotAllowed
  BY <1>1, AllowedIsDispatched DEF TypeOK
<1>3. SUFFICES ASSUME NEW w \in Workers PROVE Kept(w)'
  BY <1>2 DEF AllowInv, AllowIsKept
<1>4. \A u \in Workers : answer[u].allow \subseteq Methods
  BY <1>1 DEF TypeOK, AnswerType
<1>5. ASSUME pc'[w] = pc[w], req'[w] = req[w], answer'[w] = answer[w], UNCHANGED servlets
      PROVE  Kept(w)'
  BY <1>1, <1>5 DEF Routed
<1>6. ASSUME ~Routed(w)' \/ answer'[w].route = NoRoute PROVE Kept(w)'
  BY <1>6
<1> HIDE DEF Kept
<1>7. CASE \/ \E dir \in Dirs, name \in Names : Mount(dir, name)
           \/ \E dir \in Dirs : Unmount(dir)
           \/ EndWrite
           \/ Throw
           \/ UNCHANGED vars
  BY <1>5, <1>7 DEF Mount, Unmount, BeginWrite, EndWrite, Throw, vars, hostVars, workVars
<1>8. ASSUME NEW name \in Names, NEW method \in Handled, Register(name, method)
      PROVE  Kept(w)'
  BY <1>1, <1>4, <1>8, HandlingKeepsMethods DEF Kept, Register, workVars, Routed
<1>9. ASSUME NEW u \in Workers, NEW r \in Requests, ServeAsterisk(u, r) PROVE Kept(w)'
  BY <1>1, <1>5, <1>6, <1>9 DEF ServeAsterisk, Reply, TypeOK, hostVars, Routed
<1>10. ASSUME NEW u \in Workers, NEW r \in Requests, BeginSearch(u, r) PROVE Kept(w)'
  BY <1>1, <1>5, <1>6, <1>10 DEF BeginSearch, TypeOK, hostVars, Routed
<1>11. ASSUME NEW u \in Workers, Finish(u) PROVE Kept(w)'
  BY <1>1, <1>5, <1>6, <1>11 DEF Finish, TypeOK, hostVars, Routed
<1>12. ASSUME NEW u \in Workers, Scan(u) PROVE Kept(w)'
  <2>1. UNCHANGED <<servlets, req>> /\ pc[u] = "walking"
    BY <1>12 DEF Scan, hostVars
  <2>2. \/ Reply(u, NotFound)
        \/ pc' = [pc EXCEPT ![u] = "found"] /\ UNCHANGED answer
    BY <1>12 DEF Scan
  <2> QED BY <1>1, <1>5, <1>6, <2>1, <2>2
          DEF Reply, TypeOK, Routed, NotFound, Unrouted
<1>13. ASSUME NEW u \in Workers, Get(u) PROVE Kept(w)'
  <2>1. UNCHANGED <<servlets, req>>
    BY <1>13 DEF Get, hostVars
  <2>2. CASE u # w
    BY <1>1, <1>5, <1>13, <2>1, <2>2 DEF Get, Reply, TypeOK
  <2>3. CASE u = w
    <3> SUFFICES ASSUME answer'[w].route # NoRoute PROVE Kept(w)'
      BY <1>6
    <3>1. /\ answer'[w].route.servlet \in Names
          /\ answer'[w].allow \subseteq AllowList(servlets[answer'[w].route.servlet])
      BY <1>13, <2>3, ServedAllow
    <3>2. answer'[w].allow \subseteq Methods
      BY <1>1 DEF TypeOK, AnswerType
    <3>3. \A m \in answer'[w].allow :
             Dispatch(servlets[answer'[w].route.servlet], m) # NotAllowed
      BY <1>1, <3>1, <3>2, AllowedIsDispatched DEF TypeOK
    <3> QED BY <2>1, <3>1, <3>3 DEF Kept
  <2> QED BY <2>2, <2>3
<1> QED BY <1>7, <1>8, <1>9, <1>10, <1>11, <1>12, <1>13 DEF Next

\* The methods a servlet announces are those it does not refuse, at any time and
\* whatever is registered after the announcement.
THEOREM AllowAlwaysKept == Spec => []AllowIsKept
<1>1. Init => AllowInv
  <2> SUFFICES ASSUME Init PROVE AllowInv
    OBVIOUS
  <2>1. TypeOK
    BY InitIInv DEF IInv
  <2>2. \A n \in Names, m \in Methods :
           m \in AllowList(servlets[n]) <=> Dispatch(servlets[n], m) # NotAllowed
    BY <2>1, AllowedIsDispatched DEF TypeOK
  <2>3. \A w \in Workers : ~Routed(w)
    BY DEF Init, Routed
  <2> QED BY <2>2, <2>3 DEF AllowInv, AllowIsKept
<1>2. IInv /\ AllowInv /\ [Next]_vars => AllowInv'
  BY NextAllowInv
<1>3. AllowInv => AllowIsKept
  BY DEF AllowInv
<1> QED BY <1>1, <1>2, <1>3, IInvHolds, PTL DEF Spec

-----------------------------------------------------------------------------
(* The refinement.                                                         *)

\* A worker whose variables stay is doing what it did.
LEMMA CallKept ==
    ASSUME NEW u, pc'[u] = pc[u], req'[u] = req[u], answer'[u] = answer[u]
    PROVE  RoutedCall(u)' = RoutedCall(u)
BY DEF RoutedCall

\* Before the host serves, nobody is asking for a route.
LEMMA InitRefines == Init => Promise!RInit
<1> SUFFICES ASSUME Init PROVE Promise!RInit
  OBVIOUS
<1>1. table \in Promise!Tables
  BY DEF Init, Tables, Promise!Tables
<1>2. \A w \in Workers : RoutedCall(w) = Promise!IdleCall
  BY DEF Init, RoutedCall, Promise!IdleCall, Promise!NoRoute, NoRoute
<1> QED BY <1>1, <1>2 DEF Promise!RInit

\* A step of one worker changes its own call only.
LEMMA OneCall ==
    ASSUME NEW w \in Workers, NEW c, RoutedCall(w)' = c,
           \A u \in Workers : u # w => RoutedCall(u)' = RoutedCall(u)
    PROVE  [u \in Workers |-> RoutedCall(u)'] =
               [[u \in Workers |-> RoutedCall(u)] EXCEPT ![w] = c]
OBVIOUS

\* Under a host that serialises, every step is a step of Routing or a stutter.
LEMMA StepRefines ==
    ASSUME Serialised, IInv, [Next]_vars
    PROVE  [Promise!RNext]_<<table, [w \in Workers |-> RoutedCall(w)]>>
<1> DEFINE call == [w \in Workers |-> RoutedCall(w)]
<1>1. ASSUME UNCHANGED <<pc, req, answer>> PROVE call' = call
  BY <1>1, CallKept
<1>2. CASE EndWrite
  <2>1. writing.dir \in MountDirs /\ (writing.op = "mount" => writing.servlet \in Names)
    BY <1>2 DEF IInv, TypeOK, EndWrite
  <2>2. call' = call
    BY <1>1, <1>2 DEF EndWrite
  <2>3. table' = IF writing.op = "mount"
                 THEN Promise!Mounted(table, writing.dir, writing.servlet)
                 ELSE Promise!Unmounted(table, writing.dir)
    BY <1>2 DEF EndWrite, Mounted, Unmounted, Promise!Mounted, Promise!Unmounted
  <2> HIDE DEF call
  <2>4. Promise!Change
    BY <2>1, <2>2, <2>3 DEF Promise!Change, call
  <2> QED BY <2>4 DEF Promise!RNext
<1>3. ASSUME UNCHANGED <<table, pc, req, answer>>
      PROVE  UNCHANGED <<table, call>>
  BY <1>1, <1>3
<1>4. ASSUME \/ \E dir \in Dirs, name \in Names : Mount(dir, name)
             \/ \E dir \in Dirs : Unmount(dir)
             \/ \E name \in Names, method \in Handled : Register(name, method)
             \/ Throw
             \/ UNCHANGED vars
      PROVE  UNCHANGED <<table, pc, req, answer>>
  BY <1>4 DEF Mount, Unmount, BeginWrite, Register, Throw, vars, hostVars, workVars
<1>5. ASSUME NEW w \in Workers, NEW r \in Requests, ServeAsterisk(w, r)
      PROVE  UNCHANGED <<table, call>>
  <2>1. RoutedCall(w)' = RoutedCall(w)
    BY <1>5 DEF IInv, TypeOK, ServeAsterisk, Reply, RoutedCall
  <2>2. \A u \in Workers : u # w => RoutedCall(u)' = RoutedCall(u)
    BY <1>5, CallKept DEF IInv, TypeOK, ServeAsterisk, Reply
  <2> QED BY <1>5, <2>1, <2>2 DEF ServeAsterisk, hostVars
<1>6. ASSUME NEW w \in Workers, NEW r \in Requests, BeginSearch(w, r)
      PROVE  Promise!Ask(w)
  <2>1. call[w].stage = "idle"
    BY <1>6 DEF BeginSearch, RoutedCall
  <2>2. RoutedCall(w)' = [stage |-> "asked", path |-> r.path, route |-> NoRoute]
    BY <1>6 DEF IInv, TypeOK, Steady, BeginSearch, RoutedCall, NoAnswer, Unrouted
  <2>3. \A u \in Workers : u # w => RoutedCall(u)' = RoutedCall(u)
    BY <1>6, CallKept DEF IInv, TypeOK, BeginSearch
  <2>4. call' = [call EXCEPT ![w] = [stage |-> "asked", path |-> r.path, route |-> NoRoute]]
    BY <2>2, <2>3, OneCall
  <2>5. r.path \in Paths /\ UNCHANGED table
    BY <1>6 DEF Paths, BeginSearch, hostVars
  <2> HIDE DEF call
  <2> QED BY <2>1, <2>4, <2>5 DEF Promise!Ask, call, Promise!NoRoute, NoRoute
<1>7. ASSUME NEW w \in Workers, pc[w] \in {"walking", "found"},
             pc'[w] = "answered", UNCHANGED <<table, req>>,
             answer'[w].route = Promise!Route(table, req[w].path),
             \A u \in Workers : u # w => RoutedCall(u)' = RoutedCall(u)
      PROVE  Promise!Answer(w)
  <2> DEFINE path == req[w].path
             c == [stage |-> "answered", path |-> path, route |-> Promise!Route(table, path)]
  <2>1. ~req[w].asterisk
    BY <1>7 DEF IInv, Steady, Searching
  <2>2. call[w].stage = "asked" /\ call[w].path = path
    BY <1>7, <2>1 DEF RoutedCall
  <2>3. RoutedCall(w)' = c
    BY <1>7, <2>1 DEF RoutedCall
  <2>4. call' = [call EXCEPT ![w] = c]
    BY <1>7, <2>3, OneCall
  <2> HIDE DEF call
  <2> QED BY <1>7, <2>2, <2>4 DEF Promise!Answer, call
<1>8. ASSUME NEW w \in Workers, Scan(w)
      PROVE  Promise!Answer(w) \/ UNCHANGED <<table, call>>
  <2> DEFINE path == req[w].path
  <2>1. /\ touched[w] = {} /\ pc[w] = "walking" /\ req[w] \in Requests
        /\ UNCHANGED <<table, req>>
        /\ DOMAIN table \subseteq MountDirs
    BY <1>8 DEF IInv, TypeOK, Tables, Steady, Searching, Scan, hostVars
  <2>2. CASE pc' = [pc EXCEPT ![w] = "answered"]
    <3>1. Matching(DOMAIN table, path) = {} /\ Reply(w, NotFound)
      BY <1>8, <2>1, <2>2, UntouchedWalk DEF Scan, IInv, TypeOK
    <3>2. Promise!Route(table, path) = NoRoute
      BY <2>1, <3>1, RequestFacts, NoMatchIsNoRoute
    <3>3. answer'[w].route = NoRoute
      BY <3>1 DEF Reply, IInv, TypeOK, NotFound, Unrouted
    <3>4. \A u \in Workers : u # w => RoutedCall(u)' = RoutedCall(u)
      BY <2>1, <3>1, CallKept DEF IInv, TypeOK, Reply
    <3>5. pc'[w] = "answered"
      BY <2>2 DEF IInv, TypeOK
    <3> QED BY <1>7, <2>1, <3>2, <3>3, <3>4, <3>5
  <2>3. CASE pc' = [pc EXCEPT ![w] = "found"] /\ UNCHANGED answer
    <3>1. RoutedCall(w)' = RoutedCall(w)
      BY <2>1, <2>3 DEF IInv, TypeOK, RoutedCall
    <3>2. \A u \in Workers : u # w => RoutedCall(u)' = RoutedCall(u)
      BY <2>1, <2>3, CallKept DEF IInv, TypeOK
    <3> QED BY <2>1, <3>1, <3>2
  <2> QED BY <1>8, <2>2, <2>3 DEF Scan, Reply
<1>9. ASSUME NEW w \in Workers, Get(w)
      PROVE  Promise!Answer(w)
  <2>1. PICK ans \in AnswerType :
          /\ pc' = [pc EXCEPT ![w] = "answered"]
          /\ answer' = [answer EXCEPT ![w] = ans]
          /\ touched[w] = {} => ans.route = Promise!Route(table, req[w].path)
    BY <1>9, GetAnswer
  <2>2. touched[w] = {} /\ pc[w] = "found" /\ UNCHANGED <<table, req>>
    BY <1>9 DEF IInv, Steady, Searching, Get, hostVars
  <2>3. answer'[w].route = Promise!Route(table, req[w].path) /\ pc'[w] = "answered"
    BY <2>1, <2>2 DEF IInv, TypeOK
  <2>4. \A u \in Workers : u # w => RoutedCall(u)' = RoutedCall(u)
    BY <2>1, <2>2, CallKept DEF IInv, TypeOK
  <2> QED BY <1>7, <2>2, <2>3, <2>4
<1>10. ASSUME NEW w \in Workers, Finish(w)
       PROVE  Promise!Finish(w) \/ UNCHANGED <<table, call>>
  <2>1. RoutedCall(w)' = Promise!IdleCall
    BY <1>10 DEF Finish, IInv, TypeOK, RoutedCall, Promise!IdleCall, Promise!NoRoute, NoRoute
  <2>2. \A u \in Workers : u # w => RoutedCall(u)' = RoutedCall(u)
    BY <1>10, CallKept DEF Finish, IInv, TypeOK
  <2>3. call' = [call EXCEPT ![w] = Promise!IdleCall] /\ UNCHANGED table
    BY <1>10, <2>1, <2>2, OneCall DEF Finish, hostVars
  <2>4. CASE req[w].asterisk
    <3>1. RoutedCall(w) = Promise!IdleCall
      BY <2>4 DEF RoutedCall, Promise!IdleCall, Promise!NoRoute, NoRoute
    <3> QED BY <2>1, <2>2, <2>3, <3>1
  <2>5. CASE ~req[w].asterisk
    <3>1. call[w].stage = "answered"
      BY <1>10, <2>5 DEF Finish, RoutedCall
    <3> HIDE DEF call
    <3> QED BY <2>3, <3>1 DEF Promise!Finish, call
  <2> QED BY <2>4, <2>5
<1> HIDE DEF call
<1>11. Promise!RNext \/ UNCHANGED <<table, call>>
  <2>1. ASSUME NEW w \in Workers, Promise!Ask(w) \/ Promise!Answer(w) \/ Promise!Finish(w)
        PROVE  Promise!RNext
    BY <2>1 DEF Promise!RNext
  <2>2. EndWrite => Promise!RNext \/ UNCHANGED <<table, call>>
    BY <1>2 DEF call
  <2> QED BY <1>3, <1>4, <1>5, <1>6, <1>8, <1>9, <1>10, <2>1, <2>2 DEF Next
<1> QED BY <1>11 DEF call

\* Under a host that serialises table writes and searches, the server keeps the
\* promise of the mount table: each answer is one step, the longest mount's.
THEOREM ServerImplementsRouting ==
    ASSUME Serialised
    PROVE  Spec => ImplementsRouting
<1>1. Init => Promise!RInit
  BY InitRefines
<1>2. IInv /\ [Next]_vars => [Promise!RNext]_<<table, [w \in Workers |-> RoutedCall(w)]>>
  BY StepRefines
<1> QED BY <1>1, <1>2, IInvHolds, PTL DEF Spec, ImplementsRouting, Promise!RSpec
==============================================================================
