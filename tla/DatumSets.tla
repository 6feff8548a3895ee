----------------------------- MODULE DatumSets -----------------------------
(***************************************************************************)
(* How a job's datums are formed from its inputs, and how they are listed  *)
(* (datum_engine.go: enumerateDatums, chunkSideDatums, unionDatums,        *)
(* joinDatums, groupDatums; datum_api.go: listDatums).                     *)
(*                                                                         *)
(* These are pure functions.  The specification poses a problem from a set *)
(* of bounded problems and one action per kind of input computes the       *)
(* answer with the definition translated from the code; the invariants     *)
(* compare answer and problem.                                             *)
(*                                                                         *)
(* A path is a sequence of names.  What the capture groups of a glob make  *)
(* of a path is a pair of keys that is part of the file.  Where the code   *)
(* walks a Go map the order is unspecified, and the answer is a set.       *)
(***************************************************************************)
EXTENDS Integers, Sequences, SequencesExt, FiniteSetsExt

CONSTANTS
  Problems,  \* the problems posed: records with a field "kind"
  NoAnswer

VARIABLES problem, answer
vars == <<problem, answer>>

Init == problem \in Problems /\ answer = NoAnswer
Pose(kind) == answer = NoAnswer /\ problem.kind = kind /\ UNCHANGED problem

----------------------------------------------------------------------------
(* Glob datums.  A glob is "**" (deep) or one pattern per path component,  *)
(* "*" for any name; the root is matched by "/" and "**" only.             *)
globMatches(glob, path) ==
  \/ glob.deep
  \/ /\ Len(glob.parts) = Len(path)
     /\ \A n \in DOMAIN path : glob.parts[n] \in {"*", path[n]}

(* A file below a directory that is a datum is no datum of its own.        *)
Shadowed(view, glob, c) ==
  c \in view /\ \E dir \in Prefixes(c) \ view : globMatches(glob, dir)

(* Every file and every directory above one is a candidate; a directory    *)
(* that matches is a datum of all the files below it.                      *)
enumerateDatums(view, glob) ==
  LET candidates == {<<>>} \cup UNION {Prefixes(p) : p \in view}
      matched == {c \in candidates : globMatches(glob, c) /\ ~Shadowed(view, glob, c)}
  IN  {[id |-> c, files |-> IF c \in view THEN {c} ELSE {p \in view : IsPrefix(c, p)}] :
         c \in matched}

Enumerate == Pose("glob") /\ answer' = enumerateDatums(problem.view, problem.glob)

(* The files at or below what the glob names.                              *)
Selected(view, glob) == {p \in view : \E c \in Prefixes(p) \cup {<<>>} : globMatches(glob, c)}

(* A glob of fixed depth puts every file it selects into exactly one       *)
(* datum; "**" still loses none (datum_engine.go: "files swallowed by a    *)
(* directory datum are not separate datums").                              *)
GlobsPartition ==
  problem.kind = "glob" /\ answer # NoAnswer =>
    /\ UNION {d.files : d \in answer} = Selected(problem.view, problem.glob)
    /\ ~problem.glob.deep => \A d, e \in answer : d # e => d.files \cap e.files = {}

----------------------------------------------------------------------------
(* Chunks.  A side's datums are numbered, with the sizes of their files;   *)
(* a chunk is the sequence of the datums merged into it.                   *)
Size(sizes, chunk) == FoldLeft(LAMBDA n, d : n + sizes[d], 0, chunk)

(* At most `number` chunks of equal length, the last one shorter.          *)
ByNumber(n, number) ==
  LET per == Max({1, (n + number - 1) \div number})
  IN  [c \in 1 .. (n + per - 1) \div per |->
         [k \in 1 .. Min({per, n - (c - 1) * per}) |-> (c - 1) * per + k]]

(* A chunk is closed before the datum that would make it too large.        *)
BySize(sizes, bytes) ==
  LET Put(chunks, d) ==
        IF chunks # <<>> /\ Size(sizes, Last(chunks)) + sizes[d] <= bytes
          THEN Append(Front(chunks), Append(Last(chunks), d))
          ELSE Append(chunks, <<d>>)
  IN  FoldLeft(Put, <<>>, [d \in DOMAIN sizes |-> d])

chunkSideDatums(sizes, number, bytes) ==
  CASE number > 0 -> ByNumber(Len(sizes), number)
    [] number <= 0 /\ bytes > 0 -> BySize(sizes, bytes)
    [] OTHER -> [d \in DOMAIN sizes |-> <<d>>]

Chunk == Pose("chunk") /\ answer' = chunkSideDatums(problem.sizes, problem.number, problem.bytes)

(* Chunking neither drops, doubles nor reorders a datum, keeps to the      *)
(* number of chunks asked for, and exceeds the size only with a single     *)
(* datum (datum_engine.go: "files are never split, merged, dropped, or     *)
(* reordered out of existence").                                           *)
ChunksKeepDatums ==
  problem.kind = "chunk" /\ answer # NoAnswer =>
    /\ FlattenSeq(answer) = [d \in DOMAIN problem.sizes |-> d]
    /\ problem.number > 0 => Len(answer) <= problem.number
    /\ problem.number = 0 /\ problem.bytes > 0 =>
         \A c \in ToSet(answer) : Len(c) > 1 => Size(problem.sizes, c) <= problem.bytes

----------------------------------------------------------------------------
(* Joins and groups.  view[m] is the set of files of member m that match   *)
(* its glob, each with its join key and its group key.                     *)
Members == {1, 2}
Side(m, f) == [member |-> m, file |-> f]
Bucket(view, m, key) == {f \in view[m] : f.join = key}
JoinKeys(view) == {f.join : f \in UNION {view[m] : m \in Members}}
Inner(view) == {k \in JoinKeys(view) : \A m \in Members : Bucket(view, m, k) # {}}

(* One datum per combination of the members' files with the same key.      *)
joinProduct(view, key) ==
  {{Side(1, f), Side(2, g)} : f \in Bucket(view, 1, key), g \in Bucket(view, 2, key)}

(* An outer member's files without a partner are datums of their own.      *)
OuterDatums(view, outer) ==
  UNION {{{Side(m, f)} : f \in {g \in view[m] : g.join \notin Inner(view)}} : m \in outer}

joinDatums(view, outer) ==
  UNION {joinProduct(view, k) : k \in Inner(view)} \cup OuterDatums(view, outer)

(* A group collects every member's files with the same key; with a join    *)
(* the pairs come first, and a pair whose keys disagree is dropped.        *)
groupDatums(view) ==
  {UNION {{Side(m, f) : f \in {g \in view[m] : g.group = k}} : m \in Members} :
     k \in {f.group : f \in UNION {view[m] : m \in Members}}}

joinUnits(view) == UNION {joinProduct(view, k) : k \in Inner(view)}
groupUnits(units) ==
  LET agreed == {u \in units : \A s, t \in u : s.file.group = t.file.group}
      KeyOf(u) == (CHOOSE s \in u : TRUE).file.group
  IN  {UNION {u \in agreed : KeyOf(u) = k} : k \in {KeyOf(u) : u \in agreed}}

Join == Pose("join") /\ answer' = joinDatums(problem.view, problem.outer)
Group == Pose("group") /\ answer' = groupDatums(problem.view)
GroupOfJoin == Pose("groupJoin") /\ answer' = groupUnits(joinUnits(problem.view))

(* Every datum of a join holds one file per member with one key, or one    *)
(* file of an outer member that has no partner; an outer member's file is  *)
(* never lost and an inner member's unmatched file never appears.          *)
JoinsMatchKeys ==
  problem.kind = "join" /\ answer # NoAnswer =>
    LET partner(m, f) == \E g \in problem.view[3 - m] : g.join = f.join
        in(m, f) == \E d \in answer : Side(m, f) \in d
    IN  /\ \A d \in answer : \A s, t \in d : s.file.join = t.file.join /\ (s.member = t.member => s = t)
        /\ \A m \in Members : \A f \in problem.view[m] :
             in(m, f) <=> (partner(m, f) \/ m \in problem.outer)
        /\ \A d \in answer : Cardinality(d) = 1 =>
             \A s \in d : ~partner(s.member, s.file)

(* Groups are disjoint by key and lose no file; with a join first, each    *)
(* file in a group has a partner in it.                                    *)
GroupsCollectKeys ==
  problem.kind \in {"group", "groupJoin"} /\ answer # NoAnswer =>
    /\ \A d \in answer : \A s, t \in d : s.file.group = t.file.group
    /\ \A d, e \in answer : d # e => d \cap e = {}
    /\ problem.kind = "group" =>
         UNION answer = UNION {{Side(m, f) : f \in problem.view[m]} : m \in Members}
    /\ problem.kind = "groupJoin" =>
         \A d \in answer : \A s \in d :
           \E t \in d : t.member # s.member /\ t.file.join = s.file.join

----------------------------------------------------------------------------
(* Unions.  A branch of a union is a repository, the cross of the two      *)
(* repositories (one copy of a file per combination it occurs in, below    *)
(* its repository's name) or a nested union of both (below its own name).  *)
(* view[r] is a function from r's paths to content hashes; the datums are  *)
(* a function from each distinct path to the copies merged there.          *)
MergeDistinct(f, g) == \* mutant of Merge: a copy of the same content is dropped
  [p \in DOMAIN f \cup DOMAIN g |->
     IF p \notin DOMAIN g THEN f[p] ELSE IF p \notin DOMAIN f \/ f[p] = g[p] THEN g[p]
     ELSE f[p] \o g[p]]

Merge(f, g) ==
  [p \in DOMAIN f \cup DOMAIN g |->
     (IF p \in DOMAIN f THEN f[p] ELSE <<>>) \o (IF p \in DOMAIN g THEN g[p] ELSE <<>>)]
Below(name, f) == [q \in {<<name>> \o p : p \in DOMAIN f} |-> f[Tail(q)]]
Copies(f, n) == [p \in (IF n = 0 THEN {} ELSE DOMAIN f) |-> [k \in 1 .. n |-> f[p]]]

unionBranchPaths(view, branch) ==
  LET times(r) == Cardinality(DOMAIN view[r]) IN
  CASE branch = "cross" -> Merge(Below("r", Copies(view["r"], times("s"))),
                                 Below("s", Copies(view["s"], times("r"))))
    [] branch = "union" -> Below("union", Merge(Copies(view["r"], 1), Copies(view["s"], 1)))
    [] OTHER -> Copies(view[branch], 1)

(* The branches' files at the same path are concatenated in branch order.  *)
unionDatums(view, branches) ==
  FoldLeft(LAMBDA f, b : Merge(f, unionBranchPaths(view, b)), Copies(view["r"], 0), branches)

RemoveFile(view, r, p) == [view EXCEPT ![r] = [q \in DOMAIN @ \ {p} |-> @[q]]]

Union ==
  /\ Pose("union")
  /\ answer' = <<unionDatums(problem.view, problem.branches),
                 unionDatums(RemoveFile(problem.view, problem.repo, problem.path), problem.branches)>>

(* The datums of a union change when a file of one of its branches is      *)
(* removed, also where another branch has a file of the same path and      *)
(* content (datum_engine.go: "detected as a removal in the next job rather *)
(* than hidden by identical content hashes").                              *)
RemovalsShow ==
  problem.kind = "union" /\ answer # NoAnswer =>
    LET other == IF problem.repo = "r" THEN "s" ELSE "r"
        exposed == \/ ToSet(problem.branches) \cap {problem.repo, "union"} # {}
                   \/ "cross" \in ToSet(problem.branches) /\ DOMAIN problem.view[other] # {}
    IN  exposed /\ problem.path \in DOMAIN problem.view[problem.repo] => answer[1] # answer[2]

----------------------------------------------------------------------------
(* Listing.  states[d] is the state of datum d; the pages of `limit` datums*)
(* are served in the order failed, recovered, success, the rest.           *)
datumStateRank(state) ==
  CASE state = "failed" -> 0 [] state = "recovered" -> 1 [] state = "success" -> 2 [] OTHER -> 3

Listing(states) ==
  SetToSortSeq(DOMAIN states, LAMBDA d, e :
    \/ datumStateRank(states[d]) < datumStateRank(states[e])
    \/ datumStateRank(states[d]) = datumStateRank(states[e]) /\ d < e)

(* Mutant of TotalPages: rounded down.                                     *)
TotalPagesDown(n, limit) == IF limit > 0 THEN n \div limit ELSE 1

TotalPages(n, limit) == IF limit > 0 THEN (n + limit - 1) \div limit ELSE 1

(* The page's datums, or an error beyond the last page.  Of a job without  *)
(* datums every page but the first is a slice out of range: the handler    *)
(* panics.                                                                 *)
Error == <<"error">>
Panic == <<"panic">>
listDatums(states, limit, page) ==
  LET n == Len(states) IN
  CASE limit <= 0 -> Listing(states)
    [] limit > 0 /\ n > 0 /\ page >= TotalPages(n, limit) -> Error
    [] limit > 0 /\ n = 0 /\ page > 0 -> Panic
    [] OTHER -> SubSeq(Listing(states), page * limit + 1, Min({n, page * limit + limit}))

List ==
  /\ Pose("list")
  /\ answer' = [page \in 0 .. TotalPages(Len(problem.states), problem.limit) + 1 |->
                  listDatums(problem.states, problem.limit, page)]

(* The pages, one after the other, show every datum once and the failed    *)
(* ones first, and the page after the last one is an error.                *)
PagesCoverListing ==
  problem.kind = "list" /\ answer # NoAnswer =>
    LET total == TotalPages(Len(problem.states), problem.limit)
        shown == FlattenSeq([k \in 1 .. total |-> answer[k - 1]])
    IN  /\ Len(shown) = Len(problem.states)
        /\ ToSet(shown) = DOMAIN problem.states
        /\ \A i, j \in DOMAIN shown : i < j =>
             (problem.states[shown[j]] = "failed" => problem.states[shown[i]] = "failed")
        /\ problem.limit > 0 /\ problem.states # <<>> => answer[total] = Error

(* Every page past the end is an error (datum_api.go: "A page index at or  *)
(* beyond the total page count errors rather than returning an empty       *)
(* page").  It fails for a job without datums: page 0 is served empty, and *)
(* any later page panics.                                                  *)
PagesEnd ==
  problem.kind = "list" /\ answer # NoAnswer =>
    \A page \in DOMAIN answer :
      problem.limit > 0 /\ page >= TotalPages(Len(problem.states), problem.limit) =>
        answer[page] = Error

(* Forming the datums of an input loses no file, doubles none and pairs    *)
(* none wrongly, whichever way the input is built.                         *)
InputsCovered ==
  GlobsPartition /\ ChunksKeepDatums /\ JoinsMatchKeys /\ GroupsCollectKeys /\ RemovalsShow

----------------------------------------------------------------------------
Next == Enumerate \/ Chunk \/ Join \/ Group \/ GroupOfJoin \/ Union \/ List
Spec == Init /\ [][Next]_vars
=============================================================================
