------------------------------- MODULE Store -------------------------------
(***************************************************************************)
(* The versioned store (internal/store/store.go) and the branch retarget   *)
(* of the API (api.go: createBranch): repositories of commits, branch refs *)
(* and the resolved views that commits give.                               *)
(*                                                                         *)
(* Every method of the store holds the store's lock from its checks to its *)
(* last write, so each is one action.  createBranch does not: it loads the *)
(* commit, and moves the ref in a second step.                             *)
(*                                                                         *)
(* A path is a non-empty sequence of names; content is a non-empty         *)
(* sequence of the pieces clients write and of commit ids, and a blob, as  *)
(* its hash names it, is its content.  Empty files, case-insensitive file  *)
(* systems, legacy records and I/O errors are left out; so is the force    *)
(* flag that the deletion of a pipeline's output repository asks for.      *)
(***************************************************************************)
EXTENDS Naturals, Selection

CONSTANTS
  Repos, Branches, Commits,
  Names,         \* the components of paths
  PathOrder,     \* the paths in use, in the byte order of their strings
  Marker,        \* the path .git/HEAD
  Contents,      \* the pieces of content clients write
  NoCommit, NoBranch,
  Protected,     \* the internal spec repository
  MayDeleteRepo, \* clients delete repositories
  RetargetOpen,  \* clients point branches at open commits too
  MaxOps         \* bound: write operations in all

Paths == {PathOrder[i] : i \in DOMAIN PathOrder}

ASSUME StoreAssumption ==
  /\ NoCommit \notin Commits /\ NoBranch \notin Branches
  /\ PathOrder \in Seq(Seq(Names))
  /\ Protected \subseteq Repos
  /\ MayDeleteRepo \in BOOLEAN /\ RetargetOpen \in BOOLEAN
  /\ MaxOps \in Nat

(* Byte order has a path before what is below it.                          *)
ASSUME OrderAssumption ==
  \A i, j \in DOMAIN PathOrder : IsStrictPrefix(PathOrder[i], PathOrder[j]) => i < j

VARIABLES
  repos,     \* the repositories that exist
  rec,       \* each commit's record
  heads,     \* refs/<branch> of each repository
  default,   \* the repository's default marker
  retarget,  \* the createBranch request between its two steps
  written    \* write operations so far

vars == <<repos, rec, heads, default, retarget, written>>

Ops == [kind : {"append", "overwrite", "delete"}, path : Paths,
        content : Seq(Contents \cup Commits)]

NoRetarget == [repo |-> NoBranch, branch |-> NoBranch, head |-> NoCommit]
NoRecord == [status |-> "none", repo |-> NoBranch, branch |-> NoBranch,
             parent |-> NoCommit, empty |-> FALSE, ops |-> <<>>]

Records == [status : {"none", "open", "finished", "gone"},
            repo : Repos \cup {NoBranch}, branch : Branches \cup {NoBranch},
            parent : Commits \cup {NoCommit}, empty : BOOLEAN, ops : Seq(Ops)]

TypeOK ==
  /\ repos \subseteq Repos
  /\ rec \in [Commits -> Records]
  /\ heads \in [Repos -> [Branches -> Commits \cup {NoCommit}]]
  /\ default \in [Repos -> Branches \cup {NoBranch}]
  /\ retarget \in [repo : Repos, branch : Branches, head : Commits] \cup {NoRetarget}
  /\ written \in Nat

(* A store with these repositories and nothing in them.                    *)
Empty(existing) ==
  /\ repos = existing
  /\ rec = [c \in Commits |-> NoRecord]
  /\ heads = [r \in Repos |-> [b \in Branches |-> NoCommit]]
  /\ default = [r \in Repos |-> NoBranch]
  /\ retarget = NoRetarget
  /\ written = 0

(* Repositories are made on demand.                                        *)
Init == Empty({})

----------------------------------------------------------------------------
(* Views.                                                                  *)

Present(c) == rec[c].status \in {"open", "finished"}
Open(c) == rec[c].status = "open"
Finished(c) == rec[c].status = "finished"

(* Mutant of Continues: an empty commit is no barrier.                     *)
ContinuesBelowEmpty(p) == Present(p)

(* ResolveView's walk up the ancestry, oldest first.  It stops at a commit *)
(* without a parent, at a parent whose record is gone, and below an empty  *)
(* commit.                                                                 *)
Continues(p) == Present(p) /\ ~rec[p].empty

Lineage(c) ==
  LET up[d \in Commits] ==
        LET p == rec[d].parent
        IN  IF p \in Commits /\ Continues(p) THEN Append(up[p], d) ELSE <<d>>
  IN  IF rec[c].empty THEN <<>> ELSE up[c]

(* A view gives each path its content; an absent path has none.            *)
NoFiles == [p \in Paths |-> <<>>]

(* One write operation replayed on a view.                                 *)
ApplyOp(view, op) ==
  [view EXCEPT ![op.path] =
     CASE op.kind = "delete" -> <<>>
       [] op.kind = "overwrite" -> op.content
       [] op.kind = "append" -> @ \o op.content]

LineageOps(c) ==
  LET chain == Lineage(c) IN FlattenSeq([i \in DOMAIN chain |-> rec[chain[i]].ops])

ResolveView(c) == FoldLeft(ApplyOp, NoFiles, LineageOps(c))

Files(view) == {p \in Paths : view[p] # <<>>}

(* Mutant of pathConflict: the comparison starts one path late.            *)
pathConflictLate(view) ==
  LET sorted == Selected(PathOrder, Files(view))
  IN  \E i \in 3 .. Len(sorted) : IsStrictPrefix(sorted[i - 1], sorted[i])

(* pathConflict: the paths are sorted and each is compared with the next.  *)
pathConflict(view) ==
  LET sorted == Selected(PathOrder, Files(view))
  IN  \E i \in 2 .. Len(sorted) : IsStrictPrefix(sorted[i - 1], sorted[i])

----------------------------------------------------------------------------
(* Repositories and branches.                                              *)

CreateRepo(r) ==
  /\ r \notin repos
  /\ repos' = repos \cup {r}
  /\ UNCHANGED <<rec, heads, default, retarget, written>>

(* The repository's directory goes: its commits, refs and default marker.  *)
DeleteRepo(r) ==
  /\ MayDeleteRepo
  /\ r \in repos \ Protected
  /\ repos' = repos \ {r}
  /\ rec' = [c \in Commits |->
               IF Present(c) /\ rec[c].repo = r
                 THEN [NoRecord EXCEPT !.status = "gone"] ELSE rec[c]]
  /\ heads' = [heads EXCEPT ![r] = [b \in Branches |-> NoCommit]]
  /\ default' = [default EXCEPT ![r] = NoBranch]
  /\ UNCHANGED <<retarget, written>>

(* SetHead moves a ref, making the directories it needs; the first branch  *)
(* of a repository becomes its default.                                    *)
SetHead(r, b, c) ==
  /\ heads' = [heads EXCEPT ![r][b] = c]
  /\ default' = [default EXCEPT ![r] = IF @ = NoBranch THEN b ELSE @]

(* Mutant of createBranch: the head is taken as it comes.                  *)
createBranchUnchecked(r, b, c) ==
  /\ retarget = NoRetarget
  /\ retarget' = [repo |-> r, branch |-> b, head |-> c]
  /\ UNCHANGED <<repos, rec, heads, default, written>>

(* createBranch loads the commit and checks its repository ...             *)
createBranch(r, b, c) ==
  /\ retarget = NoRetarget
  /\ Present(c) /\ rec[c].repo = r
  /\ Open(c) => RetargetOpen
  /\ retarget' = [repo |-> r, branch |-> b, head |-> c]
  /\ UNCHANGED <<repos, rec, heads, default, written>>

(* Mutant of MoveRef: the request is only half forgotten.                  *)
MoveRefKeepsRequest ==
  /\ retarget # NoRetarget
  /\ SetHead(retarget.repo, retarget.branch, retarget.head)
  /\ repos' = repos \cup {retarget.repo}
  /\ retarget' = [retarget EXCEPT !.head = NoCommit]
  /\ UNCHANGED <<rec, written>>

(* ... and moves the ref.                                                  *)
MoveRef ==
  /\ retarget # NoRetarget
  /\ SetHead(retarget.repo, retarget.branch, retarget.head)
  /\ repos' = repos \cup {retarget.repo}
  /\ retarget' = NoRetarget
  /\ UNCHANGED <<rec, written>>

(* DeleteBranch: the default branch is protected.                          *)
DeleteBranch(r, b) ==
  /\ r \in repos
  /\ default[r] # b
  /\ heads[r][b] # NoCommit
  /\ heads' = [heads EXCEPT ![r][b] = NoCommit]
  /\ UNCHANGED <<repos, rec, default, retarget, written>>

----------------------------------------------------------------------------
(* Commits.                                                                *)

(* Mutant of StartCommit: the ref moves when the commit starts.            *)
StartCommitMovesHead(r, b, c) ==
  /\ rec[c].status = "none"
  /\ repos' = repos \cup {r}
  /\ rec' = [rec EXCEPT ![c] = [status |-> "open", repo |-> r, branch |-> b,
                                parent |-> heads[r][b], empty |-> FALSE, ops |-> <<>>]]
  /\ SetHead(r, b, c)
  /\ UNCHANGED <<retarget, written>>

(* StartCommit opens a commit, creating the repository if there is none;   *)
(* its parent is the branch's head.                                        *)
StartCommit(r, b, c) ==
  /\ rec[c].status = "none"
  /\ repos' = repos \cup {r}
  /\ rec' = [rec EXCEPT ![c] = [status |-> "open", repo |-> r, branch |-> b,
                                parent |-> heads[r][b], empty |-> FALSE, ops |-> <<>>]]
  /\ UNCHANGED <<heads, default, retarget, written>>

(* Mutant of AppendOps: a finished commit takes writes.                    *)
AppendOpsAlways(c, ops) ==
  /\ Present(c)
  /\ written + Len(ops) <= MaxOps
  /\ rec' = [rec EXCEPT ![c].ops = @ \o ops]
  /\ written' = written + Len(ops)
  /\ UNCHANGED <<repos, heads, default, retarget>>

(* Operations appended to the record of an open commit.                    *)
AppendOps(c, ops) ==
  /\ Open(c)
  /\ written + Len(ops) <= MaxOps
  /\ rec' = [rec EXCEPT ![c].ops = @ \o ops]
  /\ written' = written + Len(ops)
  /\ UNCHANGED <<repos, heads, default, retarget>>

Op(k, p, x) == [kind |-> k, path |-> p, content |-> x]

PutFile(c, p, x) == AppendOps(c, <<Op("append", p, <<x>>)>>)
OverwriteFile(c, p, x) == AppendOps(c, <<Op("overwrite", p, <<x>>)>>)
DeleteFile(c, p) == AppendOps(c, <<Op("delete", p, <<>>)>>)

(* The files a copy of src to dst moves: the file src itself, or every     *)
(* file below the directory src.                                           *)
Moves(view, src, dst) ==
  IF view[src] # <<>> THEN {[from |-> src, to |-> dst]}
  ELSE {[from |-> p, to |-> dst \o SubSeq(p, Len(src) + 1, Len(p))] :
          p \in {q \in Files(view) : IsStrictPrefix(src, q)}}

(* CopyFile: without overwrite no destination may exist in the commit's    *)
(* view.  The copies land in one write of the record; their destinations   *)
(* differ, so their order does not matter.  Bound: destinations in Paths.  *)
CopyFile(c, dst, from, src, overwrite) ==
  LET view == ResolveView(from)
      moves == Moves(view, src, dst)
      copy == SetToSeq(moves)
  IN  /\ Open(c) /\ Present(from)
      /\ moves # {}
      /\ \A m \in moves : m.to \in Paths
      /\ overwrite \/ \A m \in moves : ResolveView(c)[m.to] = <<>>
      /\ AppendOps(c, [i \in DOMAIN copy |->
                         Op(IF overwrite THEN "overwrite" ELSE "append",
                            copy[i].to, view[copy[i].from])])

WritesMarker(c) == \E i \in DOMAIN rec[c].ops : rec[c].ops[i].path = Marker

(* Mutant of MarkerOps: an inherited marker stays.                         *)
MarkerOpsNone(c) == <<>>

(* FinishCommit's marker normalisation: a commit that inherits a marker    *)
(* records itself in it.                                                   *)
MarkerOps(c) ==
  IF Marker \in Paths /\ ~WritesMarker(c) /\ ResolveView(c)[Marker] \notin {<<>>, <<c>>}
    THEN <<Op("overwrite", Marker, <<c>>)>> ELSE <<>>

(* FinishCommit: a type conflict fails it; otherwise the record is saved   *)
(* finished and the ref of the commit's branch moves to it.                *)
FinishCommit(c, empty) ==
  /\ Open(c)
  /\ ~pathConflict(ResolveView(c))
  /\ rec' = [rec EXCEPT ![c].ops = @ \o MarkerOps(c),
                        ![c].empty = empty,
                        ![c].status = "finished"]
  /\ SetHead(rec[c].repo, rec[c].branch, c)
  /\ UNCHANGED <<repos, retarget, written>>

----------------------------------------------------------------------------
RepoNext(r) ==
  \/ CreateRepo(r) \/ DeleteRepo(r)
  \/ \E b \in Branches : DeleteBranch(r, b)
  \/ \E b \in Branches, c \in Commits : createBranch(r, b, c) \/ StartCommit(r, b, c)

CommitNext(c) ==
  \/ \E p \in Paths, x \in Contents : PutFile(c, p, x) \/ OverwriteFile(c, p, x)
  \/ \E p \in Paths : DeleteFile(c, p)
  \/ \E dst, src \in Paths, from \in Commits, ow \in BOOLEAN : CopyFile(c, dst, from, src, ow)
  \/ \E empty \in BOOLEAN : FinishCommit(c, empty)

Next ==
  \/ \E r \in Repos : RepoNext(r)
  \/ \E c \in Commits : CommitNext(c)
  \/ MoveRef

Spec == Init /\ [][Next]_vars

----------------------------------------------------------------------------
(* Correctness.                                                            *)

(* A ref never points at a commit that is missing (the BackupTar comment), *)
(* nor into another repository, and its repository is there.               *)
RefsResolve ==
  \A r \in Repos, b \in Branches : heads[r][b] # NoCommit =>
    r \in repos /\ Present(heads[r][b]) /\ rec[heads[r][b]].repo = r

(* "The parent is the branch's finished head at start time" (StartCommit): *)
(* no commit is built on content that can still change.                    *)
ParentsFinished ==
  \A c \in Commits : Present(c) /\ rec[c].parent # NoCommit => Finished(rec[c].parent)

(* "Commit - an immutable revision": once a commit is finished, what it    *)
(* shows never changes, whatever is written, finished or retargeted later. *)
ViewsImmutable ==
  [][\A c \in Commits : Finished(c) /\ Finished(c)' => ResolveView(c)' = ResolveView(c)]_rec

(* No finished commit shows a path that is both a file and a directory     *)
(* (the comment at FinishCommit's conflict check), except where a path     *)
(* that it shows sorts between the file and what is below it.              *)
NoTypeConflict ==
  \A c \in Commits : Finished(c) =>
    LET shown == Files(ResolveView(c)) IN
    \A i, j \in DOMAIN PathOrder :
      {PathOrder[i], PathOrder[j]} \subseteq shown /\ IsStrictPrefix(PathOrder[i], PathOrder[j]) =>
        \E k \in i + 1 .. j - 1 : PathOrder[k] \in shown /\ ~IsStrictPrefix(PathOrder[i], PathOrder[k])

(* ... without the exception. It fails: the check compares neighbours.     *)
NeverFileAndDirectory ==
  \A c \in Commits : Finished(c) =>
    ~\E p, q \in Files(ResolveView(c)) : IsStrictPrefix(p, q)

(* What a view should be, path by path: nothing below an empty commit and  *)
(* nothing before the last write that reset the path.                      *)
Resets(op, p) == op.path = p /\ op.kind \in {"overwrite", "delete"}
Expected(ops, p) ==
  LET last == SelectLastInSeq(ops, LAMBDA op : Resets(op, p))
      kept == Selected(SubSeq(ops, IF last = 0 THEN 1 ELSE last, Len(ops)),
                       {op \in Ops : op.path = p /\ op.kind # "delete"})
  IN  FlattenSeq([i \in DOMAIN kept |-> kept[i].content])

(* A commit's view is its parent's with its own operations applied, an     *)
(* empty commit being a barrier, and each path holds exactly the appends   *)
(* since its last overwrite or delete (ResolveView, fileOp).               *)
ViewsCompose ==
  \A c \in Commits : Present(c) =>
    LET view == ResolveView(c)
        ops == LineageOps(c)
        parent == rec[c].parent
        base == IF parent = NoCommit THEN NoFiles ELSE ResolveView(parent)
    IN  /\ \A p \in Paths : view[p] = Expected(ops, p)
        /\ view = IF rec[c].empty THEN NoFiles ELSE FoldLeft(ApplyOp, base, rec[c].ops)

(* A commit never shows the delivery marker of a commit it builds on,      *)
(* unless a client wrote that marker into it: a base recorded before an    *)
(* authored commit no longer matches after it (the marker comment in       *)
(* FinishCommit).                                                          *)
MarkersTellApart ==
  \A c \in Commits : Finished(c) =>
    LET marker == ResolveView(c)[Marker] IN
    \A d \in ToSet(Lineage(c)) \ {c} :
      marker # <<>> /\ marker = ResolveView(d)[Marker] =>
        \E i \in DOMAIN rec[c].ops :
          rec[c].ops[i].path = Marker /\ rec[c].ops[i].content # <<c>>
=============================================================================
